---------------------------- MODULE TrainingProof ----------------------------
(***************************************************************************)
(* Proofs about Training, for every history and every configuration that   *)
(* is accepted: no fit is judged on a session whose features were known    *)
(* before its labels had come true, every fold that is asked for is made   *)
(* and none validates what another one has validated, and a replayed       *)
(* sample is what inference would have seen.                               *)
(*                                                                         *)
(* The embargo is counted in sessions of the data, a label in sessions of  *)
(* the calendar: between two sessions there are at least as many of the    *)
(* calendar as of the data.                                                *)
(*                                                                         *)
(* The second part is about Universe, who may be trained on: for every     *)
(* history of the index the intervals and the archive give its members of  *)
(* every day that was taken over, and no member lacks its backfill.        *)
(***************************************************************************)
EXTENDS Training, Universe, FiniteSetTheorems, WellFoundedInduction, TLAPS

-----------------------------------------------------------------------------
(***************************************************************************)
(* Positions in a finite set of sessions.                                  *)
(***************************************************************************)

LEMMA PartIsFinite ==
  ASSUME NEW S, IsFiniteSet(S), NEW T \in SUBSET S
  PROVE  /\ IsFiniteSet(T)
         /\ Cardinality(T) \in Nat /\ Cardinality(S) \in Nat
         /\ Cardinality(T) <= Cardinality(S)
         /\ T # S => Cardinality(T) < Cardinality(S)
BY FS_Subset, FS_CardinalityType

\* What is up to one session is a part of what is up to a later one.
LEMMA UpToGrows ==
  ASSUME NEW S \in SUBSET Nat, IsFiniteSet(S), NEW x \in S, NEW y \in Nat, x < y
  PROVE  /\ Cardinality(UpTo(S, x - 1)) \in Nat
         /\ Cardinality(UpTo(S, y - 1)) \in Nat
         /\ Cardinality(UpTo(S, x - 1)) < Cardinality(UpTo(S, y - 1))
<1>. DEFINE X == UpTo(S, x - 1)
            Y == UpTo(S, y - 1)
<1>1. \A t \in S : t \in Nat /\ (t <= x - 1 => t <= y - 1)
  OBVIOUS
<1>2. Y \subseteq S /\ X \subseteq Y
  BY <1>1 DEF UpTo
<1>3. x \in Y /\ x \notin X
  BY DEF UpTo
<1>. HIDE DEF X, Y
<1>4. X \in SUBSET Y /\ Y \in SUBSET S /\ X # Y
  BY <1>2, <1>3
<1>5. IsFiniteSet(Y)
  BY <1>4, PartIsFinite
<1>6. Cardinality(X) \in Nat /\ Cardinality(Y) \in Nat /\ Cardinality(X) < Cardinality(Y)
  BY <1>4, <1>5, PartIsFinite
<1>. QED
  BY <1>6 DEF X, Y

\* There is a k-th session for every k below the number of sessions: counting the
\* earlier ones maps the set one to one, so onto, the positions.
LEMMA NthExists ==
  ASSUME NEW S \in SUBSET Nat, IsFiniteSet(S), NEW k \in 0..Cardinality(S) - 1
  PROVE  Nth(S, k) \in S /\ Cardinality(UpTo(S, Nth(S, k) - 1)) = k
<1>. DEFINE position == [x \in S |-> Cardinality(UpTo(S, x - 1))]
            n == Cardinality(S)
<1>1. n \in Nat
  BY FS_CardinalityType
<1>2. ASSUME NEW x \in S
      PROVE  Cardinality(UpTo(S, x - 1)) \in 0..n - 1
  <2>1. UpTo(S, x - 1) \in SUBSET S /\ x \notin UpTo(S, x - 1)
    BY DEF UpTo
  <2>. QED
    BY <1>1, <2>1, PartIsFinite
<1>3. ASSUME NEW x \in S, NEW y \in S, position[x] = position[y]
      PROVE  x = y
  <2>1. x \in Nat /\ y \in Nat
    OBVIOUS
  <2>2. Cardinality(UpTo(S, x - 1)) = Cardinality(UpTo(S, y - 1))
    BY <1>3
  <2>3. CASE x < y
    BY <2>1, <2>2, <2>3, UpToGrows
  <2>4. CASE y < x
    BY <2>1, <2>2, <2>4, UpToGrows
  <2>. QED
    BY <2>1, <2>3, <2>4
<1>4. position \in Injection(S, 0..n - 1)
  <2>1. position \in [S -> 0..n - 1]
    BY <1>2
  <2>. HIDE DEF position
  <2>. QED
    BY <1>3, <2>1 DEF Injection, IsInjective
<1>5. IsFiniteSet(0..n - 1) /\ Cardinality(0..n - 1) = n
  BY <1>1, FS_Interval
<1>6. position \in Surjection(S, 0..n - 1)
  <2>. HIDE DEF position
  <2>. QED
    BY <1>4, <1>5, FS_Injection
<1>7. PICK x \in S : position[x] = k
  BY <1>6 DEF Surjection
<1>8. \E y \in S : Cardinality(UpTo(S, y - 1)) = k
  BY <1>7
<1>. QED
  BY <1>8 DEF Nth

\* Later positions are later sessions.
LEMMA NthGrows ==
  ASSUME NEW S \in SUBSET Nat, IsFiniteSet(S),
         NEW k \in 0..Cardinality(S) - 1, NEW l \in 0..Cardinality(S) - 1, k < l
  PROVE  Nth(S, k) < Nth(S, l)
<1>1. Nth(S, k) \in S /\ Cardinality(UpTo(S, Nth(S, k) - 1)) = k
  BY NthExists
<1>2. Nth(S, l) \in S /\ Cardinality(UpTo(S, Nth(S, l) - 1)) = l
  BY NthExists
<1>3. k \in Int /\ l \in Int /\ Nth(S, k) \in Nat /\ Nth(S, l) \in Nat
  <2>1. Cardinality(S) \in Nat
    BY FS_CardinalityType
  <2>2. k \in Int /\ l \in Int
    BY <2>1
  <2>3. Nth(S, k) \in Nat /\ Nth(S, l) \in Nat
    BY <1>1, <1>2
  <2>. QED
    BY <2>2, <2>3
<1>4. Nth(S, l) < Nth(S, k) => l < k
  <2>. DEFINE a == Nth(S, l)
              b == Nth(S, k)
  <2>. HIDE DEF a, b
  <2>1. a \in S /\ b \in Nat /\ Cardinality(UpTo(S, a - 1)) = l /\ Cardinality(UpTo(S, b - 1)) = k
    BY <1>1, <1>2, <1>3 DEF a, b
  <2>2. a < b => l < k
    BY <2>1, UpToGrows
  <2>. QED
    BY <2>2 DEF a, b
<1>5. Nth(S, k) # Nth(S, l)
  BY <1>1, <1>2, <1>3
<1>. QED
  BY <1>3, <1>4, <1>5

-----------------------------------------------------------------------------
(***************************************************************************)
(* The embargo.                                                            *)
(***************************************************************************)

LEMMA EmbargoIsPositive ==
  ASSUME NEW horizon \in Horizons
  PROVE  Embargo(horizon) \in Nat \ {0}
BY TrainingAssumption DEF ConfigValid, Embargo

\* Between two sessions there are at least as many days as sessions of the data.
LEMMA DaysBetween ==
  ASSUME NEW S \in SUBSET Nat, NEW e \in Nat, NEW l \in Nat, e < l
  PROVE  LET gap == {t \in S : e < t /\ t < l} IN
           Cardinality(gap) \in Nat /\ Cardinality(gap) <= l - e - 1
<1>. DEFINE gap == {t \in S : e < t /\ t < l}
            days == (e + 1)..(l - 1)
<1>1. \A t \in S : t \in Nat /\ (e < t /\ t < l => t \in days)
  OBVIOUS
<1>2. gap \subseteq days
  BY <1>1
<1>3. IsFiniteSet(days) /\ Cardinality(days) = l - e - 1
  <2>1. e + 1 \in Int /\ l - 1 \in Int
    OBVIOUS
  <2>2. /\ IsFiniteSet(days)
        /\ Cardinality(days) = IF e + 1 > l - 1 THEN 0 ELSE (l - 1) - (e + 1) + 1
    BY <2>1, FS_Interval
  <2>. HIDE DEF days
  <2>. QED
    BY <2>2
<1>. HIDE DEF gap, days
<1>4. Cardinality(gap) \in Nat /\ Cardinality(gap) <= Cardinality(days)
  BY <1>2, <1>3, PartIsFinite
<1>5. Cardinality(gap) \in Nat /\ Cardinality(gap) <= l - e - 1
  BY <1>3, <1>4
<1>. QED
  BY <1>5 DEF gap

\* The gap between two ranges is as long as the embargo, in days of the calendar too.
LEMMA GapIsLongEnough ==
  ASSUME NEW S \in SUBSET Nat, NEW earlier, NEW later,
         earlier[2] \in Nat, later[1] \in Nat, world.horizon \in Horizons,
         TimeOrdered(earlier, later, S)
  PROVE  later[1] > earlier[2] + Embargo(world.horizon)
<1>1. PICK e \in Nat, l \in Nat : e = earlier[2] /\ l = later[1]
  OBVIOUS
<1>2. e < l /\ Cardinality({t \in S : e < t /\ t < l}) >= Embargo(world.horizon)
  BY <1>1 DEF TimeOrdered
<1>. DEFINE n == Cardinality({t \in S : e < t /\ t < l})
<1>3. n \in Nat /\ n <= l - e - 1
  BY <1>2, DaysBetween
<1>4. Embargo(world.horizon) \in Nat /\ n >= Embargo(world.horizon)
  BY <1>2, EmbargoIsPositive
<1>. HIDE DEF n
<1>5. l > e + Embargo(world.horizon)
  BY <1>2, <1>3, <1>4
<1>. QED
  BY <1>1, <1>5

Less == {p \in Nat \X Nat : p[1] < p[2]}

LEMMA LessIsWellFounded == IsWellFoundedOn(Less, Nat)
<1>1. OpToRel(<, Nat) = Less
  BY DEF OpToRel, Less
<1>. QED
  BY <1>1, NatLessThanWellFounded

\* A set of naturals has its least element as Min.
LEMMA LeastNatural ==
  ASSUME NEW S \in SUBSET Nat, S # {}
  PROVE  Min(S) \in S /\ \A y \in S : Min(S) <= y
<1>1. PICK x \in S : \A y \in S : ~(<<y, x>> \in Less)
  BY LessIsWellFounded, WFMin
<1>2. ASSUME NEW y \in S
      PROVE  x <= y
  <2>1. x \in Nat /\ y \in Nat /\ ~(<<y, x>> \in Less)
    BY <1>1
  <2>. QED
    BY <2>1 DEF Less
<1>. QED
  BY <1>2 DEF Min

LEMMA MaxOfTwo ==
  ASSUME NEW a \in Int, NEW b \in Int
  PROVE  Max({a, b}) = IF a >= b THEN a ELSE b
<1>. DEFINE m == IF a >= b THEN a ELSE b
<1>1. m \in {a, b} /\ \A y \in {a, b} : m >= y
  OBVIOUS
<1>2. \A x \in {a, b} : (\A y \in {a, b} : x >= y) => x = m
  OBVIOUS
<1>. QED
  BY <1>1, <1>2 DEF Max

\* A label that is an embargo back has come true before a sample is known.
LEMMA LabelIsKnown ==
  ASSUME NEW s \in Nat, NEW v \in Nat, world.horizon \in Horizons,
         v > s + Embargo(world.horizon)
  PROVE  Close(Target(s)) < CutoffFor(v)
<1>1. NextSessions \in Nat \ {0}
  BY TrainingAssumption DEF ConfigValid
<1>2. CASE world.horizon = "next_5d"
  BY <1>1, <1>2 DEF Close, Target, CutoffFor, Cutoff0945, Embargo
<1>3. CASE world.horizon = "today_close"
  BY <1>3 DEF Close, Target, CutoffFor, Cutoff0945, Embargo
<1>. QED
  BY <1>2, <1>3 DEF Horizons

-----------------------------------------------------------------------------
(***************************************************************************)
(* The folds.                                                              *)
(***************************************************************************)

LEMMA Quotient ==
  ASSUME NEW a \in Nat, NEW b \in Nat \ {0}
  PROVE  a \div b \in Nat /\ b * (a \div b) <= a /\ a < b * (a \div b) + b
OBVIOUS

LEMMA ProductGrows ==
  ASSUME NEW b \in Nat, NEW x \in Nat, NEW y \in Nat, x <= y
  PROVE  b * x \in Nat /\ b * y \in Nat /\ b * x <= b * y
OBVIOUS

\* A step is long enough for a window and an embargo, and all of them fit.
LEMMA StepFits ==
  ASSUME NEW n \in Nat, NEW e \in Nat, n >= Needed(e)
  PROVE  /\ FoldStep(n, e) \in Nat
         /\ MinTrain + e + ValidLength <= n
         /\ (FoldCount - 1) * FoldStep(n, e) <= n - MinTrain - e - ValidLength
         /\ FoldCount > 1 => FoldStep(n, e) >= ValidLength + e
<1>1. /\ MinTrain \in Nat \ {0} /\ FoldCount \in Nat \ {0} /\ ValidLength \in Nat \ {0}
      /\ n >= MinTrain + FoldCount * (ValidLength + e)
  BY TrainingAssumption DEF ConfigValid, Needed
<1>. DEFINE w == ValidLength + e
            b == FoldCount - 1
            a == n - MinTrain - e - ValidLength
<1>2. w \in Nat /\ b \in Nat /\ FoldCount = b + 1
  BY <1>1
<1>3. b * w \in Nat /\ FoldCount * w = b * w + w
  <2>. HIDE DEF w, b
  <2>. QED
    BY <1>2
<1>4. a \in Nat /\ a >= b * w
  <2>1. a = n - MinTrain - w /\ n >= MinTrain + FoldCount * w
    BY <1>1
  <2>. HIDE DEF w, b, a
  <2>. QED
    BY <1>1, <1>2, <1>3, <2>1
<1>5. CASE b = 0
  <2>1. FoldStep(n, e) = 0 /\ ~(FoldCount > 1)
    BY <1>2, <1>5 DEF FoldStep
  <2>. QED
    BY <1>1, <1>2, <1>4, <1>5, <2>1
<1>6. CASE b # 0
  <2>. DEFINE q == a \div b
  <2>1. FoldStep(n, e) = q
    BY <1>1, <1>2, <1>6 DEF FoldStep
  <2>2. q \in Nat /\ b * q <= a /\ a < b * q + b
    <3>. HIDE DEF a, b
    <3>. QED
      BY <1>2, <1>4, <1>6, Quotient
  <2>. HIDE DEF q
  <2>3. q >= w
    <3>. HIDE DEF a, b, w
    <3>1. SUFFICES ASSUME q + 1 <= w
                   PROVE  FALSE
      BY <1>2, <2>2
    <3>2. b * (q + 1) <= b * w
      BY <1>2, <2>2, <3>1, ProductGrows
    <3>3. b * (q + 1) = b * q + b
      BY <1>2, <2>2
    <3>. QED
      BY <1>2, <1>3, <1>4, <2>2, <3>2, <3>3
  <2>. QED
    BY <1>1, <1>2, <1>4, <2>1, <2>2, <2>3
<1>. QED
  BY <1>5, <1>6

\* Every fold fits, and validates behind its training part.
LEMMA FoldFits ==
  ASSUME NEW n \in Nat, NEW e \in Nat, n >= Needed(e), NEW i \in 0..FoldCount - 1
  PROVE  /\ \A k \in 1..3 : FoldAt(i, n, e)[k] \in 0..n - 1
         /\ FoldAt(i, n, e)[1] < FoldAt(i, n, e)[2]
<1>. DEFINE s == FoldStep(n, e)
            b == FoldCount - 1
<1>1. /\ s \in Nat /\ MinTrain + e + ValidLength <= n
      /\ b * s <= n - MinTrain - e - ValidLength
  BY StepFits
<1>2. MinTrain \in Nat \ {0} /\ ValidLength \in Nat \ {0} /\ b \in Nat /\ i \in Nat /\ i <= b
  BY TrainingAssumption DEF ConfigValid
<1>3. i * s \in Nat /\ i * s <= b * s
  <2>. HIDE DEF s, b
  <2>1. s * i \in Nat /\ s * i <= s * b /\ s * i = i * s /\ s * b = b * s
    BY <1>1, <1>2, ProductGrows
  <2>. QED
    BY <2>1
<1>4. FoldAt(i, n, e) = <<MinTrain - 1 + i * s, MinTrain - 1 + i * s + 1 + e,
                          MinTrain - 1 + i * s + e + ValidLength>>
  BY DEF FoldAt
<1>. HIDE DEF s, b
<1>5. PICK p \in Nat : p = i * s /\ p <= n - MinTrain - e - ValidLength
  <2>1. b * s \in Nat
    BY <1>1, <1>2
  <2>. QED
    BY <1>1, <1>2, <1>3, <2>1
<1>. QED
  BY <1>1, <1>2, <1>4, <1>5

\* Windows of different folds have nothing in common.
LEMMA FoldsAreDisjoint ==
  ASSUME NEW n \in Nat, NEW e \in Nat, n >= Needed(e),
         NEW i \in 0..FoldCount - 1, NEW j \in 0..FoldCount - 1, i < j
  PROVE  FoldAt(i, n, e)[3] < FoldAt(j, n, e)[2]
<1>. DEFINE s == FoldStep(n, e)
<1>1. s \in Nat /\ s >= ValidLength + e
  <2>1. FoldCount > 1
    BY TrainingAssumption DEF ConfigValid
  <2>. QED
    BY <2>1, StepFits
<1>2. MinTrain \in Nat \ {0} /\ ValidLength \in Nat \ {0} /\ i \in Nat /\ j \in Nat /\ i + 1 <= j
  BY TrainingAssumption DEF ConfigValid
<1>3. /\ FoldAt(i, n, e)[3] = MinTrain - 1 + i * s + e + ValidLength
      /\ FoldAt(j, n, e)[2] = MinTrain - 1 + j * s + 1 + e
  BY DEF FoldAt
<1>. HIDE DEF s
<1>4. i * s \in Nat /\ j * s \in Nat /\ i * s + s <= j * s
  <2>1. s * (i + 1) <= s * j
    BY <1>1, <1>2, ProductGrows
  <2>. QED
    BY <1>1, <1>2, <2>1
<1>5. PICK p \in Nat, q \in Nat : p = i * s /\ q = j * s /\ p + s <= q
  BY <1>4
<1>. QED
  BY <1>1, <1>2, <1>3, <1>5

-----------------------------------------------------------------------------
(***************************************************************************)
(* The invariant.                                                          *)
(***************************************************************************)

Fitting == {"fit", "final", "release", "done"}

MadeFolds == WalkForward(Embargo(world.horizon))

\* The two parts are in order, with the gap between them.
SplitOK ==
  stage \in {"fold"} \cup Fitting =>
    dev[2] \in Nat /\ test[1] \in Nat /\ TimeOrdered(dev, test, Usable)

\* The development part is long enough, and what is left to do is in order.
FoldsOK ==
  stage \in Fitting =>
    /\ Cardinality(DevSessions) >= Needed(Embargo(world.horizon))
    /\ folds \subseteq MadeFolds
    /\ \A f \in folds : TimeOrdered(f.train, f.valid, DevSessions)

\* A prediction comes from the window of its fold.
OosOK ==
  /\ stage \notin Fitting => oos = {}
  /\ \A p \in oos : \E f \in MadeFolds : p = <<f.index, p[2]>> /\ p[2] \in SamplesIn(f.valid)

IInv ==
  /\ world \in Worlds
  /\ stage \in {"replay", "split", "fold", "failed"} \cup Fitting
  /\ samples \subseteq world.bars
  /\ SplitOK
  /\ FoldsOK
  /\ OosOK
  /\ NoLookAhead

LEMMA WorldTypes ==
  ASSUME world \in Worlds, samples \subseteq world.bars
  PROVE  /\ world.horizon \in Horizons
         /\ samples \subseteq Nat
         /\ Usable \in SUBSET Nat /\ IsFiniteSet(Usable)
         /\ DevSessions \in SUBSET Nat /\ IsFiniteSet(DevSessions)
         /\ DevSessions \subseteq Usable
         /\ Cardinality(DevSessions) \in Nat
         /\ Cardinality(Usable) \in Nat
<1>1. /\ world.horizon \in Horizons
      /\ IsFiniteSet(world.sessions) /\ world.sessions \subseteq Nat
      /\ world.bars \subseteq world.sessions
  BY WorldsAssumption
<1>2. Usable \in SUBSET world.sessions /\ DevSessions \in SUBSET world.sessions /\ DevSessions \subseteq Usable
  BY DEF Usable, DevSessions
<1>. QED
  BY <1>1, <1>2, PartIsFinite

\* Where the folds of a long enough development part lie.
LEMMA FoldsLie ==
  ASSUME world \in Worlds, samples \subseteq world.bars,
         Cardinality(DevSessions) >= Needed(Embargo(world.horizon)),
         NEW f \in MadeFolds
  PROVE  /\ f.index \in 0..FoldCount - 1
         /\ f.train[2] \in DevSessions /\ f.valid[1] \in DevSessions /\ f.valid[2] \in DevSessions
         /\ f.valid[2] <= dev[2]
         /\ \A g \in MadeFolds : f.index < g.index => f.valid[2] < g.valid[1]
<1>. DEFINE n == Cardinality(DevSessions)
            e == Embargo(world.horizon)
<1>1. /\ DevSessions \in SUBSET Nat /\ IsFiniteSet(DevSessions) /\ n \in Nat
      /\ e \in Nat /\ n >= Needed(e)
  BY WorldTypes, EmbargoIsPositive
<1>2. \A g \in MadeFolds :
        /\ g.index \in 0..FoldCount - 1
        /\ g.train[2] = Nth(DevSessions, FoldAt(g.index, n, e)[1])
        /\ g.valid[1] = Nth(DevSessions, FoldAt(g.index, n, e)[2])
        /\ g.valid[2] = Nth(DevSessions, FoldAt(g.index, n, e)[3])
  BY DEF MadeFolds, WalkForward
<1>. HIDE DEF n, e
<1>3. ASSUME NEW g \in MadeFolds, NEW k \in 1..3
      PROVE  /\ FoldAt(g.index, n, e)[k] \in 0..n - 1
             /\ Nth(DevSessions, FoldAt(g.index, n, e)[k]) \in DevSessions
  <2>1. FoldAt(g.index, n, e)[k] \in 0..n - 1
    BY <1>1, <1>2, FoldFits
  <2>. QED
    BY <1>1, <2>1, NthExists DEF n
<1>4. /\ f.index \in 0..FoldCount - 1
      /\ f.train[2] \in DevSessions /\ f.valid[1] \in DevSessions /\ f.valid[2] \in DevSessions
  BY <1>2, <1>3
<1>5. f.valid[2] <= dev[2]
  BY <1>4 DEF DevSessions
<1>6. ASSUME NEW g \in MadeFolds, f.index < g.index
      PROVE  f.valid[2] < g.valid[1]
  <2>1. FoldAt(f.index, n, e)[3] < FoldAt(g.index, n, e)[2]
    BY <1>1, <1>2, <1>6, FoldsAreDisjoint
  <2>2. FoldAt(f.index, n, e)[3] \in 0..n - 1 /\ FoldAt(g.index, n, e)[2] \in 0..n - 1
    BY <1>3
  <2>. QED
    BY <1>1, <1>2, <2>1, <2>2, NthGrows DEF n
<1>. QED
  BY <1>4, <1>5, <1>6

-----------------------------------------------------------------------------
(***************************************************************************)
(* Every step keeps the invariant.                                         *)
(***************************************************************************)

LEMMA InitInv ==
  ASSUME Init
  PROVE  IInv
BY DEF Init, IInv, Fitting, SplitOK, FoldsOK, OosOK, NoLookAhead

LEMMA BuildSamplesStep ==
  ASSUME IInv, BuildSamples
  PROVE  IInv'
<1>1. samples' \subseteq world'.bars /\ stage' \in {"failed", "split"} /\ world' = world
  BY DEF BuildSamples
<1>2. SplitOK' /\ FoldsOK'
  BY <1>1 DEF SplitOK, FoldsOK, Fitting
<1>3. OosOK'
  BY DEF BuildSamples, IInv, OosOK, Fitting
<1>4. NoLookAhead'
  BY DEF BuildSamples, IInv, NoLookAhead, Target, CutoffFor
<1>. QED
  BY <1>1, <1>2, <1>3, <1>4 DEF IInv

\* The last session of the development part and the first one of the test part.
LEMMA SplitStep ==
  ASSUME IInv, Split
  PROVE  IInv'
<1>. DEFINE n == Cardinality(Usable)
            e == Embargo(world.horizon)
            testLength == Max({1, n \div TestPart})
            devLength == n - testLength - e
<1>1. UNCHANGED <<world, samples, folds, fitted, oos>> /\ Usable' = Usable /\ oos = {}
  BY DEF Split, IInv, OosOK, Fitting, Usable
<1>2. FoldsOK' /\ OosOK'
  BY <1>1 DEF Split, FoldsOK, OosOK, Fitting
<1>3. NoLookAhead'
  BY <1>1 DEF IInv, NoLookAhead, Target, CutoffFor
<1>4. stage' \in {"failed", "fold"}
  BY DEF Split
<1>5. SplitOK'
  <2>1. CASE stage' = "failed"
    BY <2>1 DEF SplitOK, Fitting
  <2>2. CASE stage' = "fold"
    <3>1. /\ ~(devLength < MinTrain)
          /\ dev' = <<Nth(Usable, 0), Nth(Usable, devLength - 1)>>
          /\ test' = <<Nth(Usable, devLength + e), Max(Usable)>>
          /\ TimeOrdered(dev', test', Usable)
      BY <2>2 DEF Split
    <3>2. n \in Nat /\ e \in Nat /\ MinTrain \in Nat \ {0} /\ TestPart \in Nat \ {0}
      BY WorldTypes, EmbargoIsPositive, TrainingAssumption DEF IInv, ConfigValid
    <3>3. testLength \in Nat /\ testLength >= 1
      <4>1. n \div TestPart \in Nat
        BY <3>2, Quotient
      <4>2. PICK q \in Nat : q = n \div TestPart
        BY <4>1
      <4>3. Max({1, q}) \in Nat /\ Max({1, q}) >= 1
        BY MaxOfTwo
      <4>. QED
        BY <4>2, <4>3
    <3>. HIDE DEF n, e, testLength
    <3>4. devLength - 1 \in 0..n - 1 /\ devLength + e \in 0..n - 1
      BY <3>1, <3>2, <3>3
    <3>. HIDE DEF devLength
    <3>5. Nth(Usable, devLength - 1) \in Usable /\ Nth(Usable, devLength + e) \in Usable
      BY <3>4, NthExists, WorldTypes DEF IInv, n
    <3>6. dev'[2] \in Nat /\ test'[1] \in Nat
      BY <3>1, <3>5, WorldTypes DEF IInv
    <3>7. TimeOrdered(dev, test, Usable)'
      BY <1>1, <3>1 DEF TimeOrdered
    <3>. QED
      BY <3>6, <3>7 DEF SplitOK
  <2>. QED
    BY <1>4, <2>1, <2>2
<1>. QED
  BY <1>1, <1>2, <1>3, <1>4, <1>5 DEF IInv, Split

LEMMA MakeFoldsStep ==
  ASSUME IInv, MakeFolds
  PROVE  IInv'
<1>1. UNCHANGED <<world, samples, dev, test, fitted, oos>> /\ stage = "fold" /\ stage' \in {"failed", "fit"}
  BY DEF MakeFolds
<1>2. UNCHANGED <<Usable, DevSessions, MadeFolds>>
  BY <1>1 DEF Usable, DevSessions, MadeFolds, WalkForward
<1>3. SplitOK'
  BY <1>1, <1>2 DEF IInv, SplitOK, Fitting, TimeOrdered
<1>4. FoldsOK'
  <2>1. CASE stage' = "failed"
    BY <2>1 DEF FoldsOK, Fitting
  <2>2. CASE stage' = "fit"
    <3>1. /\ folds' = MadeFolds
          /\ Cardinality(DevSessions) >= Needed(Embargo(world.horizon))
          /\ \A f \in MadeFolds : TimeOrdered(f.train, f.valid, DevSessions)
      <4>1. Cardinality(DevSessions) \in Nat /\ Embargo(world.horizon) \in Nat
        BY WorldTypes, EmbargoIsPositive DEF IInv
      <4>2. Needed(Embargo(world.horizon)) \in Int
        BY <4>1, TrainingAssumption DEF Needed, ConfigValid
      <4>. QED
        BY <2>2, <4>1, <4>2 DEF MakeFolds, MadeFolds
    <3>. QED
      BY <1>1, <1>2, <3>1 DEF FoldsOK, TimeOrdered
  <2>. QED
    BY <1>1, <2>1, <2>2
<1>5. OosOK'
  BY <1>1, <1>2 DEF IInv, OosOK, Fitting
<1>6. NoLookAhead'
  BY <1>1 DEF IInv, NoLookAhead, Target, CutoffFor
<1>. QED
  BY <1>1, <1>3, <1>4, <1>5, <1>6 DEF IInv, Fitting

\* Whatever is learnt up to one range and judged from a later one on.
LEMMA JudgedLater ==
  ASSUME world \in Worlds, NEW earlier \in Nat, NEW later \in Nat,
         later > earlier + Embargo(world.horizon),
         NEW from \in SUBSET Nat, \A s \in from : s <= earlier,
         NEW on \in SUBSET Nat, \A v \in on : later <= v
  PROVE  \A s \in from, v \in on : Close(Target(s)) < CutoffFor(v)
<1>1. SUFFICES ASSUME NEW s \in from, NEW v \in on
               PROVE  Close(Target(s)) < CutoffFor(v)
  OBVIOUS
<1>2. world.horizon \in Horizons /\ s \in Nat /\ v \in Nat
  BY WorldsAssumption
<1>3. v > s + Embargo(world.horizon)
  BY <1>2, EmbargoIsPositive
<1>. QED
  BY <1>2, <1>3, LabelIsKnown

\* A further fit.
LEMMA OneMoreFit ==
  ASSUME IInv, NEW fit, fitted' = fitted \cup {fit}, UNCHANGED world,
         \A s \in fit.from, v \in fit.on : Close(Target(s)) < CutoffFor(v)
  PROVE  NoLookAhead'
BY DEF IInv, NoLookAhead, Close, Target, CutoffFor, Cutoff0945

\* The fold that is next, if there is one.
LEMMA NextFoldIsOne ==
  ASSUME NEW S \in SUBSET MadeFolds, S # {}, \A f \in MadeFolds : f.index \in Nat
  PROVE  \E f \in S : \A g \in S : f.index <= g.index
<1>. DEFINE indexes == {f.index : f \in S}
<1>1. indexes \subseteq Nat /\ indexes # {}
  OBVIOUS
<1>2. PICK i \in indexes : \A j \in indexes : i <= j
  <2>. HIDE DEF indexes
  <2>. QED
    BY <1>1, LeastNatural
<1>. QED
  BY <1>2

\* The folds that are made stay the same while they are fitted.
LEMMA FittingKeeps ==
  ASSUME IInv, stage \in Fitting, stage' \in Fitting \cup {"failed"},
         UNCHANGED <<world, samples, dev, test>>, folds' \subseteq folds
  PROVE  /\ UNCHANGED <<MadeFolds, DevSessions>>
         /\ SplitOK' /\ FoldsOK'
         /\ world' \in Worlds /\ samples' \subseteq world'.bars
         /\ stage' \in {"replay", "split", "fold", "failed"} \cup Fitting
<1>1. UNCHANGED <<Usable, DevSessions, MadeFolds>>
  BY DEF Usable, DevSessions, MadeFolds, WalkForward
<1>2. SplitOK'
  BY <1>1 DEF IInv, SplitOK, Fitting, TimeOrdered
<1>3. FoldsOK'
  BY <1>1 DEF IInv, FoldsOK, Fitting, TimeOrdered
<1>. QED
  BY <1>1, <1>2, <1>3 DEF IInv

LEMMA FitFoldStep ==
  ASSUME IInv, FitFold
  PROVE  IInv'
<1>. DEFINE train == SamplesIn(NextFold.train)
            valid == SamplesIn(NextFold.valid)
            fit == [fit |-> "fold", by |-> NextFold.index, from |-> train, on |-> valid]
<1>1. /\ stage = "fit" /\ stage' = "fit" /\ folds # {}
      /\ UNCHANGED <<world, samples, dev, test>> /\ folds' \subseteq folds
  BY DEF FitFold
<1>2. /\ UNCHANGED <<MadeFolds, DevSessions>> /\ SplitOK' /\ FoldsOK'
      /\ world' \in Worlds /\ samples' \subseteq world'.bars
      /\ stage' \in {"replay", "split", "fold", "failed"} \cup Fitting
  BY <1>1, FittingKeeps DEF Fitting
<1>3. /\ Cardinality(DevSessions) >= Needed(Embargo(world.horizon))
      /\ folds \subseteq MadeFolds
      /\ \A f \in folds : TimeOrdered(f.train, f.valid, DevSessions)
  BY <1>1 DEF IInv, FoldsOK, Fitting
<1>4. \A f \in MadeFolds : f.index \in Nat
  <2>1. \A f \in MadeFolds : f.index \in 0..FoldCount - 1
    BY <1>3, FoldsLie DEF IInv
  <2>. QED
    BY <2>1, TrainingAssumption DEF ConfigValid
<1>5. NextFold \in folds
  BY <1>1, <1>3, <1>4, NextFoldIsOne DEF NextFold
<1>6. OosOK'
  <2>1. ASSUME NEW p \in oos'
        PROVE  \E f \in MadeFolds : p = <<f.index, p[2]>> /\ p[2] \in SamplesIn(f.valid)
    <3>1. CASE p \in oos
      BY <3>1 DEF IInv, OosOK
    <3>2. CASE p \notin oos
      <4>1. PICK t \in valid : p = <<NextFold.index, t>>
        BY <3>2 DEF FitFold
      <4>. QED
        BY <1>3, <1>5, <4>1
    <3>. QED
      BY <3>1, <3>2
  <2>. QED
    BY <1>1, <1>2, <2>1 DEF OosOK, SamplesIn, Fitting
<1>7. \A s \in train, v \in valid : Close(Target(s)) < CutoffFor(v)
  <2>1. /\ NextFold.train[2] \in Nat /\ NextFold.valid[1] \in Nat
        /\ DevSessions \in SUBSET Nat /\ world.horizon \in Horizons /\ samples \subseteq Nat
    <3>1. NextFold.train[2] \in DevSessions /\ NextFold.valid[1] \in DevSessions
      BY <1>3, <1>5, FoldsLie DEF IInv
    <3>. QED
      BY <3>1, WorldTypes DEF IInv
  <2>2. NextFold.valid[1] > NextFold.train[2] + Embargo(world.horizon)
    BY <1>3, <1>5, <2>1, GapIsLongEnough
  <2>3. /\ train \in SUBSET Nat /\ \A s \in train : s <= NextFold.train[2]
        /\ valid \in SUBSET Nat /\ \A v \in valid : NextFold.valid[1] <= v
    BY <2>1 DEF SamplesIn
  <2>. QED
    BY <2>1, <2>2, <2>3, JudgedLater DEF IInv
<1>8. NoLookAhead'
  <2>1. CASE fitted' = fitted
    BY <1>1, <2>1 DEF IInv, NoLookAhead, Target, CutoffFor
  <2>2. CASE fitted' = fitted \cup {fit}
    <3>1. fit.from = train /\ fit.on = valid
      OBVIOUS
    <3>. HIDE DEF fit, train, valid
    <3>. QED
      BY <1>1, <1>7, <2>2, <3>1, OneMoreFit
  <2>. QED
    BY <2>1, <2>2 DEF FitFold
<1>. QED
  BY <1>2, <1>6, <1>8 DEF IInv

\* Nothing of the development part is judged before the test part.
LEMMA TestIsLater ==
  ASSUME IInv, stage \in Fitting, NEW from \in SUBSET Nat, \A s \in from : s <= dev[2]
  PROVE  \A s \in from, v \in SamplesIn(test) : Close(Target(s)) < CutoffFor(v)
<1>1. dev[2] \in Nat /\ test[1] \in Nat /\ TimeOrdered(dev, test, Usable)
  BY DEF IInv, SplitOK
<1>2. Usable \in SUBSET Nat /\ world.horizon \in Horizons /\ samples \subseteq Nat
  BY WorldTypes DEF IInv
<1>3. test[1] > dev[2] + Embargo(world.horizon)
  BY <1>1, <1>2, GapIsLongEnough
<1>4. SamplesIn(test) \in SUBSET Nat /\ \A v \in SamplesIn(test) : test[1] <= v
  BY <1>2 DEF SamplesIn
<1>. QED
  BY <1>1, <1>3, <1>4, JudgedLater DEF IInv

LEMMA CalibrateStep ==
  ASSUME IInv, Calibrate
  PROVE  IInv'
<1>. DEFINE from == {p[2] : p \in oos}
            fit == [fit |-> "calibrator", by |-> 0, from |-> from, on |-> SamplesIn(test)]
<1>1. /\ stage = "fit" /\ UNCHANGED <<world, samples, dev, test, folds, oos>>
      /\ stage' = "final" \/ (stage' = "failed" /\ oos = {})
  BY DEF Calibrate
<1>2. /\ UNCHANGED <<MadeFolds, DevSessions>> /\ SplitOK' /\ FoldsOK'
      /\ world' \in Worlds /\ samples' \subseteq world'.bars
      /\ stage' \in {"replay", "split", "fold", "failed"} \cup Fitting
  BY <1>1, FittingKeeps DEF Fitting
<1>3. OosOK'
  BY <1>1, <1>2 DEF IInv, OosOK, Fitting, SamplesIn
<1>4. from \in SUBSET Nat /\ \A s \in from : s <= dev[2]
  <2>1. ASSUME NEW p \in oos
        PROVE  p[2] \in Nat /\ p[2] <= dev[2]
    <3>1. PICK f \in MadeFolds : p[2] \in SamplesIn(f.valid)
      BY DEF IInv, OosOK
    <3>2. f.valid[2] \in Nat /\ f.valid[2] <= dev[2] /\ dev[2] \in Nat
      <4>1. Cardinality(DevSessions) >= Needed(Embargo(world.horizon)) /\ dev[2] \in Nat
        BY <1>1 DEF IInv, FoldsOK, SplitOK, Fitting
      <4>2. f.valid[2] \in DevSessions /\ f.valid[2] <= dev[2]
        BY <4>1, FoldsLie DEF IInv
      <4>. QED
        BY <4>1, <4>2, WorldTypes DEF IInv
    <3>3. p[2] \in Nat /\ p[2] <= f.valid[2]
      BY <3>1, WorldTypes DEF SamplesIn, IInv
    <3>. QED
      BY <3>2, <3>3
  <2>. QED
    BY <2>1
<1>5. \A s \in from, v \in SamplesIn(test) : Close(Target(s)) < CutoffFor(v)
  <2>. HIDE DEF from
  <2>. QED
    BY <1>1, <1>4, TestIsLater DEF Fitting
<1>6. NoLookAhead'
  <2>1. CASE fitted' = fitted
    BY <1>1, <2>1 DEF IInv, NoLookAhead, Target, CutoffFor
  <2>2. CASE fitted' = fitted \cup {fit}
    <3>1. fit.from = from /\ fit.on = SamplesIn(test)
      OBVIOUS
    <3>. HIDE DEF fit, from
    <3>. QED
      BY <1>1, <1>5, <2>2, <3>1, OneMoreFit
  <2>. QED
    BY <2>1, <2>2 DEF Calibrate
<1>. QED
  BY <1>2, <1>3, <1>6 DEF IInv

LEMMA FitFinalStep ==
  ASSUME IInv, FitFinal
  PROVE  IInv'
<1>. DEFINE fit == [fit |-> "final", by |-> 0, from |-> FinalSamples, on |-> SamplesIn(test)]
<1>1. /\ stage = "final" /\ stage' = "release" /\ UNCHANGED <<world, samples, dev, test, folds, oos>>
      /\ fitted' = fitted \cup {fit}
  BY DEF FitFinal
<1>2. /\ UNCHANGED <<MadeFolds, DevSessions>> /\ SplitOK' /\ FoldsOK'
      /\ world' \in Worlds /\ samples' \subseteq world'.bars
      /\ stage' \in {"replay", "split", "fold", "failed"} \cup Fitting
  BY <1>1, FittingKeeps DEF Fitting
<1>3. OosOK'
  BY <1>1, <1>2 DEF IInv, OosOK, Fitting, SamplesIn
<1>4. \A s \in FinalSamples, v \in SamplesIn(test) : Close(Target(s)) < CutoffFor(v)
  <2>1. FinalSamples \in SUBSET Nat /\ \A s \in FinalSamples : s <= dev[2]
    BY WorldTypes DEF FinalSamples, SamplesIn, IInv
  <2>. QED
    BY <1>1, <2>1, TestIsLater DEF Fitting
<1>5. NoLookAhead'
  <2>1. fit.from = FinalSamples /\ fit.on = SamplesIn(test)
    OBVIOUS
  <2>. HIDE DEF fit
  <2>. QED
    BY <1>1, <1>4, <2>1, OneMoreFit
<1>. QED
  BY <1>2, <1>3, <1>5 DEF IInv

LEMMA ReleaseStep ==
  ASSUME IInv, Release
  PROVE  IInv'
<1>1. /\ stage = "release" /\ stage' = "done"
      /\ UNCHANGED <<world, samples, dev, test, folds, fitted, oos>>
  BY DEF Release
<1>2. /\ UNCHANGED <<MadeFolds, DevSessions>> /\ SplitOK' /\ FoldsOK'
      /\ world' \in Worlds /\ samples' \subseteq world'.bars
      /\ stage' \in {"replay", "split", "fold", "failed"} \cup Fitting
  BY <1>1, FittingKeeps DEF Fitting
<1>3. OosOK' /\ NoLookAhead'
  BY <1>1, <1>2 DEF IInv, OosOK, Fitting, SamplesIn, NoLookAhead, Target, CutoffFor
<1>. QED
  BY <1>2, <1>3 DEF IInv

LEMMA NextInv ==
  ASSUME IInv, [Next]_vars
  PROVE  IInv'
<1>1. CASE UNCHANGED vars
  <2>1. UNCHANGED <<Usable, DevSessions, MadeFolds>>
    BY <1>1 DEF vars, Usable, DevSessions, MadeFolds, WalkForward
  <2>. QED
    BY <1>1, <2>1 DEF vars, IInv, SplitOK, FoldsOK, OosOK, NoLookAhead, TimeOrdered, SamplesIn, Target, CutoffFor
<1>. QED
  BY <1>1, BuildSamplesStep, SplitStep, MakeFoldsStep, FitFoldStep, CalibrateStep, FitFinalStep,
     ReleaseStep DEF Next

LEMMA InvAlways == Spec => []IInv
<1>1. Init => IInv
  BY InitInv
<1>2. IInv /\ [Next]_vars => IInv'
  BY NextInv
<1>. QED
  BY <1>1, <1>2, PTL DEF Spec

-----------------------------------------------------------------------------
(***************************************************************************)
(* No look-ahead.                                                          *)
(***************************************************************************)

\* Whatever the history, its holes, suspensions and members, and whatever the sizes of
\* the parts and of the embargo that the configuration admits: no fold, calibrator or
\* final model is judged on a session whose features were known before the labels of all
\* samples that it was fitted on (trainer.py, splits.py, labels.py).
THEOREM NothingLooksAhead == Spec => []NoLookAhead
<1>1. IInv => NoLookAhead
  BY DEF IInv
<1>. QED
  BY <1>1, InvAlways, PTL

-----------------------------------------------------------------------------
(***************************************************************************)
(* Every fold, and each sample once.                                       *)
(***************************************************************************)

\* A long enough development part gets all folds.
LEMMA AllFoldsAreMade ==
  ASSUME world \in Worlds, samples \subseteq world.bars,
         Cardinality(DevSessions) >= Needed(Embargo(world.horizon))
  PROVE  Cardinality(MadeFolds) = FoldCount
<1>. DEFINE n == Cardinality(DevSessions)
            e == Embargo(world.horizon)
            Fold(i) == [index |-> i,
                        train |-> <<dev[1], Nth(DevSessions, FoldAt(i, n, e)[1])>>,
                        valid |-> <<Nth(DevSessions, FoldAt(i, n, e)[2]),
                                    Nth(DevSessions, FoldAt(i, n, e)[3])>>]
            numbers == 0..FoldCount - 1
            made == [i \in numbers |-> Fold(i)]
<1>1. n \in Nat /\ e \in Nat /\ n >= Needed(e)
  BY WorldTypes, EmbargoIsPositive
<1>2. MadeFolds = {Fold(i) : i \in {j \in numbers : FoldAt(j, n, e)[3] < n}}
  BY DEF MadeFolds, WalkForward
<1>3. \A j \in numbers : FoldAt(j, n, e)[3] < n
  <2>. HIDE DEF n, e
  <2>1. ASSUME NEW j \in 0..FoldCount - 1
        PROVE  FoldAt(j, n, e)[3] < n
    <3>1. FoldAt(j, n, e)[3] \in 0..n - 1
      BY <1>1, FoldFits
    <3>. QED
      BY <1>1, <3>1
  <2>. QED
    BY <2>1
<1>4. MadeFolds = {Fold(i) : i \in numbers}
  <2>. HIDE DEF n, e, numbers
  <2>. QED
    BY <1>2, <1>3
<1>5. \A i \in numbers : Fold(i).index = i
  OBVIOUS
<1>6. made \in Bijection(numbers, MadeFolds)
  <2>. HIDE DEF numbers, Fold
  <2>1. made \in [numbers -> MadeFolds]
    BY <1>4
  <2>2. made \in Injection(numbers, MadeFolds)
    BY <1>5, <2>1 DEF Injection, IsInjective
  <2>3. made \in Surjection(numbers, MadeFolds)
    BY <1>4, <2>1 DEF Surjection
  <2>. QED
    BY <2>2, <2>3 DEF Bijection
<1>7. IsFiniteSet(numbers) /\ Cardinality(numbers) = FoldCount
  <2>1. FoldCount \in Nat \ {0}
    BY TrainingAssumption DEF ConfigValid
  <2>. QED
    BY <2>1, FS_Interval
<1>8. ExistsBijection(numbers, MadeFolds)
  BY <1>6 DEF ExistsBijection
<1>. HIDE DEF numbers
<1>. QED
  BY <1>7, <1>8, FS_Bijection

\* Windows of different folds are disjoint, so the fold of a prediction is determined by
\* its session.
LEMMA ValidatedOnceFromInv ==
  ASSUME IInv
  PROVE  ValidatedOnce
<1>1. ASSUME NEW p \in oos, NEW q \in oos, p[2] = q[2]
      PROVE  p = q
  <2>1. PICK f \in MadeFolds : p = <<f.index, p[2]>> /\ p[2] \in SamplesIn(f.valid)
    BY DEF IInv, OosOK
  <2>2. PICK g \in MadeFolds : q = <<g.index, q[2]>> /\ q[2] \in SamplesIn(g.valid)
    BY DEF IInv, OosOK
  <2>3. stage \in Fitting
    BY DEF IInv, OosOK
  <2>4. Cardinality(DevSessions) >= Needed(Embargo(world.horizon))
    BY <2>3 DEF IInv, FoldsOK
  <2>5. /\ f.index \in 0..FoldCount - 1 /\ g.index \in 0..FoldCount - 1
        /\ f.valid[1] \in DevSessions /\ f.valid[2] \in DevSessions
        /\ g.valid[1] \in DevSessions /\ g.valid[2] \in DevSessions
        /\ f.index < g.index => f.valid[2] < g.valid[1]
        /\ g.index < f.index => g.valid[2] < f.valid[1]
    BY <2>4, FoldsLie DEF IInv
  <2>6. DevSessions \in SUBSET Nat /\ samples \subseteq Nat /\ FoldCount \in Nat
    BY WorldTypes, TrainingAssumption DEF IInv, ConfigValid
  <2>7. p[2] \in Nat /\ f.valid[1] <= p[2] /\ p[2] <= f.valid[2] /\ g.valid[1] <= p[2] /\ p[2] <= g.valid[2]
    BY <1>1, <2>1, <2>2, <2>6 DEF SamplesIn
  <2>8. f.index = g.index
    <3>1. /\ f.valid[1] \in Nat /\ f.valid[2] \in Nat /\ g.valid[1] \in Nat /\ g.valid[2] \in Nat
      BY <2>5, <2>6
    <3>2. f.index \in Nat /\ g.index \in Nat
      BY <2>5, <2>6
    <3>. QED
      BY <2>5, <2>7, <3>1, <3>2
  <2>. QED
    BY <1>1, <2>1, <2>2, <2>8
<1>2. ASSUME stage \in {"final", "release", "done"}
      PROVE  Cardinality(WalkForward(Embargo(world.horizon))) = FoldCount
  <2>1. Cardinality(DevSessions) >= Needed(Embargo(world.horizon))
    BY <1>2 DEF IInv, FoldsOK, Fitting
  <2>. QED
    BY <2>1, AllFoldsAreMade DEF IInv, MadeFolds
<1>. QED
  BY <1>1, <1>2 DEF ValidatedOnce

\* A training that gets beyond the folds has made all of them, and has predicted no
\* sample twice, whatever the number and the lengths of the windows: the step between two
\* folds is never shorter than a window and its embargo (splits.py).
THEOREM ValidatedOnlyOnce == Spec => []ValidatedOnce
BY InvAlways, ValidatedOnceFromInv, PTL

-----------------------------------------------------------------------------
(***************************************************************************)
(* Replay and serving.                                                     *)
(***************************************************************************)

\* The last n of a set are the last n of whatever part of it holds them and all that is
\* newer than what it holds.
LEMMA LastOfPart ==
  ASSUME NEW n, NEW X \in SUBSET Nat, NEW Y \in SUBSET X,
         \A y \in Y, x \in X : x > y => x \in Y,
         LastOf(n, X) \subseteq Y
  PROVE  LastOf(n, Y) = LastOf(n, X)
<1>1. ASSUME NEW y \in Y
      PROVE  {z \in Y : z > y} = {z \in X : z > y}
  OBVIOUS
<1>2. ASSUME NEW y \in Y
      PROVE  y \in LastOf(n, Y) <=> y \in LastOf(n, X)
  BY <1>1 DEF LastOf
<1>3. LastOf(n, Y) \subseteq Y
  BY DEF LastOf
<1>. QED
  BY <1>2, <1>3

\* The part of S behind x.
After(S, x) == {z \in S : z > x}

LEMMA AfterIsFinite ==
  ASSUME NEW S, IsFiniteSet(S), NEW x
  PROVE  After(S, x) \in SUBSET S /\ IsFiniteSet(After(S, x)) /\ Cardinality(After(S, x)) \in Nat
<1>1. After(S, x) \in SUBSET S
  BY DEF After
<1>. QED
  BY <1>1, PartIsFinite

LEMMA LastOfAfter ==
  ASSUME NEW n, NEW S, NEW x
  PROVE  x \in LastOf(n, S) <=> x \in S /\ Cardinality(After(S, x)) < n
BY DEF LastOf, After

\* Of what inference loads, the part up to the last visible session ends like the whole
\* history up to there: there is room for the one bar that is not visible yet.
LEMMA RoomForTheUnfinished ==
  ASSUME NEW A \in SUBSET Nat, IsFiniteSet(A), NEW t \in Nat, NEW b \in {t - 1, t}
  PROVE  LastOf(Window, UpTo(LastOf(Lookback, UpTo(A, t)), b)) = LastOf(Window, UpTo(A, b))
<1>. DEFINE X == UpTo(A, b)
            B == UpTo(A, t)
            Y == UpTo(LastOf(Lookback, B), b)
<1>1. Window \in Nat \ {0} /\ Lookback \in Nat /\ Lookback > Window
  BY TrainingAssumption DEF ConfigValid
<1>2. b \in Int /\ b <= t /\ t <= b + 1 /\ \A x \in A : x \in Nat
  OBVIOUS
<1>3. X \in SUBSET A /\ B \in SUBSET A /\ X \in SUBSET B /\ \A x \in B : x \in X \/ x = t
  <2>1. \A x \in A : x <= b => x <= t
    BY <1>2
  <2>2. \A x \in A : x <= t => x <= b \/ x = t
    BY <1>2
  <2>. QED
    BY <2>1, <2>2 DEF UpTo
<1>4. Y \in SUBSET X /\ \A x \in X : x \in Y <=> x \in LastOf(Lookback, B)
  BY <1>3 DEF UpTo, LastOf
<1>. HIDE DEF X, B, Y
<1>5. IsFiniteSet(X) /\ IsFiniteSet(B)
  BY <1>3, PartIsFinite
<1>6. ASSUME NEW y \in Y, NEW x \in X, x > y
      PROVE  x \in Y
  <2>1. After(B, x) \in SUBSET After(B, y)
    <3>1. x \in Nat /\ y \in Nat /\ \A z \in B : z \in Nat
      BY <1>2, <1>3, <1>4
    <3>. QED
      BY <1>6, <3>1 DEF After
  <2>2. /\ Cardinality(After(B, x)) \in Nat /\ Cardinality(After(B, y)) \in Nat
        /\ Cardinality(After(B, x)) <= Cardinality(After(B, y))
    BY <1>5, <2>1, AfterIsFinite, PartIsFinite
  <2>3. Cardinality(After(B, y)) < Lookback
    BY <1>4, LastOfAfter
  <2>4. x \in LastOf(Lookback, B)
    BY <1>1, <1>3, <2>2, <2>3, LastOfAfter
  <2>. QED
    BY <1>4, <2>4
<1>7. ASSUME NEW x \in LastOf(Window, X)
      PROVE  x \in Y
  <2>. DEFINE more == After(X, x) \cup {t}
  <2>1. x \in X /\ Cardinality(After(X, x)) < Window
    BY LastOfAfter
  <2>2. After(B, x) \in SUBSET more
    BY <1>3 DEF After, more
  <2>3. IsFiniteSet(After(X, x)) /\ Cardinality(After(X, x)) \in Nat
    BY <1>5, AfterIsFinite
  <2>4. IsFiniteSet(more) /\ Cardinality(more) <= Cardinality(After(X, x)) + 1
    <3>. DEFINE S == After(X, x)
    <3>. HIDE DEF S
    <3>1. IsFiniteSet(S) /\ Cardinality(S) \in Nat
      BY <2>3 DEF S
    <3>2. /\ IsFiniteSet(S \cup {t})
          /\ Cardinality(S \cup {t}) = IF t \in S THEN Cardinality(S) ELSE Cardinality(S) + 1
      BY <3>1, FS_AddElement
    <3>3. Cardinality(S \cup {t}) <= Cardinality(S) + 1
      BY <3>1, <3>2
    <3>. QED
      BY <3>2, <3>3 DEF S
  <2>. HIDE DEF more
  <2>5. /\ Cardinality(more) \in Nat /\ Cardinality(After(B, x)) \in Nat
        /\ Cardinality(After(B, x)) <= Cardinality(more)
    BY <2>2, <2>4, PartIsFinite
  <2>6. Cardinality(After(B, x)) < Lookback
    BY <1>1, <2>1, <2>3, <2>4, <2>5
  <2>. QED
    BY <1>3, <1>4, <2>1, <2>6, LastOfAfter
<1>8. X \in SUBSET Nat
  BY <1>3
<1>9. LastOf(Window, Y) = LastOf(Window, X)
  BY <1>4, <1>6, <1>7, <1>8, LastOfPart
<1>. QED
  BY <1>9 DEF X, Y, B

\* The last session with a bar that is visible.
LastVisible(t) == IF world.horizon = "today_close" THEN t - 1 ELSE t

LEMMA CutoffOfSession ==
  ASSUME NEW t \in Nat, world.horizon \in Horizons
  PROVE  /\ CutoffFor(t) \in Nat /\ CutoffFor(t) \in {Cutoff0945(t), Close(t)}
         /\ SessionOf(CutoffFor(t)) = t
         /\ \A S \in SUBSET Nat : VisibleDaily(S, CutoffFor(t)) = UpTo(S, LastVisible(t))
<1>1. (3 * t + 1) \div 3 = t /\ (3 * t + 2) \div 3 = t
  OBVIOUS
<1>2. ASSUME NEW x \in Nat
      PROVE  Close(x) <= CutoffFor(t) <=> x <= LastVisible(t)
  BY DEF Close, CutoffFor, Cutoff0945, LastVisible
<1>3. \A S \in SUBSET Nat : VisibleDaily(S, CutoffFor(t)) = UpTo(S, LastVisible(t))
  <2>1. ASSUME NEW S \in SUBSET Nat
        PROVE  VisibleDaily(S, CutoffFor(t)) = UpTo(S, LastVisible(t))
    <3>1. \A x \in S : Close(x) <= CutoffFor(t) <=> x <= LastVisible(t)
      BY <1>2
    <3>. QED
      BY <3>1 DEF VisibleDaily, UpTo
  <2>. QED
    BY <2>1
<1>. QED
  BY <1>1, <1>3 DEF CutoffFor, Cutoff0945, Close, SessionOf

LEMMA GreatestElement ==
  ASSUME NEW S \in SUBSET Nat, NEW m \in S, \A y \in S : y <= m
  PROVE  Max(S) = m
<1>1. m \in Nat /\ \A x \in S : x \in Nat
  OBVIOUS
<1>2. \A x \in S : (\A y \in S : x >= y) => x = m
  BY <1>1
<1>3. \A y \in S : m >= y
  BY <1>1
<1>. QED
  BY <1>2, <1>3 DEF Max

\* What a replay takes up to the last visible session, and what inference sees of A.
LEMMA SameBars ==
  ASSUME NEW A \in SUBSET Nat, IsFiniteSet(A), NEW t \in Nat, world.horizon \in Horizons
  PROVE  VisibleDaily(LastOf(Window, UpTo(A, LastVisible(t))), CutoffFor(t))
           = LastOf(Window, VisibleDaily(LoadedDaily(A, CutoffFor(t)), CutoffFor(t)))
<1>. DEFINE b == LastVisible(t)
            X == LastOf(Window, UpTo(A, b))
            L == LastOf(Lookback, UpTo(A, t))
<1>1. b \in {t - 1, t}
  BY DEF LastVisible
<1>2. X \in SUBSET Nat /\ L \in SUBSET Nat /\ UpTo(X, b) = X
  BY DEF LastOf, UpTo
<1>3. LoadedDaily(A, CutoffFor(t)) = L
  BY CutoffOfSession DEF LoadedDaily
<1>. HIDE DEF X, L, b
<1>4. /\ VisibleDaily(X, CutoffFor(t)) = UpTo(X, b)
      /\ VisibleDaily(L, CutoffFor(t)) = UpTo(L, b)
  BY <1>2, CutoffOfSession DEF b
<1>5. LastOf(Window, UpTo(L, b)) = X
  BY <1>1, RoomForTheUnfinished DEF X, L
<1>. QED
  BY <1>2, <1>3, <1>4, <1>5 DEF X, b

\* The documents of an event window are loaded on both paths, if a replay takes as many.
LEMMA SameDocuments ==
  ASSUME world \in Worlds, NEW t \in Nat,
         Cardinality(EventDocuments(CutoffFor(t))) <= DocumentLimit,
         NEW d \in EventDocuments(CutoffFor(t))
  PROVE  d \in Replayed(t).documents /\ d \in Served(CutoffFor(t)).documents
<1>. DEFINE cutoff == CutoffFor(t)
            recent == EventDocuments(cutoff)
            newer == {x \in UpTo(world.documents, cutoff) : x > d}
<1>1. /\ world.horizon \in Horizons
      /\ world.documents \in SUBSET Nat /\ IsFiniteSet(world.documents)
  BY WorldsAssumption
<1>2. cutoff \in Nat /\ Cardinality(recent) <= DocumentLimit
  BY <1>1, CutoffOfSession
<1>3. EventDays \in Nat /\ DocumentDays \in Nat /\ EventDays <= DocumentDays /\ DocumentLimit \in Nat
  BY TrainingAssumption DEF ConfigValid
<1>4. d \in world.documents /\ d \in Nat /\ d <= cutoff /\ d > cutoff - 3 * EventDays
  BY <1>1 DEF EventDocuments, UpTo
<1>5. d \in Served(cutoff).documents <=> d <= cutoff /\ d > cutoff - 3 * DocumentDays
  BY <1>4 DEF Served, Panel, VisibleDocuments, UpTo
<1>6. d \in Replayed(t).documents <=> d <= cutoff /\ Cardinality(newer) < DocumentLimit
  BY <1>4 DEF Replayed, Panel, VisibleDocuments, UpTo, LastOf
<1>7. \A x \in world.documents : x \in Nat
  BY <1>1
<1>8. newer \in SUBSET recent /\ recent \in SUBSET world.documents /\ d \in recent /\ d \notin newer
  <2>1. d > cutoff - 3 * EventDays /\ cutoff \in Nat
    BY <1>2, <1>4
  <2>. HIDE DEF cutoff
  <2>. QED
    BY <1>3, <1>4, <1>7, <2>1 DEF EventDocuments, UpTo
<1>. HIDE DEF newer, recent
<1>9. IsFiniteSet(recent) /\ newer # recent
  BY <1>1, <1>8, PartIsFinite
<1>10. Cardinality(newer) \in Nat /\ Cardinality(recent) \in Nat /\ Cardinality(newer) < Cardinality(recent)
  BY <1>8, <1>9, PartIsFinite
<1>11. Cardinality(newer) < DocumentLimit
  BY <1>2, <1>3, <1>10
<1>12. d > cutoff - 3 * DocumentDays
  <2>. HIDE DEF cutoff
  <2>. QED
    BY <1>2, <1>3, <1>4
<1>. QED
  BY <1>4, <1>5, <1>6, <1>11, <1>12

\* A finite set of numbers has a largest.
LEMMA LargestOf ==
  ASSUME NEW S \in SUBSET Nat, IsFiniteSet(S), S # {}
  PROVE  \E m \in S : \A y \in S : y <= m
<1>1. \E m \in S : After(S, m) = {}
  <2>1. SUFFICES ASSUME \A m \in S : After(S, m) # {}
                 PROVE  FALSE
    OBVIOUS
  <2>2. PICK x \in S : TRUE
    OBVIOUS
  <2>. DEFINE counts == {k \in Nat : \E m \in S : Cardinality(After(S, m)) = k}
  <2>3. counts \in SUBSET Nat /\ counts # {}
    BY <2>2, AfterIsFinite
  <2>. HIDE DEF counts
  <2>4. PICK k \in counts : \A l \in counts : k <= l
    BY <2>3, LeastNatural
  <2>5. PICK m \in S : Cardinality(After(S, m)) = k
    BY <2>4 DEF counts
  <2>6. PICK z \in After(S, m) : TRUE
    BY <2>1, <2>5
  <2>7. z \in S /\ z > m /\ z \in Nat /\ m \in Nat /\ \A y \in S : y \in Nat
    BY <2>5, <2>6 DEF After
  <2>8. After(S, z) \in SUBSET After(S, m) /\ After(S, z) # After(S, m)
    <3>1. \A y \in S : y > z => y > m
      BY <2>7
    <3>2. ~(z > z)
      BY <2>7
    <3>3. z \notin After(S, z)
      BY <3>2 DEF After
    <3>4. After(S, z) \in SUBSET After(S, m)
      BY <3>1 DEF After
    <3>. QED
      BY <2>6, <3>3, <3>4
  <2>9. /\ IsFiniteSet(After(S, m))
        /\ Cardinality(After(S, z)) \in Nat /\ Cardinality(After(S, m)) \in Nat
    BY AfterIsFinite
  <2>10. Cardinality(After(S, z)) < Cardinality(After(S, m))
    BY <2>8, <2>9, PartIsFinite
  <2>11. Cardinality(After(S, z)) \in counts
    BY <2>7, <2>9 DEF counts
  <2>. QED
    BY <2>4, <2>5, <2>9, <2>10, <2>11
<1>2. PICK m \in S : After(S, m) = {}
  BY <1>1
<1>3. \A y \in S : y \in Nat /\ ~(y > m)
  BY <1>2 DEF After
<1>. QED
  BY <1>2, <1>3

\* The last document within the look-back is the last on both paths.
LEMMA SameLast ==
  ASSUME world \in Worlds, NEW t \in Nat,
         LastDocument(Replayed(t)) > CutoffFor(t) - 3 * DocumentDays
  PROVE  LastDocument(Served(CutoffFor(t))) = LastDocument(Replayed(t))
<1>. DEFINE cutoff == CutoffFor(t)
            all == UpTo(world.documents, cutoff)
            replayed == Replayed(t).documents
            served == Served(cutoff).documents
<1>1. /\ world.horizon \in Horizons
      /\ world.documents \in SUBSET Nat \ {0} /\ IsFiniteSet(world.documents)
  BY WorldsAssumption
<1>2. cutoff \in Nat
  BY <1>1, CutoffOfSession
<1>3. DocumentDays \in Nat /\ DocumentLimit \in Nat \ {0}
  BY TrainingAssumption DEF ConfigValid
<1>4. all \in SUBSET Nat /\ IsFiniteSet(all) /\ 0 \notin all
  <2>1. all \in SUBSET world.documents
    BY DEF UpTo
  <2>. QED
    BY <1>1, <2>1, PartIsFinite
<1>5. \A d : d \in replayed <=> d \in all /\ Cardinality(After(all, d)) < DocumentLimit
  BY DEF Replayed, Panel, VisibleDocuments, UpTo, LastOf, After
<1>6. \A d : d \in served <=> d \in all /\ d > cutoff - 3 * DocumentDays
  BY DEF Served, Panel, VisibleDocuments, UpTo
<1>7. LastDocument(Replayed(t)) = Max({0} \cup replayed) /\ LastDocument(Served(cutoff)) = Max({0} \cup served)
  BY DEF LastDocument
<1>. HIDE DEF replayed, served, all
<1>8. CASE all = {}
  <2>1. replayed = {} /\ served = {}
    BY <1>5, <1>6, <1>8
  <2>. QED
    BY <1>7, <2>1
<1>9. CASE all # {}
  <2>1. PICK m \in all : \A y \in all : y <= m
    BY <1>4, <1>9, LargestOf
  <2>2. m \in Nat /\ \A y \in all : y \in Nat
    BY <1>4
  <2>3. After(all, m) = {}
    <3>1. \A y \in all : ~(y > m)
      BY <2>1, <2>2
    <3>. QED
      BY <3>1 DEF After
  <2>4. m \in replayed
    BY <1>3, <1>5, <2>1, <2>3, FS_EmptySet
  <2>. DEFINE R == {0} \cup replayed
  <2>5. R \in SUBSET Nat /\ m \in R /\ \A y \in R : y <= m
    BY <1>5, <2>1, <2>2, <2>4
  <2>. HIDE DEF R
  <2>6. Max(R) = m
    BY <2>5, GreatestElement
  <2>7. m > cutoff - 3 * DocumentDays
    BY <1>7, <2>6 DEF R
  <2>. DEFINE S == {0} \cup served
  <2>8. S \in SUBSET Nat /\ m \in S /\ \A y \in S : y <= m
    <3>1. m \in served
      BY <1>6, <2>1, <2>7
    <3>2. \A y \in served : y \in Nat /\ y <= m
      BY <1>6, <2>1, <2>2
    <3>. QED
      BY <2>2, <3>1, <3>2
  <2>. HIDE DEF S
  <2>9. Max(S) = m
    BY <2>8, GreatestElement
  <2>. QED
    BY <1>7, <2>6, <2>9 DEF R, S
<1>. QED
  BY <1>8, <1>9

LEMMA ReplayFromInv ==
  ASSUME IInv
  PROVE  ReplayIsServing
<1>1. SUFFICES ASSUME NEW t \in samples
               PROVE  /\ Replayed(t).daily = LastOf(Window, Served(CutoffFor(t)).daily)
                      /\ Replayed(t).minute = Served(CutoffFor(t)).minute
                      /\ world.horizon = "next_5d" \/ t - 1 \in world.bars
                           => Replayed(t).bench = LastOf(Window, Served(CutoffFor(t)).bench)
                      /\ Cardinality(EventDocuments(CutoffFor(t))) <= DocumentLimit
                           => EventDocuments(CutoffFor(t))
                                \subseteq Replayed(t).documents \cap Served(CutoffFor(t)).documents
                      /\ LastDocument(Replayed(t)) > CutoffFor(t) - 3 * DocumentDays
                           => LastDocument(Served(CutoffFor(t))) = LastDocument(Replayed(t))
                      /\ world.horizon = "next_5d" \/ t \in world.minute \ world.late
                           => Replayed(t).open = Served(CutoffFor(t)).open
  BY DEF ReplayIsServing
<1>2. /\ world \in Worlds /\ world.horizon \in Horizons
      /\ world.bars \in SUBSET Nat /\ IsFiniteSet(world.bars)
      /\ world.bench \in SUBSET Nat /\ IsFiniteSet(world.bench)
      /\ t \in Nat
  <2>1. world \in Worlds /\ samples \subseteq world.bars
    BY DEF IInv
  <2>2. /\ world.horizon \in Horizons
        /\ IsFiniteSet(world.sessions) /\ world.sessions \subseteq Nat \ {0}
        /\ world.bars \in SUBSET world.sessions
        /\ IsFiniteSet(world.bench) /\ world.bench \subseteq Nat
    BY <2>1, WorldsAssumption
  <2>3. IsFiniteSet(world.bars)
    BY <2>2, PartIsFinite
  <2>. QED
    BY <1>1, <2>1, <2>2, <2>3
<1>3. VisibleBars(t) = UpTo(world.bars, LastVisible(t))
  BY DEF VisibleBars, LastVisible
<1>4. Replayed(t).daily = LastOf(Window, Served(CutoffFor(t)).daily)
  BY <1>2, <1>3, SameBars DEF Replayed, Served, Panel
<1>5. Replayed(t).minute = Served(CutoffFor(t)).minute
  BY DEF Replayed, Served, Panel
<1>6. ASSUME world.horizon = "next_5d" \/ t - 1 \in world.bars
      PROVE  Replayed(t).bench = LastOf(Window, Served(CutoffFor(t)).bench)
  <2>1. BenchCutoff(t) = LastVisible(t)
    <3>1. CASE world.horizon = "next_5d"
      BY <3>1 DEF BenchCutoff, LastVisible
    <3>2. CASE world.horizon = "today_close"
      <4>. DEFINE S == UpTo(world.bars, t - 1)
      <4>1. t - 1 \in world.bars
        BY <1>6, <3>2
      <4>2. \A x \in world.bars : x \in Nat
        BY <1>2
      <4>3. S \in SUBSET Nat /\ t - 1 \in S /\ \A y \in S : y <= t - 1
        BY <4>1, <4>2 DEF UpTo
      <4>. HIDE DEF S
      <4>4. Max(S) = t - 1
        BY <4>3, GreatestElement
      <4>. QED
        BY <3>2, <4>4 DEF BenchCutoff, LastVisible, S
    <3>. QED
      BY <1>2, <3>1, <3>2 DEF Horizons
  <2>. QED
    BY <1>2, <2>1, SameBars DEF Replayed, Served, Panel
<1>7. ASSUME Cardinality(EventDocuments(CutoffFor(t))) <= DocumentLimit
      PROVE  EventDocuments(CutoffFor(t)) \subseteq Replayed(t).documents \cap Served(CutoffFor(t)).documents
  BY <1>2, <1>7, SameDocuments
<1>8. ASSUME LastDocument(Replayed(t)) > CutoffFor(t) - 3 * DocumentDays
      PROVE  LastDocument(Served(CutoffFor(t))) = LastDocument(Replayed(t))
  BY <1>2, <1>8, SameLast
<1>9. ASSUME world.horizon = "next_5d" \/ t \in world.minute \ world.late
      PROVE  Replayed(t).open = Served(CutoffFor(t)).open
  <2>1. SessionOf(CutoffFor(t)) = t
    BY <1>2, CutoffOfSession
  <2>2. ReplayedOpen(t) = ServedOpen(t)
    <3>1. CASE world.horizon = "next_5d"
      BY <3>1 DEF ReplayedOpen, ServedOpen
    <3>2. CASE world.horizon = "today_close"
      <4>1. t \in world.minute /\ t \notin world.late
        BY <1>9, <3>2
      <4>. QED
        BY <3>2, <4>1 DEF ReplayedOpen, ServedOpen
    <3>. QED
      BY <1>2, <3>1, <3>2 DEF Horizons
  <2>. QED
    BY <2>1, <2>2 DEF Replayed, Served, Panel
<1>. QED
  BY <1>4, <1>5, <1>6, <1>7, <1>8, <1>9

\* Whatever the suspensions, the holes in the index and the limits of the loads: what
\* features see of a replayed sample is what inference sees at its cutoff (samples.py,
\* panel.py, pit.py, repository.py), but for the cases that ReplayIsServing names.
THEOREM ReplayMatchesServing == Spec => []ReplayIsServing
<1>1. IInv => ReplayIsServing
  BY ReplayFromInv
<1>. QED
  BY <1>1, InvAlways, PTL

-----------------------------------------------------------------------------
(***************************************************************************)
(* Memberships and their changes.                                          *)
(***************************************************************************)

\* A set of days has its last day as Max.
LEMMA LastOfDays ==
  ASSUME NEW n \in Nat, NEW S \in SUBSET (0..n), S # {}
  PROVE  Max(S) \in S /\ \A y \in S : y <= Max(S)
<1>. DEFINE left == {n - x : x \in S}
<1>1. \A x \in S : x \in 0..n
  OBVIOUS
<1>2. left \in SUBSET Nat /\ left # {}
  <2>1. \A x \in S : n - x \in Nat
    BY <1>1
  <2>. QED
    BY <2>1
<1>3. PICK m \in left : \A k \in left : m <= k
  <2>. HIDE DEF left
  <2>. QED
    BY <1>2, LeastNatural
<1>4. PICK x \in S : m = n - x
  BY <1>3
<1>5. ASSUME NEW y \in S
      PROVE  x >= y
  <2>1. n - y \in left
    OBVIOUS
  <2>2. n - x <= n - y
    BY <1>3, <1>4, <2>1
  <2>. QED
    BY <1>1, <2>2
<1>6. \E z \in S : \A y \in S : z >= y
  BY <1>5
<1>7. Max(S) \in S /\ \A y \in S : Max(S) >= y
  BY <1>6 DEF Max
<1>. QED
  BY <1>1, <1>7

LEMMA HistoryFacts ==
  ASSUME official \in Histories
  PROVE  /\ official \in [0..LastDay -> SUBSET Symbols]
         /\ \A t \in 0..LastDay :
              /\ official[t] \subseteq Symbols
              /\ IsFiniteSet(official[t])
              /\ Cardinality(official[t]) = Size
              /\ official[t] # {}
         /\ Changes \subseteq Days /\ Days \subseteq 0..LastDay /\ Days \subseteq Nat
         /\ 1 \in Changes
<1>1. official \in [0..LastDay -> SUBSET Symbols] /\ official[0] # official[1]
      /\ \A t \in 0..LastDay : Cardinality(official[t]) = Size
  BY UniverseAssumption
<1>2. \A t \in 0..LastDay : official[t] \in SUBSET Symbols
  BY <1>1
<1>3. ASSUME NEW t \in 0..LastDay
      PROVE  IsFiniteSet(official[t]) /\ official[t] # {}
  <2>1. IsFiniteSet(official[t])
    BY <1>2, UniverseAssumption, FS_Subset
  <2>2. Cardinality(official[t]) # 0
    BY <1>1, UniverseAssumption
  <2>. QED
    BY <2>1, <2>2, FS_EmptySet
<1>4. Changes \subseteq Days /\ Days \subseteq 0..LastDay /\ Days \subseteq Nat /\ 1 \in Changes
  BY <1>1, UniverseAssumption DEF Changes, Days
<1>. QED
  BY <1>1, <1>2, <1>3, <1>4

\* Whoever is gone on a later day has left with a change in between.
LEMMA LeavesBetween ==
  ASSUME official \in Histories, NEW b \in 0..LastDay, NEW t \in 0..LastDay, b <= t,
         NEW s \in official[b], s \notin official[t]
  PROVE  \E e \in Changes : b < e /\ e <= t /\ s \in Exits(e)
<1>. DEFINE gone == {u \in 0..LastDay : b < u /\ s \notin official[u]}
<1>1. t \in gone /\ gone \in SUBSET Nat /\ \A u \in gone : u \in 0..LastDay /\ b < u /\ s \notin official[u]
  <2>1. b \in Nat /\ t \in Nat /\ LastDay \in Nat /\ b # t
    BY UniverseAssumption
  <2>. QED
    BY <2>1
<1>2. gone # {} /\ Min(gone) \in gone /\ \A y \in gone : Min(gone) <= y
  <2>. HIDE DEF gone
  <2>. QED
    BY <1>1, LeastNatural
<1>3. PICK e \in gone : \A y \in gone : e <= y
  BY <1>2
<1>4. e \in Days /\ e - 1 \in 0..LastDay /\ b <= e - 1 /\ ~(e <= e - 1) /\ b \in Nat /\ e \in Nat
  BY <1>1, UniverseAssumption DEF Days
<1>5. e - 1 \notin gone
  BY <1>3, <1>4
<1>6. s \in official[e - 1]
  <2>1. CASE b = e - 1
    BY <2>1
  <2>2. CASE b < e - 1
    BY <1>4, <1>5, <2>2
  <2>. QED
    BY <1>4, <2>1, <2>2
<1>7. s \in Exits(e) /\ e \in Changes
  BY <1>1, <1>4, <1>6 DEF Exits, Changes
<1>8. e <= t
  BY <1>1, <1>3
<1>. QED
  BY <1>1, <1>7, <1>8

\* Whoever has come since an earlier day came with a change, and has not left since.
LEMMA EntersBetween ==
  ASSUME official \in Histories, NEW b \in 0..LastDay, NEW t \in 0..LastDay, b <= t,
         NEW s \in official[t], s \notin official[b]
  PROVE  \E e \in Changes :
           /\ b < e /\ e <= t /\ s \in Entrants(e)
           /\ \A x \in Changes : e < x /\ x <= t => s \notin Exits(x)
<1>. DEFINE out == {u \in 0..t : s \notin official[u]}
<1>1. b \in Nat /\ t \in Nat /\ LastDay \in Nat /\ b # t
  BY UniverseAssumption
<1>2. b \in out /\ out \in SUBSET (0..t) /\ t \notin out /\ out # {}
  BY <1>1
<1>3. Max(out) \in out /\ \A y \in out : y <= Max(out)
  <2>. HIDE DEF out
  <2>. QED
    BY <1>1, <1>2, LastOfDays
<1>4. PICK u \in out : \A y \in out : y <= u
  BY <1>3
<1>5. u \in Nat /\ b <= u /\ u < t /\ s \notin official[u]
  BY <1>1, <1>2, <1>4
<1>6. \A v \in Nat : u < v /\ v <= t => s \in official[v]
  <2>. SUFFICES ASSUME NEW v \in Nat, u < v, v <= t, s \notin official[v]
                PROVE  FALSE
    OBVIOUS
  <2>1. v \in out
    BY <1>1
  <2>. QED
    BY <1>4, <1>5, <2>1
<1>. DEFINE e == u + 1
<1>7. e \in Nat /\ e \in Days /\ u < e /\ e <= t /\ e - 1 = u /\ b < e
  BY <1>1, <1>5 DEF Days
<1>8. s \in official[e]
  BY <1>6, <1>7
<1>9. s \in Entrants(e) /\ e \in Changes
  BY <1>5, <1>7, <1>8 DEF Entrants, Changes
<1>10. ASSUME NEW x \in Changes, e < x, x <= t
       PROVE  s \notin Exits(x)
  <2>1. x \in Nat
    BY HistoryFacts
  <2>2. u < x
    BY <1>10, <1>7, <1>5, <2>1
  <2>. QED
    BY <1>6, <1>10, <2>1, <2>2 DEF Exits
<1>. QED
  BY <1>7, <1>9, <1>10

\* What no change touches stays.
LEMMA StaysBetween ==
  ASSUME official \in Histories, NEW b \in 0..LastDay, NEW t \in 0..LastDay, b <= t, NEW s,
         \A e \in Changes : b < e /\ e <= t => s \notin Entrants(e) \cup Exits(e)
  PROVE  s \in official[b] <=> s \in official[t]
BY LeavesBetween, EntersBetween

\* The last change up to a day, which is in force since.
LEMMA InForceFacts ==
  ASSUME official \in Histories, NEW t \in Days
  PROVE  /\ InForceSince(t) \in Changes /\ InForceSince(t) \in 1..t
         /\ \A e \in Changes : e <= t => e <= InForceSince(t)
         /\ \A u \in InForceSince(t)..t : official[u] = official[t]
<1>. DEFINE S == {e \in Changes : e <= t}
<1>1. t \in Nat /\ t \in 1..LastDay /\ LastDay \in Nat /\ \A e \in Changes : e \in 1..LastDay
  BY HistoryFacts, UniverseAssumption DEF Days
<1>2. S \in SUBSET (0..t) /\ 1 \in S /\ \A e \in S : e \in Changes /\ e \in 1..t
  BY <1>1, HistoryFacts
<1>3. Max(S) \in S /\ \A y \in S : y <= Max(S)
  <2>. HIDE DEF S
  <2>. QED
    BY <1>1, <1>2, LastOfDays
<1>4. InForceSince(t) = Max(S)
  BY DEF InForceSince
<1>5. InForceSince(t) \in Changes /\ InForceSince(t) \in 1..t
  BY <1>2, <1>3, <1>4
<1>6. \A e \in Changes : e <= t => e <= InForceSince(t)
  BY <1>3, <1>4
<1>7. ASSUME NEW u \in InForceSince(t)..t
      PROVE  official[u] = official[t]
  <2>1. u \in 0..LastDay /\ t \in 0..LastDay /\ u <= t /\ InForceSince(t) <= u /\ u \in Nat
    BY <1>1, <1>5
  <2>2. \A e \in Changes : ~(u < e /\ e <= t)
    <3>. SUFFICES ASSUME NEW e \in Changes, u < e, e <= t
                  PROVE  FALSE
      OBVIOUS
    <3>1. e <= InForceSince(t) /\ e \in Nat /\ InForceSince(t) \in Nat
      BY <1>1, <1>5, <1>6
    <3>. QED
      BY <2>1, <3>1
  <2>3. \A s : s \in official[u] <=> s \in official[t]
    BY <2>1, <2>2, StaysBetween
  <2>. QED
    BY <2>1, <2>3, HistoryFacts
<1>. QED
  BY <1>5, <1>6, <1>7

\* With every change somebody comes.
LEMMA SomebodyEnters ==
  ASSUME official \in Histories, NEW e \in Changes
  PROVE  Entrants(e) # {}
<1>1. e \in 0..LastDay /\ e - 1 \in 0..LastDay /\ official[e] # official[e - 1]
  BY HistoryFacts, UniverseAssumption DEF Changes, Days
<1>. SUFFICES ASSUME Entrants(e) = {}
              PROVE  FALSE
  OBVIOUS
<1>. DEFINE A == official[e]
            B == official[e - 1]
<1>2. A \in SUBSET B /\ A # B /\ IsFiniteSet(B) /\ Cardinality(A) = Cardinality(B)
      /\ Cardinality(A) = Size
  BY <1>1, HistoryFacts DEF Entrants
<1>. HIDE DEF A, B
<1>3. Cardinality(A) < Cardinality(B)
  BY <1>2, PartIsFinite
<1>. QED
  BY <1>2, <1>3, UniverseAssumption

-----------------------------------------------------------------------------
(***************************************************************************)
(* What apply_history reconstructs.                                        *)
(***************************************************************************)

\* The changes after e that move s, and who was a member after e: the first of these
\* changes tells, or the current membership.
Moves(events, e, s) == {x \in events : x > e /\ s \in Entrants(x) \cup Exits(x)}

Undone(current, events, e) ==
  {s \in Symbols : IF Moves(events, e, s) = {} THEN s \in current
                   ELSE s \in Exits(Min(Moves(events, e, s)))}

LEMMA LeastElement ==
  ASSUME NEW S \in SUBSET Nat, NEW m \in S, \A y \in S : m <= y
  PROVE  Min(S) = m
<1>1. \A x \in S : (\A y \in S : x <= y) => x = m
  OBVIOUS
<1>. QED
  BY <1>1 DEF Min

LEMMA UndoneLast ==
  ASSUME official \in Histories, NEW events \in SUBSET Days, events # {},
         NEW current \in SUBSET Symbols
  PROVE  Max(events) \in events /\ Undone(current, events, Max(events)) = current
<1>1. events \in SUBSET (0..LastDay) /\ LastDay \in Nat /\ \A x \in events : x \in Nat
  BY UniverseAssumption DEF Days
<1>2. Max(events) \in events /\ \A y \in events : y <= Max(events)
  BY <1>1, LastOfDays
<1>3. \A s : Moves(events, Max(events), s) = {}
  <2>1. Max(events) \in Nat /\ \A y \in events : y \in Nat
    BY <1>1, <1>2
  <2>2. \A y \in events : ~(y > Max(events))
    BY <1>2, <2>1
  <2>. QED
    BY <2>2 DEF Moves
<1>. QED
  BY <1>2, <1>3 DEF Undone

LEMMA UndoneStep ==
  ASSUME official \in Histories, NEW events \in SUBSET Days, events # {},
         NEW current \in SUBSET Symbols, NEW e \in events, e # Max(events)
  PROVE  LET next == Min({x \in events : x > e}) IN
           /\ next \in events /\ next > e
           /\ Undone(current, events, e) =
                (Undone(current, events, next) \ Entrants(next)) \cup Exits(next)
<1>. DEFINE later == {x \in events : x > e}
            next == Min(later)
<1>1. events \in SUBSET (0..LastDay) /\ LastDay \in Nat /\ \A x \in events : x \in Nat /\ x \in Days
  BY UniverseAssumption DEF Days
<1>2. Max(events) \in events /\ \A y \in events : y <= Max(events)
  BY <1>1, LastOfDays
<1>3. Max(events) \in later /\ later \in SUBSET Nat
  <2>1. Max(events) \in Nat /\ e \in Nat /\ e <= Max(events)
    BY <1>1, <1>2
  <2>2. Max(events) > e
    BY <2>1
  <2>. QED
    BY <1>1, <1>2, <2>2
<1>4. next \in later /\ \A y \in later : next <= y
  <2>. HIDE DEF later
  <2>. QED
    BY <1>3, LeastNatural
<1>5. next \in events /\ next > e /\ next \in Nat /\ e \in Nat /\ next \in Days
  BY <1>1, <1>4
<1>6. \A x \in events : x > e => x = next \/ x > next
  BY <1>1, <1>4, <1>5
<1>. HIDE DEF next
<1>7. Exits(next) \subseteq Symbols /\ Entrants(next) \cap Exits(next) = {}
  BY <1>5, HistoryFacts, UniverseAssumption DEF Exits, Entrants, Days
<1>8. \A s : Moves(events, e, s) \in SUBSET Nat /\ Moves(events, next, s) \in SUBSET Nat
  BY <1>1 DEF Moves
<1>9. ASSUME NEW s \in Symbols
      PROVE  s \in Undone(current, events, e) <=>
               s \in (Undone(current, events, next) \ Entrants(next)) \cup Exits(next)
  <2>1. CASE s \in Entrants(next) \cup Exits(next)
    <3>1. next \in Moves(events, e, s) /\ \A y \in Moves(events, e, s) : next <= y
      BY <1>1, <1>5, <1>6, <2>1 DEF Moves
    <3>2. Min(Moves(events, e, s)) = next
      BY <1>8, <3>1, LeastElement
    <3>3. s \in Undone(current, events, e) <=> s \in Exits(next)
      BY <3>1, <3>2 DEF Undone
    <3>. QED
      BY <1>7, <2>1, <3>3
  <2>2. CASE s \notin Entrants(next) \cup Exits(next)
    <3>1. \A x \in events : x > e /\ s \in Entrants(x) \cup Exits(x) <=>
                            x > next /\ s \in Entrants(x) \cup Exits(x)
      BY <1>1, <1>5, <1>6, <2>2
    <3>2. Moves(events, e, s) = Moves(events, next, s)
      BY <3>1 DEF Moves
    <3>. QED
      BY <2>2, <3>2 DEF Undone
  <2>. QED
    BY <2>1, <2>2
<1>10. Undone(current, events, e) \subseteq Symbols /\ Undone(current, events, next) \subseteq Symbols
  BY DEF Undone
<1>11. Undone(current, events, e) = (Undone(current, events, next) \ Entrants(next)) \cup Exits(next)
  BY <1>7, <1>9, <1>10
<1>. QED
  BY <1>5, <1>11 DEF next

\* The recursion undoes the changes one by one.
LEMMA BackwardsUndoes ==
  ASSUME official \in Histories, NEW events \in SUBSET Days, events # {},
         NEW current \in SUBSET Symbols, NEW x \in events
  PROVE  Backwards(current, events)[x] = Undone(current, events, x)
<1>. DEFINE step(f, e) ==
              IF e = Max(events) THEN current
              ELSE LET next == Min({y \in events : y > e}) IN
                     (f[next] \ Entrants(next)) \cup Exits(next)
            undone == [e \in events |-> Undone(current, events, e)]
            g == CHOOSE f : f = [e \in events |-> step(f, e)]
<1>1. ASSUME NEW e \in events
      PROVE  undone[e] = step(undone, e)
  <2>1. CASE e = Max(events)
    BY <2>1, UndoneLast
  <2>2. CASE e # Max(events)
    BY <2>2, UndoneStep
  <2>. QED
    BY <2>1, <2>2
<1>2. undone = [e \in events |-> step(undone, e)]
  BY <1>1
<1>3. Backwards(current, events) = g
  BY DEF Backwards
<1>4. g = [e \in events |-> step(g, e)]
  <2>. HIDE DEF undone, step
  <2>. QED
    BY <1>2
<1>. HIDE DEF g, undone
<1>5. \A e \in events : g[e] = step(g, e)
  BY <1>4
<1>. DEFINE wrong == {e \in events : g[e] # undone[e]}
<1>6. ASSUME wrong # {}
      PROVE  FALSE
  <2>1. wrong \in SUBSET (0..LastDay) /\ LastDay \in Nat /\ events \in SUBSET (0..LastDay)
    <3>1. LastDay \in Nat
      BY UniverseAssumption
    <3>2. \A e \in events : e \in 0..LastDay
      BY <3>1 DEF Days
    <3>. QED
      BY <3>1, <3>2
  <2>2. Max(wrong) \in wrong /\ \A y \in wrong : y <= Max(wrong)
    <3>. HIDE DEF wrong
    <3>. QED
      BY <1>6, <2>1, LastOfDays
  <2>3. PICK m \in wrong : \A y \in wrong : y <= m
    BY <2>2
  <2>4. CASE m = Max(events)
    BY <1>1, <1>5, <2>3, <2>4
  <2>5. CASE m # Max(events)
    <3>. DEFINE next == Min({y \in events : y > m})
    <3>1. next \in events /\ next > m
      BY <2>3, <2>5, UndoneStep
    <3>. HIDE DEF next
    <3>2. next \notin wrong
      BY <2>1, <2>3, <3>1
    <3>3. g[next] = undone[next]
      BY <3>1, <3>2
    <3>4. g[m] = (g[next] \ Entrants(next)) \cup Exits(next)
      BY <1>5, <2>3, <2>5 DEF next
    <3>5. undone[m] = (undone[next] \ Entrants(next)) \cup Exits(next)
      BY <1>1, <2>3, <2>5 DEF next
    <3>. QED
      BY <2>3, <3>3, <3>4, <3>5
  <2>. QED
    BY <2>4, <2>5
<1>7. g[x] = undone[x]
  BY <1>6
<1>. QED
  BY <1>3, <1>7 DEF undone

\* Undoing the changes since, from the membership of a day, gives the official one.
LEMMA UndoneIsOfficial ==
  ASSUME official \in Histories, NEW t \in Days, NEW e \in Days, e <= t
  PROVE  Undone(official[t], {x \in Changes : x <= t}, e) = official[e]
<1>. DEFINE events == {x \in Changes : x <= t}
<1>1. /\ \A x \in events : x \in Changes /\ x \in Nat /\ x <= t
      /\ \A x \in Changes : x \in Nat /\ x \in 1..LastDay
      /\ t \in 0..LastDay /\ e \in 0..LastDay /\ t \in Nat /\ e \in Nat /\ LastDay \in Nat
  BY HistoryFacts, UniverseAssumption DEF Days
<1>2. official[e] \subseteq Symbols /\ official[t] \subseteq Symbols
  BY <1>1, HistoryFacts
<1>3. ASSUME NEW s \in Symbols
      PROVE  s \in Undone(official[t], events, e) <=> s \in official[e]
  <2>. DEFINE M == Moves(events, e, s)
  <2>1. \A x \in Changes : e < x /\ x <= t /\ s \in Entrants(x) \cup Exits(x) => x \in M
    BY <1>1 DEF Moves
  <2>2. \A x \in M : x \in Changes /\ x \in Nat /\ e < x /\ x <= t /\ s \in Entrants(x) \cup Exits(x)
    BY <1>1 DEF Moves
  <2>. HIDE DEF M
  <2>3. CASE M = {}
    <3>1. s \in official[e] <=> s \in official[t]
      BY <1>1, <2>1, <2>3, StaysBetween
    <3>. QED
      BY <2>3, <3>1 DEF Undone, M
  <2>4. CASE M # {}
    <3>1. Min(M) \in M /\ \A y \in M : Min(M) <= y
      BY <2>2, <2>4, LeastNatural
    <3>2. PICK x \in M : x = Min(M) /\ \A y \in M : x <= y
      BY <3>1
    <3>3. x \in 1..LastDay /\ x - 1 \in 0..LastDay /\ e <= x - 1 /\ x <= t /\ x \in Nat
      BY <1>1, <2>2, <3>2
    <3>4. \A y \in Changes : e < y /\ y <= x - 1 => s \notin Entrants(y) \cup Exits(y)
      <4>. SUFFICES ASSUME NEW y \in Changes, e < y, y <= x - 1, s \in Entrants(y) \cup Exits(y)
                    PROVE  FALSE
        OBVIOUS
      <4>1. y \in Nat /\ y <= t
        BY <1>1, <3>3
      <4>2. x <= y
        BY <2>1, <3>2, <4>1
      <4>. QED
        BY <3>3, <4>1, <4>2
    <3>5. s \in official[e] <=> s \in official[x - 1]
      BY <1>1, <3>3, <3>4, StaysBetween
    <3>6. s \in Exits(x) <=> s \in official[x - 1]
      BY <2>2, <3>2 DEF Exits, Entrants
    <3>. QED
      BY <2>4, <3>2, <3>5, <3>6 DEF Undone, M
  <2>. QED
    BY <2>3, <2>4
<1>. QED
  BY <1>2, <1>3 DEF Undone

\* What has happened until today, and what the tool makes of it.
Happened == {e \in Changes : e <= today}

LEMMA HappenedFacts ==
  ASSUME official \in Histories, today \in Days
  PROVE  /\ Happened \in SUBSET Days /\ Happened # {} /\ 1 \in Happened /\ Min(Happened) = 1
         /\ Max(Happened) = InForceSince(today)
         /\ official[today] \in SUBSET Symbols
         /\ Min(Changes) = 1
         /\ \A e \in Happened : Backwards(official[today], Happened)[e] = official[e]
<1>1. /\ 1 \in Changes /\ today \in 1..LastDay /\ today \in Nat /\ LastDay \in Nat
      /\ \A e \in Changes : e \in 1..LastDay /\ e \in Nat
  BY HistoryFacts, UniverseAssumption DEF Days
<1>2. Happened \in SUBSET Days /\ 1 \in Happened /\ Happened \in SUBSET Nat /\ Changes \in SUBSET Nat
      /\ \A e \in Happened : e \in Days /\ 1 <= e /\ e <= today
  BY <1>1, HistoryFacts DEF Happened, Days
<1>3. \A e \in Changes : 1 <= e
  BY <1>1
<1>4. Min(Happened) = 1 /\ Min(Changes) = 1
  BY <1>1, <1>2, <1>3, LeastElement
<1>5. official[today] \in SUBSET Symbols
  BY <1>1, HistoryFacts
<1>6. ASSUME NEW e \in Happened
      PROVE  Backwards(official[today], Happened)[e] = official[e]
  <2>1. Backwards(official[today], Happened)[e] = Undone(official[today], Happened, e)
    BY <1>2, <1>5, BackwardsUndoes
  <2>2. e \in Days /\ e <= today
    BY <1>2
  <2>3. Undone(official[today], Happened, e) = official[e]
    BY <2>2, UndoneIsOfficial DEF Happened
  <2>. QED
    BY <2>1, <2>3
<1>. QED
  BY <1>2, <1>4, <1>5, <1>6 DEF InForceSince, Happened

\* The end of a period.
LEMMA EndFacts ==
  ASSUME official \in Histories, today \in Days, NEW s, NEW b \in Happened
  PROVE  /\ End(s, b, Happened) = NoEnd \/ End(s, b, Happened) \in 0..today - 1
         /\ \A t \in 1..today : b <= t =>
              (t <= End(s, b, Happened) <=> \A e \in Happened : b < e /\ e <= t => s \notin Exits(e))
<1>. DEFINE exits == {e \in Happened : e > b /\ s \in Exits(e)}
<1>1. /\ today \in 1..LastDay /\ LastDay \in Nat /\ NoEnd = LastDay + 1
      /\ \A e \in Happened : e \in Nat /\ e \in 1..today
  BY HistoryFacts, UniverseAssumption DEF Happened, Days, NoEnd
<1>2. CASE exits = {}
  <2>1. End(s, b, Happened) = NoEnd
    BY <1>2 DEF End
  <2>2. \A e \in Happened : e > b => s \notin Exits(e)
    BY <1>2
  <2>3. \A t \in 1..today : t <= NoEnd
    BY <1>1
  <2>4. \A e \in Happened : b < e => e > b
    BY <1>1
  <2>. QED
    BY <2>1, <2>2, <2>3, <2>4
<1>3. CASE exits # {}
  <2>1. exits \in SUBSET Nat /\ \A e \in exits : e \in Happened /\ e > b /\ s \in Exits(e)
    BY <1>1
  <2>2. Min(exits) \in exits /\ \A y \in exits : Min(exits) <= y
    <3>. HIDE DEF exits
    <3>. QED
      BY <1>3, <2>1, LeastNatural
  <2>3. End(s, b, Happened) = Min(exits) - 1
    BY <1>3 DEF End
  <2>4. PICK x \in exits : x = Min(exits) /\ \A y \in exits : x <= y
    BY <2>2
  <2>5. x \in 1..today /\ x \in Happened /\ x > b /\ s \in Exits(x) /\ b \in Nat /\ today \in Nat
    BY <1>1, <2>1
  <2>6. End(s, b, Happened) = x - 1 /\ x - 1 \in 0..today - 1
    BY <2>3, <2>4, <2>5
  <2>7. ASSUME NEW t \in 1..today, b <= t
        PROVE  t <= x - 1 <=> \A e \in Happened : b < e /\ e <= t => s \notin Exits(e)
    <3>1. CASE t <= x - 1
      <4>. SUFFICES ASSUME NEW e \in Happened, b < e, e <= t, s \in Exits(e)
                    PROVE  FALSE
        BY <3>1
      <4>1. e \in Nat /\ e > b
        BY <1>1, <2>5
      <4>2. x <= e
        BY <2>4, <4>1
      <4>. QED
        BY <2>5, <3>1, <4>1, <4>2
    <3>2. CASE ~(t <= x - 1)
      <4>1. x <= t /\ b < x
        BY <2>5, <3>2
      <4>. QED
        BY <2>5, <3>2, <4>1
    <3>. QED
      BY <3>1, <3>2
  <2>. QED
    BY <2>6, <2>7
<1>. QED
  BY <1>2, <1>3

\* An interval, and where it may begin and end: in the past, or not yet.
Interval(r) == r = [symbol |-> r.symbol, from |-> r.from, to |-> r.to]

Within(r, t) == r.from \in 1..t /\ (r.to = NoEnd \/ r.to \in 0..t - 1)

LEMMA PeriodsFacts ==
  ASSUME official \in Histories, today \in Days
  PROVE  LET P == Periods(official[today], Happened) IN
           /\ \A r \in P : Interval(r) /\ Within(r, today)
           /\ \A t \in 1..today : \A s :
                s \in official[t] <=> \E r \in P : r.symbol = s /\ r.from <= t /\ t <= r.to
           /\ \A s : s \in official[today] <=> \E r \in P : r.symbol = s /\ r.to = NoEnd
<1>. DEFINE P == Periods(official[today], Happened)
            begins(s, b) == b \in Happened /\ (IF b = 1 THEN s \in official[1] ELSE s \in Entrants(b))
            period(s, b) == [symbol |-> s, from |-> b, to |-> End(s, b, Happened)]
<1>1. /\ today \in 1..LastDay /\ today \in Nat /\ LastDay \in Nat /\ NoEnd = LastDay + 1
      /\ \A e \in Happened : e \in Changes /\ e \in 1..today /\ e \in Nat
      /\ \A e \in Changes : e \in Nat /\ (e <= today => e \in Happened)
  BY HistoryFacts, UniverseAssumption DEF Happened, Days, NoEnd
<1>. DEFINE all == {<<s, 1>> : s \in official[1]} \cup
                   UNION {{<<s, e>> : s \in Entrants(e)} : e \in Happened \ {1}}
<1>all. P = {period(b[1], b[2]) : b \in all}
  BY HappenedFacts DEF Periods
<1>2. ASSUME NEW s, NEW b, begins(s, b)
      PROVE  period(s, b) \in P
  <2>1. <<s, b>> \in all
    BY <1>2
  <2>2. period(<<s, b>>[1], <<s, b>>[2]) \in P
    <3>. HIDE DEF all, period, P
    <3>. QED
      BY <1>all, <2>1
  <2>. QED
    BY <2>2
<1>3. ASSUME NEW r \in P
      PROVE  \E s, b : begins(s, b) /\ r = period(s, b)
  <2>1. PICK b \in all : r = period(b[1], b[2])
    <3>. HIDE DEF all, period, P
    <3>. QED
      BY <1>all
  <2>2. begins(b[1], b[2])
    BY HappenedFacts
  <2>. QED
    BY <2>1, <2>2
<1>. HIDE DEF P
<1>4. ASSUME NEW r \in P
      PROVE  Interval(r) /\ Within(r, today)
  <2>1. PICK s, b : begins(s, b) /\ r = period(s, b)
    BY <1>3
  <2>2. End(s, b, Happened) = NoEnd \/ End(s, b, Happened) \in 0..today - 1
    BY <2>1, EndFacts
  <2>. QED
    BY <1>1, <2>1, <2>2 DEF Interval, Within
<1>5. ASSUME NEW t \in 1..today, NEW s \in official[t]
      PROVE  \E r \in P : r.symbol = s /\ r.from <= t /\ t <= r.to
  <2>1. t \in 0..LastDay /\ 1 \in 0..LastDay /\ 1 <= t /\ t \in Nat /\ t <= today
    BY <1>1
  <2>2. PICK b : /\ begins(s, b) /\ b <= t
                 /\ \A x \in Changes : b < x /\ x <= t => s \notin Exits(x)
    <3>1. CASE \A x \in Changes : 1 < x /\ x <= t => s \notin Exits(x)
      <4>1. CASE s \in official[1]
        BY <2>1, <3>1, <4>1, HappenedFacts
      <4>2. CASE s \notin official[1]
        <5>1. PICK e \in Changes : /\ 1 < e /\ e <= t /\ s \in Entrants(e)
                                   /\ \A x \in Changes : e < x /\ x <= t => s \notin Exits(x)
          BY <2>1, <4>2, EntersBetween
        <5>2. e \in Happened /\ e # 1
          BY <1>1, <2>1, <5>1
        <5>. QED
          BY <5>1, <5>2
      <4>. QED
        BY <4>1, <4>2
    <3>2. CASE \E x \in Changes : 1 < x /\ x <= t /\ s \in Exits(x)
      <4>1. PICK x \in Changes : 1 < x /\ x <= t /\ s \in Exits(x)
        BY <3>2
      <4>2. s \notin official[x] /\ x \in 0..LastDay /\ x \in Nat
        BY <1>1, <2>1, <4>1 DEF Exits
      <4>3. PICK e \in Changes : /\ x < e /\ e <= t /\ s \in Entrants(e)
                                 /\ \A y \in Changes : e < y /\ y <= t => s \notin Exits(y)
        BY <2>1, <4>1, <4>2, EntersBetween
      <4>4. e \in Happened /\ e # 1
        BY <1>1, <2>1, <4>1, <4>2, <4>3
      <4>. QED
        BY <4>3, <4>4
    <3>. QED
      BY <3>1, <3>2
  <2>3. \A e \in Happened : b < e /\ e <= t => s \notin Exits(e)
    BY <1>1, <2>2
  <2>4. t <= End(s, b, Happened)
    BY <2>2, <2>3, EndFacts
  <2>5. period(s, b) \in P
    BY <1>2, <2>2
  <2>. QED
    BY <2>2, <2>4, <2>5
<1>6. ASSUME NEW t \in 1..today, NEW r \in P, r.from <= t, t <= r.to
      PROVE  r.symbol \in official[t]
  <2>1. PICK s, b : begins(s, b) /\ r = period(s, b)
    BY <1>3
  <2>2. b <= t /\ t <= End(s, b, Happened) /\ r.symbol = s
    BY <1>6, <2>1
  <2>3. \A e \in Happened : b < e /\ e <= t => s \notin Exits(e)
    BY <2>1, <2>2, EndFacts
  <2>4. b \in 0..LastDay /\ t \in 0..LastDay /\ t \in Nat /\ t <= today
    BY <1>1, <2>1
  <2>5. s \in official[b]
    BY <2>1 DEF Entrants
  <2>6. \A e \in Changes : b < e /\ e <= t => s \notin Exits(e)
    <3>. SUFFICES ASSUME NEW e \in Changes, b < e, e <= t
                  PROVE  s \notin Exits(e)
      OBVIOUS
    <3>1. e \in Happened
      BY <1>1, <2>4
    <3>. QED
      BY <2>3, <3>1
  <2>7. s \in official[t]
    BY <2>2, <2>4, <2>5, <2>6, LeavesBetween
  <2>. QED
    BY <2>2, <2>7
<1>7. \A r \in P : today <= r.to <=> r.to = NoEnd
  BY <1>1, <1>4 DEF Within
<1>8. \A r \in P : r.from <= today
  BY <1>1, <1>4 DEF Within
<1>9. today \in 1..today
  BY <1>1
<1>10. ASSUME NEW s
       PROVE  s \in official[today] <=> \E r \in P : r.symbol = s /\ r.to = NoEnd
  BY <1>5, <1>6, <1>7, <1>8, <1>9
<1>11. \A t \in 1..today : \A s :
         s \in official[t] <=> \E r \in P : r.symbol = s /\ r.from <= t /\ t <= r.to
  BY <1>5, <1>6
<1>. QED
  BY <1>4, <1>10, <1>11 DEF P

\* Whoever has an open interval afterwards has been a member before.
LEMMA PeriodsKeepMembers ==
  ASSUME official \in Histories, NEW upTo \in Days, NEW current \in SUBSET Symbols,
         Consistent(current, {e \in Changes : e <= upTo}),
         NEW r \in Periods(current, {e \in Changes : e <= upTo})
  PROVE  Interval(r) /\ (r.to = NoEnd => r.symbol \in current)
<1>. DEFINE events == {e \in Changes : e <= upTo}
            B == Backwards(current, events)
            exits(s, b) == {e \in events : e > b /\ s \in Exits(e)}
<1>1. /\ \A e \in Changes : e \in 1..LastDay /\ e \in Nat
      /\ upTo \in 1..LastDay /\ LastDay \in Nat /\ NoEnd = LastDay + 1 /\ 1 \in Changes
  BY HistoryFacts, UniverseAssumption DEF Days, NoEnd
<1>2. events \in SUBSET Nat /\ events \in SUBSET Days /\ 1 \in events
      /\ \A e \in events : e \in 1..LastDay /\ e \in Nat
  BY <1>1 DEF Days
<1>3. Min(events) \in events
  <2>. HIDE DEF events
  <2>. QED
    BY <1>2, LeastNatural
<1>4. \A e \in events : Entrants(e) \subseteq B[e]
  BY DEF Consistent
<1>. HIDE DEF events
<1>5. \A e \in events : B[e] = Undone(current, events, e)
  BY <1>2, BackwardsUndoes
<1>. HIDE DEF B
<1>6. PICK s, b : /\ b \in events /\ s \in B[b]
                  /\ r = [symbol |-> s, from |-> b, to |-> End(s, b, events)]
  <2>. DEFINE first == Min(events)
              all == {<<s, first>> : s \in B[first]} \cup
                     UNION {{<<s, e>> : s \in Entrants(e)} : e \in events \ {first}}
  <2>1. Periods(current, events) =
          {[symbol |-> b[1], from |-> b[2], to |-> End(b[1], b[2], events)] : b \in all}
    BY DEF Periods, B
  <2>2. PICK b \in all : r = [symbol |-> b[1], from |-> b[2], to |-> End(b[1], b[2], events)]
    BY <2>1 DEF events
  <2>3. b[2] \in events /\ b[1] \in B[b[2]]
    BY <1>3, <1>4
  <2>. QED
    BY <2>2, <2>3
<1>7. ASSUME End(s, b, events) = NoEnd
      PROVE  s \in current
  <2>1. exits(s, b) = {}
    <3>. SUFFICES ASSUME exits(s, b) # {}
                  PROVE  FALSE
      OBVIOUS
    <3>. DEFINE X == exits(s, b)
    <3>1. X \in SUBSET Nat /\ X # {} /\ \A e \in X : e \in 1..LastDay
      BY <1>2
    <3>2. End(s, b, events) = Min(X) - 1
      BY <3>1 DEF End
    <3>. HIDE DEF X
    <3>3. Min(X) \in 1..LastDay
      BY <3>1, LeastNatural
    <3>. QED
      BY <1>1, <1>7, <3>2, <3>3
  <2>2. s \in Undone(current, events, b)
    BY <1>5, <1>6
  <2>. DEFINE M == Moves(events, b, s)
  <2>3. M \in SUBSET Nat /\ \A x \in M : s \notin Exits(x)
    BY <1>2, <2>1 DEF Moves
  <2>4. M = {}
    <3>. SUFFICES ASSUME M # {}
                  PROVE  FALSE
      OBVIOUS
    <3>1. Min(M) \in M
      <4>. HIDE DEF M
      <4>. QED
        BY <2>3, LeastNatural
    <3>. QED
      BY <2>2, <2>3, <3>1 DEF Undone
  <2>. QED
    BY <2>2, <2>4 DEF Undone
<1>. QED
  BY <1>6, <1>7 DEF Interval

-----------------------------------------------------------------------------
(***************************************************************************)
(* Backfills.                                                              *)
(***************************************************************************)

HasBackfill(r) == r.to = NoEnd => r.symbol \in Symbols /\ backfills[r.symbol] # "none"

\* Who has an open interval, or would have one after the rebuild that is under way.
BackfillInv ==
  /\ official \in Histories /\ today \in Days
  /\ backfills = [s \in Symbols |-> backfills[s]]
  /\ \A r \in rows : Interval(r) /\ HasBackfill(r)
  /\ rebuild # Idle => \A r \in rebuild.periods : Interval(r) /\ HasBackfill(r)
  /\ sync.stage = "fetched" => sync.table.members \subseteq Symbols

LEMMA TablesKnow ==
  ASSUME official \in Histories, NEW d \in Offered, NEW m \in MembersOf(d)
  PROVE  m \subseteq Symbols
<1>1. d \in 0..LastDay
  BY UniverseAssumption DEF Offered, Days
<1>. QED
  BY <1>1, HistoryFacts DEF MembersOf

\* Whatever leaves intervals and backfills alone, or has more backfills.
LEMMA BackfillsAside ==
  ASSUME BackfillInv, UNCHANGED <<official, rows, rebuild, sync>>, today' \in Days,
         backfills' = [s \in Symbols |-> backfills'[s]],
         \A s \in Symbols : backfills[s] # "none" => backfills'[s] # "none"
  PROVE  BackfillInv'
<1>1. ASSUME NEW r, HasBackfill(r)
      PROVE  HasBackfill(r)'
  BY <1>1 DEF HasBackfill, NoEnd
<1>2. \A r : Interval(r)' <=> Interval(r)
  BY DEF Interval
<1>. QED
  BY <1>1, <1>2 DEF BackfillInv, Idle

LEMMA BackfillInit ==
  ASSUME UniverseInit
  PROVE  BackfillInv
BY UniverseAssumption DEF UniverseInit, BackfillInv, Idle, Days

LEMMA DownloadBackfills ==
  ASSUME BackfillInv, FirstDownload \/ SecondDownload \/ DownloadFails
  PROVE  BackfillInv'
<1>1. UNCHANGED <<official, today, rebuild, rows, backfills>>
  BY DEF FirstDownload, SecondDownload, DownloadFails
<1>2. sync'.stage = "fetched" => sync'.table.members \subseteq Symbols
  <2>1. CASE FirstDownload
    BY <2>1 DEF FirstDownload
  <2>2. CASE SecondDownload
    <3>1. PICK d \in Offered : \E date \in DatesOf(d), m \in MembersOf(d) :
            sync' = [stage |-> "fetched", named |-> sync.named,
                     table |-> [date |-> date, members |-> m]]
      BY <2>2 DEF SecondDownload
    <3>. QED
      BY <3>1, TablesKnow DEF BackfillInv
  <2>3. CASE DownloadFails
    BY <2>3 DEF DownloadFails, Idle
  <2>. QED
    BY <2>1, <2>2, <2>3
<1>. QED
  BY <1>1, <1>2 DEF BackfillInv, HasBackfill, Interval, Idle, NoEnd

\* Every member that had no open interval gets its backfill with the interval.
LEMMA CommitBackfills ==
  ASSUME BackfillInv, SyncCommit
  PROVE  BackfillInv'
<1>. DEFINE table == sync.table
<1>1. UNCHANGED <<official, today, rebuild>> /\ sync' = Idle
      /\ sync.stage = "fetched" /\ table.members \subseteq Symbols
  BY DEF SyncCommit, BackfillInv
<1>2. CASE UNCHANGED <<rows, backfills>>
  BY <1>1, <1>2 DEF BackfillInv, HasBackfill, Interval, Idle, NoEnd
<1>3. CASE /\ rows' = AfterSync(table)
           /\ backfills' = [s \in Symbols |-> IF s \in NewMembers(table) /\ backfills[s] # "succeeded"
                                             THEN "queued" ELSE backfills[s]]
  <2>1. /\ backfills' = [s \in Symbols |-> backfills'[s]]
        /\ \A s \in Symbols : backfills[s] # "none" \/ s \in NewMembers(table) => backfills'[s] # "none"
    BY <1>3
  <2>2. \A r : HasBackfill(r) => HasBackfill(r)'
    BY <2>1 DEF HasBackfill, NoEnd
  <2>3. ASSUME NEW r \in rows'
        PROVE  Interval(r) /\ HasBackfill(r)'
    <3>1. CASE r \in Inserted(table)
      <4>1. PICK s \in table.members \ OpenSymbols :
                   r = [symbol |-> s, from |-> Effective(table), to |-> NoEnd]
        BY <3>1 DEF Inserted
      <4>. QED
        BY <1>1, <2>1, <4>1 DEF HasBackfill, Interval, NewMembers
    <3>2. CASE \E q \in rows : r = IF q \in OpenRows /\ q.symbol \notin table.members THEN Closed(q) ELSE q
      <4>1. PICK q \in rows : r = IF q \in OpenRows /\ q.symbol \notin table.members THEN Closed(q) ELSE q
        BY <3>2
      <4>2. Interval(q) /\ HasBackfill(q)
        BY DEF BackfillInv
      <4>3. CASE r = q
        BY <2>2, <4>2, <4>3
      <4>4. CASE q \in OpenRows /\ r = Closed(q)
        <5>1. q.to = NoEnd
          BY <4>4 DEF OpenRows
        <5>2. r = [symbol |-> q.symbol, from |-> q.from, to |-> Max({today - 1, q.from})]
          BY <4>2, <4>4 DEF Closed, Interval
        <5>3. q.symbol \in Symbols /\ backfills'[q.symbol] # "none"
          BY <2>1, <4>2, <5>1 DEF HasBackfill
        <5>. QED
          BY <5>2, <5>3 DEF HasBackfill, Interval
      <4>. QED
        BY <4>1, <4>3, <4>4
    <3>. QED
      BY <1>3, <3>1, <3>2 DEF AfterSync
  <2>4. rebuild' # Idle => \A r \in rebuild'.periods : Interval(r) /\ HasBackfill(r)'
    BY <1>1, <2>2 DEF BackfillInv
  <2>. QED
    BY <1>1, <2>1, <2>3, <2>4 DEF BackfillInv, Interval, Idle
<1>. QED
  BY <1>2, <1>3 DEF SyncCommit

LEMMA BackfillEndsBackfills ==
  ASSUME BackfillInv, NEW s \in Symbols, BackfillEnds(s)
  PROVE  BackfillInv'
<1>1. UNCHANGED <<official, today, rebuild, rows, sync>>
  BY DEF BackfillEnds
<1>2. \E new \in {"succeeded", "failed"} : backfills' = [backfills EXCEPT ![s] = new]
  BY DEF BackfillEnds
<1>3. /\ backfills' = [x \in Symbols |-> backfills'[x]]
      /\ \A x \in Symbols : backfills[x] # "none" => backfills'[x] # "none"
  BY <1>2 DEF BackfillInv
<1>. QED
  BY <1>1, <1>3, BackfillsAside DEF BackfillInv

LEMMA LoadBackfills ==
  ASSUME BackfillInv, LoadCurrent
  PROVE  BackfillInv'
<1>1. UNCHANGED <<official, today, rows, sync, backfills>>
  BY DEF LoadCurrent
<1>2. PICK upTo \in Days :
        LET events == {e \in Changes : e <= upTo} IN
          /\ Consistent(OpenSymbols, events)
          /\ rebuild' = [stage |-> "loaded", periods |-> Periods(OpenSymbols, events)]
  <2>1. today \in Days /\ 1..today \subseteq Days
    BY UniverseAssumption DEF BackfillInv, Days
  <2>. QED
    BY <2>1 DEF LoadCurrent
<1>3. \A s \in OpenSymbols : s \in Symbols /\ backfills[s] # "none"
  BY DEF OpenSymbols, OpenRows, BackfillInv, HasBackfill
<1>4. \A r \in rebuild'.periods : Interval(r) /\ (r.to = NoEnd => r.symbol \in OpenSymbols)
  <2>1. OpenSymbols \in SUBSET Symbols /\ official \in Histories
    BY <1>3 DEF BackfillInv
  <2>. QED
    BY <1>2, <2>1, PeriodsKeepMembers
<1>5. \A r \in rebuild'.periods : Interval(r) /\ HasBackfill(r)'
  BY <1>1, <1>3, <1>4 DEF HasBackfill, NoEnd
<1>. QED
  BY <1>1, <1>5 DEF BackfillInv, HasBackfill, Interval, NoEnd

LEMMA ApplyBackfills ==
  ASSUME BackfillInv, ApplyHistory \/ ApplyFails
  PROVE  BackfillInv'
<1>1. UNCHANGED <<official, today, sync, backfills>> /\ rebuild # Idle /\ rebuild' = Idle
  BY DEF ApplyHistory, ApplyFails
<1>2. rows' = rows \/ rows' = rebuild.periods
  BY DEF ApplyHistory, ApplyFails
<1>. QED
  BY <1>1, <1>2 DEF BackfillInv, HasBackfill, Interval, Idle, NoEnd

LEMMA BackfillNextInv ==
  ASSUME BackfillInv, [UniverseNext]_universeVars
  PROVE  BackfillInv'
<1>1. CASE UNCHANGED universeVars
  BY <1>1, BackfillsAside DEF universeVars, BackfillInv
<1>3. CASE Tick
  <2>1. today' \in Days
    BY <1>3, UniverseAssumption DEF Tick, BackfillInv, Days
  <2>. QED
    BY <1>3, <2>1, BackfillsAside DEF Tick, BackfillInv
<1>. QED
  BY <1>1, <1>3, DownloadBackfills, CommitBackfills, BackfillEndsBackfills, LoadBackfills,
     ApplyBackfills DEF UniverseNext

\* sync_csi300_universe: whatever tables the publisher offers, whole or cut short, late
\* or not, and whatever adjustments a rebuild lacks, no member is left without the
\* backfill of its history.
THEOREM EveryMemberIsBackfilled == UniverseSpec => []MembersAreBackfilled
<1>1. UniverseInit => BackfillInv
  BY BackfillInit
<1>2. BackfillInv /\ [UniverseNext]_universeVars => BackfillInv'
  BY BackfillNextInv
<1>3. BackfillInv => MembersAreBackfilled
  BY DEF BackfillInv, MembersAreBackfilled, HasBackfill, OpenSymbols, OpenRows
<1>. QED
  BY <1>1, <1>2, <1>3, PTL DEF UniverseSpec

-----------------------------------------------------------------------------
(***************************************************************************)
(* Intervals.                                                              *)
(***************************************************************************)

\* Who is a member on a day, and who stays one, by a set of intervals.
AtIn(R, t) == {r.symbol : r \in {q \in R : q.from <= t /\ t <= q.to}}
OpenIn(R) == {r.symbol : r \in {q \in R : q.to = NoEnd}}

\* The table in force on a day has been seen.
HasTable(t) == \E x \in archive : x.date \in InForceSince(t)..t

ArchiveOK ==
  /\ shown \in Nat
  /\ \A x \in archive : x.date \in 1..today /\ x.date <= shown /\ x.members = official[x.date]

\* A table of today, dated by the change or later.
Current(table) ==
  /\ table.date \in InForceSince(today)..today
  /\ table.members = official[today]

\* The table before the change of this day is offered until somebody has seen the new one.
OldTable(table) ==
  /\ today \in Changes /\ today > 1 /\ shown < today
  /\ table.date \in InForceSince(today - 1)..today - 1
  /\ table.members = official[today - 1]

FetchedOK ==
  sync.stage = "fetched" =>
    \/ /\ Current(sync.table) /\ HasTable(today)
       /\ dated => sync.table.date = InForceSince(today)
    \/ OldTable(sync.table)

Covered(t) == dated => \A u \in since..t : official[u] \subseteq AtIn(rows, u)

\* The membership in force has been taken over.
UpToDate == OpenIn(rows) = official[today] /\ HasTable(today) /\ Covered(today)

\* The one before has, and nobody knows of the last change yet.
Behind ==
  LET change == InForceSince(today) IN
    /\ change > 1
    /\ OpenIn(rows) = official[change - 1]
    /\ \A t \in synced : t < change
    /\ \A r \in rows : r.from < change
    /\ Covered(change - 1)

KnownOK ==
  /\ rows = {} => since = 0 /\ synced = {}
  /\ rows # {} => since \in 1..today /\ synced \subseteq 1..today /\ (UpToDate \/ Behind)

SyncedOK == \A t \in synced : AtIn(rows, t) = official[t] /\ HasTable(t)

\* Intervals that give the membership of every day until now.
Exact(P) ==
  /\ \A r \in P : Interval(r) /\ Within(r, today)
  /\ \A t \in 1..today : AtIn(P, t) = official[t]
  /\ OpenIn(P) = official[today]

RebuildOK == rebuild # Idle => Exact(rebuild.periods) /\ rows # {} /\ UpToDate

IntervalsInv ==
  /\ official \in Histories /\ today \in Days
  /\ ArchiveOK
  /\ FetchedOK
  /\ \A r \in rows : Interval(r) /\ Within(r, today)
  /\ KnownOK
  /\ SyncedOK
  /\ RebuildOK

LEMMA DayTypes ==
  ASSUME today \in Days
  PROVE  /\ today \in Nat /\ today \in 1..LastDay /\ LastDay \in Nat /\ NoEnd = LastDay + 1
         /\ today \in 1..today /\ today < NoEnd
         /\ \A t \in 1..today : t \in Days /\ t \in Nat /\ t \in 0..LastDay /\ t < NoEnd
BY UniverseAssumption DEF Days, NoEnd

\* What an interval says of today.
LEMMA OpenToday ==
  ASSUME today \in Days, NEW R, \A r \in R : Within(r, today)
  PROVE  AtIn(R, today) = OpenIn(R)
<1>1. \A r \in R : r.from <= today /\ (today <= r.to <=> r.to = NoEnd)
  BY DayTypes DEF Within
<1>. QED
  BY <1>1 DEF AtIn, OpenIn

LEMMA SameHistory ==
  ASSUME official' = official
  PROVE  /\ Changes' = Changes
         /\ \A t : InForceSince(t)' = InForceSince(t)
<1>1. Changes' = Changes
  BY DEF Changes
<1>. QED
  BY <1>1 DEF InForceSince

LEMMA MinOfTwo ==
  ASSUME NEW x \in Int, NEW y \in Int, x <= y
  PROVE  Min({x, y}) = x
<1>1. \A z \in {x, y} : (\A w \in {x, y} : z <= w) => z = x
  OBVIOUS
<1>2. \A w \in {x, y} : x <= w
  OBVIOUS
<1>. QED
  BY <1>1, <1>2 DEF Min

\* A table of today begins with the change or later, but not in the future.
LEMMA TableFacts ==
  ASSUME official \in Histories, today \in Days, NEW w, Current(w)
  PROVE  w.date \in 1..today /\ InForceSince(today) <= w.date /\ Effective(w) = w.date
<1>1. today \in Nat /\ InForceSince(today) \in 1..today
  BY DayTypes, InForceFacts
<1>2. w.date \in 1..today /\ InForceSince(today) <= w.date
  BY <1>1 DEF Current
<1>3. Effective(w) = w.date
  BY <1>1, <1>2, MinOfTwo DEF Effective
<1>. QED
  BY <1>2, <1>3

\* On the day of a change the table before is another one.
LEMMA ChangeToday ==
  ASSUME official \in Histories, today \in Changes
  PROVE  InForceSince(today) = today
<1>1. today \in Days /\ today \in Nat
  BY HistoryFacts
<1>2. InForceSince(today) \in 1..today /\ today <= InForceSince(today)
  BY <1>1, InForceFacts
<1>. QED
  BY <1>1, <1>2

LEMMA OldTableFacts ==
  ASSUME official \in Histories, today \in Days, ArchiveOK, NEW w, OldTable(w)
  PROVE  /\ w.members # official[today] /\ ~HasTable(today) /\ InForceSince(today) = today /\ today > 1
         /\ w.members = official[today - 1] /\ w.date \in 1..today /\ w.date <= today - 1
         /\ InForceSince(today - 1) <= w.date /\ Effective(w) = w.date
<1>1. InForceSince(today) = today /\ today > 1 /\ today \in Nat /\ today - 1 \in Days
  BY ChangeToday, DayTypes DEF OldTable, Days
<1>2. InForceSince(today - 1) \in 1..today - 1
  BY <1>1, InForceFacts
<1>3. w.date \in 1..today /\ w.date <= today - 1 /\ InForceSince(today - 1) <= w.date
  BY <1>1, <1>2 DEF OldTable
<1>4. w.members # official[today]
  BY DEF OldTable, Changes
<1>5. ~HasTable(today)
  <2>1. \A x \in archive : x.date \in Nat /\ x.date <= shown /\ shown \in Nat
    BY <1>1 DEF ArchiveOK
  <2>2. \A x \in archive : ~(x.date \in today..today)
    BY <1>1, <2>1 DEF OldTable
  <2>. QED
    BY <1>1, <2>2 DEF HasTable
<1>6. Effective(w) = w.date
  BY <1>1, <1>3, MinOfTwo DEF Effective
<1>. QED
  BY <1>1, <1>3, <1>4, <1>5, <1>6 DEF OldTable

\* Steps that leave the intervals alone.
LEMMA IntervalsAside ==
  ASSUME IntervalsInv, UNCHANGED <<official, today, rows, synced, since>>, dated' => dated,
         \A t : HasTable(t) => HasTable(t)',
         ArchiveOK', FetchedOK',
         rebuild' # Idle => Exact(rebuild'.periods) /\ rows # {} /\ UpToDate
  PROVE  IntervalsInv'
<1>1. Changes' = Changes /\ \A t : InForceSince(t)' = InForceSince(t)
  BY SameHistory
<1>2. InForceSince(today)' = InForceSince(today)
  BY <1>1 DEF InForceSince
<1>3. \A t : Covered(t) => Covered(t)'
  BY DEF Covered, AtIn
<1>4. UpToDate => UpToDate'
  <2>1. HasTable(today) => HasTable(today)'
    BY <1>2 DEF HasTable
  <2>. QED
    BY <1>3, <2>1 DEF UpToDate, OpenIn, NoEnd, Covered, AtIn
<1>5. Behind => Behind'
  BY <1>2 DEF Behind, OpenIn, NoEnd, Covered, AtIn
<1>6. KnownOK'
  BY <1>4, <1>5 DEF IntervalsInv, KnownOK
<1>7. SyncedOK'
  BY DEF IntervalsInv, SyncedOK, AtIn
<1>8. RebuildOK'
  BY <1>4 DEF RebuildOK, Exact, Interval, Within, AtIn, OpenIn, NoEnd, Idle
<1>. QED
  BY <1>6, <1>7, <1>8 DEF IntervalsInv, Interval, Within, NoEnd

LEMMA IntervalsInit ==
  ASSUME UniverseInit
  PROVE  IntervalsInv
BY UniverseAssumption
   DEF UniverseInit, IntervalsInv, ArchiveOK, FetchedOK, KnownOK, SyncedOK, RebuildOK, Idle, Days

\* A table that is downloaded is in the archive afterwards, or one of its day was.
LEMMA ArchiveTakes ==
  ASSUME IntervalsInv, NEW d \in Days, d >= shown, d <= today,
         NEW w, w.date \in InForceSince(d)..d, w.members = official[d],
         archive' = Archived(w), shown' = d, official' = official, today' = today
  PROVE  /\ ArchiveOK'
         /\ \A t : HasTable(t) => HasTable(t)'
         /\ d = today => HasTable(today)'
<1>1. Changes' = Changes /\ \A t : InForceSince(t)' = InForceSince(t)
  BY SameHistory
<1>2. InForceSince(today)' = InForceSince(today)
  BY <1>1 DEF InForceSince
<1>3. d \in Nat /\ today \in Nat /\ shown \in Nat
  BY UniverseAssumption DEF IntervalsInv, ArchiveOK, Days
<1>4. w.date \in 1..today /\ w.date <= d /\ w.members = official[w.date]
  <2>1. InForceSince(d) \in 1..d /\ \A u \in InForceSince(d)..d : official[u] = official[d]
    BY InForceFacts DEF IntervalsInv
  <2>. QED
    BY <1>3, <2>1
<1>5. \A x \in archive' : x \in archive \/ x = w
  BY DEF Archived
<1>6. archive \subseteq archive' /\ \E x \in archive' : x.date = w.date
  BY DEF Archived
<1>7. ArchiveOK'
  <2>1. \A x \in archive : x.date \in 1..today /\ x.date <= d /\ x.members = official[x.date]
    BY <1>3 DEF ArchiveOK, IntervalsInv
  <2>. QED
    BY <1>3, <1>4, <1>5, <2>1 DEF ArchiveOK
<1>8. \A t : HasTable(t) => HasTable(t)'
  BY <1>1, <1>6 DEF HasTable
<1>9. d = today => HasTable(today)'
  BY <1>2, <1>6 DEF HasTable
<1>. QED
  BY <1>7, <1>8, <1>9

\* What a table is that is as it should be.
LEMMA SoundTable ==
  ASSUME official \in Histories, today \in Days, faults \in Nat, faults' = 0,
         NEW d \in Offered, NEW date \in DatesOf(d), NEW m \in MembersOf(d),
         Download(d, [date |-> date, members |-> m])
  PROVE  /\ faults = 0 /\ d \in Days /\ d >= shown /\ d <= today
         /\ date \in InForceSince(d)..d /\ m = official[d]
         /\ d = today \/ (d = today - 1 /\ today \in Changes)
         /\ dated' => dated /\ date = InForceSince(d)
<1>1. d \in Days /\ d \in Nat /\ today \in Nat /\ d >= shown
  BY UniverseAssumption DEF Offered, Days
<1>2. faults = 0 /\ m = official[d] /\ date <= d /\ d <= today
  BY DEF Download, Met, Sound
<1>3. InForceSince(d) \in 1..d
  BY <1>1, InForceFacts
<1>4. date \in InForceSince(d)..d
  BY <1>1, <1>2, <1>3 DEF DatesOf
<1>5. d = today \/ (d = today - 1 /\ today \in Changes)
  BY <1>1, <1>2 DEF Offered
<1>6. dated' => dated /\ date = InForceSince(d)
  BY DEF Download
<1>. QED
  BY <1>1, <1>2, <1>4, <1>5, <1>6

LEMMA DownloadStep ==
  ASSUME IntervalsInv, faults \in Nat, faults' = 0, FirstDownload \/ SecondDownload
  PROVE  IntervalsInv'
<1>1. UNCHANGED <<official, today, rebuild, rows, synced, since>>
  BY DEF FirstDownload, SecondDownload
<1>2. official \in Histories /\ today \in Days /\ today \in Nat
  BY DayTypes DEF IntervalsInv
<1>o. PICK d \in Offered : \E date \in DatesOf(d), m \in MembersOf(d) :
        LET w == [date |-> date, members |-> m] IN
          /\ Download(d, w)
          /\ sync'.stage = "named" \/ (sync'.stage = "fetched" /\ sync'.table = w)
  <2>1. CASE FirstDownload
    BY <2>1 DEF FirstDownload
  <2>2. CASE SecondDownload
    BY <2>2 DEF SecondDownload
  <2>. QED
    BY <2>1, <2>2
<1>3. PICK date \in DatesOf(d), m \in MembersOf(d) :
        LET w == [date |-> date, members |-> m] IN
          /\ Download(d, w)
          /\ sync'.stage = "named" \/ (sync'.stage = "fetched" /\ sync'.table = w)
  BY <1>o
<1>. DEFINE w == [date |-> date, members |-> m]
<1>4. /\ d \in Days /\ d >= shown /\ d <= today
      /\ w.date \in InForceSince(d)..d /\ w.members = official[d]
      /\ d = today \/ (d = today - 1 /\ today \in Changes)
      /\ dated' => dated /\ w.date = InForceSince(d)
  BY <1>2, <1>3, SoundTable
<1>5. archive' = Archived(w) /\ shown' = d /\ d \in Nat
      /\ (sync'.stage = "fetched" => sync'.table = w)
  <2>1. d \in Nat
    BY <1>4, UniverseAssumption DEF Days
  <2>2. archive' = Archived(w) /\ shown' = d
    BY <1>3 DEF Download
  <2>3. sync'.stage = "fetched" => sync'.table = w
    BY <1>3
  <2>. QED
    BY <2>1, <2>2, <2>3
<1>. HIDE DEF w
<1>6. /\ ArchiveOK' /\ \A t : HasTable(t) => HasTable(t)'
      /\ d = today => HasTable(today)'
  BY <1>1, <1>4, <1>5, ArchiveTakes
<1>7. Changes' = Changes /\ \A t : InForceSince(t)' = InForceSince(t)
  BY <1>1, SameHistory
<1>8. InForceSince(today)' = InForceSince(today) /\ InForceSince(today - 1)' = InForceSince(today - 1)
  BY <1>1, <1>7 DEF InForceSince
<1>9. FetchedOK'
  <2>. SUFFICES ASSUME sync'.stage = "fetched"
                PROVE  \/ /\ Current(sync.table)' /\ HasTable(today)'
                          /\ dated' => sync'.table.date = InForceSince(today)'
                       \/ OldTable(sync.table)'
    BY DEF FetchedOK
  <2>1. sync'.table = w
    BY <1>5
  <2>2. CASE d = today
    <3>1. Current(sync.table)'
      BY <1>1, <1>4, <1>8, <2>1, <2>2 DEF Current
    <3>. QED
      BY <1>4, <1>6, <1>8, <2>1, <2>2, <3>1
  <2>3. CASE d = today - 1 /\ today \in Changes
    <3>1. today > 1 /\ shown' < today
      BY <1>2, <1>4, <1>5, <2>3, UniverseAssumption DEF Days
    <3>2. OldTable(sync.table)'
      BY <1>1, <1>4, <1>7, <1>8, <2>1, <2>3, <3>1 DEF OldTable
    <3>. QED
      BY <3>2
  <2>. QED
    BY <1>4, <2>2, <2>3
<1>10. rebuild' # Idle => Exact(rebuild'.periods) /\ rows # {} /\ UpToDate
  BY <1>1 DEF IntervalsInv, RebuildOK
<1>11. dated' => dated
  BY <1>4
<1>. QED
  BY <1>1, <1>6, <1>9, <1>10, <1>11, IntervalsAside

\* Whatever touches neither what is downloaded nor what is rebuilt, or gives it up.
LEMMA OtherStep ==
  ASSUME IntervalsInv, UNCHANGED <<official, today, archive, shown, rows, synced, since, dated>>,
         sync' = sync \/ sync' = Idle,
         rebuild' = rebuild \/ rebuild' = Idle
  PROVE  IntervalsInv'
<1>1. Changes' = Changes /\ \A t : InForceSince(t)' = InForceSince(t)
  BY SameHistory
<1>2. \A t : HasTable(t)' <=> HasTable(t)
  BY <1>1 DEF HasTable
<1>3. ArchiveOK'
  BY <1>1 DEF ArchiveOK, IntervalsInv
<1>4. /\ InForceSince(today)' = InForceSince(today) /\ InForceSince(today - 1)' = InForceSince(today - 1)
      /\ HasTable(today)' <=> HasTable(today)
  BY <1>1 DEF InForceSince, HasTable
<1>5. FetchedOK'
  <2>1. CASE sync' = Idle
    BY <2>1 DEF FetchedOK, Idle
  <2>2. CASE sync' = sync
    BY <1>1, <1>4, <2>2 DEF FetchedOK, Current, OldTable, IntervalsInv
  <2>. QED
    BY <2>1, <2>2
<1>6. rebuild' # Idle => Exact(rebuild'.periods) /\ rows # {} /\ UpToDate
  BY DEF IntervalsInv, RebuildOK
<1>. QED
  BY <1>2, <1>3, <1>5, <1>6, IntervalsAside

\* The tool finds the adjustments consistent only with the membership in force.
LEMMA ConsistentIsUpToDate ==
  ASSUME IntervalsInv, Consistent(OpenIn(rows), Happened)
  PROVE  rows # {} /\ UpToDate
<1>1. official \in Histories /\ today \in Days
  BY DEF IntervalsInv
<1>2. Cardinality(OpenIn(rows)) = Size /\ Size # 0
  BY UniverseAssumption DEF Consistent
<1>3. rows # {}
  <2>1. rows = {} => OpenIn(rows) = {}
    BY DEF OpenIn
  <2>. QED
    BY <1>2, <2>1, FS_EmptySet
<1>4. ASSUME Behind
      PROVE  FALSE
  <2>. DEFINE change == InForceSince(today)
  <2>1. change \in Changes /\ change \in 1..today /\ change - 1 \in 0..LastDay /\ change \in Happened
    BY <1>1, InForceFacts, DayTypes DEF Happened
  <2>2. OpenIn(rows) = official[change - 1] /\ OpenIn(rows) \in SUBSET Symbols
    BY <1>1, <1>4, <2>1, HistoryFacts DEF Behind
  <2>3. Happened \in SUBSET Days /\ Happened # {} /\ Max(Happened) = change
    BY <1>1, HappenedFacts
  <2>4. Backwards(OpenIn(rows), Happened)[change] = OpenIn(rows)
    BY <1>1, <2>1, <2>2, <2>3, UndoneLast, BackwardsUndoes
  <2>5. Entrants(change) \subseteq OpenIn(rows)
    BY <2>1, <2>4 DEF Consistent
  <2>. QED
    BY <1>1, <2>1, <2>2, <2>5, SomebodyEnters DEF Entrants
<1>. QED
  BY <1>3, <1>4 DEF IntervalsInv, KnownOK

LEMMA PeriodsAreExact ==
  ASSUME official \in Histories, today \in Days
  PROVE  Exact(Periods(official[today], Happened))
<1>. DEFINE P == Periods(official[today], Happened)
<1>1. /\ \A r \in P : Interval(r) /\ Within(r, today)
      /\ \A t \in 1..today : \A s :
           s \in official[t] <=> \E r \in P : r.symbol = s /\ r.from <= t /\ t <= r.to
      /\ \A s : s \in official[today] <=> \E r \in P : r.symbol = s /\ r.to = NoEnd
  BY PeriodsFacts
<1>. HIDE DEF P
<1>2. \A t : t \in 1..today => official[t] \subseteq Symbols
  BY HistoryFacts, DayTypes
<1>3. ASSUME NEW t \in 1..today
      PROVE  AtIn(P, t) = official[t]
  BY <1>1, <1>2 DEF AtIn
<1>4. OpenIn(P) = official[today]
  BY <1>1, <1>2, DayTypes DEF OpenIn
<1>. QED
  BY <1>1, <1>3, <1>4 DEF Exact, P

LEMMA LoadStep ==
  ASSUME IntervalsInv, faults \in Nat, faults' = 0, LoadCurrent
  PROVE  IntervalsInv'
<1>1. UNCHANGED <<official, today, archive, shown, sync, rows, synced, since, dated>>
  BY DEF LoadCurrent
<1>2. OpenSymbols = OpenIn(rows)
  BY DEF OpenSymbols, OpenRows, OpenIn
<1>3. /\ Consistent(OpenIn(rows), Happened)
      /\ rebuild' = [stage |-> "loaded", periods |-> Periods(OpenIn(rows), Happened)]
  <2>. DEFINE events(upTo) == {e \in Changes : e <= upTo}
  <2>1. PICK upTo \in 1..today :
          /\ Consistent(OpenIn(rows), events(upTo))
          /\ rebuild' = [stage |-> "loaded", periods |-> Periods(OpenIn(rows), events(upTo))]
          /\ Met(upTo >= InForceSince(today))
    BY <1>2 DEF LoadCurrent
  <2>2. upTo >= InForceSince(today) /\ upTo <= today /\ upTo \in Nat /\ today \in Nat
    BY <2>1, DayTypes DEF Met, IntervalsInv
  <2>3. InForceSince(today) \in 1..today /\ \A e \in Changes : e \in Nat /\ (e <= today => e <= InForceSince(today))
    BY InForceFacts, HistoryFacts DEF IntervalsInv
  <2>4. events(upTo) = Happened
    BY <2>2, <2>3 DEF Happened
  <2>. QED
    BY <2>1, <2>4
<1>4. rows # {} /\ UpToDate
  BY <1>3, ConsistentIsUpToDate
<1>5. Exact(rebuild'.periods)
  BY <1>3, <1>4, PeriodsAreExact DEF IntervalsInv, UpToDate
<1>6. Changes' = Changes /\ \A t : InForceSince(t)' = InForceSince(t)
  BY <1>1, SameHistory
<1>7. \A t : HasTable(t)' <=> HasTable(t)
  BY <1>1, <1>6 DEF HasTable
<1>8. ArchiveOK'
  BY <1>1, <1>6 DEF ArchiveOK, IntervalsInv
<1>9. /\ InForceSince(today)' = InForceSince(today) /\ InForceSince(today - 1)' = InForceSince(today - 1)
      /\ HasTable(today)' <=> HasTable(today)
  BY <1>1, <1>6 DEF InForceSince, HasTable
<1>10. FetchedOK'
  BY <1>1, <1>6, <1>9 DEF FetchedOK, Current, OldTable, IntervalsInv
<1>. QED
  BY <1>1, <1>4, <1>5, <1>7, <1>8, <1>10, IntervalsAside

\* Exact intervals cover all days.
LEMMA ExactCovers ==
  ASSUME today \in Days, NEW R, Exact(R), NEW d \in 1..today
  PROVE  \A u \in d..today : official[u] \subseteq AtIn(R, u)
<1>1. \A u \in d..today : u \in 1..today
  BY DayTypes
<1>. QED
  BY <1>1 DEF Exact

LEMMA ApplyStep ==
  ASSUME IntervalsInv, ApplyHistory
  PROVE  IntervalsInv'
<1>. DEFINE P == rebuild.periods
<1>1. UNCHANGED <<official, today, archive, shown, sync, synced, dated>> /\ rows' = P /\ rebuild' = Idle
      /\ since' = Min(Changes) /\ rebuild # Idle
  BY DEF ApplyHistory
<1>2. official \in Histories /\ today \in Days /\ Exact(P) /\ rows # {} /\ UpToDate
  BY <1>1 DEF IntervalsInv, RebuildOK
<1>3. since' = 1 /\ 1 \in 1..today
  BY <1>1, <1>2, HappenedFacts, DayTypes
<1>4. Changes' = Changes /\ \A t : InForceSince(t)' = InForceSince(t)
  BY <1>1, SameHistory
<1>5. \A t : HasTable(t)' <=> HasTable(t)
  BY <1>1, <1>4 DEF HasTable
<1>6. HasTable(today)' <=> HasTable(today)
  BY <1>1, <1>4 DEF HasTable, InForceSince
<1>7. ArchiveOK'
  BY <1>1, <1>4 DEF ArchiveOK, IntervalsInv
<1>8. InForceSince(today)' = InForceSince(today) /\ InForceSince(today - 1)' = InForceSince(today - 1)
  BY <1>1, <1>4 DEF InForceSince
<1>9. FetchedOK'
  BY <1>1, <1>4, <1>6, <1>8 DEF FetchedOK, Current, OldTable, IntervalsInv
<1>. HIDE DEF P
<1>10. UpToDate'
  <2>1. OpenIn(rows)' = official[today]
    BY <1>1, <1>2 DEF Exact, OpenIn, NoEnd
  <2>2. \A u \in 1..today : official[u] \subseteq AtIn(P, u)
    BY <1>2, <1>3, ExactCovers
  <2>3. Covered(today)'
    BY <1>1, <1>3, <2>2 DEF Covered, AtIn
  <2>. QED
    BY <1>1, <1>2, <1>6, <2>1, <2>3 DEF UpToDate
<1>11. synced \subseteq 1..today
  BY <1>2 DEF IntervalsInv, KnownOK
<1>12. P # {}
  <2>1. official[today] # {}
    BY <1>2, HistoryFacts
  <2>. QED
    BY <1>2, <2>1 DEF Exact, OpenIn
<1>13. KnownOK'
  BY <1>1, <1>3, <1>10, <1>11, <1>12 DEF KnownOK
<1>14. SyncedOK'
  <2>1. \A t \in synced : AtIn(P, t) = official[t] /\ HasTable(t)
    BY <1>2, <1>11 DEF Exact, IntervalsInv, SyncedOK
  <2>. QED
    BY <1>1, <1>5, <2>1 DEF SyncedOK, AtIn
<1>15. \A r \in rows' : Interval(r)' /\ Within(r, today)'
  BY <1>1, <1>2 DEF Exact, Interval, Within, NoEnd
<1>16. RebuildOK'
  BY <1>1 DEF RebuildOK, Idle
<1>. QED
  BY <1>1, <1>2, <1>7, <1>9, <1>13, <1>14, <1>15, <1>16 DEF IntervalsInv

\* What the synchronisation makes of the intervals of the membership before.
LEMMA TakesOver ==
  ASSUME official \in Histories, today \in Days, NEW w, Current(w),
         \A r \in rows : Interval(r) /\ Within(r, today) /\ r.from < InForceSince(today)
  PROVE  LET R == AfterSync(w)
             change == InForceSince(today) IN
           /\ \A r \in R : Interval(r) /\ Within(r, today)
           /\ OpenIn(R) = official[today]
           /\ \A t \in 1..today : t < change => AtIn(R, t) = AtIn(rows, t)
           /\ \A t \in w.date..today : official[t] \subseteq AtIn(R, t)
           /\ R # {}
<1>. DEFINE R == AfterSync(w)
            change == InForceSince(today)
            leaves(r) == r \in OpenRows /\ r.symbol \notin w.members
            next(r) == IF leaves(r) THEN Closed(r) ELSE r
            new(s) == [symbol |-> s, from |-> w.date, to |-> NoEnd]
<1>1. /\ today \in 1..LastDay /\ today \in Nat /\ LastDay \in Nat /\ NoEnd = LastDay + 1
      /\ change \in 1..today /\ change \in Nat /\ change \in Changes
      /\ \A t \in change..today : official[t] = official[today]
  BY DayTypes, InForceFacts
<1>2. w.members = official[today] /\ Effective(w) = w.date /\ w.date \in 1..today /\ w.date \in Nat
      /\ change <= w.date /\ \A t \in w.date..today : t \in change..today
  BY <1>1, TableFacts DEF Current
<1>3. Inserted(w) = {new(s) : s \in w.members \ OpenSymbols}
  <2>1. \A s : ~\E r \in rows : r.symbol = s /\ r.from = w.date
    BY <1>1, <1>2 DEF Within
  <2>. QED
    BY <1>2, <2>1 DEF Inserted
<1>4. R = {next(r) : r \in rows} \cup {new(s) : s \in w.members \ OpenSymbols}
  BY <1>3 DEF AfterSync
<1>5. ASSUME NEW r \in rows, leaves(r)
      PROVE  Closed(r) = [symbol |-> r.symbol, from |-> r.from, to |-> today - 1]
  <2>1. r.from \in 1..today /\ r.from < change /\ r.from <= today - 1 /\ today - 1 \in Int /\ r.from \in Int
    BY <1>1 DEF Within
  <2>2. Max({today - 1, r.from}) = today - 1
    BY <2>1, MaxOfTwo
  <2>. QED
    BY <2>2 DEF Closed, Interval
<1>6. ASSUME NEW r \in rows
      PROVE  /\ Interval(next(r)) /\ Within(next(r), today)
             /\ next(r).symbol = r.symbol /\ next(r).from = r.from
             /\ next(r).to = NoEnd <=> r.to = NoEnd /\ r.symbol \in w.members
             /\ \A t \in 1..today : t < change => (t <= next(r).to <=> t <= r.to)
             /\ r.to = NoEnd /\ r.symbol \in w.members => next(r) = r
  <2>1. CASE leaves(r)
    <3>1. next(r) = [symbol |-> r.symbol, from |-> r.from, to |-> today - 1] /\ r.to = NoEnd
          /\ r.symbol \notin w.members
      BY <1>5, <2>1 DEF OpenRows
    <3>2. today - 1 \in 0..today - 1 /\ today - 1 # NoEnd
          /\ \A t \in 1..today : t < change => t <= today - 1 /\ t <= NoEnd
      BY <1>1
    <3>. HIDE DEF next
    <3>. QED
      BY <3>1, <3>2 DEF Interval, Within
  <2>2. CASE ~leaves(r)
    <3>1. next(r) = r /\ (r.to = NoEnd => r.symbol \in w.members)
      BY <2>2 DEF OpenRows
    <3>. HIDE DEF next
    <3>. QED
      BY <3>1
  <2>. QED
    BY <2>1, <2>2
<1>7. \A s \in w.members \ OpenSymbols : new(s) \in R
  BY <1>4
<1>8. \A r \in rows : next(r) \in R
  <2>. HIDE DEF next, new
  <2>. QED
    BY <1>4
<1>9. ASSUME NEW q \in R
      PROVE  (\E r \in rows : q = next(r)) \/ (\E s \in w.members \ OpenSymbols : q = new(s))
  <2>. HIDE DEF next, new
  <2>. QED
    BY <1>4
<1>10. \A s \in w.members \cap OpenSymbols : \E r \in rows : r.symbol = s /\ r.to = NoEnd
  BY DEF OpenSymbols, OpenRows
<1>11. \A s : Interval(new(s)) /\ Within(new(s), today)
              /\ new(s).symbol = s /\ new(s).from = w.date /\ new(s).to = NoEnd
  BY <1>1, <1>2 DEF Interval, Within
<1>. HIDE DEF R, next, new, leaves, change
<1>12. \A q \in R : Interval(q) /\ Within(q, today)
  BY <1>6, <1>9, <1>11
\* Each member of today has an open interval that began with the change or before.
<1>13. ASSUME NEW s \in w.members
       PROVE  \E q \in R : q.symbol = s /\ q.to = NoEnd /\ q.from <= w.date
  <2>1. CASE s \in OpenSymbols
    <3>1. PICK r \in rows : r.symbol = s /\ r.to = NoEnd
      BY <1>10, <2>1
    <3>2. next(r) = r /\ r \in R
      BY <1>6, <1>8, <3>1
    <3>3. r.from <= w.date
      BY <1>1, <1>2 DEF Within, change
    <3>. QED
      BY <3>1, <3>2, <3>3
  <2>2. CASE s \notin OpenSymbols
    <3>1. new(s) \in R
      BY <1>7, <2>2
    <3>2. w.date <= w.date
      BY <1>2
    <3>. QED
      BY <1>11, <3>1, <3>2
  <2>. QED
    BY <2>1, <2>2
<1>14. OpenIn(R) = official[today]
  <2>1. \A q \in R : q.to = NoEnd => q.symbol \in w.members
    BY <1>6, <1>9, <1>11
  <2>. QED
    BY <1>2, <1>13, <2>1 DEF OpenIn
<1>15. ASSUME NEW t \in 1..today, t < change
       PROVE  AtIn(R, t) = AtIn(rows, t)
  <2>1. \A s : ~(new(s).from <= t)
    <3>1. ~(w.date <= t)
      BY <1>1, <1>2, <1>15
    <3>. QED
      BY <1>11, <3>1
  <2>2. \A r \in rows : next(r).symbol = r.symbol /\ next(r).from = r.from /\ (t <= next(r).to <=> t <= r.to)
    BY <1>6, <1>15
  <2>3. ASSUME NEW s \in AtIn(R, t)
        PROVE  s \in AtIn(rows, t)
    BY <1>9, <2>1, <2>2 DEF AtIn
  <2>4. ASSUME NEW s \in AtIn(rows, t)
        PROVE  s \in AtIn(R, t)
    BY <1>8, <2>2 DEF AtIn
  <2>. QED
    BY <2>3, <2>4
<1>16. ASSUME NEW t \in w.date..today
       PROVE  official[t] \subseteq AtIn(R, t)
  <2>1. t <= NoEnd /\ w.date <= t /\ t \in Nat /\ official[t] = w.members
    BY <1>1, <1>2, <1>16
  <2>2. ASSUME NEW s \in w.members
        PROVE  s \in AtIn(R, t)
    <3>1. PICK q \in R : q.symbol = s /\ q.to = NoEnd /\ q.from <= w.date
      BY <1>13
    <3>2. q.from <= t
      BY <1>1, <1>2, <1>12, <2>1, <3>1 DEF Within
    <3>. QED
      BY <2>1, <3>1, <3>2 DEF AtIn
  <2>. QED
    BY <2>1, <2>2
<1>17. R # {}
  <2>1. official[today] # {}
    BY <1>1, HistoryFacts, DayTypes
  <2>. QED
    BY <1>14, <2>1 DEF OpenIn
<1>. QED
  BY <1>12, <1>14, <1>15, <1>16, <1>17 DEF R, change

\* Whoever downloads what is known already changes nothing.
LEMMA NothingToDo ==
  ASSUME today \in Days, NEW w, w.members = OpenIn(rows)
  PROVE  rows = {} \/ AfterSync(w) = rows
<1>1. OpenSymbols = w.members
  BY DEF OpenSymbols, OpenRows, OpenIn
<1>2. Inserted(w) = {}
  BY <1>1 DEF Inserted
<1>3. \A r \in rows : ~(r \in OpenRows /\ r.symbol \notin w.members)
  BY <1>1 DEF OpenSymbols
<1>. QED
  BY <1>2, <1>3 DEF AfterSync

\* The new membership is taken over.
LEMMA CommitNew ==
  ASSUME IntervalsInv, SyncCommit, Current(sync.table), HasTable(today),
         dated => sync.table.date = InForceSince(today),
         rows' = AfterSync(sync.table), synced' = synced \cup {today},
         since' = IF since = 0 THEN Effective(sync.table) ELSE since,
         rows = {} \/ Behind
  PROVE  IntervalsInv'
<1>. DEFINE R == AfterSync(sync.table)
            change == InForceSince(today)
            date == sync.table.date
<1>1. UNCHANGED <<official, today, archive, shown, rebuild, dated>> /\ sync' = Idle
  BY DEF SyncCommit
<1>2. official \in Histories /\ today \in Days
  BY DEF IntervalsInv
<1>3. change \in 1..today /\ today \in Nat /\ \A t \in 1..today : t \in Nat
  BY <1>2, InForceFacts, DayTypes
<1>4. \A r \in rows : Interval(r) /\ Within(r, today) /\ r.from < change
  BY DEF IntervalsInv, Behind
<1>5. /\ \A r \in R : Interval(r) /\ Within(r, today)
      /\ OpenIn(R) = official[today]
      /\ \A t \in 1..today : t < change => AtIn(R, t) = AtIn(rows, t)
      /\ \A t \in date..today : official[t] \subseteq AtIn(R, t)
      /\ R # {}
  BY <1>2, <1>4, TakesOver
<1>6. Effective(sync.table) = date /\ date \in 1..today /\ change <= date /\ (dated => date = change)
  BY <1>2, TableFacts
<1>. HIDE DEF R
<1>7. Changes' = Changes /\ \A t : InForceSince(t)' = InForceSince(t)
  BY <1>1, SameHistory
<1>8. (\A t : HasTable(t)' <=> HasTable(t)) /\ (HasTable(today)' <=> HasTable(today))
  BY <1>1, <1>7 DEF HasTable, InForceSince
<1>9. ArchiveOK'
  BY <1>1, <1>7 DEF ArchiveOK, IntervalsInv
<1>10. FetchedOK'
  BY <1>1 DEF FetchedOK, Idle
<1>11. rows' = R
  BY DEF R
<1>. HIDE DEF date
<1>12. /\ since' \in 1..today
       /\ rows = {} => since' = date
       /\ rows # {} => since' = since /\ Covered(change - 1)
  <2>1. CASE rows = {}
    <3>1. since' = date
      BY <1>6, <2>1 DEF IntervalsInv, KnownOK
    <3>. QED
      BY <1>6, <2>1, <3>1
  <2>2. CASE rows # {}
    <3>1. since \in 1..today /\ since # 0
      BY <2>2, <1>3 DEF IntervalsInv, KnownOK
    <3>2. Covered(change - 1)
      BY <2>2 DEF Behind
    <3>. QED
      BY <2>2, <3>1, <3>2
  <2>. QED
    BY <2>1, <2>2
<1>13. \A t \in synced : t \in 1..today /\ t < change
  BY DEF IntervalsInv, KnownOK, Behind
<1>14. ASSUME dated, NEW u \in since'..today
       PROVE  official[u] \subseteq AtIn(R, u)
  <2>1. u \in 1..today /\ u \in Nat /\ change \in Nat /\ date \in Nat
    BY <1>3, <1>6, <1>12
  <2>2. CASE rows # {} /\ u < change
    <3>1. u \in since..change - 1
      BY <1>3, <1>12, <2>1, <2>2
    <3>2. official[u] \subseteq AtIn(rows, u)
      BY <1>12, <1>14, <2>2, <3>1 DEF Covered
    <3>. QED
      BY <1>5, <2>1, <2>2, <3>2
  <2>3. CASE rows = {} \/ ~(u < change)
    <3>1. u \in date..today
      BY <1>3, <1>6, <1>12, <1>14, <2>1, <2>3
    <3>. QED
      BY <1>5, <3>1
  <2>. QED
    BY <2>2, <2>3
<1>15. UpToDate'
  <2>1. OpenIn(rows)' = official[today]'
    BY <1>1, <1>5, <1>11 DEF OpenIn, NoEnd
  <2>2. Covered(today)'
    BY <1>1, <1>11, <1>14 DEF Covered, AtIn
  <2>. QED
    BY <1>8, <2>1, <2>2 DEF UpToDate
<1>16. synced' \subseteq 1..today
  BY <1>2, <1>13, DayTypes
<1>17. KnownOK'
  BY <1>1, <1>5, <1>11, <1>12, <1>15, <1>16 DEF KnownOK
<1>18. ASSUME NEW t \in synced'
       PROVE  AtIn(R, t) = official[t] /\ HasTable(t)
  <2>1. CASE t \in synced
    BY <1>5, <1>13, <2>1 DEF IntervalsInv, SyncedOK
  <2>2. CASE t = today
    BY <1>2, <1>5, <2>2, OpenToday
  <2>. QED
    BY <2>1, <2>2
<1>19. SyncedOK'
  BY <1>1, <1>8, <1>11, <1>18 DEF SyncedOK, AtIn
<1>20. \A r \in rows' : Interval(r)' /\ Within(r, today)'
  BY <1>1, <1>5, <1>11 DEF Interval, Within, NoEnd
<1>21. RebuildOK'
  <2>1. rebuild # Idle => Exact(rebuild.periods)
    BY DEF IntervalsInv, RebuildOK
  <2>2. rebuild # Idle => Exact(rebuild.periods)'
    BY <1>1, <2>1 DEF Exact, Interval, Within, AtIn, OpenIn, NoEnd
  <2>. QED
    BY <1>1, <1>5, <1>11, <1>15, <2>2 DEF RebuildOK, Exact, Idle
<1>. QED
  BY <1>1, <1>2, <1>9, <1>10, <1>17, <1>19, <1>20, <1>21 DEF IntervalsInv

\* The membership before the change is taken over for the first time.
LEMMA CommitOld ==
  ASSUME IntervalsInv, SyncCommit, OldTable(sync.table), rows = {},
         rows' = AfterSync(sync.table), synced' = synced,
         since' = IF since = 0 THEN Effective(sync.table) ELSE since
  PROVE  IntervalsInv'
<1>. DEFINE w == sync.table
<1>1. UNCHANGED <<official, today, archive, shown, rebuild>> /\ sync' = Idle
  BY DEF SyncCommit
<1>2. official \in Histories /\ today \in Days /\ ArchiveOK
  BY DEF IntervalsInv
<1>3. /\ InForceSince(today) = today /\ today > 1 /\ today \in Nat /\ today - 1 \in 1..today
      /\ w.members = official[today - 1] /\ w.date \in 1..today /\ w.date <= today - 1
      /\ Effective(w) = w.date /\ InForceSince(today - 1) <= w.date
  BY <1>2, OldTableFacts, DayTypes
<1>4. \A t \in w.date..today - 1 : official[t] = w.members
  <2>1. today - 1 \in Days /\ InForceSince(today - 1) \in 1..today - 1
        /\ \A t \in InForceSince(today - 1)..today - 1 : official[t] = w.members
    BY <1>2, <1>3, InForceFacts, DayTypes
  <2>. QED
    BY <1>3, <2>1
<1>5. since' = w.date /\ synced' = {} /\ rebuild' = Idle
  BY <1>1, <1>3 DEF IntervalsInv, KnownOK, RebuildOK
<1>. DEFINE new(s) == [symbol |-> s, from |-> w.date, to |-> NoEnd]
<1>6. rows' = {new(s) : s \in w.members}
  <2>1. OpenSymbols = {}
    BY DEF OpenSymbols, OpenRows
  <2>2. Inserted(w) = {new(s) : s \in w.members}
    BY <1>3, <2>1 DEF Inserted
  <2>. QED
    BY <2>2 DEF AfterSync
<1>7. \A r \in rows' : Interval(r) /\ r.from = w.date /\ r.to = NoEnd /\ r.symbol \in w.members
  BY <1>6 DEF Interval
<1>8. \A s \in w.members : \E r \in rows' : r.symbol = s /\ r.from = w.date /\ r.to = NoEnd
  <2>1. ASSUME NEW s \in w.members
        PROVE  new(s) \in rows'
    BY <1>6
  <2>. QED
    BY <2>1
<1>. HIDE DEF w
<1>9. NoEnd' = NoEnd /\ NoEnd \in Nat /\ today < NoEnd
  BY <1>2, DayTypes DEF NoEnd
<1>10. OpenIn(rows') = w.members
  BY <1>7, <1>8 DEF OpenIn
<1>11. ASSUME NEW u \in w.date..today - 1
       PROVE  official[u] \subseteq AtIn(rows', u)
  <2>1. u <= NoEnd /\ w.date <= u
    BY <1>3, <1>9, <1>11
  <2>. QED
    BY <1>4, <1>8, <2>1 DEF AtIn
<1>12. Changes' = Changes /\ InForceSince(today)' = today
  BY <1>1, <1>3, SameHistory DEF InForceSince
<1>13. ArchiveOK'
  BY <1>1, <1>12 DEF ArchiveOK, IntervalsInv
<1>14. \A r \in rows' : r.from < today
  BY <1>3, <1>7
<1>15. Behind'
  <2>1. OpenIn(rows)' = official[today - 1]
    BY <1>3, <1>10 DEF OpenIn, NoEnd, w
  <2>2. Covered(today - 1)'
    BY <1>1, <1>5, <1>11 DEF Covered, AtIn
  <2>3. today' > 1 /\ (\A t \in synced' : t < today) /\ official' = official /\ today' = today
    BY <1>1, <1>3, <1>5
  <2>. QED
    BY <1>12, <1>14, <2>1, <2>2, <2>3 DEF Behind, Covered
<1>16. KnownOK'
  <2>1. w.members # {}
    BY <1>2, <1>3, HistoryFacts, DayTypes DEF w
  <2>2. rows' # {}
    BY <1>8, <2>1
  <2>3. w.date \in 1..today
    BY <1>3 DEF w
  <2>. QED
    BY <1>1, <1>5, <1>15, <2>2, <2>3 DEF KnownOK
<1>17. \A r \in rows' : Interval(r)' /\ Within(r, today)'
  BY <1>1, <1>3, <1>7 DEF Interval, Within, NoEnd
<1>18. SyncedOK' /\ RebuildOK' /\ FetchedOK'
  BY <1>1, <1>5 DEF SyncedOK, RebuildOK, FetchedOK, Idle
<1>. QED
  BY <1>1, <1>2, <1>13, <1>16, <1>17, <1>18 DEF IntervalsInv

LEMMA CommitStep ==
  ASSUME IntervalsInv, SyncCommit
  PROVE  IntervalsInv'
<1>. DEFINE w == sync.table
<1>1. /\ UNCHANGED <<official, today, archive, shown, rebuild, dated>> /\ sync' = Idle
      /\ \/ Current(w) /\ HasTable(today) /\ (dated => w.date = InForceSince(today))
         \/ OldTable(w)
  BY DEF SyncCommit, IntervalsInv, FetchedOK
<1>2. official \in Histories /\ today \in Days /\ ArchiveOK
  BY DEF IntervalsInv
<1>3. CASE UNCHANGED <<rows, synced, since>>
  BY <1>1, <1>3, OtherStep
<1>4. CASE /\ rows' = AfterSync(w)
           /\ synced' = IF w.members = official[today] THEN synced \cup {today} ELSE synced
           /\ since' = IF since = 0 THEN Effective(w) ELSE since
  <2>1. CASE Current(w) /\ HasTable(today) /\ (dated => w.date = InForceSince(today)) /\ (rows = {} \/ Behind)
    BY <1>4, <2>1, CommitNew DEF Current
  <2>2. CASE OldTable(w) /\ rows = {}
    BY <1>2, <1>4, <2>2, OldTableFacts, CommitOld
  <2>3. CASE rows # {} /\ ~(Current(w) /\ Behind)
    <3>1. since \in 1..today /\ synced \subseteq 1..today /\ (UpToDate \/ Behind)
      BY <2>3 DEF IntervalsInv, KnownOK
    <3>2. since' = since
      <4>1. since # 0
        BY <1>2, <3>1, DayTypes
      <4>. QED
        BY <1>4, <4>1
    <3>3. CASE Current(w) /\ UpToDate
      <4>1. w.members = OpenIn(rows) /\ w.members = official[today]
        BY <3>3 DEF UpToDate, Current
      <4>2. rows' = rows /\ synced' = synced \cup {today}
        BY <1>2, <1>4, <2>3, <3>3, <4>1, NothingToDo
      <4>3. Changes' = Changes /\ \A t : InForceSince(t)' = InForceSince(t)
        BY <1>1, SameHistory
      <4>4. (\A t : HasTable(t)' <=> HasTable(t)) /\ (HasTable(today)' <=> HasTable(today))
        BY <1>1, <4>3 DEF HasTable, InForceSince
      <4>5. ArchiveOK' /\ FetchedOK'
        BY <1>1, <4>3 DEF ArchiveOK, FetchedOK, Idle, IntervalsInv
      <4>6. UpToDate'
        BY <1>1, <3>2, <3>3, <4>2, <4>4 DEF UpToDate, OpenIn, NoEnd, Covered, AtIn
      <4>7. KnownOK'
        BY <1>1, <1>2, <2>3, <3>1, <3>2, <4>2, <4>6, DayTypes DEF KnownOK
      <4>8. ASSUME NEW t \in synced'
            PROVE  AtIn(rows, t) = official[t] /\ HasTable(t)
        <5>1. CASE t \in synced
          BY <5>1 DEF IntervalsInv, SyncedOK
        <5>2. CASE t = today
          <6>1. AtIn(rows, today) = OpenIn(rows)
            BY <1>2, OpenToday DEF IntervalsInv
          <6>. QED
            BY <3>3, <5>2, <6>1 DEF UpToDate
        <5>. QED
          BY <4>2, <5>1, <5>2
      <4>9. SyncedOK'
        BY <1>1, <4>2, <4>4, <4>8 DEF SyncedOK, AtIn
      <4>10. RebuildOK'
        <5>1. rebuild # Idle => Exact(rebuild.periods)
          BY DEF IntervalsInv, RebuildOK
        <5>2. rebuild # Idle => Exact(rebuild.periods)'
          BY <1>1, <5>1 DEF Exact, Interval, Within, AtIn, OpenIn, NoEnd
        <5>. QED
          BY <1>1, <2>3, <4>2, <4>6, <5>2 DEF RebuildOK, Exact, Idle
      <4>11. \A r \in rows' : Interval(r)' /\ Within(r, today)'
        BY <1>1, <4>2 DEF IntervalsInv, Interval, Within, NoEnd
      <4>. QED
        BY <1>1, <1>2, <4>5, <4>7, <4>9, <4>10, <4>11 DEF IntervalsInv
    <3>4. CASE OldTable(w)
      <4>1. w.members # official[today] /\ ~HasTable(today) /\ w.members = official[InForceSince(today) - 1]
        BY <1>2, <3>4, OldTableFacts
      <4>2. w.members = OpenIn(rows)
        BY <3>1, <4>1 DEF UpToDate, Behind
      <4>3. rows' = rows /\ synced' = synced
        BY <1>2, <1>4, <2>3, <4>1, <4>2, NothingToDo
      <4>. QED
        BY <1>1, <3>2, <4>3, OtherStep
    <3>. QED
      BY <1>1, <2>3, <3>1, <3>3, <3>4
  <2>4. OldTable(w) => ~Current(w)
    BY <1>2, OldTableFacts DEF Current
  <2>. QED
    BY <1>1, <2>1, <2>2, <2>3, <2>4
<1>. QED
  BY <1>3, <1>4 DEF SyncCommit

\* A new day. With a change of the membership the intervals are behind.
LEMMA NextDayStep ==
  ASSUME IntervalsInv, Tick
  PROVE  IntervalsInv'
<1>n. PICK n : n = today + 1
  OBVIOUS
<1>1. /\ UNCHANGED <<official, archive, shown, rows, synced, since, dated>>
      /\ today' = n /\ sync' = Idle /\ rebuild' = Idle
      /\ today < LastDay
      /\ n \in Changes /\ rows # {} => \E t \in synced : t >= InForceSince(today)
  BY <1>n DEF Tick
<1>2. official \in Histories /\ today \in Days
  BY DEF IntervalsInv
<1>3. /\ n \in Days /\ n \in Nat /\ today \in Nat /\ today \in Days /\ n - 1 = today /\ today < NoEnd
      /\ n \in 1..LastDay /\ LastDay \in Nat /\ n < NoEnd /\ NoEnd = LastDay + 1 /\ n > 1
  BY <1>n, <1>1, <1>2, DayTypes DEF Days
<1>4. Changes' = Changes /\ \A t : InForceSince(t)' = InForceSince(t)
  BY <1>1, SameHistory
<1>5. InForceSince(today)' = InForceSince(n)
  BY <1>1, <1>4 DEF InForceSince
<1>6. \A t : HasTable(t)' <=> HasTable(t)
  BY <1>1, <1>4 DEF HasTable
<1>7. ArchiveOK'
  <2>1. \A x \in archive : x.date \in 1..today => x.date \in 1..n
    BY <1>3
  <2>. QED
    BY <1>1, <2>1 DEF ArchiveOK, IntervalsInv
<1>8. FetchedOK' /\ RebuildOK'
  BY <1>1 DEF FetchedOK, RebuildOK, Idle
<1>9. SyncedOK'
  BY <1>1, <1>6 DEF SyncedOK, AtIn, IntervalsInv
<1>10. \A r \in rows : r.from \in 1..today /\ (r.to = NoEnd \/ r.to \in 0..today - 1)
  BY DEF IntervalsInv, Within
<1>11. \A r \in rows' : Interval(r)' /\ Within(r, today)'
  <2>1. \A r \in rows : r.from \in 1..n /\ (r.to = NoEnd \/ r.to \in 0..n - 1)
    BY <1>3, <1>10
  <2>. QED
    BY <1>1, <2>1 DEF Interval, Within, NoEnd, IntervalsInv
<1>12. InForceSince(n) \in Changes /\ InForceSince(n) \in 1..n /\ InForceSince(n) \in Nat
       /\ InForceSince(today) \in Changes /\ InForceSince(today) \in 1..today /\ InForceSince(today) \in Nat
       /\ \A e \in Changes : e \in Nat /\ (e <= n => e <= InForceSince(n)) /\ (e <= today => e <= InForceSince(today))
  BY <1>2, <1>3, InForceFacts, HistoryFacts
<1>13. CASE rows = {}
  <2>1. KnownOK'
    BY <1>1, <1>13 DEF KnownOK, IntervalsInv
  <2>. QED
    BY <1>1, <1>2, <1>3, <1>7, <1>8, <1>9, <1>11, <2>1 DEF IntervalsInv
<1>14. CASE rows # {}
  <2>1. since \in 1..today /\ synced \subseteq 1..today /\ (UpToDate \/ Behind)
    BY <1>14 DEF IntervalsInv, KnownOK
  <2>2. since \in 1..n /\ synced \subseteq 1..n /\ \A t \in synced : t \in Nat /\ t < n
    BY <1>3, <2>1
  <2>3. CASE n \in Changes
    <3>1. InForceSince(n) = n
      BY <1>3, <1>12, <2>3
    <3>2. UpToDate
      <4>1. PICK t \in synced : t >= InForceSince(today)
        BY <1>1, <1>14, <2>3
      <4>2. ~(t < InForceSince(today))
        BY <1>12, <2>2, <4>1
      <4>. QED
        BY <2>1, <4>2 DEF Behind
    <3>3. Behind'
      <4>1. OpenIn(rows)' = official[n - 1]
        BY <1>1, <1>3, <3>2 DEF UpToDate, OpenIn, NoEnd
      <4>2. Covered(n - 1)'
        BY <1>1, <1>3, <3>2 DEF UpToDate, Covered, AtIn
      <4>3. \A r \in rows' : r.from < n
        BY <1>1, <1>3, <1>10
      <4>4. InForceSince(today)' = n
        BY <1>5, <3>1
      <4>. QED
        BY <1>1, <1>3, <2>2, <4>1, <4>2, <4>3, <4>4 DEF Behind, Covered
    <3>4. KnownOK'
      BY <1>1, <1>14, <2>2, <3>3 DEF KnownOK
    <3>. QED
      BY <1>1, <1>2, <1>3, <1>7, <1>8, <1>9, <1>11, <3>4 DEF IntervalsInv
  <2>4. CASE n \notin Changes
    <3>1. InForceSince(n) = InForceSince(today)
      <4>1. InForceSince(n) # n
        BY <1>12, <2>4
      <4>2. InForceSince(n) <= today
        BY <1>3, <1>12, <4>1
      <4>. QED
        BY <1>3, <1>12, <4>2
    <3>2. official[n] = official[today]
      BY <1>2, <1>3, <2>4 DEF Changes
    <3>3. UpToDate => UpToDate'
      <4>. SUFFICES ASSUME UpToDate
                    PROVE  UpToDate'
        OBVIOUS
      <4>1. OpenIn(rows)' = official[today]'
        BY <1>1, <3>2 DEF UpToDate, OpenIn, NoEnd
      <4>2. HasTable(today)'
        <5>1. PICK x \in archive : x.date \in InForceSince(today)..today
          BY DEF UpToDate, HasTable
        <5>2. x.date \in InForceSince(n)..n
          BY <1>3, <1>12, <3>1, <5>1
        <5>. QED
          BY <1>1, <1>5, <5>2 DEF HasTable
      <4>3. ASSUME dated, NEW u \in since..n
            PROVE  official[u] \subseteq AtIn(rows, u)
        <5>1. CASE u \in since..today
          BY <4>3, <5>1 DEF UpToDate, Covered
        <5>2. CASE u = n
          <6>1. \A r \in rows : r.to = NoEnd => r.from <= n /\ n <= r.to
            BY <1>3, <1>10
          <6>2. OpenIn(rows) \subseteq AtIn(rows, n)
            BY <6>1 DEF OpenIn, AtIn
          <6>. QED
            BY <3>2, <5>2, <6>2 DEF UpToDate
        <5>. QED
          BY <1>3, <2>1, <5>1, <5>2
      <4>4. Covered(today)'
        BY <1>1, <4>3 DEF Covered, AtIn
      <4>. QED
        BY <4>1, <4>2, <4>4 DEF UpToDate
    <3>4. Behind => Behind'
      <4>1. InForceSince(today)' = InForceSince(today)
        BY <1>5, <3>1
      <4>. QED
        BY <1>1, <4>1 DEF Behind, OpenIn, NoEnd, Covered, AtIn
    <3>5. KnownOK'
      BY <1>1, <1>14, <2>1, <2>2, <3>3, <3>4 DEF KnownOK
    <3>. QED
      BY <1>1, <1>2, <1>3, <1>7, <1>8, <1>9, <1>11, <3>5 DEF IntervalsInv
  <2>. QED
    BY <2>3, <2>4
<1>. QED
  BY <1>13, <1>14

LEMMA IntervalsNextInv ==
  ASSUME IntervalsInv, faults \in Nat, faults' = 0, [UniverseNext]_universeVars
  PROVE  IntervalsInv'
<1>1. CASE UNCHANGED universeVars
  BY <1>1, OtherStep DEF universeVars
<1>2. CASE DownloadFails \/ ApplyFails \/ \E s \in Symbols : BackfillEnds(s)
  <2>1. UNCHANGED <<official, today, archive, shown, rows, synced, since, dated>>
        /\ (sync' = sync \/ sync' = Idle) /\ (rebuild' = rebuild \/ rebuild' = Idle)
    BY <1>2 DEF DownloadFails, ApplyFails, BackfillEnds
  <2>. QED
    BY <2>1, OtherStep
<1>. QED
  BY <1>1, <1>2, DownloadStep, CommitStep, LoadStep, ApplyStep, NextDayStep DEF UniverseNext

\* The archive has the table of every day that was taken over.
LEMMA ArchiveAnswers ==
  ASSUME IntervalsInv, NEW t \in 1..today, HasTable(t)
  PROVE  Snapshot(t) = official[t]
<1>. DEFINE dates == {x.date : x \in {y \in archive : y.date <= t}}
            change == InForceSince(t)
<1>1. official \in Histories /\ t \in Days /\ t \in Nat /\ today \in Days
  BY DayTypes DEF IntervalsInv
<1>2. change \in Nat /\ \A u \in change..t : official[u] = official[t]
  BY <1>1, InForceFacts
<1>3. \A x \in archive : x.date \in Nat /\ x.members = official[x.date]
  BY <1>1, DayTypes DEF IntervalsInv, ArchiveOK
<1>4. PICK x \in archive : x.date \in change..t
  BY DEF HasTable
<1>5. x.date \in dates /\ dates \in SUBSET Nat /\ \A e \in dates : e <= t
  BY <1>1, <1>2, <1>3, <1>4
<1>6. ASSUME NEW n \in dates, \A e \in dates : e <= n
      PROVE  Max(dates) = n
  <2>. HIDE DEF dates
  <2>. QED
    BY <1>5, <1>6, GreatestElement
<1>7. PICK n \in dates : \A e \in dates : e <= n
  <2>. HIDE DEF dates
  <2>1. dates \subseteq 0..t
    BY <1>1, <1>5
  <2>2. IsFiniteSet(0..t)
    BY <1>1, FS_Interval
  <2>3. IsFiniteSet(dates)
    BY <2>1, <2>2, FS_Subset
  <2>. QED
    BY <1>5, <2>3, LargestOf
<1>8. Max(dates) = n /\ n \in change..t
  <2>1. Max(dates) = n
    BY <1>6, <1>7
  <2>2. x.date <= n /\ n <= t /\ n \in Nat
    BY <1>5, <1>7
  <2>. QED
    BY <1>1, <1>2, <1>4, <2>1, <2>2
<1>9. Snapshot(t) = (CHOOSE y \in archive : y.date = n).members
  BY <1>5, <1>8 DEF Snapshot
<1>10. \E y \in archive : y.date = n
  BY <1>7
<1>. HIDE DEF change, dates
<1>11. (CHOOSE y \in archive : y.date = n) \in archive
      /\ (CHOOSE y \in archive : y.date = n).date = n
  BY <1>10
<1>. QED
  BY <1>2, <1>3, <1>8, <1>9, <1>11

\* The intervals and the archive agree.
LEMMA IntervalsAgree ==
  ASSUME IntervalsInv
  PROVE  PointInTime
<1>1. \A t : MembersAt(t) = AtIn(rows, t)
  BY DEF MembersAt, AtIn
<1>2. synced \subseteq 1..today /\ (since # 0 => rows # {}  \/ synced = {})
  BY DEF IntervalsInv, KnownOK
<1>3. ASSUME NEW t \in synced
      PROVE  MembersAt(t) = official[t] /\ Snapshot(t) = official[t]
  BY <1>1, <1>2, ArchiveAnswers DEF IntervalsInv, SyncedOK
<1>4. ASSUME dated, NEW t \in Days, since # 0, since <= t, NEW u \in synced, t <= u
      PROVE  official[t] \subseteq MembersAt(t)
  <2>1. rows # {} /\ since \in 1..today /\ u \in 1..today /\ (UpToDate \/ Behind)
    BY <1>2, <1>4 DEF IntervalsInv, KnownOK
  <2>2. since \in Nat /\ t \in Nat /\ u \in Nat /\ today \in Nat /\ since <= t /\ t <= u /\ u <= today
    BY <1>4, <2>1, HistoryFacts, DayTypes DEF IntervalsInv
  <2>3. CASE UpToDate
    BY <1>1, <1>4, <2>2, <2>3 DEF UpToDate, Covered
  <2>4. CASE Behind
    <3>1. u < InForceSince(today) /\ InForceSince(today) \in Nat
      BY <2>4, InForceFacts, HistoryFacts DEF Behind, IntervalsInv
    <3>2. t \in since..InForceSince(today) - 1
      BY <2>2, <3>1
    <3>. QED
      BY <1>1, <1>4, <2>4, <3>2 DEF Behind, Covered
  <2>. QED
    BY <2>1, <2>3, <2>4
<1>. QED
  BY <1>3, <1>4 DEF PointInTime

\* What holds as long as every table and list of adjustments was as it should be.
SoundInv == faults \in Nat /\ (faults = 0 => IntervalsInv)

LEMMA FaultsOnlyGrow ==
  ASSUME faults \in Nat, [UniverseNext]_universeVars
  PROVE  faults' \in Nat /\ (faults' = 0 => faults = 0)
<1>1. ASSUME NEW good, Met(good)
      PROVE  faults' = faults \/ faults' = faults + 1
  BY <1>1 DEF Met
<1>2. faults' = faults \/ faults' = faults + 1
  <2>1. CASE FirstDownload \/ SecondDownload
    <3>1. PICK d, table : Download(d, table)
      BY <2>1 DEF FirstDownload, SecondDownload
    <3>. QED
      BY <1>1, <3>1 DEF Download
  <2>2. CASE LoadCurrent
    BY <1>1, <2>2 DEF LoadCurrent
  <2>3. CASE ~(FirstDownload \/ SecondDownload \/ LoadCurrent)
    BY <2>3 DEF UniverseNext, universeVars, DownloadFails, SyncCommit, BackfillEnds, ApplyHistory,
                ApplyFails, Tick
  <2>. QED
    BY <2>1, <2>2, <2>3
<1>. QED
  BY <1>2

\* csi300_provider, sync_universe_members and csi300_history: for every history, however
\* many runs are missed, tables come late, are dated by their change or by their
\* publication and intervals are rebuilt in between, every day whose membership was taken
\* over has it in the intervals and in the archive, until a table is incomplete or dated
\* after its day or an adjustment is missing; and if all tables are dated by their change,
\* no day in between lacks a member.
THEOREM MembershipIsPointInTime == UniverseSpec => []PointInTime
<1>1. UniverseInit => SoundInv
  <2>1. UniverseInit => faults \in Nat
    BY DEF UniverseInit
  <2>. QED
    BY <2>1, IntervalsInit DEF SoundInv
<1>2. SoundInv /\ [UniverseNext]_universeVars => SoundInv'
  BY FaultsOnlyGrow, IntervalsNextInv DEF SoundInv
<1>3. SoundInv => PointInTime
  <2>1. faults # 0 => PointInTime
    BY DEF PointInTime
  <2>. QED
    BY <2>1, IntervalsAgree DEF SoundInv
<1>. QED
  BY <1>1, <1>2, <1>3, PTL DEF UniverseSpec

=============================================================================
