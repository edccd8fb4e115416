----------------------------- MODULE ModelsProof -----------------------------
(***************************************************************************)
(* Proofs about Models, for every number of versions, stocks and edits.    *)
(*                                                                         *)
(* The artifacts of a version are fixed once its directory is there, the   *)
(* registry knows only directories that are complete, and a version that   *)
(* has ever served passed its gate, however activations overlap.  The      *)
(* cached bundles all belong to the feature set that is cached.  An        *)
(* activation that no other has come between knows all that is active, and *)
(* a report that no activation has come after is of the version served.    *)
(***************************************************************************)
EXTENDS Models, FiniteSetTheorems, WellFoundedInduction, TLAPS

-----------------------------------------------------------------------------
(***************************************************************************)
(* The registry, whatever overlaps.                                        *)
(***************************************************************************)

Trainings == [stage : {"writing", "writtenOut"}, version : Versions]

Activations ==
  [stage : {"retiring", "promoting"}, version : Versions, others : SUBSET Versions, alone : BOOLEAN]

RegistryTypes ==
  /\ content \in Nat \ {0}
  /\ files \in [Versions -> {"none", "partial", "complete"}]
  /\ trained \in [Versions -> Nat]
  /\ gate \in [Versions -> BOOLEAN]
  /\ grade \in [Versions -> {"low", "medium", "high"}]
  /\ status \in [Versions -> {"none", "candidate", "active", "retired"}]
  /\ training \in {Idle} \cup Trainings
  /\ operation \in [Operators -> {Idle} \cup Activations]

\* The version in training is not registered yet.
TrainingOK ==
  /\ training.stage = "writing" => status[training.version] = "none"
  /\ training.stage = "writtenOut" =>
       status[training.version] = "none" /\ files[training.version] = "complete"

\* A version that serves or has served.
HasServed(v) == status[v] \in {"active", "retired"}

GateOK ==
  /\ \A v \in Versions : HasServed(v) => gate[v]
  /\ \A o \in Operators : operation[o] # Idle =>
       /\ status[operation[o].version] # "none"
       /\ gate[operation[o].version]
       /\ \A w \in operation[o].others : HasServed(w)

RegistryInv == RegistryTypes /\ RegisteredIsComplete /\ TrainingOK /\ GateOK

\* Steps that do not touch the registry.
LEMMA RegistryUnchanged ==
  ASSUME RegistryInv, UNCHANGED <<registryVars, training, operation>>, content' \in Nat \ {0}
  PROVE  RegistryInv'
BY DEF RegistryInv, RegistryTypes, RegisteredIsComplete, TrainingOK, GateOK, HasServed, registryVars

\* A version in training belongs to Versions.
LEMMA TrainingPhases ==
  ASSUME RegistryTypes
  PROVE  training # Idle <=> training \in Trainings
BY DEF RegistryTypes, Idle, Trainings

LEMMA OperationPhases ==
  ASSUME RegistryTypes, NEW o \in Operators
  PROVE  operation[o] # Idle <=> operation[o] \in Activations
BY DEF RegistryTypes, Idle, Activations

\* Promoting a version that passed and retiring versions that served.
LEMMA Promotion ==
  ASSUME RegistryInv, NEW v \in Versions, gate[v], files[v] = "complete",
         NEW others \in SUBSET Versions, \A w \in others : HasServed(w),
         status' = StatusAfter(v, others), UNCHANGED <<files, trained, gate, grade, content>>
  PROVE  /\ status' \in [Versions -> {"none", "candidate", "active", "retired"}]
         /\ RegisteredIsComplete'
         /\ \A w \in Versions : HasServed(w)' => gate'[w]
         /\ \A w \in Versions : HasServed(w) => HasServed(w)'
         /\ \A w \in Versions : status[w] # "none" => status'[w] # "none"
         /\ \A w \in Versions : w # v /\ status[w] = "none" => status'[w] = "none"
BY DEF RegistryInv, RegistryTypes, RegisteredIsComplete, GateOK, HasServed, StatusAfter

LEMMA RegistryInit ==
  ASSUME Init
  PROVE  RegistryInv
BY DEF Init, RegistryInv, RegistryTypes, RegisteredIsComplete, TrainingOK, GateOK, HasServed, Idle

LEMMA TrainStep ==
  ASSUME RegistryInv, NEW v \in Versions, Train(v)
  PROVE  RegistryInv'
<1>1. status[v] = "none" /\ UNCHANGED <<content, status, operation>>
  BY DEF Train, RegistryInv, RegisteredIsComplete
<1>2. training' \in Trainings /\ training'.stage = "writing" /\ training'.version = v
  BY DEF Train, Trainings
<1>3. RegistryTypes'
  BY <1>1, <1>2, ModelsAssumption DEF Train, RegistryInv, RegistryTypes, ModelsAssumption
<1>4. \A w \in Versions : w # v => files'[w] = files[w] /\ gate'[w] = gate[w]
  BY DEF Train, RegistryInv, RegistryTypes
<1>5. RegisteredIsComplete' /\ TrainingOK'
  BY <1>1, <1>2, <1>4 DEF RegistryInv, RegisteredIsComplete, TrainingOK
<1>6. GateOK'
  <2>1. \A w \in Versions : HasServed(w)' => gate'[w]
    BY <1>1, <1>4 DEF RegistryInv, GateOK, HasServed
  <2>2. ASSUME NEW o \in Operators, operation'[o] # Idle
        PROVE  /\ status'[operation'[o].version] # "none"
               /\ gate'[operation'[o].version]
               /\ \A w \in operation'[o].others : HasServed(w)'
    <3>1. operation[o] \in Activations /\ operation'[o] = operation[o]
      BY <1>1, <2>2, OperationPhases DEF RegistryInv
    <3>2. operation[o].version \in Versions /\ operation[o] # Idle
      BY <1>1, <2>2, <3>1 DEF Activations
    <3>. QED
      BY <1>1, <1>4, <3>1, <3>2 DEF RegistryInv, GateOK, HasServed
  <2>. QED
    BY <2>1, <2>2 DEF GateOK
<1>. QED
  BY <1>3, <1>5, <1>6 DEF RegistryInv

LEMMA WriteRestStep ==
  ASSUME RegistryInv, WriteRest
  PROVE  RegistryInv'
<1>1. training \in Trainings
  BY TrainingPhases DEF WriteRest, Idle, RegistryInv
<1>2. training' \in Trainings /\ training'.stage = "writtenOut" /\ training'.version = training.version
  BY <1>1 DEF WriteRest, Trainings
<1>3. training.version \in Versions
  BY <1>1 DEF Trainings
<1>4. RegistryTypes'
  BY <1>2 DEF WriteRest, RegistryInv, RegistryTypes
<1>5. RegisteredIsComplete' /\ TrainingOK'
  BY <1>2, <1>3 DEF WriteRest, RegistryInv, RegistryTypes, RegisteredIsComplete, TrainingOK
<1>6. GateOK'
  BY DEF WriteRest, RegistryInv, GateOK, HasServed
<1>. QED
  BY <1>4, <1>5, <1>6 DEF RegistryInv

LEMMA RegisterStep ==
  ASSUME RegistryInv, Register
  PROVE  RegistryInv'
<1>1. training \in Trainings /\ training.stage = "writtenOut"
  BY TrainingPhases DEF Register, MayRegister, Idle, RegistryInv
<1>. DEFINE v == training.version
<1>2. v \in Versions /\ status[v] = "none" /\ files[v] = "complete"
  BY <1>1 DEF Trainings, RegistryInv, TrainingOK
<1>3. status' = [status EXCEPT ![v] = "candidate"] /\ training' = Idle
        /\ UNCHANGED <<content, files, trained, gate, grade, operation>>
  BY DEF Register
<1>. HIDE DEF v
<1>4. RegistryTypes' /\ RegisteredIsComplete' /\ TrainingOK'
  BY <1>2, <1>3 DEF RegistryInv, RegistryTypes, RegisteredIsComplete, TrainingOK, Idle
<1>5. \A w \in Versions : w # v => status'[w] = status[w]
  BY <1>3 DEF RegistryInv, RegistryTypes
<1>6. status'[v] = "candidate"
  BY <1>2, <1>3 DEF RegistryInv, RegistryTypes
<1>7. \A w \in Versions : HasServed(w)' <=> HasServed(w)
  BY <1>2, <1>5, <1>6 DEF HasServed
<1>8. GateOK'
  <2>1. \A w \in Versions : HasServed(w)' => gate'[w]
    BY <1>3, <1>7 DEF RegistryInv, GateOK
  <2>2. ASSUME NEW o \in Operators, operation'[o] # Idle
        PROVE  /\ status'[operation'[o].version] # "none"
               /\ gate'[operation'[o].version]
               /\ \A w \in operation'[o].others : HasServed(w)'
    <3>1. operation[o] \in Activations /\ operation'[o] = operation[o] /\ operation[o] # Idle
      BY <1>3, <2>2, OperationPhases DEF RegistryInv
    <3>2. operation[o].version \in Versions /\ operation[o].others \subseteq Versions
      BY <3>1 DEF Activations
    <3>. QED
      BY <1>3, <1>5, <1>6, <1>7, <3>1, <3>2 DEF RegistryInv, GateOK
  <2>. QED
    BY <2>1, <2>2 DEF GateOK
<1>. QED
  BY <1>4, <1>8 DEF RegistryInv

\* What a commit leaves of the other operations.
KeepsOf(was, is) ==
  is = Idle \/ (was # Idle /\ is.version = was.version /\ is.others = was.others)

\* A step that promotes, while an operation stays or ends.
LEMMA PromotionStep ==
  ASSUME RegistryInv, NEW v \in Versions, gate[v], status[v] # "none" \/ training' = Idle, files[v] = "complete",
         NEW others \in SUBSET Versions, \A w \in others : HasServed(w),
         status' = StatusAfter(v, others), UNCHANGED <<files, trained, gate, grade, content>>,
         training' \in {Idle, training},
         operation' \in [Operators -> {Idle} \cup Activations],
         \A o \in Operators : KeepsOf(operation[o], operation'[o])
  PROVE  RegistryInv'
<1>1. /\ status' \in [Versions -> {"none", "candidate", "active", "retired"}]
      /\ RegisteredIsComplete'
      /\ \A w \in Versions : HasServed(w)' => gate'[w]
      /\ \A w \in Versions : HasServed(w) => HasServed(w)'
      /\ \A w \in Versions : status[w] # "none" => status'[w] # "none"
      /\ \A w \in Versions : w # v /\ status[w] = "none" => status'[w] = "none"
  BY Promotion
<1>2. RegistryTypes'
  BY <1>1 DEF RegistryInv, RegistryTypes
<1>3. TrainingOK'
  <2>1. CASE training' = Idle
    BY <2>1 DEF TrainingOK, Idle
  <2>2. CASE training' = training /\ training # Idle
    <3>1. training \in Trainings /\ status[v] # "none"
      BY <2>2, TrainingPhases DEF RegistryInv
    <3>2. training.version \in Versions
      BY <3>1 DEF Trainings
    <3>. QED
      BY <1>1, <2>2, <3>1, <3>2 DEF RegistryInv, TrainingOK, Trainings
  <2>. QED
    BY <2>1, <2>2
<1>4. GateOK'
  <2>2. ASSUME NEW o \in Operators, operation'[o] # Idle
        PROVE  /\ status'[operation'[o].version] # "none"
               /\ gate'[operation'[o].version]
               /\ \A w \in operation'[o].others : HasServed(w)'
    <3>1. /\ operation[o] \in Activations /\ operation[o] # Idle
          /\ operation'[o].version = operation[o].version
          /\ operation'[o].others = operation[o].others
      BY <2>2, OperationPhases DEF RegistryInv, KeepsOf
    <3>2. operation[o].version \in Versions /\ operation[o].others \subseteq Versions
      BY <3>1 DEF Activations
    <3>. QED
      BY <1>1, <3>1, <3>2 DEF RegistryInv, GateOK
  <2>. QED
    BY <1>1, <2>2 DEF GateOK
<1>. QED
  BY <1>1, <1>2, <1>3, <1>4 DEF RegistryInv

LEMMA DisturbedKeeps ==
  ASSUME RegistryTypes
  PROVE  /\ Disturbed \in [Operators -> {Idle} \cup Activations]
         /\ \A o \in Operators : KeepsOf(operation[o], Disturbed[o])
         /\ \A o \in Operators : Disturbed[o] = Idle \/ Disturbed[o].alone = FALSE
<1>1. ASSUME NEW o \in Operators
      PROVE  /\ Disturbed[o] \in {Idle} \cup Activations
             /\ KeepsOf(operation[o], Disturbed[o])
             /\ Disturbed[o] = Idle \/ Disturbed[o].alone = FALSE
  <2>1. CASE operation[o] = Idle
    BY <2>1 DEF Disturbed, KeepsOf
  <2>2. CASE operation[o] # Idle
    <3>1. operation[o] \in Activations
      BY <2>2, OperationPhases
    <3>2. Disturbed[o] = [operation[o] EXCEPT !.alone = FALSE]
      BY <2>2 DEF Disturbed
    <3>. QED
      BY <2>2, <3>1, <3>2 DEF Activations, KeepsOf
  <2>. QED
    BY <2>1, <2>2
<1>2. Disturbed = [o \in Operators |-> Disturbed[o]]
  BY DEF Disturbed
<1>. QED
  BY <1>1, <1>2

LEMMA RegisterActivatingStep ==
  ASSUME RegistryInv, RegisterActivating
  PROVE  RegistryInv'
<1>1. training \in Trainings /\ training.stage = "writtenOut"
  BY TrainingPhases DEF RegisterActivating, MayRegister, Idle, RegistryInv
<1>2. training.version \in Versions /\ files[training.version] = "complete" /\ gate[training.version]
  BY <1>1 DEF Trainings, RegistryInv, TrainingOK, RegisterActivating
<1>3. Active \in SUBSET Versions /\ \A w \in Active : HasServed(w)
  BY DEF Active, HasServed
<1>4. /\ status' = StatusAfter(training.version, Active)
      /\ training' = Idle
      /\ operation' = Disturbed
      /\ UNCHANGED <<files, trained, gate, grade, content>>
  BY DEF RegisterActivating, Activated
<1>5. operation' \in [Operators -> {Idle} \cup Activations]
        /\ \A o \in Operators : KeepsOf(operation[o], operation'[o])
  BY <1>4, DisturbedKeeps DEF RegistryInv
<1>. QED
  BY <1>2, <1>3, <1>4, <1>5, PromotionStep

LEMMA CommitActivationStep ==
  ASSUME RegistryInv, NEW o \in Operators, CommitActivation(o)
  PROVE  RegistryInv'
<1>1. operation[o] # Idle
  BY DEF CommitActivation, Idle
<1>2. operation[o] \in Activations
  BY <1>1, OperationPhases DEF RegistryInv
<1>3. operation[o].version \in Versions /\ operation[o].others \in SUBSET Versions
  BY <1>2 DEF Activations
<1>4. /\ gate[operation[o].version]
      /\ status[operation[o].version] # "none"
      /\ \A w \in operation[o].others : HasServed(w)
  BY <1>1 DEF RegistryInv, GateOK
<1>5. files[operation[o].version] = "complete"
  BY <1>3, <1>4 DEF RegistryInv, RegisteredIsComplete
<1>6. /\ status' = StatusAfter(operation[o].version, operation[o].others)
      /\ operation' = [Disturbed EXCEPT ![o] = Idle]
      /\ UNCHANGED <<files, trained, gate, grade, content, training>>
  BY DEF CommitActivation, Activated
<1>7. operation' \in [Operators -> {Idle} \cup Activations]
        /\ \A p \in Operators : KeepsOf(operation[p], operation'[p])
  <2>1. /\ Disturbed \in [Operators -> {Idle} \cup Activations]
        /\ \A p \in Operators : KeepsOf(operation[p], Disturbed[p])
    BY DisturbedKeeps DEF RegistryInv
  <2>2. operation' \in [Operators -> {Idle} \cup Activations] /\ operation'[o] = Idle
          /\ \A p \in Operators : p # o => operation'[p] = Disturbed[p]
    BY <1>6, <2>1
  <2>. QED
    BY <2>1, <2>2 DEF KeepsOf
<1>. QED
  BY <1>3, <1>4, <1>5, <1>6, <1>7, PromotionStep

\* The steps of an activation before it commits.
LEMMA OperationStep ==
  ASSUME RegistryInv, NEW o \in Operators, UNCHANGED <<content, files, trained, gate, grade, status, training>>,
         NEW next \in {Idle} \cup Activations, operation' = [operation EXCEPT ![o] = next],
         next # Idle => /\ status[next.version] # "none"
                        /\ gate[next.version]
                        /\ \A w \in next.others : HasServed(w)
  PROVE  RegistryInv'
<1>1. operation'[o] = next /\ \A p \in Operators \ {o} : operation'[p] = operation[p]
  BY DEF RegistryInv, RegistryTypes
<1>2. RegistryTypes' /\ RegisteredIsComplete' /\ TrainingOK'
  BY DEF RegistryInv, RegistryTypes, RegisteredIsComplete, TrainingOK
<1>3. GateOK'
  BY <1>1 DEF RegistryInv, GateOK, HasServed
<1>. QED
  BY <1>2, <1>3 DEF RegistryInv

LEMMA BeginActivationStep ==
  ASSUME RegistryInv, NEW o \in Operators, NEW v \in Versions, BeginActivation(o, v)
  PROVE  RegistryInv'
<1>. DEFINE next == [stage |-> "retiring", version |-> v, others |-> Active \ {v}, alone |-> TRUE]
<1>1. next \in Activations
  BY DEF Activations, Active
<1>2. status[v] # "none" /\ gate[v]
  BY DEF BeginActivation, MayActivate, RegistryInv, GateOK, HasServed
<1>3. \A w \in next.others : HasServed(w)
  BY DEF Active, HasServed
<1>4. operation' = [operation EXCEPT ![o] = next]
        /\ UNCHANGED <<content, files, trained, gate, grade, status, training>>
  BY DEF BeginActivation, registryVars
<1>5. next.version = v
  OBVIOUS
<1>. HIDE DEF next
<1>. QED
  BY <1>1, <1>2, <1>3, <1>4, <1>5, OperationStep

LEMMA RetireOthersStep ==
  ASSUME RegistryInv, NEW o \in Operators, RetireOthers(o)
  PROVE  RegistryInv'
<1>1. operation[o] # Idle
  BY DEF RetireOthers, Idle
<1>2. operation[o] \in Activations
  BY <1>1, OperationPhases DEF RegistryInv
<1>. DEFINE next == [operation[o] EXCEPT !.stage = "promoting", !.others = operation[o].others \cap Active]
<1>3. next \in Activations /\ next.version = operation[o].version /\ next.others \subseteq operation[o].others
  BY <1>2 DEF Activations
<1>4. operation' = [operation EXCEPT ![o] = next]
        /\ UNCHANGED <<content, files, trained, gate, grade, status, training>>
  BY DEF RetireOthers, registryVars, RegistryInv, RegistryTypes
<1>. HIDE DEF next
<1>5. /\ status[next.version] # "none"
      /\ gate[next.version]
      /\ \A w \in next.others : HasServed(w)
  BY <1>1, <1>3 DEF RegistryInv, GateOK
<1>. QED
  BY <1>3, <1>4, <1>5, OperationStep

LEMMA RegistryInductive ==
  ASSUME RegistryInv, [Next]_vars
  PROVE  RegistryInv'
<1>1. CASE EditContent
  BY <1>1, RegistryUnchanged DEF EditContent, RegistryInv, RegistryTypes
<1>2. CASE TrainingDies
  <2>1. training' = Idle /\ UNCHANGED <<content, files, trained, gate, grade, status, operation>>
    BY <1>2 DEF TrainingDies, registryVars
  <2>. QED
    BY <2>1 DEF RegistryInv, RegistryTypes, RegisteredIsComplete, TrainingOK, GateOK, HasServed, Idle
<1>3. ASSUME NEW o \in Operators, AbortActivation(o)
      PROVE  RegistryInv'
  BY <1>3, OperationStep DEF AbortActivation, registryVars
<1>4. CASE \/ BeginBatch \/ EndBatch \/ BeginDrift \/ EndDrift \/ Restart
           \/ \E s \in Symbols : PassGates(s) \/ Predict(s)
           \/ UNCHANGED vars
  <2>1. UNCHANGED <<content, registryVars, training, operation>>
    BY <1>4 DEF BeginBatch, EndBatch, BeginDrift, EndDrift, Restart, PassGates, Predict, vars
  <2>. QED
    BY <2>1, RegistryUnchanged DEF RegistryInv, RegistryTypes
<1>. QED
  BY <1>1, <1>2, <1>3, <1>4, TrainStep, WriteRestStep, RegisterStep, RegisterActivatingStep,
     BeginActivationStep, RetireOthersStep, CommitActivationStep DEF Next

LEMMA RegistryAlways == Spec => []RegistryInv
<1>1. Init => RegistryInv
  BY RegistryInit
<1>2. RegistryInv /\ [Next]_vars => RegistryInv'
  BY RegistryInductive
<1>. QED
  BY <1>1, <1>2, PTL DEF Spec

\* Whichever step training dies at and however activations overlap, what stands in
\* the registry has all its files.
THEOREM RegisteredAreComplete == Spec => []RegisteredIsComplete
<1>1. RegistryInv => RegisteredIsComplete
  BY DEF RegistryInv
<1>. QED
  BY <1>1, RegistryAlways, PTL

-----------------------------------------------------------------------------
(***************************************************************************)
(* Activations.                                                            *)
(***************************************************************************)

\* An activation that no other has come between knows all that is active.
AloneKnows ==
  \A o \in Operators : operation[o] # Idle /\ operation[o].alone =>
    \A v \in Active : v # operation[o].version => v \in operation[o].others

OrderInv ==
  /\ AloneKnows
  /\ latest \in Versions \cup {0}
  /\ LastActivationServes

LEMMA ActiveAfter ==
  ASSUME RegistryTypes, NEW v \in Versions, NEW others, status' = StatusAfter(v, others),
         \A w \in Active : w # v => w \in others
  PROVE  Active' = {v}
BY DEF RegistryTypes, Active, StatusAfter

LEMMA OrderInit ==
  ASSUME Init
  PROVE  OrderInv
BY DEF Init, OrderInv, AloneKnows, LastActivationServes, Active, Idle

\* A step of an activation before its commit.
LEMMA OrderOperation ==
  ASSUME RegistryInv, OrderInv, NEW o \in Operators, UNCHANGED <<status, latest, clashed>>,
         NEW next \in {Idle} \cup Activations, operation' = [operation EXCEPT ![o] = next],
         next # Idle /\ next.alone => \A v \in Active : v # next.version => v \in next.others
  PROVE  OrderInv'
<1>1. operation'[o] = next /\ \A p \in Operators \ {o} : operation'[p] = operation[p]
  BY DEF RegistryInv, RegistryTypes
<1>2. Active' = Active
  BY DEF Active
<1>3. AloneKnows'
  BY <1>1, <1>2 DEF OrderInv, AloneKnows
<1>. QED
  BY <1>2, <1>3 DEF OrderInv, LastActivationServes

\* Which versions are active only an activation changes.
LEMMA ActiveStays ==
  ASSUME RegistryInv, [Next]_vars, ~RegisterActivating, ~\E o \in Operators : CommitActivation(o)
  PROVE  Active' = Active
<1>1. CASE Register
  <2>1. training \in Trainings /\ training.stage = "writtenOut"
    BY <1>1, TrainingPhases DEF Register, MayRegister, Idle, RegistryInv
  <2>2. training.version \in Versions /\ status[training.version] = "none"
    BY <2>1 DEF Trainings, RegistryInv, TrainingOK
  <2>. QED
    BY <1>1, <2>2 DEF Register, Active, RegistryInv, RegistryTypes
<1>2. CASE UNCHANGED status
  BY <1>2 DEF Active
<1>3. CASE Next /\ ~Register
  <2>1. UNCHANGED status
    BY <1>3 DEF Next, registryVars, EditContent, Train, WriteRest, TrainingDies, BeginActivation,
                RetireOthers, AbortActivation, BeginBatch, PassGates, Predict, EndBatch, BeginDrift,
                EndDrift, Restart
  <2>. QED
    BY <1>2, <2>1
<1>. QED
  BY <1>1, <1>2, <1>3 DEF vars, registryVars

LEMMA OrderInductive ==
  ASSUME RegistryInv, OrderInv, [Next]_vars
  PROVE  OrderInv'
<1>1. CASE RegisterActivating
  <2>1. training \in Trainings
    BY <1>1, TrainingPhases DEF RegisterActivating, MayRegister, Idle, RegistryInv
  <2>2. training.version \in Versions
    BY <2>1 DEF Trainings
  <2>3. status' = StatusAfter(training.version, Active) /\ latest' = training.version
    BY <1>1 DEF RegisterActivating, Activated
  <2>4. Active' = {training.version}
    BY <2>2, <2>3, ActiveAfter DEF RegistryInv
  <2>5. \A o \in Operators : operation'[o] = Idle \/ operation'[o].alone = FALSE
    BY <1>1, DisturbedKeeps DEF RegisterActivating, RegistryInv
  <2>6. training.version # 0
    BY <2>2, ModelsAssumption DEF ModelsAssumption
  <2>. QED
    BY <2>2, <2>3, <2>4, <2>5, <2>6 DEF OrderInv, AloneKnows, LastActivationServes
<1>2. ASSUME NEW o \in Operators, NEW v \in Versions, BeginActivation(o, v)
      PROVE  OrderInv'
  <2>. DEFINE next == [stage |-> "retiring", version |-> v, others |-> Active \ {v}, alone |-> TRUE]
  <2>1. next \in Activations /\ \A w \in Active : w # next.version => w \in next.others
    BY DEF Activations, Active
  <2>2. operation' = [operation EXCEPT ![o] = next] /\ UNCHANGED <<status, latest, clashed>>
    BY <1>2 DEF BeginActivation, registryVars
  <2>. HIDE DEF next
  <2>. QED
    BY <2>1, <2>2, OrderOperation
<1>3. ASSUME NEW o \in Operators, RetireOthers(o)
      PROVE  OrderInv'
  <2>1. operation[o] # Idle /\ operation[o] \in Activations
    BY <1>3, OperationPhases DEF RetireOthers, Idle, RegistryInv
  <2>2. operation[o].alone => \A v \in Active : v # operation[o].version => v \in operation[o].others
    BY <2>1 DEF OrderInv, AloneKnows
  <2>. DEFINE next == [operation[o] EXCEPT !.stage = "promoting", !.others = operation[o].others \cap Active]
  <2>3. next \in Activations /\ next.version = operation[o].version /\ next.alone = operation[o].alone
          /\ next.others = operation[o].others \cap Active
    BY <2>1 DEF Activations
  <2>4. operation' = [operation EXCEPT ![o] = next] /\ UNCHANGED <<status, latest, clashed>>
    BY <1>3 DEF RetireOthers, registryVars, RegistryInv, RegistryTypes
  <2>. HIDE DEF next
  <2>. QED
    BY <2>2, <2>3, <2>4, OrderOperation
<1>4. ASSUME NEW o \in Operators, CommitActivation(o)
      PROVE  OrderInv'
  <2>1. operation[o] # Idle /\ operation[o] \in Activations
    BY <1>4, OperationPhases DEF CommitActivation, Idle, RegistryInv
  <2>. DEFINE v == operation[o].version
  <2>2. v \in Versions /\ v # 0
    BY <2>1, ModelsAssumption DEF Activations, ModelsAssumption
  <2>3. status' = StatusAfter(v, operation[o].others) /\ latest' = v /\ clashed' = ~operation[o].alone
          /\ operation' = [Disturbed EXCEPT ![o] = Idle]
    BY <1>4 DEF CommitActivation, Activated
  <2>4. operation[o].alone => Active' = {v}
    <3>1. SUFFICES ASSUME operation[o].alone
                   PROVE  \A w \in Active : w # v => w \in operation[o].others
      BY <2>2, <2>3, ActiveAfter DEF RegistryInv
    <3>. QED
      BY <2>1, <3>1 DEF OrderInv, AloneKnows
  <2>5. \A p \in Operators : operation'[p] = Idle \/ operation'[p].alone = FALSE
    BY <2>3, DisturbedKeeps DEF RegistryInv
  <2>6. operation[o].alone \in BOOLEAN
    BY <2>1 DEF Activations
  <2>. HIDE DEF v
  <2>. QED
    BY <2>2, <2>3, <2>4, <2>5, <2>6 DEF OrderInv, AloneKnows, LastActivationServes
<1>5. ASSUME NEW o \in Operators, AbortActivation(o)
      PROVE  OrderInv'
  BY <1>5, OrderOperation DEF AbortActivation, registryVars
<1>6. CASE UNCHANGED <<operation, latest, clashed, Active>>
  BY <1>6 DEF OrderInv, AloneKnows, LastActivationServes
<1>7. CASE Register \/ \E v \in Versions : Train(v)
  <2>1. UNCHANGED <<operation, latest, clashed>>
    BY <1>7 DEF Register, Train
  <2>2. Active' = Active
    BY <1>7, TrainingPhases DEF Register, MayRegister, Train, Active, RegistryInv, RegistryTypes, TrainingOK,
                                Trainings, Idle
  <2>. QED
    BY <1>6, <2>1, <2>2
<1>8. CASE \/ BeginBatch \/ EndBatch \/ BeginDrift \/ EndDrift \/ Restart \/ EditContent \/ TrainingDies
           \/ WriteRest
           \/ \E s \in Symbols : PassGates(s) \/ Predict(s)
           \/ UNCHANGED vars
  <2>1. UNCHANGED <<operation, latest, clashed, status>>
    BY <1>8 DEF BeginBatch, EndBatch, BeginDrift, EndDrift, Restart, EditContent, TrainingDies, PassGates,
                WriteRest, Predict, vars, registryVars
  <2>. QED
    BY <1>6, <2>1 DEF Active
<1>. QED
  BY <1>1, <1>2, <1>3, <1>4, <1>5, <1>7, <1>8 DEF Next

LEMMA OrderAlways == Spec => [](RegistryInv /\ OrderInv)
<1>1. Init => RegistryInv /\ OrderInv
  BY RegistryInit, OrderInit
<1>2. RegistryInv /\ OrderInv /\ [Next]_vars => (RegistryInv /\ OrderInv)'
  BY RegistryInductive, OrderInductive
<1>. QED
  BY <1>1, <1>2, PTL DEF Spec

\* However activations overlap, one that no other has been committed within leaves
\* its version as the only active one.
THEOREM LastServes == Spec => []LastActivationServes
<1>1. OrderInv => LastActivationServes
  BY DEF OrderInv
<1>. QED
  BY <1>1, OrderAlways, PTL

-----------------------------------------------------------------------------
(***************************************************************************)
(* What is served.                                                         *)
(***************************************************************************)

Labels == {"low", "medium", "high"}

Reports == [of : Versions \cup {0}, level : Levels \cup {"none"}, overtaken : BOOLEAN]

Drifts == [stage : {"reading"}, version : Versions, overtaken : BOOLEAN]

Rows ==
  [symbol : Symbols, version : Versions, asOf : Nat, content : Nat, report : Reports, confidence : Labels]

Batches ==
  [stage : {"next", "predicting"}, asOf : Nat, left : SUBSET Symbols, symbol : SUBSET Symbols,
   version : Versions \cup {0}, report : Reports, drafts : SUBSET Rows, created : SUBSET Symbols,
   broken : BOOLEAN]

ServingTypes ==
  /\ now \in Nat
  /\ report \in Reports
  /\ drift \in {Idle} \cup Drifts
  /\ batch \in {Idle} \cup Batches
  /\ seenContent \in Nat
  /\ bundles \in SUBSET Versions

\* The cached bundles are complete, and belong to the cached feature set.
CacheOK ==
  \A v \in bundles : seenContent # 0 /\ trained[v] = seenContent /\ files[v] = "complete"

\* A report of the very version, unless it has been overtaken.
ReportFits(r, version) == r.level # "none" => r.of = version \/ r.overtaken

\* What is true of a row that is or will be in the ledger.
Sound(p) ==
  /\ p.version \in Versions
  /\ files[p.version] = "complete"
  /\ gate[p.version]
  /\ p.content = trained[p.version]
  /\ p.confidence = "high" => p.report.level = "calm"
  /\ ReportFits(p.report, p.version)

BatchOK ==
  /\ batch.stage = "predicting" => /\ batch.version \in bundles
                                   /\ gate[batch.version]
                                   /\ ReportFits(batch.report, batch.version)
  /\ batch # Idle => \A p \in batch.drafts : Sound(p)

ServingInv == ServingTypes /\ CacheOK /\ BatchOK /\ \A p \in predictions : Sound(p)

\* The stored report, and the one being written, are of the version served.
ReportInv ==
  /\ ReportFits(report, Served)
  /\ drift # Idle => drift.version = Served \/ drift.overtaken

\* The least of two numbers, and the place of each label.
LEMMA MinOfTwo ==
  ASSUME NEW a \in Nat, NEW b \in Nat
  PROVE  Min({a, b}) = IF a <= b THEN a ELSE b
<1>. DEFINE m == IF a <= b THEN a ELSE b
<1>1. m \in {a, b} /\ \A y \in {a, b} : m <= y
  OBVIOUS
<1>2. \A x \in {a, b} : (\A y \in {a, b} : x <= y) => x = m
  OBVIOUS
<1>. QED
  BY <1>1, <1>2 DEF Min

LEMMA Ranks == Rank("low") = 1 /\ Rank("medium") = 2 /\ Rank("high") = 3
<1>1. DOMAIN Grades = {1, 2, 3}
  BY DEF Grades
<1>2. Grades[1] = "low" /\ Grades[2] = "medium" /\ Grades[3] = "high"
  BY DEF Grades
<1>. QED
  BY <1>1, <1>2 DEF Rank

\* Whatever validation and the data allow, no label is high unless drift is calm.
LEMMA HighNeedsCalm ==
  ASSUME NEW best \in Labels, NEW level \in Levels \cup {"none"}, NEW degraded \in BOOLEAN
  PROVE  /\ Confidence(best, level, degraded) \in Labels
         /\ Confidence(best, level, degraded) = "high" => level = "calm"
<1>1. Rank(best) \in 1..3 /\ PsiAllows(level) \in Labels
  BY Ranks DEF Labels, PsiAllows, Levels
<1>2. Rank(PsiAllows(level)) \in 1..3 /\ (level # "calm" => Rank(PsiAllows(level)) \in 1..2)
  BY Ranks DEF PsiAllows, Levels
<1>. DEFINE m == Min({Rank(best), Rank(PsiAllows(level))})
<1>3. m \in 1..3 /\ (level # "calm" => m \in 1..2)
  BY <1>1, <1>2, MinOfTwo
<1>4. Grades[1] = "low" /\ Grades[2] = "medium" /\ Grades[3] = "high"
  BY DEF Grades
<1>5. Grades[m] \in Labels /\ (m \in 1..2 => Grades[m] # "high")
  BY <1>3, <1>4 DEF Labels
<1>. HIDE DEF m
<1>6. Confidence(best, level, degraded) = IF degraded THEN "low" ELSE Grades[m]
  BY DEF Confidence, m
<1>. QED
  BY <1>3, <1>5, <1>6 DEF Labels

\* By the well-founded inclusion of finite sets: a least set without a largest
\* element would have one after all.
LEMMA LargestNatural ==
  ASSUME NEW S \in SUBSET Nat, S # {}, IsFiniteSet(S)
  PROVE  /\ Max(S) \in S
         /\ \A y \in S : y <= Max(S)
<1>. DEFINE Bad == {T \in FiniteSubsetsOf(S) : T # {} /\ ~\E x \in T : \A y \in T : x >= y}
<1>1. Bad = {}
  <2>1. SUFFICES ASSUME Bad # {}
                 PROVE  FALSE
    OBVIOUS
  <2>2. PICK T \in Bad : \A U \in Bad : ~(<<U, T>> \in StrictSubsetOrdering(S))
    <3>1. Bad \subseteq FiniteSubsetsOf(S)
      OBVIOUS
    <3>. HIDE DEF Bad
    <3>. QED
      BY <2>1, <3>1, FS_StrictSubsetOrderingWellFounded, WFMin
  <2>3. T \in SUBSET S /\ IsFiniteSet(T) /\ T # {} /\ ~\E x \in T : \A y \in T : x >= y
    BY DEF FiniteSubsetsOf
  <2>4. PICK x \in T : TRUE
    BY <2>3
  <2>. DEFINE U == T \ {x}
  <2>5. U \in SUBSET S /\ IsFiniteSet(U) /\ U # T
    BY <2>3, <2>4, FS_RemoveElement
  <2>6. <<U, T>> \in StrictSubsetOrdering(S)
    BY <2>3, <2>5 DEF StrictSubsetOrdering
  <2>7. U \notin Bad
    BY <2>2, <2>6
  <2>8. U = {} \/ \E m \in U : \A y \in U : m >= y
    BY <2>5, <2>7 DEF FiniteSubsetsOf
  <2>9. CASE U = {}
    BY <2>3, <2>4, <2>9
  <2>10. CASE \E m \in U : \A y \in U : m >= y
    <3>1. PICK m \in U : \A y \in U : m >= y
      BY <2>10
    <3>2. m \in Nat /\ x \in Nat /\ T = U \cup {x} /\ U \subseteq Nat
      BY <2>3, <2>4, <3>1
    <3>3. CASE m >= x
      BY <2>3, <3>1, <3>2, <3>3
    <3>4. CASE x > m
      <4>1. \A y \in T : x >= y
        BY <3>1, <3>2, <3>4
      <4>. QED
        BY <2>3, <2>4, <4>1
    <3>. QED
      BY <3>2, <3>3, <3>4
  <2>. QED
    BY <2>8, <2>9, <2>10
<1>2. S \in FiniteSubsetsOf(S)
  BY DEF FiniteSubsetsOf
<1>3. \E x \in S : \A y \in S : x >= y
  BY <1>1, <1>2
<1>. QED
  BY <1>3 DEF Max

\* Of finitely many active versions one is served.
LEMMA ServedIsActive ==
  ASSUME RegistryInv, Active # {}
  PROVE  Served \in Versions /\ status[Served] = "active" /\ gate[Served]
<1>1. Active \subseteq Versions /\ IsFiniteSet(Active)
  BY ModelsAssumption, FS_Subset DEF Active, ModelsAssumption
<1>2. Active \in SUBSET Nat
  BY <1>1, ModelsAssumption DEF ModelsAssumption
<1>3. Served \in Active
  BY <1>1, <1>2, LargestNatural DEF Served
<1>. QED
  BY <1>3 DEF Active, RegistryInv, GateOK, HasServed

\* What a complete directory holds does not change.
LEMMA ArtifactsStay ==
  ASSUME RegistryInv, [Next]_vars, NEW v \in Versions, files[v] = "complete"
  PROVE  files'[v] = "complete" /\ trained'[v] = trained[v] /\ gate'[v] = gate[v] /\ grade'[v] = grade[v]
<1>1. ASSUME NEW w \in Versions, Train(w)
      PROVE  files'[v] = "complete" /\ trained'[v] = trained[v] /\ gate'[v] = gate[v] /\ grade'[v] = grade[v]
  BY <1>1 DEF Train, RegistryInv, RegistryTypes
<1>2. CASE WriteRest
  BY <1>2 DEF WriteRest, RegistryInv, RegistryTypes
<1>3. CASE UNCHANGED <<files, trained, gate, grade>>
  BY <1>3
<1>4. CASE Next /\ ~WriteRest /\ ~\E w \in Versions : Train(w)
  <2>1. UNCHANGED <<files, trained, gate, grade>>
    BY <1>4 DEF Next, registryVars, EditContent, Register, RegisterActivating, TrainingDies, BeginActivation,
                RetireOthers, CommitActivation, AbortActivation, Activated, BeginBatch, PassGates, Predict, EndBatch,
                BeginDrift, EndDrift, Restart
  <2>. QED
    BY <1>3, <2>1
<1>. QED
  BY <1>1, <1>2, <1>3, <1>4 DEF vars, registryVars

LEMMA SoundStays ==
  ASSUME RegistryInv, [Next]_vars, NEW p, Sound(p)
  PROVE  Sound(p)'
BY ArtifactsStay DEF Sound

LEMMA CacheStays ==
  ASSUME RegistryInv, [Next]_vars, ServingTypes, CacheOK, UNCHANGED <<bundles, seenContent>>
  PROVE  CacheOK'
BY ArtifactsStay DEF CacheOK, ServingTypes

\* Loading keeps the cache consistent, and what is loadable is cached then.
LEMMA LoadStep ==
  ASSUME RegistryInv, ServingTypes, CacheOK, NEW v \in Versions, status[v] # "none",
         Load(v), UNCHANGED <<files, trained>>
  PROVE  /\ CacheOK'
         /\ seenContent' \in Nat /\ bundles' \in SUBSET Versions
         /\ Loadable(v) => v \in bundles'
         /\ bundles \subseteq bundles'
<1>1. content \in Nat \ {0} /\ seenContent \in Nat
  BY DEF RegistryInv, RegistryTypes, ServingTypes
<1>2. seenContent' \in Nat /\ (bundles # {} => seenContent' = seenContent)
  BY <1>1 DEF Load, ContentInUse, CacheOK
<1>3. bundles' \in SUBSET Versions /\ bundles \subseteq bundles' /\ (Loadable(v) => v \in bundles')
  BY DEF Load, ServingTypes
<1>4. ASSUME NEW w \in bundles'
      PROVE  seenContent' # 0 /\ trained[w] = seenContent' /\ files[w] = "complete"
  <2>1. CASE w \in bundles
    BY <1>2, <2>1 DEF CacheOK
  <2>2. CASE w \notin bundles
    <3>1. w = v /\ Loadable(v) /\ v \notin bundles
      BY <1>4, <2>2 DEF Load
    <3>. QED
      BY <1>1, <3>1 DEF Load, Loadable, ContentInUse
  <2>. QED
    BY <2>1, <2>2
<1>5. CacheOK'
  BY <1>4 DEF CacheOK
<1>. QED
  BY <1>2, <1>3, <1>5

LEMMA ServingInit ==
  ASSUME Init
  PROVE  ServingInv /\ ReportInv
BY DEF Init, ServingInv, ServingTypes, CacheOK, BatchOK, Idle, Reports, NoReport, ReportInv, ReportFits

\* A batch that goes on has its fields.
LEMMA BatchPhases ==
  ASSUME ServingTypes
  PROVE  batch.stage \in {"next", "predicting"} => batch \in Batches
BY DEF ServingTypes, Idle

\* Steps that leave the worker's batch and caches alone.
LEMMA WorkerUnchanged ==
  ASSUME RegistryInv, [Next]_vars, ServingInv, UNCHANGED <<batch, bundles, seenContent, predictions, now>>,
         drift' \in {Idle} \cup Drifts, report' \in Reports
  PROVE  ServingInv'
<1>1. UNCHANGED <<batch, bundles, seenContent, predictions>>
  OBVIOUS
<1>2. ServingTypes' /\ CacheOK'
  BY <1>1, CacheStays DEF ServingInv, ServingTypes
<1>3. \A p \in predictions' : Sound(p)'
  BY <1>1, SoundStays DEF ServingInv
<1>4. BatchOK'
  <2>1. batch.stage = "predicting" => /\ batch.version \in bundles
                                      /\ gate'[batch.version]
                                      /\ ReportFits(batch.report, batch.version)
    BY ArtifactsStay DEF ServingInv, BatchOK, CacheOK, ServingTypes
  <2>2. batch # Idle => \A p \in batch.drafts : Sound(p)'
    BY SoundStays DEF ServingInv, BatchOK
  <2>. QED
    BY <1>1, <2>1, <2>2 DEF BatchOK
<1>. QED
  BY <1>2, <1>3, <1>4 DEF ServingInv

\* A step of the worker, which changes no artifact.
LEMMA WorkerStep ==
  ASSUME ServingInv, UNCHANGED <<files, trained, gate>>, ServingTypes', CacheOK',
         batch'.stage = "predicting" => /\ batch'.version \in bundles'
                                        /\ gate[batch'.version]
                                        /\ ReportFits(batch'.report, batch'.version),
         batch' # Idle => \A p \in batch'.drafts : Sound(p),
         \A p \in predictions' : Sound(p)
  PROVE  ServingInv'
BY DEF ServingInv, BatchOK, Sound

LEMMA BeginBatchStep ==
  ASSUME ServingInv, BeginBatch
  PROVE  ServingInv'
<1>1. batch' \in Batches /\ batch'.stage = "next" /\ batch'.drafts = {}
  BY DEF BeginBatch, Batches, Reports, NoReport, ServingInv, ServingTypes
<1>2. UNCHANGED <<files, trained, gate, seenContent, bundles, predictions>>
  BY DEF BeginBatch, registryVars
<1>3. ServingTypes' /\ CacheOK'
  BY <1>1, <1>2 DEF BeginBatch, ServingInv, ServingTypes, CacheOK
<1>. QED
  BY <1>1, <1>2, <1>3, WorkerStep DEF ServingInv

LEMMA FailedOK ==
  ASSUME NEW s, batch \in Batches
  PROVE  Failed(s) \in Batches /\ Failed(s).stage = "next" /\ Failed(s).drafts = batch.drafts
         /\ Failed(s).created = batch.created /\ Failed(s).asOf = batch.asOf /\ Failed(s).broken = batch.broken
BY DEF Failed, Batches

LEMMA PassGatesStep ==
  ASSUME RegistryInv, ServingInv, ReportInv, NEW s \in Symbols, PassGates(s)
  PROVE  ServingInv'
<1>1. UNCHANGED <<files, trained, gate, drift, report, now, predictions>>
  BY DEF PassGates, registryVars, ledgerVars
<1>2. batch \in Batches /\ batch # Idle /\ batch.stage = "next"
  BY BatchPhases DEF PassGates, ServingInv, Idle
<1>3. \A p \in batch.drafts : Sound(p)
  BY <1>2 DEF ServingInv, BatchOK
<1>4. CASE batch.broken \/ Active = {}
  <2>1. batch' = Failed(s) /\ UNCHANGED <<seenContent, bundles>>
    BY <1>4 DEF PassGates
  <2>2. ServingTypes' /\ CacheOK'
    BY <1>1, <1>2, <2>1, FailedOK DEF ServingInv, ServingTypes, CacheOK
  <2>3. batch'.stage = "next" /\ batch'.drafts = batch.drafts
    BY <1>2, <2>1, FailedOK
  <2>. QED
    BY <1>1, <1>3, <2>2, <2>3, WorkerStep DEF ServingInv
<1>5. CASE ~(batch.broken \/ Active = {})
  <2>1. Served \in Versions /\ status[Served] # "none" /\ gate[Served] /\ Load(Served)
    BY <1>5, ServedIsActive DEF PassGates
  <2>2. CacheOK' /\ seenContent' \in Nat /\ bundles' \in SUBSET Versions /\ (Loadable(Served) => Served \in bundles')
    BY <1>1, <2>1, LoadStep DEF ServingInv
  <2>3. CASE batch' = Failed(s)
    <3>1. ServingTypes'
      BY <1>1, <1>2, <2>2, <2>3, FailedOK DEF ServingInv, ServingTypes
    <3>2. batch'.stage = "next" /\ batch'.drafts = batch.drafts
      BY <1>2, <2>3, FailedOK
    <3>. QED
      BY <1>1, <1>3, <2>2, <3>1, <3>2, WorkerStep DEF ServingInv
  <2>4. CASE /\ Loadable(Served)
             /\ batch' = [batch EXCEPT !.stage = "predicting", !.symbol = {s},
                                       !.version = Served, !.report = report]
    <3>1. batch' \in Batches /\ batch'.version = Served /\ batch'.drafts = batch.drafts /\ batch'.report = report
      BY <1>2, <2>1, <2>4 DEF Batches, ServingInv, ServingTypes
    <3>0. ReportFits(batch'.report, batch'.version)
      BY <3>1 DEF ReportInv
    <3>2. ServingTypes'
      BY <1>1, <2>2, <3>1 DEF ServingInv, ServingTypes
    <3>. QED
      BY <1>1, <1>3, <2>1, <2>2, <2>4, <3>0, <3>1, <3>2, WorkerStep DEF ServingInv
  <2>. QED
    BY <1>5, <2>3, <2>4 DEF PassGates
<1>. QED
  BY <1>4, <1>5

LEMMA PredictStep ==
  ASSUME RegistryInv, ServingInv, NEW s \in Symbols, Predict(s)
  PROVE  ServingInv'
<1>1. UNCHANGED <<files, trained, gate, seenContent, bundles, drift, report, now, predictions>>
  BY DEF Predict, registryVars, ledgerVars
<1>2. batch \in Batches /\ batch # Idle /\ batch.stage = "predicting"
  <2>1. batch.stage = "predicting"
    BY DEF Predict
  <2>. QED
    BY <2>1, BatchPhases DEF ServingInv, Idle
<1>3. (\A p \in batch.drafts : Sound(p)) /\ batch.version \in bundles /\ gate[batch.version]
        /\ ReportFits(batch.report, batch.version)
  BY <1>2 DEF ServingInv, BatchOK
<1>4. CacheOK'
  BY <1>1 DEF ServingInv, CacheOK
<1>5. ASSUME NEW b \in Batches, batch' = b, b.stage = "next", \A p \in b.drafts : Sound(p)
      PROVE  ServingInv'
  <2>1. ServingTypes'
    BY <1>1, <1>5 DEF ServingInv, ServingTypes
  <2>. QED
    BY <1>1, <1>4, <1>5, <2>1, WorkerStep DEF ServingInv
<1>6. CASE batch' = Failed(s)
  BY <1>2, <1>3, <1>5, <1>6, FailedOK
<1>7. CASE batch' = [Failed(s) EXCEPT !.broken = TRUE]
  <2>1. batch' \in Batches /\ batch'.stage = "next" /\ batch'.drafts = batch.drafts
    BY <1>2, <1>7, FailedOK DEF Batches
  <2>. QED
    BY <1>3, <1>5, <2>1
<1>8. ASSUME NEW degraded \in Degraded, NEW row,
             row = [symbol |-> s, version |-> batch.version, asOf |-> batch.asOf,
                    content |-> ContentInUse, report |-> batch.report,
                    confidence |-> Confidence(grade[batch.version], batch.report.level, degraded)],
             batch' = [Failed(s) EXCEPT !.drafts = @ \cup {row}, !.created = @ \cup {s}]
      PROVE  ServingInv'
  <2>1. batch.version \in Versions /\ batch.report \in Reports /\ batch.asOf \in Nat
    BY <1>2, <1>3 DEF Batches, ServingInv, ServingTypes
  <2>2. grade[batch.version] \in Labels /\ batch.report.level \in Levels \cup {"none"}
    BY <2>1 DEF RegistryInv, RegistryTypes, Labels, Reports
  <2>3. ContentInUse = trained[batch.version] /\ files[batch.version] = "complete" /\ ContentInUse \in Nat
    BY <1>3 DEF ServingInv, ServingTypes, CacheOK, ContentInUse
  <2>. DEFINE label == Confidence(grade[batch.version], batch.report.level, degraded)
  <2>4. label \in Labels /\ (label = "high" => batch.report.level = "calm")
    BY <2>2, HighNeedsCalm, ModelsAssumption DEF ModelsAssumption
  <2>. HIDE DEF label
  <2>5. row = [symbol |-> s, version |-> batch.version, asOf |-> batch.asOf,
               content |-> ContentInUse, report |-> batch.report, confidence |-> label]
    BY <1>8 DEF label
  <2>6. row \in Rows
    BY <2>1, <2>3, <2>4, <2>5 DEF Rows
  <2>7. Sound(row)
    BY <1>3, <2>1, <2>3, <2>4, <2>5 DEF Sound
  <2>. DEFINE f == Failed(s)
  <2>8. f \in Batches /\ f.stage = "next" /\ f.drafts = batch.drafts
    BY <1>2, FailedOK
  <2>. HIDE DEF f
  <2>9. batch' = [f EXCEPT !.drafts = f.drafts \cup {row}, !.created = f.created \cup {s}]
    BY <1>8 DEF f
  <2>10. batch' \in Batches /\ batch'.stage = "next" /\ batch'.drafts = batch.drafts \cup {row}
    BY <2>6, <2>8, <2>9 DEF Batches
  <2>11. \A p \in batch'.drafts : Sound(p)
    BY <1>3, <2>7, <2>10
  <2>. QED
    BY <1>5, <2>10, <2>11
<1>. QED
  BY <1>6, <1>7, <1>8 DEF Predict

LEMMA EndBatchStep ==
  ASSUME ServingInv, EndBatch
  PROVE  ServingInv'
<1>1. UNCHANGED <<files, trained, gate, seenContent, bundles, drift, report, now>> /\ batch' = Idle
  BY DEF EndBatch, registryVars
<1>2. batch # Idle
  BY DEF EndBatch, Idle
<1>3. \A p \in predictions' : Sound(p)
  BY <1>2 DEF EndBatch, ServingInv, BatchOK
<1>4. ServingTypes' /\ CacheOK'
  BY <1>1 DEF ServingInv, ServingTypes, CacheOK
<1>5. batch'.stage # "predicting"
  BY <1>1 DEF Idle
<1>. QED
  BY <1>1, <1>3, <1>4, <1>5, WorkerStep

LEMMA BeginDriftStep ==
  ASSUME RegistryInv, ServingInv, BeginDrift
  PROVE  ServingInv'
<1>1. UNCHANGED <<files, trained, gate, batch, report, now, predictions>>
  BY DEF BeginDrift, registryVars, ledgerVars
<1>2. Served \in Versions /\ status[Served] # "none" /\ Load(Served)
  BY ServedIsActive DEF BeginDrift
<1>3. CacheOK' /\ seenContent' \in Nat /\ bundles' \in SUBSET Versions /\ bundles \subseteq bundles'
  BY <1>1, <1>2, LoadStep DEF ServingInv
<1>4. drift' \in {Idle} \cup Drifts
  BY <1>2 DEF BeginDrift, Drifts
<1>5. ServingTypes'
  BY <1>1, <1>3, <1>4 DEF ServingInv, ServingTypes
<1>. QED
  BY <1>1, <1>3, <1>5, WorkerStep DEF ServingInv, BatchOK

LEMMA EndDriftStep ==
  ASSUME ServingInv, EndDrift
  PROVE  ServingInv'
<1>1. UNCHANGED <<files, trained, gate, seenContent, bundles, batch, now, predictions>> /\ drift' = Idle
  BY DEF EndDrift, registryVars
<1>2. drift \in Drifts
  BY DEF EndDrift, ServingInv, ServingTypes
<1>3. report' \in Reports
  BY <1>2, ModelsAssumption DEF EndDrift, ServingInv, ServingTypes, Reports, Drifts, Levels, ModelsAssumption
<1>4. ServingTypes' /\ CacheOK'
  BY <1>1, <1>3 DEF ServingInv, ServingTypes, CacheOK
<1>. QED
  BY <1>1, <1>4, WorkerStep DEF ServingInv, BatchOK

LEMMA RestartStep ==
  ASSUME ServingInv, Restart
  PROVE  ServingInv'
<1>1. UNCHANGED <<files, trained, gate, report, now, predictions>> /\ batch' = Idle /\ drift' = Idle
        /\ bundles' = {} /\ seenContent' = 0
  BY DEF Restart, registryVars, ledgerVars
<1>2. ServingTypes' /\ CacheOK'
  BY <1>1 DEF ServingInv, ServingTypes, CacheOK
<1>3. batch'.stage # "predicting"
  BY <1>1 DEF Idle
<1>. QED
  BY <1>1, <1>2, <1>3, WorkerStep DEF ServingInv

LEMMA CommitStep ==
  ASSUME RegistryInv, ServingInv, [Next]_vars, RegisterActivating \/ \E o \in Operators : CommitActivation(o)
  PROVE  ServingInv'
<1>1. UNCHANGED <<batch, bundles, seenContent, predictions, now>>
  BY DEF RegisterActivating, CommitActivation
<1>2. /\ report' = [report EXCEPT !.overtaken = TRUE]
      /\ drift' = IF drift = Idle THEN drift ELSE [drift EXCEPT !.overtaken = TRUE]
  BY DEF RegisterActivating, CommitActivation, Activated
<1>3. report' \in Reports
  BY <1>2 DEF ServingInv, ServingTypes, Reports
<1>4. drift' \in {Idle} \cup Drifts
  BY <1>2 DEF ServingInv, ServingTypes, Drifts
<1>. QED
  BY <1>1, <1>3, <1>4, WorkerUnchanged

LEMMA ServingInductive ==
  ASSUME RegistryInv, ReportInv, ServingInv, [Next]_vars
  PROVE  ServingInv'
<1>1. CASE \/ EditContent \/ WriteRest \/ Register \/ TrainingDies
           \/ \E v \in Versions : Train(v)
           \/ \E o \in Operators, v \in Versions : BeginActivation(o, v)
           \/ \E o \in Operators : RetireOthers(o) \/ AbortActivation(o)
           \/ UNCHANGED vars
  <2>1. UNCHANGED <<workerVars, ledgerVars>>
    BY <1>1 DEF EditContent, WriteRest, Register, TrainingDies, Train, BeginActivation,
                RetireOthers, AbortActivation, vars
  <2>. QED
    BY <2>1, WorkerUnchanged DEF workerVars, ledgerVars, ServingInv, ServingTypes
<1>. QED
  BY <1>1, CommitStep, BeginBatchStep, PassGatesStep, PredictStep, EndBatchStep, BeginDriftStep, EndDriftStep,
     RestartStep DEF Next

\* Reports are overtaken by whatever changes the version served.
LEMMA ReportInductive ==
  ASSUME RegistryInv, ReportInv, ServingInv, [Next]_vars
  PROVE  ReportInv'
<1>1. CASE RegisterActivating \/ \E o \in Operators : CommitActivation(o)
  <2>1. /\ report' = [report EXCEPT !.overtaken = TRUE]
        /\ drift' = IF drift = Idle THEN drift ELSE [drift EXCEPT !.overtaken = TRUE]
    BY <1>1 DEF RegisterActivating, CommitActivation, Activated
  <2>2. report'.overtaken = TRUE
    BY <2>1 DEF ServingInv, ServingTypes, Reports
  <2>3. drift' # Idle => drift'.overtaken = TRUE
    BY <2>1 DEF ServingInv, ServingTypes, Drifts
  <2>. QED
    BY <2>2, <2>3 DEF ReportInv, ReportFits
<1>2. CASE ~(RegisterActivating \/ \E o \in Operators : CommitActivation(o))
  <2>1. Served' = Served
    BY <1>2, ActiveStays DEF Served
  <2>2. CASE BeginDrift
    <3>1. report' = report /\ (drift' # Idle => drift'.version = Served)
      BY <2>2 DEF BeginDrift, ledgerVars
    <3>. QED
      BY <2>1, <3>1 DEF ReportInv, ReportFits
  <2>3. CASE EndDrift
    <3>1. drift' = Idle /\ (drift.version = Served \/ drift.overtaken)
      BY <2>3 DEF EndDrift, ReportInv
    <3>2. report' = report \/ \E level \in DriftLevels :
            report' = [of |-> drift.version, level |-> level, overtaken |-> drift.overtaken]
      BY <2>3 DEF EndDrift
    <3>3. drift' = Idle
      BY <2>3 DEF EndDrift
    <3>. QED
      BY <2>1, <3>1, <3>2, <3>3 DEF ReportInv, ReportFits
  <2>4. CASE UNCHANGED report /\ (UNCHANGED drift \/ drift' = Idle)
    BY <2>1, <2>4 DEF ReportInv, ReportFits
  <2>5. CASE \/ EditContent \/ WriteRest \/ Register \/ TrainingDies
             \/ \E v \in Versions : Train(v)
             \/ \E o \in Operators, v \in Versions : BeginActivation(o, v)
             \/ \E o \in Operators : RetireOthers(o) \/ AbortActivation(o)
             \/ BeginBatch \/ EndBatch \/ Restart
             \/ \E s \in Symbols : PassGates(s) \/ Predict(s)
             \/ UNCHANGED vars
    <3>1. UNCHANGED report /\ (UNCHANGED drift \/ drift' = Idle)
      BY <2>5 DEF EditContent, WriteRest, Register, TrainingDies, Train, BeginActivation, RetireOthers,
                  AbortActivation, BeginBatch, EndBatch, Restart, PassGates, Predict, vars, workerVars,
                  ledgerVars
    <3>. QED
      BY <2>4, <3>1
  <2>. QED
    BY <1>2, <2>2, <2>3, <2>5 DEF Next
<1>. QED
  BY <1>1, <1>2

LEMMA ServingAlways == Spec => []ServingInv
<1>1. Init => RegistryInv /\ ReportInv /\ ServingInv
  BY RegistryInit, ServingInit
<1>2. RegistryInv /\ ReportInv /\ ServingInv /\ [Next]_vars
        => (RegistryInv /\ ReportInv /\ ServingInv)'
  BY RegistryInductive, ReportInductive, ServingInductive
<1>. QED
  BY <1>1, <1>2, PTL DEF Spec

\* Every prediction comes from a version that passed its gate, on whichever way it
\* came to serve and however activations overlap.
THEOREM OnlyPassedServe == Spec => []ServedPassedGate
<1>1. ServingInv => ServedPassedGate
  BY DEF ServingInv, Sound, ServedPassedGate
<1>. QED
  BY <1>1, ServingAlways, PTL

\* However often the feature set is edited in place, the worker restarts and versions
\* change, every prediction is computed with the features its version was trained on.
THEOREM FeaturesStayAsTrained == Spec => []FeaturesAsTrained
<1>1. ServingInv => FeaturesAsTrained
  BY DEF ServingInv, Sound, FeaturesAsTrained
<1>. QED
  BY <1>1, ServingAlways, PTL

\* Whatever the validation allows, a prediction labelled high has a calm report, of the
\* version that predicts or overtaken by an activation.
THEOREM HighHasReport == Spec => []HighIsReported
<1>1. ServingInv => HighIsReported
  BY DEF ServingInv, Sound, ReportFits, HighIsReported
<1>. QED
  BY <1>1, ServingAlways, PTL

-----------------------------------------------------------------------------
(***************************************************************************)
(* What a batch counts.                                                    *)
(***************************************************************************)

\* The batches so far were of other moments than the one under way, and that one has
\* a draft for each stock it counts.
CountInv ==
  /\ \A c \in counted : c.asOf \in Nat /\ ~(c.asOf >= now)
  /\ \A p \in predictions : p.asOf \in Nat /\ ~(p.asOf >= now)
  /\ \A t \in aborted : t \in Nat /\ ~(t >= now)
  /\ batch # Idle =>
       /\ batch.asOf \in Nat /\ ~(batch.asOf >= now)
       /\ \A p \in batch.drafts : p.asOf = batch.asOf
       /\ \A s \in batch.created : \E p \in batch.drafts : p.symbol = s
       /\ \A c \in counted : c.asOf # batch.asOf
       /\ \A p \in predictions : p.asOf # batch.asOf
       /\ batch.asOf \notin aborted
  /\ CountedIsStored

LEMMA CountInit ==
  ASSUME Init
  PROVE  CountInv
BY DEF Init, CountInv, CountedIsStored

\* A step of the batch on its own drafts, or its end without a trace.
LEMMA SameCount ==
  ASSUME CountInv, UNCHANGED <<predictions, counted, aborted, now>>,
         batch' # Idle => /\ batch # Idle
                          /\ batch'.asOf = batch.asOf
                          /\ \A p \in batch'.drafts : p.asOf = batch.asOf
                          /\ \A s \in batch'.created : \E p \in batch'.drafts : p.symbol = s
  PROVE  CountInv'
BY DEF CountInv, CountedIsStored

LEMMA CountBegin ==
  ASSUME ServingInv, CountInv, BeginBatch
  PROVE  CountInv'
<1>1. now \in Nat /\ now' = now + 1 /\ UNCHANGED <<predictions, counted, aborted>>
  BY DEF BeginBatch, ServingInv, ServingTypes
<1>2. batch' # Idle /\ batch'.asOf = now /\ batch'.drafts = {} /\ batch'.created = {}
  BY DEF BeginBatch, Idle
<1>3. /\ \A c \in counted : c.asOf \in Nat /\ ~(c.asOf >= now') /\ c.asOf # now
      /\ \A p \in predictions : p.asOf \in Nat /\ ~(p.asOf >= now') /\ p.asOf # now
      /\ \A t \in aborted : t \in Nat /\ ~(t >= now') /\ t # now
  BY <1>1 DEF CountInv
<1>4. CountedIsStored'
  BY <1>1 DEF CountInv, CountedIsStored
<1>5. ~(batch'.asOf >= now') /\ batch'.asOf \in Nat
  BY <1>1, <1>2
<1>. QED
  BY <1>1, <1>2, <1>3, <1>4, <1>5 DEF CountInv

LEMMA CountEnd ==
  ASSUME ServingInv, CountInv, EndBatch
  PROVE  CountInv'
<1>1. batch # Idle /\ batch' = Idle /\ now' = now /\ batch \in Batches
  <2>1. batch.stage = "next" /\ batch' = Idle /\ now' = now
    BY DEF EndBatch
  <2>. QED
    BY <2>1, BatchPhases DEF ServingInv, Idle
<1>. DEFINE t == batch.asOf
<1>2. /\ t \in Nat /\ ~(t >= now) /\ t \notin aborted
      /\ \A p \in batch.drafts : p.asOf = t
      /\ \A s \in batch.created : \E p \in batch.drafts : p.symbol = s
      /\ \A c \in counted : c.asOf # t
      /\ \A p \in predictions : p.asOf # t
  BY <1>1 DEF CountInv
<1>3. counted' = counted \cup {[symbol |-> s, asOf |-> t] : s \in batch.created}
  BY DEF EndBatch
<1>. HIDE DEF t
<1>4. \A c \in counted' : c \in counted \/ (c.asOf = t /\ c.symbol \in batch.created)
  BY <1>3
<1>5. CASE batch.broken
  <2>1. predictions' = predictions /\ aborted' = aborted \cup {t}
    BY <1>5 DEF EndBatch, t
  <2>2. CountedIsStored'
    BY <1>2, <1>4, <2>1 DEF CountInv, CountedIsStored
  <2>. QED
    BY <1>1, <1>2, <1>4, <2>1, <2>2 DEF CountInv
<1>6. CASE ~batch.broken
  <2>1. predictions' = predictions \cup batch.drafts /\ aborted' = aborted
    BY <1>6 DEF EndBatch
  <2>2. CountedIsStored'
    <3>1. ASSUME NEW c \in counted'
          PROVE  (\E p \in predictions' : p.symbol = c.symbol /\ p.asOf = c.asOf) <=> c.asOf \notin aborted'
      <4>1. CASE c \in counted
        BY <1>2, <2>1, <4>1 DEF CountInv, CountedIsStored
      <4>2. CASE c.asOf = t /\ c.symbol \in batch.created
        BY <1>2, <2>1, <4>2
      <4>. QED
        BY <1>4, <4>1, <4>2
    <3>. QED
      BY <3>1 DEF CountedIsStored
  <2>. QED
    BY <1>1, <1>2, <1>4, <2>1, <2>2 DEF CountInv
<1>. QED
  BY <1>5, <1>6

LEMMA CountInductive ==
  ASSUME ServingInv, CountInv, [Next]_vars
  PROVE  CountInv'
<1>2. ASSUME NEW s \in Symbols, PassGates(s)
      PROVE  CountInv'
  <2>1. batch.stage = "next" /\ UNCHANGED <<predictions, counted, aborted, now>>
    BY <1>2 DEF PassGates, ledgerVars
  <2>2. batch \in Batches /\ batch # Idle
    BY <2>1, BatchPhases DEF ServingInv, Idle
  <2>3. batch'.asOf = batch.asOf /\ batch'.created = batch.created /\ batch'.drafts = batch.drafts
    <3>1. CASE batch' = Failed(s)
      BY <2>2, <3>1, FailedOK
    <3>2. CASE batch' = [batch EXCEPT !.stage = "predicting", !.symbol = {s},
                                      !.version = Served, !.report = report]
      BY <2>2, <3>2 DEF Batches
    <3>. QED
      BY <1>2, <3>1, <3>2 DEF PassGates
  <2>. QED
    BY <2>1, <2>2, <2>3, SameCount DEF CountInv
<1>3. ASSUME NEW s \in Symbols, Predict(s)
      PROVE  CountInv'
  <2>1. batch.stage = "predicting" /\ UNCHANGED <<predictions, counted, aborted, now>>
    BY <1>3 DEF Predict, ledgerVars
  <2>2. batch \in Batches /\ batch # Idle
    BY <2>1, BatchPhases DEF ServingInv, Idle
  <2>. DEFINE f == Failed(s)
  <2>3. f \in Batches /\ f.asOf = batch.asOf /\ f.drafts = batch.drafts /\ f.created = batch.created
    BY <2>2, FailedOK
  <2>4. CASE batch' = f
    BY <2>1, <2>2, <2>3, <2>4, SameCount DEF CountInv
  <2>5. CASE batch' = [f EXCEPT !.broken = TRUE]
    <3>. HIDE DEF f
    <3>1. batch'.asOf = batch.asOf /\ batch'.drafts = batch.drafts /\ batch'.created = batch.created
      BY <2>3, <2>5 DEF Batches
    <3>. QED
      BY <2>1, <2>2, <3>1, SameCount DEF CountInv
  <2>6. ASSUME NEW row, row.symbol = s, row.asOf = batch.asOf,
               batch' = [f EXCEPT !.drafts = f.drafts \cup {row}, !.created = f.created \cup {s}]
        PROVE  CountInv'
    <3>. HIDE DEF f
    <3>1. batch'.asOf = batch.asOf /\ batch'.drafts = batch.drafts \cup {row}
            /\ batch'.created = batch.created \cup {s}
      BY <2>3, <2>6 DEF Batches
    <3>2. /\ \A p \in batch'.drafts : p.asOf = batch.asOf
          /\ \A z \in batch'.created : \E p \in batch'.drafts : p.symbol = z
      BY <2>2, <2>6, <3>1 DEF CountInv
    <3>. QED
      BY <2>1, <2>2, <3>1, <3>2, SameCount
  <2>7. ASSUME NEW degraded \in Degraded, NEW row,
               row = [symbol |-> s, version |-> batch.version, asOf |-> batch.asOf,
                      content |-> ContentInUse, report |-> batch.report,
                      confidence |-> Confidence(grade[batch.version], batch.report.level, degraded)],
               batch' = [f EXCEPT !.drafts = @ \cup {row}, !.created = @ \cup {s}]
        PROVE  CountInv'
    <3>1. row.symbol = s /\ row.asOf = batch.asOf
      BY <2>7
    <3>2. batch' = [f EXCEPT !.drafts = f.drafts \cup {row}, !.created = f.created \cup {s}]
      BY <2>7
    <3>. QED
      BY <2>6, <3>1, <3>2
  <2>. QED
    BY <1>3, <2>4, <2>5, <2>7 DEF Predict
<1>5. CASE Restart
  BY <1>5, SameCount DEF Restart, ledgerVars
<1>6. CASE UNCHANGED <<batch, predictions, counted, aborted, now>>
  BY <1>6, SameCount DEF CountInv
<1>7. CASE \/ BeginDrift \/ EndDrift \/ EditContent \/ WriteRest \/ Register \/ RegisterActivating
           \/ TrainingDies \/ UNCHANGED vars
           \/ \E v \in Versions : Train(v)
           \/ \E o \in Operators, v \in Versions : BeginActivation(o, v)
           \/ \E o \in Operators : RetireOthers(o) \/ CommitActivation(o) \/ AbortActivation(o)
  <2>1. UNCHANGED <<batch, predictions, counted, aborted, now>>
    BY <1>7 DEF BeginDrift, EndDrift, EditContent, WriteRest, Register, RegisterActivating, TrainingDies, Train,
                BeginActivation, RetireOthers, CommitActivation, AbortActivation, workerVars, ledgerVars, vars
  <2>. QED
    BY <1>6, <2>1
<1>. QED
  BY <1>2, <1>3, <1>5, <1>7, CountBegin, CountEnd DEF Next

\* Whichever stocks and statements fail, what a batch counts as created is in the
\* ledger if no statement of the batch failed in the database, and is not otherwise.
THEOREM CountsAreStored == Spec => []CountedIsStored
<1>1. Init => CountInv
  BY CountInit
<1>2. ServingInv /\ CountInv /\ [Next]_vars => CountInv'
  BY CountInductive
<1>3. CountInv => CountedIsStored
  BY DEF CountInv
<1>. QED
  BY <1>1, <1>2, <1>3, ServingAlways, PTL DEF Spec

=============================================================================
