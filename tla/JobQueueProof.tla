--------------------------- MODULE JobQueueProof ---------------------------
(***************************************************************************)
(* Proofs about JobQueue for every set of rows, every limit, any number of *)
(* requests and any choice of faults.                                      *)
(***************************************************************************)
EXTENDS JobQueue, FiniteSetTheorems, TLAPS

-----------------------------------------------------------------------------
(***************************************************************************)
(* Types.                                                                  *)
(***************************************************************************)

\* A backfill at work has a step left, so completed_steps stays within 0..3.
StepLeft == \A k \in Runs : task[k] = "work" => completed[k] \in 0..2

TypeInv == TypeOK /\ StepLeft

\* A run is a row's key and a slot.
LEMMA RunParts == ASSUME NEW k \in Runs PROVE k[1] \in Jobs /\ k[2] \in Slots
  BY DEF Runs

\* The four statuses that are written to rows are active or terminal.
LEMMA RunningStates == "queued" \in Active /\ "running" \in Active
                       /\ "succeeded" \in Terminal /\ "failed" \in Terminal
  BY DEF Active, Terminal

\* TypeInv is kept by the actions of the API.
LEMMA RequestTypes ==
  ASSUME TypeInv, NEW r \in Requests, RequestStep(r)
  PROVE  TypeInv'
<1> USE DEF TypeInv, TypeOK, StepLeft
<1> PICK j \in Jobs : EnqueueRead(r, j) \/ EnqueueCommit(r, j) \/ EnqueueAbort(r, j)
  BY DEF RequestStep
<1>1. CASE EnqueueRead(r, j)
  <2>1. Seen(j) \in SeenRecords
    BY <1>1 DEF EnqueueRead, Seen, SeenRecords, Active, Terminal
  <2> QED
    BY <1>1, <2>1 DEF EnqueueRead, rowVars, taskVars
<1>2. CASE EnqueueCommit(r, j)
  <2>1. Cardinality(Inserted(TypeOf[j])) \in Nat
    BY QueueAssumption, FS_Subset, FS_CardinalityType DEF Inserted
  <2> QED
    BY <1>2, <2>1, RunningStates DEF EnqueueCommit, rowVars, taskVars
<1>3. CASE EnqueueAbort(r, j)
  BY <1>3 DEF EnqueueAbort, rowVars, taskVars
<1> QED
  BY <1>1, <1>2, <1>3

\* What a claim takes and where it puts it.
LEMMA ClaimParts ==
  ASSUME NEW type \in JobTypes, DispatchClaim(type)
  PROVE  \E claim \in SUBSET Jobs :
           /\ \E limit \in 1..Free(type) : claim = OldestQueued(type, limit)
           /\ \A j \in claim : TypeOf[j] = type /\ status[j] = "queued"
           /\ \E slot \in [claim -> Slots] : Claim(claim, slot)
<1>1. PICK limit \in 1..Free(type) :
        \E slot \in [OldestQueued(type, limit) -> Slots] :
          Claim(OldestQueued(type, limit), slot)
  BY DEF DispatchClaim
<1>2. /\ OldestQueued(type, limit) \in SUBSET Jobs
      /\ \A j \in OldestQueued(type, limit) : TypeOf[j] = type /\ status[j] = "queued"
  BY DEF OldestQueued, Backlog
<1> QED
  BY <1>1, <1>2

\* TypeInv is kept by the dispatchers.
LEMMA DispatchTypes ==
  ASSUME TypeInv, NEW type \in JobTypes,
         DispatchClaim(type) \/ DispatchSpawn(type) \/ DispatchLost(type)
  PROVE  TypeInv'
<1> USE DEF TypeInv, TypeOK, StepLeft, TaskStates
<1>1. CASE DispatchClaim(type)
  <2>1. PICK claim \in SUBSET Jobs : \E slot \in [claim -> Slots] : Claim(claim, slot)
    BY <1>1, ClaimParts
  <2>2. PICK slot \in [claim -> Slots] : Claim(claim, slot)
    BY <2>1
  <2> QED
    BY <2>2, RunningStates DEF Claim
<1>2. CASE DispatchSpawn(type)
  BY <1>2 DEF DispatchSpawn, rowVars
<1>3. CASE DispatchLost(type)
  BY <1>3, RunParts DEF DispatchLost, rowVars, LiveRuns
<1> QED
  BY <1>1, <1>2, <1>3

\* TypeInv is kept by the tasks.
LEMMA RunTypes ==
  ASSUME TypeInv, NEW k \in Runs, RunStep(k) \/ FinishLost(k)
  PROVE  TypeInv'
<1> USE RunParts, RunningStates DEF TypeInv, TypeOK, StepLeft, TaskStates
<1>1. CASE BackfillStart(k)
  BY <1>1 DEF BackfillStart
<1>2. CASE BackfillStep(k)
  <2>1. CASE completed[k] + 1 = FullSteps("instrument_backfill")
    BY <1>2, <2>1 DEF BackfillStep, FullSteps
  <2>2. CASE completed[k] + 1 # FullSteps("instrument_backfill")
    <3>1. completed[k] \in 0..1
      BY <1>2, <2>2 DEF BackfillStep, FullSteps
    <3> QED
      BY <1>2, <2>2, <3>1 DEF BackfillStep
  <2> QED
    BY <2>1, <2>2
<1>3. CASE QuoteSucceeds(k)
  BY <1>3 DEF QuoteSucceeds
<1>4. CASE AnalysisReturns(k)
  BY <1>4 DEF AnalysisReturns, rowVars, Finishing
<1>5. CASE RunFails(k)
  <2>1. task[k] = "work" => completed[k] \in 0..2
    OBVIOUS
  <2> QED
    BY <1>5, <2>1 DEF RunFails, rowVars
<1>6. CASE ErrorWrite(k)
  BY <1>6 DEF ErrorWrite
<1>7. CASE RaisesUnwritten(k)
  BY <1>7 DEF RaisesUnwritten, rowVars
<1>8. CASE Finish(k)
  BY <1>8 DEF Finish, EndTask
<1>9. CASE FinishLost(k)
  BY <1>9 DEF FinishLost, EndTask, rowVars
<1> QED
  BY <1>1, <1>2, <1>3, <1>4, <1>5, <1>6, <1>7, <1>8, <1>9 DEF RunStep

\* One step of the queue keeps TypeInv.
LEMMA NextTypes == TypeInv /\ [Next]_vars => TypeInv'
<1> SUFFICES ASSUME TypeInv, [Next]_vars PROVE TypeInv'
  OBVIOUS
<1>1. ASSUME NEW r \in Requests, RequestStep(r) PROVE TypeInv'
  BY <1>1, RequestTypes
<1>2. ASSUME NEW j \in Jobs, CooldownElapses(j) PROVE TypeInv'
  BY <1>2 DEF CooldownElapses, TypeInv, TypeOK, StepLeft, taskVars
<1>3. ASSUME NEW type \in JobTypes,
             DispatchClaim(type) \/ DispatchSpawn(type) \/ DispatchLost(type)
      PROVE  TypeInv'
  BY <1>3, DispatchTypes
<1>4. ASSUME NEW k \in Runs, RunStep(k) \/ FinishLost(k) PROVE TypeInv'
  BY <1>4, RunTypes
<1>5. CASE Crash
  <2>1. up' \in BOOLEAN
    BY <1>5 DEF Crash
  <2>2. /\ task' = [k \in Runs |-> "none"]
        /\ completed' = [k \in Runs |-> 0]
        /\ owner' = [j \in Jobs |-> "nobody"]
        /\ UNCHANGED <<rowVars, request, orphan, contested>>
    BY <1>5 DEF Crash
  <2> QED
    BY <2>1, <2>2 DEF TypeInv, TypeOK, StepLeft, TaskStates, rowVars
<1>6. CASE Restart
  BY <1>6, RunningStates DEF Restart, TypeInv, TypeOK, StepLeft, taskVars
<1>7. CASE RestartWithoutRequeue
  BY <1>7 DEF RestartWithoutRequeue, TypeInv, TypeOK, StepLeft, rowVars, taskVars,
              RunningRows
<1>8. CASE UNCHANGED vars
  BY <1>8 DEF vars, rowVars, taskVars, TypeInv, TypeOK, StepLeft
<1> QED
  BY <1>1, <1>2, <1>3, <1>4, <1>5, <1>6, <1>7, <1>8 DEF Next

\* TypeInv holds at first: there is no row, no task and no request.
LEMMA InitTypes == Init => TypeInv
  BY DEF Init, TypeInv, TypeOK, StepLeft, TaskStates, Idle

\* TypeInv holds in every reachable state.
LEMMA TypeInvariance == Spec => []TypeInv
  BY InitTypes, NextTypes, PTL DEF Spec

\* Every variable of the queue keeps its type, whatever the callers and the
\* faults do; in particular completed_steps never leaves 0..3, so the CHECK
\* constraint ck_jobs_progress (tables.py:280) never refuses a task's write.
THEOREM TypeCorrect == Spec => []TypeOK
<1>1. TypeInv => TypeOK
  BY DEF TypeInv
<1> QED
  BY <1>1, TypeInvariance, PTL

-----------------------------------------------------------------------------
(***************************************************************************)
(* Ranks of created_at, and the bound they put on a claim.                 *)
(***************************************************************************)

\* Every inserted row has a rank of its own in its type, and the next rank is unused.
RanksDistinct ==
  /\ \A j \in Jobs : created[j] = 0 <=> status[j] = "absent"
  /\ \A i, j \in Jobs :
       TypeOf[i] = TypeOf[j] /\ created[i] = created[j] /\ created[i] # 0 => i = j
  /\ \A j \in Jobs : created[j] <= Cardinality(Inserted(TypeOf[j]))
  /\ \A r \in Requests, j \in Jobs :
       InFlight(r, j) /\ request[r].read # "absent" => status[j] # "absent"
  /\ \A k \in Runs : task[k] # "none" => status[k[1]] # "absent"

RankInv == TypeInv /\ RanksDistinct

\* The rows inserted so far can be counted.
LEMMA InsertedFinite ==
  ASSUME TypeOK, NEW type
  PROVE  IsFiniteSet(Inserted(type)) /\ Cardinality(Inserted(type)) \in Nat
  BY QueueAssumption, FS_Subset, FS_CardinalityType DEF Inserted

\* The statuses and ranks of rows change in EnqueueCommit alone, apart from
\* changes between the statuses of an inserted row.
LEMMA RanksKept ==
  ASSUME RankInv, TypeInv', created' = created,
         \A j \in Jobs : status'[j] = "absent" <=> status[j] = "absent",
         \A r \in Requests : request'[r] = request[r] \/ request'[r] = Idle,
         \A k \in Runs : task'[k] = "none" \/ task[k] # "none" \/ status[k[1]] # "absent"
  PROVE  RanksDistinct'
<1>1. \A type : Inserted(type)' = Inserted(type)
  BY DEF Inserted
<1> QED
  BY <1>1, RunParts DEF RankInv, RanksDistinct, InFlight, Idle

\* A request that reads a row leaves the ranks of created_at distinct.
LEMMA RankEnqueueRead ==
  ASSUME RankInv, TypeInv', NEW r \in Requests, NEW j \in Jobs, EnqueueRead(r, j)
  PROVE  RanksDistinct'
<1>1. \A type : Inserted(type)' = Inserted(type)
  BY DEF Inserted, EnqueueRead, rowVars
<1>2. ASSUME NEW q \in Requests, NEW i \in Jobs, InFlight(q, i)', request'[q].read # "absent"
      PROVE  status[i] # "absent"
  <2>1. CASE q = r
    <3>1. request'[q] = Seen(j)
      BY <2>1 DEF EnqueueRead, RankInv, TypeInv, TypeOK
    <3> QED
      <4>1. request'[q].job = j
        BY <3>1 DEF Seen
      <4>2. i = j
        BY <1>2, <4>1 DEF InFlight
      <4>3. request'[q].read = "absent" <=> status[j] = "absent"
        BY <3>1 DEF Seen, Terminal
      <4> QED
        BY <1>2, <4>2, <4>3
  <2>2. CASE q # r
    BY <1>2, <2>2 DEF EnqueueRead, RankInv, TypeInv, TypeOK, RanksDistinct, InFlight
  <2> QED
    BY <2>1, <2>2
<1> QED
  BY <1>1, <1>2 DEF RankInv, RanksDistinct, EnqueueRead, rowVars, taskVars

\* An INSERT ranks its row after every other one.
LEMMA RankEnqueueCommit ==
  ASSUME RankInv, TypeInv', NEW r \in Requests, NEW j \in Jobs, EnqueueCommit(r, j)
  PROVE  RanksDistinct'
<1> USE DEF RankInv, TypeInv, TypeOK
<1>1. status' = [status EXCEPT ![j] = "queued"] /\ request' = [request EXCEPT ![r] = Idle]
  BY DEF EnqueueCommit
<1>2. CASE request[r].read = "absent"
  <2>1. created[j] = 0 /\ status[j] = "absent"
    BY <1>2 DEF EnqueueCommit, RanksDistinct
  <2>2. PICK n \in Nat : n = Cardinality(Inserted(TypeOf[j]))
    BY InsertedFinite
  <2>3. created' = [created EXCEPT ![j] = n + 1]
    BY <1>2, <2>2 DEF EnqueueCommit
  <2>4. Inserted(TypeOf[j])' = Inserted(TypeOf[j]) \cup {j}
    BY <2>3 DEF Inserted
  <2>5. Cardinality(Inserted(TypeOf[j])') = n + 1
    <3>1. j \notin Inserted(TypeOf[j]) /\ IsFiniteSet(Inserted(TypeOf[j]))
      BY <2>1, InsertedFinite DEF Inserted
    <3>2. Cardinality(Inserted(TypeOf[j]) \cup {j}) = n + 1
      BY <2>2, <3>1, FS_AddElement
    <3> QED
      BY <2>4, <3>2
  <2>6. \A i \in Jobs : created'[i] = (IF i = j THEN n + 1 ELSE created[i])
                       /\ (TypeOf[i] = TypeOf[j] => created[i] <= n)
    BY <2>2, <2>3 DEF RanksDistinct
  <2>7. \A i \in Jobs : created'[i] = 0 <=> status'[i] = "absent"
    BY <1>1, <2>6 DEF RanksDistinct
  <2>8. \A h, i \in Jobs :
          TypeOf[h] = TypeOf[i] /\ created'[h] = created'[i] /\ created'[h] # 0 => h = i
    BY <2>6 DEF RanksDistinct
  <2>9. ASSUME NEW i \in Jobs
        PROVE  created'[i] <= Cardinality(Inserted(TypeOf[i])')
    <3>1. CASE TypeOf[i] = TypeOf[j]
      BY <2>5, <2>6, <3>1
    <3>2. CASE TypeOf[i] # TypeOf[j]
      <4>1. Inserted(TypeOf[i])' = Inserted(TypeOf[i])
        BY <2>3, <3>2 DEF Inserted
      <4> QED
        BY <2>6, <3>2, <4>1 DEF RanksDistinct
    <3> QED
      BY <3>1, <3>2
  <2>10. \A q \in Requests, i \in Jobs :
           InFlight(q, i)' /\ request'[q].read # "absent" => status'[i] # "absent"
    BY <1>1 DEF RanksDistinct, InFlight, Idle
  <2>11. \A k \in Runs : task'[k] # "none" => status'[k[1]] # "absent"
    BY <1>1, RunParts DEF RanksDistinct, EnqueueCommit, taskVars
  <2> QED
    BY <2>7, <2>8, <2>9, <2>10, <2>11 DEF RanksDistinct
<1>3. CASE request[r].read # "absent"
  <2>1. status[j] # "absent"
    BY <1>3 DEF EnqueueCommit, RanksDistinct
  <2>2. created' = created
    BY <1>3 DEF EnqueueCommit
  <2> QED
    BY <1>1, <2>1, <2>2, RanksKept DEF EnqueueCommit, taskVars
<1> QED
  BY <1>2, <1>3

\* One step keeps the ranks of created_at distinct.
LEMMA RankNext == RankInv /\ [Next]_vars => RanksDistinct'
<1> SUFFICES ASSUME RankInv, [Next]_vars PROVE RanksDistinct'
  OBVIOUS
<1> USE DEF RankInv, TypeInv, TypeOK
<1>0. TypeInv'
  BY NextTypes
<1>1. ASSUME NEW r \in Requests, RequestStep(r) PROVE RanksDistinct'
  <2> PICK j \in Jobs : EnqueueRead(r, j) \/ EnqueueCommit(r, j) \/ EnqueueAbort(r, j)
    BY <1>1 DEF RequestStep
  <2>1. CASE EnqueueAbort(r, j)
    BY <1>0, <2>1, RanksKept DEF EnqueueAbort, rowVars, taskVars
  <2> QED
    BY <1>0, <2>1, RankEnqueueRead, RankEnqueueCommit
<1>2. ASSUME NEW j \in Jobs, CooldownElapses(j) PROVE RanksDistinct'
  BY <1>0, <1>2, RanksKept DEF CooldownElapses, taskVars
<1>3. ASSUME NEW type \in JobTypes, DispatchClaim(type) PROVE RanksDistinct'
  <2>1. PICK claim \in SUBSET Jobs :
          /\ \A j \in claim : status[j] = "queued"
          /\ \E slot \in [claim -> Slots] : Claim(claim, slot)
    BY <1>3, ClaimParts
  <2>2. /\ created' = created
        /\ request' = request
        /\ status' = [j \in Jobs |-> IF j \in claim THEN "running" ELSE status[j]]
        /\ \A k \in Runs : task'[k] = task[k] \/ k[1] \in claim
    BY <2>1 DEF Claim
  <2>3. \A j \in Jobs : status'[j] = "absent" <=> status[j] = "absent"
    BY <2>1, <2>2
  <2>4. \A k \in Runs : task'[k] = "none" \/ task[k] # "none" \/ status[k[1]] # "absent"
    BY <2>1, <2>2
  <2> QED
    BY <1>0, <2>2, <2>3, <2>4, RanksKept
<1>4. ASSUME NEW type \in JobTypes, DispatchSpawn(type) \/ DispatchLost(type)
      PROVE  RanksDistinct'
  BY <1>0, <1>4, RanksKept DEF DispatchSpawn, DispatchLost, rowVars, LiveRuns
<1>5. ASSUME NEW k \in Runs, RunStep(k) \/ FinishLost(k) PROVE RanksDistinct'
  <2>1. \/ status' = status
        \/ \E value \in Active \cup Terminal : status' = [status EXCEPT ![k[1]] = value]
    BY <1>5, RunningStates DEF RunStep, BackfillStart, BackfillStep, QuoteSucceeds,
         AnalysisReturns, RunFails, ErrorWrite, RaisesUnwritten, Finish, FinishLost, rowVars
  <2>2. /\ created' = created
        /\ request' = request
        /\ task[k] # "none"
        /\ \A l \in Runs \ {k} : task'[l] = task[l]
    BY <1>5 DEF RunStep, BackfillStart, BackfillStep, QuoteSucceeds, AnalysisReturns,
         RunFails, ErrorWrite, RaisesUnwritten, Finish, FinishLost, EndTask, Finishing, rowVars
  <2>3. \A j \in Jobs : status'[j] = "absent" <=> status[j] = "absent"
    BY <2>1, <2>2, RunParts DEF RanksDistinct, Active, Terminal
  <2> QED
    BY <1>0, <2>2, <2>3, RanksKept
<1>6. CASE Crash
  BY <1>0, <1>6, RanksKept DEF Crash, rowVars
<1>7. CASE Restart
  BY <1>0, <1>7, RanksKept DEF Restart, RunningRows, taskVars
<1>8. CASE RestartWithoutRequeue
  BY <1>0, <1>8, RanksKept DEF RestartWithoutRequeue, rowVars, taskVars
<1>9. CASE UNCHANGED vars
  BY <1>0, <1>9, RanksKept DEF vars, rowVars, taskVars
<1> QED
  BY <1>1, <1>2, <1>3, <1>4, <1>5, <1>6, <1>7, <1>8, <1>9 DEF Next

\* No row has a rank at first.
LEMMA InitRanks == Init => RanksDistinct
<1> SUFFICES ASSUME Init PROVE RanksDistinct
  OBVIOUS
<1>1. \A type : Inserted(type) = {}
  BY DEF Init, Inserted
<1>2. \A type : Cardinality(Inserted(type)) = 0
  BY <1>1, FS_EmptySet
<1> QED
  BY <1>2 DEF Init, RanksDistinct, InFlight, Idle

\* Types and distinct ranks hold in every reachable state.
LEMMA RankInvariance == Spec => []RankInv
<1>1. Init => RankInv
  BY InitTypes, InitRanks DEF RankInv
<1>2. RankInv /\ [Next]_vars => RankInv'
  BY NextTypes, RankNext DEF RankInv
<1> QED
  BY <1>1, <1>2, PTL DEF Spec

\* ORDER BY created_at LIMIT limit returns at most limit rows.
LEMMA OldestQueuedBound ==
  ASSUME RankInv, NEW type \in JobTypes, NEW limit \in Nat \ {0}
  PROVE  /\ IsFiniteSet(OldestQueued(type, limit))
         /\ Cardinality(OldestQueued(type, limit)) <= limit
<1> USE DEF RankInv, TypeInv, TypeOK
<1> DEFINE B == Backlog(type)
           Older(j) == {i \in B : created[i] < created[j]}
           T == OldestQueued(type, limit)
           place == [j \in T |-> Cardinality(Older(j))]
<1>1. B \subseteq Jobs /\ T \subseteq B /\ IsFiniteSet(B)
  BY QueueAssumption, FS_Subset DEF Backlog, OldestQueued
<1>2. ASSUME NEW j \in B
      PROVE  IsFiniteSet(Older(j)) /\ Cardinality(Older(j)) \in Nat
  BY <1>1, FS_Subset, FS_CardinalityType
<1>3. place \in [T -> 0..(limit - 1)]
  <2>1. ASSUME NEW j \in T PROVE Cardinality(Older(j)) \in 0..(limit - 1)
    <3>1. Cardinality(Older(j)) < limit
      BY DEF OldestQueued
    <3>2. Cardinality(Older(j)) \in Nat
      BY <1>1, <1>2
    <3> HIDE DEF Older
    <3> QED
      BY <3>1, <3>2
  <2> QED
    BY <2>1
<1>4. ASSUME NEW i \in T, NEW j \in T, created[i] < created[j]
      PROVE  place[i] # place[j]
  <2>1. Older(i) \subseteq Older(j) /\ i \in Older(j) /\ i \notin Older(i)
    BY <1>1, <1>4
  <2>2. Cardinality(Older(i)) # Cardinality(Older(j))
    <3> HIDE DEF Older
    <3> QED
      BY <1>1, <1>2, <2>1, FS_Subset
  <2> QED
    BY <2>2
<1>5. ASSUME NEW i \in T, NEW j \in T, place[i] = place[j]
      PROVE  i = j
  <2>1. created[i] = created[j]
    BY <1>1, <1>4, <1>5
  <2>2. created[i] # 0 /\ TypeOf[i] = TypeOf[j]
    BY <1>1 DEF RanksDistinct, Backlog
  <2> QED
    BY <1>1, <2>1, <2>2 DEF RanksDistinct
<1>6. place \in Injection(T, 0..(limit - 1))
  BY <1>3, <1>5 DEF Injection, IsInjective
<1>7. IsFiniteSet(0..(limit - 1)) /\ Cardinality(0..(limit - 1)) = limit
  BY FS_Interval
<1> QED
  BY <1>6, <1>7, FS_Injection

-----------------------------------------------------------------------------
(***************************************************************************)
(* Concurrency limits.                                                     *)
(***************************************************************************)

\* The live runs of a type can be counted.
LEMMA LiveRunsFinite ==
  ASSUME NEW type \in JobTypes
  PROVE  IsFiniteSet(LiveRuns(type)) /\ Cardinality(LiveRuns(type)) \in Nat
<1>1. IsFiniteSet(Jobs) /\ IsFiniteSet(Slots)
  BY QueueAssumption
<1>2. IsFiniteSet(Runs)
  BY <1>1, FS_Product DEF Runs
<1>3. LiveRuns(type) \subseteq Runs
  BY DEF LiveRuns
<1>4. IsFiniteSet(LiveRuns(type))
  BY <1>2, <1>3, FS_Subset
<1> QED
  BY <1>4, FS_CardinalityType

\* Only a claim makes a run live.
LEMMA OnlyClaimsCreate ==
  ASSUME TypeOK, [Next]_vars, \A type \in JobTypes : ~DispatchClaim(type),
         NEW k \in Runs, task'[k] # "none"
  PROVE  task[k] # "none"
<1> USE DEF TypeOK
<1>1. CASE \E r \in Requests : RequestStep(r)
  BY <1>1 DEF RequestStep, EnqueueRead, EnqueueCommit, EnqueueAbort, taskVars
<1>2. CASE \E j \in Jobs : CooldownElapses(j)
  BY <1>2 DEF CooldownElapses, taskVars
<1>3. CASE \E type \in JobTypes : DispatchSpawn(type) \/ DispatchLost(type)
  BY <1>3 DEF DispatchSpawn, DispatchLost
<1>4. CASE \E l \in Runs : RunStep(l) \/ FinishLost(l)
  BY <1>4 DEF RunStep, BackfillStart, BackfillStep, QuoteSucceeds, AnalysisReturns,
     RunFails, ErrorWrite, RaisesUnwritten, Finish, FinishLost, EndTask
<1>5. CASE Crash \/ Restart \/ RestartWithoutRequeue \/ UNCHANGED vars
  BY <1>5 DEF Crash, Restart, RestartWithoutRequeue, vars, taskVars
<1> QED
  BY <1>1, <1>2, <1>3, <1>4, <1>5 DEF Next

\* A claim fills at most the places its dispatcher counted as free.
LEMMA ClaimRespectsCapacity ==
  ASSUME RankInv, CapacityRespected, NEW claimed \in JobTypes, DispatchClaim(claimed),
         NEW type \in JobTypes
  PROVE  Cardinality(LiveRuns(type)') <= MaxConcurrent[type]
<1> USE DEF RankInv, TypeInv, TypeOK
<1>1. PICK claim \in SUBSET Jobs :
        /\ \E limit \in 1..Free(claimed) : claim = OldestQueued(claimed, limit)
        /\ \A j \in claim : TypeOf[j] = claimed /\ status[j] = "queued"
        /\ \E slot \in [claim -> Slots] : Claim(claim, slot)
  BY ClaimParts
<1>2. PICK slot \in [claim -> Slots] : Claim(claim, slot)
  BY <1>1
<1> DEFINE Fresh == {k \in Runs : k[1] \in claim /\ slot[k[1]] = k[2]}
<1>3. \A k \in Runs : task'[k] = IF k \in Fresh THEN "claimed" ELSE task[k]
  BY <1>2 DEF Claim
<1>4. CASE type # claimed
  <2>1. LiveRuns(type)' \subseteq LiveRuns(type)
    BY <1>1, <1>3, <1>4 DEF LiveRuns, TypeOfRun
  <2> QED
    BY <2>1, LiveRunsFinite, FS_Subset, FS_CardinalityType, QueueAssumption
    DEF CapacityRespected
<1>5. CASE type = claimed
  <2>1. LiveRuns(type)' \subseteq LiveRuns(type) \cup Fresh
    BY <1>3 DEF LiveRuns
  <2>2. PICK limit \in 1..Free(claimed) : claim = OldestQueued(claimed, limit)
    BY <1>1
  <2>3. Free(claimed) \in Int /\ limit \in Nat \ {0}
    BY LiveRunsFinite, QueueAssumption DEF Free
  <2>4. IsFiniteSet(claim) /\ Cardinality(claim) <= limit /\ Cardinality(claim) \in Nat
    BY <2>2, <2>3, OldestQueuedBound, FS_CardinalityType
  <2>5. IsFiniteSet(Fresh) /\ Cardinality(Fresh) <= Cardinality(claim)
    <3>1. [k \in Fresh |-> k[1]] \in Injection(Fresh, claim)
      BY DEF Injection, IsInjective, Runs
    <3> QED
      BY <2>4, <3>1, FS_Injection
  <2>6. /\ IsFiniteSet(LiveRuns(type) \cup Fresh)
        /\ Cardinality(LiveRuns(type) \cup Fresh)
             <= Cardinality(LiveRuns(type)) + Cardinality(Fresh)
    <3>1. IsFiniteSet(LiveRuns(type) \cap Fresh)
          /\ Cardinality(LiveRuns(type) \cap Fresh) \in Nat
      BY LiveRunsFinite, FS_Subset, FS_CardinalityType
    <3> HIDE DEF Fresh
    <3>2. Cardinality(Fresh) \in Nat
      BY <2>5, FS_CardinalityType
    <3>3. /\ IsFiniteSet(LiveRuns(type) \cup Fresh)
          /\ Cardinality(LiveRuns(type) \cup Fresh)
               = Cardinality(LiveRuns(type)) + Cardinality(Fresh)
                 - Cardinality(LiveRuns(type) \cap Fresh)
      BY <2>5, LiveRunsFinite, FS_Union
    <3> QED
      BY <3>1, <3>2, <3>3, LiveRunsFinite
  <2>7. Cardinality(LiveRuns(type)') <= Cardinality(LiveRuns(type) \cup Fresh)
        /\ Cardinality(LiveRuns(type)') \in Nat
    BY <2>1, <2>6, FS_Subset, FS_CardinalityType
  <2> HIDE DEF Fresh
  <2>8. Cardinality(Fresh) \in Nat /\ Cardinality(LiveRuns(type) \cup Fresh) \in Nat
    BY <2>5, <2>6, FS_CardinalityType
  <2>9. limit <= MaxConcurrent[type] - Cardinality(LiveRuns(type))
    BY <1>5, <2>2, <2>3 DEF Free
  <2> QED
    BY <2>4, <2>5, <2>6, <2>7, <2>8, <2>9, LiveRunsFinite, QueueAssumption
<1> QED
  BY <1>4, <1>5

\* Whatever the callers, the faults and the interleaving of ticks and ends, no
\* job_type ever has more rows claimed or at work than its MAX_CONCURRENT_*.
THEOREM ConcurrencyLimits == Spec => []CapacityRespected
<1>1. Init => CapacityRespected
  <2> SUFFICES ASSUME Init, NEW type \in JobTypes
               PROVE  Cardinality(LiveRuns(type)) <= MaxConcurrent[type]
    BY DEF CapacityRespected
  <2>1. LiveRuns(type) = {}
    BY DEF Init, LiveRuns
  <2> QED
    BY <2>1, FS_EmptySet, QueueAssumption
<1>2. RankInv /\ CapacityRespected /\ [Next]_vars => CapacityRespected'
  <2> SUFFICES ASSUME RankInv, CapacityRespected, [Next]_vars, NEW type \in JobTypes
               PROVE  Cardinality(LiveRuns(type)') <= MaxConcurrent[type]
    BY DEF CapacityRespected
  <2>1. CASE \E claimed \in JobTypes : DispatchClaim(claimed)
    BY <2>1, ClaimRespectsCapacity
  <2>2. CASE \A claimed \in JobTypes : ~DispatchClaim(claimed)
    <3>1. LiveRuns(type)' \subseteq LiveRuns(type)
      BY <2>2, OnlyClaimsCreate DEF LiveRuns, RankInv, TypeInv
    <3>2. /\ Cardinality(LiveRuns(type)') <= Cardinality(LiveRuns(type))
          /\ Cardinality(LiveRuns(type)') \in Nat
      BY <3>1, LiveRunsFinite, FS_Subset, FS_CardinalityType
    <3> QED
      BY <3>2, LiveRunsFinite, QueueAssumption DEF CapacityRespected
  <2> QED
    BY <2>1, <2>2
<1> QED
  BY <1>1, <1>2, RankInvariance, PTL DEF Spec

-----------------------------------------------------------------------------
(***************************************************************************)
(* Running rows are backed by a task.                                      *)
(***************************************************************************)

\* After any step a running row of a live worker is an orphan or has a run.
LEMMA BackedNext ==
  ASSUME TypeInv, RunningRowIsBacked, [Next]_vars, up', NEW j \in Jobs, status'[j] = "running"
  PROVE  j \in orphan' \/ HasTask(j)'
<1> USE DEF TypeInv, TypeOK
<1>0. ASSUME up, status[j] = "running", orphan \subseteq orphan',
             \A s \in Slots : task[<<j, s>>] # "none" => task'[<<j, s>>] # "none"
      PROVE  j \in orphan' \/ HasTask(j)'
  BY <1>0 DEF RunningRowIsBacked, HasTask
<1>1. ASSUME NEW r \in Requests, RequestStep(r)
      PROVE  j \in orphan' \/ HasTask(j)'
  <2>1. /\ up /\ status[j] = "running"
        /\ UNCHANGED <<task, orphan>>
    BY <1>1 DEF RequestStep, EnqueueRead, EnqueueCommit, EnqueueAbort, rowVars, taskVars
  <2> QED
    BY <1>0, <2>1
<1>2. ASSUME NEW i \in Jobs, CooldownElapses(i)
      PROVE  j \in orphan' \/ HasTask(j)'
  BY <1>0, <1>2 DEF CooldownElapses, taskVars
<1>3. ASSUME NEW type \in JobTypes, DispatchClaim(type)
      PROVE  j \in orphan' \/ HasTask(j)'
  <2>1. PICK claim \in SUBSET Jobs : \E slot \in [claim -> Slots] : Claim(claim, slot)
    BY <1>3, ClaimParts
  <2>2. PICK slot \in [claim -> Slots] : Claim(claim, slot)
    BY <2>1
  <2>3. CASE j \in claim
    <3>1. task'[<<j, slot[j]>>] = "claimed"
      BY <2>2, <2>3 DEF Claim, Runs
    <3> QED
      BY <2>3, <3>1 DEF HasTask
  <2>4. CASE j \notin claim
    <3>1. status[j] = "running" /\ (j \in orphan => j \in orphan')
      BY <2>2, <2>4 DEF Claim
    <3>2. \A s \in Slots : task'[<<j, s>>] = task[<<j, s>>]
      BY <2>2, <2>4 DEF Claim, Runs
    <3>3. up
      BY <1>3 DEF DispatchClaim
    <3> QED
      BY <3>1, <3>2, <3>3 DEF RunningRowIsBacked, HasTask
  <2> QED
    BY <2>3, <2>4
<1>4. ASSUME NEW type \in JobTypes, DispatchSpawn(type)
      PROVE  j \in orphan' \/ HasTask(j)'
  <2>1. /\ up /\ status[j] = "running" /\ orphan' = orphan
        /\ \A k \in Runs : task[k] # "none" => task'[k] # "none"
    BY <1>4 DEF DispatchSpawn, rowVars
  <2> QED
    BY <1>0, <2>1 DEF Runs
<1>5. ASSUME NEW type \in JobTypes, DispatchLost(type)
      PROVE  j \in orphan' \/ HasTask(j)'
  <2>0. CASE j \in orphan
    BY <1>5, <2>0 DEF DispatchLost
  <2> SUFFICES ASSUME j \notin orphan PROVE j \in orphan' \/ HasTask(j)'
    BY <2>0
  <2>1. PICK s \in Slots : task[<<j, s>>] # "none"
    BY <1>5 DEF DispatchLost, rowVars, RunningRowIsBacked, HasTask
  <2>2. <<j, s>> \in Runs /\ <<j, s>>[1] = j
    BY DEF Runs
  <2>3. CASE task[<<j, s>>] = "claimed" /\ TypeOf[j] = type
    BY <1>5, <2>2, <2>3 DEF DispatchLost, LiveRuns, TypeOfRun
  <2>4. CASE ~(task[<<j, s>>] = "claimed" /\ TypeOf[j] = type)
    <3>1. task'[<<j, s>>] = task[<<j, s>>] /\ orphan \subseteq orphan'
      BY <1>5, <2>2, <2>4 DEF DispatchLost, TypeOfRun
    <3> QED
      BY <2>1, <3>1 DEF HasTask
  <2> QED
    BY <2>3, <2>4
<1>6. ASSUME NEW k \in Runs, RunStep(k) \/ FinishLost(k)
      PROVE  j \in orphan' \/ HasTask(j)'
  <2>1. up /\ orphan \subseteq orphan' /\ (\A l \in Runs \ {k} : task'[l] = task[l])
    BY <1>6 DEF RunStep, BackfillStart, BackfillStep, QuoteSucceeds, AnalysisReturns,
       RunFails, ErrorWrite, RaisesUnwritten, Finish, FinishLost, EndTask
  <2>2. CASE k[1] # j
    <3>1. status'[j] = status[j]
      BY <1>6, <2>2 DEF RunStep, BackfillStart, BackfillStep, QuoteSucceeds, AnalysisReturns,
         RunFails, ErrorWrite, RaisesUnwritten, Finish, FinishLost, rowVars
    <3>2. \A s \in Slots : <<j, s>> \in Runs \ {k}
      BY <2>2 DEF Runs
    <3> QED
      BY <1>0, <2>1, <3>1, <3>2
  <2>3. CASE k[1] = j
    <3>1. k = <<j, k[2]>> /\ k[2] \in Slots
      BY <2>3 DEF Runs
    <3>2. CASE RunStep(k) /\ ~Finish(k)
      <4>1. task'[k] # "none"
        BY <3>2 DEF RunStep, BackfillStart, BackfillStep, QuoteSucceeds, AnalysisReturns,
           RunFails, ErrorWrite, RaisesUnwritten, Finishing
      <4> QED
        BY <3>1, <4>1 DEF HasTask
    <3>3. CASE Finish(k)
      BY <2>3, <3>3, RunParts DEF Finish
    <3>4. CASE FinishLost(k)
      BY <2>3, <3>4 DEF FinishLost, rowVars
    <3> QED
      BY <1>6, <3>2, <3>3, <3>4
  <2> QED
    BY <2>2, <2>3
<1>7. CASE Crash
  BY <1>7 DEF Crash
<1>8. CASE Restart
  BY <1>8 DEF Restart, RunningRows
<1>9. CASE RestartWithoutRequeue
  BY <1>9 DEF RestartWithoutRequeue, RunningRows, rowVars
<1>10. CASE UNCHANGED vars
  BY <1>0, <1>10 DEF vars, rowVars, taskVars
<1> QED
  BY <1>1, <1>2, <1>3, <1>4, <1>5, <1>6, <1>7, <1>8, <1>9, <1>10 DEF Next

\* A running row nobody works on is a job no request can start again.  For every
\* set of rows and requests, it needs one of the named losses to get there.
THEOREM RunningRowsAreBacked == Spec => []RunningRowIsBacked
<1>1. Init => RunningRowIsBacked
  BY DEF Init, RunningRowIsBacked
<1>2. TypeInv /\ RunningRowIsBacked /\ [Next]_vars => RunningRowIsBacked'
  <2> SUFFICES ASSUME TypeInv, RunningRowIsBacked, [Next]_vars, up', NEW j \in Jobs,
                      status'[j] = "running"
               PROVE  j \in orphan' \/ HasTask(j)'
    BY DEF RunningRowIsBacked
  <2> QED
    BY BackedNext
<1> QED
  BY <1>1, <1>2, TypeInvariance, PTL DEF Spec

-----------------------------------------------------------------------------
(***************************************************************************)
(* What a row that is not contested can rely on, however requests race.    *)
(***************************************************************************)

\* The task may still fetch data or write the row's progress and its end.
Working == {"claimed", "start", "work", "error"}

\* A task at work holds its row in running; one that is finishing keeps it from
\* being claimed again.
TasksHoldRows ==
  \A k \in Runs : k[1] \notin contested =>
    /\ task[k] \in Working => status[k[1]] = "running"
    /\ task[k] \in Finishing => status[k[1]] # "queued"

DownMeansNoTask == ~up => \A k \in Runs : task[k] = "none"

\* Only backfills have a state between their steps.
WorkIsBackfill ==
  \A k \in Runs : task[k] = "work" => TypeOfRun(k) = "instrument_backfill"

\* What an analysis row counts.
AnalysisHasNoSteps == \A j \in Jobs : TypeOf[j] = "analysis_refresh" => steps[j] = 0

\* What is stored when a job reports success.
ReturnedIsComplete ==
  \A k \in Runs : k[1] \notin contested /\ task[k] = "finish_ok" =>
    steps[k[1]] = FullSteps(TypeOfRun(k))

OwnerIsRun ==
  \A k \in Runs : k[1] \notin contested /\ task[k] # "none" => owner[k[1]] = k[2]

HoldInv == RankInv /\ NoParallelRun /\ TasksHoldRows /\ DownMeansNoTask

StoreInv == WorkIsBackfill /\ AnalysisHasNoSteps /\ ReturnedIsComplete
            /\ SucceededIsComplete /\ ProgressIsOfTheRun /\ OwnerIsRun

\* A row with a task has a run, and the other way round.
LEMMA TaskOfRow ==
  ASSUME NEW k \in Runs, task[k] # "none"
  PROVE  HasTask(k[1])
<1>1. k = <<k[1], k[2]>> /\ k[2] \in Slots
  BY DEF Runs
<1> QED
  BY <1>1 DEF HasTask

\* HoldInv holds at first.
LEMMA HoldInit == Init => HoldInv
  BY InitTypes, InitRanks DEF Init, HoldInv, RankInv, NoParallelRun, TasksHoldRows,
     DownMeansNoTask, Working, Finishing, Runs

\* A row that a committed request leaves uncontested has no task.
LEMMA CommitMeetsNoTask ==
  ASSUME HoldInv, NEW r \in Requests, NEW j \in Jobs, EnqueueCommit(r, j),
         j \notin contested', NEW k \in Runs, k[1] = j
  PROVE  task[k] = "none"
<1> USE DEF HoldInv, RankInv, TypeInv, TypeOK
<1>1. CASE request[r].read = "absent"
  BY <1>1 DEF EnqueueCommit, RanksDistinct
<1>2. CASE request[r].read # "absent"
  <2>1. request[r].read = "ended"
    BY <1>2 DEF EnqueueCommit, InFlight, SeenRecords, Idle
  <2> QED
    BY <2>1, TaskOfRow DEF EnqueueCommit
<1> QED
  BY <1>1, <1>2

\* A committed request queues a row without a task, or makes it contested.
LEMMA HoldCommit ==
  ASSUME HoldInv, RankInv', NEW r \in Requests, NEW j \in Jobs, EnqueueCommit(r, j)
  PROVE  HoldInv'
<1> USE DEF HoldInv, RankInv, TypeInv, TypeOK
<1>1. /\ status' = [status EXCEPT ![j] = "queued"]
      /\ UNCHANGED <<task, up>>
      /\ contested \subseteq contested' /\ contested' \subseteq contested \cup {j}
  BY DEF EnqueueCommit, taskVars
<1>2. ASSUME NEW k \in Runs, k[1] = j, k[1] \notin contested' PROVE task[k] = "none"
  BY <1>2, CommitMeetsNoTask
<1>3. TasksHoldRows'
  BY <1>1, <1>2, RunParts DEF TasksHoldRows, Working, Finishing
<1> QED
  BY <1>1, <1>3 DEF NoParallelRun, DownMeansNoTask

\* A step that leaves rows, tasks and the worker alone.
LEMMA HoldQuiet ==
  ASSUME HoldInv, RankInv', UNCHANGED <<status, task, up, contested>>
  PROVE  HoldInv'
  BY DEF HoldInv, NoParallelRun, TasksHoldRows, DownMeansNoTask

\* What a claim does: its rows get one task each, and those that had none are
\* no longer contested.
LEMMA ClaimEffect ==
  ASSUME TypeInv, NEW type \in JobTypes, DispatchClaim(type)
  PROVE  \E claim \in SUBSET Jobs : \E slot \in [claim -> Slots] :
           /\ \A j \in claim : status[j] = "queued"
           /\ status' = [j \in Jobs |-> IF j \in claim THEN "running" ELSE status[j]]
           /\ owner' = [j \in Jobs |-> IF j \in claim THEN slot[j] ELSE owner[j]]
           /\ \A k \in Runs : task'[k] = IF k[1] \in claim /\ slot[k[1]] = k[2]
                                         THEN "claimed" ELSE task[k]
           /\ contested' = {j \in contested : j \in claim => HasTask(j)}
           /\ UNCHANGED <<steps, completed, request, up>>
           /\ up
<1>1. PICK claim \in SUBSET Jobs :
        /\ \A j \in claim : status[j] = "queued"
        /\ \E slot \in [claim -> Slots] : Claim(claim, slot)
  BY ClaimParts
<1>2. PICK slot \in [claim -> Slots] : Claim(claim, slot)
  BY <1>1
<1>3. \A k \in Runs : task'[k] = IF k[1] \in claim /\ slot[k[1]] = k[2]
                                 THEN "claimed" ELSE task[k]
  BY <1>2 DEF Claim
<1>4. /\ status' = [j \in Jobs |-> IF j \in claim THEN "running" ELSE status[j]]
      /\ owner' = [j \in Jobs |-> IF j \in claim THEN slot[j] ELSE owner[j]]
      /\ contested' = {j \in contested : j \in claim => HasTask(j)}
      /\ UNCHANGED <<steps, completed, request, up>>
  BY <1>2 DEF Claim
<1>5. up
  BY DEF DispatchClaim
<1> QED
  BY <1>1, <1>3, <1>4, <1>5

\* A claimed row that is not contested afterwards had no task before.
LEMMA ClaimTakesFreeRows ==
  ASSUME HoldInv, NEW claim \in SUBSET Jobs, \A j \in claim : status[j] = "queued",
         contested' = {j \in contested : j \in claim => HasTask(j)},
         NEW k \in Runs, k[1] \in claim, k[1] \notin contested'
  PROVE  task[k] = "none"
<1>1. CASE k[1] \in contested
  <2>1. ~HasTask(k[1])
    BY <1>1
  <2> QED
    BY <2>1, TaskOfRow
<1>2. CASE k[1] \notin contested
  BY <1>2, RunParts DEF HoldInv, RankInv, TypeInv, TypeOK, TasksHoldRows, TaskStates,
     Working, Finishing
<1> QED
  BY <1>1, <1>2

\* A claim gives each of its rows one run, and keeps HoldInv.
LEMMA HoldClaim ==
  ASSUME HoldInv, RankInv', NEW type \in JobTypes, DispatchClaim(type)
  PROVE  HoldInv'
<1>1. PICK claim \in SUBSET Jobs : \E slot \in [claim -> Slots] :
           /\ \A j \in claim : status[j] = "queued"
           /\ status' = [j \in Jobs |-> IF j \in claim THEN "running" ELSE status[j]]
           /\ \A k \in Runs : task'[k] = IF k[1] \in claim /\ slot[k[1]] = k[2]
                                         THEN "claimed" ELSE task[k]
           /\ contested' = {j \in contested : j \in claim => HasTask(j)}
           /\ up' = up /\ up
  BY ClaimEffect DEF HoldInv, RankInv
<1>2. PICK slot \in [claim -> Slots] :
        \A k \in Runs : task'[k] = IF k[1] \in claim /\ slot[k[1]] = k[2]
                                   THEN "claimed" ELSE task[k]
  BY <1>1
<1>3. \A k \in Runs : k[1] \in claim /\ k[1] \notin contested' => task[k] = "none"
  BY <1>1, ClaimTakesFreeRows
<1>4. \A j \in Jobs : j \notin claim /\ j \notin contested' => j \notin contested
  BY <1>1
<1>5. NoParallelRun'
  <2> SUFFICES ASSUME NEW j \in Jobs, j \notin contested', NEW s \in Slots, NEW t \in Slots,
                      task'[<<j, s>>] # "none", task'[<<j, t>>] # "none"
               PROVE  s = t
    BY DEF NoParallelRun
  <2>1. <<j, s>> \in Runs /\ <<j, t>> \in Runs
    BY DEF Runs
  <2>2. CASE j \in claim
    BY <1>2, <1>3, <2>1, <2>2
  <2>3. CASE j \notin claim
    BY <1>2, <1>4, <2>1, <2>3 DEF HoldInv, NoParallelRun
  <2> QED
    BY <2>2, <2>3
<1>6. TasksHoldRows'
  <2> SUFFICES ASSUME NEW k \in Runs, k[1] \notin contested'
               PROVE  /\ task'[k] \in Working => status'[k[1]] = "running"
                      /\ task'[k] \in Finishing => status'[k[1]] # "queued"
    BY DEF TasksHoldRows
  <2>1. k[1] \in Jobs
    BY RunParts
  <2>2. CASE k[1] \in claim
    BY <1>1, <2>1, <2>2
  <2>3. CASE k[1] \notin claim
    <3>1. task'[k] = task[k] /\ status'[k[1]] = status[k[1]] /\ k[1] \notin contested
      BY <1>1, <1>2, <1>4, <2>1, <2>3
    <3> QED
      BY <3>1 DEF HoldInv, TasksHoldRows
  <2> QED
    BY <2>2, <2>3
<1> QED
  BY <1>1, <1>5, <1>6 DEF HoldInv, DownMeansNoTask

\* Spawning or losing the tasks of a claim keeps HoldInv.
LEMMA HoldSpawn ==
  ASSUME HoldInv, RankInv', NEW type \in JobTypes, DispatchSpawn(type) \/ DispatchLost(type)
  PROVE  HoldInv'
<1> USE DEF HoldInv, RankInv, TypeInv, TypeOK
<1>1. /\ UNCHANGED <<status, up, contested>>
      /\ \A k \in Runs : \/ task'[k] = task[k]
                         \/ task[k] = "claimed" /\ task'[k] \in {"start", "none"}
  BY DEF DispatchSpawn, DispatchLost, rowVars
<1>2. NoParallelRun'
  BY <1>1 DEF NoParallelRun, Runs
<1>3. TasksHoldRows'
  BY <1>1 DEF TasksHoldRows, Working, Finishing
<1> QED
  BY <1>1, <1>2, <1>3 DEF DownMeansNoTask

\* What a step of a task does to its own row and state.
LEMMA RunStepParts ==
  ASSUME HoldInv, NEW k \in Runs, RunStep(k) \/ FinishLost(k)
  PROVE  /\ task[k] # "none"
         /\ \A l \in Runs \ {k} : task'[l] = task[l]
         /\ \A j \in Jobs \ {k[1]} : status'[j] = status[j]
         /\ UNCHANGED <<up, contested>>
         /\ status'[k[1]] = status[k[1]] \/ status'[k[1]] \in {"running"} \cup Terminal
         /\ \/ task'[k] \in Working /\ task[k] \in Working
               /\ (status'[k[1]] = "running" \/ status'[k[1]] = status[k[1]])
            \/ /\ task'[k] \in Finishing /\ task[k] \in Working
               /\ (status'[k[1]] = status[k[1]] \/ status'[k[1]] \in Terminal)
            \/ /\ task'[k] = "none"
               /\ (status'[k[1]] = status[k[1]] \/ status'[k[1]] \in Terminal)
<1> USE RunParts DEF HoldInv, RankInv, TypeInv, TypeOK, Working, Finishing, Terminal
<1>1. CASE BackfillStart(k)
  BY <1>1 DEF BackfillStart
<1>2. CASE BackfillStep(k)
  BY <1>2 DEF BackfillStep
<1>3. CASE QuoteSucceeds(k)
  BY <1>3 DEF QuoteSucceeds
<1>4. CASE AnalysisReturns(k)
  BY <1>4 DEF AnalysisReturns, rowVars
<1>5. CASE RunFails(k)
  BY <1>5 DEF RunFails, rowVars
<1>6. CASE ErrorWrite(k)
  BY <1>6 DEF ErrorWrite
<1>7. CASE RaisesUnwritten(k)
  BY <1>7 DEF RaisesUnwritten, rowVars
<1>8. CASE Finish(k)
  BY <1>8 DEF Finish, EndTask
<1>9. CASE FinishLost(k)
  BY <1>9 DEF FinishLost, EndTask, rowVars
<1> QED
  BY <1>1, <1>2, <1>3, <1>4, <1>5, <1>6, <1>7, <1>8, <1>9 DEF RunStep

\* A step of a task keeps HoldInv: it ends its row no earlier than its work.
LEMMA HoldRun ==
  ASSUME HoldInv, RankInv', NEW k \in Runs, RunStep(k) \/ FinishLost(k)
  PROVE  HoldInv'
<1> USE RunStepParts, RunParts DEF HoldInv
<1>1. NoParallelRun'
  <2> SUFFICES ASSUME NEW j \in Jobs, j \notin contested', NEW s \in Slots, NEW t \in Slots,
                      task'[<<j, s>>] # "none", task'[<<j, t>>] # "none"
               PROVE  s = t
    BY DEF NoParallelRun
  <2>1. \A l \in Runs : task'[l] # "none" => task[l] # "none"
    OBVIOUS
  <2>2. <<j, s>> \in Runs /\ <<j, t>> \in Runs
    BY DEF Runs
  <2> QED
    BY <2>1, <2>2 DEF NoParallelRun
<1>2. k[1] \notin contested => \A l \in Runs : l[1] = k[1] /\ task[l] # "none" => l = k
  BY DEF NoParallelRun, Runs
<1>3. TasksHoldRows'
  <2> SUFFICES ASSUME NEW l \in Runs, l[1] \notin contested'
               PROVE  /\ task'[l] \in Working => status'[l[1]] = "running"
                      /\ task'[l] \in Finishing => status'[l[1]] # "queued"
    BY DEF TasksHoldRows
  <2>1. CASE l = k
    <3>1. task[k] \in Working => status[k[1]] = "running"
      BY <2>1 DEF TasksHoldRows
    <3> QED
      BY <2>1, <3>1 DEF Working, Finishing, Terminal
  <2>2. CASE l # k
    BY <1>2, <2>2 DEF TasksHoldRows, Working, Finishing
  <2> QED
    BY <2>1, <2>2
<1>5. DownMeansNoTask'
  BY DEF DownMeansNoTask
<1> QED
  BY <1>1, <1>3, <1>5

\* One step of the queue keeps HoldInv.
LEMMA HoldNext == HoldInv /\ [Next]_vars => HoldInv'
<1> SUFFICES ASSUME HoldInv, [Next]_vars PROVE HoldInv'
  OBVIOUS
<1>0. RankInv'
  BY NextTypes, RankNext DEF HoldInv, RankInv
<1>1. ASSUME NEW r \in Requests, RequestStep(r) PROVE HoldInv'
  <2> PICK j \in Jobs : EnqueueRead(r, j) \/ EnqueueCommit(r, j) \/ EnqueueAbort(r, j)
    BY <1>1 DEF RequestStep
  <2>1. CASE EnqueueRead(r, j) \/ EnqueueAbort(r, j)
    BY <1>0, <2>1, HoldQuiet DEF EnqueueRead, EnqueueAbort, rowVars, taskVars
  <2> QED
    BY <1>0, <2>1, HoldCommit
<1>2. ASSUME NEW j \in Jobs, CooldownElapses(j) PROVE HoldInv'
  BY <1>0, <1>2, HoldQuiet DEF CooldownElapses, taskVars
<1>3. ASSUME NEW type \in JobTypes,
             DispatchClaim(type) \/ DispatchSpawn(type) \/ DispatchLost(type)
      PROVE  HoldInv'
  BY <1>0, <1>3, HoldClaim, HoldSpawn
<1>4. ASSUME NEW k \in Runs, RunStep(k) \/ FinishLost(k) PROVE HoldInv'
  BY <1>0, <1>4, HoldRun
<1>5. CASE Crash
  <2>1. UNCHANGED <<status, contested>> /\ \A k \in Runs : task'[k] = "none"
    BY <1>5 DEF Crash, rowVars
  <2> QED
    BY <1>0, <2>1 DEF HoldInv, NoParallelRun, TasksHoldRows, DownMeansNoTask, Working,
       Finishing, Runs
<1>6. CASE Restart
  <2>1. /\ up' /\ UNCHANGED <<task, contested>>
        /\ \A k \in Runs : task[k] = "none"
        /\ status' = [j \in Jobs |-> IF status[j] = "running" THEN "queued" ELSE status[j]]
    BY <1>6 DEF Restart, RunningRows, taskVars, HoldInv, DownMeansNoTask
  <2> QED
    BY <1>0, <2>1 DEF HoldInv, NoParallelRun, TasksHoldRows, DownMeansNoTask, Working,
       Finishing
<1>7. CASE RestartWithoutRequeue
  <2>1. up' /\ UNCHANGED <<status, task, contested>>
    BY <1>7 DEF RestartWithoutRequeue, rowVars, taskVars
  <2> QED
    BY <1>0, <2>1 DEF HoldInv, NoParallelRun, TasksHoldRows, DownMeansNoTask
<1>8. CASE UNCHANGED vars
  BY <1>0, <1>8, HoldQuiet DEF vars, rowVars, taskVars
<1> QED
  BY <1>1, <1>2, <1>3, <1>4, <1>5, <1>6, <1>7, <1>8 DEF Next


\* StoreInv holds at first.
LEMMA StoreInit == Init => StoreInv
<1> SUFFICES ASSUME Init PROVE StoreInv
  OBVIOUS
<1> QED
  BY DEF Init, StoreInv, WorkIsBackfill, AnalysisHasNoSteps, ReturnedIsComplete,
     SucceededIsComplete, ProgressIsOfTheRun, OwnerIsRun

\* Steps of others than the tasks neither store nor end anything that is not contested.
QuietStep ==
  /\ completed' = completed
  /\ \A j \in Jobs : steps'[j] \in {steps[j], 0}
  /\ \A k \in Runs : task'[k] = "work" => task[k] = "work"
  /\ \A j \in Jobs \ contested' :
       /\ status'[j] = "succeeded" => status[j] = "succeeded" /\ j \notin contested
       /\ \/ steps'[j] = steps[j]
          \/ /\ status'[j] = "queued"
             /\ \A k \in Runs : k[1] = j => task'[k] = "none"
  /\ \A k \in Runs : k[1] \notin contested' =>
       \/ task'[k] = "none"
       \/ task'[k] = "claimed" /\ owner'[k[1]] = k[2]
       \/ /\ k[1] \notin contested
          /\ owner'[k[1]] = owner[k[1]]
          /\ task[k] # "none"
          /\ task'[k] = task[k] \/ task'[k] = "start"
          /\ task'[k] = "work" => status'[k[1]] = status[k[1]]

\* A quiet step keeps what rows and tasks have stored.
LEMMA StoreQuiet ==
  ASSUME StoreInv, QuietStep
  PROVE  StoreInv'
<1> USE RunParts DEF StoreInv, QuietStep
<1>1. WorkIsBackfill'
  BY DEF WorkIsBackfill
<1>2. ReturnedIsComplete'
  BY DEF ReturnedIsComplete
<1>3. SucceededIsComplete'
  BY DEF SucceededIsComplete
<1>4. ProgressIsOfTheRun'
  BY DEF ProgressIsOfTheRun
<1>5. OwnerIsRun'
  BY DEF OwnerIsRun
<1>6. AnalysisHasNoSteps'
  BY DEF AnalysisHasNoSteps
<1> QED
  BY <1>1, <1>2, <1>3, <1>4, <1>5, <1>6

\* A step that leaves all the tasks and what they write alone is one of them.
LEMMA QuietStutter ==
  ASSUME UNCHANGED <<steps, task, completed, owner, contested>>,
         \A j \in Jobs : status'[j] = "succeeded" => status[j] = "succeeded",
         \A k \in Runs : task'[k] = "work" => status'[k[1]] = status[k[1]]
  PROVE  QuietStep
  BY DEF QuietStep

\* Requests disturb no task's stored progress, except in contested rows.
LEMMA StoreRequest ==
  ASSUME HoldInv, StoreInv, NEW r \in Requests, RequestStep(r)
  PROVE  StoreInv'
<1> USE DEF HoldInv, RankInv, TypeInv, TypeOK
<1> PICK j \in Jobs : EnqueueRead(r, j) \/ EnqueueCommit(r, j) \/ EnqueueAbort(r, j)
  BY DEF RequestStep
<1>1. CASE EnqueueRead(r, j) \/ EnqueueAbort(r, j)
  <2>1. UNCHANGED <<status, steps, task, completed, owner, contested>>
    BY <1>1 DEF EnqueueRead, EnqueueAbort, rowVars, taskVars
  <2> QED
    BY <2>1, QuietStutter, StoreQuiet
<1>2. CASE EnqueueCommit(r, j)
  <2>1. j \notin contested' => \A k \in Runs : k[1] = j => task[k] = "none"
    BY <1>2, CommitMeetsNoTask
  <2>2. /\ status' = [status EXCEPT ![j] = "queued"]
        /\ \A i \in Jobs : steps'[i] = steps[i] \/ (i = j /\ steps'[i] = 0)
        /\ contested \subseteq contested'
        /\ UNCHANGED <<task, completed, owner>>
    BY <1>2 DEF EnqueueCommit, taskVars
  <2>3. \A k \in Runs : k[1] \notin contested' /\ task'[k] # "none"
                          => status'[k[1]] = status[k[1]]
    BY <2>1, <2>2, RunParts
  <2>4. QuietStep
    BY <2>1, <2>2, <2>3 DEF QuietStep
  <2> QED
    BY <2>4, StoreQuiet
<1> QED
  BY <1>1, <1>2

\* Dispatchers keep StoreInv: a claim writes neither progress nor an end.
LEMMA StoreDispatch ==
  ASSUME HoldInv, StoreInv, NEW type \in JobTypes,
         DispatchClaim(type) \/ DispatchSpawn(type) \/ DispatchLost(type)
  PROVE  StoreInv'
<1> USE DEF HoldInv, RankInv, TypeInv, TypeOK
<1>1. CASE DispatchClaim(type)
  <2>1. PICK claim \in SUBSET Jobs : \E slot \in [claim -> Slots] :
           /\ \A j \in claim : status[j] = "queued"
           /\ status' = [j \in Jobs |-> IF j \in claim THEN "running" ELSE status[j]]
           /\ owner' = [j \in Jobs |-> IF j \in claim THEN slot[j] ELSE owner[j]]
           /\ \A k \in Runs : task'[k] = IF k[1] \in claim /\ slot[k[1]] = k[2]
                                         THEN "claimed" ELSE task[k]
           /\ contested' = {j \in contested : j \in claim => HasTask(j)}
           /\ UNCHANGED <<steps, completed>>
    BY <1>1, ClaimEffect
  <2>2. PICK slot \in [claim -> Slots] :
           /\ owner' = [j \in Jobs |-> IF j \in claim THEN slot[j] ELSE owner[j]]
           /\ \A k \in Runs : task'[k] = IF k[1] \in claim /\ slot[k[1]] = k[2]
                                         THEN "claimed" ELSE task[k]
    BY <2>1
  <2>3. \A k \in Runs : k[1] \in claim /\ k[1] \notin contested' => task[k] = "none"
    BY <2>1, ClaimTakesFreeRows
  <2>4. \A j \in Jobs : j \notin claim /\ j \notin contested' => j \notin contested
    BY <2>1
  <2>5. ASSUME NEW j \in Jobs, j \notin contested'
        PROVE  status'[j] = "succeeded" => status[j] = "succeeded" /\ j \notin contested
    BY <2>1, <2>4, <2>5
  <2>6. ASSUME NEW k \in Runs, k[1] \notin contested'
        PROVE  \/ task'[k] = "none"
               \/ task'[k] = "claimed" /\ owner'[k[1]] = k[2]
               \/ /\ k[1] \notin contested
                  /\ owner'[k[1]] = owner[k[1]]
                  /\ task[k] # "none"
                  /\ task'[k] = task[k]
                  /\ status'[k[1]] = status[k[1]]
    <3>1. CASE k[1] \in claim
      BY <2>2, <2>3, <2>6, <3>1, RunParts
    <3>2. CASE k[1] \notin claim
      BY <2>1, <2>2, <2>4, <2>6, <3>2, RunParts
    <3> QED
      BY <3>1, <3>2
  <2>7. QuietStep
    BY <2>1, <2>2, <2>5, <2>6 DEF QuietStep
  <2> QED
    BY <2>7, StoreQuiet
<1>2. CASE DispatchSpawn(type) \/ DispatchLost(type)
  <2>1. /\ \A k \in Runs : \/ task'[k] = task[k] \/ task'[k] = "none"
                           \/ task'[k] = "start" /\ task[k] = "claimed"
        /\ UNCHANGED <<status, steps, completed, owner, contested>>
    BY <1>2 DEF DispatchSpawn, DispatchLost, rowVars
  <2>2. QuietStep
    BY <2>1 DEF QuietStep
  <2> QED
    BY <2>2, StoreQuiet
<1> QED
  BY <1>1, <1>2

\* What a step of a task stores, and what it makes of its row.
StepStores(k) ==
  /\ \A l \in Runs \ {k} : task'[l] = task[l] /\ completed'[l] = completed[l]
  /\ \A j \in Jobs \ {k[1]} :
       status'[j] = status[j] /\ steps'[j] = steps[j] /\ owner'[j] = owner[j]
  /\ task'[k] # "none" => owner'[k[1]] = owner[k[1]]
  /\ task'[k] = "work" => TypeOfRun(k) = "instrument_backfill"
  /\ TypeOfRun(k) = "analysis_refresh" => steps'[k[1]] = steps[k[1]]
  /\ contested' = contested

\* A task of a row that is not contested stores only what it has completed.
StepStoresOwn(k) ==
  /\ task'[k] = "work" => status'[k[1]] = "running" /\ steps'[k[1]] = completed'[k]
  /\ task'[k] = "finish_ok" => steps'[k[1]] = FullSteps(TypeOfRun(k))
  /\ status'[k[1]] = "succeeded" => steps'[k[1]] = FullSteps(TypeOfRun(k))

\* StepStores and StepStoresOwn describe the steps of a task.
LEMMA RunStores ==
  ASSUME HoldInv, StoreInv, NEW k \in Runs, RunStep(k) \/ FinishLost(k)
  PROVE  StepStores(k) /\ (k[1] \notin contested => StepStoresOwn(k))
<1> USE RunParts DEF HoldInv, RankInv, TypeInv, TypeOK, StepStores, StepStoresOwn, TypeOfRun
<1>1. CASE BackfillStart(k)
  BY <1>1 DEF BackfillStart
<1>2. CASE BackfillStep(k)
  <2>1. TypeOf[k[1]] = "instrument_backfill"
    BY <1>2 DEF BackfillStep, StoreInv, WorkIsBackfill
  <2>2. k[1] \notin contested => status[k[1]] = "running"
    BY <1>2 DEF BackfillStep, TasksHoldRows, Working
  <2> QED
    BY <1>2, <2>1, <2>2 DEF BackfillStep, FullSteps
<1>3. CASE QuoteSucceeds(k)
  BY <1>3 DEF QuoteSucceeds, FullSteps
<1>4. CASE AnalysisReturns(k)
  <2>1. steps[k[1]] = 0
    BY <1>4 DEF AnalysisReturns, StoreInv, AnalysisHasNoSteps
  <2>2. k[1] \notin contested => status[k[1]] = "running"
    BY <1>4 DEF AnalysisReturns, TasksHoldRows, Working
  <2> QED
    BY <1>4, <2>1, <2>2 DEF AnalysisReturns, rowVars, FullSteps, Finishing
<1>5. CASE RunFails(k)
  <2>1. k[1] \notin contested => status[k[1]] = "running"
    BY <1>5 DEF RunFails, TasksHoldRows, Working
  <2> QED
    BY <1>5, <2>1 DEF RunFails, rowVars
<1>6. CASE ErrorWrite(k)
  BY <1>6 DEF ErrorWrite
<1>7. CASE RaisesUnwritten(k)
  <2>1. k[1] \notin contested => status[k[1]] = "running"
    BY <1>7 DEF RaisesUnwritten, TasksHoldRows, Working
  <2> QED
    BY <1>7, <2>1 DEF RaisesUnwritten, rowVars
<1>8. CASE Finish(k)
  <2>1. k[1] \notin contested /\ task[k] = "finish_ok" => steps[k[1]] = FullSteps(TypeOf[k[1]])
    BY DEF StoreInv, ReturnedIsComplete
  <2>2. k[1] \notin contested /\ status[k[1]] = "succeeded" =>
          steps[k[1]] = FullSteps(TypeOf[k[1]])
    BY DEF StoreInv, SucceededIsComplete
  <2> QED
    BY <1>8, <2>1, <2>2 DEF Finish, EndTask
<1>9. CASE FinishLost(k)
  <2>1. k[1] \notin contested /\ status[k[1]] = "succeeded" =>
          steps[k[1]] = FullSteps(TypeOf[k[1]])
    BY DEF StoreInv, SucceededIsComplete
  <2> QED
    BY <1>9, <2>1 DEF FinishLost, EndTask, rowVars
<1> QED
  BY <1>1, <1>2, <1>3, <1>4, <1>5, <1>6, <1>7, <1>8, <1>9 DEF RunStep

\* A step of a task keeps StoreInv.
LEMMA StoreRun ==
  ASSUME HoldInv, StoreInv, NEW k \in Runs, RunStep(k) \/ FinishLost(k)
  PROVE  StoreInv'
<1>0. StepStores(k) /\ task[k] # "none" /\ (k[1] \notin contested => StepStoresOwn(k))
  BY RunStores, RunStepParts
<1>1. k[1] \notin contested => \A l \in Runs \ {k} : l[1] = k[1] => task[l] = "none"
  BY <1>0 DEF HoldInv, NoParallelRun, Runs
<1> USE <1>0, <1>1, RunParts DEF StoreInv, StepStores, StepStoresOwn
<1>2. WorkIsBackfill'
  BY DEF WorkIsBackfill
<1>3. ReturnedIsComplete'
  <2>1. ASSUME NEW l \in Runs, l[1] \notin contested, task'[l] = "finish_ok"
        PROVE  steps'[l[1]] = FullSteps(TypeOfRun(l))
    <3>1. CASE l[1] = k[1]
      BY <2>1, <3>1 DEF ReturnedIsComplete
    <3>2. CASE l[1] # k[1]
      BY <2>1, <3>2 DEF ReturnedIsComplete
    <3> QED
      BY <3>1, <3>2
  <2> QED
    BY <2>1 DEF ReturnedIsComplete
<1>4. SucceededIsComplete'
  BY DEF SucceededIsComplete, TypeOfRun
<1>5. ProgressIsOfTheRun'
  BY DEF ProgressIsOfTheRun
<1>6. OwnerIsRun'
  BY DEF OwnerIsRun
<1>7. AnalysisHasNoSteps'
  BY DEF AnalysisHasNoSteps, TypeOfRun
<1> QED
  BY <1>2, <1>3, <1>4, <1>5, <1>6, <1>7

\* One step of the queue keeps StoreInv.
LEMMA StoreNext == HoldInv /\ StoreInv /\ [Next]_vars => StoreInv'
<1> SUFFICES ASSUME HoldInv, StoreInv, [Next]_vars PROVE StoreInv'
  OBVIOUS
<1>1. ASSUME NEW r \in Requests, RequestStep(r) PROVE StoreInv'
  BY <1>1, StoreRequest
<1>2. ASSUME NEW j \in Jobs, CooldownElapses(j) PROVE StoreInv'
  <2>1. UNCHANGED <<status, steps, task, completed, owner, contested>>
    BY <1>2 DEF CooldownElapses, taskVars
  <2> QED
    BY <2>1, QuietStutter, StoreQuiet
<1>3. ASSUME NEW type \in JobTypes,
             DispatchClaim(type) \/ DispatchSpawn(type) \/ DispatchLost(type)
      PROVE  StoreInv'
  BY <1>3, StoreDispatch
<1>4. ASSUME NEW k \in Runs, RunStep(k) \/ FinishLost(k) PROVE StoreInv'
  BY <1>4, StoreRun
<1>5. CASE Crash
  <2>1. UNCHANGED <<status, steps, contested>> /\ \A k \in Runs : task'[k] = "none"
    BY <1>5 DEF Crash, rowVars
  <2> QED
    BY <2>1 DEF StoreInv, WorkIsBackfill, AnalysisHasNoSteps, ReturnedIsComplete,
       SucceededIsComplete, ProgressIsOfTheRun, OwnerIsRun
<1>6. CASE Restart
  <2>1. /\ \A k \in Runs : task[k] = "none"
        /\ \A j \in Jobs : status'[j] = "succeeded" => status[j] = "succeeded"
        /\ UNCHANGED <<steps, task, completed, owner, contested>>
    BY <1>6 DEF Restart, taskVars, HoldInv, DownMeansNoTask
  <2> QED
    BY <2>1, QuietStutter, StoreQuiet
<1>7. CASE RestartWithoutRequeue
  <2>1. UNCHANGED <<status, steps, task, completed, owner, contested>>
    BY <1>7 DEF RestartWithoutRequeue, rowVars, taskVars
  <2> QED
    BY <2>1, QuietStutter, StoreQuiet
<1>8. CASE UNCHANGED vars
  <2>1. UNCHANGED <<status, steps, task, completed, owner, contested>>
    BY <1>8 DEF vars, rowVars, taskVars
  <2> QED
    BY <2>1, QuietStutter, StoreQuiet
<1> QED
  BY <1>1, <1>2, <1>3, <1>4, <1>5, <1>6, <1>7, <1>8 DEF Next

\* Both invariants hold in every reachable state.
LEMMA HoldInvariance == Spec => [](HoldInv /\ StoreInv)
<1>1. Init => HoldInv /\ StoreInv
  BY HoldInit, StoreInit
<1>2. HoldInv /\ StoreInv /\ [Next]_vars => (HoldInv /\ StoreInv)'
  BY HoldNext, StoreNext
<1> QED
  BY <1>1, <1>2, PTL DEF Spec

\* A row has two tasks only after a request that had read its end reset it while
\* a task of it was alive: neither claims, lost spawns, crashes and restarts nor
\* any number of other requests lead there.
THEOREM NoParallelRuns == Spec => []NoParallelRun
<1>1. HoldInv => NoParallelRun
  BY DEF HoldInv
<1> QED
  BY <1>1, HoldInvariance, PTL

\* A row says succeeded only after every step was stored, through crashes,
\* requeues, lost claims and lost writes; a reset under a live task can make it
\* say so falsely, but only until a run takes the row alone.
THEOREM SucceededRowsAreComplete == Spec => []SucceededIsComplete
<1>1. StoreInv => SucceededIsComplete
  BY DEF StoreInv
<1> QED
  BY <1>1, HoldInvariance, PTL

\* The progress of a backfill at work is its own, unless a request has reset
\* the row under it.
THEOREM ProgressIsOwn == Spec => []ProgressIsOfTheRun
<1>1. StoreInv => ProgressIsOfTheRun
  BY DEF StoreInv
<1> QED
  BY <1>1, HoldInvariance, PTL

\* The fallback write of a task touches a row that has passed to another claim
\* only if a request reset the row while a task was alive: otherwise a live task
\* is the owner of its row.
THEOREM FallbackIsHarmless == Spec => FallbackKeepsOtherRuns
<1>1. StoreInv =>
        \A k \in Runs : task[k] \in Finishing /\ k[1] \notin contested => owner[k[1]] = k[2]
  BY DEF StoreInv, OwnerIsRun, Finishing
<1>2. StoreInv =>
        [\A k \in Runs : task[k] \in Finishing /\ task'[k] = "none" /\ up'
                           /\ k[1] \notin contested =>
           status'[k[1]] = status[k[1]] \/ owner[k[1]] = k[2]]_vars
  BY <1>1
<1> QED
  BY <1>2, HoldInvariance, PTL DEF FallbackKeepsOtherRuns

-----------------------------------------------------------------------------
(***************************************************************************)
(* The queue implements JobLifecycle.                                      *)
(***************************************************************************)

\* The rows some run will end: the refinement mapping of working.
Held == {j \in Jobs : status[j] = "running" /\ HasTask(j)}

LifecycleStep ==
  \/ \E j \in Jobs : /\ j \notin Held
                     /\ status' = [status EXCEPT ![j] = "queued"]
                     /\ Held' = Held /\ up' = up /\ contested' = contested
  \/ \E j \in Jobs : /\ up /\ up' = up
                     /\ status' = [status EXCEPT ![j] = "queued"]
                     /\ Held' = Held \ {j} /\ contested' = contested \cup {j}
  \/ \E j \in Jobs : /\ up /\ up' = up /\ j \in contested /\ contested' = contested
                     /\ \E s \in Active \cup Terminal : status' = [status EXCEPT ![j] = s]
                     /\ Held' \in {Held \cup {j}, Held \ {j}}
  \/ \E claim \in SUBSET Jobs : \E alone \in SUBSET claim :
       /\ up /\ \A j \in claim : status[j] = "queued"
       /\ status' = [j \in Jobs |-> IF j \in claim THEN "running" ELSE status[j]]
       /\ Held' = Held \cup claim /\ up' = up /\ contested' = contested \ alone
  \/ \E j \in Jobs, outcome \in Terminal :
       /\ up /\ j \in Held
       /\ status' = [status EXCEPT ![j] = outcome]
       /\ Held' = Held \ {j} /\ up' = up /\ contested' = contested
  \/ \E lost \in SUBSET Held :
       Held' = Held \ lost /\ status' = status /\ up' = up /\ contested' = contested
  \/ up /\ up' = FALSE /\ Held' = {} /\ status' = status /\ contested' = contested
  \/ /\ ~up /\ up' = TRUE /\ Held' = Held /\ contested' = contested
     /\ status' \in {status,
                     [j \in Jobs |-> IF status[j] = "running" THEN "queued" ELSE status[j]]}

\* A step described by LifecycleStep is a step of the abstract lifecycle.
LEMMA StepIsLifecycleStep == LifecycleStep => [Lifecycle!Next]_(Lifecycle!vars)
  BY DEF LifecycleStep, Held, Active, Terminal, Lifecycle!Next, Lifecycle!vars,
     Lifecycle!Submit, Lifecycle!SubmitOver, Lifecycle!Interfere, Lifecycle!TakeUp,
     Lifecycle!End, Lifecycle!Lose, Lifecycle!Stop, Lifecycle!Recover, Lifecycle!Active,
     Lifecycle!Ended

\* A step that changes neither rows nor the worker and only takes tasks away.
LEMMA LoseSteps ==
  ASSUME UNCHANGED <<status, up, contested>>,
         \A k \in Runs : task'[k] # "none" => task[k] # "none"
  PROVE  LifecycleStep
<1>1. Held' \subseteq Held
  BY DEF Held, HasTask, Runs
<1>2. Held' = Held \ (Held \ Held') /\ Held \ Held' \in SUBSET Held
  BY <1>1
<1> QED
  BY <1>2 DEF LifecycleStep

\* A request is a Submit or SubmitOver of the lifecycle, or changes nothing there.
LEMMA RequestImplements ==
  ASSUME HoldInv, NEW r \in Requests, RequestStep(r)
  PROVE  LifecycleStep
<1> USE DEF HoldInv, RankInv, TypeInv, TypeOK
<1> PICK j \in Jobs : EnqueueRead(r, j) \/ EnqueueCommit(r, j) \/ EnqueueAbort(r, j)
  BY DEF RequestStep
<1>1. CASE EnqueueRead(r, j) \/ EnqueueAbort(r, j)
  BY <1>1, LoseSteps DEF EnqueueRead, EnqueueAbort, rowVars, taskVars
<1>2. CASE EnqueueCommit(r, j)
  <2>1. /\ UNCHANGED <<task, up>>
        /\ status' = [status EXCEPT ![j] = "queued"]
        /\ contested' \in {contested, contested \cup {j}}
    BY <1>2 DEF EnqueueCommit, taskVars
  <2>2. Held' = Held \ {j}
    BY <2>1 DEF Held, HasTask
  <2>3. CASE HasTask(j)
    <3>1. request[r].read # "absent"
      <4>1. PICK s \in Slots : task[<<j, s>>] # "none"
        BY <2>3 DEF HasTask
      <4>2. <<j, s>> \in Runs /\ <<j, s>>[1] = j
        BY DEF Runs
      <4> QED
        BY <1>2, <4>1, <4>2 DEF EnqueueCommit, RanksDistinct
    <3>2. request[r].read = "ended"
      BY <1>2, <3>1 DEF EnqueueCommit, InFlight, SeenRecords, Idle
    <3>3. contested' = contested \cup {j}
      BY <1>2, <2>3, <3>2 DEF EnqueueCommit
    <3>4. up
      BY <2>3 DEF HasTask, DownMeansNoTask, Runs
    <3> QED
      BY <2>1, <2>2, <3>3, <3>4 DEF LifecycleStep
  <2>4. CASE ~HasTask(j)
    <3>1. contested' = contested /\ j \notin Held
      BY <1>2, <2>4 DEF EnqueueCommit, Held
    <3>2. Held' = Held
      BY <2>2, <3>1
    <3> QED
      BY <2>1, <3>1, <3>2 DEF LifecycleStep
  <2> QED
    BY <2>3, <2>4
<1> QED
  BY <1>1, <1>2

\* A claim is a TakeUp, a lost claim a Lose, and spawning changes nothing.
LEMMA DispatchImplements ==
  ASSUME HoldInv, NEW type \in JobTypes,
         DispatchClaim(type) \/ DispatchSpawn(type) \/ DispatchLost(type)
  PROVE  LifecycleStep
<1>1. CASE DispatchClaim(type)
  <2>1. PICK claim \in SUBSET Jobs : \E slot \in [claim -> Slots] :
           /\ \A j \in claim : status[j] = "queued"
           /\ status' = [j \in Jobs |-> IF j \in claim THEN "running" ELSE status[j]]
           /\ \A k \in Runs : task'[k] = IF k[1] \in claim /\ slot[k[1]] = k[2]
                                         THEN "claimed" ELSE task[k]
           /\ contested' = {j \in contested : j \in claim => HasTask(j)}
           /\ up' = up /\ up
    BY <1>1, ClaimEffect DEF HoldInv, RankInv
  <2>2. PICK slot \in [claim -> Slots] :
           \A k \in Runs : task'[k] = IF k[1] \in claim /\ slot[k[1]] = k[2]
                                      THEN "claimed" ELSE task[k]
    BY <2>1
  <2>3. PICK alone \in SUBSET claim : alone = {j \in claim : j \in contested /\ ~HasTask(j)}
    OBVIOUS
  <2>4. contested' = contested \ alone
    BY <2>1, <2>3
  <2>5. ASSUME NEW j \in claim PROVE j \in Held'
    <3>1. task'[<<j, slot[j]>>] = "claimed" /\ status'[j] = "running"
      BY <2>1, <2>2 DEF Runs
    <3> QED
      BY <3>1 DEF Held, HasTask
  <2>6. ASSUME NEW j \in Jobs, j \notin claim PROVE j \in Held' <=> j \in Held
    <3>1. \A s \in Slots : task'[<<j, s>>] = task[<<j, s>>]
      BY <2>2, <2>6 DEF Runs
    <3>2. status'[j] = status[j]
      BY <2>1, <2>6
    <3> QED
      BY <3>1, <3>2 DEF Held, HasTask
  <2>7. Held' = Held \cup claim
    BY <2>5, <2>6 DEF Held
  <2> QED
    BY <2>1, <2>4, <2>7 DEF LifecycleStep
<1>2. CASE DispatchSpawn(type) \/ DispatchLost(type)
  BY <1>2, LoseSteps DEF DispatchSpawn, DispatchLost, rowVars
<1> QED
  BY <1>1, <1>2

\* A step of a task touches no other row that is held.
LEMMA RunHeld ==
  ASSUME HoldInv, NEW k \in Runs, RunStep(k) \/ FinishLost(k)
  PROVE  Held' \ {k[1]} = Held \ {k[1]}
<1>1. ASSUME NEW j \in Jobs \ {k[1]} PROVE j \in Held' <=> j \in Held
  <2>1. \A s \in Slots : <<j, s>> \in Runs \ {k}
    BY DEF Runs
  <2> QED
    BY <2>1, RunStepParts DEF Held, HasTask
<1> QED
  BY <1>1 DEF Held

\* The last write of a task is an End, or an Interfere where the row is contested;
\* its other steps change nothing.
LEMMA RunImplements ==
  ASSUME HoldInv, RankInv', NEW k \in Runs, RunStep(k) \/ FinishLost(k)
  PROVE  LifecycleStep
<1> USE RunStepParts, RunParts DEF HoldInv, RankInv, TypeInv, TypeOK
<1>1. CASE status' = status
  BY <1>1, LoseSteps
<1>2. CASE status' # status
  <2>1. status' = [status EXCEPT ![k[1]] = status'[k[1]]] /\ status'[k[1]] # status[k[1]]
    BY <1>2
  <2>2. up
    BY DEF DownMeansNoTask
  <2>3. status'[k[1]] \in {"running"} \cup Terminal
    BY <2>1
  <2>4. CASE k[1] \in contested
    <3>1. Held' \in {Held \cup {k[1]}, Held \ {k[1]}}
      BY RunHeld
    <3>2. status'[k[1]] \in Active \cup Terminal
      BY <2>3, RunningStates
    <3> QED
      BY <2>1, <2>2, <2>4, <3>1, <3>2 DEF LifecycleStep
  <2>5. CASE k[1] \notin contested
    <3>1. status[k[1]] = "running" /\ status'[k[1]] \in Terminal
      <4>1. CASE task[k] \in Working
        <5>1. status[k[1]] = "running"
          BY <2>5, <4>1 DEF TasksHoldRows
        <5> QED
          BY <2>1, <2>3, <5>1
      <4>2. CASE task[k] \in Finishing
        <5>1. Finish(k) \/ FinishLost(k)
          BY <4>2 DEF RunStep, BackfillStart, BackfillStep, QuoteSucceeds, AnalysisReturns,
             RunFails, ErrorWrite, RaisesUnwritten, Finishing
        <5> QED
          BY <2>1, <5>1 DEF Finish, FinishLost, rowVars, Terminal
      <4> QED
        BY <4>1, <4>2 DEF TaskStates, Working, Finishing
    <3>2. k[1] \in Held
      BY <3>1, TaskOfRow DEF Held
    <3>3. Held' = Held \ {k[1]}
      <4>1. k[1] \notin Held'
        BY <3>1 DEF Held, Terminal
      <4> QED
        BY <4>1, RunHeld
    <3> QED
      BY <2>1, <2>2, <3>1, <3>2, <3>3 DEF LifecycleStep
  <2> QED
    BY <2>4, <2>5
<1> QED
  BY <1>1, <1>2

\* Every step of the queue is a step of the lifecycle or a stutter.
LEMMA NextImplements ==
  HoldInv /\ [Next]_vars => [Lifecycle!Next]_(Lifecycle!vars)
<1> SUFFICES ASSUME HoldInv, [Next]_vars PROVE LifecycleStep
  BY StepIsLifecycleStep
<1>0. RankInv'
  BY NextTypes, RankNext DEF HoldInv, RankInv
<1>1. ASSUME NEW r \in Requests, RequestStep(r) PROVE LifecycleStep
  BY <1>1, RequestImplements
<1>2. ASSUME NEW j \in Jobs, CooldownElapses(j) PROVE LifecycleStep
  BY <1>2, LoseSteps DEF CooldownElapses, taskVars
<1>3. ASSUME NEW type \in JobTypes,
             DispatchClaim(type) \/ DispatchSpawn(type) \/ DispatchLost(type)
      PROVE  LifecycleStep
  BY <1>3, DispatchImplements
<1>4. ASSUME NEW k \in Runs, RunStep(k) \/ FinishLost(k) PROVE LifecycleStep
  BY <1>0, <1>4, RunImplements
<1>5. CASE Crash
  <2>1. up /\ up' = FALSE /\ UNCHANGED <<status, contested>>
    BY <1>5 DEF Crash, rowVars
  <2>2. Held' = {}
    BY <1>5 DEF Crash, Held, HasTask, Runs
  <2> QED
    BY <2>1, <2>2 DEF LifecycleStep
<1>6. CASE Restart
  <2>1. ~up /\ up' = TRUE /\ (\A k \in Runs : task[k] = "none")
        /\ UNCHANGED <<task, contested>>
        /\ status' = [j \in Jobs |-> IF status[j] = "running" THEN "queued" ELSE status[j]]
    BY <1>6 DEF Restart, RunningRows, taskVars, HoldInv, DownMeansNoTask
  <2>2. Held' = Held
    BY <2>1 DEF Held, HasTask, Runs
  <2> QED
    BY <2>1, <2>2 DEF LifecycleStep
<1>7. CASE RestartWithoutRequeue
  <2>1. ~up /\ up' = TRUE /\ UNCHANGED <<status, task, contested>>
    BY <1>7 DEF RestartWithoutRequeue, rowVars, taskVars
  <2>2. Held' = Held
    BY <2>1 DEF Held, HasTask
  <2> QED
    BY <2>1, <2>2 DEF LifecycleStep
<1>8. CASE UNCHANGED vars
  BY <1>8, LoseSteps DEF vars, rowVars, taskVars
<1> QED
  BY <1>1, <1>2, <1>3, <1>4, <1>5, <1>6, <1>7, <1>8 DEF Next

\* The queue's initial state is the lifecycle's.
LEMMA InitImplements == Init => Lifecycle!Init
  BY DEF Init, Lifecycle!Init, HasTask, Runs

\* With requests that race and fall into any window, the queue is a job
\* lifecycle: rows are taken up only while queued, ended only by a run that holds
\* them, go back to the queue all together when a worker restarts or one by one
\* when a request asks, and are disturbed only after a submission over a run.
THEOREM QueueImplementsLifecycle == Spec => ImplementsLifecycle
  BY InitImplements, NextImplements, HoldInvariance, PTL
  DEF Spec, ImplementsLifecycle, Lifecycle!Spec

=============================================================================
