--------------------------- MODULE JobRunnerProof ---------------------------
(***************************************************************************)
(* Proofs about JobRunner: for any jobs, providers, retry policies and     *)
(* overlapping ticks, a job runs once at a time and never in its cooldown, *)
(* and the API says ok of a source only when that was earned.              *)
(***************************************************************************)
EXTENDS JobRunner, TLAPS

Statuses == {"healthy", "never_run", "failing", "degraded", "disabled"}

-----------------------------------------------------------------------------
(***************************************************************************)
(* The statuses and their order.                                           *)
(***************************************************************************)

\* _SEVERITY ranks exactly the five statuses of JobHealth.status.
LEMMA SeverityDomain == DOMAIN Severity = Statuses
<1> DEFINE order == <<"healthy", "never_run", "failing", "degraded", "disabled">>
<1>1. DOMAIN order = 1..5
  OBVIOUS
<1>2. Range(order) = Statuses
  BY <1>1 DEF Range, Statuses
<1> QED BY <1>2 DEF Severity, Ranked

\* The ranks of _SEVERITY, counted from one.
LEMMA SeverityRanks ==
  /\ Severity["healthy"] = 1
  /\ Severity["never_run"] = 2
  /\ Severity["failing"] = 3
  /\ Severity["degraded"] = 4
  /\ Severity["disabled"] = 5
<1> DEFINE order == <<"healthy", "never_run", "failing", "degraded", "disabled">>
<1>1. DOMAIN order = 1..5
  OBVIOUS
<1>2. Range(order) = Statuses
  BY <1>1 DEF Range, Statuses
<1>3. \A s \in Statuses : Severity[s] = CHOOSE i \in 1..5 : order[i] = s
  BY <1>1, <1>2 DEF Severity, Ranked
<1>4. \A i \in 1..5 : \A k \in 1..5 : order[k] = order[i] => k = i
  OBVIOUS
<1>5. \A i \in 1..5 : order[i] \in Statuses /\ Severity[order[i]] = i
  <2> SUFFICES ASSUME NEW i \in 1..5
               PROVE order[i] \in Statuses /\ Severity[order[i]] = i
    OBVIOUS
  <2>1. order[i] \in Statuses
    BY DEF Statuses
  <2>2. (CHOOSE k \in 1..5 : order[k] = order[i]) = i
    BY <1>4
  <2> QED BY <2>1, <2>2, <1>3
<1> HIDE DEF order
<1>6. /\ order[1] = "healthy" /\ order[2] = "never_run" /\ order[3] = "failing"
      /\ order[4] = "degraded" /\ order[5] = "disabled"
  BY DEF order
<1> QED BY <1>5, <1>6

\* JobHealth.status always answers one of the five statuses.
LEMMA StatusOfType ==
  ASSUME NEW on \in BOOLEAN, NEW count \in 0..DegradeAfter, NEW has \in BOOLEAN
  PROVE StatusOf(on, count, has) \in Statuses
BY DEF StatusOf, Statuses, DegradeAfter

\* What a status says of the record it comes from.
LEMMA StatusOfMeaning ==
  ASSUME NEW on \in BOOLEAN, NEW count \in 0..DegradeAfter, NEW has \in BOOLEAN
  PROVE /\ StatusOf(on, count, has) = "healthy" => count = 0 /\ has
        /\ StatusOf(on, count, has) = "never_run" => count = 0
BY DEF StatusOf, DegradeAfter

-----------------------------------------------------------------------------
(***************************************************************************)
(* Types.                                                                  *)
(***************************************************************************)

\* The health file is absent or a snapshot.
FileType ==
  {Missing} \cup
    [written : {TRUE}, status : [Jobs -> DOMAIN Severity], success : [Jobs -> BOOLEAN]]

\* A snapshot of well-typed records is a well-typed file.
LEMMA SnapshotType ==
  ASSUME NEW on \in [Jobs -> BOOLEAN], NEW count \in [Jobs -> 0..DegradeAfter],
         NEW has \in [Jobs -> BOOLEAN], NEW good \in [Jobs -> BOOLEAN]
  PROVE Snapshot(on, count, has, good) \in FileType
<1>1. \A j \in Jobs : StatusOf(on[j], count[j], has[j]) \in DOMAIN Severity
  BY StatusOfType, SeverityDomain
<1> QED BY <1>1 DEF Snapshot, FileType

\* persist keeps the type of the file.
LEMMA PersistType ==
  ASSUME TypeOK, NEW on \in [Jobs -> BOOLEAN], NEW count \in [Jobs -> 0..DegradeAfter],
         NEW has \in [Jobs -> BOOLEAN], NEW good \in [Jobs -> BOOLEAN],
         PersistState(on, count, has, good)
  PROVE file' \in FileType /\ stale' \in BOOLEAN
<1>1. Snapshot(on, count, has, good) \in FileType
  BY SnapshotType
<1>2. file \in FileType
  BY DEF TypeOK, FileType
<1> QED BY <1>1, <1>2 DEF PersistState

\* A call is a call of a job, which has at least one attempt.
LEMMA CallType ==
  ASSUME NEW c \in Calls
  PROVE /\ c[1] \in Jobs
        /\ MaxAttempts[c[1]] \in Nat
        /\ MaxAttempts[c[1]] >= 1
BY RunnerAssumption DEF RunnerAssumption, Calls

\* A call in a back-off has an attempt left: without this the attempt number
\* could pass its limit.
RetryLeft == \A c \in Calls : phase[c] = "backoff" => attempt[c] < MaxAttempts[c[1]]

TypeInv == TypeOK /\ RetryLeft

\* Type correctness of the initial state.
LEMMA InitType == Init => TypeInv
<1> SUFFICES ASSUME Init PROVE TypeInv
  OBVIOUS
<1>1. \A c \in Calls : attempt[c] <= MaxAttempts[c[1]]
  BY CallType DEF Init
<1>2. RetryLeft
  BY DEF Init, RetryLeft
<1>3. file \in FileType
  BY DEF Init, FileType
<1>4. /\ phase \in [Calls -> {"idle", "trying", "backoff"}]
      /\ attempt \in [Calls -> Nat]
  BY DEF Init
<1>5. /\ enabled \in [Jobs -> BOOLEAN] /\ fails \in [Jobs -> 0..DegradeAfter]
      /\ ran \in [Jobs -> BOOLEAN] /\ succeeded \in [Jobs -> BOOLEAN]
      /\ cooling \in [Jobs -> BOOLEAN] /\ lock \in [Jobs -> BOOLEAN]
  BY DEF Init, DegradeAfter
<1>6. up \in BOOLEAN /\ stale \in BOOLEAN
  BY DEF Init
<1>7. TypeOK
  BY <1>1, <1>3, <1>4, <1>5, <1>6 DEF TypeOK, FileType
<1> QED BY <1>2, <1>7 DEF TypeInv

\* One step keeps the types.
LEMMA NextType == TypeInv /\ [Next]_vars => TypeInv'
<1> SUFFICES ASSUME TypeInv, [Next]_vars PROVE TypeInv'
  OBVIOUS
<1>i. TypeOK /\ RetryLeft
  BY DEF TypeInv
<1>f. file \in FileType
  BY <1>i DEF TypeOK, FileType
<1>s. ASSUME file' \in FileType,
             enabled' \in [Jobs -> BOOLEAN], fails' \in [Jobs -> 0..DegradeAfter],
             ran' \in [Jobs -> BOOLEAN], succeeded' \in [Jobs -> BOOLEAN],
             cooling' \in [Jobs -> BOOLEAN], lock' \in [Jobs -> BOOLEAN],
             phase' \in [Calls -> {"idle", "trying", "backoff"}],
             attempt' \in [Calls -> Nat],
             \A c \in Calls : attempt'[c] <= MaxAttempts[c[1]],
             RetryLeft',
             up' \in BOOLEAN, stale' \in BOOLEAN
      PROVE TypeInv'
  BY <1>s DEF TypeInv, TypeOK, FileType
<1>n. ASSUME NoCalls
      PROVE /\ lock' \in [Jobs -> BOOLEAN]
            /\ phase' \in [Calls -> {"idle", "trying", "backoff"}]
            /\ attempt' \in [Calls -> Nat]
            /\ \A c \in Calls : attempt'[c] <= MaxAttempts[c[1]]
            /\ RetryLeft'
  BY <1>n, CallType DEF NoCalls, RetryLeft
<1>u. ASSUME UNCHANGED runVars
      PROVE /\ lock' \in [Jobs -> BOOLEAN]
            /\ phase' \in [Calls -> {"idle", "trying", "backoff"}]
            /\ attempt' \in [Calls -> Nat]
            /\ \A c \in Calls : attempt'[c] <= MaxAttempts[c[1]]
            /\ RetryLeft'
  BY <1>u, <1>i DEF runVars, TypeOK, RetryLeft
<1>e. ASSUME NEW c \in Calls, EndRun(c)
      PROVE /\ lock' \in [Jobs -> BOOLEAN]
            /\ phase' \in [Calls -> {"idle", "trying", "backoff"}]
            /\ attempt' \in [Calls -> Nat]
            /\ \A d \in Calls : attempt'[d] <= MaxAttempts[d[1]]
            /\ RetryLeft'
  <2>1. \A d \in Calls : attempt'[d] <= MaxAttempts[d[1]]
    BY <1>e, <1>i, CallType DEF EndRun, TypeOK
  <2>2. RetryLeft'
    BY <1>e, <1>i, CallType DEF EndRun, TypeOK, RetryLeft
  <2> QED BY <1>e, <1>i, <2>1, <2>2, CallType DEF EndRun, TypeOK
<1>r. ASSUME NothingRecorded
      PROVE /\ fails' \in [Jobs -> 0..DegradeAfter] /\ ran' \in [Jobs -> BOOLEAN]
            /\ succeeded' \in [Jobs -> BOOLEAN] /\ cooling' \in [Jobs -> BOOLEAN]
  BY <1>r DEF NothingRecorded, DegradeAfter
<1>h. ASSUME UNCHANGED healthVars
      PROVE /\ enabled' \in [Jobs -> BOOLEAN] /\ fails' \in [Jobs -> 0..DegradeAfter]
            /\ ran' \in [Jobs -> BOOLEAN] /\ succeeded' \in [Jobs -> BOOLEAN]
            /\ cooling' \in [Jobs -> BOOLEAN]
  BY <1>h, <1>i DEF healthVars, TypeOK
<1>d. ASSUME Ends, file' \in FileType, stale' \in BOOLEAN PROVE TypeInv'
  <2>1. enabled' \in [Jobs -> BOOLEAN] /\ up' \in BOOLEAN
    BY <1>d DEF Ends
  <2> QED BY <1>d, <2>1, <1>r, <1>n, <1>s DEF Ends
<1>1. CASE Start
  <2>1. enabled' \in [Jobs -> BOOLEAN] /\ up' \in BOOLEAN
    BY <1>1 DEF Start
  <2>2. file' \in FileType /\ stale' \in BOOLEAN
    BY <1>1, <1>i, <1>r, <2>1, PersistType DEF Start, Persist
  <2> QED BY <1>1, <2>1, <2>2, <1>s, <1>n, <1>r DEF Start
<1>2. CASE Shutdown
  <2>1. file' \in FileType /\ stale' \in BOOLEAN
    BY <1>2, <1>i, PersistType DEF Shutdown, TypeOK
  <2> QED BY <1>2, <2>1, <1>d DEF Shutdown
<1>3. CASE Crash
  BY <1>3, <1>i, <1>f, <1>d DEF Crash, TypeOK
<1>4. CASE Heartbeat
  <2>1. file' \in FileType /\ stale' \in BOOLEAN
    BY <1>4, <1>i, <1>h, PersistType DEF Heartbeat, Persist
  <2> QED BY <1>4, <1>i, <2>1, <1>s, <1>u, <1>h DEF Heartbeat, TypeOK
<1>6. ASSUME NEW c \in Calls, SkipInCooldown(c) PROVE TypeInv'
  <2>1. file' \in FileType /\ stale' \in BOOLEAN
    BY <1>6, <1>i, <1>h, PersistType DEF SkipInCooldown, Persist
  <2> QED BY <1>6, <1>i, <2>1, <1>s, <1>u, <1>h DEF SkipInCooldown, TypeOK
<1>7. ASSUME NEW c \in Calls, BeginRun(c) PROVE TypeInv'
  <2>1. \A d \in Calls : attempt'[d] <= MaxAttempts[d[1]]
    BY <1>7, <1>i, CallType DEF BeginRun, TypeOK
  <2>2. RetryLeft'
    BY <1>7, <1>i, CallType DEF BeginRun, TypeOK, RetryLeft
  <2>3. /\ lock' \in [Jobs -> BOOLEAN]
        /\ phase' \in [Calls -> {"idle", "trying", "backoff"}]
        /\ attempt' \in [Calls -> Nat]
    BY <1>7, <1>i, CallType DEF BeginRun, TypeOK
  <2> QED BY <1>7, <1>i, <2>1, <2>2, <2>3, <1>f, <1>s DEF BeginRun, healthVars, TypeOK
<1>8. ASSUME NEW c \in Calls, Succeed(c) PROVE TypeInv'
  <2>1. /\ fails' \in [Jobs -> 0..DegradeAfter] /\ ran' \in [Jobs -> BOOLEAN]
        /\ succeeded' \in [Jobs -> BOOLEAN] /\ enabled' \in [Jobs -> BOOLEAN]
    BY <1>8, <1>i, CallType DEF Succeed, TypeOK, DegradeAfter
  <2>2. file' \in FileType /\ stale' \in BOOLEAN
    BY <1>8, <1>i, <2>1, PersistType DEF Succeed, Persist
  <2> QED BY <1>8, <1>i, <2>1, <2>2, <1>e, <1>s DEF Succeed, TypeOK
<1>9. ASSUME NEW c \in Calls, AttemptFails(c) PROVE TypeInv'
  <2>1. phase' \in [Calls -> {"idle", "trying", "backoff"}]
    BY <1>9, <1>i DEF AttemptFails, TypeOK
  <2>2. RetryLeft'
    BY <1>9, <1>i DEF AttemptFails, TypeOK, RetryLeft
  <2> QED BY <1>9, <1>i, <1>f, <2>1, <2>2, <1>s DEF AttemptFails, healthVars, TypeOK
<1>10. ASSUME NEW c \in Calls, Retry(c) PROVE TypeInv'
  <2>1. attempt[c] < MaxAttempts[c[1]]
    BY <1>10, <1>i DEF Retry, RetryLeft
  <2>2. \A d \in Calls : attempt'[d] <= MaxAttempts[d[1]]
    BY <1>10, <1>i, <2>1, CallType DEF Retry, TypeOK
  <2>3. RetryLeft'
    BY <1>10, <1>i DEF Retry, TypeOK, RetryLeft
  <2>4. /\ phase' \in [Calls -> {"idle", "trying", "backoff"}]
        /\ attempt' \in [Calls -> Nat]
    BY <1>10, <1>i DEF Retry, TypeOK
  <2> QED BY <1>10, <1>i, <1>f, <2>2, <2>3, <2>4, <1>s DEF Retry, healthVars, TypeOK
<1>11. ASSUME NEW c \in Calls, Fail(c) PROVE TypeInv'
  <2>1. /\ fails' \in [Jobs -> 0..DegradeAfter] /\ ran' \in [Jobs -> BOOLEAN]
        /\ cooling' \in [Jobs -> BOOLEAN] /\ enabled' \in [Jobs -> BOOLEAN]
        /\ succeeded' \in [Jobs -> BOOLEAN]
    BY <1>11, <1>i, CallType DEF Fail, TypeOK, DegradeAfter
  <2>2. file' \in FileType /\ stale' \in BOOLEAN
    BY <1>11, <1>i, <2>1, PersistType DEF Fail, Persist
  <2> QED BY <1>11, <1>i, <2>1, <2>2, <1>e, <1>s DEF Fail, TypeOK
<1>12. ASSUME NEW j \in Jobs, CooldownElapses(j) PROVE TypeInv'
  BY <1>12, <1>i, <1>f, <1>s, <1>u DEF CooldownElapses, TypeOK
<1>13. CASE UNCHANGED vars
  BY <1>13, <1>i, <1>f, <1>s, <1>u DEF vars, healthVars, TypeOK
<1> QED
  BY <1>1, <1>2, <1>3, <1>4, <1>6, <1>7, <1>8, <1>9, <1>10, <1>11, <1>12, <1>13
  DEF Next, CallStep

\* Every variable keeps its type, for any jobs and retry policies: in
\* particular no run makes more attempts than its policy allows.
THEOREM TypeCorrect == Spec => []TypeOK
<1>1. TypeInv => TypeOK
  BY DEF TypeInv
<1> QED BY InitType, NextType, <1>1, PTL DEF Spec

-----------------------------------------------------------------------------
(***************************************************************************)
(* The job lock and the cooldown.  A call that is under way holds the lock *)
(* of its job; with one run per job, a failure that starts a cooldown is   *)
(* the end of the only run there is.                                       *)
(***************************************************************************)

CallsHoldLocks == \A c \in Calls : phase[c] # "idle" => lock[c[1]]

RunInv == CallsHoldLocks /\ OneRunPerJob /\ NoRunInCooldown

\* OneRunPerJob, said of calls.
LEMMA OneCall ==
  ASSUME OneRunPerJob, NEW c \in Calls, NEW d \in Calls,
         c[1] = d[1], phase[c] # "idle", phase[d] # "idle"
  PROVE c = d
<1>1. PICK j \in Jobs, s \in Ticks : c = <<j, s>>
  BY DEF Calls
<1>2. PICK t \in Ticks : d = <<j, t>>
  BY <1>1 DEF Calls
<1> QED BY <1>1, <1>2 DEF OneRunPerJob

\* OneRunPerJob follows when no call runs but those that ran before.
LEMMA OneRunKept ==
  ASSUME OneRunPerJob,
         \A c \in Calls : phase'[c] # "idle" => phase[c] # "idle"
  PROVE OneRunPerJob'
BY DEF OneRunPerJob, Calls

\* No call is under way at first.
LEMMA InitRun == Init => RunInv
BY CallType DEF Init, RunInv, CallsHoldLocks, OneRunPerJob, NoRunInCooldown, Calls

\* One step keeps the lock discipline and the cooldown.
LEMMA NextRun == TypeOK /\ RunInv /\ [Next]_vars => RunInv'
<1> SUFFICES ASSUME TypeOK, RunInv, [Next]_vars PROVE RunInv'
  OBVIOUS
<1>i. CallsHoldLocks /\ OneRunPerJob /\ NoRunInCooldown
  BY DEF RunInv
<1> USE DEF RunInv
<1>n. ASSUME NoCalls PROVE RunInv'
  BY <1>n DEF NoCalls, CallsHoldLocks, OneRunPerJob, NoRunInCooldown, Calls
<1>u. ASSUME UNCHANGED <<lock, phase, enabled, fails, cooling>> PROVE RunInv'
  BY <1>i, <1>u DEF CallsHoldLocks, OneRunPerJob, NoRunInCooldown, InCooldown, Degraded
<1>e. ASSUME NEW c \in Calls, EndRun(c), phase[c] # "idle"
      PROVE /\ \A d \in Calls : d[1] = c[1] => phase'[d] = "idle"
            /\ \A d \in Calls : d[1] # c[1] => phase'[d] = phase[d] /\ lock'[d[1]] = lock[d[1]]
            /\ CallsHoldLocks'
            /\ OneRunPerJob'
  <2>1. \A d \in Calls : phase'[d] = IF d = c THEN "idle" ELSE phase[d]
    BY <1>e DEF EndRun, TypeOK
  <2>2. \A d \in Calls : d[1] = c[1] => phase'[d] = "idle"
    BY <1>i, <1>e, <2>1, OneCall
  <2>3. \A d \in Calls : d[1] # c[1] => phase'[d] = phase[d] /\ lock'[d[1]] = lock[d[1]]
    BY <1>e, <2>1, CallType DEF EndRun, TypeOK
  <2>4. CallsHoldLocks'
    BY <1>i, <2>2, <2>3 DEF CallsHoldLocks
  <2>5. OneRunPerJob'
    BY <1>i, <2>1, OneRunKept
  <2> QED BY <2>2, <2>3, <2>4, <2>5
<1>1. CASE Start
  BY <1>1, <1>n DEF Start
<1>2. CASE Shutdown
  BY <1>2, <1>n DEF Shutdown, Ends
<1>3. CASE Crash
  BY <1>3, <1>n DEF Crash, Ends
<1>4. CASE Heartbeat
  BY <1>4, <1>u DEF Heartbeat, healthVars, runVars
<1>6. ASSUME NEW c \in Calls, SkipInCooldown(c) PROVE RunInv'
  BY <1>6, <1>u DEF SkipInCooldown, healthVars, runVars
<1>7. ASSUME NEW c \in Calls, BeginRun(c) PROVE RunInv'
  <2>1. \A d \in Calls : phase'[d] = IF d = c THEN "trying" ELSE phase[d]
    BY <1>7 DEF BeginRun, TypeOK
  <2>2. \A d \in Calls : d[1] = c[1] => phase[d] = "idle"
    BY <1>7, <1>i DEF BeginRun, CallsHoldLocks
  <2>3. CallsHoldLocks'
    BY <1>7, <1>i, <2>1, CallType DEF BeginRun, CallsHoldLocks, TypeOK
  <2>4. OneRunPerJob'
    BY <1>i, <2>1, <2>2 DEF OneRunPerJob, Calls
  <2>5. NoRunInCooldown'
    BY <1>7, <1>i, <2>1
    DEF BeginRun, NoRunInCooldown, InCooldown, Degraded, healthVars
  <2> QED BY <2>3, <2>4, <2>5
<1>8. ASSUME NEW c \in Calls, Succeed(c) PROVE RunInv'
  <2>1. EndRun(c) /\ phase[c] # "idle"
    BY <1>8 DEF Succeed
  <2>2. NoRunInCooldown'
    <3> SUFFICES ASSUME NEW d \in Calls, InCooldown(d[1])', d[1] # c[1]
                 PROVE phase'[d] = "idle"
      BY <1>e, <2>1 DEF NoRunInCooldown
    <3>1. InCooldown(d[1])
      BY <1>8, CallType DEF Succeed, InCooldown, Degraded, TypeOK
    <3> QED BY <1>e, <1>i, <2>1, <3>1 DEF NoRunInCooldown
  <2> QED BY <1>e, <2>1, <2>2
<1>9. ASSUME NEW c \in Calls, AttemptFails(c) PROVE RunInv'
  <2>1. \A d \in Calls : phase'[d] # "idle" => phase[d] # "idle"
    BY <1>9 DEF AttemptFails, TypeOK
  <2>2. OneRunPerJob'
    BY <1>i, <2>1, OneRunKept
  <2>3. CallsHoldLocks'
    BY <1>9, <1>i, <2>1 DEF AttemptFails, CallsHoldLocks
  <2>4. NoRunInCooldown'
    BY <1>9, <1>i, <2>1
    DEF AttemptFails, healthVars, NoRunInCooldown, InCooldown, Degraded
  <2> QED BY <2>2, <2>3, <2>4
<1>10. ASSUME NEW c \in Calls, Retry(c) PROVE RunInv'
  <2>1. \A d \in Calls : phase'[d] # "idle" => phase[d] # "idle"
    BY <1>10 DEF Retry, TypeOK
  <2>2. OneRunPerJob'
    BY <1>i, <2>1, OneRunKept
  <2>3. CallsHoldLocks'
    BY <1>10, <1>i, <2>1 DEF Retry, CallsHoldLocks
  <2>4. NoRunInCooldown'
    BY <1>10, <1>i, <2>1
    DEF Retry, healthVars, NoRunInCooldown, InCooldown, Degraded
  <2> QED BY <2>2, <2>3, <2>4
<1>11. ASSUME NEW c \in Calls, Fail(c) PROVE RunInv'
  <2>1. EndRun(c) /\ phase[c] # "idle"
    BY <1>11 DEF Fail
  <2>2. NoRunInCooldown'
    <3> SUFFICES ASSUME NEW d \in Calls, InCooldown(d[1])', d[1] # c[1]
                 PROVE phase'[d] = "idle"
      BY <1>e, <2>1 DEF NoRunInCooldown
    <3>1. InCooldown(d[1])
      BY <1>11, CallType DEF Fail, InCooldown, Degraded, TypeOK
    <3> QED BY <1>e, <1>i, <2>1, <3>1 DEF NoRunInCooldown
  <2> QED BY <1>e, <2>1, <2>2
<1>12. ASSUME NEW j \in Jobs, CooldownElapses(j) PROVE RunInv'
  <2>1. \A d \in Calls : InCooldown(d[1])' => InCooldown(d[1])
    BY <1>12, CallType DEF CooldownElapses, InCooldown, Degraded, TypeOK
  <2>2. NoRunInCooldown'
    BY <1>12, <1>i, <2>1 DEF CooldownElapses, runVars, NoRunInCooldown
  <2>3. CallsHoldLocks' /\ OneRunPerJob'
    BY <1>12, <1>i DEF CooldownElapses, runVars, CallsHoldLocks, OneRunPerJob
  <2> QED BY <2>2, <2>3
<1>13. CASE UNCHANGED vars
  BY <1>13, <1>u DEF vars, healthVars, runVars
<1> QED
  BY <1>1, <1>2, <1>3, <1>4, <1>6, <1>7, <1>8, <1>9, <1>10, <1>11, <1>12, <1>13
  DEF Next, CallStep

\* The lock discipline and the cooldown hold in every reachable state.
LEMMA RunInvariant == Spec => []RunInv
<1>1. TypeInv => TypeOK
  BY DEF TypeInv
<1> QED BY InitType, NextType, InitRun, NextRun, <1>1, PTL DEF Spec

\* However ticks overlap, one job never runs twice at once.
THEOREM OneRun == Spec => []OneRunPerJob
BY RunInvariant, PTL DEF RunInv

\* A degraded job that cools down has no attempt under way or planned.
THEOREM CooldownIsQuiet == Spec => []NoRunInCooldown
BY RunInvariant, PTL DEF RunInv

-----------------------------------------------------------------------------
(***************************************************************************)
(* What the API reports.  Unless its last write failed the file is the     *)
(* registry, and a job whose last run did not fail has succeeded.          *)
(***************************************************************************)

FileInv ==
  /\ \A j \in Jobs : ran[j] /\ fails[j] = 0 => succeeded[j]
  /\ up /\ ~stale => file = Snapshot(enabled, fails, ran, succeeded)

\* Nothing runs at first.
LEMMA InitFile == Init => FileInv
BY DEF Init, FileInv

\* One step keeps the file current.
LEMMA NextFile == TypeOK /\ FileInv /\ [Next]_vars => FileInv'
<1> SUFFICES ASSUME TypeOK, FileInv, [Next]_vars PROVE FileInv'
  OBVIOUS
<1>p. ASSUME Persist, \A j \in Jobs : ran'[j] /\ fails'[j] = 0 => succeeded'[j]
      PROVE FileInv'
  BY <1>p DEF Persist, PersistState, FileInv
<1>u. ASSUME UNCHANGED <<enabled, fails, ran, succeeded, up, file, stale>> PROVE FileInv'
  BY <1>u DEF FileInv, Snapshot
<1>d. ASSUME Ends PROVE FileInv'
  BY <1>d DEF Ends, NothingRecorded, FileInv
<1>1. CASE Start
  BY <1>1, <1>p DEF Start, NothingRecorded
<1>2. CASE Shutdown
  BY <1>2, <1>d DEF Shutdown
<1>3. CASE Crash
  BY <1>3, <1>d DEF Crash
<1>4. CASE Heartbeat
  BY <1>4, <1>p DEF Heartbeat, healthVars, FileInv
<1>6. ASSUME NEW c \in Calls, SkipInCooldown(c) PROVE FileInv'
  BY <1>6, <1>p DEF SkipInCooldown, healthVars, FileInv
<1>7. ASSUME NEW c \in Calls, BeginRun(c) PROVE FileInv'
  BY <1>7, <1>u DEF BeginRun, healthVars
<1>8. ASSUME NEW c \in Calls, Succeed(c) PROVE FileInv'
  <2>1. \A j \in Jobs : ran'[j] /\ fails'[j] = 0 => succeeded'[j]
    BY <1>8 DEF Succeed, FileInv, TypeOK
  <2> QED BY <1>8, <2>1, <1>p DEF Succeed
<1>9. ASSUME NEW c \in Calls, AttemptFails(c) PROVE FileInv'
  BY <1>9, <1>u DEF AttemptFails, healthVars
<1>10. ASSUME NEW c \in Calls, Retry(c) PROVE FileInv'
  BY <1>10, <1>u DEF Retry, healthVars
<1>11. ASSUME NEW c \in Calls, Fail(c) PROVE FileInv'
  <2>1. \A j \in Jobs : ran'[j] /\ fails'[j] = 0 => succeeded'[j]
    <3>1. \A j \in Jobs : fails'[j] = 0 => j # c[1] /\ fails[j] = 0
      BY <1>11, CallType DEF Fail, TypeOK, DegradeAfter
    <3> QED BY <1>11, <3>1 DEF Fail, FileInv, TypeOK
  <2> QED BY <1>11, <2>1, <1>p DEF Fail
<1>12. ASSUME NEW j \in Jobs, CooldownElapses(j) PROVE FileInv'
  BY <1>12, <1>u DEF CooldownElapses
<1>13. CASE UNCHANGED vars
  BY <1>13, <1>u DEF vars, healthVars
<1> QED
  BY <1>1, <1>2, <1>3, <1>4, <1>6, <1>7, <1>8, <1>9, <1>10, <1>11, <1>12, <1>13
  DEF Next, CallStep

\* HealthRegistry.providers finds a worst status, and it is the status of a job.
LEMMA WorstIsWorst ==
  ASSUME NEW p \in Providers, JobsOf(p) # {},
         \A j \in JobsOf(p) : file.status[j] \in Statuses
  PROVE /\ WorstStatus(p) \in Statuses
        /\ \E j \in JobsOf(p) : file.status[j] = WorstStatus(p)
        /\ \A j \in JobsOf(p) : Severity[file.status[j]] <= Severity[WorstStatus(p)]
<1> DEFINE Has(s) == \E j \in JobsOf(p) : file.status[j] = s
           Worst(s) == Has(s) /\ \A j \in JobsOf(p) : Severity[file.status[j]] <= Severity[s]
<1>1. \E s \in Statuses : Worst(s)
  <2>1. \A s \in Statuses : \A t \in Statuses :
          Severity[s] \in 1..5 /\ (Severity[s] = Severity[t] => s = t)
    BY SeverityRanks DEF Statuses
  <2>2. \A s \in Statuses :
          (\A t \in Statuses : Has(t) => Severity[t] <= Severity[s]) /\ Has(s) => Worst(s)
    OBVIOUS
  <2>3. PICK j \in JobsOf(p) : TRUE
    OBVIOUS
  <2>4. \E s \in Statuses : Has(s)
    BY <2>3
  <2> HIDE DEF Has, Worst
  <2>5. \/ Has("healthy") \/ Has("never_run") \/ Has("failing")
        \/ Has("degraded") \/ Has("disabled")
    BY <2>4 DEF Statuses
  <2>6. \E s \in Statuses : Has(s) /\ \A t \in Statuses : Has(t) => Severity[t] <= Severity[s]
    BY <2>5, SeverityRanks DEF Statuses
  <2> QED BY <2>2, <2>6
<1>2. WorstStatus(p) = CHOOSE s \in Statuses : Worst(s)
  BY SeverityDomain DEF WorstStatus
<1>3. WorstStatus(p) \in Statuses /\ Worst(WorstStatus(p))
  BY <1>1, <1>2
<1> QED BY <1>3

\* The file and the registry say what OkIsEarned claims.
LEMMA OkIsEarnedHere == TypeOK /\ FileInv => OkIsEarned
<1> SUFFICES ASSUME TypeOK, FileInv, up, ~stale, NEW p \in Providers, Reported(p) = "ok"
             PROVE /\ \E j \in JobsOf(p) : succeeded[j]
                   /\ \A j \in JobsOf(p) : fails[j] = 0
  BY DEF OkIsEarned
<1>1. file = Snapshot(enabled, fails, ran, succeeded)
  BY DEF FileInv
<1>2. \A j \in JobsOf(p) :
        /\ j \in Jobs
        /\ file.status[j] = StatusOf(enabled[j], fails[j], ran[j])
        /\ file.success[j] = succeeded[j]
  BY <1>1 DEF Snapshot, JobsOf
<1>3. \A j \in JobsOf(p) :
        /\ file.status[j] \in Statuses
        /\ file.status[j] = "healthy" => fails[j] = 0 /\ ran[j]
        /\ file.status[j] = "never_run" => fails[j] = 0
  BY <1>2, StatusOfType, StatusOfMeaning DEF TypeOK
<1> DEFINE worst == WorstStatus(p)
           worked == \E j \in JobsOf(p) : file.success[j]
<1>4. JobsOf(p) # {}
  BY DEF Reported
<1>5. /\ worst \in Statuses
      /\ \E j \in JobsOf(p) : file.status[j] = worst
      /\ \A j \in JobsOf(p) : Severity[file.status[j]] <= Severity[worst]
  BY <1>3, <1>4, WorstIsWorst
<1> HIDE DEF worst
<1>6. worst = "healthy" \/ (worst = "never_run" /\ worked)
  <2> SUFFICES ASSUME ~(worst = "healthy" \/ (worst = "never_run" /\ worked))
               PROVE FALSE
    OBVIOUS
  <2> QED BY <1>1, <1>4, <1>5 DEF Reported, worst, Snapshot, Statuses
<1>7. \A j \in JobsOf(p) : file.status[j] \in {"healthy", "never_run"}
  BY <1>3, <1>5, <1>6, SeverityRanks DEF Statuses
<1>8. \A j \in JobsOf(p) : fails[j] = 0
  BY <1>3, <1>7
<1>9. \E j \in JobsOf(p) : succeeded[j]
  BY <1>2, <1>3, <1>5, <1>6 DEF FileInv
<1> QED BY <1>8, <1>9

\* "绝不谎报 ok": while the worker runs and its last write did not fail, a source
\* is reported ok only if a job of it has succeeded and none is failing.
THEOREM OkReportsAreEarned == Spec => []OkIsEarned
<1>1. TypeInv => TypeOK
  BY DEF TypeInv
<1> QED BY InitType, NextType, InitFile, NextFile, OkIsEarnedHere, <1>1, PTL DEF Spec

=============================================================================
