------------------------------- MODULE Universe -------------------------------
(***************************************************************************)
(* The membership of CSI 300 as the project remembers it: the table the    *)
(* index publisher offers and its archive (csi300_provider), the daily job *)
(* that turns tables into intervals (ingest.py, market_data_jobs.py), and  *)
(* the tool that rebuilds the intervals from the official adjustments      *)
(* (csi300_history.py).                                                    *)
(*                                                                         *)
(* Days are trading days.  A table holds members and a date: its own, or   *)
(* the day of the download where it has none.                              *)
(***************************************************************************)
EXTENDS Integers, FiniteSets, FiniteSetsExt

CONSTANTS
  Symbols,
  Size,         \* EXPECTED_MEMBERS
  LeastSize,    \* MIN_ACCEPTABLE_CONSTITUENTS
  LastDay,      \* bound on the days
  MaxFaults,    \* bound on the tables and lists of adjustments that are not as they should be
  Histories     \* the memberships to check: for each day, from 0, a set of Size symbols

Days == 1..LastDay

ASSUME UniverseAssumption ==
  /\ IsFiniteSet(Symbols)
  /\ Size \in Nat \ {0}
  /\ LeastSize \in 1..Size
  /\ LastDay \in Nat \ {0}
  /\ MaxFaults \in Nat
  /\ \A h \in Histories :
       /\ h \in [0..LastDay -> SUBSET Symbols]
       /\ \A t \in 0..LastDay : Cardinality(h[t]) = Size
       /\ h[0] # h[1]

VARIABLES
  official,    \* who is a member on each day
  today,
  archive,     \* the archived tables
  sync,        \* where sync_csi300_universe stands
  rebuild,     \* where apply_history stands
  rows,        \* universe_memberships; to = NoEnd while the interval is open
  instruments, \* table instruments
  backfills,   \* the backfill job of each symbol
  shown,       \* history: the day of the newest table that was downloaded
  synced,      \* history: the days on which the membership of that day was taken over
  since,       \* history: the first day that rows know of, 0 if none
  faults,      \* history: how many tables and lists of adjustments were not as they should be
  dated        \* history: every table had the date of the change it follows

universeVars == <<official, today, archive, sync, rebuild, rows, instruments, backfills, shown,
                  synced, since, faults, dated>>

NoEnd == LastDay + 1
Idle == [stage |-> "idle"]

UniverseInit ==
  /\ official \in Histories
  /\ today = 1
  /\ archive = {}
  /\ sync = Idle
  /\ rebuild = Idle
  /\ rows = {}
  /\ instruments = {}
  /\ backfills = [s \in Symbols |-> "none"]
  /\ shown = 0
  /\ synced = {}
  /\ since = 0
  /\ faults = 0
  /\ dated = TRUE

Changes == {t \in Days : official[t] # official[t - 1]}
Entrants(t) == official[t] \ official[t - 1]
Exits(t) == official[t - 1] \ official[t]

\* The day since when the membership of day t is in force.
InForceSince(t) == Max({e \in Changes : e <= t})

-----------------------------------------------------------------------------
(***************************************************************************)
(* Tables.                                                                 *)
(***************************************************************************)

\* Whose table the publisher may show: that of today; on the day of a change still the
\* one before, unless the new one has been seen; the day before it already the new one.
Offered ==
  {d \in Days : /\ d >= shown
                /\ \/ d = today
                   \/ d = today - 1 /\ today \in Changes
                   \/ d = today + 1 /\ d \in Changes}

\* Its date is that of the change, of its publication, or of the download.
DatesOf(d) == {InForceSince(d), d, today}

\* parse_constituents refuses a table that is too short, not one that is incomplete.
MembersOf(d) == {m \in SUBSET official[d] : Cardinality(m) >= LeastSize}

\* Complete, and not of a day that is still to come.
Sound(d, table) == table.members = official[d] /\ table.date <= d /\ d <= today

\* Counts what is not as it should be.
Met(good) ==
  /\ good \/ faults < MaxFaults
  /\ faults' = IF good THEN faults ELSE faults + 1

\* archive_snapshot: a file that exists is not written again.
Archived(table) ==
  IF \E a \in archive : a.date = table.date THEN archive ELSE archive \cup {table}

\* get_snapshot_constituents: the newest archived table up to a day.
Snapshot(t) ==
  LET dates == {a.date : a \in {b \in archive : b.date <= t}} IN
    IF dates = {} THEN {} ELSE (CHOOSE a \in archive : a.date = Max(dates)).members

-----------------------------------------------------------------------------
(***************************************************************************)
(* Intervals.                                                              *)
(***************************************************************************)

\* _membership_active.
MembersAt(t) == {r.symbol : r \in {q \in rows : q.from <= t /\ t <= q.to}}

OpenRows == {r \in rows : r.to = NoEnd}
OpenSymbols == {r.symbol : r \in OpenRows}

\* Each table is archived as it comes.
Download(d, table) ==
  /\ archive' = Archived(table)
  /\ shown' = d
  /\ Met(Sound(d, table))
  /\ dated' = (dated /\ table.date = InForceSince(d))

\* list_instruments, then get_universe_members: two downloads.
FirstDownload ==
  /\ sync = Idle
  /\ \E d \in Offered : \E date \in DatesOf(d), members \in MembersOf(d) :
       /\ Download(d, [date |-> date, members |-> members])
       /\ sync' = [stage |-> "named", named |-> members]
  /\ UNCHANGED <<official, today, rebuild, rows, instruments, backfills, synced, since>>

SecondDownload ==
  /\ sync.stage = "named"
  /\ \E d \in Offered : \E date \in DatesOf(d), members \in MembersOf(d) :
       LET table == [date |-> date, members |-> members] IN
         /\ Download(d, table)
         /\ sync' = [stage |-> "fetched", named |-> sync.named, table |-> table]
  /\ UNCHANGED <<official, today, rebuild, rows, instruments, backfills, synced, since>>

DownloadFails ==
  /\ sync # Idle
  /\ sync' = Idle
  /\ UNCHANGED <<official, today, archive, rebuild, rows, instruments, backfills, shown,
                 synced, since,
                 faults, dated>>

\* min(effective_from, as_of)
Effective(table) == Min({table.date, today})

\* Inserted unless the key (symbol, effective_from) is there already.
Inserted(table) ==
  {[symbol |-> s, from |-> Effective(table), to |-> NoEnd] :
     s \in {x \in table.members \ OpenSymbols :
              ~\E r \in rows : r.symbol = x /\ r.from = Effective(table)}}

\* An interval ends on the trading day before, but not before it began.
Closed(r) == [r EXCEPT !.to = Max({today - 1, r.from})]

\* sync_universe_members: closed intervals stay.
AfterSync(table) ==
  {IF r \in OpenRows /\ r.symbol \notin table.members THEN Closed(r) ELSE r : r \in rows}
    \cup Inserted(table)

\* Defect: the open members are read after the synchronisation.
NewMembersLate(table) == table.members \ (OpenSymbols \cup {r.symbol : r \in Inserted(table)})

\* Those without an open interval before.
NewMembers(table) == table.members \ OpenSymbols

\* One transaction: instruments, intervals, and a backfill of each new member that
\* has none; a member that is not among the instruments breaks the foreign key.
SyncCommit ==
  /\ sync.stage = "fetched"
  /\ IF sync.table.members \subseteq instruments \cup sync.named
     THEN /\ instruments' = instruments \cup sync.named
          /\ rows' = AfterSync(sync.table)
          /\ backfills' = [s \in Symbols |->
               IF s \in NewMembers(sync.table) /\ backfills[s] # "succeeded"
               THEN "queued" ELSE backfills[s]]
          /\ synced' = IF sync.table.members = official[today] THEN synced \cup {today} ELSE synced
          /\ since' = IF since = 0 THEN Effective(sync.table) ELSE since
     ELSE UNCHANGED <<rows, instruments, backfills, synced, since>>
  /\ sync' = Idle
  /\ UNCHANGED <<official, today, archive, rebuild, shown, faults, dated>>

BackfillEnds(s) ==
  /\ backfills[s] = "queued"
  /\ \E end \in {"succeeded", "failed"} : backfills' = [backfills EXCEPT ![s] = end]
  /\ UNCHANGED <<official, today, archive, sync, rebuild, rows, instruments, shown,
                 synced, since, faults, dated>>

-----------------------------------------------------------------------------
(***************************************************************************)
(* apply_history.                                                          *)
(***************************************************************************)

\* The membership after each change of events, from the current one backwards.
Backwards(current, events) ==
  LET snapshot[e \in events] ==
        IF e = Max(events) THEN current
        ELSE LET next == Min({x \in events : x > e}) IN
               (snapshot[next] \ Entrants(next)) \cup Exits(next)
  IN snapshot

\* Every change can be undone: who came is there, who went is not.
Consistent(current, events) ==
  /\ Cardinality(current) = Size
  /\ LET snapshot == Backwards(current, events) IN
       \A e \in events :
         /\ Entrants(e) \subseteq snapshot[e]
         /\ Exits(e) \cap snapshot[e] = {}
         /\ Cardinality((snapshot[e] \ Entrants(e)) \cup Exits(e)) = Size

\* Defect: an interval ends on the day of the change.
EndInclusive(s, from, events) ==
  LET exits == {e \in events : e > from /\ s \in Exits(e)} IN
    IF exits = {} THEN NoEnd ELSE Min(exits)

\* The day before the next change that takes the symbol out.
End(s, from, events) ==
  LET exits == {e \in events : e > from /\ s \in Exits(e)} IN
    IF exits = {} THEN NoEnd ELSE Min(exits) - 1

\* reconstruct_periods.
Periods(current, events) ==
  LET first == Min(events)
      begins == {<<s, first>> : s \in Backwards(current, events)[first]} \cup
                UNION {{<<s, e>> : s \in Entrants(e)} : e \in events \ {first}} IN
    {[symbol |-> b[1], from |-> b[2], to |-> End(b[1], b[2], events)] : b \in begins}

\* _load_current and reconstruct_periods, with the adjustments up to a day that somebody
\* has entered; anything inconsistent ends the tool.
LoadCurrent ==
  /\ rebuild = Idle
  /\ \E upTo \in 1..today :
       LET events == {e \in Changes : e <= upTo} IN
         /\ Consistent(OpenSymbols, events)
         /\ rebuild' = [stage |-> "loaded", periods |-> Periods(OpenSymbols, events)]
         /\ Met(upTo >= InForceSince(today))
  /\ UNCHANGED <<official, today, archive, sync, rows, instruments, backfills, shown,
                 synced, since, dated>>

\* One transaction: all intervals are deleted and those of the tool inserted.
ApplyHistory ==
  /\ rebuild # Idle
  /\ rows' = rebuild.periods
  /\ instruments' = instruments \cup {r.symbol : r \in rebuild.periods}
  /\ since' = Min(Changes)
  /\ rebuild' = Idle
  /\ UNCHANGED <<official, today, archive, sync, backfills, shown, synced, faults, dated>>

ApplyFails ==
  /\ rebuild # Idle
  /\ rebuild' = Idle
  /\ UNCHANGED <<official, today, archive, sync, rows, instruments, backfills, shown,
                 synced, since, faults, dated>>

\* Changes are months apart: each is taken over before the next.
Tick ==
  /\ today < LastDay
  /\ sync = Idle
  /\ rebuild = Idle
  /\ today + 1 \in Changes /\ rows # {} => \E t \in synced : t >= InForceSince(today)
  /\ today' = today + 1
  /\ UNCHANGED <<official, archive, sync, rebuild, rows, instruments, backfills, shown,
                 synced, since, faults, dated>>

UniverseNext ==
  \/ FirstDownload \/ SecondDownload \/ DownloadFails \/ SyncCommit
  \/ \E s \in Symbols : BackfillEnds(s)
  \/ LoadCurrent \/ ApplyHistory \/ ApplyFails
  \/ Tick

UniverseSpec == UniverseInit /\ [][UniverseNext]_universeVars

-----------------------------------------------------------------------------
(***************************************************************************)
(* Properties.                                                             *)
(***************************************************************************)

\* In spite of missed runs, tables that come late, are dated by their change or by
\* their publication or not at all, returning members and rebuilt histories, intervals
\* and archive agree with the official membership of every day whose membership was
\* taken over (no survivorship bias in training), as long as no table was incomplete or
\* dated after its day and no adjustment was missing.  No day in between lacks a member
\* if all tables are dated by their change: else a change that was met late begins late.
PointInTime ==
  faults = 0 =>
    /\ \A t \in synced : MembersAt(t) = official[t] /\ Snapshot(t) = official[t]
    /\ dated => \A t \in Days : since # 0 /\ since <= t /\ (\E u \in synced : t <= u)
                                => official[t] \subseteq MembersAt(t)

\* Whoever is a member now has had a backfill queued, however it became one.
MembersAreBackfilled ==
  \A s \in OpenSymbols : backfills[s] # "none"

=============================================================================
