------------------------------- MODULE Tracking -------------------------------
(***************************************************************************)
(* The stocks the project follows: the index members and the watchlist     *)
(* (repositories/watchlist.py, watchlist_service.py), the pages a client   *)
(* turns through (list_page, research_pool_service.py), and the rounds in  *)
(* which the worker asks for their quotes (tracking_scope.py,              *)
(* ingest_watchlist_quotes).                                               *)
(*                                                                         *)
(* A request to the API reads, and commits later; a symbol is a number, as *)
(* codes are compared.                                                     *)
(***************************************************************************)
EXTENDS Integers, FiniteSets, FiniteSetsExt

CONSTANTS
  Symbols,
  Indexes,   \* the memberships the index may have
  Clients,   \* concurrent requests that write
  Batch,     \* FREE_QUOTE_BATCH_SIZE
  Limit,     \* items of a page
  LastId,    \* bound on the items ever added
  MaxChanges \* bound on the changes of the membership

ASSUME TrackingAssumption ==
  /\ Symbols \subseteq Nat \ {0}
  /\ IsFiniteSet(Symbols)
  /\ Indexes \subseteq SUBSET Symbols
  /\ {Batch, Limit, LastId} \subseteq Nat \ {0}
  /\ MaxChanges \in Nat

VARIABLES
  members,  \* the index members of today
  changes,  \* how often they have changed
  items,    \* watchlist_items
  nextId,   \* the sequence of their ids
  observer, \* who reads: neither of the two writes what the other reads
  client,   \* where each writing request stands
  reader,   \* where a client that turns pages stands
  cursor,   \* worker: _quote_batch_cursor
  waited    \* history: the batches since a stock was asked for, the scope changed or the
            \* worker began anew

trackingVars == <<members, changes, items, nextId, observer, client, reader, cursor, waited>>

AtRest == [stage |-> "idle"]

TrackingInit ==
  /\ members \in Indexes
  /\ changes = 0
  /\ items = {}
  /\ nextId = 1
  /\ observer \in {"client", "worker"}
  /\ client = [c \in Clients |-> AtRest]
  /\ reader = AtRest
  /\ cursor = 0
  /\ waited = [s \in Symbols |-> 0]

Watched == {i.symbol : i \in items}

\* tracking_symbols.
Tracked == members \cup Watched

\* The scope is another one: the count begins anew.
Rescoped == waited' = IF Tracked' = Tracked THEN waited ELSE [s \in Symbols |-> 0]

\* sync_csi300_universe.
MembersChange ==
  /\ changes < MaxChanges
  /\ members' \in Indexes \ {members}
  /\ changes' = changes + 1
  /\ reader' = IF reader # AtRest /\ reader.list = "pool" THEN AtRest ELSE reader
  /\ UNCHANGED <<observer, items, nextId, client, cursor>>
  /\ Rescoped

-----------------------------------------------------------------------------
(***************************************************************************)
(* The watchlist.                                                          *)
(***************************************************************************)

NextDisplayOrder == IF items = {} THEN 0 ELSE Max({i.order : i \in items}) + 1

\* POST /watchlist takes members, POST /extra-watchlist all others; both look for
\* the symbol and for the last place.
AddRead(c, s) ==
  /\ client[c] = AtRest
  /\ s \notin Watched
  /\ \E route \in {"watchlist", "extra"} :
       /\ route = "watchlist" <=> s \in members
       /\ client' = [client EXCEPT ![c] = [stage |-> "adding", symbol |-> s, order |-> NextDisplayOrder]]
  /\ UNCHANGED <<observer, members, changes, items, nextId, reader, cursor, waited>>

\* UNIQUE(symbol) has the last word.  The backfill is queued with it.
AddCommit(c) ==
  /\ client[c].stage = "adding"
  /\ nextId <= LastId
  /\ items' = IF client[c].symbol \in Watched THEN items
              ELSE items \cup {[id |-> nextId, symbol |-> client[c].symbol, order |-> client[c].order]}
  /\ nextId' = nextId + 1
  /\ client' = [client EXCEPT ![c] = AtRest]
  /\ UNCHANGED <<observer, members, changes, reader, cursor>>
  /\ Rescoped

Remove(s) ==
  /\ s \in Watched
  /\ items' = {i \in items : i.symbol # s}
  /\ UNCHANGED <<observer, members, changes, nextId, client, reader, cursor>>
  /\ Rescoped

\* The rows have other places: nothing is said of a walk through the pages.
GiveUpWalk == reader' = IF items' = items THEN reader ELSE AtRest

\* reorder_watchlist: a permutation of what it has read; of these rows only those
\* with another place are written.  Bound: one of them at a time.
ReorderRead(c) ==
  /\ client[c] = AtRest
  /\ \A d \in Clients : client[d].stage # "ordering"
  /\ \E order \in [items -> 0..Cardinality(items) - 1] :
       LET moved == {i \in items : order[i] # i.order} IN
         /\ \A i, j \in items : order[i] = order[j] => i = j
         /\ moved # {}
         /\ client' = [client EXCEPT ![c] =
              [stage |-> "ordering", place |-> [n \in {i.id : i \in moved} |->
                                                  order[CHOOSE i \in moved : i.id = n]]]]
  /\ UNCHANGED <<observer, members, changes, items, nextId, reader, cursor, waited>>

\* A row that is gone fails the whole request.
ReorderCommit(c) ==
  /\ client[c].stage = "ordering"
  /\ LET place == client[c].place IN
       items' = IF DOMAIN place \subseteq {i.id : i \in items}
                THEN {IF i.id \in DOMAIN place THEN [i EXCEPT !.order = place[i.id]] ELSE i : i \in items}
                ELSE items
  /\ GiveUpWalk
  /\ client' = [client EXCEPT ![c] = AtRest]
  /\ UNCHANGED <<observer, members, changes, nextId, cursor, waited>>

\* The request ends without a commit.
Abort(c) ==
  /\ client[c] # AtRest
  /\ client' = [client EXCEPT ![c] = AtRest]
  /\ UNCHANGED <<observer, members, changes, items, nextId, reader, cursor, waited>>

-----------------------------------------------------------------------------
(***************************************************************************)
(* Pages.                                                                  *)
(***************************************************************************)

Before(x, y) == x[1] < y[1] \/ (x[1] = y[1] /\ x[2] < y[2])

\* Defect: a page goes on behind the place, whatever the id.
KeyByOrder(i) == <<i.order, 0>>

\* The watchlist is sorted by place and id, and goes on behind both.
Key(i) == <<i.order, i.id>>

WatchlistRows == {[id |-> i.id, sort |-> <<i.order, i.id>>, key |-> Key(i)] : i \in items}

\* The research pool: the members by symbol, then the items that are none by place
\* and id; a page goes on behind place and symbol.  A row is known by the item's id,
\* or by the member's symbol.
PoolRows ==
  LET position(s) == Cardinality({m \in members : m < s})
      offset == Cardinality(members) IN
    {[id |-> -s, sort |-> <<position(s), 0>>, key |-> <<position(s), s>>] : s \in members} \cup
    {[id |-> i.id, sort |-> <<offset + i.order, i.id>>, key |-> <<offset + i.order, i.symbol>>] :
       i \in {j \in items : j.symbol \notin members}}

Rows(list) == IF list = "watchlist" THEN WatchlistRows ELSE PoolRows

\* Two rows of one place: the research pool may then pass over one.
Tied(rows) == \E x, y \in rows : x # y /\ x.sort[1] = y.sort[1]

StartReading(list) ==
  /\ observer = "client"
  /\ reader = AtRest
  /\ Rows(list) # {}
  /\ reader' = [stage |-> "turning", list |-> list, behind |-> <<-1, 0>>,
                stayed |-> {r.id : r \in Rows(list)}, seen |-> {}, twice |-> {}]
  /\ UNCHANGED <<observer, members, changes, items, nextId, client, cursor, waited>>

\* The rows from the first one behind the cursor on, one page of them.
Page(rows, behind) ==
  LET beyond == {r \in rows : Before(behind, r.key)}
      ahead == {r \in rows : \E x \in beyond : r = x \/ Before(x.sort, r.sort)} IN
    {r \in ahead : Cardinality({x \in ahead : Before(x.sort, r.sort)}) < Limit}

\* One page; without has_more it is the last.
TurnPage ==
  /\ reader.stage = "turning"
  /\ reader.list = "pool" => ~Tied(PoolRows)
  /\ LET rows == Rows(reader.list)
         stayed == reader.stayed \cap {r.id : r \in rows}
         page == Page(rows, reader.behind)
         shown == stayed \cap {r.id : r \in page}
         last == CHOOSE r \in page : \A x \in page : x = r \/ Before(x.sort, r.sort)
         more == page # {} /\ \E r \in rows : Before(last.sort, r.sort) IN
       reader' = [stage |-> IF more THEN "turning" ELSE "done", list |-> reader.list,
                  behind |-> IF more THEN last.key ELSE reader.behind,
                  stayed |-> stayed, seen |-> (reader.seen \cap stayed) \cup shown,
                  twice |-> (reader.twice \cap stayed) \cup (reader.seen \cap shown)]
  /\ UNCHANGED <<observer, members, changes, items, nextId, client, cursor, waited>>

EndReading ==
  /\ reader # AtRest
  /\ reader' = AtRest
  /\ UNCHANGED <<observer, members, changes, items, nextId, client, cursor, waited>>

-----------------------------------------------------------------------------
(***************************************************************************)
(* Batches.                                                                *)
(***************************************************************************)

Index(s) == Cardinality({t \in Tracked : t < s})

\* The stocks of one request, in a circle from the cursor on.
Requested ==
  LET count == Cardinality(Tracked)
      start == cursor % count IN
    {s \in Tracked : (Index(s) - start) % count < Min({Batch, count})}

\* Defect: the cursor moves by a full batch and one.
CursorAfterTooFar == (cursor + Cardinality(Requested) + 1) % Cardinality(Tracked)

CursorAfter ==
  ((cursor % Cardinality(Tracked)) + Cardinality(Requested)) % Cardinality(Tracked)

\* The cursor moves on before the request is sent, so whatever becomes of it.
Poll ==
  /\ observer = "worker"
  /\ Tracked # {}
  /\ cursor' = CursorAfter
  /\ waited' = [s \in Symbols |-> IF s \in Tracked \ Requested THEN waited[s] + 1 ELSE 0]
  /\ UNCHANGED <<observer, members, changes, items, nextId, client, reader>>

\* A new worker process begins the circle anew.
Restart ==
  /\ observer = "worker"
  /\ cursor # 0
  /\ cursor' = 0
  /\ waited' = [s \in Symbols |-> 0]
  /\ UNCHANGED <<observer, members, changes, items, nextId, client, reader>>

TrackingNext ==
  \/ MembersChange
  \/ \E c \in Clients : ReorderRead(c) \/ AddCommit(c) \/ ReorderCommit(c) \/ Abort(c)
  \/ \E c \in Clients, s \in Symbols : AddRead(c, s)
  \/ \E s \in Symbols : Remove(s)
  \/ \E list \in {"watchlist", "pool"} : StartReading(list)
  \/ TurnPage
  \/ EndReading
  \/ Poll
  \/ Restart

TrackingSpec == TrackingInit /\ [][TrackingNext]_trackingVars

-----------------------------------------------------------------------------
(***************************************************************************)
(* Properties.                                                             *)
(***************************************************************************)

\* A client that turns all pages of the watchlist sees each item that is there all
\* the time exactly once, though others add and remove items in the meantime and
\* concurrent additions share a place; so it does in the research pool if the
\* membership stays and no two items share a place.
PagesAreComplete ==
  reader.stage = "done" =>
    reader.stayed \subseteq reader.seen \ reader.twice

\* While the scope stays as it is and the worker lives, each stock is asked for once in
\* as many batches as it takes to go round, wherever the cursor stood when the scope
\* changed.
AskedEachRound ==
  \A s \in Tracked : waited[s] * Batch < Cardinality(Tracked)

=============================================================================
