----------------------------- MODULE MCTraining -----------------------------
(***************************************************************************)
(* Histories for Training: a stock with suspensions, an index with a       *)
(* missing bar, changing membership, documents of several days.            *)
(***************************************************************************)
EXTENDS Training

CONSTANTS
  Lengths,     \* the lengths of the history, in sessions
  Holes,       \* the sets of sessions that the database lacks altogether
  Suspended,   \* the sets of sessions without a bar of the stock
  Gaps,        \* the sets of sessions without a bar of the index
  NoMinutes,   \* the sets of sessions without minute bars
  NoFirst,     \* the sessions without the first minute bars
  Quoted,      \* the sessions with a quote of the morning
  Documents,   \* the sets of moments at which documents were published
  Memberships  \* the sets of membership intervals

World(n, hole, horizon, suspended, gap, minutes, documents, periods, leakFree) ==
  [horizon |-> horizon, sessions |-> (1..n) \ hole, bars |-> (1..n) \ (hole \cup suspended),
   bench |-> (1..n) \ (hole \cup gap), minute |-> (1..n) \ (hole \cup minutes),
   late |-> NoFirst, quoted |-> Quoted,
   documents |-> documents, periods |-> periods, leakFree |-> leakFree]

MCWorlds ==
  {World(n, hole, h, s, g, m, d, p, leakFree) :
     n \in Lengths, hole \in Holes, h \in Horizons, s \in Suspended, g \in Gaps,
     m \in NoMinutes, d \in Documents, p \in Memberships, leakFree \in BOOLEAN}

MCHoles == {{}, {12}}

MCLengths == {9, 17, 22}

MCSuspended == {{}, {5}, {6, 7}, {10}, {11, 12, 13}}

MCGaps == {{}, {4, 9}}

MCNoMinutes == {{8, 9}}

MCNoFirst == {6, 14}

MCQuoted == {8, 15}

MCDocuments == {{}, {7, 13, 14, 27, 28, 29, 41, 59}}

MCMemberships == {{<<1, 22>>}, {<<3, 9>>, <<13, 22>>}, {<<1, 6>>, <<6, 21>>}}

=============================================================================
