------------------------------ MODULE MCLedger ------------------------------
(***************************************************************************)
(* Instances of Ledger for TLC: a Friday, the Monday after, and the Friday *)
(* and Monday of that week, whose other days are holidays; the same two    *)
(* weeks without holidays.                                                 *)
(***************************************************************************)
EXTENDS Ledger

HolidayDates == <<1, 4, 8, 11>>
OrdinaryDates == <<1, 4, 5, 6, 7, 8, 11>>
TwoSessions == [h \in Horizons |-> IF h = "next_5d" THEN 2 ELSE 0]
FiveSessions == [h \in Horizons |-> IF h = "next_5d" THEN 5 ELSE 0]

=============================================================================
