------------------------- MODULE MCReservationLedger -------------------------
(***************************************************************************)
(* Small instances of ReservationLedger.  Tables and slots are the least   *)
(* with which a combination overlaps a single table and a long window, or  *)
(* the buffer of the first visit, overlaps the second.                     *)
(***************************************************************************)
EXTENDS ReservationLedger, FiniteSets, TLC

CONSTANTS t1, t2, A, B

Visits   == {t1, t2}
OneVisit == {t1}

TwoTables == {A, B}

\* The allocator proposes the table A or the combination of both; the operator
\* types in the table B or none.  Each overlaps another, none equals another.
AOrBoth   == {{A}, {A, B}}
NoTableOrB == {{}, {B}}

TwoSlots     == {1, 2}
ShortAndLong == {{1}, {2}, {1, 2}}

\* Visits of one slot: only a buffer makes two of them overlap.
ShortVisits == {{1}, {2}}

\* A day of one slot, for the instance with two days.
OneSlot == {{1}}

VisitSymmetry == Permutations(Termins)
=============================================================================
