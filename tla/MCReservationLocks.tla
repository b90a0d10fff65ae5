------------------------- MODULE MCReservationLocks -------------------------
(***************************************************************************)
(* Small instances of ReservationLocks: two days, two tables, guests that  *)
(* share a session or an address.                                          *)
(***************************************************************************)
EXTENDS ReservationLocks

CONSTANTS p1, p2, p3

Sessions == {p1, p2, p3}
TwoDays == {1, 2}
TwoTables == {1, 2}
TwoRows == {1, 2}
\* Keys are hashes: that of the address lies between those of the sessions.
Keys == {[session |-> 1, ip |-> 2], [session |-> 3, ip |-> 2]}

World(calls, txs, rows, sets, pay) ==
    [calls |-> calls, txs |-> txs, rows |-> rows, sets |-> sets, pay |-> pay]

\* Holds of two sessions behind one address.
WA == {World({"Hold", "Expire"}, {p1, p2}, {}, {{}}, {"none"})}
\* A reservation with a payment that is moved, cancelled and settled.
WB == {World({"Edit", "Cancel", "Settle"}, {p1, p2}, {1}, {{}}, {"pending"})}
\* Tables that are assigned, exchanged and published.
WC == {World({"Edit", "Optimise", "Publish"}, {p1, p2}, {1}, {{1}, {1, 2}}, {"none"})}
\* Guests who are erased while messages are planned.
WD == {World({"Contact", "Erase", "Plan", "Reconfigure"}, {p1, p2}, {1, 2}, {{}}, {"none"})}
WE == {World({"Edit", "Cancel", "Retain", "Plan"}, {p1, p2}, {1}, {{}}, {"none"})}
SmallWorlds == WA \cup WB \cup WC \cup WD \cup WE
=============================================================================
