--------------------------- MODULE MCGuestRequests ---------------------------
(***************************************************************************)
(* Small instances of GuestRequests: a guest who books or joins the        *)
(* waiting list, and one who manages a visit.                              *)
(***************************************************************************)
EXTENDS GuestRequests

TwoTables == {1, 2}

World(calls, others, booked, keys, copies) ==
    [calls |-> calls, others |-> others, booked |-> booked, keys |-> keys, late |-> copies]

\* A guest who holds a table and submits the form, twice if need be.
Booking == {World({"hold", "submit"}, {"Lapse"}, FALSE, 3, 2)}
Waiting == {World({"queue"}, {}, FALSE, 2, 1)}
\* A guest who manages the visit while others do.
Paying == {World({"cancel", "pay"}, {"PaymentFails", "Cancel"}, TRUE, 4, 1)}
Editing == {World({"edit", "confirm"}, {"Edit"}, TRUE, 4, 1)}
Journey == {World({"hold", "submit", "cancel"}, {"Lapse"}, FALSE, 3, 1)}
Erasing == {World({"erase", "confirm"}, {"Erase"}, TRUE, 4, 1)}
SmallWorlds == Booking \cup Waiting \cup Paying \cup Editing \cup Erasing \cup Journey
=============================================================================
