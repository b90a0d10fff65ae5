--------------------------- MODULE MCDaySettlement ---------------------------
(***************************************************************************)
(* Small instances of StaffRota and DaySettlement: the exchange of shifts, *)
(* the planner and the chef, the automatic assignment, and the reports of  *)
(* a day.                                                                  *)
(***************************************************************************)
EXTENDS DaySettlement

Staff == {1, 2, 3}
Cook == {3}
Jobs == {"hall", "kitchen", "event"}
HallJobs == {"hall"}
WeekendJobs == {"event"}
AllSkills == [w \in Staff |-> IF w \in Cook THEN Jobs ELSE {"hall", "event"}]
SomeDays == {1, 2, 6, 8}
TwoHours == {8, 22}

World(ops, shifts, parallel) ==
    [ops |-> ops, parallel |-> parallel, days |-> {1}, shifts |-> shifts, needs |-> <<>>, events |-> {}, calendar |-> {}, barred |-> {}, inactive |-> {},
     ranges |-> {}, forms |-> {}, pool |-> FALSE, rooms |-> [w \in Staff |-> "none"]]

Evening(w) == Shift(1, "hall", w, 22)
Morning(w) == Shift(1, "hall", w, 8)

\* Shifts of a day pass between three workers, while the planner removes them.
Exchange == {World({"exchange"}, <<Evening(1)>>, 2),
             World({"exchange", "remove"}, <<Evening(1), Morning(2)>>, 2)}
\* Who plans and who cooks.
Planning == {World({"change", "remove"}, <<Evening(1)>>, 2),
             World({"add", "change", "remove", "clear"}, <<Evening(1)>>, 1),
             World({"close", "chef", "dismiss", "publish"}, <<Evening(1), Shift(1, "kitchen", 3, 8)>>, 1)}
\* A day that needs three on the hall, in two rows of one key, and one for an event.
Automatic == {[World(ops, <<Morning(1)>>, 1) EXCEPT
                 !.needs = <<Need(1, "hall", 8, 1, FALSE), Need(1, "hall", 8, 2, FALSE), Need(6, "event", 8, 1, TRUE)>>,
                 !.events = {[day |-> 6, hour |-> 8, guests |-> 3]}, !.ranges = {{1, 2}, {6}},
                 !.barred = {<<3, 6>>}] : ops \in {{"auto", "leave", "publish"}, {"auto", "wants", "remove"}}}
Requirements == {[World({"needs", "auto", "import"}, <<>>, 1) EXCEPT
                    !.forms = {Need(6, "hall", 8, c, FALSE) : c \in 1..2} \cup {Need(6, "event", 8, 1, FALSE)},
                    !.calendar = {[day |-> 6, hour |-> 8, guests |-> 3]}, !.ranges = {SomeDays}],
                 [World({"copy", "auto"}, <<>>, 1) EXCEPT !.days = {1, 6}, !.ranges = {SomeDays},
                    !.needs = <<Need(1, "hall", 22, 1, FALSE), Need(6, "event", 8, 2, TRUE)>>,
                    !.events = {[day |-> 6, hour |-> 8, guests |-> 3]}]}
\* A day's waiters report, the POS sends bills, the administrator looks and saves.
Reporting == {[World({"report", "ingest"}, <<[Evening(1) EXCEPT !.closes = TRUE], Evening(2)>>, 2) EXCEPT
                 !.rooms = [w \in Staff |-> IF w = 1 THEN "ground" ELSE "upper"]],
              World({"view", "report", "settle"}, <<Evening(1), Evening(2)>>, 2),
              [World({"report", "ingest", "settle"}, <<Evening(1)>>, 2) EXCEPT !.pool = TRUE]}
\* The POS sends bills of a waiter who was not planned that day; he is added to a settlement that exists.
Joining == {World({"report", "ingest"}, <<Evening(1), Shift(2, "hall", 2, 22)>>, 2)}
SmallWorlds == Exchange \cup Planning \cup Automatic \cup Requirements \cup Reporting \cup Joining
=============================================================================
