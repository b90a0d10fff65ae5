----------------------------- MODULE MCFloorPlan -----------------------------
(***************************************************************************)
(* Small instances of FloorPlan: one or two tables, one service, a day of  *)
(* six units of time.                                                      *)
(***************************************************************************)
EXTENDS FloorPlan

CONSTANTS e1, e2

Day == 6
Clients == {e1, e2}
Sym == Permutations(Clients)

Nothing == <<>>
Lunch == [id |-> 1, name |-> "lunch", from |-> 1, to |-> 4, own |-> [step |-> 1]]
Table(room, zone, min, cap) ==
    [room |-> room, zone |-> zone, cap |-> cap, min |-> min, active |-> TRUE, prio |-> 0, section |-> "", features |-> {}]
Place(min, cap, active) == [cap |-> cap, min |-> min, active |-> active]
Pair(channel, most) == [id |-> 10, tables |-> {1, 2}, min |-> 3, max |-> most, prio |-> 0, active |-> TRUE, channel |-> channel]
OldPair(most) == [Pair(Anywhere, most) EXCEPT !.id = 1]
Plan(pos, combos, edges) == [pos |-> pos, combos |-> combos, edges |-> edges]
Rule(service, room, channel, own) == [id |-> 1, service |-> service, room |-> room, channel |-> channel, own |-> own]
Open(own) == [ahead |-> 1, clock |-> 0, skipped |-> {}, hours |-> {[Lunch EXCEPT !.own = own @@ @]}, exceptions |-> {},
              config |-> Nothing, rules |-> {}, guests |-> {}]

\* One room with a published plan of two tables that go together.
Hall(limits) ==
    [rooms |-> <<NewRoom("hall")>>, tables |-> <<Table(1, "hall", 1, 2), Table(1, "hall", 1, 2)>>,
     versions |-> <<[room |-> 1, status |-> "published", rev |-> 0, pos |-> <<Place(1, 2, TRUE), Place(1, 2, TRUE)>>,
                     combos |-> {Pair(Anywhere, 4)}, edges |-> {<<1, 2>>}]>>,
     combos |-> {}, edges |-> {}, book |-> Open(limits), nextVersion |-> 2, nextTable |-> 3]
\* The same tables before there were rooms.
OldHall ==
    [Hall(Nothing) EXCEPT !.rooms = Nothing, !.versions = Nothing, !.combos = {OldPair(4)}, !.edges = {<<1, 2>>},
                          !.tables = <<Table(0, "hall", 1, 2), Table(0, "hall", 1, 2)>>]

World(ops, h) ==
    [ops |-> ops, hall |-> h, channels |-> {"online"}, people |-> {3}, times |-> {2}, plans |-> {}, sizes |-> {},
     names |-> {}, combos |-> {}, configs |-> {}, roomSettings |-> {}, exceptions |-> {}, services |-> {}, rules |-> {}]


\* Plans are drawn and published by two clients while offers are made, accepted and withdrawn.
Closed == Plan(<<Place(1, 2, FALSE), Place(1, 2, TRUE)>>, {}, {})
Inside == Plan(<<Place(1, 2, TRUE), Place(1, 3, TRUE)>>, {Pair("wewnetrzna", 4)}, {<<1, 2>>})
PlanOps == {"draft", "save", "publish", "offer", "leave"}
PlansA == {[World(PlanOps \cup {"accept"}, Hall(Nothing)) EXCEPT !.plans = {Closed, Inside}, !.people = {2, 3}]}
PlansB == {[World({"draft", "addTable", "publish", "discard", "offer"}, Hall(Nothing)) EXCEPT
              !.sizes = {[cap |-> 3, min |-> 1, zone |-> "hall"]}]}
PlansC == {[World({"draft", "save", "publish", "hold", "assign", "edit"}, Hall(Nothing)) EXCEPT
              !.plans = {Inside}, !.people = {2, 3}]}
Plans == PlansA \cup PlansB \cup PlansC

\* The older configuration.
Bar == [cap |-> 3, min |-> 2, zone |-> "bar"]
OlderA == {[World({"tables", "offer", "accept"}, OldHall) EXCEPT !.sizes = {Bar}]}
OlderB == {[World({"combos", "edges", "offer", "accept", "leave"}, OldHall) EXCEPT
              !.combos = {OldPair(3), [OldPair(0) EXCEPT !.channel = "wewnetrzna", !.id = 2]}]}
OlderC == {[World({"tables", "hold"}, OldHall) EXCEPT !.sizes = {Bar}]}
OlderWorlds == OlderA \cup OlderB \cup OlderC

\* Rules.
Limited == [visits |-> 1]
Guarded == [visits |-> 2, pacingVisits |-> 1, pacingWindow |-> 2, pacingCovers |-> 3, largeFrom |-> 3, largeMode |-> "approval"]
RulesA == {[World({"rules", "create", "offer", "accept", "sit", "leave"}, Hall(Limited)) EXCEPT
              !.people = {2}, !.times = {1, 3}, !.rules = {Rule(0, 0, Anywhere, [covers |-> 3]), Rule(1, 0, Anywhere, Guarded)}]}
Careful == [advance |-> 5, cutoff |-> 7, partyMin |-> 2, partyMax |-> 3, buffer |-> 1]
RulesE == {[World({"policy", "create", "offer", "accept", "leave"}, Hall([covers |-> 4])) EXCEPT
              !.people = {1, 2}, !.times = {1, 3}, !.configs = {Nothing, Careful}]}
Special(own) == [kind |-> "special", id |-> 1, name |-> "", from |-> 2, to |-> 4, own |-> own]
Struck == [kind |-> "blackout", id |-> 0, name |-> "", from |-> 0, to |-> 0, own |-> Nothing]
RulesB == {[World({"hours", "byHand", "offer", "accept", "override"}, Hall(Nothing)) EXCEPT
              !.people = {2}, !.exceptions = {Special([turn |-> 3]), Struck}, !.services = {[Lunch EXCEPT !.own = [step |-> 1, covers |-> 2]]}]}
RulesC == {[World({"rules", "availability", "byHand", "offer"}, Hall(Nothing)) EXCEPT
              !.people = {2}, !.channels = {"wewnetrzna"},
              !.rules = {Rule(1, 0, Anywhere, [covers |-> 3]), Rule(0, 1, "wewnetrzna", [visits |-> 1])},
              !.roomSettings = {Nothing, [buffer |-> 1, visits |-> 2]}]}
RulesD == {[World({"create", "assign", "edit", "byHand", "override", "sit"}, Hall([covers |-> 4])) EXCEPT
              !.people = {1, 3}, !.times = {1, 2}]}
Rules == RulesE \cup RulesA \cup RulesB \cup RulesC \cup RulesD

\* Rooms come and go.
RoomsA == {[World({"rooms", "create", "draft"}, OldHall) EXCEPT !.names = {"hall", "bar"}]}
RoomsB == {[World({"rooms", "offer", "accept"}, Hall(Nothing)) EXCEPT !.names = {"bar"}, !.people = {2}]}
\* A room takes the name of the older tables' zone while they are offered.
RoomsC == {[World({"rooms", "offer", "accept", "draft", "publish"}, OldHall) EXCEPT !.names = {"hall", "bar"}, !.people = {2, 3}]}

SmallWorlds == Plans \cup OlderWorlds \cup Rules \cup RoomsA \cup RoomsB \cup RoomsC
=============================================================================
