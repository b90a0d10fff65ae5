------------------------------- MODULE Seating -------------------------------
(***************************************************************************)
(* The choice of tables for a party: candidates and their cost             *)
(* (seating.py), and the order in which the allocation takes them          *)
(* (reservation_allocator.py).                                             *)
(*                                                                         *)
(* Pure operators over a hall: tables, a function from numbers to          *)
(* [room, zone, cap, min, prio, section, features]; combos, a set of       *)
(* [id, tables, min, max, prio]; edges, a set of pairs of tables; and      *)
(* rooms, a function to [strict, prio, order].                             *)
(* Costs are counted in 120ths.                                            *)
(***************************************************************************)
EXTENDS Integers, Sequences, FiniteSets, FiniteSetsExt, SequencesExt

MaxTogether == 4        \* MAX_STOLOW_KOMBINACJI
HoldbackFrom == 4       \* HOLDBACK_PROG
NoPlace == 0

SeatsOf(tables, ids) == MapThenSumSet(LAMBDA i : tables[i].cap, ids)
Neighbours(hall, ids) ==
    {j \in DOMAIN hall.tables : \E i \in ids : <<i, j>> \in hall.edges \/ <<j, i>> \in hall.edges} \ ids

\* Sets of tables the search reaches: it stops growing one as soon as it seats the party.
Grown(hall, people) ==
    LET level[n \in 1..MaxTogether] ==
            IF n = 1 THEN {{i} : i \in DOMAIN hall.tables}
            ELSE UNION {{ids \cup {j} : j \in Neighbours(hall, ids)}
                        : ids \in {s \in level[n - 1] : SeatsOf(hall.tables, s) < people}}
    IN  UNION {level[n] : n \in 1..MaxTogether}
FromGraph(hall, people) ==
    {s \in Grown(hall, people) : Cardinality(s) >= 2 /\ SeatsOf(hall.tables, s) >= people}

Chair(ids, seats, combo, prio) == [tables |-> ids, seats |-> seats, combo |-> combo, prio |-> prio]
Whole(hall, c) == Cardinality(c.tables) >= 2 /\ c.tables \subseteq DOMAIN hall.tables
MostOf(hall, c) == IF c.max > 0 THEN c.max ELSE SeatsOf(hall.tables, c.tables)

\* kandydaci: what an administrator defined goes before the graph, outside its range too.
Candidates(hall, people) ==
    LET single == {i \in DOMAIN hall.tables : hall.tables[i].min <= people /\ people <= hall.tables[i].cap}
        defined == {c \in hall.combos : Whole(hall, c) /\ c.min <= people /\ people <= MostOf(hall, c)}
        hidden == {c.tables : c \in hall.combos}
    IN  {Chair({i}, hall.tables[i].cap, 0, 0) : i \in single}
        \cup {Chair(c.tables, MostOf(hall, c), c.id, c.prio) : c \in defined}
        \cup {Chair(s, SeatsOf(hall.tables, s), 0, 0) : s \in FromGraph(hall, people) \ hidden}

RoomsOf(hall, ids) == {hall.tables[i].room : i \in ids}
RoomOf(hall, ids) == IF Cardinality(RoomsOf(hall, ids)) = 1 THEN CHOOSE r \in RoomsOf(hall, ids) : TRUE ELSE NoPlace
Strict(hall, ids) == RoomOf(hall, ids) # NoPlace /\ hall.rooms[RoomOf(hall, ids)].strict

\* koszt, for a party with wishes [zone, features] while every section carries load.
Cost(hall, k, people, wishes, load) ==
    LET waste == Max({0, k.seats - people})
        n == Cardinality(k.tables)
        room == RoomOf(hall, k.tables)
        sections == {hall.tables[i].section : i \in k.tables} \cap DOMAIN load
        features == UNION {hall.tables[i].features : i \in k.tables}
    IN  120 * waste + 240 * (n - 1)
        + (36 * MapThenSumSet(LAMBDA i : hall.tables[i].prio, k.tables)) \div n + 36 * k.prio
        + (IF room = NoPlace \/ Strict(hall, k.tables) THEN 0 ELSE 60 * hall.rooms[room].prio)
        + (IF waste >= HoldbackFrom THEN 72 * waste * waste ELSE 0)
        + 60 * Max({0} \cup {load[s] : s \in sections})
        + (IF wishes.zone # "" /\ \E i \in k.tables : hall.tables[i].zone # wishes.zone THEN 48 ELSE 0)
        - 180 * Cardinality(wishes.features \cap features)

-----------------------------------------------------------------------------
(* Order.                                                                  *)

\* Tuples of numbers by their first difference.
Before(a, b) ==
    \E n \in 1..Len(a) : a[n] < b[n] /\ \A m \in 1..(n - 1) : a[m] = b[m]
Numbers(ids) == [n \in 1..Cardinality(ids) |-> CHOOSE i \in ids : Cardinality({j \in ids : j < i}) = n - 1]
\* Zeroes come last: among sets as large as each other they decide nothing.
Padded(ids) == [n \in 1..MaxTogether |-> IF n <= Cardinality(ids) THEN Numbers(ids)[n] ELSE 0]

Rank(hall, k, people, wishes, load) ==
    <<Cost(hall, k, people, wishes, load), Cardinality(k.tables)>> \o Padded(k.tables)

\* dopasuj without a limit: every set of tables once, at its lowest cost.
Cheapest(hall, open, people, wishes, load) ==
    {k \in open : \A j \in open :
        ~(j.tables = k.tables /\ Before(Rank(hall, j, people, wishes, load), Rank(hall, k, people, wishes, load)))}

Fill(hall, k) ==
    LET room == hall.rooms[RoomOf(hall, k.tables)] IN <<room.prio, room.order, RoomOf(hall, k.tables)>>

\* With room fill: only the first of the rooms that are to be filled in order, if one can take the party.
FirstRoom(hall, found) ==
    LET strict == {k \in found : Strict(hall, k.tables)}
    IN  IF strict = {} THEN found
        ELSE {k \in strict : \A j \in strict : ~Before(Fill(hall, j), Fill(hall, k))}
Best(hall, found, people, wishes, load) ==
    CHOOSE k \in found : \A j \in found : ~Before(Rank(hall, j, people, wishes, load), Rank(hall, k, people, wishes, load))

\* _candidate_is_within_one_room; tables of no room are together when their zone is.
InOneRoom(hall, ids) ==
    IF RoomsOf(hall, ids) = {NoPlace} THEN Cardinality({hall.tables[i].zone : i \in ids}) = 1
    ELSE Cardinality(RoomsOf(hall, ids)) = 1

\* What is free for the party, in one room.
Free(hall, people, occupied, wishes, load) ==
    Cheapest(hall, {k \in Candidates(hall, people) : k.tables \cap occupied = {} /\ InOneRoom(hall, k.tables)},
             people, wishes, load)

\* _ordered, its first element: strict rooms go before every wish for a room.
First(hall, found, room, people, wishes, load) ==
    LET strict == {k \in found : Strict(hall, k.tables)}
        there == {k \in found : room # NoPlace /\ RoomOf(hall, k.tables) = room}
        pool == IF strict # {} THEN FirstRoom(hall, found) ELSE IF there # {} THEN there ELSE found
    IN  Best(hall, pool, people, wishes, load)

\* evaluate_allocation: verdict[room] is the evaluation for a room, verdict[NoPlace] that of the house.
Seated(ids, combo, evaluation) == [tables |-> ids, combo |-> combo, evaluation |-> evaluation]
NotSeated(evaluation, why) ==
    Seated({}, 0, [evaluation EXCEPT !.decision = "deny", !.rules = @ \cup why])

Softest(hall, free, verdict) ==
    LET Of(k) == CASE verdict[RoomOf(hall, k.tables)].decision = "allow" -> 1
                   [] verdict[RoomOf(hall, k.tables)].decision = "override" -> 2
                   [] OTHER -> 3
    IN  {k \in free : \A j \in free : Of(k) <= Of(j)}
Chosen(hall, k, verdict) ==
    IF verdict[RoomOf(hall, k.tables)].decision = "deny" THEN NotSeated(verdict[RoomOf(hall, k.tables)], {})
    ELSE Seated(k.tables, k.combo, verdict[RoomOf(hall, k.tables)])
Allocation(hall, people, free, wishes, load, room, verdict) ==
    CASE verdict[NoPlace].decision = "deny" -> NotSeated(verdict[NoPlace], {})
      [] verdict[NoPlace].decision # "deny" /\ free = {} -> NotSeated(verdict[NoPlace], {"table"})
      [] OTHER -> Chosen(hall, First(hall, Softest(hall, free, verdict), room, people, wishes, load), verdict)
=============================================================================
