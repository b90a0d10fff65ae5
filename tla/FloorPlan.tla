------------------------------ MODULE FloorPlan ------------------------------
(***************************************************************************)
(* The hall of one day: rooms, their tables and the published, draft and   *)
(* retired versions of their plans; the older configuration of tables      *)
(* outside versioned rooms; the booking rules; and the visits, offers of   *)
(* the waiting list and guests' holds that rely on all of it.              *)
(*                                                                         *)
(* Those who write to the day hold its lock, one at a time (the writer).   *)
(* The editor of a plan does not: it meets them only at the rows of the    *)
(* tables.  What was chosen before those rows are locked may be out of     *)
(* date when they are.                                                     *)
(***************************************************************************)
EXTENDS BookingRules, Seating

CONSTANTS
    Editors,        \* clients that edit plans
    MaxParties, MaxVersions, MaxRevision, MaxTables, MaxRooms,     \* bounds
    Worlds          \* what to look at: the operations, their inputs, and the hall at the start

VARIABLES
    world,      \* one of Worlds, for the whole run
    hall,       \* rooms, tables, versions, combinations, edges, and the booking rules
    parties,    \* visits, offers and holds
    order,      \* history: the parties in the order in which they were last accepted
    editor,     \* what every client knows of the draft, and what it is publishing
    writer      \* what the holder of the day lock has chosen

vars == <<world, hall, parties, order, editor, writer>>

Idle == [step |-> "idle"]
May(op) == op \in world.ops
With(f, key, value) == [x \in DOMAIN f \cup {key} |-> IF x = key THEN value ELSE f[x]]
Without(f, keys) == [x \in DOMAIN f \ keys |-> f[x]]
Next1(f) == Cardinality(DOMAIN f) + 1

-----------------------------------------------------------------------------
(* Rooms and versions.                                                     *)

Rooms == DOMAIN hall.rooms
Versions == DOMAIN hall.versions
Of(r, status) == {v \in Versions : hall.versions[v].room = r /\ hall.versions[v].status = status}
Published(r) == Of(r, "published")
Draft(r) == Of(r, "draft")
The(S) == CHOOSE x \in S : TRUE

\* A table of no room belongs to the room that is named like its zone.
Named(zone) == {r \in Rooms : hall.rooms[r].name = zone}
Home(t) == IF t.room # NoRoom THEN {t.room} ELSE Named(t.zone)
TablesOf(r) == {i \in DOMAIN hall.tables : r \in Home(hall.tables[i])}
\* A room has a plan from the day it is created.
Versioned == {i \in DOMAIN hall.tables : Home(hall.tables[i]) # {}}

-----------------------------------------------------------------------------
(* What the seating sees: published tables of active rooms, and the older  *)
(* tables of no room; combinations of the published plans and older ones.  *)

Shown(r) == IF Published(r) = {} THEN <<>> ELSE hall.versions[The(Published(r))].pos
Snapshot(i, r, pos) ==
    [hall.tables[i] EXCEPT !.room = r, !.zone = hall.rooms[r].name, !.cap = pos.cap, !.min = pos.min, !.active = pos.active]
Placed == {i \in DOMAIN hall.tables : \E r \in Rooms : i \in DOMAIN Shown(r)}
RoomWith(i) == CHOOSE r \in Rooms : i \in DOMAIN Shown(r)

\* _stoliki_do_odczytu, and _stoly_do_seating: those that take new guests.
ReadTables == [i \in Placed \cup (DOMAIN hall.tables \ Versioned) |->
                 IF i \in Placed THEN Snapshot(i, RoomWith(i), Shown(RoomWith(i))[i]) ELSE hall.tables[i]]
SeatingTables ==
    LET runs == {i \in DOMAIN ReadTables : ReadTables[i].active /\ (i \in Placed => hall.rooms[RoomWith(i)].active)}
    IN  [i \in runs |-> ReadTables[i]]

ShownCombos == UNION {hall.versions[v].combos : v \in {w \in Versions : hall.versions[w].status = "published"}}
SeatingCombos(channel) ==
    {c \in ShownCombos : c.active /\ c.channel \in {Anywhere, channel} /\ c.tables \subseteq DOMAIN SeatingTables}
    \cup {c \in hall.combos : c.active /\ c.tables \cap Versioned = {}}
SeatingEdges == {e \in hall.edges : {e[1], e[2]} \cap Versioned = {}}

Seats(channel) == [tables |-> SeatingTables, combos |-> SeatingCombos(channel), edges |-> SeatingEdges, rooms |-> hall.rooms]

-----------------------------------------------------------------------------
(* Parties.                                                                *)

IsVisit(p) == p.kind = "visit"
IsOffer(p) == p.kind = "offer"
Having(Is(_)) == {n \in DOMAIN parties : Is(parties[n])}

\* _sala_dla_stolikow
RoomFor(tables) == LET homes == UNION {Home(hall.tables[i]) : i \in tables} IN IF homes = {} THEN NoRoom ELSE The(homes)

\* Offers count like visits, guests' holds do not.
BookOf(those) ==
    [hall.book EXCEPT !.guests =
        {[owner |-> n, from |-> parties[n].from, to |-> parties[n].to, room |-> parties[n].room,
          channel |-> parties[n].channel, people |-> parties[n].people, live |-> parties[n].live]
         : n \in those}]
    @@ [rooms |-> hall.rooms]
\* Mutant: an offer counts against no limit until it is accepted.
BookOfVisits == BookOf(Having(IsVisit))
Book == BookOf(Having(IsVisit) \cup Having(IsOffer))

Ask(channel, people, from, intent) ==
    [from |-> from, to |-> NoTime, people |-> people, channel |-> channel, room |-> NoRoom, self |-> NoOwner,
     intent |-> intent, keepRoom |-> FALSE, keepInterval |-> FALSE]
Verdict(q, room) == Evaluate(Book, [q EXCEPT !.room = room])
Verdicts(q) == [room \in Rooms \cup {NoRoom} |-> Verdict(q, room)]

\* occupied_table_ids: guests who sit block their tables for the day.
Blocks(p, from, until) == p.live \/ (p.from < until /\ from < p.blocked)
TakenFrom(from, until, self) ==
    UNION {parties[n].tables : n \in {m \in DOMAIN parties : m # self /\ Blocks(parties[m], from, until)}}
BusyFor(q, tables, verdict) ==
    {i \in DOMAIN tables :
        LET ev == verdict[tables[i].room]
        IN  ev.to < Midnight /\ i \in TakenFrom(q.from, Min({Midnight, ev.to + ev.buffer}), q.self)}
Load(q, tables, verdict) ==
    LET busy == DOMAIN tables \cap TakenFrom(q.from, verdict[NoRoom].to, q.self)
    IN  [s \in {tables[i].section : i \in busy} |-> Cardinality({i \in busy : tables[i].section = s})]
NoWishes == [zone |-> "", features |-> {}]

\* _ocen_przydzial_rezerwacji: what it chooses, and every set of tables it would accept by name.
FreeFor(q, seats, verdict, load) ==
    Free(seats, q.people, BusyFor(q, seats.tables, verdict), NoWishes, load)
QuoteFrom(q, seats, verdict, load) ==
    Allocation(seats, q.people, FreeFor(q, seats, verdict, load), NoWishes, load, NoPlace, verdict)
QuoteBy(q, seats, verdict) == QuoteFrom(q, seats, verdict, Load(q, seats.tables, verdict))
Quote(q) == QuoteBy(q, Seats(q.channel), Verdicts(q))
OfferedBy(q, seats, verdict) ==
    {k.tables : k \in {c \in FreeFor(q, seats, verdict, Load(q, seats.tables, verdict)) :
        verdict[NoRoom].decision # "deny" /\ verdict[RoomOf(seats, c.tables)].decision # "deny"}}
Offered(q) == OfferedBy(q, Seats(q.channel), Verdicts(q))

\* What the party may rely on: the limits it was counted against.
Relied(ev) ==
    {l \in ev.limits : l.most > 0 /\ [visits |-> "concurrent_reservations", covers |-> "concurrent_covers"][l.key] \notin ev.rules}
Party(kind, q, tables, ev, frozen) ==
    [kind |-> kind, tables |-> tables, people |-> q.people, from |-> q.from, to |-> ev.to,
     blocked |-> Min({Midnight, ev.to + ev.buffer}), channel |-> q.channel, room |-> RoomFor(tables),
     live |-> FALSE, frozen |-> frozen, relied |-> Relied(ev), overridden |-> {}]

NotFrozen == [min |-> 0, max |-> 0]
Frozen(tables) ==
    LET found == {c \in ShownCombos : c.active /\ c.tables = tables}
    IN  IF found = {} THEN NotFrozen ELSE [min |-> The(found).min, max |-> The(found).max]

RoomForOne == Cardinality(DOMAIN parties) < MaxParties
NewParty(p) ==
    /\ RoomForOne
    /\ LET n == Min(1..MaxParties \ DOMAIN parties)
       IN  parties' = With(parties, n, p) /\ order' = Append(order, n)
Again(n, p) == parties' = With(parties, n, p) /\ order' = Append(Remove(order, n), n)

\* The ledger refuses a claim that another party holds.
FreeTables(tables, from, ev, self) ==
    tables \cap TakenFrom(from, Min({Midnight, ev.to + ev.buffer}), self) = {}
DayLock == writer = Idle

-----------------------------------------------------------------------------
(* Automatic allocation of a new visit or of one without a table: chosen   *)
(* under the day lock, but before the rows of the tables are locked; then  *)
(* only asked to be active.                                                *)

Keep(op, self, q, override, a) ==
    /\ a.tables # {} /\ Accepted(a.evaluation, override, TRUE)
    /\ writer' = [step |-> op, self |-> self, q |-> q, tables |-> a.tables, ev |-> a.evaluation, frozen |-> Frozen(a.tables)]
Choose(op, self, q, override) ==
    /\ DayLock /\ May(op) /\ (self = NoOwner => RoomForOne)
    /\ Keep(op, self, q, override, Quote(q))
    /\ UNCHANGED <<world, hall, parties, order, editor>>

ChooseForNew ==
    \E channel \in world.channels, people \in world.people, t \in world.times, override \in {FALSE, May("override")} :
        Choose("create", NoOwner, Ask(channel, people, t, "create"), override)
ChooseForVisit ==
    \E n \in Having(IsVisit), override \in {FALSE, May("override")} :
        LET v == parties[n]
        IN  Choose("assign", n, [Ask(v.channel, v.people, v.from, "assign") EXCEPT !.to = v.to, !.self = n], override)

CommitChosen ==
    /\ writer.step \in {"create", "assign"}
    /\ writer' = Idle
    /\ LET p == [Party("visit", writer.q, writer.tables, writer.ev, writer.frozen) EXCEPT
                    !.live = writer.self # NoOwner /\ parties[writer.self].live]
       IN  \/ /\ writer.tables \subseteq DOMAIN SeatingTables
              /\ FreeTables(writer.tables, writer.q.from, writer.ev, writer.self)
              /\ \/ writer.self = NoOwner /\ NewParty(p)
                 \/ writer.self # NoOwner /\ Again(writer.self, p)
           \/ /\ ~(writer.tables \subseteq DOMAIN SeatingTables)
              /\ UNCHANGED <<parties, order>>
    /\ UNCHANGED <<world, hall, editor>>

-----------------------------------------------------------------------------
(* One table, or none, by hand: validated with its row locked.             *)

Fits(tables, people) == tables \subseteq DOMAIN SeatingTables /\ people <= SeatsOf(SeatingTables, tables)

CreateByHand ==
    /\ DayLock /\ May("byHand")
    /\ \E channel \in world.channels, people \in world.people, t \in world.times,
          tables \in {{}} \cup {{i} : i \in DOMAIN SeatingTables}, override \in {FALSE, May("override")} :
         LET q == Ask(channel, people, t, "create")
             ev == Verdict(q, RoomFor(tables))
         IN  /\ tables = {} \/ Fits(tables, people)
             /\ FreeTables(tables, t, ev, NoOwner)
             /\ Accepted(ev, override, TRUE)
             /\ NewParty(Party("visit", q, tables, ev, NotFrozen))
    /\ UNCHANGED <<world, hall, editor, writer>>

AssignByHand ==
    /\ DayLock /\ May("assign")
    /\ \E n \in Having(IsVisit), i \in DOMAIN SeatingTables :
         LET v == parties[n]
             q == [Ask(v.channel, v.people, v.from, "assign") EXCEPT !.to = v.to, !.self = n]
             ev == Verdict(q, RoomFor({i}))
         IN  /\ Fits({i}, v.people) /\ FreeTables({i}, v.from, ev, n) /\ Accepted(ev, FALSE, TRUE)
             /\ Again(n, [Party("visit", q, {i}, ev, NotFrozen) EXCEPT !.live = v.live])
    /\ UNCHANGED <<world, hall, editor, writer>>

\* An edit that names the same first table keeps the whole set, at its frozen or defined size.
KeptSize(v) ==
    LET defined == {c \in SeatingCombos(v.channel) : c.tables = v.tables}
    IN  IF Cardinality(v.tables) < 2 THEN 0 ELSE IF v.frozen # NotFrozen THEN v.frozen.max
        ELSE IF defined = {} \/ ~(v.tables \subseteq DOMAIN SeatingTables) THEN 0
        ELSE Max({MostOf(Seats(v.channel), c) : c \in defined})
KeptRange(v, people) ==
    LET defined == {c \in SeatingCombos(v.channel) : c.tables = v.tables}
    IN  \/ Cardinality(v.tables) < 2 \/ people = v.people
        \/ v.frozen # NotFrozen /\ v.frozen.min <= people /\ people <= v.frozen.max
        \/ v.frozen = NotFrozen /\ \E c \in defined : c.min <= people /\ people <= MostOf(Seats(v.channel), c)
        \/ v.frozen = NotFrozen /\ defined = {} /\ v.tables \cap Versioned # {}
        \/ /\ v.frozen = NotFrozen /\ defined = {} /\ v.tables \cap Versioned = {}
           /\ v.tables \in FromGraph(Seats(v.channel), people)

Edit ==
    /\ DayLock /\ May("edit")
    /\ \E n \in Having(IsVisit), people \in world.people, t \in world.times, override \in {FALSE, May("override")} :
         LET v == parties[n]
             q == [Ask(v.channel, people, t, "edit") EXCEPT !.self = n, !.keepRoom = v.tables # {}]
             ev == Verdict(q, RoomFor(v.tables))
             seats == IF KeptSize(v) > 0 THEN KeptSize(v) ELSE SeatsOf(ReadTables, v.tables)
         IN  /\ <<people, t>> # <<v.people, v.from>>
             /\ v.tables = {} \/ (v.tables \subseteq DOMAIN ReadTables /\ people <= seats /\ KeptRange(v, people))
             /\ FreeTables(v.tables, t, ev, n) /\ Accepted(ev, override, TRUE)
             /\ Again(n, [Party("visit", q, v.tables, ev, v.frozen) EXCEPT !.live = v.live])
    /\ UNCHANGED <<world, hall, editor, writer>>

-----------------------------------------------------------------------------
(* An offer from the waiting list: chosen, then asked for once more with   *)
(* the rows of its tables locked (_zaloz_hold_waitlisty).                  *)

ChooseForOffer ==
    /\ DayLock /\ May("offer") /\ RoomForOne
    /\ \E people \in world.people, t \in world.times, channel \in world.channels, named \in BOOLEAN :
         LET q == Ask(channel, people, t, "quote")
         IN  \E tables \in IF named THEN Offered(q) ELSE {Quote(q).tables} \ {{}} :
               writer' = [step |-> "offer", q |-> q, tables |-> tables]
    /\ UNCHANGED <<world, hall, parties, order, editor>>

\* Mutant: once the rows of its tables are locked, an offer is only asked to have them all.
ChosenOnce == writer.tables \subseteq DOMAIN hall.tables
StillOffered == writer.tables \in Offered(writer.q)
CommitOffer ==
    /\ writer.step = "offer"
    /\ writer' = Idle
    /\ LET q == [writer.q EXCEPT !.intent = "create"]
           ev == Verdict(q, RoomFor(writer.tables))
       IN  \/ /\ StillOffered
              /\ Accepted(ev, May("override"), TRUE) /\ ev.to < Midnight
              /\ NewParty([Party("offer", q, writer.tables, ev, NotFrozen) EXCEPT !.overridden = ev.grounds])
           \/ /\ ~StillOffered \/ (StillOffered /\ ev.decision # "allow")
              /\ UNCHANGED <<parties, order>>
    /\ UNCHANGED <<world, hall, editor>>

\* An offer is accepted on the terms it was made: limits do not count again; of the other rules it may
\* break what the operator set aside when it was made, the same code in the same scope from the same source.
Grandfathered == {"pacing_reservations", "pacing_covers", "concurrent_reservations", "concurrent_covers"}
AcceptedOn(o, ev) ==
    ev.decision # "deny" /\ \A g \in ev.grounds : g[1] \in Grandfathered \/ g \in o.overridden
Acceptable(n) ==
    LET o == parties[n]
    IN  /\ o.tables \in {k.tables : k \in {c \in Candidates(Seats(o.channel), o.people) : InOneRoom(Seats(o.channel), c.tables)}}
        /\ RoomOf(Seats(o.channel), o.tables) = o.room
AcceptOffer ==
    /\ DayLock /\ May("accept")
    /\ \E n \in Having(IsOffer) :
         LET o == parties[n]
             q == [Ask(o.channel, o.people, o.from, "create") EXCEPT !.to = o.to, !.keepInterval = TRUE, !.self = n]
         IN  /\ Acceptable(n) /\ AcceptedOn(o, Verdict(q, o.room))
             /\ o.tables \cap TakenFrom(o.from, o.blocked, n) = {}
             /\ parties' = With(parties, n, [o EXCEPT !.kind = "visit", !.frozen = Frozen(o.tables), !.overridden = {}])
    /\ UNCHANGED <<world, hall, order, editor, writer>>

-----------------------------------------------------------------------------
(* A hold of a guest, and the visit it becomes.  It takes no rows of       *)
(* tables, and no limit counts it.                                         *)

ChooseForHold ==
    \E people \in world.people, t \in world.times : Choose("hold", NoOwner, Ask("online", people, t, "quote"), FALSE)
CommitHold ==
    /\ writer.step = "hold"
    /\ \/ /\ writer.tables \subseteq DOMAIN hall.tables
          /\ FreeTables(writer.tables, writer.q.from, writer.ev, NoOwner)
          /\ NewParty(Party("hold", writer.q, writer.tables, writer.ev, writer.frozen))
       \/ ~(writer.tables \subseteq DOMAIN hall.tables) /\ UNCHANGED <<parties, order>>
    /\ writer' = Idle
    /\ UNCHANGED <<world, hall, editor>>

ConfirmHold ==
    /\ DayLock /\ May("hold")
    /\ \E n \in DOMAIN parties :
         LET p == parties[n]
             q == [Ask("online", p.people, p.from, "create") EXCEPT !.to = p.to]
             ev == Verdict(q, RoomFor(p.tables))
         IN  /\ p.kind = "hold" /\ p.tables \subseteq DOMAIN SeatingTables /\ Accepted(ev, FALSE, FALSE)
             /\ FreeTables(p.tables, p.from, ev, n)
             /\ Again(n, Party("visit", q, p.tables, ev, p.frozen))
    /\ UNCHANGED <<world, hall, editor, writer>>

\* A visit is cancelled, an offer withdrawn, a hold or an offer expires, guests sit down and leave.
Leave ==
    /\ DayLock /\ May("leave")
    /\ \E n \in DOMAIN parties : parties' = Without(parties, {n}) /\ order' = Remove(order, n)
    /\ UNCHANGED <<world, hall, editor, writer>>
Sit ==
    /\ DayLock /\ May("sit")
    /\ \E n \in Having(IsVisit) :
         ~parties[n].live /\ parties[n].tables # {} /\ parties' = [parties EXCEPT ![n].live = TRUE]
    /\ UNCHANGED <<world, hall, order, editor, writer>>

-----------------------------------------------------------------------------
(* The editor of a plan.  A client gives the revision it knows; the draft  *)
(* it means is whatever draft the room has.                                *)

Position(t) == [cap |-> t.cap, min |-> t.min, active |-> t.active]
Version(r, pos, combos, edges) ==
    [room |-> r, status |-> "draft", rev |-> 0, pos |-> pos, combos |-> combos, edges |-> edges]
Revision(r) == hall.versions[The(Draft(r))].rev
Expects(e, r) == editor[e].step = "idle" /\ Draft(r) # {} /\ editor[e].rev = Revision(r)
Revised(r, version) == [hall EXCEPT !.versions[The(Draft(r))] = [version EXCEPT !.rev = @ + 1]]

CreateDraft(r) ==
    /\ May("draft") /\ Draft(r) = {} /\ hall.nextVersion <= MaxVersions
    /\ LET shown == Shown(r)
           pos == [i \in TablesOf(r) |-> IF i \in DOMAIN shown THEN shown[i] ELSE Position(hall.tables[i])]
           old == IF Published(r) = {} THEN Version(r, pos, {}, {}) ELSE hall.versions[The(Published(r))]
       IN  hall' = [hall EXCEPT !.versions = With(@, hall.nextVersion, Version(r, pos, old.combos, old.edges)),
                                !.nextVersion = @ + 1]
    /\ UNCHANGED <<world, parties, order, editor, writer>>

Look(e, r) ==
    /\ May("draft") /\ Draft(r) # {} /\ editor[e].rev # Revision(r) /\ editor[e].step = "idle"
    /\ editor' = [editor EXCEPT ![e].rev = Revision(r)]
    /\ UNCHANGED <<world, hall, parties, order, writer>>

\* _waliduj_topologie, and the sizes of every table.
Joined(tables, edges) ==
    LET reach[n \in 1..Cardinality(tables)] ==
            IF n = 1 THEN {Min(tables)}
            ELSE reach[n - 1] \cup {j \in tables : \E i \in reach[n - 1] : <<i, j>> \in edges \/ <<j, i>> \in edges}
    IN  reach[Cardinality(tables)] = tables
ValidPlan(pos, combos, edges) ==
    /\ \A i \in DOMAIN pos : 1 <= pos[i].min /\ pos[i].min <= pos[i].cap
    /\ \A x \in edges : x[1] # x[2] /\ {x[1], x[2]} \subseteq DOMAIN pos
    /\ \A c \in combos :
         /\ Cardinality(c.tables) >= 2 /\ c.tables \subseteq DOMAIN pos /\ Joined(c.tables, edges)
         /\ c.active => \A i \in c.tables : pos[i].active
         /\ 1 <= c.min /\ c.min <= c.max /\ c.max <= SeatsOf(pos, c.tables)
    /\ \A c, d \in combos : c.tables = d.tables => c = d

\* A full snapshot: every table of the room, and it must have its row in the draft.
Save(e, r) ==
    /\ May("save") /\ Expects(e, r) /\ Revision(r) < MaxRevision
    /\ LET old == hall.versions[The(Draft(r))]
       IN  /\ DOMAIN old.pos = TablesOf(r)
           /\ \E plan \in world.plans :
                LET pos == [i \in TablesOf(r) |-> IF i \in DOMAIN plan.pos THEN plan.pos[i] ELSE old.pos[i]]
                IN  /\ ValidPlan(pos, plan.combos, plan.edges)
                    /\ hall' = Revised(r, [old EXCEPT !.pos = pos, !.combos = plan.combos, !.edges = plan.edges])
    /\ editor' = [editor EXCEPT ![e].rev = @ + 1]
    /\ UNCHANGED <<world, parties, order, writer>>

\* A new table stays inactive until the plan is published.
NewTable(r, size) ==
    [room |-> r, zone |-> IF r = NoRoom THEN size.zone ELSE hall.rooms[r].name, cap |-> size.cap, min |-> size.min,
     active |-> r = NoRoom, prio |-> 0, section |-> size.zone, features |-> {}]
AddTable(e, r) ==
    /\ May("addTable") /\ Expects(e, r) /\ Revision(r) < MaxRevision /\ hall.nextTable <= MaxTables
    /\ \E size \in world.sizes :
         LET old == hall.versions[The(Draft(r))]
             pos == With(old.pos, hall.nextTable, [cap |-> size.cap, min |-> size.min, active |-> TRUE])
         IN  hall' = [Revised(r, [old EXCEPT !.pos = pos]) EXCEPT
                        !.tables = With(@, hall.nextTable, NewTable(r, size)), !.nextTable = @ + 1]
    /\ editor' = [editor EXCEPT ![e].rev = @ + 1]
    /\ UNCHANGED <<world, parties, order, writer>>

\* Tables that only this draft has go with it (_nowe_nieaktywne_stoliki_szkicu).
OnlyIn(v) ==
    {i \in DOMAIN hall.versions[v].pos \cap DOMAIN hall.tables :
        /\ ~hall.tables[i].active
        /\ \A w \in Versions \ {v} : i \notin DOMAIN hall.versions[w].pos
        /\ \A n \in DOMAIN parties : i \notin parties[n].tables
        /\ \A c \in hall.combos : i \notin c.tables}
Discard(e, r) ==
    /\ May("discard") /\ Expects(e, r)
    /\ LET v == The(Draft(r))
       IN  hall' = [hall EXCEPT !.versions = Without(@, {v}), !.tables = Without(@, OnlyIn(v))]
    /\ editor' = [editor EXCEPT ![e].rev = -1]
    /\ UNCHANGED <<world, parties, order, writer>>

-----------------------------------------------------------------------------
(* Publication: the draft is read and checked, the rows of the tables are  *)
(* locked, visits and offers are checked, and the draft is claimed.        *)

ReadForPublication(e, r) ==
    /\ May("publish") /\ Expects(e, r)
    /\ LET v == The(Draft(r)) d == hall.versions[v]
       IN  /\ DOMAIN d.pos = TablesOf(r) /\ ValidPlan(d.pos, d.combos, d.edges)
           /\ editor' = [editor EXCEPT ![e] = [step |-> "publish", rev |-> d.rev, version |-> v, plan |-> d]]
    /\ UNCHANGED <<world, hall, parties, order, writer>>

Promises == Having(IsVisit) \cup Having(IsOffer)
\* _konflikty_dezaktywacji
ClosedTables(pos) == {i \in DOMAIN pos \cap DOMAIN hall.tables : ~pos[i].active /\ hall.tables[i].active}
OnClosed(pos) == {n \in Promises : parties[n].tables \cap ClosedTables(pos) # {}}
\* _konflikty_redukcji_pojemnosci
SizeOf(pos, i) == IF i \in DOMAIN pos THEN <<pos[i].min, pos[i].cap>> ELSE <<hall.tables[i].min, hall.tables[i].cap>>
OutOfRange(pos) ==
    {n \in Promises :
        LET t == parties[n].tables people == parties[n].people
        IN  /\ t \cap DOMAIN pos # {}
            /\ \/ people > MapThenSumSet(LAMBDA i : SizeOf(pos, i)[2], t)
               \/ Cardinality(t) = 1 /\ \E i \in t : people < SizeOf(pos, i)[1]}
\* _konflikty_zakresu_kombinacji
OutOfCombo(r, plan) ==
    LET defined(t) == {c \in plan.combos : c.active /\ c.tables = t}
        protected == {c.tables : c \in {d \in UNION {hall.versions[v].combos : v \in Published(r)} : d.active}}
    IN  {n \in Promises :
            LET p == parties[n]
            IN  /\ Cardinality(p.tables) >= 2 /\ p.tables \subseteq TablesOf(r)
                /\ \/ defined(p.tables) = {} /\ p.tables \in protected
                   \/ \E c \in defined(p.tables) :
                        ~(c.min <= p.people /\ p.people <= c.max) \/ c.channel \notin {Anywhere, p.channel}}
Conflicts(r, plan) == OnClosed(plan.pos) \cup OutOfRange(plan.pos) \cup OutOfCombo(r, plan)

\* The claim of the draft as it was read.
StillAsRead(e) ==
    LET v == editor[e].version
    IN  v \in Versions /\ hall.versions[v].status = "draft" /\ hall.versions[v].rev = editor[e].rev

\* The rows of the tables take the values that were read.
Retire(r) == [v \in Versions |-> IF v \in Published(r) THEN [hall.versions[v] EXCEPT !.status = "retired"] ELSE hall.versions[v]]
Publish(e) ==
    LET v == editor[e].version plan == editor[e].plan r == plan.room
    IN  [hall EXCEPT !.versions = [Retire(r) EXCEPT ![v].status = "published"],
                     !.tables = [i \in DOMAIN @ |->
                        IF i \in DOMAIN plan.pos
                        THEN [@[i] EXCEPT !.cap = plan.pos[i].cap, !.min = plan.pos[i].min, !.active = plan.pos[i].active]
                        ELSE @[i]]]
CommitPublication(e) ==
    /\ editor[e].step = "publish"
    /\ \/ StillAsRead(e) /\ Conflicts(editor[e].plan.room, editor[e].plan) = {} /\ hall' = Publish(e)
       \/ ~(StillAsRead(e) /\ Conflicts(editor[e].plan.room, editor[e].plan) = {}) /\ UNCHANGED hall
    /\ editor' = [editor EXCEPT ![e] = [step |-> "idle", rev |-> -1]]
    /\ UNCHANGED <<world, parties, order, writer>>

-----------------------------------------------------------------------------
(* Rooms.  A new room takes the tables whose zone has its name.            *)

NewRoom(name) ==
    [name |-> name, active |-> TRUE, channels |-> {"online", "wewnetrzna"}, own |-> <<>>, strict |-> FALSE, prio |-> 0, order |-> 0]
CreateRoom ==
    /\ May("rooms") /\ Cardinality(Rooms) < MaxRooms
    /\ \E name \in world.names :
         Named(name) = {} /\ hall' = [hall EXCEPT !.rooms = With(@, Next1(@), NewRoom(name))]
    /\ UNCHANGED <<world, parties, order, editor, writer>>

EditRoom(r) ==
    /\ May("rooms")
    /\ \E name \in world.names \cup {hall.rooms[r].name}, active \in BOOLEAN :
         /\ Named(name) \subseteq {r}
         /\ ~(hall.rooms[r].active /\ ~active /\ \E n \in Having(IsOffer) : parties[n].tables \cap TablesOf(r) # {})
         /\ hall' = [hall EXCEPT !.rooms[r].name = name, !.rooms[r].active = active,
                                 !.tables = [i \in DOMAIN @ |-> IF @[i].room = r THEN [@[i] EXCEPT !.zone = name] ELSE @[i]]]
    /\ UNCHANGED <<world, parties, order, editor, writer>>

-----------------------------------------------------------------------------
(* Tables, combinations and edges outside versioned rooms.                 *)

Older == DOMAIN hall.tables \ Versioned
OnOffer(tables) == \E n \in Having(IsOffer) : parties[n].tables \cap tables # {}
InUse(i) == \E n \in DOMAIN parties : i \in parties[n].tables

AddOlderTable ==
    /\ May("tables") /\ Rooms = {} /\ hall.nextTable <= MaxTables
    /\ \E size \in world.sizes :
         hall' = [hall EXCEPT !.tables = With(@, hall.nextTable, NewTable(NoRoom, size)), !.nextTable = @ + 1]
    /\ UNCHANGED <<world, parties, order, editor, writer>>
EditOlderTable(i) ==
    /\ May("tables") /\ ~OnOffer({i})
    /\ \E size \in world.sizes, active \in BOOLEAN :
         /\ size.min <= size.cap /\ Named(size.zone) = {}
         /\ hall.tables[i].active /\ ~active => ~InUse(i)
         /\ hall' = [hall EXCEPT !.tables[i] =
                        [@ EXCEPT !.cap = size.cap, !.min = size.min, !.zone = size.zone, !.active = active]]
    /\ UNCHANGED <<world, parties, order, editor, writer>>
DeleteTable(i) ==
    /\ May("tables") /\ ~InUse(i)
    /\ \A c \in hall.combos : i \notin c.tables
    /\ \A v \in Versions : i \notin DOMAIN hall.versions[v].pos
    /\ hall' = [hall EXCEPT !.tables = Without(@, {i}), !.edges = {e \in @ : i \notin {e[1], e[2]}}]
    /\ UNCHANGED <<world, parties, order, editor, writer>>

GoodCombo(c) ==
    /\ c.tables \subseteq Older /\ \A i \in c.tables : hall.tables[i].active
    /\ c.min <= (IF c.max > 0 THEN c.max ELSE SeatsOf(hall.tables, c.tables))
Stored(c) == [c EXCEPT !.max = IF c.max > 0 THEN c.max ELSE SeatsOf(hall.tables, c.tables)]
AddCombo ==
    /\ May("combos")
    /\ \E c \in world.combos :
         /\ \A d \in hall.combos : d.id # c.id
         /\ c.tables \subseteq DOMAIN hall.tables /\ ~OnOffer(c.tables) /\ GoodCombo(c)
         /\ hall' = [hall EXCEPT !.combos = @ \cup {Stored(c)}]
    /\ UNCHANGED <<world, parties, order, editor, writer>>
EditCombo(c) ==
    /\ May("combos") /\ c.tables \subseteq Older
    /\ \E d \in world.combos :
         /\ ~OnOffer(c.tables \cup d.tables) /\ GoodCombo(d)
         /\ hall' = [hall EXCEPT !.combos = (@ \ {c}) \cup {[Stored(d) EXCEPT !.id = c.id]}]
    /\ UNCHANGED <<world, parties, order, editor, writer>>
DeleteCombo(c) ==
    /\ May("combos") /\ ~OnOffer(c.tables) /\ c.tables \subseteq Older
    /\ hall' = [hall EXCEPT !.combos = @ \ {c}]
    /\ UNCHANGED <<world, parties, order, editor, writer>>

\* An edge is added without looking at the offers; it can only join more tables.
AddEdge ==
    /\ May("edges")
    /\ \E i, j \in Older : i < j /\ <<i, j>> \notin hall.edges /\ hall' = [hall EXCEPT !.edges = @ \cup {<<i, j>>}]
    /\ UNCHANGED <<world, parties, order, editor, writer>>
DeleteEdge(x) ==
    /\ May("edges") /\ ~OnOffer({x[1], x[2]}) /\ {x[1], x[2]} \subseteq Older
    /\ hall' = [hall EXCEPT !.edges = @ \ {x}]
    /\ UNCHANGED <<world, parties, order, editor, writer>>

-----------------------------------------------------------------------------
(* The booking rules.  None of these takes the day lock.                   *)

Overlap(s, t) == s.from <= LastSeating(t) /\ t.from <= LastSeating(s)
SetPolicy ==
    /\ May("policy") /\ \E config \in world.configs : hall' = [hall EXCEPT !.book.config = config]
    /\ UNCHANGED <<world, parties, order, editor, writer>>
SetRoomAvailability(r) ==
    /\ May("availability")
    /\ \E own \in world.roomSettings, channels \in SUBSET {"online", "wewnetrzna"} :
         hall' = [hall EXCEPT !.rooms[r].own = own, !.rooms[r].channels = channels]
    /\ UNCHANGED <<world, parties, order, editor, writer>>
\* Hours of a day are either made special or struck out; the weekly service may be changed too.
SetException ==
    /\ May("hours")
    /\ \E e \in world.exceptions :
         hall' = [hall EXCEPT !.book.exceptions = IF e \in @ THEN @ \ {e} ELSE @ \cup {e}]
    /\ UNCHANGED <<world, parties, order, editor, writer>>
EditService ==
    /\ May("hours")
    /\ \E s \in world.services, old \in hall.book.hours :
         /\ s.id = old.id /\ s.from < s.to /\ \A t \in hall.book.hours \ {old} : ~Overlap(s, t)
         /\ hall' = [hall EXCEPT !.book.hours = (@ \ {old}) \cup {s}]
    /\ UNCHANGED <<world, parties, order, editor, writer>>
\* One row for one scope.
SameScope(p, r) == <<p.service, p.room, p.channel>> = <<r.service, r.room, r.channel>>
SetRule ==
    /\ May("rules")
    /\ \E r \in world.rules :
         /\ r.room # NoRoom => r.room \in Rooms
         /\ hall' = [hall EXCEPT !.book.rules = IF r \in @ THEN @ \ {r} ELSE {p \in @ : ~SameScope(p, r)} \cup {r}]
    /\ UNCHANGED <<world, parties, order, editor, writer>>

-----------------------------------------------------------------------------
Init ==
    /\ world \in Worlds
    /\ hall = world.hall
    /\ parties = [n \in {} |-> NotFrozen]
    /\ order = <<>>
    /\ editor = [e \in Editors |-> [step |-> "idle", rev |-> -1]]
    /\ writer = Idle

Next ==
    \/ ChooseForNew \/ ChooseForVisit \/ CommitChosen \/ CreateByHand \/ AssignByHand \/ Edit
    \/ ChooseForOffer \/ CommitOffer \/ AcceptOffer \/ ChooseForHold \/ CommitHold \/ ConfirmHold \/ Leave \/ Sit
    \/ \E r \in Rooms :
         \/ CreateDraft(r) \/ EditRoom(r) \/ SetRoomAvailability(r)
         \/ \E e \in Editors : Look(e, r) \/ Save(e, r) \/ AddTable(e, r) \/ Discard(e, r) \/ ReadForPublication(e, r)
    \/ \E e \in Editors : CommitPublication(e)
    \/ CreateRoom \/ AddOlderTable \/ AddCombo \/ AddEdge
    \/ \E i \in Older : EditOlderTable(i) \/ DeleteTable(i)
    \/ \E c \in hall.combos : EditCombo(c) \/ DeleteCombo(c)
    \/ \E x \in hall.edges : DeleteEdge(x)
    \/ SetPolicy \/ SetException \/ EditService \/ SetRule

Spec == Init /\ [][Next]_vars

-----------------------------------------------------------------------------
(* Properties.                                                             *)

\* A live offer can be accepted: its tables still are a set of tables of its room on which the seating
\* puts a party of its size.  Publications and every change of older tables refuse to break one
\* (plan_sali.py publikuj_plan, main.py _blokuj_topologie_aktywnej_oferty), and an offer that was
\* chosen from a plan replaced meanwhile is not made (_zaloz_hold_waitlisty).  Except for tables without a
\* room of their own while rooms are created or renamed: such a table is in the room that bears the name
\* of its zone, and nobody who names a room looks at the offers (plan_sali.py
\* dodaj_sale_rezerwacyjna, edytuj_sale_rezerwacyjna), so that an offer of it may be stranded.
Anchored(o) == "rooms" \in world.ops => \A i \in o.tables : hall.tables[i].room # NoRoom
OffersAreHonoured == \A n \in Having(IsOffer) : Anchored(parties[n]) => Acceptable(n)

\* Who was counted against a limit still finds it kept by all that were accepted before: at every
\* minute the visits and offers within the scope of that limit are no more than it allows.
Counts(l, g) == (l.room # NoRoom => g.room = l.room) /\ (l.channel # Anywhere => g.channel = l.channel)
NotAfter(k, n) == \E i, j \in DOMAIN order : i <= j /\ order[i] = k /\ order[j] = n
LimitsHeld ==
    \A n \in Promises : \A l \in parties[n].relied : \A m \in parties[n].from..(parties[n].to - 1) :
        LET there == {k \in Promises : /\ NotAfter(k, n) /\ Counts(l, parties[k])
                                       /\ parties[k].from <= m /\ m < parties[k].to}
        IN  l.most >= IF l.key = "visits" THEN Cardinality(there)
                      ELSE MapThenSumSet(LAMBDA k : parties[k].people, there)
=============================================================================
