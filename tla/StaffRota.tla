------------------------------ MODULE StaffRota ------------------------------
(***************************************************************************)
(* The rota of a venue: requirements of the days, shifts, the automatic    *)
(* assignment, the publication of a week, and the exchange on which staff  *)
(* pass shifts to each other.                                              *)
(*                                                                         *)
(* Requests run in threads under READ COMMITTED.  A request that reads,    *)
(* decides and then writes is two steps, with what it read kept in its     *)
(* slot; what the ORM did not find changed it does not write back.         *)
(***************************************************************************)
EXTENDS Integers, Sequences, FiniteSets, SequencesExt

CONSTANTS
    Slots,          \* requests that may run at once
    Workers,        \* a set of numbers: the order of their rows
    Kitchen,        \* the workers of the kitchen
    Positions, Hall, Weekend,   \* positions; those of the hall; those staffed at weekends only
    KitchenPosition, EventPosition,
    Skills,         \* what every worker is qualified for
    Days,           \* 1..n, day 1 is a Monday
    Hours,          \* when a shift may begin
    MinRest, MaxWeek, MaxMonth,     \* limits of labour law, 0 when switched off
    MonthLength,
    GuestsPerWaiter,
    MaxShifts, MaxOffers,           \* bounds of the rows
    Worlds          \* what to look at: the requests made, the rota at the start, and the data that
                    \* no request of this module changes

NoHour == 0
\* What a worker says of a day, when it is not the hour he can begin at; 0 is any hour.
Silent == -1
Off == -2

ASSUME RotaAssumption ==
    /\ Workers \subseteq Nat \ {0} /\ Days \subseteq Nat \ {0} /\ Hours \subseteq 1..23
    /\ Kitchen \subseteq Workers /\ Hall \cup Weekend \cup {KitchenPosition, EventPosition} \subseteq Positions
    /\ Skills \in [Workers -> SUBSET Positions]
    /\ {MinRest, MaxWeek, MaxMonth, MaxShifts, MaxOffers} \subseteq Nat
    /\ MonthLength \in Nat \ {0} /\ GuestsPerWaiter \in Nat \ {0}
    /\ IsFiniteSet(Workers)
    /\ \A w \in Worlds :
         /\ w.days \subseteq Days
         /\ w.shifts \in Seq([day : Days, position : Positions, worker : Workers, hour : Hours \cup {NoHour},
                              closes : BOOLEAN, manual : BOOLEAN])

VARIABLES
    world,      \* one of Worlds, for the whole run
    rota,       \* the rows of the database
    open        \* the request that every slot runs

rotaVars == <<rota, open>>

-----------------------------------------------------------------------------
(* Rows.                                                                   *)

Shift(day, position, worker, hour) ==
    [day |-> day, position |-> position, worker |-> worker, hour |-> hour, closes |-> FALSE, manual |-> FALSE]
Offered(shift, by) == [shift |-> shift, by |-> by, taker |-> 0, status |-> "open"]
Need(day, position, hour, count, event) ==
    [day |-> day, position |-> position, hour |-> hour, count |-> count, event |-> event]

InPlay == {"open", "taken"}
Free == [op |-> "none"]

LiveShifts == DOMAIN rota.shifts
ShiftsOf(w) == {i \in LiveShifts : rota.shifts[i].worker = w}
ShiftsOn(days) == {i \in LiveShifts : rota.shifts[i].day \in days}
LiveOffer(o) == o \in DOMAIN rota.offers /\ rota.offers[o].status # "gone"

\* Shifts go with their offers: ON DELETE CASCADE.
Without(db, ids) ==
    [db EXCEPT !.shifts = [i \in DOMAIN @ \ ids |-> @[i]],
               !.offers = [o \in DOMAIN @ |-> IF @[o].shift \in ids THEN [@[o] EXCEPT !.status = "gone"] ELSE @[o]]]
\* New shifts, with the next numbers.
WithAll(db, rows) ==
    [db EXCEPT !.serial = @ + Len(rows),
               !.shifts = [i \in DOMAIN @ \cup {db.serial + k - 1 : k \in 1..Len(rows)} |->
                             IF i < db.serial THEN @[i] ELSE rows[i - db.serial + 1]]]
With(db, row) == WithAll(db, <<row>>)

\* The unique key of a shift; no hour is equal to no hour.
Unique(db) ==
    \A i, j \in DOMAIN db.shifts :
        i # j => LET a == db.shifts[i] b == db.shifts[j]
                 IN  a.hour = NoHour \/ <<a.day, a.position, a.worker, a.hour>> # <<b.day, b.position, b.worker, b.hour>>

May(op) == op \in world.ops
Begin(s, tx) ==
    open[s] = Free /\ Cardinality({t \in Slots : open[t] # Free}) < world.parallel /\ open' = [open EXCEPT ![s] = tx]
Running(s, op) == open[s].op = op
End(s) == open' = [open EXCEPT ![s] = Free]
\* A commit whose rows break the unique key is rolled back; either way the request ends or goes on.
CommitAs(s, db, next) ==
    IF Unique(db) THEN rota' = db /\ open' = [open EXCEPT ![s] = next]
                  ELSE UNCHANGED rota /\ End(s)

-----------------------------------------------------------------------------
(* Labour law.                                                             *)

Moment(s) == 24 * s.day + s.hour
Distance(a, b) == IF a > b THEN a - b ELSE b - a
TooLittleRest(others, s) ==
    /\ MinRest > 0 /\ s.hour # NoHour
    /\ \E o \in others : o.hour # NoHour /\ Distance(Moment(s), Moment(o)) < MinRest
Week(day) == (day - 1) \div 7
Month(day) == (day - 1) \div MonthLength
DaysWith(others, s, In(_)) == Cardinality({o.day : o \in {x \in others : In(x.day) = In(s.day)}} \cup {s.day})
Lawful(others, s) ==
    /\ ~TooLittleRest(others, s)
    /\ MaxWeek = 0 \/ DaysWith(others, s, Week) <= MaxWeek
    /\ MaxMonth = 0 \/ DaysWith(others, s, Month) <= MaxMonth

\* _sprawdz_prawo_pracy: against every other shift of the worker.
PassesLaw(s, except) == Lawful({rota.shifts[i] : i \in ShiftsOf(s.worker) \ {except}}, s)

IsWeekend(day) == (day - 1) % 7 \in {5, 6}
Staffed(position, day) == position \in Weekend => IsWeekend(day)

-----------------------------------------------------------------------------
(* Who closes: by hand, else whoever on the hall begins last.              *)

Closing(rows) ==
    LET byHand == {i \in DOMAIN rows : rows[i].manual}
        hall == {i \in DOMAIN rows : rows[i].position \in Hall}
        last == {i \in hall : \A j \in hall : rows[j].hour < rows[i].hour \/ (rows[j].hour = rows[i].hour /\ j <= i)}
    IN  IF byHand # {} THEN {CHOOSE i \in byHand : \A j \in byHand : i <= j} ELSE last

\* After the change: one day after the other, read, then written where it differs.
Closers(days) == [op |-> "closers", days |-> days, rows |-> <<>>, read |-> FALSE]
ReadClosers(s) ==
    /\ Running(s, "closers") /\ ~open[s].read
    /\ LET today == ShiftsOn({Head(open[s].days)})
       IN  open' = [open EXCEPT ![s].read = TRUE, ![s].rows = [i \in today |-> rota.shifts[i]]]
    /\ UNCHANGED rota

RestOf(s) == IF Len(open[s].days) = 1 THEN Free ELSE Closers(Tail(open[s].days))
WriteClosers(s) ==
    /\ Running(s, "closers") /\ open[s].read
    /\ LET seen == open[s].rows
           changed == {i \in DOMAIN seen : seen[i].closes # (i \in Closing(seen))}
       IN  \/ /\ changed \subseteq LiveShifts
              /\ rota' = [rota EXCEPT !.shifts = [i \in DOMAIN @ |->
                            IF i \in changed THEN [@[i] EXCEPT !.closes = i \in Closing(seen)] ELSE @[i]]]
              /\ open' = [open EXCEPT ![s] = RestOf(s)]
           \/ ~(changed \subseteq LiveShifts) /\ End(s) /\ UNCHANGED rota    \* a row is gone: an error

-----------------------------------------------------------------------------
(* Shifts, as the planner writes them.                                     *)

AddShift(s) == May("add") /\
    \E d \in world.days, p \in Positions, w \in Workers, h \in Hours \cup {NoHour} :
        LET row == Shift(d, p, w, h)
        IN  /\ Staffed(p, d) /\ rota.serial <= MaxShifts
            /\ \A i \in ShiftsOf(w) : rota.shifts[i].day # d
            /\ PassesLaw(row, 0)
            /\ Begin(s, [op |-> "add", row |-> row]) /\ UNCHANGED rota
CommitAdd(s) ==
    /\ Running(s, "add")
    /\ CommitAs(s, With(rota, open[s].row), Closers(<<open[s].row.day>>))

\* Every field of the form is written that differs from the row as it was read.
ChangeShift(s) == May("change") /\
    \E i \in LiveShifts, d \in world.days, p \in Positions, w \in Workers, h \in Hours :
        LET row == [rota.shifts[i] EXCEPT !.day = d, !.position = p, !.worker = w, !.hour = h]
        IN  /\ Staffed(p, d) /\ row # rota.shifts[i]
            /\ \A j \in ShiftsOf(w) \ {i} : rota.shifts[j].day # d
            /\ PassesLaw(row, i)
            /\ Begin(s, [op |-> "change", id |-> i, was |-> rota.shifts[i], row |-> row]) /\ UNCHANGED rota
Merged(was, row, now) == [f \in DOMAIN now |-> IF was[f] # row[f] THEN row[f] ELSE now[f]]
CommitChange(s) ==
    /\ Running(s, "change")
    /\ LET tx == open[s]
           days == IF tx.was.day = tx.row.day THEN <<tx.row.day>> ELSE <<tx.row.day, tx.was.day>>
       IN  IF tx.id \in LiveShifts
           THEN CommitAs(s, [rota EXCEPT !.shifts[tx.id] = Merged(tx.was, tx.row, @)], Closers(days))
           ELSE End(s) /\ UNCHANGED rota

RemoveShift(s) == May("remove") /\
    \E i \in LiveShifts : /\ Begin(s, Closers(<<rota.shifts[i].day>>))
                          /\ rota' = Without(rota, {i})

\* By hand, for the whole day; or back to the rule.
CloseByHand(s) == May("close") /\
    \E i \in LiveShifts :
        /\ Begin(s, Free)
        /\ rota' = [rota EXCEPT !.shifts = [j \in DOMAIN @ |->
                      IF @[j].day = @[i].day THEN [@[j] EXCEPT !.closes = j = i, !.manual = j = i] ELSE @[j]]]
CloseByRule(s) == May("close") /\
    \E i \in LiveShifts :
        /\ Begin(s, Closers(<<rota.shifts[i].day>>))
        /\ rota' = [rota EXCEPT !.shifts[i].manual = FALSE]

Sorted(S, Less(_, _)) ==
    [k \in 1..Cardinality(S) |-> CHOOSE x \in S : Cardinality({y \in S : Less(y, x)}) = k - 1]
InOrder(days) == Sorted(days, <)
ClearShifts(s) == May("clear") /\
    \E staff \in {Workers, Workers \ Kitchen, Kitchen} :
        /\ Begin(s, Closers(InOrder(Days)))
        /\ rota' = Without(rota, {i \in LiveShifts : rota.shifts[i].worker \in staff})

\* The chef's shifts skip the rules of the planner and who closes is as he says.
ChefAdds(s) == May("chef") /\
    \E d \in world.days, w \in Kitchen, h \in Hours, closes \in BOOLEAN :
        /\ rota.serial <= MaxShifts
        /\ LET db == With(rota, [Shift(d, KitchenPosition, w, h) EXCEPT !.closes = closes])
           IN  Unique(db) /\ rota' = db
        /\ Begin(s, Free)
ChefChanges(s) == May("chef") /\
    \E i \in LiveShifts, h \in Hours, closes \in BOOLEAN :
        /\ rota.shifts[i].worker \in Kitchen
        /\ LET db == [rota EXCEPT !.shifts[i].hour = h, !.shifts[i].closes = closes]
           IN  Unique(db) /\ rota' = db
        /\ Begin(s, Free)
ChefRemoves(s) == May("chef") /\
    \E i \in LiveShifts : /\ rota.shifts[i].worker \in Kitchen
                          /\ rota' = Without(rota, {i}) /\ Begin(s, Free)

-----------------------------------------------------------------------------
(* Requirements of the days.                                               *)

SameNeed(a, b) == <<a.day, a.position, a.hour>> = <<b.day, b.position, b.hour>>
\* Set the count of the first row with this key, or add one.
Upserted(needs, n) ==
    LET same == {k \in DOMAIN needs : SameNeed(needs[k], n)}
    IN  IF same = {} THEN Append(needs, n)
        ELSE [needs EXCEPT ![CHOOSE k \in same : \A j \in same : k <= j].count = n.count]

SetNeed(s) == May("needs") /\
    \E n \in world.forms :
        /\ Begin(s, Free)
        /\ rota' = [rota EXCEPT !.needs = Upserted(@, n)]
DropNeed(s) == May("needs") /\
    \E k \in DOMAIN rota.needs : Begin(s, Free) /\ rota' = [rota EXCEPT !.needs = RemoveAt(@, k)]

\* Copies are ordinary requirements, of an event's ones too.
Moved(n, day) == Need(day, n.position, n.hour, n.count, FALSE)
NeedsOf(day) == SelectSeq(rota.needs, LAMBDA n : n.day = day)
CopyDay(s) == May("copy") /\
    \E from \in world.days, to \in world.days :
        /\ from # to /\ NeedsOf(from) # <<>> /\ Begin(s, Free)
        /\ rota' = [rota EXCEPT !.needs = FoldLeft(LAMBDA acc, n : Upserted(acc, Moved(n, to)), @, NeedsOf(from))]
CopyWeek(s) == May("copy") /\
    \E offset \in {-7, 7} :
        /\ Begin(s, Free)
        /\ LET src == SelectSeq(rota.needs, LAMBDA n : n.day + offset \in Days)
           IN  src # <<>> /\ rota' = [rota EXCEPT !.needs =
                                FoldLeft(LAMBDA acc, n : Upserted(acc, Moved(n, n.day + offset)), @, src)]

\* przelicz_imprezy_na_wymagania: one more waiter for every started group of guests.
WaitersFor(guests) ==
    LET full == guests \div GuestsPerWaiter + (IF guests % GuestsPerWaiter > 0 THEN 1 ELSE 0)
    IN  IF full > 1 THEN full ELSE 1
EventNeeds(events) == SetToSeq({Need(e.day, EventPosition, e.hour, WaitersFor(e.guests), TRUE) : e \in events})
WithEvents(needs, days, events) ==
    SelectSeq(needs, LAMBDA n : ~(n.event /\ n.day \in days)) \o EventNeeds({e \in events : e.day \in days})
\* Events of a calendar file, without those that came before, and the requirements of their days.
ImportEvents(s) == May("import") /\ Begin(s, Free) /\
    LET events == rota.events \cup world.calendar  days == {e.day : e \in world.calendar}
    IN  rota' = [rota EXCEPT !.events = events,
                             !.needs = WithEvents(@, days, events)]
ViewNeeds(s) == May("needs") /\ Begin(s, Free) /\ rota' = [rota EXCEPT !.needs = WithEvents(@, Days, rota.events)]

-----------------------------------------------------------------------------
(* Availability, leave and publication.                                    *)

\* A worker says when he can work until a publication spans the days of his form.
SaveAvailability(s) == May("wants") /\
    \E w \in Workers, days \in SUBSET world.days, want \in {Off, 0} \cup Hours :
        /\ days # {} /\ ~\E p \in rota.published : days \subseteq p
        /\ Begin(s, Free)
        /\ rota' = [rota EXCEPT !.wants = [x \in DOMAIN @ |-> IF x[1] = w /\ x[2] \in days THEN want ELSE @[x]]]
OverrideAvailability(s) == May("wants") /\
    \E w \in Workers, d \in world.days, want \in {Silent, Off, 0} :
        Begin(s, Free) /\ rota' = [rota EXCEPT !.wants[<<w, d>>] = want]
AskLeave(s) == May("leave") /\
    \E w \in Workers \ Kitchen, d \in world.days :
        rota.leave[<<w, d>>] = "none" /\ Begin(s, Free) /\ rota' = [rota EXCEPT !.leave[<<w, d>>] = "waits"]
WithdrawLeave(s) == May("leave") /\
    \E x \in Workers \X world.days :
        rota.leave[x] = "waits" /\ Begin(s, Free) /\ rota' = [rota EXCEPT !.leave[x] = "none"]
\* A decision may be taken again.
DecideLeave(s) == May("leave") /\
    \E x \in Workers \X world.days, decision \in {"accepted", "rejected"} :
        rota.leave[x] # "none" /\ Begin(s, Free) /\ rota' = [rota EXCEPT !.leave[x] = decision]

Publish(s) == May("publish") /\ Begin(s, Closers(InOrder(Days))) /\ rota' = [rota EXCEPT !.published = @ \cup {Days}]
Unpublish(s) == May("publish") /\ Begin(s, Free) /\ rota' = [rota EXCEPT !.published = @ \ {Days}]

-----------------------------------------------------------------------------
(* The automatic assignment.  Its accumulator: the new shifts.             *)

Seen == {rota.shifts[i] : i \in LiveShifts}

FitFor(w, n) ==
    LET want == rota.wants[<<w, n.day>>]
    IN  /\ rota.leave[<<w, n.day>>] # "accepted" /\ <<w, n.day>> \notin world.barred
        /\ want >= 0 /\ (want = 0 \/ n.hour = NoHour \/ want <= n.hour)
Candidates(seen, n) ==
    {w \in Workers \ world.inactive :
        n.position \in Skills[w] /\ FitFor(w, n) /\ ~\E x \in seen : x.worker = w /\ x.day = n.day}

\* How many a requirement lacks: rows of one key consume the shifts that match it in turn.
AtMost(a, b) == IF a < b THEN a ELSE b
Lacking(existing, needs, k) ==
    LET n == needs[k]
        have == Cardinality({i \in DOMAIN existing : SameNeed(existing[i], n)})
        before == FoldLeft(+, 0, [j \in 1..(k - 1) |-> IF SameNeed(needs[j], n) THEN needs[j].count ELSE 0])
    IN  n.count - (AtMost(have, before + n.count) - AtMost(have, before))

\* The places of a day, the hardest to fill first, then those of the hall.
Places(seen, needs, day) ==
    LET all == {x \in (DOMAIN needs) \X (1..MaxShifts) :
                    /\ needs[x[1]].day = day /\ Staffed(needs[x[1]].position, day)
                    /\ x[2] <= Lacking(rota.shifts, needs, x[1])}
        Rank(x) == <<Cardinality(Candidates(seen, needs[x[1]])),
                     IF needs[x[1]].position \in Hall THEN 0 ELSE 1, x[1], x[2]>>
        Before(x, y) == \E i \in 1..4 : Rank(x)[i] < Rank(y)[i] /\ \A j \in 1..(i - 1) : Rank(x)[j] = Rank(y)[j]
    IN  [k \in 1..Cardinality(all) |-> needs[Sorted(all, Before)[k][1]]]

\* Whoever has the fewest shifts, and the fewest on this position, among those the law lets.
Pick(seen, n) ==
    LET lawful == {w \in Candidates(seen, n) :
                      Lawful({x \in seen : x.worker = w}, Shift(n.day, n.position, w, n.hour))}
        Load(w) == <<Cardinality({x \in seen : x.worker = w}),
                     Cardinality({x \in seen : x.worker = w /\ x.position = n.position}), w>>
        Before(a, b) == \E i \in 1..3 : Load(a)[i] < Load(b)[i] /\ \A j \in 1..(i - 1) : Load(a)[j] = Load(b)[j]
    IN  {w \in lawful : \A v \in lawful \ {w} : Before(w, v)}
Filled(seen, n) == seen \cup {Shift(n.day, n.position, w, n.hour) : w \in Pick(seen, n)}

\* Of the shifts it reads those of the days it plans, and no other.
Planned(days, needs) ==
    LET Day(seen, day) == FoldLeft(Filled, seen, Places(seen, needs, day))
        before == {rota.shifts[i] : i \in ShiftsOn(days)}
    IN  FoldLeft(Day, before, InOrder(days)) \ before

AutoAssign(s) == May("auto") /\
    \E days \in world.ranges : rota.serial <= MaxShifts /\
        LET needs == WithEvents(rota.needs, days, rota.events)
            rows == SetToSeq(Planned(days, needs))
        IN  /\ Len(rows) \in 0..(2 * MaxShifts)       \* a bound of the rows too
            /\ Begin(s, [op |-> "auto", days |-> days, rows |-> rows])
            /\ rota' = [rota EXCEPT !.needs = needs]
\* The new shifts, then what was published of these days is a draft again.
CommitAuto(s) ==
    /\ Running(s, "auto")
    /\ LET rows == open[s].rows
           new == [k \in 1..Len(rows) |-> Shift(rows[k].day, rows[k].position, rows[k].worker, rows[k].hour)]
           db == WithAll(rota, new)
       IN  CommitAs(s, [db EXCEPT !.published = {p \in @ : p \cap open[s].days = {}}], Closers(InOrder(open[s].days)))

-----------------------------------------------------------------------------
(* The exchange.                                                           *)

\* The row of the shift is locked: to read and to insert is one step.
OfferShift(s) == May("exchange") /\
    \E i \in LiveShifts :
        /\ Len(rota.offers) < MaxOffers
        /\ ~\E o \in DOMAIN rota.offers : rota.offers[o].shift = i /\ rota.offers[o].status \in InPlay
        /\ Begin(s, Free)
        /\ rota' = [rota EXCEPT !.offers = Append(@, Offered(i, rota.shifts[i].worker))]

Collides(w, i) ==
    \E j \in ShiftsOf(w) \ {i} : rota.shifts[j].day = rota.shifts[i].day /\ rota.shifts[j].hour = rota.shifts[i].hour

TakeOffer(s) == May("exchange") /\
    \E o \in DOMAIN rota.offers, w \in Workers :
        LET offer == rota.offers[o]
        IN  /\ offer.status = "open" /\ offer.by # w
            /\ rota.shifts[offer.shift].position \in Skills[w] /\ ~Collides(w, offer.shift)
            /\ Begin(s, [op |-> "take", id |-> o, worker |-> w]) /\ UNCHANGED rota
\* Mutant: an update that does not ask whether the offer is still open.
CommitTakeBlindly(s) ==
    /\ Running(s, "take") /\ End(s)
    /\ IF LiveOffer(open[s].id)
       THEN rota' = [rota EXCEPT !.offers[open[s].id].status = "taken", !.offers[open[s].id].taker = open[s].worker]
       ELSE UNCHANGED rota
\* Of two who saw it open the first takes it.
CommitTake(s) ==
    /\ Running(s, "take") /\ End(s)
    /\ IF rota.offers[open[s].id].status = "open"
       THEN rota' = [rota EXCEPT !.offers[open[s].id].status = "taken", !.offers[open[s].id].taker = open[s].worker]
       ELSE UNCHANGED rota

\* Withdrawal and rejection write what they decided on the offer as they read it.
WithdrawOffer(s) == May("exchange") /\
    \E o \in DOMAIN rota.offers :
        /\ rota.offers[o].status \in InPlay
        /\ Begin(s, [op |-> "withdraw", id |-> o]) /\ UNCHANGED rota
CommitWithdraw(s) ==
    /\ Running(s, "withdraw") /\ End(s)
    /\ IF LiveOffer(open[s].id) THEN rota' = [rota EXCEPT !.offers[open[s].id].status = "withdrawn"] ELSE UNCHANGED rota

RejectTaker(s) == May("exchange") /\
    \E o \in DOMAIN rota.offers :
        /\ rota.offers[o].status = "taken"
        /\ Begin(s, [op |-> "reject", id |-> o]) /\ UNCHANGED rota
CommitReject(s) ==
    /\ Running(s, "reject") /\ End(s)
    /\ IF LiveOffer(open[s].id)
       THEN rota' = [rota EXCEPT !.offers[open[s].id].status = "open", !.offers[open[s].id].taker = 0]
       ELSE UNCHANGED rota

AcceptTaker(s) == May("exchange") /\
    \E o \in DOMAIN rota.offers :
        LET offer == rota.offers[o]
        IN  /\ offer.status = "taken" /\ ~Collides(offer.taker, offer.shift)
            /\ Begin(s, [op |-> "accept", id |-> o, worker |-> offer.taker]) /\ UNCHANGED rota
Accepted(o, w) == [rota EXCEPT !.offers[o].status = "accepted", !.shifts[rota.offers[o].shift].worker = w]
\* Mutant: the shift is moved without asking whether the offer still waits for a decision.
CommitAcceptBlindly(s) ==
    /\ Running(s, "accept")
    /\ IF LiveOffer(open[s].id)
       THEN CommitAs(s, Accepted(open[s].id, open[s].worker), Free)
       ELSE End(s) /\ UNCHANGED rota
\* The offer must still be taken; the shift goes to the worker who was read.
CommitAccept(s) ==
    /\ Running(s, "accept")
    /\ IF rota.offers[open[s].id].status = "taken"
       THEN CommitAs(s, Accepted(open[s].id, open[s].worker), Free)
       ELSE End(s) /\ UNCHANGED rota

-----------------------------------------------------------------------------

RotaInit ==
    /\ world \in Worlds
    /\ open = [s \in Slots |-> Free]
    /\ rota = [shifts |-> world.shifts, serial |-> Len(world.shifts) + 1, offers |-> <<>>, needs |-> world.needs, events |-> world.events,
               wants |-> [x \in Workers \X Days |-> 0], leave |-> [x \in Workers \X Days |-> "none"],
               published |-> {}]

RotaStep(s) ==
    \/ AddShift(s) \/ CommitAdd(s) \/ ChangeShift(s) \/ CommitChange(s) \/ RemoveShift(s)
    \/ CloseByHand(s) \/ CloseByRule(s) \/ ClearShifts(s) \/ ReadClosers(s) \/ WriteClosers(s)
    \/ ChefAdds(s) \/ ChefChanges(s) \/ ChefRemoves(s)
    \/ SetNeed(s) \/ DropNeed(s) \/ CopyDay(s) \/ CopyWeek(s) \/ ImportEvents(s) \/ ViewNeeds(s)
    \/ SaveAvailability(s) \/ OverrideAvailability(s) \/ AskLeave(s) \/ WithdrawLeave(s) \/ DecideLeave(s)
    \/ Publish(s) \/ Unpublish(s) \/ AutoAssign(s) \/ CommitAuto(s)
    \/ OfferShift(s) \/ TakeOffer(s) \/ CommitTake(s) \/ WithdrawOffer(s) \/ CommitWithdraw(s)
    \/ RejectTaker(s) \/ CommitReject(s) \/ AcceptTaker(s) \/ CommitAccept(s)

-----------------------------------------------------------------------------
(* Properties.                                                             *)

\* przejmij_oferte: of two workers who saw an offer open only the first gets it, and nobody takes
\* it from him; it is free again only through a rejection (gielda.py:212-221).
FirstTakerKeeps ==
    [][\A o \in DOMAIN rota.offers :
         LET was == rota.offers[o].taker  is == rota'.offers[o].taker
         IN  was # 0 /\ is # 0 => was = is]_rota

\* akceptuj_oferte: the exchange moves a shift only in the step that accepts an offer which still
\* waits, whoever rejects or withdraws it at the same time (gielda.py:271-283).
MovesOnlyFromTaken ==
    [][\A i \in DOMAIN rota.shifts \cap DOMAIN rota'.shifts :
         rota'.shifts[i].worker # rota.shifts[i].worker =>
             \/ \E s \in Slots : Running(s, "change") /\ open'[s] # open[s]
             \/ \E o \in DOMAIN rota.offers : /\ rota.offers[o].shift = i /\ rota.offers[o].status = "taken"
                                              /\ rota'.offers[o].status = "accepted"]_rota
=============================================================================
