-------------------------- MODULE DaySettlement_proofs --------------------------
(***************************************************************************)
(* What holds of the exchange of shifts and of the settlement of a day for *)
(* every set of workers, rota at the start and number of requests at once. *)
(*                                                                         *)
(* The first half is about the rows: what every way of writing them keeps  *)
(* of the offers and of who works a shift.  The second half is about the   *)
(* steps.                                                                  *)
(***************************************************************************)
EXTENDS DaySettlement, FiniteSetTheorems, SequenceTheorems, TLAPS

-----------------------------------------------------------------------------
(* The inductive invariant.                                                *)

RotaFields == {"shifts", "serial", "offers", "needs", "events", "wants", "leave", "published"}
ShiftFields == {"day", "position", "worker", "hour", "closes", "manual"}
OfferFields == {"shift", "by", "taker", "status"}

\* A sequence, whatever its elements.
IsList(q) == q = [k \in DOMAIN q |-> q[k]] /\ \E n \in Nat : DOMAIN q = 1..n

ShiftsOK(shifts, serial) == \A i \in DOMAIN shifts : i \in Nat /\ i < serial /\ DOMAIN shifts[i] = ShiftFields
\* Who is free to be taken has no taker.
OffersOK(offers) ==
    /\ IsList(offers)
    /\ \A o \in DOMAIN offers : DOMAIN offers[o] = OfferFields /\ (offers[o].status = "open" => offers[o].taker = 0)
RotaOK(db) == DOMAIN db = RotaFields /\ db.serial \in Nat /\ ShiftsOK(db.shifts, db.serial) /\ OffersOK(db.offers)

OnOffers == {"take", "withdraw", "reject", "accept"}
OnDays == {"build", "page", "save", "report", "check", "ask"}
TxOK(tx, offers) ==
    /\ "op" \in DOMAIN tx
    /\ tx.op = "add" => DOMAIN tx.row = ShiftFields
    /\ tx.op \in OnOffers => tx.id \in DOMAIN offers
    /\ tx.op = "auto" => Len(tx.rows) \in Nat
    /\ tx.op \in OnDays => tx.day \in Days
    /\ tx.op = "build" => /\ {"op", "day", "next", "carried", "read", "missing", "first"} \subseteq DOMAIN tx
                          /\ tx.next \in {"view", "page", "save", "report", "ask"} /\ tx.missing \subseteq Workers
OpenOK == DOMAIN open = Slots /\ \A s \in Slots : TxOK(open[s], rota.offers)

RowFields == {"worker", "confirmed", "asked"}
RowsOK(rows) == IsList(rows) /\ \A k \in DOMAIN rows : DOMAIN rows[k] = RowFields
BooksOK ==
    /\ DOMAIN books = Days
    /\ \A d \in Days : DOMAIN books[d] = DOMAIN Book /\ RowsOK(books[d].rows)

\* Of a day whose rows are all confirmed the administrators know, or the report that will tell them is
\* about to look.  A dismissal takes a worker out of every settlement, of those he alone has not
\* confirmed too: the day is complete then and nobody is told.
ConfirmedIsTold == \A d \in Days : Confirmed(books[d].rows) /\ ~Checking(d) => books[d].told
IInv ==
    /\ world \in Worlds /\ RotaOK(rota) /\ OpenOK
    /\ NoDismissal => BooksOK /\ ConfirmedIsTold

-----------------------------------------------------------------------------
(* What a step does to the rota.                                           *)

KeepsTakers(old, new) ==
    /\ DOMAIN old \subseteq DOMAIN new
    /\ \A o \in DOMAIN old : old[o].taker # 0 /\ new[o].taker # 0 => old[o].taker = new[o].taker
KeepsWorkers(old, new) == \A i \in DOMAIN old \cap DOMAIN new : new[i].worker = old[i].worker
\* A write of the rota that is no decision of an exchange and no change of a shift by the planner.
Follows(db, new) ==
    RotaOK(new) /\ KeepsTakers(db.offers, new.offers) /\ KeepsWorkers(db.shifts, new.shifts)

LEMMA SameRows ==
    ASSUME NEW db, RotaOK(db), NEW new, DOMAIN new = RotaFields,
           new.shifts = db.shifts, new.serial = db.serial, new.offers = db.offers
    PROVE  Follows(db, new)
BY DEF Follows, RotaOK, KeepsTakers, KeepsWorkers

\* Columns of shifts are written, of no other row.
LEMMA WrittenShifts ==
    ASSUME NEW db, RotaOK(db), NEW shifts, DOMAIN shifts = DOMAIN db.shifts,
           \A i \in DOMAIN shifts : DOMAIN shifts[i] = ShiftFields,
           NEW new, new = [db EXCEPT !.shifts = shifts]
    PROVE  /\ RotaOK(new) /\ KeepsTakers(db.offers, new.offers) /\ new.offers = db.offers /\ new.shifts = shifts
           /\ KeepsWorkers(db.shifts, shifts) => Follows(db, new)
<1>1. /\ DOMAIN new = RotaFields /\ new.serial = db.serial /\ new.offers = db.offers /\ new.shifts = shifts
  BY DEF RotaOK, RotaFields
<1>2. RotaOK(new)
  BY <1>1 DEF RotaOK, ShiftsOK
<1> QED BY <1>1, <1>2 DEF Follows, KeepsTakers

\* Offers are written, of no other row.
LEMMA WrittenOffers ==
    ASSUME NEW db, RotaOK(db), NEW offers, OffersOK(offers), KeepsTakers(db.offers, offers),
           NEW new, new = [db EXCEPT !.offers = offers]
    PROVE  Follows(db, new) /\ new.offers = offers /\ new.shifts = db.shifts
<1>1. /\ DOMAIN new = RotaFields /\ new.serial = db.serial /\ new.offers = offers /\ new.shifts = db.shifts
  BY DEF RotaOK, RotaFields
<1> QED BY <1>1 DEF Follows, RotaOK, KeepsWorkers

LEMMA Chained ==
    ASSUME NEW a, NEW b, Follows(a, b), NEW c, Follows(b, c), b.offers = a.offers, c.shifts = b.shifts
    PROVE  Follows(a, c)
BY DEF Follows, KeepsTakers, KeepsWorkers

LEMMA WithoutFollows ==
    ASSUME NEW db, RotaOK(db), NEW ids
    PROVE  /\ Follows(db, Without(db, ids)) /\ DOMAIN Without(db, ids).offers = DOMAIN db.offers
           /\ \A o \in DOMAIN db.offers : /\ DOMAIN Without(db, ids).offers[o] = OfferFields
                                          /\ Without(db, ids).offers[o].taker = db.offers[o].taker
<1>. DEFINE new == Without(db, ids)
            shifts == [i \in DOMAIN db.shifts \ ids |-> db.shifts[i]]
            offers == [o \in DOMAIN db.offers |-> IF db.offers[o].shift \in ids
                                                  THEN [db.offers[o] EXCEPT !.status = "gone"] ELSE db.offers[o]]
<1>1. new = [[db EXCEPT !.shifts = shifts] EXCEPT !.offers = offers]
  BY DEF Without, RotaOK, RotaFields
<1>2. DOMAIN shifts = DOMAIN db.shifts \ ids /\ \A i \in DOMAIN shifts : shifts[i] = db.shifts[i]
  OBVIOUS
<1>3. \A o \in DOMAIN db.offers :
          /\ DOMAIN offers[o] = OfferFields /\ offers[o].taker = db.offers[o].taker
          /\ offers[o].status = "open" => db.offers[o].status = "open"
  BY DEF RotaOK, OffersOK, OfferFields
<1>4. DOMAIN offers = DOMAIN db.offers /\ IsList(offers)
  BY DEF RotaOK, OffersOK, IsList
<1>5. OffersOK(offers) /\ KeepsTakers(db.offers, offers)
  BY <1>3, <1>4 DEF RotaOK, OffersOK, KeepsTakers
<1>. HIDE DEF shifts, offers
<1>6. /\ DOMAIN new = RotaFields /\ new.serial = db.serial /\ new.offers = offers /\ new.shifts = shifts
  BY <1>1 DEF RotaOK, RotaFields
<1>. HIDE DEF new
<1>7. RotaOK(new)
  BY <1>2, <1>5, <1>6 DEF RotaOK, ShiftsOK
<1>8. KeepsWorkers(db.shifts, new.shifts)
  BY <1>2, <1>6 DEF KeepsWorkers
<1> QED BY <1>3, <1>4, <1>5, <1>6, <1>7, <1>8 DEF new, Follows

LEMMA WithAllFollows ==
    ASSUME NEW db, RotaOK(db), NEW rows, Len(rows) \in Nat,
           \A k \in 1..Len(rows) : DOMAIN rows[k] = ShiftFields
    PROVE  Follows(db, WithAll(db, rows)) /\ WithAll(db, rows).offers = db.offers
<1>. DEFINE new == WithAll(db, rows)
            n == Len(rows)
            shifts == [i \in DOMAIN db.shifts \cup {db.serial + k - 1 : k \in 1..n} |->
                          IF i < db.serial THEN db.shifts[i] ELSE rows[i - db.serial + 1]]
<1>1. new = [[db EXCEPT !.serial = db.serial + n] EXCEPT !.shifts = shifts]
  BY DEF WithAll, RotaOK, RotaFields
<1>2. /\ db.serial \in Nat /\ n \in Nat
      /\ \A i \in DOMAIN db.shifts : i \in Nat /\ i < db.serial /\ DOMAIN db.shifts[i] = ShiftFields
  BY DEF RotaOK, ShiftsOK
<1>3. \A i \in DOMAIN db.shifts : i \in DOMAIN shifts /\ shifts[i] = db.shifts[i]
  BY <1>2
<1>4. ASSUME NEW i \in DOMAIN shifts
      PROVE  i \in Nat /\ i < db.serial + n /\ DOMAIN shifts[i] = ShiftFields
  <2>1. CASE i \in DOMAIN db.shifts
    BY <2>1, <1>2, <1>3
  <2>2. CASE i \notin DOMAIN db.shifts
    <3>1. PICK k \in 1..n : i = db.serial + k - 1
      BY <2>2
    <3>2. ~(i < db.serial) /\ i - db.serial + 1 = k
      BY <3>1, <1>2
    <3>3. shifts[i] = rows[k]
      BY <3>2
    <3>4. i \in Nat /\ i < db.serial + n
      BY <3>1, <1>2
    <3>. HIDE DEF shifts, n
    <3>5. DOMAIN rows[k] = ShiftFields
      BY DEF n
    <3> QED BY <3>3, <3>4, <3>5
  <2> QED BY <2>1, <2>2
<1>. HIDE DEF shifts
<1>5. /\ DOMAIN new = RotaFields /\ new.serial = db.serial + n /\ new.offers = db.offers /\ new.shifts = shifts
  BY <1>1 DEF RotaOK, RotaFields
<1>. HIDE DEF new
<1>6. RotaOK(new)
  BY <1>2, <1>4, <1>5 DEF RotaOK, ShiftsOK
<1>7. KeepsWorkers(db.shifts, new.shifts) /\ KeepsTakers(db.offers, new.offers)
  BY <1>3, <1>5 DEF KeepsWorkers, KeepsTakers
<1> QED BY <1>5, <1>6, <1>7 DEF new, Follows

LEMMA WithFollows ==
    ASSUME NEW db, RotaOK(db), NEW row, DOMAIN row = ShiftFields
    PROVE  Follows(db, With(db, row)) /\ With(db, row).offers = db.offers
<1>1. Len(<<row>>) = 1 /\ <<row>>[1] = row
  OBVIOUS
<1>2. \A k \in 1..Len(<<row>>) : DOMAIN <<row>>[k] = ShiftFields
  BY <1>1
<1> QED BY <1>1, <1>2, WithAllFollows DEF With

\* A write of the rows that are no shifts and no offers.
LEMMA OtherRows ==
    ASSUME NEW db, RotaOK(db), NEW f \in RotaFields \ {"shifts", "serial", "offers"}, NEW v,
           NEW new, new = [db EXCEPT ![f] = v]
    PROVE  Follows(db, new) /\ new.offers = db.offers /\ new.shifts = db.shifts
<1>1. DOMAIN new = RotaFields /\ new.shifts = db.shifts /\ new.serial = db.serial /\ new.offers = db.offers
  BY DEF RotaOK, RotaFields
<1> QED BY <1>1, SameRows

-----------------------------------------------------------------------------
(* What a step does to the requests.                                       *)

\* The slot's request goes on as one that is fit for the rota, and it was not about to check
\* whether the day is complete.
GoesOn(s) ==
    /\ open[s].op # "check"
    /\ \E tx : open' = [open EXCEPT ![s] = tx] /\ TxOK(tx, rota'.offers)
StepOK(s) == Follows(rota, rota') /\ GoesOn(s)

LEMMA PlainTx ==
    ASSUME NEW tx, "op" \in DOMAIN tx, tx.op \in {"none", "closers", "change"}, NEW offers
    PROVE  TxOK(tx, offers)
BY DEF TxOK, OnOffers, OnDays

LEMMA FreeTx == ASSUME NEW offers PROVE TxOK(Free, offers)
BY PlainTx DEF Free

LEMMA ClosersTx == ASSUME NEW days, NEW offers PROVE TxOK(Closers(days), offers)
BY PlainTx DEF Closers

LEMMA BeginGoesOn ==
    ASSUME NEW s, NEW tx, Begin(s, tx), TxOK(tx, rota'.offers)
    PROVE  GoesOn(s)
<1>1. open[s].op # "check"
  BY DEF Begin, Free
<1>2. open' = [open EXCEPT ![s] = tx]
  BY DEF Begin
<1> QED BY <1>1, <1>2 DEF GoesOn

LEMMA EndGoesOn == ASSUME NEW s, End(s), open[s].op # "check" PROVE GoesOn(s)
BY FreeTx DEF End, GoesOn

LEMMA TxKept ==
    ASSUME NEW tx, NEW old, TxOK(tx, old), NEW new, DOMAIN old \subseteq DOMAIN new
    PROVE  TxOK(tx, new)
BY DEF TxOK

\* Every other request stays fit.
LEMMA OpenKept ==
    ASSUME OpenOK, NEW s \in Slots, KeepsTakers(rota.offers, rota'.offers), GoesOn(s)
    PROVE  OpenOK'
<1>1. PICK tx : open' = [open EXCEPT ![s] = tx] /\ TxOK(tx, rota'.offers)
  BY DEF GoesOn
<1>2. DOMAIN open' = Slots /\ open'[s] = tx /\ \A t \in Slots \ {s} : open'[t] = open[t]
  BY <1>1 DEF OpenOK
<1>3. \A t \in Slots \ {s} : TxOK(open[t], rota'.offers)
  BY TxKept DEF OpenOK, KeepsTakers
<1> QED BY <1>1, <1>2, <1>3 DEF OpenOK

LEMMA CommitAsKeeps ==
    ASSUME RotaOK(rota), NEW s, NEW db, NEW next, CommitAs(s, db, next), open[s].op # "check",
           RotaOK(db), KeepsTakers(rota.offers, db.offers), TxOK(next, db.offers)
    PROVE  /\ RotaOK(rota') /\ KeepsTakers(rota.offers, rota'.offers) /\ GoesOn(s)
           /\ rota' = rota \/ (rota' = db /\ open' = [open EXCEPT ![s] = next])
<1>1. CASE rota' = db /\ open' = [open EXCEPT ![s] = next]
  BY <1>1 DEF GoesOn
<1>2. CASE rota' = rota /\ End(s)
  BY <1>2, EndGoesOn DEF KeepsTakers
<1> QED BY <1>1, <1>2 DEF CommitAs

LEMMA Unmoved == ASSUME RotaOK(rota), UNCHANGED rota PROVE Follows(rota, rota')
BY DEF Follows, KeepsTakers, KeepsWorkers

LEMMA CommitAsFollows ==
    ASSUME RotaOK(rota), NEW s, NEW db, NEW next, CommitAs(s, db, next), open[s].op # "check",
           Follows(rota, db), TxOK(next, db.offers)
    PROVE  StepOK(s)
<1>1. /\ RotaOK(rota') /\ KeepsTakers(rota.offers, rota'.offers) /\ GoesOn(s) /\ (rota' = rota \/ rota' = db)
  BY CommitAsKeeps DEF Follows
<1> QED BY <1>1, Unmoved DEF StepOK, Follows

-----------------------------------------------------------------------------
(* The steps that leave offers and the workers of shifts as they are.      *)

\* Requirements, events, availability, leave and publication.
OtherStep(s) ==
    \/ SetNeed(s) \/ DropNeed(s) \/ CopyDay(s) \/ CopyWeek(s) \/ ImportEvents(s) \/ ViewNeeds(s)
    \/ SaveAvailability(s) \/ OverrideAvailability(s) \/ AskLeave(s) \/ WithdrawLeave(s) \/ DecideLeave(s)
    \/ Publish(s) \/ Unpublish(s)

LEMMA OneOfFields ==
    /\ "needs" \in RotaFields \ {"shifts", "serial", "offers"}
    /\ "events" \in RotaFields \ {"shifts", "serial", "offers"}
    /\ "wants" \in RotaFields \ {"shifts", "serial", "offers"}
    /\ "leave" \in RotaFields \ {"shifts", "serial", "offers"}
    /\ "published" \in RotaFields \ {"shifts", "serial", "offers"}
BY DEF RotaFields

LEMMA OtherStepOK ==
    ASSUME RotaOK(rota), NEW s \in Slots, OtherStep(s)
    PROVE  StepOK(s)
<1>1. ASSUME NEW tx, Begin(s, tx), tx = Free \/ \E days : tx = Closers(days),
             NEW f \in RotaFields \ {"shifts", "serial", "offers"}, NEW v, rota' = [rota EXCEPT ![f] = v]
      PROVE  StepOK(s)
  <2>1. Follows(rota, rota')
    BY <1>1, OtherRows
  <2>2. TxOK(tx, rota'.offers)
    BY <1>1, FreeTx, ClosersTx
  <2> QED BY <1>1, <2>1, <2>2, BeginGoesOn DEF StepOK
<1>2. ASSUME NEW v, Begin(s, Free), rota' = [rota EXCEPT !.needs = v] PROVE StepOK(s)
  BY <1>1, <1>2, OneOfFields
<1>3. ASSUME NEW v, Begin(s, Free), rota' = [rota EXCEPT !.wants = v] PROVE StepOK(s)
  BY <1>1, <1>3, OneOfFields
<1>4. ASSUME NEW v, Begin(s, Free), rota' = [rota EXCEPT !.leave = v] PROVE StepOK(s)
  BY <1>1, <1>4, OneOfFields
<1>5. ASSUME NEW v, NEW tx, Begin(s, tx), tx = Free \/ \E days : tx = Closers(days), rota' = [rota EXCEPT !.published = v]
      PROVE  StepOK(s)
  BY <1>1, <1>5, OneOfFields
<1>6. CASE SetNeed(s)
  BY <1>2, <1>6 DEF SetNeed
<1>7. CASE DropNeed(s)
  BY <1>2, <1>7 DEF DropNeed
<1>8. CASE CopyDay(s)
  BY <1>2, <1>8 DEF CopyDay
<1>9. CASE CopyWeek(s)
  BY <1>2, <1>9 DEF CopyWeek
<1>10. CASE ImportEvents(s)
  <2>. DEFINE E == rota.events \cup world.calendar
              N == WithEvents(rota.needs, {e.day : e \in world.calendar}, E)
  <2>1. Begin(s, Free) /\ rota' = [rota EXCEPT !.events = E, !.needs = N]
    BY <1>10 DEF ImportEvents
  <2>. HIDE DEF E, N
  <2>2. /\ DOMAIN rota' = RotaFields /\ rota'.shifts = rota.shifts /\ rota'.serial = rota.serial
        /\ rota'.offers = rota.offers
    BY <2>1 DEF RotaOK, RotaFields
  <2> QED BY <2>1, <2>2, SameRows, BeginGoesOn, FreeTx DEF StepOK
<1>11. CASE ViewNeeds(s)
  BY <1>2, <1>11 DEF ViewNeeds
<1>12. CASE SaveAvailability(s)
  BY <1>3, <1>12 DEF SaveAvailability
<1>13. CASE OverrideAvailability(s)
  BY <1>3, <1>13 DEF OverrideAvailability
<1>14. CASE AskLeave(s)
  BY <1>4, <1>14 DEF AskLeave
<1>15. CASE WithdrawLeave(s)
  BY <1>4, <1>15 DEF WithdrawLeave
<1>16. CASE DecideLeave(s)
  BY <1>4, <1>16 DEF DecideLeave
<1>17. CASE Publish(s)
  BY <1>5, <1>17 DEF Publish
<1>18. CASE Unpublish(s)
  BY <1>5, <1>18 DEF Unpublish
<1> QED BY <1>6, <1>7, <1>8, <1>9, <1>10, <1>11, <1>12, <1>13, <1>14, <1>15, <1>16, <1>17, <1>18 DEF OtherStep

-----------------------------------------------------------------------------
(* The steps that write shifts.                                            *)

LEMMA ShiftIsRow == ASSUME NEW d, NEW p, NEW w, NEW h PROVE DOMAIN Shift(d, p, w, h) = ShiftFields
BY DEF Shift, ShiftFields

LEMMA AddShiftOK == ASSUME RotaOK(rota), NEW s \in Slots, AddShift(s) PROVE StepOK(s)
<1>1. PICK d \in world.days, p \in Positions, w \in Workers, h \in Hours \cup {NoHour} :
          Begin(s, [op |-> "add", row |-> Shift(d, p, w, h)]) /\ UNCHANGED rota
  BY DEF AddShift
<1>2. TxOK([op |-> "add", row |-> Shift(d, p, w, h)], rota'.offers)
  BY ShiftIsRow DEF TxOK, OnOffers, OnDays
<1> QED BY <1>1, <1>2, BeginGoesOn, Unmoved DEF StepOK

LEMMA CommitAddOK == ASSUME RotaOK(rota), OpenOK, NEW s \in Slots, CommitAdd(s) PROVE StepOK(s)
<1>1. open[s].op = "add" /\ CommitAs(s, With(rota, open[s].row), Closers(<<open[s].row.day>>))
  BY DEF CommitAdd, Running
<1>2. DOMAIN open[s].row = ShiftFields
  BY <1>1 DEF OpenOK, TxOK
<1>3. Follows(rota, With(rota, open[s].row))
  BY <1>2, WithFollows
<1>4. TxOK(Closers(<<open[s].row.day>>), With(rota, open[s].row).offers)
  BY ClosersTx
<1>5. open[s].op # "check"
  BY <1>1
<1> QED BY <1>1, <1>3, <1>4, <1>5, CommitAsFollows

LEMMA ChangeShiftOK == ASSUME RotaOK(rota), NEW s \in Slots, ChangeShift(s) PROVE StepOK(s)
<1>. DEFINE Row(i, d, p, w, h) == [rota.shifts[i] EXCEPT !.day = d, !.position = p, !.worker = w, !.hour = h]
            Tx(i, d, p, w, h) == [op |-> "change", id |-> i, was |-> rota.shifts[i], row |-> Row(i, d, p, w, h)]
<1>1. PICK i \in LiveShifts, d \in world.days, p \in Positions, w \in Workers, h \in Hours :
          Begin(s, Tx(i, d, p, w, h)) /\ UNCHANGED rota
  BY ZenonT(60) DEF ChangeShift
<1>2. TxOK(Tx(i, d, p, w, h), rota'.offers)
  BY PlainTx
<1> QED BY <1>1, <1>2, BeginGoesOn, Unmoved DEF StepOK

\* A step that ends, or goes on to say who closes, after it took shifts away.
LEMMA TakesAway ==
    ASSUME RotaOK(rota), NEW s, NEW tx, Begin(s, tx), tx = Free \/ \E days : tx = Closers(days),
           NEW ids, rota' = Without(rota, ids)
    PROVE  StepOK(s)
<1>1. Follows(rota, rota') /\ TxOK(tx, rota'.offers)
  BY WithoutFollows, FreeTx, ClosersTx
<1> QED BY <1>1, BeginGoesOn DEF StepOK

\* A step that writes columns of shifts, of none who works it.
LEMMA WritesColumns ==
    ASSUME RotaOK(rota), NEW s, GoesOn(s),
           NEW shifts, DOMAIN shifts = DOMAIN rota.shifts,
           \A i \in DOMAIN shifts : DOMAIN shifts[i] = ShiftFields /\ shifts[i].worker = rota.shifts[i].worker,
           rota' = [rota EXCEPT !.shifts = shifts]
    PROVE  StepOK(s)
<1>1. KeepsWorkers(rota.shifts, shifts)
  BY DEF KeepsWorkers
<1> QED BY <1>1, WrittenShifts DEF StepOK

LEMMA ShiftWritten ==
    ASSUME NEW row, DOMAIN row = ShiftFields, NEW f \in ShiftFields \ {"worker"}, NEW v
    PROVE  DOMAIN [row EXCEPT ![f] = v] = ShiftFields /\ [row EXCEPT ![f] = v].worker = row.worker
BY DEF ShiftFields

LEMMA CloseByHandOK == ASSUME RotaOK(rota), NEW s \in Slots, CloseByHand(s) PROVE StepOK(s)
<1>1. PICK i \in LiveShifts :
          /\ Begin(s, Free)
          /\ rota' = [rota EXCEPT !.shifts = [j \in DOMAIN rota.shifts |->
                        IF rota.shifts[j].day = rota.shifts[i].day
                        THEN [rota.shifts[j] EXCEPT !.closes = j = i, !.manual = j = i] ELSE rota.shifts[j]]]
  BY DEF CloseByHand
<1>. DEFINE shifts == [j \in DOMAIN rota.shifts |->
                        IF rota.shifts[j].day = rota.shifts[i].day
                        THEN [rota.shifts[j] EXCEPT !.closes = j = i, !.manual = j = i] ELSE rota.shifts[j]]
<1>2. ASSUME NEW j \in DOMAIN rota.shifts
      PROVE  DOMAIN shifts[j] = ShiftFields /\ shifts[j].worker = rota.shifts[j].worker
  <2>1. DOMAIN rota.shifts[j] = ShiftFields
    BY DEF RotaOK, ShiftsOK
  <2> QED BY <2>1 DEF ShiftFields
<1>3. DOMAIN shifts = DOMAIN rota.shifts
  OBVIOUS
<1>. HIDE DEF shifts
<1>4. GoesOn(s)
  BY <1>1, BeginGoesOn, FreeTx
<1> QED BY <1>1, <1>2, <1>3, <1>4, WritesColumns DEF shifts

LEMMA CloseByRuleOK == ASSUME RotaOK(rota), NEW s \in Slots, CloseByRule(s) PROVE StepOK(s)
<1>1. PICK i \in LiveShifts : Begin(s, Closers(<<rota.shifts[i].day>>)) /\ rota' = [rota EXCEPT !.shifts[i].manual = FALSE]
  BY DEF CloseByRule
<1>. DEFINE row == [rota.shifts[i] EXCEPT !.manual = FALSE]
<1>2. \A j \in DOMAIN rota.shifts : DOMAIN rota.shifts[j] = ShiftFields
  BY DEF RotaOK, ShiftsOK
<1>3. DOMAIN row = ShiftFields /\ row.worker = rota.shifts[i].worker
  BY <1>2 DEF LiveShifts, ShiftFields
<1>4. rota' = [rota EXCEPT !.shifts = [rota.shifts EXCEPT ![i] = row]]
  BY <1>1 DEF RotaOK, RotaFields, LiveShifts
<1>. HIDE DEF row
<1>. DEFINE new == [rota.shifts EXCEPT ![i] = row]
<1>5. /\ DOMAIN new = DOMAIN rota.shifts
      /\ \A j \in DOMAIN new : DOMAIN new[j] = ShiftFields /\ new[j].worker = rota.shifts[j].worker
  BY <1>2, <1>3 DEF LiveShifts
<1>. HIDE DEF new
<1>6. GoesOn(s)
  BY <1>1, BeginGoesOn, ClosersTx
<1> QED BY <1>4, <1>5, <1>6, WritesColumns DEF new

LEMMA ReadClosersOK == ASSUME RotaOK(rota), OpenOK, NEW s \in Slots, ReadClosers(s) PROVE StepOK(s)
<1>1. PICK rows : open' = [open EXCEPT ![s].read = TRUE, ![s].rows = rows]
  BY DEF ReadClosers
<1>2. open[s].op = "closers" /\ UNCHANGED rota /\ "op" \in DOMAIN open[s]
  BY DEF ReadClosers, Running, OpenOK, TxOK
<1>. DEFINE tx == [open[s] EXCEPT !.read = TRUE, !.rows = rows]
<1>3. open' = [open EXCEPT ![s] = tx]
  BY <1>1 DEF OpenOK
<1>4. "op" \in DOMAIN tx /\ tx.op = "closers"
  BY <1>2
<1>. HIDE DEF tx
<1>5. TxOK(tx, rota'.offers)
  BY <1>4, PlainTx
<1>6. GoesOn(s)
  BY <1>2, <1>3, <1>5 DEF GoesOn
<1> QED BY <1>2, <1>6, Unmoved DEF StepOK

LEMMA WriteClosersOK == ASSUME RotaOK(rota), NEW s \in Slots, WriteClosers(s) PROVE StepOK(s)
<1>1. open[s].op = "closers"
  BY DEF WriteClosers, Running
<1>2. CASE End(s) /\ UNCHANGED rota
  BY <1>1, <1>2, EndGoesOn, Unmoved DEF StepOK
<1>3. CASE ~(End(s) /\ UNCHANGED rota)
  <2>. DEFINE seen == open[s].rows
              closing == Closing(seen)
              changed == {i \in DOMAIN seen : seen[i].closes # (i \in closing)}
  <2>1. /\ rota' = [rota EXCEPT !.shifts = [i \in DOMAIN rota.shifts |->
                   IF i \in changed THEN [rota.shifts[i] EXCEPT !.closes = i \in closing] ELSE rota.shifts[i]]]
        /\ open' = [open EXCEPT ![s] = RestOf(s)]
    BY <1>3 DEF WriteClosers
  <2>. HIDE DEF closing, changed
  <2>. DEFINE shifts == [i \in DOMAIN rota.shifts |->
                   IF i \in changed THEN [rota.shifts[i] EXCEPT !.closes = i \in closing] ELSE rota.shifts[i]]
  <2>2. ASSUME NEW i \in DOMAIN rota.shifts
        PROVE  DOMAIN shifts[i] = ShiftFields /\ shifts[i].worker = rota.shifts[i].worker
    <3>1. DOMAIN rota.shifts[i] = ShiftFields
      BY DEF RotaOK, ShiftsOK
    <3> QED BY <3>1 DEF ShiftFields
  <2>3. DOMAIN shifts = DOMAIN rota.shifts
    OBVIOUS
  <2>4. rota' = [rota EXCEPT !.shifts = shifts]
    BY <2>1
  <2>. HIDE DEF shifts
  <2>5. TxOK(RestOf(s), rota'.offers)
    BY FreeTx, ClosersTx DEF RestOf
  <2>6. GoesOn(s)
    BY <1>1, <2>1, <2>5 DEF GoesOn
  <2> QED BY <2>2, <2>3, <2>4, <2>6, WritesColumns
<1> QED BY <1>2, <1>3

LEMMA RemovalsOK ==
    ASSUME RotaOK(rota), NEW s \in Slots, RemoveShift(s) \/ ClearShifts(s) \/ ChefRemoves(s)
    PROVE  StepOK(s)
<1>1. CASE RemoveShift(s)
  BY <1>1, TakesAway DEF RemoveShift
<1>2. CASE ClearShifts(s)
  BY <1>2, TakesAway DEF ClearShifts
<1>3. CASE ChefRemoves(s)
  BY <1>3, TakesAway DEF ChefRemoves
<1> QED BY <1>1, <1>2, <1>3

LEMMA ChefAddsOK == ASSUME RotaOK(rota), NEW s \in Slots, ChefAdds(s) PROVE StepOK(s)
<1>1. PICK d \in world.days, w \in Kitchen, h \in Hours, closes \in BOOLEAN :
          /\ rota' = With(rota, [Shift(d, KitchenPosition, w, h) EXCEPT !.closes = closes])
          /\ Begin(s, Free)
  BY DEF ChefAdds
<1>. DEFINE row == [Shift(d, KitchenPosition, w, h) EXCEPT !.closes = closes]
<1>2. DOMAIN row = ShiftFields
  BY ShiftIsRow, ShiftWritten DEF ShiftFields
<1>. HIDE DEF row
<1>3. Follows(rota, With(rota, row))
  BY <1>2, WithFollows
<1>4. rota' = With(rota, row) /\ GoesOn(s)
  BY <1>1, BeginGoesOn, FreeTx DEF row
<1> QED BY <1>3, <1>4 DEF StepOK

LEMMA ChefChangesOK == ASSUME RotaOK(rota), NEW s \in Slots, ChefChanges(s) PROVE StepOK(s)
<1>1. PICK i \in LiveShifts, h \in Hours, closes \in BOOLEAN :
          Begin(s, Free) /\ rota' = [rota EXCEPT !.shifts[i].hour = h, !.shifts[i].closes = closes]
  BY DEF ChefChanges
<1>. DEFINE row == [rota.shifts[i] EXCEPT !.hour = h, !.closes = closes]
<1>2. \A j \in DOMAIN rota.shifts : DOMAIN rota.shifts[j] = ShiftFields
  BY DEF RotaOK, ShiftsOK
<1>3. DOMAIN row = ShiftFields /\ row.worker = rota.shifts[i].worker
  BY <1>2 DEF LiveShifts, ShiftFields
<1>4. rota' = [rota EXCEPT !.shifts = [rota.shifts EXCEPT ![i] = row]]
  BY <1>1 DEF RotaOK, RotaFields, LiveShifts
<1>. HIDE DEF row
<1>. DEFINE new == [rota.shifts EXCEPT ![i] = row]
<1>5. /\ DOMAIN new = DOMAIN rota.shifts
      /\ \A j \in DOMAIN new : DOMAIN new[j] = ShiftFields /\ new[j].worker = rota.shifts[j].worker
  BY <1>2, <1>3 DEF LiveShifts
<1>. HIDE DEF new
<1>6. GoesOn(s)
  BY <1>1, BeginGoesOn, FreeTx
<1> QED BY <1>4, <1>5, <1>6, WritesColumns DEF new

LEMMA AutoAssignOK == ASSUME RotaOK(rota), NEW s \in Slots, AutoAssign(s) PROVE StepOK(s)
<1>1. PICK days, needs, rows :
          /\ Len(rows) \in 0..(2 * MaxShifts)
          /\ Begin(s, [op |-> "auto", days |-> days, rows |-> rows])
          /\ rota' = [rota EXCEPT !.needs = needs]
  BY DEF AutoAssign
<1>2. Len(rows) \in Nat
  BY <1>1, RotaAssumption
<1>3. TxOK([op |-> "auto", days |-> days, rows |-> rows], rota'.offers)
  BY <1>2 DEF TxOK, OnOffers, OnDays
<1>4. Follows(rota, rota')
  BY <1>1, OtherRows, OneOfFields
<1> QED BY <1>1, <1>3, <1>4, BeginGoesOn DEF StepOK

LEMMA CommitAutoOK == ASSUME RotaOK(rota), OpenOK, NEW s \in Slots, CommitAuto(s) PROVE StepOK(s)
<1>. DEFINE rows == open[s].rows
            new == [k \in 1..Len(rows) |-> Shift(rows[k].day, rows[k].position, rows[k].worker, rows[k].hour)]
            db == WithAll(rota, new)
<1>1. PICK published, days :
          /\ open[s].op = "auto" /\ CommitAs(s, [db EXCEPT !.published = published], Closers(days))
  BY DEF CommitAuto, Running
<1>2. Len(rows) \in Nat
  BY <1>1 DEF OpenOK, TxOK
<1>3. Len(new) = Len(rows) /\ \A k \in 1..Len(new) : DOMAIN new[k] = ShiftFields
  <2>. DEFINE n == Len(rows)
              S == {new[k] : k \in 1..n}
  <2>1. \A k \in 1..n : DOMAIN new[k] = ShiftFields
    BY ShiftIsRow
  <2>2. n \in Nat /\ new \in [1..n -> S]
    BY <1>2
  <2>. HIDE DEF new, n
  <2>3. new \in Seq(S)
    BY <2>2, SeqDef
  <2>4. Len(new) = n
    BY <2>2, <2>3, LenProperties
  <2> QED BY <2>1, <2>4 DEF n
<1>. HIDE DEF new
<1>4. Follows(rota, db)
  BY <1>2, <1>3, WithAllFollows
<1>. HIDE DEF db
<1>. DEFINE db2 == [db EXCEPT !.published = published]
<1>5. RotaOK(db)
  BY <1>4 DEF Follows
<1>6. DOMAIN db2 = RotaFields /\ db2.shifts = db.shifts /\ db2.serial = db.serial /\ db2.offers = db.offers
  BY <1>5 DEF RotaOK, RotaFields
<1>. HIDE DEF db2
<1>7. Follows(rota, db2)
  BY <1>4, <1>5, <1>6 DEF Follows, RotaOK
<1> QED BY <1>1, <1>7, CommitAsFollows, ClosersTx DEF db2

-----------------------------------------------------------------------------
(* The exchange, and the planner's change of a shift.                      *)

LEMMA ListAppended ==
    ASSUME NEW q, IsList(q), NEW e
    PROVE  /\ IsList(Append(q, e)) /\ DOMAIN q \subseteq DOMAIN Append(q, e)
           /\ \A k \in DOMAIN q : Append(q, e)[k] = q[k]
           /\ \A k \in DOMAIN Append(q, e) : k \in DOMAIN q \/ Append(q, e)[k] = e
<1>. DEFINE S == {q[k] : k \in DOMAIN q} \cup {e}
<1>1. PICK n \in Nat : DOMAIN q = 1..n
  BY DEF IsList
<1>2. q \in [1..n -> S]
  BY <1>1 DEF IsList
<1>. HIDE DEF S
<1>3. q \in Seq(S)
  BY <1>2, SeqDef
<1>4. e \in S
  BY DEF S
<1>5. Len(q) = n /\ DOMAIN q = 1..Len(q)
  BY <1>1, <1>3, LenProperties
<1>6. /\ Append(q, e) \in Seq(S) /\ Len(Append(q, e)) = n + 1
      /\ \A k \in 1..n : Append(q, e)[k] = q[k]
      /\ Append(q, e)[n + 1] = e
  BY <1>3, <1>4, <1>5, AppendProperties
<1>7. Append(q, e) \in [1..(n + 1) -> S] /\ DOMAIN Append(q, e) = 1..(n + 1)
  BY <1>6, LenProperties
<1>8. IsList(Append(q, e))
  <2>. DEFINE a == Append(q, e)
  <2>. HIDE DEF a
  <2>1. a \in [1..(n + 1) -> S] /\ DOMAIN a = 1..(n + 1) /\ n + 1 \in Nat
    BY <1>1, <1>7 DEF a
  <2>2. a = [k \in DOMAIN a |-> a[k]]
    BY <2>1
  <2>3. IsList(a)
    BY <2>1, <2>2 DEF IsList
  <2> QED BY <2>3 DEF a
<1> QED BY <1>1, <1>6, <1>7, <1>8

LEMMA OfferWritten ==
    ASSUME NEW db, RotaOK(db), NEW o \in DOMAIN db.offers, NEW row, DOMAIN row = OfferFields,
           row.status = "open" => row.taker = 0,
           db.offers[o].taker # 0 /\ row.taker # 0 => db.offers[o].taker = row.taker,
           NEW new, new = [db EXCEPT !.offers = [db.offers EXCEPT ![o] = row]]
    PROVE  Follows(db, new)
<1>. DEFINE offers == [db.offers EXCEPT ![o] = row]
<1>1. DOMAIN offers = DOMAIN db.offers /\ offers[o] = row /\ \A p \in DOMAIN db.offers \ {o} : offers[p] = db.offers[p]
  OBVIOUS
<1>2. offers = [p \in DOMAIN offers |-> offers[p]]
  OBVIOUS
<1>. HIDE DEF offers
<1>3. OffersOK(offers)
  BY <1>1, <1>2 DEF RotaOK, OffersOK, IsList
<1>4. KeepsTakers(db.offers, offers)
  BY <1>1 DEF KeepsTakers
<1> QED BY <1>3, <1>4, WrittenOffers DEF offers

LEMMA OfferIsRow == ASSUME NEW i, NEW by PROVE DOMAIN Offered(i, by) = OfferFields /\ Offered(i, by).taker = 0
BY DEF Offered, OfferFields

LEMMA OfferShiftOK == ASSUME RotaOK(rota), NEW s \in Slots, OfferShift(s) PROVE StepOK(s)
<1>1. PICK i \in LiveShifts :
          Begin(s, Free) /\ rota' = [rota EXCEPT !.offers = Append(rota.offers, Offered(i, rota.shifts[i].worker))]
  BY DEF OfferShift
<1>. DEFINE e == Offered(i, rota.shifts[i].worker)
            offers == Append(rota.offers, e)
<1>2. DOMAIN e = OfferFields /\ e.taker = 0
  BY OfferIsRow
<1>. HIDE DEF e
<1>3. /\ IsList(offers) /\ DOMAIN rota.offers \subseteq DOMAIN offers
      /\ \A k \in DOMAIN rota.offers : offers[k] = rota.offers[k]
      /\ \A k \in DOMAIN offers : k \in DOMAIN rota.offers \/ offers[k] = e
  BY ListAppended DEF RotaOK, OffersOK
<1>4. rota' = [rota EXCEPT !.offers = offers]
  BY <1>1 DEF e
<1>. HIDE DEF offers
<1>5. OffersOK(offers) /\ KeepsTakers(rota.offers, offers)
  BY <1>2, <1>3 DEF RotaOK, OffersOK, KeepsTakers
<1>6. Follows(rota, rota')
  BY <1>4, <1>5, WrittenOffers
<1> QED BY <1>1, <1>6, BeginGoesOn, FreeTx DEF StepOK

\* Decisions that are only read here, and written by a step of their own.
LEMMA DecisionTx ==
    ASSUME NEW tx, "op" \in DOMAIN tx, tx.op \in OnOffers, NEW offers, tx.id \in DOMAIN offers
    PROVE  TxOK(tx, offers)
BY DEF TxOK, OnOffers, OnDays

LEMMA DecisionsOK ==
    ASSUME RotaOK(rota), NEW s \in Slots,
           TakeOffer(s) \/ WithdrawOffer(s) \/ RejectTaker(s) \/ AcceptTaker(s)
    PROVE  StepOK(s)
<1>1. ASSUME NEW tx, "op" \in DOMAIN tx, tx.op \in OnOffers, tx.id \in DOMAIN rota.offers, Begin(s, tx), UNCHANGED rota
      PROVE  StepOK(s)
  BY <1>1, DecisionTx, BeginGoesOn, Unmoved DEF StepOK
<1>2. CASE TakeOffer(s)
  <2>1. PICK o \in DOMAIN rota.offers, w \in Workers :
            Begin(s, [op |-> "take", id |-> o, worker |-> w]) /\ UNCHANGED rota
    BY <1>2 DEF TakeOffer
  <2> QED BY <1>1, <2>1 DEF OnOffers
<1>3. CASE WithdrawOffer(s)
  BY <1>1, <1>3 DEF WithdrawOffer, OnOffers
<1>4. CASE RejectTaker(s)
  BY <1>1, <1>4 DEF RejectTaker, OnOffers
<1>5. CASE AcceptTaker(s)
  <2>1. PICK o, w :
            o \in DOMAIN rota.offers /\ Begin(s, [op |-> "accept", id |-> o, worker |-> w]) /\ UNCHANGED rota
    BY <1>5 DEF AcceptTaker
  <2> QED BY <1>1, <2>1 DEF OnOffers
<1> QED BY <1>2, <1>3, <1>4, <1>5

LEMMA CommitTakeOK == ASSUME RotaOK(rota), OpenOK, NEW s \in Slots, CommitTake(s) PROVE StepOK(s)
<1>. DEFINE o == open[s].id
            w == open[s].worker
            row == [rota.offers[o] EXCEPT !.status = "taken", !.taker = w]
<1>1. open[s].op = "take" /\ End(s)
  BY DEF CommitTake, Running
<1>2. GoesOn(s)
  BY <1>1, EndGoesOn
<1>3. o \in DOMAIN rota.offers
  BY <1>1 DEF OpenOK, TxOK, OnOffers
<1>4. CASE rota.offers[o].status = "open"
  <2>1. rota.offers[o].taker = 0 /\ DOMAIN rota.offers[o] = OfferFields
    BY <1>3, <1>4 DEF RotaOK, OffersOK
  <2>2. rota' = [rota EXCEPT !.offers[o].status = "taken", !.offers[o].taker = w]
    BY <1>4 DEF CommitTake
  <2>. HIDE DEF o, w
  <2>3. rota' = [rota EXCEPT !.offers = [rota.offers EXCEPT ![o] = row]]
    BY <1>3, <2>2 DEF RotaOK, RotaFields
  <2>4. DOMAIN row = OfferFields /\ row.status = "taken"
    BY <2>1 DEF OfferFields
  <2>. HIDE DEF row
  <2>5. Follows(rota, rota')
    BY <1>3, <2>1, <2>3, <2>4, OfferWritten
  <2> QED BY <1>2, <2>5 DEF StepOK
<1>5. CASE rota.offers[o].status # "open"
  BY <1>2, <1>5, Unmoved DEF CommitTake, StepOK
<1> QED BY <1>4, <1>5

LEMMA CommitWithdrawOK == ASSUME RotaOK(rota), OpenOK, NEW s \in Slots, CommitWithdraw(s) PROVE StepOK(s)
<1>. DEFINE o == open[s].id
            row == [rota.offers[o] EXCEPT !.status = "withdrawn"]
<1>1. open[s].op = "withdraw" /\ End(s)
  BY DEF CommitWithdraw, Running
<1>2. GoesOn(s)
  BY <1>1, EndGoesOn
<1>3. o \in DOMAIN rota.offers
  BY <1>1 DEF OpenOK, TxOK, OnOffers
<1>4. CASE LiveOffer(o)
  <2>1. rota' = [rota EXCEPT !.offers[o].status = "withdrawn"]
    BY <1>4 DEF CommitWithdraw
  <2>2. DOMAIN rota.offers[o] = OfferFields
    BY <1>3 DEF RotaOK, OffersOK
  <2>. HIDE DEF o
  <2>3. rota' = [rota EXCEPT !.offers = [rota.offers EXCEPT ![o] = row]]
    BY <1>3, <2>1 DEF RotaOK, RotaFields
  <2>4. DOMAIN row = OfferFields /\ row.status = "withdrawn" /\ row.taker = rota.offers[o].taker
    BY <2>2 DEF OfferFields
  <2>. HIDE DEF row
  <2>5. Follows(rota, rota')
    BY <1>3, <2>3, <2>4, OfferWritten
  <2> QED BY <1>2, <2>5 DEF StepOK
<1>5. CASE ~LiveOffer(o)
  BY <1>2, <1>5, Unmoved DEF CommitWithdraw, StepOK
<1> QED BY <1>4, <1>5

LEMMA CommitRejectOK == ASSUME RotaOK(rota), OpenOK, NEW s \in Slots, CommitReject(s) PROVE StepOK(s)
<1>. DEFINE o == open[s].id
            row == [rota.offers[o] EXCEPT !.status = "open", !.taker = 0]
<1>1. open[s].op = "reject" /\ End(s)
  BY DEF CommitReject, Running
<1>2. GoesOn(s)
  BY <1>1, EndGoesOn
<1>3. o \in DOMAIN rota.offers
  BY <1>1 DEF OpenOK, TxOK, OnOffers
<1>4. CASE LiveOffer(o)
  <2>1. rota' = [rota EXCEPT !.offers[o].status = "open", !.offers[o].taker = 0]
    BY <1>4 DEF CommitReject
  <2>2. DOMAIN rota.offers[o] = OfferFields
    BY <1>3 DEF RotaOK, OffersOK
  <2>. HIDE DEF o
  <2>3. rota' = [rota EXCEPT !.offers = [rota.offers EXCEPT ![o] = row]]
    BY <1>3, <2>1 DEF RotaOK, RotaFields
  <2>4. DOMAIN row = OfferFields /\ row.taker = 0
    BY <2>2 DEF OfferFields
  <2>. HIDE DEF row
  <2>5. Follows(rota, rota')
    BY <1>3, <2>3, <2>4, OfferWritten
  <2> QED BY <1>2, <2>5 DEF StepOK
<1>5. CASE ~LiveOffer(o)
  BY <1>2, <1>5, Unmoved DEF CommitReject, StepOK
<1> QED BY <1>4, <1>5

\* A shift changes hands only by the planner, or with an offer that waited and is accepted.
Moves ==
    \A i \in DOMAIN rota.shifts \cap DOMAIN rota'.shifts :
        rota'.shifts[i].worker # rota.shifts[i].worker =>
            \/ \E s \in Slots : Running(s, "change") /\ open'[s] # open[s]
            \/ \E o \in DOMAIN rota.offers : /\ rota.offers[o].shift = i /\ rota.offers[o].status = "taken"
                                             /\ rota'.offers[o].status = "accepted"
StepKeeps(s) == RotaOK(rota') /\ KeepsTakers(rota.offers, rota'.offers) /\ Moves /\ GoesOn(s)

LEMMA FollowingKeeps == ASSUME NEW s, StepOK(s) PROVE StepKeeps(s)
BY DEF StepOK, StepKeeps, Follows, KeepsWorkers, Moves

LEMMA CommitChangeKeeps == ASSUME RotaOK(rota), OpenOK, NEW s \in Slots, CommitChange(s) PROVE StepKeeps(s)
<1>. DEFINE tx == open[s]
            row == Merged(tx.was, tx.row, rota.shifts[tx.id])
            shifts == [rota.shifts EXCEPT ![tx.id] = row]
            db == [rota EXCEPT !.shifts = shifts]
<1>1. open[s].op = "change" /\ open[s].op # "check"
  BY DEF CommitChange, Running
<1>2. CASE tx.id \in LiveShifts
  <2>1. PICK days : CommitAs(s, [rota EXCEPT !.shifts[tx.id] = row], Closers(days))
    BY <1>2 DEF CommitChange
  <2>2. \A i \in DOMAIN rota.shifts : DOMAIN rota.shifts[i] = ShiftFields
    BY DEF RotaOK, ShiftsOK
  <2>3. DOMAIN row = ShiftFields
    BY <1>2, <2>2 DEF Merged, LiveShifts
  <2>. HIDE DEF row
  <2>4. DOMAIN shifts = DOMAIN rota.shifts /\ \A i \in DOMAIN shifts : DOMAIN shifts[i] = ShiftFields
    BY <2>2, <2>3
  <2>5. [rota EXCEPT !.shifts[tx.id] = row] = db
    OBVIOUS
  <2>. HIDE DEF shifts
  <2>6. RotaOK(db) /\ KeepsTakers(rota.offers, db.offers)
    BY <2>4, WrittenShifts
  <2>. HIDE DEF db
  <2>7. CommitAs(s, db, Closers(days)) /\ TxOK(Closers(days), db.offers)
    BY <2>1, <2>5, ClosersTx
  <2>8. /\ RotaOK(rota') /\ KeepsTakers(rota.offers, rota'.offers) /\ GoesOn(s)
        /\ rota' = rota \/ open' = [open EXCEPT ![s] = Closers(days)]
    BY <1>1, <2>6, <2>7, CommitAsKeeps
  <2>9. open' = [open EXCEPT ![s] = Closers(days)] => Running(s, "change") /\ open'[s] # open[s]
    <3>1. Closers(days).op # "change"
      BY DEF Closers
    <3>2. s \in DOMAIN open
      BY DEF OpenOK
    <3> QED BY <1>1, <3>1, <3>2 DEF Running
  <2>10. Moves
    BY <2>8, <2>9 DEF Moves
  <2> QED BY <2>8, <2>10 DEF StepKeeps
<1>3. CASE tx.id \notin LiveShifts
  <2>1. End(s) /\ UNCHANGED rota
    BY <1>3 DEF CommitChange
  <2> QED BY <1>1, <2>1, EndGoesOn, Unmoved, FollowingKeeps DEF StepOK
<1> QED BY <1>2, <1>3

LEMMA CommitAcceptKeeps == ASSUME RotaOK(rota), OpenOK, NEW s \in Slots, CommitAccept(s) PROVE StepKeeps(s)
<1>. DEFINE o == open[s].id
            w == open[s].worker
            j == rota.offers[o].shift
            offer == [rota.offers[o] EXCEPT !.status = "accepted"]
            offers == [rota.offers EXCEPT ![o] = offer]
            mid == [rota EXCEPT !.offers = offers]
            row == [rota.shifts[j] EXCEPT !.worker = w]
            shifts == [rota.shifts EXCEPT ![j] = row]
            db == [mid EXCEPT !.shifts = shifts]
<1>1. open[s].op = "accept" /\ open[s].op # "check"
  BY DEF CommitAccept, Running
<1>2. o \in DOMAIN rota.offers
  BY <1>1 DEF OpenOK, TxOK, OnOffers
<1>3. CASE rota.offers[o].status # "taken"
  <2>1. End(s) /\ UNCHANGED rota
    BY <1>3 DEF CommitAccept
  <2> QED BY <1>1, <2>1, EndGoesOn, Unmoved, FollowingKeeps DEF StepOK
<1>4. CASE rota.offers[o].status = "taken"
  <2>1. CommitAs(s, Accepted(o, w), Free)
    BY <1>4 DEF CommitAccept
  <2>2. /\ DOMAIN rota.offers[o] = OfferFields
        /\ \A i \in DOMAIN rota.shifts : DOMAIN rota.shifts[i] = ShiftFields
    BY <1>2 DEF RotaOK, OffersOK, ShiftsOK
  <2>. HIDE DEF o, w
  <2>3. Accepted(o, w) = db
    BY <1>2 DEF Accepted, RotaOK, RotaFields
  <2>4. DOMAIN offer = OfferFields /\ offer.status = "accepted" /\ offer.taker = rota.offers[o].taker
    BY <2>2 DEF OfferFields
  <2>. HIDE DEF j, offer
  <2>5. Follows(rota, mid)
    BY <1>2, <2>4, OfferWritten
  <2>6. mid.offers = offers /\ mid.shifts = rota.shifts /\ offers[o].status = "accepted"
    BY <1>2, <2>4 DEF RotaOK, RotaFields
  <2>. HIDE DEF mid, offers
  <2>7. /\ DOMAIN shifts = DOMAIN rota.shifts /\ \A i \in DOMAIN shifts : DOMAIN shifts[i] = ShiftFields
        /\ \A i \in DOMAIN shifts \ {j} : shifts[i] = rota.shifts[i]
    <3>1. j \in DOMAIN rota.shifts => DOMAIN row = ShiftFields
      BY <2>2 DEF ShiftFields
    <3>. HIDE DEF row
    <3> QED BY <2>2, <3>1
  <2>. HIDE DEF shifts
  <2>8. RotaOK(db) /\ db.offers = offers /\ db.shifts = shifts
    BY <2>5, <2>6, <2>7, WrittenShifts DEF Follows
  <2>. HIDE DEF db
  <2>9. KeepsTakers(rota.offers, db.offers)
    BY <2>5, <2>6, <2>8 DEF Follows
  <2>10. /\ RotaOK(rota') /\ KeepsTakers(rota.offers, rota'.offers) /\ GoesOn(s)
         /\ rota' = rota \/ rota' = db
    BY <1>1, <2>1, <2>3, <2>8, <2>9, FreeTx, CommitAsKeeps
  <2>11. Moves
    BY <1>2, <1>4, <2>6, <2>7, <2>8, <2>10 DEF Moves, j
  <2> QED BY <2>10, <2>11 DEF StepKeeps
<1> QED BY <1>3, <1>4

LEMMA RotaStepKeeps == ASSUME RotaOK(rota), OpenOK, NEW s \in Slots, RotaStep(s) PROVE StepKeeps(s)
<1>1. CASE OtherStep(s)
  BY <1>1, OtherStepOK, FollowingKeeps
<1>2. CASE AddShift(s) \/ CommitAdd(s) \/ ChangeShift(s) \/ CloseByHand(s) \/ CloseByRule(s)
  BY <1>2, AddShiftOK, CommitAddOK, ChangeShiftOK, CloseByHandOK, CloseByRuleOK, FollowingKeeps
<1>3. CASE RemoveShift(s) \/ ClearShifts(s) \/ ChefRemoves(s)
  BY <1>3, RemovalsOK, FollowingKeeps
<1>4. CASE ReadClosers(s) \/ WriteClosers(s) \/ ChefAdds(s) \/ ChefChanges(s) \/ AutoAssign(s) \/ CommitAuto(s)
  BY <1>4, ReadClosersOK, WriteClosersOK, ChefAddsOK, ChefChangesOK, AutoAssignOK, CommitAutoOK, FollowingKeeps
<1>5. CASE TakeOffer(s) \/ WithdrawOffer(s) \/ RejectTaker(s) \/ AcceptTaker(s)
  BY <1>5, DecisionsOK, FollowingKeeps
<1>6. CASE OfferShift(s) \/ CommitTake(s) \/ CommitWithdraw(s) \/ CommitReject(s)
  BY <1>6, OfferShiftOK, CommitTakeOK, CommitWithdrawOK, CommitRejectOK, FollowingKeeps
<1>7. CASE CommitChange(s) \/ CommitAccept(s)
  BY <1>7, CommitChangeKeeps, CommitAcceptKeeps
<1> QED BY <1>1, <1>2, <1>3, <1>4, <1>5, <1>6, <1>7 DEF RotaStep, OtherStep

-----------------------------------------------------------------------------
(* The steps of the settlement, as to the rota and the requests.           *)

LEMMA BuildTx ==
    ASSUME NEW d \in Days, NEW next \in {"view", "page", "save", "report", "ask"}, NEW carried, NEW offers
    PROVE  TxOK(Build(d, next, carried), offers)
BY DEF TxOK, OnOffers, OnDays, Build

\* Requests on a day that hold nothing a later step of the rota could spoil.
LEMMA DayTx ==
    ASSUME NEW tx, "op" \in DOMAIN tx, tx.op \in {"page", "save", "report", "check", "ask"}, tx.day \in Days, NEW offers
    PROVE  TxOK(tx, offers)
BY DEF TxOK, OnOffers, OnDays

\* The steps by which a request begins to build a day's settlement.
Starts(s) == \E d, next, carried :
                 /\ d \in world.days /\ next \in {"view", "page", "save", "report", "ask"}
                 /\ Begin(s, Build(d, next, carried))

LEMMA StartsGoOn == ASSUME world \in Worlds, NEW s, Starts(s) PROVE GoesOn(s)
<1>1. world.days \subseteq Days
  BY RotaAssumption
<1>2. PICK d, next, carried : /\ d \in world.days /\ next \in {"view", "page", "save", "report", "ask"}
                              /\ Begin(s, Build(d, next, carried))
  BY DEF Starts
<1> QED BY <1>1, <1>2, BuildTx, BeginGoesOn

LEMMA ReadBookGoesOn == ASSUME OpenOK, NEW s \in Slots, ReadBook(s) PROVE GoesOn(s)
<1>. DEFINE first == ~books[open[s].day].made
            missing == IF world.pool THEN {}
                       ELSE WaitersOf(open[s].day) \ {books[open[s].day].rows[k].worker : k \in DOMAIN books[open[s].day].rows}
<1>1. /\ open' = [open EXCEPT ![s].read = TRUE, ![s].first = first, ![s].missing = missing]
      /\ missing \subseteq Workers
  BY DEF ReadBook, WaitersOf
<1>. HIDE DEF first, missing
<1>. DEFINE tx == [open[s] EXCEPT !.read = TRUE, !.first = first, !.missing = missing]
<1>2. open[s].op = "build" /\ TxOK(open[s], rota.offers)
  BY DEF ReadBook, Running, OpenOK
<1>3. open' = [open EXCEPT ![s] = tx]
  BY <1>1 DEF OpenOK
<1>4. /\ {"op", "day", "next", "carried", "read", "missing", "first"} \subseteq DOMAIN open[s]
      /\ open[s].day \in Days /\ open[s].next \in {"view", "page", "save", "report", "ask"}
  BY <1>2 DEF TxOK, OnDays
<1>5. /\ DOMAIN tx = DOMAIN open[s] /\ tx.op = "build" /\ tx.day = open[s].day /\ tx.next = open[s].next
      /\ tx.missing = missing
  BY <1>2, <1>4
<1>. HIDE DEF tx
<1>6. TxOK(tx, rota'.offers)
  BY <1>1, <1>4, <1>5 DEF TxOK, OnDays, OnOffers
<1> QED BY <1>2, <1>3, <1>6 DEF GoesOn

LEMMA ContinueTx ==
    ASSUME NEW s, NEW d \in Days, NEW book, open[s].next \in {"view", "page", "save", "report", "ask"}, NEW offers
    PROVE  TxOK(Continue(s, d, book), offers) /\ Continue(s, d, book).op # "check"
<1>. DEFINE page == [op |-> "page", day |-> d, terminals |-> book.terminals, tills |-> book.tills]
            save == [op |-> "save", day |-> d, page |-> open[s].carried]
            report == [op |-> "report", day |-> d, worker |-> open[s].carried, terminals |-> book.terminals, rows |-> book.rows]
            asked == {k \in DOMAIN book.rows : /\ ~book.rows[k].confirmed /\ ~book.rows[k].asked
                                               /\ bills[<<book.rows[k].worker, d>>] = "closed"}
            ask == [op |-> "ask", day |-> d, rows |-> asked]
<1>1. /\ open[s].next = "view" => Continue(s, d, book) = Free
      /\ open[s].next = "page" => Continue(s, d, book) = page
      /\ open[s].next = "save" => Continue(s, d, book) = save
      /\ open[s].next = "report" => Continue(s, d, book) = report
      /\ open[s].next = "ask" => Continue(s, d, book) = ask
  BY DEF Continue
<1>2. TxOK(page, offers) /\ page.op # "check"
  BY DayTx
<1>3. TxOK(save, offers) /\ save.op # "check"
  BY DayTx
<1>4. TxOK(report, offers) /\ report.op # "check"
  BY DayTx
<1>5. TxOK(ask, offers) /\ ask.op # "check"
  <2>. HIDE DEF asked
  <2> QED BY DayTx
<1>6. TxOK(Free, offers) /\ Free.op # "check"
  BY FreeTx DEF Free
<1>. HIDE DEF page, save, report, ask
<1> QED BY <1>1, <1>2, <1>3, <1>4, <1>5, <1>6

\* A request that is about a day names one.
LEMMA DayOf == ASSUME OpenOK, NEW s \in Slots, open[s].op \in OnDays PROVE open[s].day \in Days
BY DEF OpenOK, TxOK

LEMMA WriteBookGoesOn == ASSUME OpenOK, NEW s \in Slots, WriteBook(s) PROVE GoesOn(s)
<1>1. PICK book : open' = [open EXCEPT ![s] = Continue(s, open[s].day, book)]
  BY DEF WriteBook
<1>2. open[s].op = "build"
  BY DEF WriteBook, Running
<1>3. open[s].day \in Days /\ open[s].next \in {"view", "page", "save", "report", "ask"}
  BY <1>2 DEF OpenOK, TxOK, OnDays
<1>4. TxOK(Continue(s, open[s].day, book), rota'.offers)
  BY <1>3, ContinueTx
<1> QED BY <1>1, <1>2, <1>4 DEF GoesOn

\* The steps with which a request on a day ends, or takes its form along.
LEMMA DayEndsGoOn ==
    ASSUME OpenOK, NEW s \in Slots,
           CommitReport(s) \/ AskForReports(s) \/ SaveSettlement(s) \/ LeaveSettlement(s) \/ CommitSettlement(s)
    PROVE  GoesOn(s)
<1>1. CASE CommitReport(s)
  <2>1. PICK rows : open' = [open EXCEPT ![s] = [op |-> "check", day |-> open[s].day, rows |-> rows]]
    BY <1>1 DEF CommitReport
  <2>2. open[s].op = "report"
    BY <1>1 DEF CommitReport, Running
  <2>3. open[s].day \in Days
    BY <2>2, DayOf DEF OnDays
  <2>4. TxOK([op |-> "check", day |-> open[s].day, rows |-> rows], rota'.offers)
    BY <2>3, DayTx
  <2> QED BY <2>1, <2>2, <2>4 DEF GoesOn
<1>2. CASE AskForReports(s)
  BY <1>2, EndGoesOn DEF AskForReports, Running
<1>3. CASE SaveSettlement(s)
  <2>1. PICK page : open' = [open EXCEPT ![s] = Build(open[s].day, "save", page)]
    <3>1. open' = [open EXCEPT ![s] = Build(open[s].day, "save", [terminals |-> open[s].terminals, tills |-> open[s].tills])]
      BY <1>3 DEF SaveSettlement, OpenOK
    <3> QED BY <3>1
  <2>2. open[s].op = "page"
    BY <1>3 DEF SaveSettlement, Running
  <2>3. open[s].day \in Days
    BY <2>2, DayOf DEF OnDays
  <2>4. TxOK(Build(open[s].day, "save", page), rota'.offers)
    BY <2>3, BuildTx
  <2> QED BY <2>1, <2>2, <2>4 DEF GoesOn
<1>4. CASE LeaveSettlement(s)
  BY <1>4, EndGoesOn DEF LeaveSettlement, Running
<1>5. CASE CommitSettlement(s)
  BY <1>5, EndGoesOn DEF CommitSettlement, Running
<1> QED BY <1>1, <1>2, <1>3, <1>4, <1>5

LEMMA DismissalFollows == ASSUME RotaOK(rota), NEW s \in Slots, DismissWorker(s) PROVE StepOK(s)
<1>1. PICK w \in Workers :
          /\ Begin(s, Free)
          /\ LET kept == Without(rota, ShiftsOf(w))
             IN  rota' = [kept EXCEPT
                   !.offers = [o \in DOMAIN kept.offers |->
                                 IF kept.offers[o].by = w THEN [kept.offers[o] EXCEPT !.status = "gone"]
                                 ELSE IF kept.offers[o].taker = w THEN [kept.offers[o] EXCEPT !.taker = 0] ELSE kept.offers[o]],
                   !.wants = [x \in DOMAIN kept.wants |-> IF x[1] = w THEN Silent ELSE kept.wants[x]],
                   !.leave = [x \in DOMAIN kept.leave |-> IF x[1] = w THEN "none" ELSE kept.leave[x]]]
  BY DEF DismissWorker
<1>. DEFINE kept == Without(rota, ShiftsOf(w))
            offers == [o \in DOMAIN kept.offers |->
                         IF kept.offers[o].by = w THEN [kept.offers[o] EXCEPT !.status = "gone"]
                         ELSE IF kept.offers[o].taker = w THEN [kept.offers[o] EXCEPT !.taker = 0] ELSE kept.offers[o]]
            wants == [x \in DOMAIN kept.wants |-> IF x[1] = w THEN Silent ELSE kept.wants[x]]
            leave == [x \in DOMAIN kept.leave |-> IF x[1] = w THEN "none" ELSE kept.leave[x]]
<1>2. Follows(rota, kept)
  BY WithoutFollows
<1>3. rota' = [kept EXCEPT !.offers = offers, !.wants = wants, !.leave = leave]
  BY <1>1
<1>. HIDE DEF kept
<1>4. RotaOK(kept) /\ OffersOK(kept.offers)
  BY <1>2 DEF Follows, RotaOK
<1>5. \A o \in DOMAIN kept.offers :
          /\ DOMAIN offers[o] = OfferFields /\ offers[o].taker \in {kept.offers[o].taker, 0}
          /\ offers[o].status = "open" => kept.offers[o].status = "open"
  BY <1>4 DEF OffersOK, OfferFields
<1>6. DOMAIN offers = DOMAIN kept.offers /\ IsList(offers)
  BY <1>4 DEF OffersOK, IsList
<1>7. OffersOK(offers) /\ KeepsTakers(kept.offers, offers)
  BY <1>4, <1>5, <1>6 DEF OffersOK, KeepsTakers
<1>8. KeepsTakers(rota.offers, offers)
  BY <1>2, <1>5, <1>6 DEF Follows, KeepsTakers
<1>. HIDE DEF offers, wants, leave
<1>9. /\ DOMAIN rota' = RotaFields /\ rota'.serial = kept.serial /\ rota'.offers = offers
      /\ rota'.shifts = kept.shifts
  BY <1>3, <1>4 DEF RotaOK, RotaFields
<1>10. Follows(rota, rota')
  BY <1>2, <1>4, <1>7, <1>8, <1>9 DEF Follows, RotaOK
<1> QED BY <1>1, <1>10, BeginGoesOn, FreeTx DEF StepOK

\* A step of the settlement follows the rota, and its request goes on or has checked its day.
LEMMA DayStepFollows ==
    ASSUME world \in Worlds, RotaOK(rota), OpenOK, NEW s \in Slots, DayStep(s)
    PROVE  Follows(rota, rota') /\ (GoesOn(s) \/ CheckComplete(s))
<1>1. CASE ViewReport(s) \/ Report(s) \/ IngestBills(s) \/ OpenSettlement(s) \/ SetTransfer(s)
  <2>1. Starts(s)
    <3>1. CASE ViewReport(s)
      BY <3>1 DEF ViewReport, Starts
    <3>2. CASE Report(s)
      BY <3>2 DEF Report, Starts
    <3>3. CASE IngestBills(s)
      BY <3>3 DEF IngestBills, Starts
    <3>4. CASE OpenSettlement(s)
      BY <3>4 DEF OpenSettlement, Starts
    <3>5. CASE SetTransfer(s)
      BY <3>5 DEF SetTransfer, Starts
    <3> QED BY <1>1, <3>1, <3>2, <3>3, <3>4, <3>5
  <2>2. UNCHANGED rota
    BY <1>1 DEF ViewReport, Report, IngestBills, OpenSettlement, SetTransfer
  <2> QED BY <2>1, <2>2, StartsGoOn, Unmoved
<1>2. CASE ReadBook(s) \/ WriteBook(s)
  BY <1>2, ReadBookGoesOn, WriteBookGoesOn, Unmoved DEF ReadBook, WriteBook
<1>3. CASE CommitReport(s) \/ AskForReports(s) \/ SaveSettlement(s) \/ LeaveSettlement(s) \/ CommitSettlement(s)
  <2>1. UNCHANGED rota
    BY <1>3 DEF CommitReport, AskForReports, SaveSettlement, LeaveSettlement, CommitSettlement
  <2> QED BY <1>3, <2>1, DayEndsGoOn, Unmoved
<1>4. CASE PassToBoss(s)
  BY <1>4, BeginGoesOn, FreeTx, Unmoved DEF PassToBoss
<1>5. CASE DismissWorker(s)
  BY <1>5, DismissalFollows DEF StepOK
<1>6. CASE CheckComplete(s)
  BY <1>6, Unmoved DEF CheckComplete, Told
<1> QED BY <1>1, <1>2, <1>3, <1>4, <1>5, <1>6 DEF DayStep

-----------------------------------------------------------------------------
(* The rows of a settlement.                                               *)

LEMMA ListIsSequence ==
    ASSUME NEW q, IsList(q)
    PROVE  /\ q \in Seq({q[k] : k \in DOMAIN q}) /\ Len(q) \in Nat /\ DOMAIN q = 1..Len(q)
           /\ q # <<>> <=> DOMAIN q # {}
<1>. DEFINE S == {q[k] : k \in DOMAIN q}
<1>1. PICK n \in Nat : DOMAIN q = 1..n
  BY DEF IsList
<1>2. q \in [1..n -> S]
  BY <1>1 DEF IsList
<1>. HIDE DEF S
<1>3. q \in Seq(S)
  BY <1>2, SeqDef
<1>4. Len(q) \in Nat /\ DOMAIN q = 1..Len(q)
  BY <1>3, LenProperties
<1>5. q # <<>> => DOMAIN q # {}
  BY <1>3, <1>4, EmptySeq
<1>6. q = <<>> => DOMAIN q = {}
  BY <1>4, EmptySeq
<1> QED BY <1>3, <1>4, <1>5, <1>6 DEF S

LEMMA SequenceIsList == ASSUME NEW S, NEW q \in Seq(S) PROVE IsList(q)
<1>1. Len(q) \in Nat /\ q \in [1..Len(q) -> S] /\ DOMAIN q = 1..Len(q)
  BY LenProperties
<1> QED BY <1>1 DEF IsList

\* Rows of waiters who have not reported make nothing complete.
LEMMA Extended ==
    ASSUME NEW rows, RowsOK(rows), NEW new, RowsOK(new), \A k \in DOMAIN new : ~new[k].confirmed
    PROVE  RowsOK(rows \o new) /\ (Confirmed(rows \o new) => Confirmed(rows))
<1>. DEFINE all == rows \o new
            S == {rows[k] : k \in DOMAIN rows} \cup {new[k] : k \in DOMAIN new}
<1>1. /\ rows \in Seq(S) /\ Len(rows) \in Nat /\ DOMAIN rows = 1..Len(rows)
      /\ new \in Seq(S) /\ Len(new) \in Nat /\ DOMAIN new = 1..Len(new)
  <2>1. /\ rows \in Seq({rows[k] : k \in DOMAIN rows}) /\ new \in Seq({new[k] : k \in DOMAIN new})
        /\ Len(rows) \in Nat /\ DOMAIN rows = 1..Len(rows) /\ Len(new) \in Nat /\ DOMAIN new = 1..Len(new)
    BY ListIsSequence DEF RowsOK
  <2>2. {rows[k] : k \in DOMAIN rows} \subseteq S /\ {new[k] : k \in DOMAIN new} \subseteq S
    OBVIOUS
  <2>. HIDE DEF S
  <2> QED BY <2>1, <2>2, SeqMonotonic
<1>2. \A x \in S : DOMAIN x = RowFields
  BY DEF RowsOK
<1>. HIDE DEF S
<1>3. /\ all \in Seq(S) /\ Len(all) = Len(rows) + Len(new)
      /\ \A i \in 1..(Len(rows) + Len(new)) : all[i] = IF i <= Len(rows) THEN rows[i] ELSE new[i - Len(rows)]
  BY <1>1, ConcatProperties
<1>4. all \in [1..Len(all) -> S] /\ DOMAIN all = 1..Len(all)
  BY <1>3, LenProperties
<1>. HIDE DEF all
<1>5. RowsOK(all)
  BY <1>2, <1>3, <1>4, SequenceIsList DEF RowsOK
<1>6. ASSUME Confirmed(all) PROVE Confirmed(rows)
  <2>1. Len(new) = 0
    <3>1. SUFFICES ASSUME Len(new) # 0 PROVE FALSE
      OBVIOUS
    <3>2. Len(rows) + 1 \in 1..Len(all) /\ ~(Len(rows) + 1 <= Len(rows)) /\ Len(rows) + 1 - Len(rows) = 1 /\ 1 \in DOMAIN new
      BY <1>1, <1>3, <3>1
    <3>3. all[Len(rows) + 1] = new[1]
      BY <1>3, <3>2
    <3> QED BY <1>4, <1>6, <3>2, <3>3 DEF Confirmed
  <2>2. Len(all) = Len(rows) /\ \A i \in 1..Len(all) : all[i] = rows[i]
    BY <1>1, <1>3, <2>1
  <2>3. all = rows
    BY <1>1, <1>3, <2>2, SeqEqual
  <2> QED BY <1>6, <2>3
<1> QED BY <1>5, <1>6 DEF all

LEMMA ConfirmedByKeepsRows == ASSUME NEW rows, RowsOK(rows), NEW w PROVE RowsOK(ConfirmedBy(rows, w))
<1>. DEFINE own == {k \in DOMAIN rows : rows[k].worker = w}
            row == [WaiterRow(w) EXCEPT !.confirmed = TRUE]
            first == CHOOSE k \in own : \A j \in own : k <= j
<1>1. CASE own = {}
  <2>1. DOMAIN row = RowFields
    BY DEF WaiterRow, RowFields
  <2>2. ConfirmedBy(rows, w) = Append(rows, row)
    BY <1>1 DEF ConfirmedBy
  <2>. HIDE DEF row
  <2> QED BY <2>1, <2>2, ListAppended DEF RowsOK
<1>2. CASE own # {}
  <2>1. ConfirmedBy(rows, w) = [rows EXCEPT ![first].confirmed = TRUE]
    BY <1>2 DEF ConfirmedBy
  <2>. HIDE DEF first
  <2>. DEFINE new == [rows EXCEPT ![first].confirmed = TRUE]
  <2>2. DOMAIN new = DOMAIN rows /\ new = [k \in DOMAIN new |-> new[k]]
    OBVIOUS
  <2>3. ASSUME NEW k \in DOMAIN rows PROVE DOMAIN new[k] = RowFields
    <3>1. DOMAIN rows[k] = RowFields
      BY DEF RowsOK
    <3>2. new[k] = IF k = first THEN [rows[k] EXCEPT !.confirmed = TRUE] ELSE rows[k]
      OBVIOUS
    <3> QED BY <3>1, <3>2
  <2>. HIDE DEF new
  <2>4. RowsOK(new)
    BY <2>2, <2>3 DEF RowsOK, IsList
  <2> QED BY <2>1, <2>4 DEF new
<1> QED BY <1>1, <1>2

LEMMA NewRows ==
    ASSUME NEW S, S \subseteq Workers
    PROVE  LET added == InOrder(S)
               new == [k \in DOMAIN added |-> WaiterRow(added[k])]
           IN  RowsOK(new) /\ \A k \in DOMAIN new : ~new[k].confirmed
<1>. DEFINE added == InOrder(S)
            new == [k \in DOMAIN added |-> WaiterRow(added[k])]
            n == Cardinality(S)
<1>1. n \in Nat
  BY RotaAssumption, FS_Subset, FS_CardinalityType
<1>2. DOMAIN added = 1..n
  BY DEF InOrder, Sorted
<1>. HIDE DEF added, n
<1>3. \A k \in DOMAIN new : DOMAIN new[k] = RowFields /\ ~new[k].confirmed
  BY DEF WaiterRow, RowFields
<1>4. DOMAIN new = 1..n /\ new = [k \in DOMAIN new |-> new[k]]
  BY <1>2
<1>. HIDE DEF new
<1>5. IsList(new)
  BY <1>1, <1>4 DEF IsList
<1>6. RowsOK(new)
  BY <1>3, <1>5 DEF RowsOK
<1> QED BY <1>3, <1>6 DEF new, added

-----------------------------------------------------------------------------
(* The settlement of a day.                                                *)

SettlementsOK == BooksOK /\ ConfirmedIsTold

\* Nothing of a settlement is written, and no check of a day ends.
LEMMA BooksLeft ==
    ASSUME OpenOK, NEW s \in Slots, GoesOn(s), SettlementsOK, UNCHANGED books
    PROVE  SettlementsOK'
<1>1. PICK tx : open' = [open EXCEPT ![s] = tx]
  BY DEF GoesOn
<1>2. \A t \in Slots : Running(t, "check") => open'[t] = open[t]
  BY <1>1 DEF OpenOK, GoesOn, Running
<1>3. BooksOK'
  BY DEF SettlementsOK, BooksOK
<1>4. ASSUME NEW d \in Days, Confirmed(books'[d].rows), ~(\E t \in Slots : open'[t].op = "check" /\ open'[t].day = d)
      PROVE  books'[d].told
  <2>1. ~(\E t \in Slots : Running(t, "check") /\ open[t].day = d)
    BY <1>2, <1>4 DEF Running
  <2> QED BY <1>4, <2>1 DEF SettlementsOK, ConfirmedIsTold, Checking
<1> QED BY <1>3, <1>4 DEF SettlementsOK, ConfirmedIsTold, Checking, Running

\* One settlement is written: it is complete only if it was, or the administrator is told, or the
\* one who wrote it goes on to check it.
LEMMA BookWritten ==
    ASSUME OpenOK, NEW s \in Slots, SettlementsOK, NEW d \in Days, NEW tx, open' = [open EXCEPT ![s] = tx],
           NEW book, DOMAIN book = DOMAIN Book, RowsOK(book.rows), books' = [books EXCEPT ![d] = book],
           open[s].op = "check" => open[s].day = d /\ (Confirmed(book.rows) => book.told),
           \/ tx.op = "check" /\ tx.day = d
           \/ Confirmed(book.rows) => book.told \/ (Confirmed(books[d].rows) /\ (books[d].told => book.told))
    PROVE  SettlementsOK'
<1>1. DOMAIN books = Days /\ books'[d] = book /\ \A x \in Days \ {d} : books'[x] = books[x]
  BY DEF SettlementsOK, BooksOK
<1>2. BooksOK'
  BY <1>1 DEF SettlementsOK, BooksOK
<1>3. open'[s] = tx /\ \A t \in Slots \ {s} : open'[t] = open[t]
  BY DEF OpenOK
<1>4. ASSUME NEW x \in Days, Confirmed(books'[x].rows), ~(\E t \in Slots : open'[t].op = "check" /\ open'[t].day = x)
      PROVE  books'[x].told
  <2>1. CASE x # d
    <3>1. ~(\E t \in Slots : Running(t, "check") /\ open[t].day = x)
      BY <1>3, <1>4, <2>1 DEF Running
    <3> QED BY <1>1, <1>4, <2>1, <3>1 DEF SettlementsOK, ConfirmedIsTold, Checking
  <2>2. CASE x = d /\ open[s].op = "check"
    BY <1>1, <1>4, <2>2
  <2>3. CASE x = d /\ open[s].op # "check"
    <3>1. ~(\E t \in Slots : Running(t, "check") /\ open[t].day = d)
      BY <1>3, <1>4, <2>3 DEF Running
    <3>2. book.told \/ (Confirmed(books[d].rows) /\ (books[d].told => book.told))
      BY <1>1, <1>3, <1>4, <2>3
    <3>3. Confirmed(books[d].rows) => books[d].told
      BY <3>1 DEF SettlementsOK, ConfirmedIsTold, Checking
    <3> QED BY <1>1, <2>3, <3>2, <3>3
  <2> QED BY <2>1, <2>2, <2>3
<1> QED BY <1>2, <1>4 DEF SettlementsOK, ConfirmedIsTold, Checking, Running

LEMMA WriteBookSettles == ASSUME OpenOK, NEW s \in Slots, SettlementsOK, WriteBook(s) PROVE SettlementsOK'
<1>. DEFINE d == open[s].day
            added == InOrder(open[s].missing)
            new == [k \in DOMAIN added |-> WaiterRow(added[k])]
            all == books[d].rows \o new
            book == [books[d] EXCEPT !.made = TRUE, !.rows = all]
            tx == Continue(s, d, book)
<1>1. open[s].op = "build" /\ books' = [books EXCEPT ![d] = book] /\ open' = [open EXCEPT ![s] = tx]
  BY DEF WriteBook, Running
<1>2. d \in Days /\ open[s].missing \subseteq Workers
  BY <1>1 DEF OpenOK, TxOK, OnDays
<1>3. RowsOK(new) /\ \A k \in DOMAIN new : ~new[k].confirmed
  BY <1>2, NewRows
<1>4. DOMAIN books[d] = DOMAIN Book /\ RowsOK(books[d].rows)
  BY <1>2 DEF SettlementsOK, BooksOK
<1>. HIDE DEF new, tx
<1>5. RowsOK(all) /\ (Confirmed(all) => Confirmed(books[d].rows))
  BY <1>3, <1>4, Extended
<1>. HIDE DEF all, d
<1>6. DOMAIN book = DOMAIN Book /\ book.rows = all /\ book.told = books[d].told
  BY <1>4 DEF Book
<1>. HIDE DEF book
<1> QED BY <1>1, <1>2, <1>5, <1>6, BookWritten

LEMMA CommitReportSettles == ASSUME OpenOK, NEW s \in Slots, SettlementsOK, CommitReport(s) PROVE SettlementsOK'
<1>. DEFINE d == open[s].day
            w == open[s].worker
            rows == ConfirmedBy(books[d].rows, w)
            terminals == IF RoomOf(w, d) = "none" THEN books[d].terminals ELSE Handed(open[s].terminals, RoomOf(w, d), w)
            tills == IF ClosesVenue(w, d) THEN w ELSE books[d].tills
            book == [books[d] EXCEPT !.rows = rows, !.terminals = terminals, !.tills = tills]
            tx == [op |-> "check", day |-> d, rows |-> ConfirmedBy(open[s].rows, w)]
<1>1. /\ open[s].op = "report" /\ open' = [open EXCEPT ![s] = tx]
      /\ books' = [books EXCEPT ![d].rows = rows, ![d].terminals = terminals, ![d].tills = tills]
  BY DEF CommitReport, Running
<1>2. d \in Days
  BY <1>1, DayOf DEF OnDays
<1>3. DOMAIN books = Days /\ DOMAIN books[d] = DOMAIN Book /\ RowsOK(books[d].rows)
  BY <1>2 DEF SettlementsOK, BooksOK
<1>4. RowsOK(rows)
  BY <1>3, ConfirmedByKeepsRows
<1>5. tx.op = "check" /\ tx.day = d
  OBVIOUS
<1>. HIDE DEF rows, terminals, tills, tx
<1>6. books' = [books EXCEPT ![d] = book]
  BY <1>1, <1>2, <1>3 DEF Book
<1>. HIDE DEF d
<1>7. DOMAIN book = DOMAIN Book /\ book.rows = rows
  BY <1>3 DEF Book
<1>. HIDE DEF book
<1> QED BY <1>1, <1>2, <1>4, <1>5, <1>6, <1>7, BookWritten

LEMMA CheckCompleteSettles == ASSUME OpenOK, NEW s \in Slots, SettlementsOK, CheckComplete(s) PROVE SettlementsOK'
<1>. DEFINE d == open[s].day
            book == IF Confirmed(books[d].rows) THEN [books[d] EXCEPT !.told = TRUE] ELSE books[d]
<1>1. /\ open[s].op = "check" /\ open' = [open EXCEPT ![s] = Free]
      /\ books' = IF Confirmed(books[d].rows) THEN [books EXCEPT ![d].told = TRUE] ELSE books
  BY DEF CheckComplete, Told, Running, End
<1>2. d \in Days
  BY <1>1, DayOf DEF OnDays
<1>3. DOMAIN books = Days /\ DOMAIN books[d] = DOMAIN Book /\ RowsOK(books[d].rows)
  BY <1>2 DEF SettlementsOK, BooksOK
<1>. HIDE DEF d
<1>4. CASE Confirmed(books[d].rows)
  <2>1. books' = [books EXCEPT ![d] = book]
    BY <1>1, <1>3, <1>4
  <2>2. DOMAIN book = DOMAIN Book /\ book.rows = books[d].rows /\ book.told
    BY <1>3, <1>4 DEF Book
  <2>. HIDE DEF book
  <2> QED BY <1>1, <1>2, <1>3, <2>1, <2>2, BookWritten DEF d
<1>5. CASE ~Confirmed(books[d].rows)
  <2>1. BooksOK' /\ books' = books
    BY <1>1, <1>5 DEF SettlementsOK, BooksOK
  <2>2. \A t \in Slots \ {s} : open'[t] = open[t]
    BY <1>1
  <2>3. ASSUME NEW x \in Days, Confirmed(books'[x].rows), ~(\E t \in Slots : open'[t].op = "check" /\ open'[t].day = x)
        PROVE  books'[x].told
    <3>1. x # d
      BY <1>5, <2>1, <2>3
    <3>2. ~(\E t \in Slots : Running(t, "check") /\ open[t].day = x)
      BY <1>1, <2>2, <2>3, <3>1 DEF Running, d
    <3> QED BY <2>1, <2>3, <3>2 DEF SettlementsOK, ConfirmedIsTold, Checking
  <2> QED BY <2>1, <2>3 DEF SettlementsOK, ConfirmedIsTold, Checking, Running
<1> QED BY <1>4, <1>5

LEMMA AskForReportsSettles == ASSUME OpenOK, NEW s \in Slots, SettlementsOK, AskForReports(s) PROVE SettlementsOK'
<1>. DEFINE d == open[s].day
            old == books[d].rows
            rows == [k \in DOMAIN old |-> IF k \in open[s].rows THEN [old[k] EXCEPT !.asked = TRUE] ELSE old[k]]
            book == [books[d] EXCEPT !.rows = rows]
<1>1. open[s].op = "ask" /\ open' = [open EXCEPT ![s] = Free] /\ books' = [books EXCEPT ![d].rows = rows]
  BY DEF AskForReports, Running, End
<1>2. d \in Days
  BY <1>1, DayOf DEF OnDays
<1>3. DOMAIN books = Days /\ DOMAIN books[d] = DOMAIN Book /\ RowsOK(old)
  BY <1>2 DEF SettlementsOK, BooksOK
<1>. HIDE DEF d, old
<1>4. \A k \in DOMAIN old : DOMAIN rows[k] = RowFields /\ rows[k].confirmed = old[k].confirmed
  BY <1>3 DEF RowsOK, RowFields
<1>5. DOMAIN rows = DOMAIN old /\ rows = [k \in DOMAIN rows |-> rows[k]]
  OBVIOUS
<1>. HIDE DEF rows
<1>6. RowsOK(rows)
  BY <1>3, <1>4, <1>5 DEF RowsOK, IsList
<1>7. Confirmed(rows) => Confirmed(old)
  <2>1. rows # <<>> => old # <<>>
    BY <1>3, <1>5, <1>6, ListIsSequence DEF RowsOK
  <2> QED BY <1>4, <1>5, <2>1 DEF Confirmed
<1>8. books' = [books EXCEPT ![d] = book]
  BY <1>1, <1>2, <1>3
<1>9. DOMAIN book = DOMAIN Book /\ book.rows = rows /\ book.told = books[d].told
  BY <1>3 DEF Book
<1>. HIDE DEF book
<1>10. /\ open[s].op # "check" /\ RowsOK(book.rows)
       /\ Confirmed(book.rows) => Confirmed(books[d].rows) /\ book.told = books[d].told
  BY <1>1, <1>6, <1>7, <1>9 DEF old
<1> QED BY <1>1, <1>2, <1>8, <1>9, <1>10, BookWritten

\* The administrator writes columns that do not say who has reported.
LEMMA OfficeSettles ==
    ASSUME world \in Worlds, OpenOK, NEW s \in Slots, SettlementsOK, CommitSettlement(s) \/ PassToBoss(s)
    PROVE  SettlementsOK'
<1>1. CASE CommitSettlement(s)
  <2>. DEFINE d == open[s].day
              book == [books[d] EXCEPT !.terminals = open[s].page.terminals, !.tills = open[s].page.tills]
  <2>1. /\ open[s].op = "save" /\ open' = [open EXCEPT ![s] = Free]
        /\ books' = [books EXCEPT ![d].terminals = open[s].page.terminals, ![d].tills = open[s].page.tills]
    BY <1>1 DEF CommitSettlement, Running, End
  <2>2. d \in Days
    BY <2>1, DayOf DEF OnDays
  <2>3. DOMAIN books = Days /\ DOMAIN books[d] = DOMAIN Book /\ RowsOK(books[d].rows)
    BY <2>2 DEF SettlementsOK, BooksOK
  <2>. HIDE DEF d
  <2>4. books' = [books EXCEPT ![d] = book]
    BY <2>1, <2>2, <2>3 DEF Book
  <2>5. DOMAIN book = DOMAIN Book /\ book.rows = books[d].rows /\ book.told = books[d].told
    BY <2>3 DEF Book
  <2>. HIDE DEF book
  <2>6. /\ open[s].op # "check" /\ RowsOK(book.rows)
        /\ Confirmed(book.rows) => Confirmed(books[d].rows) /\ book.told = books[d].told
    BY <2>1, <2>3, <2>5
  <2> QED BY <2>1, <2>2, <2>4, <2>5, <2>6, BookWritten
<1>2. CASE PassToBoss(s)
  <2>1. PICK d \in world.days : Begin(s, Free) /\ books' = [books EXCEPT ![d].status = "with boss"]
    BY <1>2 DEF PassToBoss
  <2>. DEFINE book == [books[d] EXCEPT !.status = "with boss"]
  <2>2. d \in Days
    BY <2>1, RotaAssumption
  <2>3. open[s].op # "check" /\ open' = [open EXCEPT ![s] = Free]
    <3>1. open[s] = Free /\ open' = [open EXCEPT ![s] = Free]
      BY <2>1 DEF Begin
    <3>2. Free.op # "check"
      BY DEF Free
    <3> QED BY <3>1, <3>2
  <2>4. DOMAIN books = Days /\ DOMAIN books[d] = DOMAIN Book /\ RowsOK(books[d].rows)
    BY <2>2 DEF SettlementsOK, BooksOK
  <2>5. books' = [books EXCEPT ![d] = book]
    BY <2>1, <2>2, <2>4
  <2>6. DOMAIN book = DOMAIN Book /\ book.rows = books[d].rows /\ book.told = books[d].told
    BY <2>4 DEF Book
  <2>. HIDE DEF book
  <2> QED BY <2>2, <2>3, <2>4, <2>5, <2>6, BookWritten
<1> QED BY <1>1, <1>2

LEMMA DayStepSettles ==
    ASSUME world \in Worlds, OpenOK, NEW s \in Slots, SettlementsOK, DayStep(s), NoDismissal,
           GoesOn(s) \/ CheckComplete(s)
    PROVE  SettlementsOK'
<1>1. CASE WriteBook(s) \/ CommitReport(s) \/ CheckComplete(s) \/ AskForReports(s) \/ CommitSettlement(s) \/ PassToBoss(s)
  BY <1>1, WriteBookSettles, CommitReportSettles, CheckCompleteSettles, AskForReportsSettles, OfficeSettles
<1>2. CASE /\ ~CheckComplete(s)
           /\ \/ ReadBook(s) \/ ViewReport(s) \/ Report(s) \/ IngestBills(s) \/ OpenSettlement(s) \/ SaveSettlement(s)
              \/ LeaveSettlement(s) \/ SetTransfer(s)
  <2>1. UNCHANGED books
    BY <1>2 DEF ReadBook, ViewReport, Report, IngestBills, OpenSettlement, SaveSettlement, LeaveSettlement, SetTransfer
  <2> QED BY <1>2, <2>1, BooksLeft
<1>3. CASE DismissWorker(s)
  BY <1>3 DEF DismissWorker, May, NoDismissal
<1> QED BY <1>1, <1>2, <1>3 DEF DayStep

-----------------------------------------------------------------------------
(* The theorems.                                                           *)

LEMMA InitInv == ASSUME Init PROVE IInv
<1>1. world \in Worlds /\ DOMAIN open = Slots /\ \A s \in Slots : open[s] = Free
  BY DEF Init, RotaInit
<1>2. OpenOK
  BY <1>1, FreeTx DEF OpenOK
<1>3. RotaOK(rota)
  <2>1. /\ DOMAIN rota = RotaFields /\ rota.shifts = world.shifts /\ rota.serial = Len(world.shifts) + 1
        /\ rota.offers = <<>>
    BY DEF Init, RotaInit, RotaFields
  <2>. DEFINE Rows == [day : Days, position : Positions, worker : Workers, hour : Hours \cup {NoHour},
                       closes : BOOLEAN, manual : BOOLEAN]
  <2>2. world.shifts \in Seq(Rows)
    BY <1>1, RotaAssumption
  <2>3. \A x \in Rows : DOMAIN x = ShiftFields
    BY DEF ShiftFields
  <2>. HIDE DEF Rows
  <2>4. /\ Len(world.shifts) \in Nat /\ DOMAIN world.shifts = 1..Len(world.shifts)
        /\ \A i \in DOMAIN world.shifts : world.shifts[i] \in Rows
    BY <2>2, LenProperties
  <2>5. ShiftsOK(rota.shifts, rota.serial) /\ rota.serial \in Nat
    BY <2>1, <2>3, <2>4 DEF ShiftsOK
  <2>6. IsList(rota.offers) /\ DOMAIN rota.offers = {}
    <3>1. <<>> \in Seq({}) /\ Len(<<>>) = 0
      BY EmptySeq
    <3>2. IsList(<<>>) /\ DOMAIN <<>> = {}
      BY <3>1, SequenceIsList, ListIsSequence
    <3> QED BY <2>1, <3>2
  <2> QED BY <2>1, <2>5, <2>6 DEF RotaOK, OffersOK
<1>4. BooksOK /\ ConfirmedIsTold
  <2>1. DOMAIN books = Days /\ \A d \in Days : books[d] = Book
    BY DEF Init
  <2>2. Book.rows = <<>>
    BY DEF Book
  <2>3. IsList(<<>>) /\ DOMAIN <<>> = {}
    <3>1. <<>> \in Seq({}) /\ Len(<<>>) = 0
      BY EmptySeq
    <3> QED BY <3>1, SequenceIsList, ListIsSequence
  <2>4. RowsOK(<<>>) /\ ~Confirmed(<<>>)
    BY <2>3 DEF RowsOK, Confirmed
  <2>. HIDE DEF Book
  <2> QED BY <2>1, <2>2, <2>4 DEF BooksOK, ConfirmedIsTold, Checking
<1> QED BY <1>1, <1>2, <1>3, <1>4 DEF IInv

\* A step of one slot: what it keeps, and what it leaves of the settlements.
LEMMA SlotStep ==
    ASSUME IInv, world' = world, NEW s \in Slots, (RotaStep(s) /\ UNCHANGED <<books, bills>>) \/ DayStep(s)
    PROVE  IInv' /\ KeepsTakers(rota.offers, rota'.offers) /\ Moves
<1>1. /\ world \in Worlds /\ RotaOK(rota) /\ OpenOK /\ (NoDismissal => SettlementsOK)
  BY DEF IInv, SettlementsOK
<1>2. CASE RotaStep(s) /\ UNCHANGED <<books, bills>>
  <2>1. RotaOK(rota') /\ KeepsTakers(rota.offers, rota'.offers) /\ Moves /\ GoesOn(s)
    BY <1>1, <1>2, RotaStepKeeps DEF StepKeeps
  <2>2. OpenOK'
    BY <1>1, <2>1, OpenKept
  <2>3. NoDismissal => SettlementsOK'
    BY <1>1, <1>2, <2>1, BooksLeft
  <2> QED BY <1>1, <2>1, <2>2, <2>3 DEF IInv, SettlementsOK, NoDismissal, RotaOK
<1>3. CASE DayStep(s)
  <2>1. Follows(rota, rota') /\ (GoesOn(s) \/ CheckComplete(s))
    BY <1>1, <1>3, DayStepFollows
  <2>2. RotaOK(rota') /\ KeepsTakers(rota.offers, rota'.offers) /\ Moves
    BY <2>1 DEF Follows, KeepsWorkers, Moves
  <2>3. OpenOK'
    <3>1. CASE GoesOn(s)
      BY <1>1, <2>2, <3>1, OpenKept
    <3>2. CASE CheckComplete(s)
      <4>1. open' = [open EXCEPT ![s] = Free] /\ UNCHANGED rota
        BY <3>2 DEF CheckComplete, Told, End
      <4>2. DOMAIN open' = Slots /\ open'[s] = Free /\ \A t \in Slots \ {s} : open'[t] = open[t]
        BY <1>1, <4>1 DEF OpenOK
      <4> QED BY <1>1, <4>1, <4>2, FreeTx DEF OpenOK
    <3> QED BY <2>1, <3>1, <3>2
  <2>4. NoDismissal => SettlementsOK'
    BY <1>1, <1>3, <2>1, DayStepSettles
  <2> QED BY <1>1, <2>2, <2>3, <2>4 DEF IInv, SettlementsOK, NoDismissal, RotaOK
<1> QED BY <1>2, <1>3

LEMMA StutterInv == ASSUME IInv, UNCHANGED vars PROVE IInv'
<1>1. world' = world /\ rota' = rota /\ open' = open /\ books' = books
  BY DEF vars
<1>2. BooksOK => BooksOK'
  BY <1>1 DEF BooksOK
<1>3. ConfirmedIsTold => ConfirmedIsTold'
  BY <1>1 DEF ConfirmedIsTold, Checking, Running
<1>4. OpenOK'
  BY <1>1 DEF IInv, OpenOK
<1> QED BY <1>1, <1>2, <1>3, <1>4 DEF IInv, NoDismissal

\* The inductive invariant holds of every run: the numbers of the shifts are below the next one, an
\* offer that is open has no taker, and every request names an offer and a day that exist.
THEOREM InductiveInvariant == Spec => []IInv
<1>1. Init => IInv
  BY InitInv
<1>2. IInv /\ [Next]_vars => IInv'
  BY SlotStep, StutterInv DEF Next
<1> QED BY <1>1, <1>2, PTL DEF Spec

\* Of two workers who saw an offer open only the first gets it, whatever rejections, withdrawals,
\* removals and dismissals come between (gielda.py:212-221).
THEOREM FirstTakerIsKept == Spec => FirstTakerKeeps
<1>1. IInv /\ [Next]_vars => [\A o \in DOMAIN rota.offers :
                                LET was == rota.offers[o].taker  is == rota'.offers[o].taker
                                IN  was # 0 /\ is # 0 => was = is]_rota
  <2>1. ASSUME IInv, Next PROVE KeepsTakers(rota.offers, rota'.offers)
    BY <2>1, SlotStep DEF Next
  <2> QED BY <2>1 DEF KeepsTakers, vars
<1> QED BY <1>1, InductiveInvariant, PTL DEF Spec, FirstTakerKeeps

\* A shift changes hands only in a change by the planner, or in the step that accepts an offer of
\* it which still waits (gielda.py:271-283).
THEOREM ShiftsMoveByDecision == Spec => MovesOnlyFromTaken
<1>1. IInv /\ [Next]_vars =>
          [\A i \in DOMAIN rota.shifts \cap DOMAIN rota'.shifts :
             rota'.shifts[i].worker # rota.shifts[i].worker =>
                 \/ \E s \in Slots : Running(s, "change") /\ open'[s] # open[s]
                 \/ \E o \in DOMAIN rota.offers : /\ rota.offers[o].shift = i /\ rota.offers[o].status = "taken"
                                                  /\ rota'.offers[o].status = "accepted"]_rota
  <2>1. ASSUME IInv, Next PROVE Moves
    BY <2>1, SlotStep DEF Next
  <2> QED BY <2>1 DEF Moves, vars
<1> QED BY <1>1, InductiveInvariant, PTL DEF Spec, MovesOnlyFromTaken

\* Where nobody is dismissed, a day of which every waiter has reported is told to the administrators
\* once the last report has been checked (moje.py:513-519), unless one of them has a second row.
THEOREM CompleteDayIsTold == Spec => []AdminLearnsOfCompleteDay
<1>1. ASSUME IInv PROVE AdminLearnsOfCompleteDay
  <2>1. SUFFICES ASSUME NoDismissal, NEW d \in Days, Reported(books[d].rows), ~Checking(d), ~Doubled(books[d].rows)
                 PROVE  books[d].told
    BY DEF AdminLearnsOfCompleteDay
  <2>2. Confirmed(books[d].rows)
    BY <2>1 DEF Reported, Doubled, Confirmed
  <2> QED BY <1>1, <2>1, <2>2 DEF IInv, ConfirmedIsTold
<1> QED BY <1>1, InductiveInvariant, PTL

=============================================================================
