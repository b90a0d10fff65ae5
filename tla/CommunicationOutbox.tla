------------------------ MODULE CommunicationOutbox ------------------------
(***************************************************************************)
(* The messages of one owner, a reservation or an entry of the waiting     *)
(* list: handlers queue rows and withdraw them, workers claim them under a *)
(* lease, talk to the SMTP server or the SMS gateway outside any           *)
(* transaction and record the result, operators repeat and settle.         *)
(*                                                                         *)
(* An action is one transaction, or one exchange with the provider.  A     *)
(* worker may die between any two, or be so slow that its lease lapses     *)
(* while it still works.                                                   *)
(***************************************************************************)
EXTENDS Integers, Sequences, FiniteSets, SequencesExt, FiniteSetsExt

CONSTANTS
    Workers,        \* delivery threads
    Contacts,       \* pairs of a channel and a recipient
    Idempotent,     \* the contacts behind a gateway that honours our key
    Worlds,         \* what to look at: the kind of owner, the workers, what
                    \* _channels may return, the times of visits and deadlines,
                    \* bounds of the rows queued and of the tries (maks_prob),
                    \* the handlers that are called and the
                    \* reminder leads that the configuration starts with
    MaxNow,         \* bound of the clock
    MaxHours,       \* bound of the reminder lead, in ticks
    MaxRows,        \* bound of the rows of any world
    Nobody          \* no worker holds the row

Calls == {"Create", "Edit", "Confirm", "Cancel", "End", "ReleaseByPayment", "SendConfirmation",
          "Offer", "Withdraw", "CloseEntry", "Notify", "Erase", "Reconfigure", "Retry", "Reconcile"}

ASSUME ContactAssumption ==
    /\ IsFiniteSet(Contacts) /\ Idempotent \subseteq Contacts
    /\ Worlds \subseteq [kind : {"reservation", "waitlist"}, workers : SUBSET Workers,
                         preferences : SUBSET SUBSET Contacts, times : SUBSET (1..MaxNow),
                         rows : 0..MaxRows, tries : Nat \ {0}, calls : SUBSET Calls, leads : SUBSET (0..MaxHours)]
ASSUME BoundAssumption ==
    MaxNow \in Nat /\ MaxHours \in Nat /\ MaxRows \in Nat
ASSUME WorkerAssumption == Nobody \notin Workers

VARIABLES
    world,      \* one of Worlds, for the whole run
    now,        \* the clock that deadlines are compared with
    hours,      \* LokalConfig.rezerwacje_przypomnienie_h
    owner,      \* the Termin or the ListaOczekujacych
    outbox,     \* rows of RezerwacjaWiadomoscOutbox with their last attempt
    worker,     \* what a worker holds in memory
    received    \* external: copies of each row that reached the guest

vars == <<world, now, hours, owner, outbox, worker, received>>

Events == {"confirmation", "reminder", "change", "cancellation", "table_ready"}
PENDING_STATES == {"queued", "retry"}
Terminal == {"sent", "failed", "uncertain", "expired", "cancelled", "deleted"}
RowStates == PENDING_STATES \cup Terminal \cup {"processing"}
Min2(a, b) == IF a <= b THEN a ELSE b
Max2(a, b) == IF a <= b THEN b ELSE a

Rows == 1..Len(outbox)
Idle == [at |-> "idle", row |-> 0, result |-> "none"]

-----------------------------------------------------------------------------
(* Which rows still speak for their owner.                                 *)

Of(box, events) == {i \in 1..Len(box) : box[i].event \in events /\ box[i].state # "deleted"}
SinceChange(box, i) == \A j \in (i + 1)..Len(box) : box[j].event # "change"

\* _retry_relevance_error, for a reservation: the owner is as the message says,
\* the contact is still the guest's, and no later row of its kind, and for a
\* confirmation or a reminder no later change, has taken its place.
ReservationRelevant(box, i) ==
    /\ owner.status = (IF box[i].event = "cancellation" THEN "cancelled" ELSE "active")
    /\ box[i].contact \in owner.channels
    /\ box[i].event = "reminder" => hours > 0
    /\ \A j \in (i + 1)..Len(box) :
         /\ box[j].event = box[i].event => box[j].key = box[i].key
         /\ box[j].event = "change" => box[i].event \notin {"confirmation", "reminder"}

\* The same for an entry of the waiting list: its current offer, before the deadline.
WaitlistRelevant(box, i) ==
    /\ owner.status = "offered"
    /\ owner.at > now
    /\ box[i].contact \in owner.channels
    /\ box[i].key = owner.version

Relevant(box, i) ==
    IF world.kind = "reservation" THEN ReservationRelevant(box, i) ELSE WaitlistRelevant(box, i)

-----------------------------------------------------------------------------
(* What handlers do to the outbox inside their transactions.               *)

NewRow(event, key, contact, due, until) ==
    [event |-> event, key |-> key, contact |-> contact, due |-> due, until |-> until,
     state |-> "queued", attempt |-> "none", holder |-> Nobody, lapsed |-> FALSE,
     left |-> world.tries, stale |-> FALSE, ruled |-> FALSE]

\* One row per channel of the owner, unless the row of this key and channel exists;
\* a message that would expire before it is due is not queued.
Enqueue(box, o, event, key, due, until) ==
    LET new == {c \in o.channels :
                  \A i \in Of(box, {event}) : <<box[i].key, box[i].contact>> # <<key, c>>}
    IN IF until <= due THEN box
       ELSE box \o SetToSeq({NewRow(event, key, c, due, until) : c \in new})

FreshKey(box) == Len(box) + 1

\* Without an expiry of its own a confirmation or a change lives until the visit.
EnqueueReservation(box, o, event) ==
    Enqueue(box, o, event, FreshKey(box), now,
            IF event = "cancellation" THEN now + 2 ELSE Max2(now + 1, o.at))

EnqueueTableReady(box, o) ==
    IF o.status = "offered" /\ o.at > now
    THEN Enqueue(box, o, "table_ready", o.version, now, o.at)
    ELSE box

\* The lease is given up; a row that is not to be sent forgets when and how often.
Closed(row, state) ==
    [row EXCEPT !.state = state, !.attempt = "none", !.holder = Nobody, !.lapsed = FALSE,
                !.due = IF state = "retry" THEN @ ELSE 0, !.left = IF state = "retry" THEN @ ELSE 0]

BeforeIO(row) == row.state = "processing" /\ row.attempt = "claimed"
AfterIO(row) == row.state = "processing" /\ row.attempt = "processing"

\* Mutant: the lease of a claimed row stays with it.
CancelPendingKeepingLease(box, events) ==
    [i \in 1..Len(box) |->
       IF /\ box[i].event \in events
          /\ box[i].state \in PENDING_STATES \cup {"failed", "expired"} \/ BeforeIO(box[i])
       THEN [box[i] EXCEPT !.state = "cancelled"]
       ELSE box[i]]

\* _cancel_rows_before_io: whatever a provider cannot have seen yet.
CancelPending(box, events) ==
    [i \in 1..Len(box) |->
       IF /\ box[i].event \in events
          /\ box[i].state \in PENDING_STATES \cup {"failed", "expired"} \/ BeforeIO(box[i])
       THEN Closed(box[i], "cancelled")
       ELSE box[i]]

ReminderDue(o, h) == h > 0 /\ o.status = "active" /\ o.at > now

\* Mutant: what has been sent does not count as an existing reminder.
ExistingPendingReminders(box) ==
    {i \in Of(box, {"reminder"}) : SinceChange(box, i) /\ box[i].state \in PENDING_STATES}

\* Rows of the current generation that a schedule finds, and those it may keep.
ExistingReminders(box) ==
    {i \in Of(box, {"reminder"}) : SinceChange(box, i) /\ box[i].state # "cancelled"}
MatchingReminders(box, o, h) ==
    {i \in ExistingReminders(box) :
       box[i].until = o.at /\ (box[i].state = "queued" => box[i].due = o.at - h)}

ScheduleReminder(box, o, h, force) ==
    IF ~ReminderDue(o, h) THEN CancelPending(box, {"reminder"})
    ELSE LET b == IF force THEN CancelPending(box, {"reminder"}) ELSE box
             matching == MatchingReminders(b, o, h)
             pending == {i \in ExistingReminders(b) : b[i].state \in PENDING_STATES}
         IN IF ~force /\ matching # {} /\ {b[i].contact : i \in matching} = o.channels
            THEN b
            ELSE Enqueue([i \in 1..Len(b) |->
                            IF i \in pending THEN Closed(b[i], "cancelled") ELSE b[i]],
                         o, "reminder", FreshKey(b), o.at - h, o.at)

\* Rows and attempts of an owner are removed with its personal data.
Erased(box) ==
    [i \in 1..Len(box) |-> [Closed(box[i], "deleted") EXCEPT !.stale = FALSE, !.key = 0, !.until = 0]]

\* Mutant: only a lease that has not lapsed blocks, and none does.
ErasureAlwaysAllowed(box) == TRUE

\* prepare_outboxes_for_pii_erasure lets the caller go on.
ErasureAllowed(box) == \A i \in 1..Len(box) : ~AfterIO(box[i])

-----------------------------------------------------------------------------
(* Handlers of reservations.                                               *)

Write(box) ==
    /\ Len(box) <= world.rows
    /\ outbox' = box

ReservationHandler(call, o, box) ==
    /\ call \in world.calls
    /\ owner' = o
    /\ Write(box)
    /\ UNCHANGED <<world, now, hours, worker, received>>

\* A reservation is made by an operator, online or from the waiting list.
Create ==
    /\ owner.status = "none"
    /\ \E at \in {t \in world.times : t > now}, channels \in world.preferences :
         LET o == [owner EXCEPT !.status = "active", !.at = at, !.channels = channels]
         IN ReservationHandler("Create", o, ScheduleReminder(EnqueueReservation(outbox, o, "confirmation"),
                                                   o, hours, FALSE))

\* The details a guest is told about change: an operator may also change the contact.
Edit ==
    /\ owner.status = "active"
    /\ \E at \in {t \in world.times : t > now}, channels \in world.preferences :
         LET o == [owner EXCEPT !.at = at, !.channels = channels]
             cancelled == CancelPending(outbox, {"confirmation", "change"})
         IN ReservationHandler("Edit", o, ScheduleReminder(EnqueueReservation(cancelled, o, "change"),
                                                   o, hours, TRUE))

Confirm ==
    /\ owner.status = "active"
    /\ ReservationHandler("Confirm", owner, ScheduleReminder(outbox, owner, hours, FALSE))

Cancel ==
    /\ owner.status = "active"
    /\ LET o == [owner EXCEPT !.status = "cancelled"]
       IN ReservationHandler("Cancel", o, EnqueueReservation(CancelPending(outbox, Events), o, "cancellation"))

\* The visit ends, or the guest does not come.
End ==
    /\ owner.status = "active"
    /\ ReservationHandler("End", [owner EXCEPT !.status = "ended"], CancelPending(outbox, Events))

\* A payment that fails releases the reservation and says nothing to the outbox.
ReleaseByPayment ==
    /\ owner.status = "active"
    /\ ReservationHandler("ReleaseByPayment", [owner EXCEPT !.status = "cancelled"], outbox)

\* The state of the current confirmation, worst first, that a manual one must look at.
CurrentConfirmation ==
    {outbox[i].state : i \in {j \in Of(outbox, {"confirmation"}) :
                                outbox[j].state # "cancelled" /\ Relevant(outbox, j)}}

SendConfirmation ==
    /\ owner.status = "active"
    /\ CurrentConfirmation \cap {"processing", "queued", "retry", "uncertain", "failed"} = {}
    /\ owner.channels # {}
    /\ \E confirm_resend \in BOOLEAN :
         /\ "sent" \in CurrentConfirmation => confirm_resend
         /\ ReservationHandler("SendConfirmation", owner, EnqueueReservation(outbox, owner, "confirmation"))

-----------------------------------------------------------------------------
(* Handlers of the waiting list.                                           *)

WaitlistHandler(call, o, box) ==
    /\ call \in world.calls
    /\ owner' = o
    /\ Write(box)
    /\ UNCHANGED <<world, now, hours, worker, received>>

\* Accepted, cancelled and expired entries are all closed for their messages.
NextVersion(status) == [owner EXCEPT !.status = status, !.version = @ + 1, !.at = 0]

\* Each offer of the run takes a version; MaxRows offers are enough.
Offer ==
    /\ owner.status = "waiting"
    /\ owner.version < 2 * MaxRows
    /\ \A i \in Rows : outbox[i].state \notin {"processing", "uncertain"}
    /\ \E at \in {t \in world.times : t > now}, may_contact \in BOOLEAN :
         LET o == [owner EXCEPT !.status = "offered", !.at = at, !.version = @ + 1]
         IN WaitlistHandler("Offer", o, IF may_contact THEN EnqueueTableReady(outbox, o) ELSE outbox)

Withdraw ==
    /\ owner.status = "offered" /\ owner.at > now
    /\ WaitlistHandler("Withdraw", NextVersion("waiting"), CancelPending(outbox, Events))

CancelEntry ==
    /\ owner.status \in {"waiting", "offered"}
    /\ owner.status = "offered" => owner.at > now
    /\ WaitlistHandler("CloseEntry", NextVersion("closed"), CancelPending(outbox, Events))

Accept ==
    /\ owner.status = "offered" /\ owner.at > now
    /\ WaitlistHandler("CloseEntry", NextVersion("closed"), CancelPending(outbox, Events))

\* The sweep releases the tables and leaves the messages to their relevance.
ExpireOffer ==
    /\ owner.status = "offered" /\ owner.at <= now
    /\ owner' = NextVersion("closed")
    /\ UNCHANGED <<world, now, hours, outbox, worker, received>>

Notify ==
    /\ owner.status = "offered" /\ owner.at > now
    /\ \A i \in Of(outbox, {"table_ready"}) : outbox[i].key # owner.version
    /\ owner.channels # {}
    /\ WaitlistHandler("Notify", owner, EnqueueTableReady(outbox, owner))

-----------------------------------------------------------------------------
(* Removal of the owner, the configuration, the operators.                 *)

\* Deletion of a reservation, erasure on request, retention.
Erase ==
    /\ "Erase" \in world.calls
    /\ owner.status \notin {"none", "missing"}
    /\ ErasureAllowed(outbox)
    /\ owner' = [owner EXCEPT !.status = "missing", !.at = 0, !.channels = {}]
    /\ outbox' = Erased(outbox)
    /\ UNCHANGED <<world, now, hours, worker, received>>

Reconfigure ==
    \E h \in 0..MaxHours :
        /\ "Reconfigure" \in world.calls
        /\ h # hours
        /\ hours' = h
        /\ LET cancelled == CancelPending(outbox, {"reminder"})
           IN Write(IF owner.status = "active"
                    THEN ScheduleReminder(cancelled, owner, h, FALSE) ELSE cancelled)
        /\ UNCHANGED <<world, now, owner, worker, received>>

OperatorSets(i, row) ==
    /\ outbox' = [outbox EXCEPT ![i] = row]
    /\ UNCHANGED <<world, now, hours, owner, worker, received>>

\* The operator grants more tries; how many had been made does not matter then.
Granted(row) == [row EXCEPT !.due = now, !.left = world.tries]

RetryFailed(i) ==
    /\ "Retry" \in world.calls
    /\ outbox[i].state = "failed"
    /\ outbox[i].until > now
    /\ Relevant(outbox, i)
    /\ OperatorSets(i, Granted([outbox[i] EXCEPT !.state = "queued"]))

\* What is known to have been delivered can only be acknowledged; only what may
\* still be sent can be sent again; a message nobody waits for is closed.
ReconcileUncertain(i) ==
    /\ "Reconcile" \in world.calls
    /\ outbox[i].state = "uncertain"
    /\ \/ OperatorSets(i, [outbox[i] EXCEPT !.state = "sent", !.stale = FALSE])
       \/ /\ ~outbox[i].stale
          /\ OperatorSets(i, [outbox[i] EXCEPT !.ruled = TRUE,
                !.state = IF world.kind = "waitlist" /\ ~Relevant(outbox, i)
                          THEN "cancelled" ELSE "failed"])
       \/ /\ ~outbox[i].stale
          /\ outbox[i].until > now
          /\ Relevant(outbox, i)
          /\ OperatorSets(i, Granted([outbox[i] EXCEPT !.state = "retry", !.ruled = TRUE]))

-----------------------------------------------------------------------------
(* The worker.                                                             *)

\* Every pass repairs the reminders of the coming days.
ReconcileReminders ==
    /\ Write(IF world.kind = "reservation" /\ owner.status = "active"
             THEN ScheduleReminder(outbox, owner, hours, FALSE) ELSE outbox)
    /\ UNCHANGED <<world, now, hours, owner, worker, received>>

\* Mutant: an ambiguous lapse is retried whatever the provider.
RecoveredByRetry(box, i) ==
    LET row == box[i]
    IN IF ~(row.state = "processing" /\ row.lapsed) THEN row
       ELSE IF row.until > now /\ Relevant(box, i) THEN [Closed(row, "retry") EXCEPT !.due = now]
       ELSE Closed(row, "uncertain")

\* Mutant: a superseded delivery that lapses is closed like one that had not begun.
RecoveredWithoutFence(box, i) ==
    LET row == box[i]
    IN IF ~(row.state = "processing" /\ row.lapsed) THEN row
       ELSE IF ~Relevant(box, i) THEN Closed(row, "cancelled")
       ELSE IF BeforeIO(row) /\ row.until > now THEN [Closed(row, "retry") EXCEPT !.due = now]
       ELSE Closed(row, "uncertain")

\* Mutant: a row whose lease has lapsed is left to the worker that took it.
RecoveredByNobody(box, i) == box[i]

\* _recover_expired_leases, of one row.
Recovered(box, i) ==
    LET row == box[i]
    IN IF ~(row.state = "processing" /\ row.lapsed) THEN row
       ELSE IF BeforeIO(row)
       THEN IF ~Relevant(box, i) THEN Closed(row, "cancelled")
            ELSE IF row.until > now THEN [Closed(row, "retry") EXCEPT !.due = now]
            ELSE Closed(row, "expired")
       ELSE IF Relevant(box, i) /\ row.until > now /\ row.contact \in Idempotent
       THEN [Closed(row, "retry") EXCEPT !.due = now]
       ELSE Closed(row, "uncertain")

\* Leases first, then expiry; then rows that are due, oldest first: those that
\* are not worth sending are settled on the way to the first one that is.
Expired(row) == IF row.state \in PENDING_STATES /\ row.until <= now
                THEN Closed(row, "expired") ELSE row
Settled(box, i) ==
    IF box[i].state \notin PENDING_STATES \/ box[i].due > now THEN box[i]
    ELSE IF ~Relevant(box, i) THEN Closed(box[i], "cancelled")
    ELSE IF box[i].left = 0 THEN Closed(box[i], "failed")
    ELSE box[i]
Before(box, i, j) == box[i].due < box[j].due \/ (box[i].due = box[j].due /\ i <= j)

ClaimNext(w) ==
    LET recovered == [i \in Rows |-> Recovered(outbox, i)]
        live == [i \in Rows |-> Expired(recovered[i])]
        due == {i \in Rows : live[i].state \in PENDING_STATES /\ live[i].due <= now}
        fit == {i \in due : Settled(live, i) = live[i]}
        first == CHOOSE i \in fit : \A j \in fit : Before(live, i, j)
        passed == {i \in due : fit # {} => Before(live, i, first)}
        settled == [i \in Rows |-> IF i \in passed THEN Settled(live, i) ELSE live[i]]
    IN /\ worker[w].at = "idle"
       /\ IF fit = {}
          THEN /\ settled # outbox
               /\ outbox' = settled
               /\ UNCHANGED worker
          ELSE /\ outbox' = [settled EXCEPT ![first].state = "processing",
                                            ![first].attempt = "claimed",
                                            ![first].holder = w,
                                            ![first].left = @ - 1]
               /\ worker' = [worker EXCEPT ![w] = [Idle EXCEPT !.at = "claimed", !.row = first]]
       /\ UNCHANGED <<world, now, hours, owner, received>>

\* The lease is compared by its token: whether it has lapsed does not matter
\* until another worker recovers it.
HoldsLease(w) == outbox[worker[w].row].state = "processing" /\ outbox[worker[w].row].holder = w

\* Mutant: neither the token nor the owner is looked at again before I/O.
MarkClaimStartedUnchecked(w) ==
    LET i == worker[w].row
    IN /\ worker[w].at = "claimed"
       /\ worker' = [worker EXCEPT ![w].at = "started"]
       /\ UNCHANGED <<world, now, hours, owner, outbox, received>>

MarkClaimStarted(w) ==
    LET i == worker[w].row
    IN /\ worker[w].at = "claimed"
       /\ IF HoldsLease(w) /\ outbox[i].until > now /\ outbox[i].attempt = "claimed"
          THEN IF Relevant(outbox, i)
               THEN /\ outbox' = [outbox EXCEPT ![i].attempt = "processing"]
                    /\ worker' = [worker EXCEPT ![w].at = "started"]
               ELSE /\ outbox' = [outbox EXCEPT ![i] = Closed(@, "cancelled")]
                    /\ worker' = [worker EXCEPT ![w] = Idle]
          ELSE /\ worker' = [worker EXCEPT ![w] = Idle]
               /\ UNCHANGED outbox
       /\ UNCHANGED <<world, now, hours, owner, received>>

\* What the adapters make of an exchange: whether the message was accepted, and
\* the outcome they report.  A gateway with our key answers an unclear exchange
\* with "retry", everything else with "uncertain".
Outcomes(contact) ==
    {<<TRUE, "sent">>, <<FALSE, "failed">>, <<FALSE, "retry">>}
    \cup IF contact \in Idempotent THEN {<<TRUE, "retry">>}
         ELSE {<<TRUE, "uncertain">>, <<FALSE, "uncertain">>}

\* The gateway accepts a key once; copies are counted up to two.
Copies(i, accepted) ==
    IF ~accepted THEN received[i]
    ELSE IF outbox[i].contact \in Idempotent THEN 1
    ELSE Min2(received[i] + 1, 2)

DeliverClaim(w) ==
    LET i == worker[w].row
    IN /\ worker[w].at = "started"
       /\ \E outcome \in Outcomes(outbox[i].contact) :
            /\ received' = [received EXCEPT ![i] = Copies(i, outcome[1])]
            /\ worker' = [worker EXCEPT ![w].at = "answered", ![w].result = outcome[2]]
       /\ UNCHANGED <<world, now, hours, owner, outbox>>

\* The states a result may lead to: a retry whose backoff ends too late expires.
Finalized(i, result) ==
    LET row == outbox[i]
        relevant == Relevant(outbox, i)
        superseded == world.kind = "waitlist" /\ ~relevant
    IN CASE result = "sent" /\ superseded -> {[Closed(row, "uncertain") EXCEPT !.stale = TRUE]}
         [] result = "sent" /\ ~superseded -> {Closed(row, "sent")}
         [] result = "retry" /\ ~relevant -> {Closed(row, "cancelled")}
         [] result = "retry" /\ relevant /\ row.left > 0 ->
              {Closed(row, "expired")} \cup (IF row.until > now THEN {[Closed(row, "retry") EXCEPT !.due = now]} ELSE {})
         [] result = "uncertain" -> {Closed(row, "uncertain")}
         [] OTHER -> {Closed(row, IF superseded THEN "cancelled" ELSE "failed")}

FinalizeClaim(w) ==
    LET i == worker[w].row
    IN /\ worker[w].at = "answered"
       /\ worker' = [worker EXCEPT ![w] = Idle]
       /\ IF HoldsLease(w)
          THEN \E row \in Finalized(i, worker[w].result) : outbox' = [outbox EXCEPT ![i] = row]
          ELSE UNCHANGED outbox
       /\ UNCHANGED <<world, now, hours, owner, received>>

\* The process dies and starts again; before the answer, after it, or before I/O.
Crash(w) ==
    /\ worker[w].at # "idle"
    /\ worker' = [worker EXCEPT ![w] = Idle]
    /\ UNCHANGED <<world, now, hours, owner, outbox, received>>

\* Ninety seconds pass for some of the rows that are not finished.
Leased == {i \in Rows : outbox[i].state = "processing" /\ ~outbox[i].lapsed}
LeasesLapse(rows) ==
    /\ rows # {}
    /\ outbox' = [i \in Rows |-> IF i \in rows THEN [outbox[i] EXCEPT !.lapsed = TRUE] ELSE outbox[i]]
    /\ UNCHANGED <<world, now, hours, owner, worker, received>>

Tick ==
    /\ \E t \in world.times : now < t
    /\ now' = now + 1
    /\ UNCHANGED <<world, hours, owner, outbox, worker, received>>

-----------------------------------------------------------------------------
Init ==
    /\ now = 0
    /\ world \in Worlds
    /\ hours \in world.leads
    /\ \E channels \in world.preferences :
         owner = [status |-> IF world.kind = "waitlist" THEN "waiting" ELSE "none",
                  channels |-> channels, at |-> 0, version |-> 0]
    /\ outbox = <<>>
    /\ worker = [w \in world.workers |-> Idle]
    /\ received = [i \in 1..MaxRows |-> 0]

Reservations == Create \/ Edit \/ Confirm \/ Cancel \/ End \/ ReleaseByPayment \/ SendConfirmation
Waitlist == Offer \/ Withdraw \/ CancelEntry \/ Accept \/ ExpireOffer \/ Notify
Operators == Erase \/ Reconfigure \/ \E i \in Rows : RetryFailed(i) \/ ReconcileUncertain(i)
Deliver(w) == ClaimNext(w) \/ MarkClaimStarted(w) \/ DeliverClaim(w) \/ FinalizeClaim(w)

Next ==
    \/ Reservations \/ Waitlist \/ Operators \/ ReconcileReminders \/ Tick
    \/ \E w \in world.workers : Deliver(w) \/ Crash(w)
    \/ \E rows \in SUBSET Leased : LeasesLapse(rows)

Spec == Init /\ [][Next]_vars

\* The loop of the workers goes on after every pass, and time passes.
FairSpec ==
    /\ Spec
    /\ WF_vars(\E w \in world.workers : Deliver(w))
    /\ WF_vars(LeasesLapse(Leased))
    /\ WF_vars(Tick)

-----------------------------------------------------------------------------
(* Properties.                                                             *)

Row == [event : Events, key : Nat, contact : Contacts, due : Int, until : Nat,
        state : RowStates, attempt : {"none", "claimed", "processing"},
        holder : Workers \cup {Nobody}, lapsed : BOOLEAN, left : Nat,
        stale : BOOLEAN, ruled : BOOLEAN]

\* Rows are rows, a lease exists exactly while a row is processed, and a delivered
\* message of a superseded offer waits for its acknowledgement (the CHECK
\* constraints of RezerwacjaWiadomoscOutbox and RezerwacjaWiadomoscProba).
TypeOK ==
    /\ now \in 0..MaxNow /\ hours \in 0..MaxHours
    /\ \A i \in Rows :
         /\ outbox[i] \in Row
         /\ outbox[i].state = "processing" <=> outbox[i].holder # Nobody
         /\ outbox[i].state = "processing" <=> outbox[i].attempt # "none"
         /\ outbox[i].stale => outbox[i].state = "uncertain"
    /\ \A w \in world.workers : worker[w].at # "idle" => worker[w].row \in Rows

\* A worker that dies after it has sent and before it has said so, or that is
\* overtaken by another, makes no second copy: only an operator who has ruled on the
\* uncertain row can (_recover_expired_leases, finalize_claim, reconcile_uncertain).
NoSilentDuplicate ==
    \A i \in Rows : received[i] > 1 => outbox[i].ruled

InFlight(i) == \E w \in world.workers : worker[w].at = "started" /\ worker[w].row = i

\* When a table is offered anew, the guest has no message of an earlier offer that
\* nobody knows of, and none is on its way: what may have gone out is either known
\* to be sent or has been ruled on (zaoferuj_lista_oczekujacych, finalize_claim).
\* The gateway that honours keys is excepted: its retries are taken for safe.
OfferIsFenced ==
    world.kind = "waitlist" /\ owner.status = "offered" =>
        \A i \in Rows :
            /\ outbox[i].key < owner.version
            /\ received[i] > 0 \/ InFlight(i)
            => \/ outbox[i].state = "sent" \/ outbox[i].ruled
               \/ outbox[i].contact \in Idempotent

\* A worker that claimed a row before it was withdrawn, expired or erased does not
\* begin to send it, whenever it comes back (mark_claim_started against
\* _cancel_rows_before_io and prepare_outboxes_for_pii_erasure).
WithdrawnIsNotBegun ==
    [][\A w \in world.workers : worker[w].at = "claimed" /\ worker'[w].at = "started"
          => outbox[worker[w].row].state \notin Terminal]_vars

\* Personal data do not disappear under a worker that is talking to a provider and
\* still holds its lease (prepare_outboxes_for_pii_erasure).
ErasureWaitsForDelivery ==
    [][owner'.status = "missing" /\ owner.status # "missing"
       => \A w \in world.workers : worker[w].at \in {"started", "answered"} => ~HoldsLease(w)]_vars

SameVisit(i, j) ==
    /\ i < j
    /\ outbox[i].event = "reminder" /\ outbox[j].event = "reminder"
    /\ outbox[i].contact = outbox[j].contact /\ outbox[i].until = outbox[j].until
    /\ \A k \in (i + 1)..(j - 1) : outbox[k].event # "change"
    /\ \A k \in Rows \ {i} : outbox[k].key # outbox[i].key

\* The planner, the handlers and a change of the configuration may each schedule a
\* reminder: unless the visit has changed in between, a guest with one channel gets
\* one (schedule_reminder, reconfigure_reminders, reconcile_reminder_schedule).
RemindedOnce ==
    \A i, j \in Rows :
        SameVisit(i, j) /\ outbox[i].contact \notin Idempotent /\ ~outbox[i].ruled
        => received[i] = 0 \/ received[j] = 0

\* Whatever is queued comes to an end, though workers die and leases lapse: it is sent,
\* has failed, has expired, is withdrawn or waits for an operator (_worker_loop).
EveryMessageSettles ==
    \A i \in 1..MaxRows :
        (i \in Rows /\ outbox[i].state \notin Terminal)
        ~> (i \in Rows /\ outbox[i].state \in Terminal)
=============================================================================
