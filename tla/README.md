# Lokalo: a formal model of the reservation core and what surrounds it

Lokalo is a restaurant back office: a FastAPI backend (`src/backend`), a React client
(`src/frontend`), a desktop shell, a local POS agent. Much of it is record keeping. The parts
modelled here are those in which several actors change related rows at the same time, or in which
something outside (a provider, a browser, a clock) fails, repeats itself or answers late. At the
centre is the **inventory of tables**: guests, operators, the host stand, the waiting list, a
payment worker and an expiry worker all change who may use which table in which minutes. Around it
are the payment of a reservation, the messages about it, the locks its transactions take, the
guest's own page, the rules and the floor plan that decide which table may be given, the records of
guests, the shared stations of the reception, and the rota and daily settlement of the staff.

## 1. Inventory of the system

| component | state | operations | what makes it correct |
|---|---|---|---|
| Claim ledger (`reservation_service.py`) | `RezerwacjaStolikClaim`, unique per (table, day, minute), owner, deadline | cleanup, occupancy, allocate, release, transfer | claims are the projections of their owners; a free table can be claimed |
| Public holds (`reservation_service.py`, `main.py`) | `RezerwacjaPublicznyHold`: state, tables, window, deadline | create, release, consume, expire | a valid hold becomes one visit on its tables; limits per session and address hold |
| Waiting list (`main.py`) | `ListaOczekujacych`: status, offered tables, deadline, version | add, offer, accept, withdraw, cancel, realise, legacy hold | one of acceptance and expiry wins; a live offer can be accepted |
| Reservations (`main.py`) | `Termin`: status, phase, tables, window | create, edit, confirm, cancel, status, remove, no-show, reoptimise | never two owners of one minute; final statuses are final |
| Host stand (`main.py`) | phase of a visit (`faza_hosta`) | assign, seat, phases | a table with a party is not given away |
| Expiry worker (`reservation_communication.py`) | none of its own | sweep of the days with expired promises | every expired promise is released |
| Startup rebuild (`database.py`) | none of its own | the ledger from the rows | moves nothing but the buffers after visits |
| Payments (`reservation_payment_worker.py`, `reservation_payments.py`, `stripe_payments.py`) | payment, command queue with leases, webhook inbox | claim, execute, finalise, ingest, reconcile | money moves once; a late answer does not undo a newer one |
| Communication outbox (`reservation_communication.py`, `sms.py`, `mailer.py`) | messages, attempts, leases | queue, claim, deliver, finalise, supersede, rule on | not lost; not sent twice without an operator's ruling; not sent once withdrawn |
| Day locks (`reservation_service.py`) | an anchor row per day, rows of tables, advisory locks | lock, relock when the row moved | writes hold their day; no deadlock; no livelock |
| Guest's page and tokens (`RezerwacjaWidget.jsx`, `reservation_service.py`, `main.py`) | keys of the page, cookie, chain of tokens, stored answers | hold, submit, queue, edit, cancel, pay again, erase | a repetition is answered, never run twice, and locks nobody out |
| Rules, seating, allocator (`reservation_rules.py`, `seating.py`, `reservation_allocator.py`) | configuration | evaluate, propose | limits are kept by all that counted on them |
| Floor plan (`routers/plan_sali.py`, `main.py`) | rooms, tables, versions of plans | draft, save, publish, discard, edit older tables | no publication breaks a promise |
| Guest records (`routers/crm.py`, `crm_governance.py`, `routers/rodo.py`) | identities, merges, consents, profiles | merge, undo, record, correct, erase, retain | a withdrawal stands until a later consent; merges join the living |
| Workstations (`workstation_auth.py`, `routers/workstations.py`) | station, PIN, session, one-time confirmation | register, unlock, take over, confirm, override, revoke | an override is confirmed by who commits it, now |
| Rota and shift exchange (`main.py`, `algorithm.py`, `routers/gielda.py`) | shifts, requirements, offers | plan, assign automatically, publish, offer, take, accept, reject, withdraw | a shift moves only from a taken offer |
| Settlement of a day (`routers/moje.py`, `deps.py`, `main.py`) | reports of the waiters, bills of the POS | report, ingest, dismiss, save | the administrator learns of a complete day |
| Provisioning, subscription, fleet | registry of instances | create, start, register, bill | no port or name used twice |
| Authentication, audit, migrations, screens, POS arithmetic | records | | tests reach it |

Components meet in four ways. They *call* `reservation_service` inside one database transaction
that first locks the anchors of its days; they *share* the claim table, so each writer of a day
first cleans up what others let expire; workers *poll* the tables and act in transactions of their
own; and everything that leaves the process (Stripe, SMTP, the SMS gateway, the guest's browser)
is spoken to with no transaction open. Two transactions on one day are serialised by its anchor,
two on different days touch different claims. So the hard behaviours of the inventory are not torn
reads but orders of transactions nobody wrote a test for, and elsewhere what is read before a lock
and used after it. `PROJECT.json` lists the hazards, each at its line.

## 2. Modules

| module | models | lines of the code |
|---|---|---|
| `ReservationLedger` | claims and all of their owners; an action is one committed transaction | `reservation_service.py`, `main.py`, `database.py` |
| `TableInventory` | the abstract inventory the ledger implements | |
| `ReservationPayments` | one payment, its commands, workers, Stripe, webhooks | `reservation_payment*.py`, `stripe_payments.py`, `routers/platnosci.py` |
| `CommunicationOutbox` | the messages of one owner, workers, providers | `reservation_communication.py`, `sms.py` |
| `ReservationLocks` | the locks of each kind of transaction, as PostgreSQL grants them | `reservation_service.py`, `main.py`, `routers/rodo.py`, `maintenance.py` |
| `GuestRequests` | the booking page, a lossy network, the public API, tokens and keys | `RezerwacjaWidget.jsx`, `main.py`, `reservation_service.py` |
| `BookingRules` | services, settings by layer, limits (functions of a day and a request) | `reservation_rules.py` |
| `Seating` | candidates, combinations, the order of candidates (functions) | `seating.py`, `reservation_allocator.py` |
| `FloorPlan` | plans, older tables, rules and the parties that rely on them; extends the two above | `routers/plan_sali.py`, `routers/reguly_rezerwacji.py`, `main.py` |
| `Customers` | identities, merges, consents, profiles, erasure | `crm_governance.py`, `routers/crm.py`, `routers/rodo.py` |
| `OperatorSessions` | stations, PINs, sessions, confirmations, two-step admission | `workstation_auth.py`, `routers/workstations.py`, `auth.py` |
| `StaffRota` | shifts, requirements, automatic assignment, exchange | `main.py`, `algorithm.py`, `prawo_pracy.py`, `routers/gielda.py` |
| `DaySettlement` | the settlement of a day; extends `StaffRota` | `routers/moje.py`, `deps.py`, `main.py` |

`MC*.tla` give constants their values for TLC; the modules `*_proofs.tla` hold the theorems (section 5).
Actions carry the names of the handlers where the language allows it; `PROJECT.json` gives the
lines of each definition. Most modules have a variable `world` that never changes: an element of the
constant `Worlds`, which says which operations a behaviour uses and bounds it. One run then
goes through several small instances, each of which would be too large together with the others.

### The ledger

| variable | code |
|---|---|
| `now` | the naive UTC clock that deadlines are compared with |
| `hold` | rows of `RezerwacjaPublicznyHold`: state, day, tables, window, `expires_at` |
| `wait` | rows of `ListaOczekujacych`: status, day, tables, window, `hold_do` |
| `termin` | rows of `Termin` of kind `stolik`: status, `faza_hosta`, day, tables, window, whether the allocator placed it, whether a guest manages it |
| `claims` | for each (day, table, slot) the owner and the deadline of its claim, or nobody |

Everything the handler does under its day locks is in its action: the cleanup of the day, the
release of old claims, the check, the new claims, the row. A refused request rolls back and is no
step. So `Fits` is a guard in two parts: no table of the set is in `occupied_table_ids`, and no
claim is left on its cells. The second part is the unique key of the database. The code does *not*
look at it, it only gets an `IntegrityError`; that the first part implies the second is a property
(`FreeMeansInsertable`), not an assumption.

- Minutes are grouped into `Slots`. What an owner asks for is a `Span`, a visit and the buffer
  after it. What it may become under the current rules is any span whose visit starts at the same
  time (`SameStart`), with any buffer: defaults, services, rooms and rules each may set one.
- Rules, pacing, quotas, limits of sessions, permissions, versions of an offer, idempotency keys
  and payment guards only refuse requests. This module lets any request through; `BookingRules`,
  `FloorPlan`, `ReservationLocks` and `GuestRequests` look at them.
- Reservations without a time hold no claim and are left out. A finished hold or visit keeps
  its state, and a visit its phase; its old projection is read by no writer and is set to a blank
  row, which is also why an edit of a finished visit is a stutter here.
- The reoptimisation after a release is a transaction of its own in the code, and here, one
  visit per step. When it is worthwhile is nondeterministic.
- A reservation stores no buffer, so the rebuild cannot give back the one it was written with: it
  gives all of them one and the same, that of `LokalConfig` (`Rebuffered`, any of `Buffers`), and
  takes the cells of holds and offers as their rows have them. In the code it runs only when a
  database without a version is adopted (`database.py:4116`); in the model at any time.
- The worker collects its days before it locks them and looks again after. Both are one step here;
  `ReservationLocks` takes them apart.
- Erasure of personal data acts as `OnlineOdwolaj`; removal of a table from the floor plan
  commits the same cleanup as a sweep.

**The abstract inventory.** `TableInventory` knows parties, the places each holds and until when,
and nothing else: one party at a time takes places that are free or whose promise has run out, a
promise that still holds may be succeeded by a visit, anybody may lose everything, and nobody loses
a part, except when the places of visits are measured anew (`Remeasure`, the rebuild): then a visit keeps
some of its places and gains such as nobody has or lets go, and no promise changes. `ReservationLedger` implements it under the mapping `Held` (`INSTANCE TableInventory
WITH ...`): a party holds the cells the claims give it, until the deadline its row implies. That is
the property `ImplementsInventory`, and it says in one formula that no operation, sweep
or rebuild takes a table from somebody who still has time.

### The payment

| variable | code |
|---|---|
| `policy` | `policy_snapshot`: captured by hand, refunded after a cancellation, table released after a failure |
| `rez` | the reservation `termin_id` points to: active, cancelled, or the link cut |
| `pay` | `Platnosc`: `status`, `refund_status`, whether the Checkout Session and the PaymentIntent are known |
| `cmd` | `RezerwacjaPlatnoscPolecenie` by operation key: type, state, tries, window, lease, the kind of object recorded |
| `inbox` | `RezerwacjaPlatnoscWebhook` by event: state, tries, lease, the refund it is about |
| `worker` | what a worker thread holds in memory between its transactions: the claim or the answer |
| `stripe` | the provider: session, intent, refunds, replies remembered by idempotency key |

An action is one transaction (`ClaimNext`, `FinalizeClaim`, `CancelReservation`, ...), one
exchange with Stripe (`ExecuteClaim`, `ExecuteWebhookClaim`) with no transaction open, or one step
of the outside (`GuestPays`, `LeaseLapses`, `Crash`, ...). The order inside a transaction is kept:
a claim first recovers lapsed leases, then expires the commands whose window has ended, then
settles stale rows until it finds one it can claim; recording an answer projects it on the payment,
which may order a refund or release the reservation, before it decides the state of the row. An
answer may be lost after Stripe has acted, a worker may die at any point, its lease may lapse while
it is only slow, and another worker then repeats the command under the same key. A worker whose
lease is gone records nothing.

Stripe is external: a request under a new key is carried out or refused, and the reply is
remembered; the same key is answered with the remembered reply; a Checkout whose `expires_at` has
moved is turned down. Events are signed only when they are true, but arrive at any later time and in
any order, and are read against the live object. The module has no clock (a lease may lapse, a
window end and a backoff be over at any moment) and only full amounts. Partial captures, refunds made in
the Stripe Dashboard, disputes, the sandbox provider, the paid flag of the reservation and audit
rows are left out. A refund is for the whole balance: a claim remembers whether one was left when it was
made (`left`), and a refund that finds none, be it the repetition of one whose answer was lost, is refused without
a call (`Unsent`). Which of several due commands is claimed is chance. A finished row forgets its tries,
window and lease. The ledger and the payment meet in `ReleaseReservation`: what a failed
payment does to the row and its claims is `ZwolnijPoPlatnosci` of `ReservationLedger`, and what it does to
the messages `ReleaseByPayment` of `CommunicationOutbox`.

### The outbox

`CommunicationOutbox` has one owner, a reservation or an entry of the waiting list. `outbox` is its
rows of `RezerwacjaWiadomoscOutbox` with their last attempt, `worker` what a delivery thread has in
memory, `received` (external) the copies of each row that reached the guest. The handlers of the
owner queue, supersede and withdraw rows with the owner's change, in one transaction; a worker
claims a row under a lease (`ClaimNext`), says that it begins (`MarkClaimStarted`), talks to the
provider with no transaction open (`DeliverClaim`) and records the result (`FinalizeClaim`). It may
die between any two of these, or be so slow that its lease lapses and another takes over. Operators
retry failed rows and rule on uncertain ones. What the adapters make of an exchange is in
`Outcomes`: mail and a gateway without our key answer an unclear exchange with "uncertain", the one
that honours the key with "retry". Templates and wording, masking and read models are left out; a
message is its event, its key, its contact and its times.

### The locks

`ReservationLocks` is what the other modules assume when they call a transaction one step.
`holder` says which transaction holds each lock: anchors of days, rows of tables, messages and
payments, the configuration row, advisory locks of the planner, of the retention and of the
subjects of holds. `tx` says what each session does: which days it read before it held any, which locks
it still takes and in which order. A session starts (`StartEdit`, ...), takes one lock per step (`Acquire`), reads its
rows again, starts over when the days have changed (`Restart`), and commits its whole effect
in the step that ends it. PostgreSQL fails one of a circle (`Victim`). Effects are reduced to what
locks protect: the day, the status, the payment and the personal data of a reservation, its
messages, the holds of a session and an address. Isolation is READ COMMITTED, so a row read
before a lock may change until it is granted.

### The guest

`GuestRequests` joins three things: `db`, the rows of one guest (holds, visits, entries, the chain of
management tokens, recorded answers by key), `page`, what `RezerwacjaWidget.jsx` has in its refs, its
cookie and its open connections, and `late`, requests nobody waits for any more. The network may lose
a request, lose an answer, break an answer between its headers and its body (the cookie is set, the
page does not know), and deliver a request long after the page gave it up. A press of a button uses
the key of the last attempt unless what it asks for has changed. A request is one transaction of
the server. Others (an operator, the payment, the clock) act on the same rows.

### The hall

`BookingRules` and `Seating` are functions: services of a day from hours and exceptions, settings by
layer (defaults, configuration, service, room, overrides by specificity), limits per scope, the decision; candidates
for a party from single tables, defined combinations and the graph of neighbours, their cost and
order. `FloorPlan` is the state they work on: `hall` (rooms, tables, versions of plans,
combinations, edges, rules), `parties` (visits, offers, holds), `editor` (what each client knows of
the draft), `writer` (what the holder of the day's lock has chosen). Writers of the day hold its lock;
the editor of a plan does not and meets them only at the rows of the tables, so that choosing and
committing are two steps (`ChooseForOffer`, `CommitOffer`), and so are the validation of a publication
and its commit. An offer keeps what its operator set aside when it was made (`overridden`) and may break
that, and limits, again when it is accepted. `order` is a history variable of `LimitsHeld`. Coordinates and shapes, the text of reasons, the forecast of demand are
left out.

### Guest records

`Customers` keeps visits, entries, profiles, merges, consents and used keys, and up to two requests at
once in `open`. Writers of the graph of identities hold the row of `LokalConfig` from
`lock_governance_graph` to their commit; one that takes the lock first and then reads is one step,
an edit that reads before it is two, and an upsert of a profile does not take it at all. An edit
of a table's visit holds the row from its read to its commit. `edytuj_termin`, the form of the events, reads a
hall's visit (`rodzaj = "sala"`) without a lock, so that two such edits may overlap; no code makes such rows
any more, and `world.halls` says which visits are of that kind at the start. `unseen` is a history variable: the
identities that an edit wrote over without having read them. A consent is recorded under the identity that
was loaded with the rights, before the lock (`ReadConsent`, `RecordConsent`). Erasure reads a hall's visit before it
waits, too; that race is not modelled (`CustomersAssumption`). The
identity of a row is its telephone, else its e-mail, else itself, as in `crm_identity.py`.

### The stations

`OperatorSessions`: a request is admitted twice, by the middleware (`Gate`) and by the dependency of
its endpoint (`Depend`), each on what it reads, then its body runs on rows the ORM session may
remember from before. `req` holds what each request has read, `adm` the same for one administrator's
request, which revokes sessions one row at a time. PINs are serial numbers; `pins` counts those given
out. Idle and absolute timeouts and the life of a confirmation are ticks of `now`.

### The staff

`StaffRota`: `rota` is the rows (shifts, requirements, events, offers, publications, leave,
availability), `open` the request each of two slots runs. A request that reads, decides and writes
is two steps with what it read kept in its slot, and writes back only the columns the ORM found changed. The
labour-law checks, the count of requirements, the places and the order of candidates of `auto_assign` are
operators. `DaySettlement` extends it with `books` and `bills`: each request first gets or makes the
day's settlement and commits it, and what follows is a transaction of its own. Amounts are left out.

## 3. Runs

| run | instance | distinct states | shows |
|---|---|---|---|
| `ledger_days` | 2 days, 2 tables, 1 slot, a hold, an entry, a visit, clock 0..2, worker fair | 37,000 | `FreeMeansInsertable`, `PromiseBecomesVisit`, `ExpiredIsReleased`, `EndedIsFinal`, `PromisesKept` |
| `ledger_visits` | 1 day, 2 tables, 2 slots, visits of one slot, buffers 0 and 1, a hold, 2 visits (symmetric), no clock | 41,000 | `NoDoubleBooking`, `ClaimsMatchOwners`, `LiveTableNotResold`, `RebuildOnlyMovesBuffers`, `ImplementsInventory` |
| `rebuild_refused` | 2 visits | | `RebuildAlwaysAccepted` is violated: a later visit of a live table |
| `payments_calls` | 4 worlds: 1 worker, any one of 7 events, windows may end, cancel, retry, edit, 3 policies; deletion; a refund that loses its answer, is booked by its event and reconciled; 2 workers, an operator's key, a success and a late failure | 757,000 | `TypeOK`, `BooksFollowProvider`, `LateMoneyIsReturned`, `AmbiguityIsKept`, `MoneyIsNotForgotten` |
| `payments_settle` | 1 worker, one event, deletion, deposit, 2 tries, fair worker | 4,427 | `CommandsSettle` |
| `outbox` | 4 worlds, up to 2 workers, 3 rows, clock 0..2, 1 or 2 tries, fair workers | 148,000 | `TypeOK`, `NoSilentDuplicate`, `OfferIsFenced`, `RemindedOnce`, `WithdrawnIsNotBegun`, `ErasureWaitsForDelivery`, `EveryMessageSettles` |
| `locks` | 5 worlds of 2 transactions, 2 days, 2 tables, up to 2 reservations, limits of 1 | 83,000 | `LimitsHold`, `ErasedHasNoMessages`, `CirclesPassConfiguration`, `WritesHoldTheDay`, `EveryTransactionEnds` |
| `guest` | 6 worlds, up to 4 keys, 2 visits, 4 tokens, 2 late copies | 951,000 | `OneVisitPerSubmission`, `RepetitionSucceeds`, `ErasedHasNoWayBack`, `ChangeSpendsToken` |
| `hall` | 14 worlds, 2 clients (symmetric), up to 3 tables, 2 rooms, 3 versions, 2 parties, a day of 6 minutes | 96,000 | `OffersAreHonoured`, `LimitsHeld` |
| `customers` | 13 worlds, up to 3 visits, 3 contacts, 2 requests at once, 3 consents, 2 merges | 821,000 | `MergesJoinTheLiving`, `WithdrawalsStand` |
| `sessions` | 9 worlds, 1 station, up to 2 operators and 2 requests, an administrator, 2 confirmations | 968,000 | `OverridesAreConfirmed` |
| `staff` | 13 worlds of up to 2 concurrent requests, 3 workers, days 1, 2, 6, 8, 3 shifts, 2 offers | 1,196,000 | `AdminLearnsOfCompleteDay`, `FirstTakerKeeps`, `MovesOnlyFromTaken` |


*Ledger.* The transaction of an owner reads other owners only through "is this cell taken" and "does
a party sit there", so two competitors are enough for each conflict and a third for a cell that
passes from one to another. Two tables are the least with which a combination overlaps a single
table. Visits of one slot with and without a buffer that reaches into the next are the least with touching visits, and with
two that overlap by a buffer only; that run has no clock, for deadlines are the matter of `ledger_days`. Lifetimes of
one tick and a clock of two ticks give every order of creation, deadline, sweep and answer.
Two days are needed because a cleanup covers the days of its transaction only. What the proofs cover
holds beyond these bounds.

*Payment.* `MaxTries = 2` is the least with which a command is tried, lost or taken over, and tried
for the last time. Two workers are enough for a takeover; the worlds with one still have a slow
worker against Stripe, the guest and the reservation, and a crash between any two of its steps. Each
event comes alone in the first world and the two that contradict each other together in the last; a
repeated delivery leaves no row. Two keys of the operator are a refund and its reconciliation. `MaxWebhookTries = 1`: an event that fails is an event that never came.

*Outbox.* Two tries and two workers give a takeover and a last try; three rows give a confirmation or
offer, its successor and a reminder, or three generations of reminders; two ticks of the clock
separate "due", "expired" and "later".

*Locks.* Two transactions are enough for every pair of orders, and each kind meets each kind it shares
a resource with in some world, so that the circles seen are circles of two. Limits of
one make two holds a violation. Two days are the least with a day moved to and one moved from.

*Guest.* Four keys are a first attempt, a changed one and two more intents; two late copies are those
of a request and of its repetition; four tokens a chain in which the first is long spent.

*Hall.* Each world takes the operations that share a table, a plan or a limit. Two parties are one that
was promised something and one that comes later; a plan of two tables with their combination is
the least that can be parted, shrunk, closed and moved to another channel. One world has rooms, older
tables and offers together: there `OffersAreHonoured` is about tables that have a room of their own; section 4
(15) says what becomes of the others.

*Customers, sessions, staff.* Two requests at once are what an interleaving of a read and a write needs;
three visits, three shifts and three workers the least in which something passes from one to another
and a third can interfere. `MergesJoinTheLiving` excepts an identity that a hall's edit overlooked (17), and
`AdminLearnsOfCompleteDay` a day on which a waiter has two rows (19); the numbers are those of section 4.

`CHECK_DEADLOCK FALSE` where ids, keys or a clock are used up and the instance ends: the ledger,
`hall`, `customers`, `sessions`, `staff`. The others never stop.

*Fairness.* The ledger's `FairSpec` adds `WF_vars(RunWaitlistExpiryOnce)` and nothing else:
`_worker_loop` (`reservation_communication.py:1796-1800`) calls the sweep for ever and
`_run_safely` survives a failed round. In `ReservationPayments` each worker of the world goes on working
(`reservation_payment_worker.py:2057-2082`), any of its steps will do, and every lease lapses in the end.
Crashes, Stripe, the guest and the operator owe nothing. In `CommunicationOutbox` a worker goes on
(`_worker_loop`, `start_worker`), leases lapse and time passes. In `ReservationLocks` a running
transaction goes on (weak fairness), a lock is granted to who asks for it again and again (strong
fairness: PostgreSQL queues the waiters of a lock in their order, and each of them gets it although it is
taken and freed in between), and a circle is found and broken (`deadlock_timeout`).
Nothing says that transactions come, or that others stop moving a reservation: `EveryTransactionEnds` holds
because a restart takes the old days together with the new.

## 4. Where documentation and code disagree

The run `rebuild_refused` shows the first; the others were met while modelling. Where a model reaches one that would break
a property, the property excepts it by name (15, 17, 19). Each entry gives the steps.

*Ledger.*

1. The rebuild of the ledger is called idempotent (`database.py:996`). It may refuse the
   rows of an ordinary evening: it passes each row through the allocation check, which blocks the
   whole day of a table with a live party, so that table's later visit raises `TABLE_CONFLICT`. And it gives every
   visit the buffer of `LokalConfig` alone, which may be shorter than the one a rule gave it, although
   `_configured_post_buffer_min` (`reservation_service.py:998`) calls the largest configured one the safe choice:
   the rebuild asks it to leave rules and rooms out, for the sake of schemas that have none.
2. `occupied_table_ids` (`reservation_service.py:1733-1734`) promises that a seated guest's tables stay
   occupied *until the guest leaves*. A failed payment with policy `zwolnij`
   (`reservation_payment_worker.py:1217-1245`), the guest's own cancellation (`main.py:9356-9363`) and the
   operator's change of status (`main.py:5023-5076`) cancel the visit without looking at the phase, and the
   table is free under the party. The guest's edit does look.
3. The same sentence fails for the next party: `host_zmien_faze` (`main.py:4076-4081`) seats it without
   looking at who sits there. `host_posadz_rezerwacje` looks. `LiveTableNotResold` is what does hold: no step
   *claims* a table under an active live party.

*Payment.*

4. The roadmap (`docs/ROADMAP-REZERWACJE.md:861-862`) says that one reconcile stays in the queue until
   the whole chain of uncertain commands is resolved. `finalize_claim` goes on only after a source that
   *succeeded* (line 1511); one that is resolved as failed ends the chain.
5. A comment (`reservation_payment_worker.py:411-412`) warns of a refund that is pending in the books with
   no money moving. `request_refund` makes one: asked again under a key whose command has failed, it
   sets `refund_status` to `oczekuje` and queues nothing (`reservation_payments.py:665-668`).
6. `execute_claim` (1006-1009) relies on the key to make a repeated Checkout a lookup. Its `expires_at` moves
   with the clock, Stripe turns it down, and the worker reads that as a failure of a Checkout that exists.
7. A payment may end with two refund commands (Stripe refuses the second); a second refund answer leaves its
   command uncertain; an authorization Stripe did not let go holds the guest's card until it expires.
8. `execute_claim` (1004-1007) says that a re-run under the same key proves whether a refund took effect. When an event has
   booked the refund meanwhile, the re-run finds 0 left, answers `PARTIAL_REFUND_UNSUPPORTED` without a call
   (990-992), and the refund that Stripe did is recorded as failed. Payment and money are right.

*Locks.*

9. `reservation_communication.py:539-541` states the global order *owner day, planner, outbox*. An edit
   that changes a contact takes the row of `LokalConfig` (`lock_governance_graph`) before the planner; erasure,
   retention and the change of the configuration (`routers/lokal.py:38-47`) take the planner first. The two may deadlock, and
   PostgreSQL fails one; `CirclesPassConfiguration` says that this circle is the only one.
10. `begin_floor_plan_write` (`reservation_service.py:796-802`) says that a publication meets reservations *and holds* at the
   rows of the tables. A public hold takes no row of a table, so a published plan may strand it.

*Outbox.*

11. A retry behind the gateway that honours keys is not fenced: an expired row may have reached the guest.
    A change of the lead may send a reminder again behind that gateway. Both are excepted in the properties.

*Guest.*

12. The page keeps the key of its last hold after success. Choosing the same hour again after release answers
    410 `PUBLIC_HOLD_INACTIVE` until the page is reloaded: only 409 clears the key
    (`RezerwacjaWidget.jsx:410`), though the search promises hours that can be booked at once.
13. A late copy of the hold and the submission, or of an entry of the waiting list, that arrives after an erasure makes
    personal data anew. A reload while a change is unanswered loses its key: if the answer's cookie is lost too,
    the guest is locked out. A form that is changed after a lost answer is refused with 409, and the page no longer reaches the visit it has.

*Hall.*

14. `dodaj_rezerwacje_stolik` chooses tables and then locks them (`main.py:4510`) without choosing again, as does
    automatic allocation. The waiting list does (`main.py:5744-5745` says why). A plan published in
    between leaves a new visit on a closed or shrunk table.
15. A publication ignores public holds, and the confirmation of a hold does not look at capacity. A manual choice of one
    table ignores its least party, so that a later publication reports a conflict for a visit it accepted.
    `edytuj_stolik` may lower a capacity under a visit. A room that is created with, or renamed to, the name of the zone of older
    tables takes them into a plan that nobody has published; the routes do not look at offers (`plan_sali.py:1032-1055`), so an
    offer of such a table cannot be accepted, contrary to `main.py:2614-2618`.
16. A limit of a room or channel replaces that of the house instead of adding to it; public holds count
    against none. `_kombinacje_z_grafu` (`seating.py:71-72`) calls its sets minimal; the search may reach a set
    with a table it could do without.

*Guest records.*

17. `_migruj_osierocony_profil_po_zmianie_tozsamosci` (`main.py:3227-3232`) promises that no profile is left
    behind; it decides before the lock, so two edits at once may leave one. The deletion of the last
    visit leaves profile and merges. An erasure by e-mail deletes consents and merges of an identity a
    retained visit still carries. Saving the profile of a joined group makes undoing not restore it.
    Two overlapping edits of a hall's visit leave a merge of an identity that no row carries (`main.py:1729-1751`, against
    `crm_governance.py:554`). A consent is recorded under the identity its visit had before the lock
    (`crm.py:813`, against `crm_governance.py:27-30`).

*Stations.*

18. Two unlocks or failures at once write counters and epoch from what they read: a count may be lost and an epoch
    step back, after which a fresh operator is asked for the PIN again. A late 423 clears the cookies of a newer session.
    Two administrators who set one PIN at once give two PINs one `version`, so that a session of the first survives,
    contrary to `models.py:199-200`; the run has one administrator.

*Staff.*

19. `auto_assign` loads shifts of the planned range only (`algorithm.py:15-16`), so rest and limits across its
    border go unseen. Accepting an exchange checks neither one shift a day nor labour law. A withdrawal or
    rejection that was read earlier overwrites an accepted offer (`gielda.py:231`): the shift has moved although the offer says
    otherwise, which is why `MovesOnlyFromTaken` is about the step that moves it. A waiter's list of terminals is written whole from
    an older read. The notice of a complete day may be sent twice, and is not sent when the last unreported waiter is dismissed.
    Nor is it when two requests build the day at once and both append a new waiter: no key forbids the second
    row, which he never confirms (`deps.py:381-389`, against `moje.py:514`).

## 5. Proofs

Each `X_proofs.tla` extends `X` and proves its theorems for every value of the constants that
satisfies the assumptions of `X`. Each inductive invariant was checked by TLC on the
run of its module before it was proved; the runs and the theorems state the same formulas.

| module | theorem | statement |
|---|---|---|
| `ReservationLedger_proofs` | `InductiveInvariant` | `Spec => []IInv` |
| | `TypeCorrect` | `Spec => []TypeOK` |
| | `LedgerMatchesOwners` | `Spec => []ClaimsMatchOwners` |
| | `TablesAreNotDoubleBooked` | `Spec => []NoDoubleBooking` |
| | `FreeTablesCanBeClaimed` | `Spec => []FreeMeansInsertable` |
| | `RebuildMovesOnlyBuffers` | `Spec => RebuildOnlyMovesBuffers` |
| | `EndedStaysEnded` | `Spec => EndedIsFinal` |
| | `PromisesBecomeVisits` | `Spec => PromiseBecomesVisit` |
| | `PromisesAreKept` | `Spec => PromisesKept` |
| | `SeatedPartiesKeepTheirTables` | `Spec => LiveTableNotResold` |
| | `LedgerImplementsInventory` | `Spec => ImplementsInventory` (refinement) |
| `ReservationPayments_proofs` | `InductiveInvariant` | `Spec => []IInv` |
| | `PaymentTypes` | `Spec => []TypeOK` |
| | `BooksNeverOverstate` | `Spec => []BooksFollowProvider` |
| | `CalledOffMoneyHasItsRefund` | `Spec => []LateMoneyIsReturned` |
| | `UnknownStaysOpen` | `Spec => []AmbiguityIsKept` |
| | `CapturedStaysCaptured` | `Spec => MoneyIsNotForgotten` |
| `ReservationLocks_proofs` | `InductiveInvariant` | `Spec => []IInv` |
| | `LockTypes` | `Spec => []TypeOK` |
| | `HoldsStayWithinLimits` | `Spec => []LimitsHold` |
| | `ErasedStaysUnannounced` | `Spec => []ErasedHasNoMessages` |
| | `DaysGuardWrites` | `Spec => WritesHoldTheDay` |
| | `CirclesNeedConfiguration` | `Spec => []CirclesPassConfiguration` |
| `CommunicationOutbox_proofs` | `InductiveInvariant` | `Spec => []IInv` |
| | `OutboxTypes` | `Spec => []TypeOK` |
| | `NoCopyUnruled` | `Spec => []NoSilentDuplicate` |
| | `OffersAreFenced` | `Spec => []OfferIsFenced` |
| | `RemindersComeOnce` | `Spec => []RemindedOnce` |
| | `WithdrawnStaysUnsent` | `Spec => WithdrawnIsNotBegun` |
| | `ErasureWaits` | `Spec => ErasureWaitsForDelivery` |
| `GuestRequests_proofs` | `InductiveInvariant` | `Spec => []IInv` |
| | `FormsAreBookedOnce` | `Spec => []OneVisitPerSubmission` |
| | `ErasedStaysUnreached` | `Spec => []ErasedHasNoWayBack` |
| | `LateCopiesUndoNothing` | `Spec => ChangeSpendsToken` |
| | `GuestIsNotLockedOut` | `Spec => []RepetitionSucceeds` |
| `OperatorSessions_proofs` | `InductiveInvariant` | `Spec => []IInv` |
| | `EveryOverrideIsConfirmed` | `Spec => []OverridesAreConfirmed` |
| `Customers_proofs` | `InductiveInvariant` | `Spec => []IInv` |
| | `MergesStayWithTheLiving` | `Spec => []MergesJoinTheLiving` |
| | `WithdrawnGuestsStayOut` | `Spec => WithdrawalsStand` |
| `DaySettlement_proofs` | `InductiveInvariant` | `Spec => []IInv` |
| | `FirstTakerIsKept` | `Spec => FirstTakerKeeps` |
| | `ShiftsMoveByDecision` | `Spec => MovesOnlyFromTaken` |
| | `CompleteDayIsTold` | `Spec => []AdminLearnsOfCompleteDay` |

### The ledger

*Assumed* (`LedgerAssumption`): the three kinds of owner are disjoint, windows and proposed table sets
are not empty, slots and buffers are numbers, lifetimes are positive. Any number of owners, tables, days and slots.

*The invariant.* `ClaimsMatchOwners` is not inductive: after a step that cleans up a whole day it
is not visible from the claims alone which owner lost what. The invariant is written
instead as an agreement of three things, `Agree(C, ask, due)`: a table of claims `C`, a function
`ask` from owners to the cells their rows ask for, a function `due` from owners to deadlines.
Each transaction is a composition of three moves, and one lemma says that each preserves
the agreement: `CleanupAgrees` (the expired owners ask for nothing any more),
`ReleasedAgrees` (an owner gives up everything), `InsertedAgrees` (an owner that asks for nothing
takes free cells). `ReplacedAgrees` puts the last two together, and the proof of a
transaction is then a citation of these lemmas and the observation of what its row asks for.
The rebuild is no such composition, for it makes all claims at once under another buffer: `RebuiltAgrees` shows that
an accepted rebuild agrees with its rows. `NoMinutePasses` shows the hard part of `RebuildMovesOnlyBuffers`, that no
visit gets a minute which another had: of two visits that follow each other on a table, the later would have
begun within the claims of the earlier, before the rebuild or after it. `NoDoubleBooking` follows because a cell has one owner, `FreeMeansInsertable` because
after the cleanup every claim that is left has a deadline in the future.

*Action properties and the refinement* do not go through the thirty or so actions one by one. `StepKinds` brings
every step to one of thirteen kinds (nothing but the cleanup, one owner releases, one owner takes, a promise is
succeeded by its visit, the rebuild, ...). Each property then looks at each kind once: what it does to the rows
(`RowsMove`, from which `EndedStaysEnded` and `PromisesBecomeVisits`), to the claims
(`NewClaimsAreNotLive`) and to the abstract inventory. For the latter `HeldIsAsked` says that what `TableInventory`
calls held are the cells the owners ask for, `ReleaseShape`, `TakeShape`, `SucceedShape` and `RemeasureShape` give the abstract
action for a kind, and `InventoryStep` puts them together.

### The payment

*Assumed* (`PaymentAssumption`, `NoneAssumption`): keys of operators are not those of the system, `None` is no key
and no status, at least one try. Any number of workers, operator keys, events and tries.

*The invariant* has a part for each party. `ProviderOK` is about Stripe alone. The difficulty is that an answer may be
used long after it was given, by a worker whose lease has gone, or never: so the invariant says of each reply under
way that it is `Truthful` (what it says of the money is the case at Stripe) and that it `AnswersFor` the command it
will be recorded for; and `Later` collects what is never undone at Stripe (captured stays captured, a refund that was
made stays, a declined checkout stays declined). `LaterReply` then says that a reply stays truthful, which is the whole reason
why its lateness does not matter. `Sound` relates the payment row and its commands to Stripe and
to `Sent`, the commands whose request may be on its way: these are the ones that must not be
closed as failed. A refund refused because nothing is left of the payment is the one local failure of a command that may be at
Stripe; `UnknownStaysOpen` holds because it finds nothing left only after the books show the refund. `MoneyReturned` is `LateMoneyIsReturned` written for a transaction under way, since the handlers
change the payment first and queue the refund later in the same transaction. `Follows` and `Adds`
say what each piece of a transaction may do to the payment and the queue; they compose (`FollowsChain`),
and `CapturedStaysCaptured` is `Follows` read for the whole step.

### The locks

*Assumed* (`LockAssumption`): days, tables and reservations are finitely many numbers, for locks are taken in
their order; limits and attempts are at least 1. Any number of sessions, guests and reservations.

*The invariant.* A session goes through phases; `LocksOK` says what it holds in each: while
it takes its days, those already taken (`Covers`: a lock it needs is held or still to do); past its days, the
anchor of every one; with its rows, every lock it needs. `ReadsOK` says that what it has read and relies on is still so:
the day of its reservation is among those it holds, the payment it looked at has not been replaced,
rows the planner saw still have their personal data. `CountOK` says that whoever is about to insert a hold has room for
it. Each of these survives the steps of the others because whoever
would falsify it needs a lock that is held: `OthersRead` (a row is written only by a session that holds the
anchors of its old and new day, or the planner's lock), `OneMore` and `CreateHoldInv` (two requests of one
session or address exclude each other by the subject's lock, not by the day). `DaysGuardWrites` then reads off
the invariant. The one recursion of the model, locks in ascending order, is stated by `Ordered` as a choice; that such a
list exists is proved from the ranks of its elements (`Ranks`, `OrderedFacts`), not by induction.

*The circles.* `IInv` does not say in which order locks are taken; a second invariant, `OInv`, does. `Takes` names the
kinds of lock that each handler takes and `Turn` the order in which it takes the kinds; within a kind the numbers ascend.
`OInv` says that what a handler has still to take lies in that order and after all that it has (`Ahead`), that the
retention holds the days of the rows it has read, and that finitely many sessions are under way. No one order fits all handlers:
the planner comes before the messages or after them, and the configuration row before
the planner in a change of contact and after it elsewhere. `CirclesOfOrder` therefore looks at who waits for whom.
Nobody in a circle waits for the row of a message (`LettersHoldTheDay`: waiter and holder would both have the day of the
reservation). Whoever is blocked with reminders in hand has the planner (`RemindersInCircle`); whoever
is blocked with the configuration row has the planner, or is a change of contact that waits for it (`ConfigInCircle`). So a circle
passes both, or neither of them and no reminders (`PlannerInCircle`). In the second case days, tables, subjects, commands and
payments are left, which all handlers take in one order, and `NoneOfKind` excludes them one after the other: each who waits for a payment
would wait for one whose holder waits for a greater one, which finitely many sessions cannot (`NoAscent`, by ranks again and
without induction over the length of the circle).

### The outbox

*Assumed* (`ContactAssumption`, `BoundAssumption`, `WorkerAssumption`): finitely many contacts, bounds that are numbers,
`Nobody` is not a worker. Any number of workers, rows, sweeps and tries.

*The invariant* is about who can still cause a copy. A row is `Unseen` while no provider can have it, and `Tracked`
while neither the gateway's own key nor the ruling of an operator allows a second copy. For a tracked row:
unseen means no copy and no worker on the way to the provider, seen means at most one of the two. `WorkerAgrees`
ties each worker to its row, the lease and the fence it took. Handlers of the module move rows *quietly* (never
from seen to unseen, never to a lease that was not there) or *gently* (the row keeps its kind besides); lemmas compose these
moves, so that a sweep over many rows is proved like a step on one. Reminders need more: those that count
speak to the contacts the owner has (`GenerationsOK`), and of two for one contact and hour the earlier, alone in its generation,
was withdrawn (`TwinsOK`). That a worker who finds work takes the
*oldest* fit row is a choice over a finite set, which exists by the well-foundedness of finite subsets
(`OldestExists`).

### The guest

*Assumed* (`GuestAssumption`): the limits are at least 1 and the worlds are of the right kind. Any number of intents, visits and tokens,
any set of tables, any number of copies of a request under way.

*The invariant* has two halves. The rows of the server agree whatever the page sends (`RowsOK`): a hold and a record
lead to the visit made for their key or to nothing, the tokens of a visit are one chain with one root and no fork (`NoFork`), only the last
is live. The rest is about knowledge (`LinksOK`): the successor of a spent token is carried by no request
until the page has it in its cookie, and until then the page remembers the key its
predecessor was spent for. `GuestIsNotLockedOut` follows: whoever remembers the key gets the successor by repeating.
Each handler is reduced by `HandleMoves` to one of three moves of the chain (links stay, a root is added, a token is spent).

### The stations

*Assumed* (`SessionAssumption`): positive ticks and worlds of the right kind. Any number of stations, operators, requests,
sessions and PINs; one administrator, as in the run.

*The invariant.* Versions of a PIN start anew when the PIN is taken away, so that a session's `version` alone does not
say which PIN opened it. What holds is `Behind`: an open session, and an unlock that holds its rows, is never ahead of the
operator's PIN and has the very same PIN when the versions meet. A change of PIN keeps it because the version grows;
a first PIN keeps it because it waits for the unlocks that hold the account, and every open session of
the operator was found before it. The rest is bookkeeping of confirmations: the one on a session is its own and nobody has spent it.
That the session is the newest of its station is not read off the epoch but off `Unlocked`: opening a
session locks all others of the station.

### The guest records

*Assumed* (`CustomersAssumption`): visits are numbers, contacts hold strings. Any number of visits, entries, contacts,
consents, merges and requests at once.

*The invariant.* `MergesOK` says that merges are one deep and that some row carries each end (`Living`, deleted visits
among them), unless an edit overlooked it. An edit decides whom it leaves alone only once it has the graph's lock, so
nothing it saw before matters but the identity it takes away: an edit of a table's visit holds the row, hence knows it
(`TxOK`); an edit of a hall's visit may not, and `Aside` says that only there an identity is overlooked. `EditedLiving` and `OthersLive` are
the heart: whatever takes a contact from a row looks in the same transaction for another that carries the identity.
`CanonicalIsNear`: along merges that are one deep the recursive walk of `Canonical` ends after one step,
so that a new merge joins two ends that live.

`WithdrawnGuestsStayOut` is about steps. A withdrawal is an operator's and is found by its identity, in whatever group
(`WithdrawalsCount`), so that a guest who withdrew, or of whom nothing is known, is not marketed to (`SilencedGuests`). `FactsChange`
sorts the steps by what they do to the list of consents: nothing, one more, or some taken away, and then of each
identity either all or none but what guests gave themselves (`Fewer`). `ShorterList` says that such a list keeps a withdrawal the
last word or forgets the guest: no erasure or lapse leaves a grant that a withdrawal had followed.

### The staff

For every set of workers, rota at the start, number of requests at once and mix of operations. `IInv` says that
every shift is numbered below the next number (a new shift never takes the place of one that is there), that an
**open offer has no taker**, that a request which will decide on an offer names one that exists, that a request
which builds or writes a settlement names a day and asks only waiters who exist, and what is to be proved of the
settlements. The first half of the module is about rows: `Without`, `WithAll`, a write of columns of shifts, of one
offer, of other rows, each `Follows` what it was applied to, that is, keeps takers and who works each shift that
stays. The second half sorts the steps by the write they make. `CommitTake` writes a taker only on an offer that is
open as it commits, whose taker `IInv` knows to be nobody; `CommitChange` and `CommitAccept` are the only steps that do
not follow, and each is one of the two cases of `MovesOnlyFromTaken`.

A settlement is complete without the administrator being told only while a report of its day stands between its
commit and its check (`BookWritten`): rows that a build adds are unconfirmed (`Extended`), a report goes on to a check of
the same day, a check reads the rows as they are. `AdminLearnsOfCompleteDay` is about the worlds without dismissal
(`NoDismissal`), for the dismissal of the last waiter who has not reported does complete a day without a notice, and about days
without a doubled row (`Doubled`; 19 above). A day is reported when each of its *waiters* is, so that a doubled row is part of the
property and not left out of it by the count of rows. The rota half of the module has no such condition.
`Workers` is assumed finite, as rows are; what `auto_assign` chooses is opaque to the proof, which needs only
that it is a sequence.

### What stays with TLC

- Liveness under fairness: `ExpiredIsReleased`, `CommandsSettle`, `EveryMessageSettles`, `EveryTransactionEnds`. ENABLED and
  temporal induction are out of the prover's reach.
- The two invariants of `FloorPlan`, `OffersAreHonoured` and `LimitsHeld`. What they compare are sums over finite sets
  (guests of a room at a minute, seats of a set of tables) and the value of an allocation that is chosen among all sets of
  tables. The facts needed of the folds (a sum grows with its set, and by the party that is added) rest
  on recursion and induction over finite sets, whose library theorems take an operator as a parameter; the installed
  provers cannot instantiate them. Both invariants are checked on a small hall, in 14 worlds of rules, plans and older configurations.
- Everything in the modules without a `_proofs` module. No module declares a RECURSIVE operator.

## 6. Plan and what is not modelled

Modelling is as complete as described above. Every safety property that a run checks is proved, except the two of
`FloorPlan` (5, *What stays with TLC*).

Not modelled: provisioning, fleet and subscription (they run external programs, once per client); the audit
trail and metrics (written along with every change, read by people); migrations (once, offline);
exports, statistics, reports, invoices and the tax exchange (reads and arithmetic); time clock, tips and the
wallet of the staff; login by password, tokens and the rate limiter (they only refuse requests);
the other screens, with the offline snapshot of the host stand; the desktop shell, the POS agent and promo.
`PROJECT.json` gives the reason for each.
