-------------------------- MODULE ReservationLocks --------------------------
(***************************************************************************)
(* The locks that transactions on reservations hold until they commit, as  *)
(* PostgreSQL grants them: anchors of days, rows of tables, messages and   *)
(* payments, the configuration row, advisory locks of the planner of       *)
(* reminders, of the daily retention and of the subjects of holds.         *)
(*                                                                         *)
(* A handler reads which days it needs before it holds any, takes them in  *)
(* order, reads again and starts over when the days have changed.  It then *)
(* takes its rows, in an order of its own, and commits.  PostgreSQL breaks *)
(* a circle of waiting transactions by failing one of them.                *)
(***************************************************************************)
EXTENDS Integers, Sequences, SequencesExt, FiniteSetsExt

CONSTANTS
    Txs,            \* database sessions: requests and workers
    Days, Tables,   \* integers: dates and ids, taken in their order
    Reservations,
    Guests,         \* [session, ip]: the keys of their advisory locks
    SessionLimit, IpLimit,
    MaxAttempts,    \* bound of the payments of a reservation
    Worlds,         \* what to look at: handlers, sessions and reservations
    Nobody

Calls == {"Hold", "Expire", "Edit", "Contact", "Cancel", "Settle", "Erase", "Retain",
          "Plan", "Reconfigure", "Optimise", "Publish"}
Statuses == {"active", "cancelled"}
Payments == {"none", "pending", "failed", "paid"}

ASSUME LockAssumption ==
    /\ Days \subseteq Int /\ 1 \in Days /\ Tables \subseteq Int
    /\ Guests \subseteq [session : Int, ip : Int]
    /\ Reservations \subseteq Int
    /\ IsFiniteSet(Days) /\ IsFiniteSet(Tables) /\ IsFiniteSet(Reservations)
    /\ SessionLimit \in Nat \ {0} /\ IpLimit \in Nat \ {0} /\ MaxAttempts \in Nat \ {0}
    /\ Nobody \notin Txs
    /\ Worlds \subseteq [calls : SUBSET Calls, txs : SUBSET Txs, rows : SUBSET Reservations,
                         sets : SUBSET SUBSET Tables, pay : SUBSET Payments]

VARIABLES
    world,      \* one of Worlds, for the whole run
    holder,     \* the transaction that holds each lock
    tx,         \* what each session does
    res,        \* rows of Termin with their payment
    mail,       \* reservations with a message that carries personal data
    holds,      \* rows of RezerwacjaPublicznyHold that are active
    retained    \* AuditLog: runs of the retention today

vars == <<world, holder, tx, res, mail, holds, retained>>

-----------------------------------------------------------------------------
Day(d) == <<"day", d>>
Table(t) == <<"table", t>>
Subject(s) == <<"subject", s>>
Payment(r) == <<"payment", r>>
Command(r) == <<"command", r>>
Letters(r) == <<"letters", r>>
Reminders(r) == <<"reminders", r>>
Planner == <<"planner", 0>>
Governance == <<"config", 0>>
Retention == <<"retention", 0>>

Resources ==
    {Day(d) : d \in Days} \cup {Table(t) : t \in Tables}
    \cup {Subject(g.session) : g \in Guests} \cup {Subject(g.ip) : g \in Guests}
    \cup (UNION {{Payment(r), Command(r), Letters(r), Reminders(r)} : r \in Reservations})
    \cup {Planner, Governance, Retention}

\* The elements of a finite set of integers in ascending order.
Ordered(S) ==
    CHOOSE q \in [1..Cardinality(S) -> S] : \A i, j \in DOMAIN q : i < j => q[i] < q[j]
Each(f(_), S) == LET q == Ordered(S) IN [i \in 1..Len(q) |-> f(q[i])]

Idle == [call |-> "idle", phase |-> "idle", r |-> 0, to |-> 0, tables |-> {}, guest |-> <<>>,
         attempt |-> 0, days |-> {}, todo |-> <<>>, seen |-> {}]

\* A session starts a handler and knows the days it will lock first.
Start(p, call, args, days) ==
    /\ call \in world.calls
    /\ p \in world.txs
    /\ tx[p] = Idle
    /\ args.r \in world.rows \cup {0}
    /\ tx' = [tx EXCEPT ![p] = [args EXCEPT !.call = call, !.phase = "days",
                                            !.days = days, !.todo = Each(Day, days)]]
    /\ UNCHANGED <<world, holder, res, mail, holds, retained>>

Locked(p) == {l \in Resources : holder[l] = p}
Freed(p) == [l \in Resources |-> IF holder[l] = p THEN Nobody ELSE holder[l]]

\* The lock a session waits for is free or already its own.
Acquire(p) ==
    /\ tx[p].todo # <<>>
    /\ holder[Head(tx[p].todo)] \in {Nobody, p}
    /\ holder' = [holder EXCEPT ![Head(tx[p].todo)] = p]
    /\ tx' = [tx EXCEPT ![p].todo = Tail(@)]
    /\ UNCHANGED <<world, res, mail, holds, retained>>

\* Commit or rollback.
End(p) ==
    /\ holder' = Freed(p)
    /\ tx' = [tx EXCEPT ![p] = Idle]
    /\ UNCHANGED world

Blocked(p) == tx[p].todo # <<>> /\ holder[Head(tx[p].todo)] \notin {Nobody, p}
Circle(S) == S # {} /\ \A p \in S : Blocked(p) /\ holder[Head(tx[p].todo)] \in S

\* PostgreSQL fails one transaction of a circle.
Victim(p) ==
    /\ \E S \in SUBSET Txs : p \in S /\ Circle(S)
    /\ End(p)
    /\ UNCHANGED <<res, mail, holds, retained>>

-----------------------------------------------------------------------------
(* The days of a handler, read again once they are locked.                 *)

Expired == {h.day : h \in {x \in holds : ~x.live}}
Closed == {r \in world.rows : res[r].status = "cancelled" /\ res[r].personal}

\* Mutant: the worker goes on with the days it has locked, whatever they are now.
ScopeAsRead(t) == {}

\* The days that a handler must hold, as its rows are now.
Scope(t) ==
    CASE t.call \in {"Edit", "Contact", "Cancel", "Erase"} -> {res[t.r].day}
      [] t.call = "Retain" -> {res[r].day : r \in Closed} \cup Expired
      [] OTHER -> {}

\* Mutant: a restart locks only what has just been read.
RestartWithNewDays(p) ==
    LET days == Scope(tx[p])
    IN /\ holder' = Freed(p)
       /\ tx' = [tx EXCEPT ![p].days = days, ![p].todo = Each(Day, days)]

\* Give back every lock and take the old and the new days from the first on.
Restart(p) ==
    LET days == tx[p].days \cup Scope(tx[p])
    IN /\ holder' = Freed(p)
       /\ tx' = [tx EXCEPT ![p].days = days, ![p].todo = Each(Day, days)]

\* Mutant: holds are only serialised by their day.
SubjectsOfNobody(g) == {}

SubjectsOf(g) == {g.session, g.ip}

\* Mutant: the tables of each reservation are locked when its turn comes.
TablesInTurn(t) == Reverse(Each(Table, Tables))

\* _po_zwolnieniu_stolu takes every active table before the first reservation.
AllTables(t) == Each(Table, Tables)

\* Mutant: messages are removed without a fence against the planner.
ErasureWithoutPlanner(r) == <<Governance, Letters(r), Reminders(r)>>

ErasureRows(r) == <<Planner, Governance, Letters(r), Reminders(r)>>

\* What is locked after the days, in the order of the handler.
RowsAfterDays(t) ==
    CASE t.call = "Hold" -> Each(Subject, SubjectsOf(t.guest))
      [] t.call = "Edit" -> Each(Table, t.tables) \o <<Letters(t.r), Planner, Reminders(t.r)>>
      [] t.call = "Contact" -> <<Governance, Letters(t.r), Planner, Reminders(t.r)>>
      [] t.call = "Cancel" -> <<Payment(t.r), Letters(t.r), Reminders(t.r)>>
      [] t.call = "Settle" -> <<Command(t.r), Payment(t.r)>>
      [] t.call = "Erase" -> ErasureRows(t.r)
      [] t.call = "Retain" ->
           <<Planner>> \o Each(Letters, t.seen) \o Each(Reminders, t.seen)
           \o (IF t.seen = {} THEN <<>> ELSE <<Governance>>)
      [] t.call = "Plan" -> Each(Reminders, t.seen)
      [] t.call = "Reconfigure" -> Each(Reminders, world.rows) \o <<Governance>>
      [] t.call = "Optimise" -> AllTables(t)
      [] t.call = "Publish" -> Each(Table, t.tables)
      [] OTHER -> <<>>

\* Edits that move a reservation are refused while its payment is open or paid.
EditRefused(t) ==
    t.call = "Edit" /\ res[t.r].day # t.to /\ res[t.r].pay \in {"pending", "paid"}

Rows(p, seen) ==
    LET t == [tx[p] EXCEPT !.seen = seen, !.phase = "rows"]
    IN tx' = [tx EXCEPT ![p] = [t EXCEPT !.todo = RowsAfterDays(t)]]

\* The days are locked: go on, give up or start over.  The retention leaves a
\* restart to its next run.
Recheck(p) ==
    /\ tx[p].phase = "days"
    /\ tx[p].todo = <<>>
    /\ tx[p].call # "Plan"
    /\ IF ~(Scope(tx[p]) \subseteq tx[p].days) /\ tx[p].call # "Retain" THEN Restart(p)
       ELSE IF ~(Scope(tx[p]) \subseteq tx[p].days) \/ EditRefused(tx[p])
            THEN holder' = Freed(p) /\ tx' = [tx EXCEPT ![p] = Idle]
       ELSE /\ Rows(p, IF tx[p].call = "Retain" THEN Closed ELSE {})
            /\ UNCHANGED holder
    /\ UNCHANGED <<world, res, mail, holds, retained>>

\* The planner of reminders gives way to whoever holds its lock, and reads under it.
TryPlanner(p) ==
    /\ tx[p].phase = "days"
    /\ tx[p].call = "Plan"
    /\ IF holder[Planner] # Nobody THEN tx' = [tx EXCEPT ![p] = Idle] /\ UNCHANGED holder
       ELSE /\ holder' = [holder EXCEPT ![Planner] = p]
            /\ Rows(p, {r \in world.rows : res[r].status = "active" /\ res[r].personal})
    /\ UNCHANGED <<world, res, mail, holds, retained>>

-----------------------------------------------------------------------------
(* Handlers: where they start and what they commit.                        *)

StartHold(p) ==
    \E g \in Guests, d \in Days : Start(p, "Hold", [Idle EXCEPT !.guest = g, !.to = d], {d})
StartExpire(p) == Expired # {} /\ Start(p, "Expire", Idle, Expired)
StartEdit(p) ==
    \E r \in world.rows, d \in Days, T \in world.sets :
       Start(p, "Edit", [Idle EXCEPT !.r = r, !.to = d, !.tables = T], {res[r].day, d})
StartContact(p) ==
    \E r \in world.rows : Start(p, "Contact", [Idle EXCEPT !.r = r], {res[r].day})
StartCancel(p) ==
    \E r \in world.rows : Start(p, "Cancel", [Idle EXCEPT !.r = r], {res[r].day})
StartErase(p) ==
    \E r \in world.rows : Start(p, "Erase", [Idle EXCEPT !.r = r], {res[r].day})
StartPlan(p) == Start(p, "Plan", Idle, {})
StartOptimise(p) == \E d \in Days : Start(p, "Optimise", [Idle EXCEPT !.to = d], {d})
StartPublish(p) ==
    \E T \in world.sets \ {{}} : Start(p, "Publish", [Idle EXCEPT !.tables = T], {})

\* The result of a provider: only one that names a status touches the reservation,
\* and locks the day that the reservation has when it is read.
StartSettle(p) ==
    \E r \in world.rows, named \in BOOLEAN :
       /\ res[r].pay # "none"
       /\ Start(p, "Settle", [Idle EXCEPT !.r = r, !.attempt = res[r].attempt],
                IF named THEN {res[r].day} ELSE {})

\* The configuration is written under the lock of the planner.
StartReconfigure(p) ==
    /\ "Reconfigure" \in world.calls
    /\ p \in world.txs
    /\ tx[p] = Idle
    /\ tx' = [tx EXCEPT ![p] = [Idle EXCEPT !.call = "Reconfigure", !.phase = "days",
                                            !.todo = <<Planner>>]]
    /\ UNCHANGED <<world, holder, res, mail, holds, retained>>

\* One worker at a time, and once a day.
StartRetain(p) ==
    /\ "Retain" \in world.calls
    /\ p \in world.txs
    /\ tx[p] = Idle
    /\ holder[Retention] = Nobody
    /\ ~retained
    /\ LET days == {res[r].day : r \in Closed} \cup Expired
       IN /\ days # {}
          /\ tx' = [tx EXCEPT ![p] = [Idle EXCEPT !.call = "Retain", !.phase = "days",
                                                  !.days = days, !.todo = Each(Day, days)]]
    /\ holder' = [holder EXCEPT ![Retention] = p]
    /\ UNCHANGED <<world, res, mail, holds, retained>>

Begin(p) ==
    \/ StartHold(p) \/ StartExpire(p) \/ StartEdit(p) \/ StartContact(p) \/ StartCancel(p)
    \/ StartErase(p) \/ StartPlan(p) \/ StartOptimise(p) \/ StartPublish(p)
    \/ StartSettle(p) \/ StartReconfigure(p) \/ StartRetain(p)

Working(p, call) == tx[p].call = call /\ tx[p].phase = "rows" /\ tx[p].todo = <<>>

Of(S, g) == {h \in S : h.live /\ h.session = g.session}
At(S, g) == {h \in S : h.live /\ h.ip = g.ip}

\* The limits are counted under the locks of the subjects ...
CountHolds(p) ==
    /\ Working(p, "Hold")
    /\ IF Cardinality(Of(holds, tx[p].guest)) < SessionLimit /\ Cardinality(At(holds, tx[p].guest)) < IpLimit
       THEN tx' = [tx EXCEPT ![p].phase = "insert"] /\ UNCHANGED holder
       ELSE holder' = Freed(p) /\ tx' = [tx EXCEPT ![p] = Idle]
    /\ UNCHANGED <<world, res, mail, holds, retained>>

\* ... and the hold is committed with what had expired on its day.
CreateHold(p) ==
    /\ tx[p].phase = "insert"
    /\ holds' = {h \in holds : h.live \/ h.day # tx[p].to}
                \cup {[day |-> tx[p].to, session |-> tx[p].guest.session,
                       ip |-> tx[p].guest.ip, live |-> TRUE]}
    /\ End(p)
    /\ UNCHANGED <<res, mail, retained>>

HoldLapses ==
    /\ \E h \in holds : h.live /\ holds' = (holds \ {h}) \cup {[h EXCEPT !.live = FALSE]}
    /\ UNCHANGED <<world, holder, tx, res, mail, retained>>

Expire(p) ==
    /\ Working(p, "Expire")
    /\ holds' = {h \in holds : h.live \/ h.day \notin tx[p].days}
    /\ End(p)
    /\ UNCHANGED <<res, mail, retained>>

\* A message goes to an active reservation that still has a contact.
Announced(rows, S) == mail \cup {r \in S : rows[r].status = "active" /\ rows[r].personal}

\* A move detaches a payment that failed and may ask for a new one.
Edit(p) ==
    /\ Working(p, "Edit")
    /\ LET r == tx[p].r
           moved == res[r].day # tx[p].to
       IN \E pay \in IF moved /\ res[r].pay = "failed" /\ res[r].attempt < MaxAttempts
                     THEN {"none", "pending"} ELSE {IF moved THEN "none" ELSE res[r].pay} :
            res' = [res EXCEPT ![r].day = tx[p].to, ![r].pay = pay,
                               ![r].attempt = IF pay = "pending" /\ moved THEN @ + 1 ELSE @]
    /\ mail' = Announced(res', {tx[p].r})
    /\ End(p)
    /\ UNCHANGED <<holds, retained>>

Contact(p) ==
    /\ Working(p, "Contact")
    /\ res' = [res EXCEPT ![tx[p].r].personal = TRUE]
    /\ mail' = Announced(res', {tx[p].r})
    /\ End(p)
    /\ UNCHANGED <<holds, retained>>

Cancel(p) ==
    /\ Working(p, "Cancel")
    /\ res' = [res EXCEPT ![tx[p].r].status = "cancelled"]
    /\ mail' = Announced(res, {tx[p].r})
    /\ End(p)
    /\ UNCHANGED <<holds, retained>>

\* finalize_claim, finalize_webhook_claim: a payment that is no longer that of the
\* reservation changes nothing of it; one that failed may release the visit.
Settle(p) ==
    /\ Working(p, "Settle")
    /\ LET r == tx[p].r
           current == res[r].attempt = tx[p].attempt /\ tx[p].days # {} /\ res[r].pay = "pending"
       IN \E pay \in {"failed", "paid"} :
            res' = IF ~current THEN res
                   ELSE [res EXCEPT ![r].pay = pay,
                                    ![r].status = IF pay = "failed" THEN "cancelled" ELSE @]
    /\ End(p)
    /\ UNCHANGED <<mail, holds, retained>>

Erase(p) ==
    /\ Working(p, "Erase")
    /\ res' = [res EXCEPT ![tx[p].r].personal = FALSE]
    /\ mail' = mail \ {tx[p].r}
    /\ End(p)
    /\ UNCHANGED <<holds, retained>>

Retain(p) ==
    /\ Working(p, "Retain")
    /\ res' = [r \in Reservations |-> IF r \in tx[p].seen THEN [res[r] EXCEPT !.personal = FALSE] ELSE res[r]]
    /\ mail' = mail \ tx[p].seen
    /\ holds' = {h \in holds : h.live \/ h.day \notin tx[p].days}
    /\ retained' = (tx[p].seen # {} \/ holds' # holds)
    /\ End(p)

Plan(p) ==
    /\ Working(p, "Plan")
    /\ mail' = mail \cup tx[p].seen
    /\ End(p)
    /\ UNCHANGED <<res, holds, retained>>

Reconfigure(p) ==
    /\ Working(p, "Reconfigure")
    /\ mail' = Announced(res, world.rows)
    /\ End(p)
    /\ UNCHANGED <<res, holds, retained>>

\* Tables are exchanged within the day, or published: nothing here changes.
Rearrange(p) ==
    /\ Working(p, "Optimise") \/ Working(p, "Publish")
    /\ End(p)
    /\ UNCHANGED <<res, mail, holds, retained>>

Commit(p) ==
    \/ CreateHold(p) \/ Expire(p) \/ Edit(p) \/ Contact(p) \/ Cancel(p) \/ Settle(p)
    \/ Erase(p) \/ Retain(p) \/ Plan(p) \/ Reconfigure(p) \/ Rearrange(p)

Go(p) == Recheck(p) \/ TryPlanner(p) \/ CountHolds(p) \/ Commit(p)

Init ==
    /\ world \in Worlds
    /\ holder = [l \in Resources |-> Nobody]
    /\ tx = [p \in Txs |-> Idle]
    /\ \E pay \in world.pay, day \in [world.rows -> Days] :
         res = [r \in Reservations |-> [day |-> IF r \in world.rows THEN day[r] ELSE 1, status |-> "active",
                                        pay |-> pay, attempt |-> 1, personal |-> TRUE]]
    /\ mail = {}
    /\ holds = {}
    /\ retained = FALSE

Next ==
    \/ \E p \in Txs : Begin(p) \/ Acquire(p) \/ Victim(p) \/ Go(p)
    \/ HoldLapses

Spec == Init /\ [][Next]_vars

\* Statements run, PostgreSQL grants a lock to those who wait for it in their order
\* and finds circles.
FairSpec ==
    Spec /\ \A p \in Txs : WF_vars(Go(p)) /\ SF_vars(Acquire(p)) /\ WF_vars(Victim(p))

-----------------------------------------------------------------------------
(* Properties.                                                             *)

\* Types of the variables.
TypeOK ==
    /\ world \in Worlds
    /\ holder \in [Resources -> Txs \cup {Nobody}]
    /\ \A p \in Txs : /\ tx[p].call \in Calls \cup {"idle"}
                      /\ tx[p].phase \in {"idle", "days", "rows", "insert"}
                      /\ tx[p].days \subseteq Days
                      /\ ToSet(tx[p].todo) \subseteq Resources
    /\ res \in [Reservations -> [day : Days, status : Statuses, pay : Payments,
                                 attempt : 1..MaxAttempts, personal : BOOLEAN]]
    /\ mail \subseteq Reservations
    /\ holds \subseteq [day : Days, session : {g.session : g \in Guests}, ip : {g.ip : g \in Guests},
                        live : BOOLEAN]
    /\ retained \in BOOLEAN

\* Whoever moves or closes a reservation holds the anchor of the day it had and of
\* the day it gets, and whoever makes a hold that of its day, even though the day
\* was read before anything was locked (main.py 2140-2154, the day guards of
\* reservation_payment_worker.py 1150-1168, the docstring of reservation_service.py 5).
WritesHoldTheDay ==
    [][LET Own(d1, d2) == \E p \in Txs : holder[Day(d1)] = p /\ holder[Day(d2)] = p
       IN /\ \A r \in Reservations :
               (res'[r].day # res[r].day \/ res'[r].status # res[r].status)
                 => Own(res[r].day, res'[r].day)
          /\ \A h \in holds' \ holds : h.live => Own(h.day, h.day)]_vars

\* However many requests of a session or an address run at once, on whatever days,
\* they never end with more live holds than the limits (reservation_service.py 1165-1175).
LimitsHold ==
    \A g \in Guests : /\ Cardinality(Of(holds, g)) <= SessionLimit
                     /\ Cardinality(At(holds, g)) <= IpLimit

\* Once the personal data of a reservation has been erased no message carries it, although
\* the planner and a reconfiguration queue reminders without the day of the reservation
\* (reservation_communication.py 539-541).
ErasedHasNoMessages == \A r \in mail : res[r].personal

\* Days, tables, subjects, messages and payments are taken in orders that never close a
\* circle; the only one left is that of a change of contact, which takes the configuration
\* row before the planner, and of those that take it after.
CirclesPassConfiguration ==
    \A S \in SUBSET Txs :
      Circle(S) => {Planner, Governance} \subseteq {Head(tx[p].todo) : p \in S}

\* Every transaction ends, however often others move its reservation to another day
\* while it waits for the one it has read (main.py 2140-2154).
EveryTransactionEnds == \A p \in Txs : tx[p] # Idle ~> tx[p] = Idle
=============================================================================
