-------------------------- MODULE ReservationLedger --------------------------
(***************************************************************************)
(* The inventory of tables: who may use which table, on which day, in     *)
(* which minutes.  Three kinds of owner compete for it: public holds of    *)
(* the booking widget, offers (and legacy holds) of the waiting list and   *)
(* reservations (`Termin').  Every owner keeps its own projection of what  *)
(* it asked for, and the table of claims, unique per (table, day, minute), *)
(* must agree with all of the projections.                                 *)
(*                                                                         *)
(* One action is one committed transaction under the day locks.  A request *)
(* that is refused rolls back and is no step.  Rules, quotas, permissions  *)
(* and payment guards only refuse, so they are left to the environment.    *)
(* Minutes are grouped into Slots.  A claim covers the visit and the buffer *)
(* after it; the rows of promises store both, a reservation only the visit. *)
(***************************************************************************)
EXTENDS Naturals

CONSTANTS
    Days,            \* dates with a day anchor
    Tables,          \* ids of `stoliki'
    Slots,           \* blocks of minutes of a day, naturals
    Windows,         \* the windows [start, end) of a visit
    Buffers,         \* how long a table may rest after a visit
    Configurations,  \* table sets the allocator may propose
    ManualChoices,   \* table sets an operator may type in: one table, or none
    Holds,           \* public holds, one per (session, idempotency key)
    Waits,           \* entries of the waiting list
    Termins,         \* reservations
    HoldTTL,         \* lifetime of a public hold
    OfferTTL,        \* lifetime of an offer
    MaxTime,         \* bound of the clock
    Nobody           \* no owner

ASSUME LedgerAssumption ==
    /\ Days # {} /\ Slots \subseteq Nat
    /\ Windows \subseteq SUBSET Slots /\ Windows # {} /\ {} \notin Windows
    /\ Buffers \subseteq Nat /\ Buffers # {}
    /\ Configurations \subseteq SUBSET Tables /\ {} \notin Configurations
    /\ ManualChoices \subseteq SUBSET Tables
    /\ Holds \cap Waits = {} /\ Holds \cap Termins = {} /\ Waits \cap Termins = {}
    /\ Nobody \notin Holds \cup Waits \cup Termins
    /\ HoldTTL \in Nat \ {0} /\ OfferTTL \in Nat \ {0} /\ MaxTime \in Nat

VARIABLES
    now,      \* the naive-UTC lifecycle clock
    hold,     \* RezerwacjaPublicznyHold rows
    wait,     \* ListaOczekujacych rows
    termin,   \* Termin rows of kind `stolik'
    claims    \* RezerwacjaStolikClaim: owner and deadline of each minute

vars == <<now, hold, wait, termin, claims>>

-----------------------------------------------------------------------------

Owners == Holds \cup Waits \cup Termins
Cells  == Days \X Tables \X Slots

\* A deadline that never passes: the NULL of expires_at and hold_do.
NoDeadline == MaxTime + HoldTTL + OfferTTL + 1
Deadlines  == 0 .. NoDeadline

ACTIVE_STATUSES  == {"rezerwacja", "potwierdzona"}
LIVE_HOST_PHASES == {"posadzony", "rachunek", "oplacony"}

HOST_PRZEJSCIA ==
    [faza \in {"-", "przybyl", "posadzony", "rachunek", "oplacony", "wyszedl"} |->
        CASE faza = "-"         -> {"przybyl", "posadzony"}
          [] faza = "przybyl"   -> {"posadzony", "wyszedl"}
          [] faza = "posadzony" -> {"rachunek", "oplacony", "wyszedl"}
          [] faza = "rachunek"  -> {"oplacony", "wyszedl"}
          [] faza = "oplacony"  -> {"wyszedl"}
          [] faza = "wyszedl"   -> {}]

REZ_PRZEJSCIA(status) ==
    CASE status = "rezerwacja"   -> {"potwierdzona", "odbyla", "no_show", "odwolana"}
      [] status = "potwierdzona" -> {"odbyla", "no_show", "odwolana"}
      [] OTHER                   -> {}

Fazy == DOMAIN HOST_PRZEJSCIA

\* stolik_id, the first table of a set; which of them it is plays no other role.
Primary(tables) == IF tables = {} THEN {} ELSE {CHOOSE b \in tables : TRUE}

\* claim_minute_window: from the start of the visit to the end of the buffer after it.
Span(visit, buffer) == [visit |-> visit, buffer |-> buffer]
Spans == [visit : Windows, buffer : Buffers]
Minutes(span) == {s \in Slots : \E x \in span.visit : x <= s /\ s <= x + span.buffer}

AnyDay  == CHOOSE d \in Days : TRUE
AnySpan == CHOOSE w \in Spans : TRUE

\* The rows that do not exist yet, and what is kept of a finished one: the
\* projection of a finished hold or visit is history no writer reads.
BlankHold   == [state |-> "brak", day |-> AnyDay, tables |-> {}, win |-> AnySpan, exp |-> NoDeadline]
BlankWait   == [status |-> "brak", day |-> AnyDay, tables |-> {}, win |-> AnySpan, exp |-> NoDeadline]
BlankTermin == [status |-> "brak", faza |-> "-", day |-> AnyDay, tables |-> {},
                win |-> AnySpan, auto |-> FALSE, online |-> FALSE]
FreeClaim   == [owner |-> Nobody, exp |-> NoDeadline]

HoldRows == [state : {"brak", "active", "consumed", "released", "expired"},
             day : Days, tables : SUBSET Tables, win : Spans,
             exp : Deadlines]
WaitRows == {row \in [status : {"brak", "oczekuje", "zaoferowano", "zaakceptowano",
                                "wygasla", "anulowano", "usuniety"},
                      day : Days, tables : SUBSET Tables, win : Spans,
                      exp : Deadlines] :
                row.status \notin {"oczekuje", "zaoferowano"} => row.tables = {}}
TerminRows == [status : {"brak", "rezerwacja", "potwierdzona", "odbyla",
                         "no_show", "odwolana", "usunieta"},
               faza : Fazy, day : Days, tables : SUBSET Tables, win : Spans,
               auto : BOOLEAN, online : BOOLEAN]
Claims == [owner : Owners \cup {Nobody}, exp : Deadlines]

Active(t)  == termin[t].status \in ACTIVE_STATUSES
Exists(t)  == termin[t].status \notin {"brak", "usunieta"}

\* The cells a row of each kind asks for.
CellsOf(row)       == {c \in Cells : c[1] = row.day /\ c[2] \in row.tables /\ c[3] \in Minutes(row.win)}
HoldCells(row)     == IF row.state = "active" THEN CellsOf(row) ELSE {}
WaitCells(row)     == CellsOf(row)
TerminCells(row)   == IF row.status \in ACTIVE_STATUSES THEN CellsOf(row) ELSE {}

\* Windows that begin in the same minute: current rules may have moved the end
\* of the visit or its buffer, never its start.
SameStart(w1, w2) == \E s \in w1.visit \cap w2.visit : \A x \in w1.visit \cup w2.visit : s <= x

-----------------------------------------------------------------------------
(* reservation_service: cleanup, occupancy and claims of one transaction.   *)
(* C stands for the claims as the transaction has changed them so far.      *)

\* Mutant: the hold expires one unit of time too early.
ExpiredHoldsTooEarly(D) ==
    {h \in Holds : hold[h].state = "active" /\ hold[h].exp <= now + 1 /\ hold[h].day \in D}

ExpiredHolds(D) ==
    {h \in Holds : hold[h].state = "active" /\ hold[h].exp <= now /\ hold[h].day \in D}

ExpiredWaits(D) == {w \in Waits : wait[w].exp <= now /\ wait[w].day \in D}

ExpirePublicHolds(D) ==
    [h \in Holds |-> IF h \in ExpiredHolds(D) THEN [BlankHold EXCEPT !.state = "expired"]
                                              ELSE hold[h]]

\* _wyczysc_hold_waitlisty and the same lines of the cleanup: the entry no
\* longer holds any table.
WithoutHold(row) == [row EXCEPT !.tables = {}, !.win = AnySpan, !.exp = NoDeadline]

ExpireWaits(D) ==
    [w \in Waits |->
        IF w \in ExpiredWaits(D)
        THEN [WithoutHold(wait[w]) EXCEPT !.status = IF @ = "zaoferowano" THEN "wygasla" ELSE @]
        ELSE wait[w]]

\* Mutant: only the claims of offers are deleted, not those of legacy holds.
CleanupOffersOnly(D) ==
    [c \in Cells |->
        IF \/ claims[c].owner \in ExpiredHolds(D)
           \/ claims[c].owner \in {w \in ExpiredWaits(D) : wait[w].status = "zaoferowano"}
        THEN FreeClaim
        ELSE claims[c]]

\* cleanup_expired_holds on the days D: the claims it leaves.
CleanupExpiredHolds(D) ==
    [c \in Cells |->
        IF \/ claims[c].owner \in ExpiredHolds(D)
           \/ /\ claims[c].owner \in Waits
              /\ c[1] \in D
              /\ claims[c].exp <= now \/ claims[c].owner \in ExpiredWaits(D)
        THEN FreeClaim
        ELSE claims[c]]

Released(C, o) == [c \in Cells |-> IF C[c].owner = o THEN FreeClaim ELSE C[c]]

\* consume_public_hold: UPDATE of the owner columns and of expires_at.
Transferred(C, h, t) ==
    [c \in Cells |-> IF C[c].owner = h THEN [owner |-> t, exp |-> NoDeadline] ELSE C[c]]

\* INSERT of one claim per cell; the unique (table, day, minute) key refuses
\* the transaction when a row is still there.
Inserted(C, cells, o, e) ==
    [c \in Cells |-> IF c \in cells THEN [owner |-> o, exp |-> e] ELSE C[c]]
Insertable(C, cells) == \A c \in cells : C[c].owner = Nobody

\* The tables on which a party is still sitting, reservation t excepted: they
\* stay blocked for the rest of the day.
LiveTables(d, t) ==
    UNION {termin[u].tables : u \in {u \in Termins \ {t} :
                /\ termin[u].day = d
                /\ Active(u)
                /\ termin[u].faza \in LIVE_HOST_PHASES}}

\* Mutant: only claims count, a party that outstays its window does not.
OccupiedByClaimsOnly(C, d, win, t) ==
    {b \in Tables : \E s \in win : /\ C[<<d, b, s>>].owner \notin {Nobody, t}
                                   /\ C[<<d, b, s>>].exp > now}

OccupiedTableIds(C, d, win, t) ==
    {b \in Tables : \E s \in win : /\ C[<<d, b, s>>].owner \notin {Nobody, t}
                                   /\ C[<<d, b, s>>].exp > now}
    \cup LiveTables(d, t)

\* Mutant: only the start of the window is compared with the other claims.
FitsAtStart(C, row, o) ==
    \A c \in CellsOf(row) :
        (\A s \in Minutes(row.win) : c[3] <= s) => C[c].owner = Nobody

\* The check every allocation makes before it inserts its claims; C no longer
\* has claims of its owner o.
Fits(C, row, o) ==
    /\ row.tables \cap OccupiedTableIds(C, row.day, Minutes(row.win), o) = {}
    /\ Insertable(C, CellsOf(row))

-----------------------------------------------------------------------------

Init ==
    /\ now = 0
    /\ hold = [h \in Holds |-> BlankHold]
    /\ wait = [w \in Waits |-> BlankWait]
    /\ termin = [t \in Termins |-> BlankTermin]
    /\ claims = [c \in Cells |-> FreeClaim]

Tick == now < MaxTime /\ now' = now + 1 /\ UNCHANGED <<hold, wait, termin, claims>>

\* The cleanup of the days D was committed and nothing else.
CommitCleanup(D) ==
    /\ hold' = ExpirePublicHolds(D)
    /\ wait' = ExpireWaits(D)
    /\ claims' = CleanupExpiredHolds(D)
    /\ UNCHANGED <<now, termin>>

-----------------------------------------------------------------------------
(* Public holds: the booking widget.                                        *)

OnlineUtworzHold(h, d, b, w) ==
    LET C   == CleanupExpiredHolds({d})
        row == [state |-> "active", day |-> d, tables |-> b, win |-> w,
                exp |-> now + HoldTTL]
    IN  /\ hold[h].state = "brak"
        /\ Fits(C, row, Nobody)
        /\ hold' = [ExpirePublicHolds({d}) EXCEPT ![h] = row]
        /\ wait' = ExpireWaits({d})
        /\ claims' = Inserted(C, CellsOf(row), h, row.exp)
        /\ UNCHANGED <<now, termin>>

OnlineZwolnijHold(h) ==
    /\ hold[h].state = "active"
    /\ hold' = [hold EXCEPT ![h] = [BlankHold EXCEPT
                    !.state = IF hold[h].exp <= now THEN "expired" ELSE "released"]]
    /\ claims' = Released(claims, h)
    /\ UNCHANGED <<now, wait, termin>>

\* A hold becomes a reservation: the claims change owner, then the ledger of
\* the reservation is replaced under the rules in force now (window w).
OnlineRezerwacja(h, t, s, w) ==
    LET d   == hold[h].day
        row == [status |-> s, faza |-> "-", day |-> d, tables |-> hold[h].tables,
                win |-> w, auto |-> TRUE, online |-> TRUE]
        C   == Released(Transferred(CleanupExpiredHolds({d}), h, t), t)
    IN  /\ hold[h].state = "active" /\ hold[h].exp > now
        /\ {c \in Cells : claims[c].owner = h} = CellsOf(hold[h])
        /\ termin[t].status = "brak"
        /\ SameStart(w, hold[h].win)
        /\ Fits(C, row, t)
        /\ hold' = [ExpirePublicHolds({d}) EXCEPT
                        ![h] = [BlankHold EXCEPT !.state = "consumed"]]
        /\ wait' = ExpireWaits({d})
        /\ termin' = [termin EXCEPT ![t] = row]
        /\ claims' = Inserted(C, CellsOf(row), t, NoDeadline)
        /\ UNCHANGED now

-----------------------------------------------------------------------------
(* Reservations: the operator, the guest with a management token, the host  *)
(* stand and the payment worker.                                            *)

\* What is left of a visit that ended with the status s: the phase of the turn.
Finished(row, s) == [BlankTermin EXCEPT !.status = s, !.faza = row.faza]

\* _zastap_ledger_terminu and replace_termin_allocation for an active row: the
\* day is cleaned up, the old claims of t go, the new ones must fit.
ReplaceTerminAllocation(t, row) ==
    LET C == Released(CleanupExpiredHolds({row.day}), t)
    IN  /\ Fits(C, row, t)
        /\ hold' = ExpirePublicHolds({row.day})
        /\ wait' = ExpireWaits({row.day})
        /\ termin' = [termin EXCEPT ![t] = row]
        /\ claims' = Inserted(C, CellsOf(row), t, NoDeadline)
        /\ UNCHANGED now

\* Mutant: the visit ends and its claims stay.
EndVisitKeepingClaims(t, s) ==
    /\ termin' = [termin EXCEPT ![t] = Finished(termin[t], s)]
    /\ UNCHANGED <<now, hold, wait, claims>>

\* The statuses that end a visit release its allocation and nothing else.
EndVisit(t, s) ==
    /\ termin' = [termin EXCEPT ![t] = Finished(termin[t], s)]
    /\ claims' = Released(claims, t)
    /\ UNCHANGED <<now, hold, wait>>

\* Typed in by an operator, or a walk-in seated at once.  Without a table the
\* allocator may choose the set (auto).
DodajRezerwacje(t, d, b, w, f, a) ==
    /\ termin[t].status = "brak"
    /\ b \in IF a THEN Configurations ELSE ManualChoices
    /\ f = "posadzony" => b # {}
    /\ ReplaceTerminAllocation(t,
           [status |-> "potwierdzona", faza |-> f, day |-> d, tables |-> b,
            win |-> w, auto |-> a, online |-> FALSE])

\* The same primary table keeps the whole set and its origin; any other choice
\* is a manual one.
EdytujRezerwacje(t, d, b, w) ==
    LET kept == b = termin[t].tables /\ b # {}
    IN  /\ Active(t)
        /\ kept \/ (b \in ManualChoices /\ b \cap Primary(termin[t].tables) = {})
        /\ ReplaceTerminAllocation(t,
               [termin[t] EXCEPT !.day = d, !.tables = b, !.win = w, !.auto = kept /\ @])

\* The guest changes the date or the party: only before coming in.
OnlineEdytuj(t, d, b, w) ==
    /\ Active(t) /\ termin[t].online /\ termin[t].faza = "-"
    /\ b \in Configurations
    /\ ReplaceTerminAllocation(t,
           [termin[t] EXCEPT !.day = d, !.tables = b, !.win = w, !.auto = TRUE])

OnlinePotwierdz(t) ==
    /\ termin[t].status = "rezerwacja" /\ termin[t].online
    /\ termin' = [termin EXCEPT ![t].status = "potwierdzona"]
    /\ UNCHANGED <<now, hold, wait, claims>>

\* Cancelled with the management token, or erased on the guest's demand.
OnlineOdwolaj(t) == Active(t) /\ termin[t].online /\ EndVisit(t, "odwolana")

\* reconcile_payment_reservation: the payment failed or expired and its policy
\* releases the table.
ZwolnijPoPlatnosci(t) == Active(t) /\ EndVisit(t, "odwolana")

ZmienStatus(t, s) ==
    /\ s \in REZ_PRZEJSCIA(termin[t].status)
    /\ IF s \in ACTIVE_STATUSES
       THEN /\ termin' = [termin EXCEPT ![t].status = s]
            /\ UNCHANGED <<now, hold, wait, claims>>
       ELSE EndVisit(t, s)

UsunRezerwacje(t) ==
    /\ Exists(t)
    /\ termin' = [termin EXCEPT ![t] = [BlankTermin EXCEPT !.status = "usunieta"]]
    /\ claims' = Released(claims, t)
    /\ UNCHANGED <<now, hold, wait>>

\* All the guests T of the day d who never came, in one transaction.
AutoNoShow(d, T) ==
    /\ T # {}
    /\ \A t \in T : Active(t) /\ termin[t].day = d /\ termin[t].faza = "-"
    /\ termin' = [t \in Termins |-> IF t \in T THEN Finished(termin[t], "no_show") ELSE termin[t]]
    /\ claims' = [c \in Cells |-> IF claims[c].owner \in T THEN FreeClaim ELSE claims[c]]
    /\ UNCHANGED <<now, hold, wait>>

\* _po_zwolnieniu_stolu, for one of the visits it moves: a table became free,
\* a visit the allocator had placed and that is not seated yet takes a better set.
Reoptymalizuj(t, b, w) ==
    /\ Active(t) /\ termin[t].auto /\ termin[t].faza \notin LIVE_HOST_PHASES
    /\ b \in Configurations \ {termin[t].tables} /\ SameStart(w, termin[t].win)
    /\ ReplaceTerminAllocation(t, [termin[t] EXCEPT !.tables = b, !.win = w])

-----------------------------------------------------------------------------
(* The host stand.                                                          *)

\* Mutant: seating confirms whatever the status was.
SeatedAgain(row) == [row EXCEPT !.faza = "posadzony", !.status = "potwierdzona"]

Seated(row) == [row EXCEPT !.faza = "posadzony",
                           !.status = IF @ = "rezerwacja" THEN "potwierdzona" ELSE @]

\* One table for any visit, or an exact set for a party that already sits.
HostPrzydziel(t, b, w) ==
    /\ Active(t) /\ SameStart(w, termin[t].win)
    /\ \/ b \in ManualChoices \ {{}}
       \/ b \in Configurations \ {termin[t].tables} /\ termin[t].faza \in LIVE_HOST_PHASES
    /\ ReplaceTerminAllocation(t, [termin[t] EXCEPT !.tables = b, !.win = w, !.auto = FALSE])

\* The party takes a table the host names, the exact set the host confirms, the
\* set the allocator proposes when there was none, or the table it had.
HostPosadz(t, b, w, a) ==
    /\ Active(t) /\ "posadzony" \in HOST_PRZEJSCIA[termin[t].faza]
    /\ SameStart(w, termin[t].win)
    /\ \/ b \in (ManualChoices \ {{}}) \cup Configurations /\ a = FALSE
       \/ b \in Configurations /\ termin[t].tables = {} /\ a = TRUE
       \/ b = termin[t].tables /\ b # {} /\ a = termin[t].auto
    /\ ReplaceTerminAllocation(t,
           [Seated(termin[t]) EXCEPT !.tables = b, !.win = w, !.auto = a])

\* The same call on a visit that already ended moves the phase and no claim.
HostPosadzZakonczona(t) ==
    /\ Exists(t) /\ ~Active(t) /\ "posadzony" \in HOST_PRZEJSCIA[termin[t].faza]
    /\ termin' = [termin EXCEPT ![t] = Seated(@)]
    /\ claims' = Released(claims, t)
    /\ UNCHANGED <<now, hold, wait>>

HostZmienFaze(t, f) ==
    LET row == termin[t]
    IN  /\ Exists(t) /\ f \in HOST_PRZEJSCIA[row.faza]
        /\ termin' = [termin EXCEPT ![t] =
               CASE f = "posadzony" -> Seated(row)
                 [] f = "wyszedl"   -> Finished([row EXCEPT !.faza = f],
                                                IF Active(t) THEN "odbyla" ELSE row.status)
                 [] OTHER           -> [row EXCEPT !.faza = f]]
        /\ claims' = IF f = "wyszedl" THEN Released(claims, t) ELSE claims
        /\ UNCHANGED <<now, hold, wait>>

-----------------------------------------------------------------------------
(* The waiting list.                                                        *)

DodajWpis(w, d) ==
    /\ wait[w].status = "brak"
    /\ wait' = [wait EXCEPT ![w] = [BlankWait EXCEPT !.status = "oczekuje", !.day = d]]
    /\ UNCHANGED <<now, hold, termin, claims>>

UsunWpis(w) ==
    /\ wait[w].status \notin {"brak", "usuniety"}
    /\ wait' = [wait EXCEPT ![w] = [BlankWait EXCEPT !.status = "usuniety"]]
    /\ claims' = Released(claims, w)
    /\ UNCHANGED <<now, hold, termin>>

\* Mutant: the deadline is not looked at again under the lock.
OfferStillOffered(w) == wait[w].status = "zaoferowano"

OfferExpired(w) == wait[w].status = "zaoferowano" /\ wait[w].exp <= now
OfferValid(w)   == wait[w].status = "zaoferowano" /\ wait[w].exp > now

\* _odswiez_wygasniecie_waitlisty: the caller came too late; the cleanup of the
\* day is committed and the caller is refused.
OdswiezWygasniecie(w) == OfferExpired(w) /\ CommitCleanup({wait[w].day})

\* A new priority, and a notification of a valid offer: they commit the cleanup
\* of the day and change no inventory of the entry.
Priorytet(w) == wait[w].status = "oczekuje" /\ CommitCleanup({wait[w].day})
Powiadom(w)  == OfferValid(w) /\ CommitCleanup({wait[w].day})

\* The cleanup of the day, then the entry w gives up its tables for row.
LeaveHold(w, row) ==
    LET D == {wait[w].day}
    IN  /\ hold' = ExpirePublicHolds(D)
        /\ wait' = [ExpireWaits(D) EXCEPT ![w] = row]
        /\ claims' = Released(CleanupExpiredHolds(D), w)
        /\ UNCHANGED <<now, termin>>

Anuluj(w) ==
    /\ wait[w].status = "oczekuje" \/ OfferValid(w)
    /\ LeaveHold(w, [BlankWait EXCEPT !.status = "anulowano"])

Wycofaj(w) ==
    /\ OfferValid(w)
    /\ LeaveHold(w, [WithoutHold(wait[w]) EXCEPT !.status = "oczekuje"])

\* zwolnij_hold releases without a cleanup of the day.
ZwolnijLegacyHold(w) ==
    /\ wait[w].status = "oczekuje"
    /\ wait' = [wait EXCEPT ![w] = WithoutHold(@)]
    /\ claims' = Released(claims, w)
    /\ UNCHANGED <<now, hold, termin>>

\* An offer freezes one set of tables (status s is `zaoferowano'); a legacy hold
\* does the same for an entry that goes on waiting (`oczekuje').
ZalozHold(w, s, b, win) ==
    LET D   == {wait[w].day}
        C   == Released(CleanupExpiredHolds(D), w)
        row == [status |-> s, day |-> wait[w].day, tables |-> b, win |-> win,
                exp |-> now + OfferTTL]
    IN  /\ wait[w].status = "oczekuje"
        /\ b \in Configurations
        /\ Fits(C, row, w)
        /\ hold' = ExpirePublicHolds(D)
        /\ wait' = [ExpireWaits(D) EXCEPT ![w] = row]
        /\ claims' = Inserted(C, CellsOf(row), w, row.exp)
        /\ UNCHANGED <<now, termin>>

Zaoferuj(w, b, win)   == ZalozHold(w, "zaoferowano", b, win)
LegacyHold(w, b, win) == ZalozHold(w, "oczekuje", b, win)

\* The entry w becomes the reservation t.
Realise(w, t, row) ==
    LET D == {wait[w].day}
        C == Released(CleanupExpiredHolds(D), w)
    IN  /\ termin[t].status = "brak"
        /\ Fits(C, row, t)
        /\ hold' = ExpirePublicHolds(D)
        /\ wait' = [ExpireWaits(D) EXCEPT ![w] = [BlankWait EXCEPT !.status = "zaakceptowano"]]
        /\ termin' = [termin EXCEPT ![t] = row]
        /\ claims' = Inserted(C, CellsOf(row), t, NoDeadline)
        /\ UNCHANGED now

\* The claims of the offer are complete and carry its deadline.
ClaimsComplete(w) ==
    /\ {c \in Cells : claims[c].owner = w} = WaitCells(wait[w])
    /\ \A c \in WaitCells(wait[w]) : claims[c].exp = wait[w].exp

Zaakceptuj(w, t, f, a, o) ==
    /\ OfferValid(w) /\ wait[w].tables # {} /\ ClaimsComplete(w)
    /\ Realise(w, t, [status |-> "potwierdzona", faza |-> f, day |-> wait[w].day,
                      tables |-> wait[w].tables, win |-> wait[w].win,
                      auto |-> a, online |-> o])

\* zrealizuj: an entry that waits becomes a reservation without an offer.
Zrealizuj(w, t, b, win, f, a, o) ==
    /\ wait[w].status = "oczekuje" /\ b \in Configurations
    /\ Realise(w, t, [status |-> "potwierdzona", faza |-> f, day |-> wait[w].day,
                      tables |-> b, win |-> win, auto |-> a,
                      online |-> o /\ f = "-"])

-----------------------------------------------------------------------------
(* The expiry worker and the startup repair.                                *)

\* Mutant: the worker looks for offers only.
DaysOfExpiredOffers == {wait[w].day : w \in {w \in Waits : OfferExpired(w)}}

\* The days the worker looks at: legacy holds of waiting entries are not
\* looked for, only cleaned up along with the rest of such a day.
DaysToSweep ==
    {hold[h].day : h \in ExpiredHolds(Days)}
    \cup {wait[w].day : w \in {w \in Waits : OfferExpired(w)}}

RunWaitlistExpiryOnce == DaysToSweep # {} /\ CommitCleanup(DaysToSweep)

\* A reservation stores no buffer: with buffer_min = None its claims are made with the one buffer
\* of LokalConfig, whatever rule, service or room gave it another when it was written.
Rebuffered(b) ==
    [t \in Termins |-> IF Active(t) THEN [termin[t] EXCEPT !.win = Span(@.visit, b)] ELSE termin[t]]

\* Mutant: the rebuild forgets the legacy holds of entries that still wait.
CoveringOffersOnly(T, c) ==
    {h \in Holds : c \in HoldCells(hold[h]) /\ hold[h].exp > now}
    \cup {w \in Waits : c \in WaitCells(wait[w]) /\ OfferValid(w)}
    \cup {t \in Termins : c \in TerminCells(T[t])}

\* The claims the rebuild writes for the cell c, T being the visits: the projection that covers it.
Covering(T, c) ==
    {h \in Holds : c \in HoldCells(hold[h]) /\ hold[h].exp > now}
    \cup {w \in Waits : c \in WaitCells(wait[w]) /\ wait[w].exp > now}
    \cup {t \in Termins : c \in TerminCells(T[t])}

DeadlineOf(o) ==
    CASE o \in Holds   -> hold[o].exp
      [] o \in Waits   -> wait[o].exp
      [] o \in Termins -> NoDeadline

RebuiltClaim(T, c) ==
    IF Covering(T, c) = {} THEN FreeClaim
    ELSE LET o == CHOOSE o \in Covering(T, c) : TRUE IN [owner |-> o, exp |-> DeadlineOf(o)]

\* Mutant: a visit's new claims replace the claims of others.
RebuildOverOthers(T) ==
    /\ \A t \in Termins : Active(t) =>
           termin[t].tables \cap LiveTables(termin[t].day, t) = {}
    /\ \A w \in Waits : wait[w].exp > now =>
           wait[w].tables \cap LiveTables(wait[w].day, w) = {}
    /\ \A h \in Holds : hold[h].state = "active" /\ hold[h].exp > now =>
           hold[h].tables \cap LiveTables(hold[h].day, h) = {}

\* Every owner goes through the ordinary allocation, so another owner's cell or
\* a party still sitting on one of its tables refuses the whole rebuild.
RebuildAccepted(T) ==
    /\ \A c \in Cells : \A o, p \in Covering(T, c) : o = p
    /\ \A t \in Termins : Active(t) =>
           termin[t].tables \cap LiveTables(termin[t].day, t) = {}
    /\ \A w \in Waits : wait[w].exp > now =>
           wait[w].tables \cap LiveTables(wait[w].day, w) = {}
    /\ \A h \in Holds : hold[h].state = "active" /\ hold[h].exp > now =>
           hold[h].tables \cap LiveTables(hold[h].day, h) = {}

RebuildLedger ==
    \E b \in Buffers :
        LET T == Rebuffered(b)
        IN  /\ termin' = T /\ RebuildAccepted(T)
            /\ hold' = ExpirePublicHolds(Days)
            /\ wait' = ExpireWaits(Days)
            /\ claims' = [c \in Cells |-> RebuiltClaim(T, c)]
            /\ UNCHANGED now

-----------------------------------------------------------------------------

PublicNext ==
    \/ \E h \in Holds : OnlineZwolnijHold(h)
    \/ \E h \in Holds, d \in Days, b \in Configurations, w \in Spans : OnlineUtworzHold(h, d, b, w)
    \/ \E h \in Holds, t \in Termins, s \in ACTIVE_STATUSES, w \in Spans : OnlineRezerwacja(h, t, s, w)
    \/ \E t \in Termins : OnlinePotwierdz(t) \/ OnlineOdwolaj(t)
    \/ \E t \in Termins, d \in Days, b \in Configurations, w \in Spans : OnlineEdytuj(t, d, b, w)

Choices == Configurations \cup ManualChoices

OperatorNext ==
    \/ \E t \in Termins, d \in Days, b \in Choices, w \in Spans,
          f \in {"-", "posadzony"}, a \in BOOLEAN : DodajRezerwacje(t, d, b, w, f, a)
    \/ \E t \in Termins, d \in Days, b \in Choices, w \in Spans : EdytujRezerwacje(t, d, b, w)
    \/ \E t \in Termins : ZwolnijPoPlatnosci(t) \/ UsunRezerwacje(t)
    \/ \E t \in Termins, s \in {"potwierdzona", "odbyla", "no_show", "odwolana"} : ZmienStatus(t, s)
    \/ \E d \in Days, T \in SUBSET Termins : AutoNoShow(d, T)
    \/ \E t \in Termins, b \in Configurations, w \in Spans : Reoptymalizuj(t, b, w)

HostNext ==
    \/ \E t \in Termins, b \in Choices, w \in Spans : HostPrzydziel(t, b, w)
    \/ \E t \in Termins, b \in Choices, w \in Spans, a \in BOOLEAN : HostPosadz(t, b, w, a)
    \/ \E t \in Termins : HostPosadzZakonczona(t)
    \/ \E t \in Termins, f \in Fazy : HostZmienFaze(t, f)

WaitlistNext ==
    \/ \E w \in Waits, d \in Days : DodajWpis(w, d)
    \/ \E w \in Waits : \/ UsunWpis(w) \/ OdswiezWygasniecie(w) \/ Priorytet(w) \/ Powiadom(w)
                        \/ Anuluj(w) \/ Wycofaj(w) \/ ZwolnijLegacyHold(w)
    \/ \E w \in Waits, b \in Configurations, win \in Spans :
          Zaoferuj(w, b, win) \/ LegacyHold(w, b, win)
    \/ \E w \in Waits, t \in Termins, f \in {"-", "posadzony"}, a, o \in BOOLEAN :
          Zaakceptuj(w, t, f, a, o)
    \/ \E w \in Waits, t \in Termins, b \in Configurations, win \in Spans,
          f \in {"-", "posadzony"}, a, o \in BOOLEAN : Zrealizuj(w, t, b, win, f, a, o)

Next ==
    \/ Tick
    \/ PublicNext
    \/ OperatorNext
    \/ HostNext
    \/ WaitlistNext
    \/ RunWaitlistExpiryOnce
    \/ RebuildLedger

Spec == Init /\ [][Next]_vars

\* The worker loop runs the sweep again and again as long as there is work.
FairSpec == Spec /\ WF_vars(RunWaitlistExpiryOnce)

-----------------------------------------------------------------------------
(* Properties                                                               *)

TypeOK ==
    /\ now \in 0 .. MaxTime
    /\ hold \in [Holds -> HoldRows]
    /\ wait \in [Waits -> WaitRows]
    /\ termin \in [Termins -> TerminRows]
    /\ claims \in [Cells -> Claims]

\* What an owner asks for, and until when.
Asked(o) ==
    CASE o \in Holds   -> HoldCells(hold[o])
      [] o \in Waits   -> WaitCells(wait[o])
      [] o \in Termins -> TerminCells(termin[o])
      [] OTHER         -> {}

\* The ledger of claims and the projections of its owners never drift apart:
\* the claims of an owner are the cells of its row, all of them, no other, and
\* with the deadline of the row, whatever transactions changed either of them.
\* An owner without a deadline holds no table unless it is a visit.
ClaimsMatchOwners ==
    /\ \A o \in Owners : {c \in Cells : claims[c].owner = o} = Asked(o)
    /\ \A c \in Cells :
          claims[c].exp = IF claims[c].owner = Nobody THEN NoDeadline
                                                      ELSE DeadlineOf(claims[c].owner)

\* Two owners never ask for the same minute of the same table, even while the
\* deadline of one of them has passed and nobody swept it yet.
NoDoubleBooking ==
    \A o, p \in Owners : o # p => Asked(o) \cap Asked(p) = {}

\* A table that occupied_table_ids calls free after the cleanup of the day can
\* be claimed: no leftover row hits the unique (table, day, minute) key, which
\* knows nothing of deadlines.
FreeMeansInsertable ==
    \A d \in Days, b \in Tables, w \in Spans :
        LET C == CleanupExpiredHolds({d})
        IN  b \notin OccupiedTableIds(C, d, Minutes(w), Nobody)
                => Insertable(C, {c \in Cells : c[1] = d /\ c[2] = b /\ c[3] \in Minutes(w)})

\* A party that sits keeps its tables for the rest of the day: no step of
\* anybody claims such a table for another owner.
LiveTableNotResold ==
    [][\A c \in Cells :
          claims'[c].owner \notin {claims[c].owner, Nobody}
              => c[2] \notin LiveTables(c[1], claims'[c].owner)]_vars

\* The owner o let its cells go by its own doing: a hold released or used, an
\* entry answered or withdrawn but not expired, a visit changed in what its row stores.
Stored(row) == [row EXCEPT !.win = @.visit]
GaveUp(o) ==
    CASE o \in Holds   -> hold'[o].state \in {"released", "consumed"}
      [] o \in Waits   -> wait'[o] # wait[o] /\ wait'[o].status # "wygasla"
      [] o \in Termins -> Stored(termin'[o]) # Stored(termin[o])

\* The cell c is of the buffer of its visit, and the buffer became shorter.
RestedLess(c) ==
    \E t \in Termins : /\ claims[c].owner = t /\ c[3] \notin termin[t].win.visit
                        /\ termin'[t].win.buffer < termin[t].win.buffer

\* Before its deadline nobody loses a cell to a stranger: no cleanup, sweep,
\* rebuild or allocation of another owner takes a claim that is still good, but
\* for the end of a buffer when the buffer of its visit is looked up again.
PromisesKept ==
    [][\A c \in Cells :
          LET o == claims[c].owner
          IN  o # Nobody /\ claims[c].exp > now /\ claims'[c].owner # o => GaveUp(o) \/ RestedLess(c)]_vars

\* An answer that races the deadline: an offer is accepted, and a hold used,
\* only while it is valid, and what the guest gets is one new visit on exactly
\* the promised tables (an offer: in exactly the promised minutes).
PromiseBecomesVisit ==
    [][/\ \A w \in Waits :
             wait[w].status = "zaoferowano" /\ wait'[w].status = "zaakceptowano" =>
                 /\ wait[w].exp > now
                 /\ \E t \in Termins : /\ termin[t].status = "brak"
                                       /\ TerminCells(termin'[t]) = WaitCells(wait[w])
       /\ \A h \in Holds :
             hold[h].state = "active" /\ hold'[h].state = "consumed" =>
                 /\ hold[h].exp > now
                 /\ \E t \in Termins : /\ termin[t].status = "brak"
                                       /\ Active(t)'
                                       /\ termin'[t].tables = hold[h].tables
                                       /\ termin'[t].day = hold[h].day]_vars

\* What ended stays ended: an expired offer is never offered or accepted, a
\* finished hold is never used, a cancelled or finished visit never takes a
\* table again, whatever the host stand and the operator do to it afterwards.
EndedIsFinal ==
    [][/\ \A h \in Holds : hold[h].state \in {"consumed", "released", "expired"}
              => hold'[h] = hold[h]
       /\ \A w \in Waits : wait[w].status \in {"zaakceptowano", "wygasla", "anulowano", "usuniety"}
              => wait'[w].status \in {wait[w].status, "usuniety"} /\ WaitCells(wait'[w]) = {}
       /\ \A t \in Termins : termin[t].status \in {"odbyla", "no_show", "odwolana", "usunieta"}
              => termin'[t].status \in {termin[t].status, "usunieta"}]_vars

\* The startup repair (_rebuild_rezerwacje_ledger, database.py:893-1160) deletes every claim and
\* makes it again from the rows: beyond the cleanup nothing changes but the buffers after visits,
\* and they grow and shrink over minutes that nobody else had or gets.
RebuildOnlyMovesBuffers ==
    [][RebuildLedger =>
          \A c \in Cells :
              LET was == CleanupExpiredHolds(Days)[c]
              IN  claims'[c] = was
                  \/ \E t \in Termins : /\ {was.owner, claims'[c].owner} = {t, Nobody}
                                         /\ c[3] \notin termin[t].win.visit]_vars

\* An expired promise does not block a table for ever, even if no request ever
\* touches its day: the worker ends it.
ExpiredIsReleased ==
    /\ \A h \in Holds : h \in ExpiredHolds(Days) ~> hold[h].state = "expired"
    /\ \A w \in Waits : OfferExpired(w) ~> wait[w].status # "zaoferowano"

\* The rows and their ledger implement the inventory of tables: a transaction lets at most
\* one party gain tables, none but free or expired ones, or hands a promise that still holds
\* to its visit; nobody else loses a part of what it has.
Held == [o \in Owners |-> [places |-> {c \in Cells : claims[c].owner = o}, until |-> DeadlineOf(o)]]
Inventory == INSTANCE TableInventory WITH
                 Places <- Cells, Promises <- Holds \cup Waits, Visits <- Termins, held <- Held
ImplementsInventory == Inventory!Spec

\* _rebuild_rezerwacje_ledger: `the rebuild is idempotent'.  Whatever legal
\* calls came before, the repair at startup accepts the rows it finds, under one
\* buffer at least that LokalConfig may hold.
RebuildAlwaysAccepted == \E b \in Buffers : RebuildAccepted(Rebuffered(b))

=============================================================================
