---------------------------- MODULE DaySettlement ----------------------------
(***************************************************************************)
(* The settlement of a day beside the rota: every waiter of the hall       *)
(* reports, who closes adds the terminals of his room and the tills, the   *)
(* agent of the POS says whose bills are closed, and the administrator is  *)
(* told once all have reported.                                            *)
(*                                                                         *)
(* Every request first gets or makes the day's settlement, with a row for  *)
(* each waiter, and commits it; what follows is a transaction of its own.  *)
(***************************************************************************)
EXTENDS StaffRota

VARIABLES
    books,      \* RozliczenieDnia of every day, with its rows
    bills       \* RozliczenieGastro: what the POS said of a worker's bills of a day

vars == <<world, rota, open, books, bills>>

Book == [made |-> FALSE, status |-> "draft", rows |-> <<>>, terminals |-> {}, tills |-> 0, told |-> FALSE]
WaiterRow(w) == [worker |-> w, confirmed |-> FALSE, asked |-> FALSE]
Confirmed(rows) == rows # <<>> /\ \A k \in DOMAIN rows : rows[k].confirmed

-----------------------------------------------------------------------------
(* Who settles.                                                            *)

OnHall(w, days) == \E i \in ShiftsOf(w) : rota.shifts[i].day \in days /\ rota.shifts[i].position \in Hall
Window(d) == {x \in Days : Distance(x, d) <= 21}
\* _pids_sali_dnia: the hall by the rota, and who has bills that day and is staff of the hall.
WaitersOf(d) == {w \in Workers : OnHall(w, {d}) \/ (bills[<<w, d>>] # "none" /\ OnHall(w, Window(d)))}
\* _kelner_sala_dnia: his bills must be closed.
SettlesOn(w, d) == OnHall(w, {d}) \/ (bills[<<w, d>>] = "closed" /\ OnHall(w, Window(d)))

ClosesVenue(w, d) == \E i \in ShiftsOf(w) : rota.shifts[i].day = d /\ rota.shifts[i].closes /\ OnHall(w, {d})
\* The room that a worker closes, set in the form of his shift.
RoomOf(w, d) == IF OnHall(w, {d}) THEN world.rooms[w] ELSE "none"

-----------------------------------------------------------------------------
(* _zbuduj_rozliczenie.                                                    *)

Build(d, next, carried) ==
    [op |-> "build", day |-> d, next |-> next, carried |-> carried, read |-> FALSE, missing |-> {}, first |-> FALSE]
Builds(s, d) == Running(s, "build") /\ open[s].day = d

\* The day's unique key: whoever meets an insertion of the same day waits for its commit.
ReadBook(s) ==
    /\ Running(s, "build") /\ ~open[s].read
    /\ LET d == open[s].day
       IN  /\ ~\E t \in Slots : Builds(t, d) /\ open[t].first
           /\ open' = [open EXCEPT
                ![s].read = TRUE, ![s].first = ~books[d].made,
                ![s].missing = IF world.pool THEN {}
                               ELSE WaitersOf(d) \ {books[d].rows[k].worker : k \in DOMAIN books[d].rows}]
    /\ UNCHANGED <<rota, books, bills>>

\* What the request does next, with the settlement as it is after the commit.
Continue(s, d, book) ==
    LET tx == open[s]
    IN  CASE tx.next = "view" -> Free
          [] tx.next = "page" -> [op |-> "page", day |-> d, terminals |-> book.terminals, tills |-> book.tills]
          [] tx.next = "save" -> [op |-> "save", day |-> d, page |-> tx.carried]
          [] tx.next = "report" -> [op |-> "report", day |-> d, worker |-> tx.carried, terminals |-> book.terminals,
                                    rows |-> book.rows]
          [] tx.next = "ask" -> [op |-> "ask", day |-> d,
                 rows |-> {k \in DOMAIN book.rows : ~book.rows[k].confirmed /\ ~book.rows[k].asked
                                                    /\ bills[<<book.rows[k].worker, d>>] = "closed"}]
WriteBook(s) ==
    /\ Running(s, "build") /\ open[s].read
    /\ LET d == open[s].day
           added == InOrder(open[s].missing)
           book == [books[d] EXCEPT !.made = TRUE, !.rows = @ \o [k \in DOMAIN added |-> WaiterRow(added[k])]]
       IN  books' = [books EXCEPT ![d] = book] /\ open' = [open EXCEPT ![s] = Continue(s, d, book)]
    /\ UNCHANGED <<rota, bills>>

-----------------------------------------------------------------------------
(* A waiter's report.                                                      *)

ViewReport(s) == May("view") /\
    \E w \in Workers, d \in world.days :
        ~world.pool /\ SettlesOn(w, d) /\ Begin(s, Build(d, "view", w)) /\ UNCHANGED <<rota, books, bills>>

Report(s) == May("report") /\
    \E w \in Workers, d \in world.days :
        ~world.pool /\ SettlesOn(w, d) /\ Begin(s, Build(d, "report", w)) /\ UNCHANGED <<rota, books, bills>>

\* The list of terminals is written whole: the others' as they were read, and his own.
Handed(terminals, room, w) == {t \in terminals : t.room # room} \cup {[room |-> room, by |-> w]}
\* The first row of a worker is his; without one he gets it.
ConfirmedBy(rows, w) ==
    LET own == {k \in DOMAIN rows : rows[k].worker = w}
    IN  IF own = {} THEN Append(rows, [WaiterRow(w) EXCEPT !.confirmed = TRUE])
        ELSE [rows EXCEPT ![CHOOSE k \in own : \A j \in own : k <= j].confirmed = TRUE]
CommitReport(s) ==
    /\ Running(s, "report")
    /\ LET d == open[s].day  w == open[s].worker  room == RoomOf(w, d)
       IN  /\ books' = [books EXCEPT
                ![d].rows = ConfirmedBy(@, w),
                ![d].terminals = IF room = "none" THEN @ ELSE Handed(open[s].terminals, room, w),
                ![d].tills = IF ClosesVenue(w, d) THEN w ELSE @]
           /\ open' = [open EXCEPT ![s] = [op |-> "check", day |-> d, rows |-> ConfirmedBy(open[s].rows, w)]]
    /\ UNCHANGED <<rota, bills>>

Told(s, rows) ==
    /\ books' = IF Confirmed(rows) THEN [books EXCEPT ![open[s].day].told = TRUE] ELSE books
    /\ End(s) /\ UNCHANGED <<rota, bills>>
\* Mutant: the rows that the request loaded before its commit are not read again.
CheckLoadedRows(s) == Running(s, "check") /\ Told(s, open[s].rows)
\* After its commit the rows are read again; the push goes to the administrators once.
CheckComplete(s) == Running(s, "check") /\ Told(s, books[open[s].day].rows)

-----------------------------------------------------------------------------
(* The agent of the POS and the administrator.                             *)

\* The bills are committed, then the day is built and the waiters with closed bills are asked.
IngestBills(s) == May("ingest") /\
    \E w \in Workers, d \in world.days, state \in {"open", "closed"} :
        /\ Begin(s, Build(d, "ask", 0))
        /\ bills' = [bills EXCEPT ![<<w, d>>] = state] /\ UNCHANGED <<rota, books>>
AskForReports(s) ==
    /\ Running(s, "ask") /\ End(s)
    /\ books' = [books EXCEPT ![open[s].day].rows =
                   [k \in DOMAIN @ |-> IF k \in open[s].rows THEN [@[k] EXCEPT !.asked = TRUE] ELSE @[k]]]
    /\ UNCHANGED <<rota, bills>>

OpenSettlement(s) == May("settle") /\
    \E d \in world.days : Begin(s, Build(d, "page", 0)) /\ UNCHANGED <<rota, books, bills>>
\* The page is saved as a whole, or left.
SaveSettlement(s) ==
    /\ Running(s, "page")
    /\ open' = [open EXCEPT ![s] = Build(@.day, "save", [terminals |-> @.terminals, tills |-> @.tills])]
    /\ UNCHANGED <<rota, books, bills>>
LeaveSettlement(s) == Running(s, "page") /\ End(s) /\ UNCHANGED <<rota, books, bills>>
CommitSettlement(s) ==
    /\ Running(s, "save") /\ End(s)
    /\ books' = [books EXCEPT ![open[s].day].terminals = open[s].page.terminals, ![open[s].day].tills = open[s].page.tills]
    /\ UNCHANGED <<rota, bills>>
SetTransfer(s) == May("settle") /\
    \E d \in world.days : Begin(s, Build(d, "view", 0)) /\ UNCHANGED <<rota, books, bills>>
PassToBoss(s) == May("settle") /\
    \E d \in world.days : /\ books[d].made /\ Begin(s, Free)
                    /\ books' = [books EXCEPT ![d].status = "with boss"] /\ UNCHANGED <<rota, bills>>

\* delete_pracownik: the worker's rows everywhere go with him.
DismissWorker(s) == May("dismiss") /\
    \E w \in Workers :
        /\ Begin(s, Free)
        /\ LET kept == Without(rota, ShiftsOf(w))
           IN  rota' = [kept EXCEPT
                 !.offers = [o \in DOMAIN @ |-> IF @[o].by = w THEN [@[o] EXCEPT !.status = "gone"]
                                                ELSE IF @[o].taker = w THEN [@[o] EXCEPT !.taker = 0] ELSE @[o]],
                 !.wants = [x \in DOMAIN @ |-> IF x[1] = w THEN Silent ELSE @[x]],
                 !.leave = [x \in DOMAIN @ |-> IF x[1] = w THEN "none" ELSE @[x]]]
        /\ books' = [d \in Days |-> [books[d] EXCEPT !.rows = SelectSeq(@, LAMBDA r : r.worker # w)]]
        /\ bills' = [x \in DOMAIN bills |-> IF x[1] = w THEN "none" ELSE bills[x]]

-----------------------------------------------------------------------------

Init ==
    /\ RotaInit
    /\ books = [d \in Days |-> Book]
    /\ bills = [x \in Workers \X Days |-> "none"]

DayStep(s) ==
    \/ ReadBook(s) \/ WriteBook(s) \/ ViewReport(s) \/ Report(s) \/ CommitReport(s) \/ CheckComplete(s)
    \/ IngestBills(s) \/ AskForReports(s)
    \/ OpenSettlement(s) \/ SaveSettlement(s) \/ LeaveSettlement(s) \/ CommitSettlement(s)
    \/ SetTransfer(s) \/ PassToBoss(s) \/ DismissWorker(s)

Next ==
    /\ world' = world
    /\ \E s \in Slots : (RotaStep(s) /\ UNCHANGED <<books, bills>>) \/ DayStep(s)

Spec == Init /\ [][Next]_vars

-----------------------------------------------------------------------------
(* Properties.                                                             *)

\* A day is reported when each of its waiters has sent his report; a second row of a waiter, which two
\* builders of the day at once may both append (deps.py:381-389), is never the one he confirms.
Reported(rows) ==
    rows # <<>> /\ \A k \in DOMAIN rows : \E j \in DOMAIN rows : rows[j].worker = rows[k].worker /\ rows[j].confirmed
Doubled(rows) ==
    \E j, k \in DOMAIN rows : rows[j].worker = rows[k].worker /\ rows[j].confirmed /\ ~rows[k].confirmed
Checking(d) == \E s \in Slots : Running(s, "check") /\ open[s].day = d

\* zapisz_moje_rozliczenie (moje.py:513-519): when every waiter of a day has reported, and no report of
\* that day is between its commit and its check, the administrators have been told; two waiters
\* who report at the same time must not each take the other for missing.  Two kinds of days are missed
\* and excepted, contrary to what moje.py:514 says of all: one whose last unreported waiter is dismissed,
\* and one with a doubled row.
NoDismissal == "dismiss" \notin world.ops
AdminLearnsOfCompleteDay ==
    NoDismissal =>
        \A d \in Days : Reported(books[d].rows) /\ ~Checking(d) => books[d].told \/ Doubled(books[d].rows)
=============================================================================
