--------------------------- MODULE GuestRequests ---------------------------
(***************************************************************************)
(* The booking page of a guest and the public API behind it, joined by a   *)
(* network that loses requests and answers and delivers a request long     *)
(* after the page gave it up.                                              *)
(*                                                                         *)
(* Every request carries a key that the page keeps for the repetitions of  *)
(* one intent.  A request is one transaction of the server: on a hold of a *)
(* table, a visit, an entry of the waiting list, and on the chain of       *)
(* management tokens of the visit.  The browser keeps the last token in a  *)
(* cookie that the answers set.                                            *)
(***************************************************************************)
EXTENDS Integers, Sequences, FiniteSets

CONSTANTS
    Tables,
    SessionLimit,   \* live holds of one session
    MaxKeys,        \* bound of the intents of the page
    MaxVisits,      \* bound of the visits
    MaxTokens,      \* bound of the tokens
    Worlds          \* what to look at: the calls of the page, of the others, where it starts, and
                    \* bounds of its intents and of the requests that outlive their connection

Manage == {"confirm", "edit", "cancel", "pay", "erase"}
Calls == {"hold", "submit", "queue"} \cup Manage
Others == {"Lapse", "PaymentFails", "Edit", "Cancel", "Erase"}
Keys == 1..MaxKeys

ASSUME GuestAssumption ==
    /\ SessionLimit \in Nat \ {0} /\ MaxKeys \in Nat \ {0} /\ MaxVisits \in Nat \ {0} /\ MaxTokens \in Nat \ {0}
    /\ Worlds \subseteq [calls : SUBSET Calls, others : SUBSET Others, booked : BOOLEAN,
                         keys : 0..MaxKeys, late : Nat]

VARIABLES
    world,      \* one of Worlds, for the whole run
    db,         \* the rows of this session
    page,       \* RezerwacjaWidget: its refs, its cookie and its connections
    late        \* requests that nobody waits for any more

vars == <<world, db, page, late>>

-----------------------------------------------------------------------------
(* Rows and requests.                                                      *)

HoldStates == {"none", "active", "lapsed", "released", "expired", "consumed"}
NoHold == [state |-> "none", table |-> 0, visit |-> 0]
Visit(hold, key, table, pay) ==
    [hold |-> hold, key |-> key, table |-> table, status |-> "new", personal |-> TRUE,
     pay |-> pay, by |-> "nobody"]
Token(visit) ==
    [visit |-> visit, used |-> FALSE, for |-> [op |-> "none", n |-> 0], next |-> 0,
     revoked |-> FALSE, deleted |-> FALSE]

NoKey == [op |-> "none", n |-> 0]
Request(key, hold, token) == [key |-> key, hold |-> hold, token |-> token]
Idle == [phase |-> "idle", req |-> Request(NoKey, 0, 0), code |-> "none", token |-> 0]

Slots == {"hold", "submit"} \cup Manage
\* A booking and an entry of the waiting list are two uses of one form.
SlotOf(op) == IF op = "queue" THEN "submit" ELSE op

Active(v) == v.status \in {"new", "confirmed"}
Occupied(d) ==
    {d.holds[k].table : k \in {x \in Keys : d.holds[x].state = "active"}}
    \cup {d.visits[i].table : i \in {x \in DOMAIN d.visits : Active(d.visits[x])}}
Live(t) == ~t.used /\ ~t.revoked /\ ~t.deleted

\* What a handler leaves and answers.
Reply(d, code, token) == [db |-> d, code |-> code, token |-> token]
Refuse(code) == Reply(db, code, 0)

-----------------------------------------------------------------------------
(* Holds.                                                                  *)

\* Holds whose deadline has passed are swept whenever one is made.
Swept(holds) ==
    [k \in Keys |-> IF holds[k].state = "lapsed" THEN [holds[k] EXCEPT !.state = "expired"] ELSE holds[k]]

\* create_public_hold: a key that was used before answers for what became of its hold.
TakeHold(r, t) ==
    LET holds == Swept(db.holds)
        old == holds[r.key.n]
    IN IF old.state = "none"
       THEN IF Cardinality({k \in Keys : holds[k].state = "active"}) < SessionLimit
            THEN Reply([db EXCEPT !.holds = [holds EXCEPT ![r.key.n] =
                          [state |-> "active", table |-> t, visit |-> 0]]], "ok", 0)
            ELSE Refuse("refused")
       ELSE IF old.table # t \/ old.state = "consumed" THEN Refuse("conflict")
       ELSE Refuse("gone")

\* The allocator chooses a table first, and what the session holds is not free for it.
CreateHold(r) == {Refuse("conflict")} \cup {TakeHold(r, t) : t \in Tables \ Occupied(db)}

ReleaseHold(r) ==
    LET holds == [db.holds EXCEPT ![r.hold].state =
                    CASE @ = "active" -> "released" [] @ = "lapsed" -> "expired" [] OTHER -> @]
    IN {Reply([db EXCEPT !.holds = holds], "ok", 0)}

-----------------------------------------------------------------------------
(* Submissions.                                                            *)

First(d, v) == CHOOSE i \in DOMAIN d.tokens :
                 d.tokens[i].visit = v /\ \A j \in DOMAIN d.tokens : d.tokens[j].next # i

\* The first link of a visit is derived again from the key.
ReplayBooking(v) ==
    LET t == db.tokens[First(db, v)]
    IN IF t.revoked \/ t.deleted THEN Refuse("refused")
       ELSE IF t.used THEN Refuse("conflict")
       ELSE Reply(db, "ok", First(db, v))

\* Mutant: a hold that was turned into a visit is taken for a live one.
BookableIfKept(h) == h.state \in {"active", "consumed"}

Bookable(h) == h.state = "active"

\* The hold, its claims and the visit change hands in one transaction.
Booked(r, pay) ==
    LET n == Len(db.visits) + 1
    IN Reply([db EXCEPT !.holds[r.hold].state = "consumed", !.holds[r.hold].visit = n,
                        !.visits = Append(@, Visit(r.hold, r.key.n, db.holds[r.hold].table, pay)),
                        !.tokens = Append(@, Token(n)),
                        !.records[r.key.n] = n],
             "ok", Len(db.tokens) + 1)

Book(r) ==
    IF db.records[r.key.n] # 0 THEN {ReplayBooking(db.records[r.key.n])}
    ELSE IF Bookable(db.holds[r.hold])
    THEN {Refuse("conflict")}
         \cup (IF Len(db.visits) < MaxVisits THEN {Booked(r, pay) : pay \in {"none", "pending"}} ELSE {})
    ELSE {Refuse(IF db.holds[r.hold].state = "consumed" THEN "conflict" ELSE "gone")}

\* The row of the waiting list carries the key itself.
Queue(r) ==
    {Reply(IF db.waits[r.key.n] > 0 THEN db ELSE [db EXCEPT !.waits[r.key.n] = @ + 1], "ok", 0)}

-----------------------------------------------------------------------------
(* Management of a visit by its token.                                     *)

\* What is deleted with the personal data of a visit, but for the tokens in keep.
Erased(d, v, keep) ==
    [d EXCEPT !.visits[v].personal = FALSE,
              !.tokens = [i \in DOMAIN d.tokens |->
                            IF d.tokens[i].visit = v /\ i \notin keep
                            THEN [d.tokens[i] EXCEPT !.deleted = TRUE] ELSE d.tokens[i]],
              !.records = [k \in Keys |-> IF d.records[k] = v THEN 0 ELSE d.records[k]],
              !.holds = [k \in Keys |-> IF d.holds[k].visit = v THEN NoHold ELSE d.holds[k]]]

\* The visits that an operation may leave; none when it refuses.
ConfirmVisit(v) == {IF v.status = "new" THEN [v EXCEPT !.status = "confirmed"] ELSE v}

CancelVisit(v) == {IF Active(v) THEN [v EXCEPT !.status = "cancelled"] ELSE v}

EditVisit(v) ==
    IF Active(v) /\ v.pay # "pending"
    THEN {[v EXCEPT !.by = "guest", !.pay = p] : p \in {"none", "pending"}} ELSE {}

PayAgain(v) == IF Active(v) /\ v.pay = "failed" THEN {[v EXCEPT !.pay = "pending"]} ELSE {}

Effects(op, v) ==
    CASE op = "confirm" -> ConfirmVisit(v)
      [] op = "edit" -> EditVisit(v)
      [] op = "pay" -> PayAgain(v)
      [] op \in {"cancel", "erase"} -> CancelVisit(v)

\* Mutant: the token that the erasure itself issues stays alive.
SealedBySource(d, t, next) == [d EXCEPT !.tokens[t].revoked = TRUE]

Sealed(d, t, next) == [d EXCEPT !.tokens[t].revoked = TRUE, !.tokens[next].revoked = TRUE]

\* A token is spent: its successor is derived from it, the operation and the key.
Spend(r) ==
    LET t == db.tokens[r.token]
        next == Len(db.tokens) + 1
        After(v) ==
          LET d == [db EXCEPT !.visits[t.visit] = v,
                              !.tokens = Append([@ EXCEPT ![r.token].used = TRUE,
                                                          ![r.token].for = r.key,
                                                          ![r.token].next = next], Token(t.visit))]
          IN IF r.key.op = "erase"
             THEN Sealed(Erased(d, t.visit, {r.token, next}), r.token, next) ELSE d
    IN {Reply(After(v), "ok", next) :
          v \in IF next <= MaxTokens THEN Effects(r.key.op, db.visits[t.visit]) ELSE {}}

\* Mutant: a token works once.
NeverRepeated(t, r) == FALSE

Repeated(t, r) == t.for = r.key

\* Mutant: a repetition runs the handler again before it answers.
ReplayAndRun(r) ==
    LET t == db.tokens[r.token]
    IN {Reply([db EXCEPT !.visits[t.visit] = v], "ok", t.next) : v \in Effects(r.key.op, db.visits[t.visit])}

\* A spent token only answers the request that spent it, while its successor is unused.
ReplayRotation(r) ==
    LET t == db.tokens[r.token]
        successor == db.tokens[t.next]
    IN IF ~Repeated(t, r) \/ successor.deleted \/ successor.used THEN {Refuse("conflict")}
       ELSE IF successor.revoked /\ r.key.op # "erase" THEN {Refuse("refused")}
       ELSE {Reply(db, "ok", t.next)}

Rotate(r) ==
    LET t == db.tokens[r.token]
    IN IF t.deleted THEN {Refuse("refused")}
       ELSE IF t.used THEN ReplayRotation(r)
       ELSE IF t.revoked THEN {Refuse("refused")}
       ELSE Spend(r)

\* The quota of the address, or a rule, may refuse before a handler changes anything.
Throttled == {Refuse("refused")}

Handle(r) ==
    Throttled \cup
    (CASE r.key.op = "hold" -> CreateHold(r)
       [] r.key.op = "release" -> ReleaseHold(r)
       [] r.key.op = "submit" -> Book(r)
       [] r.key.op = "queue" -> Queue(r)
       [] OTHER -> Rotate(r))

-----------------------------------------------------------------------------
(* The page.                                                               *)

\* A release is sent once, and nobody reads its answer.
Release(h) == IF h = 0 THEN {} ELSE {Request([op |-> "release", n |-> h], h, 0)}

Ready(op) ==
    CASE op = "hold" -> page.step = "search"
      [] op = "submit" -> page.step = "details" /\ page.mode = "booking" /\ page.hold # 0
      [] op = "queue" -> page.step = "details" /\ page.mode = "queue"
      [] OTHER -> page.step = "result" /\ page.mode = "booking" /\ page.cookie # 0

\* Requests that go on without a connection.
Leave(reqs) == late' = late \cup reqs /\ Cardinality(late') <= world.late

\* A press uses the key of the last attempt unless what it asks for has changed.
Press(op, changed) ==
    /\ op \in world.calls
    /\ Ready(op)
    /\ page.conn[SlotOf(op)] = Idle
    /\ changed => op \in {"hold", "submit", "queue", "edit"}
    /\ LET old == page.attempt[SlotOf(op)]
           fresh == changed \/ old.op # op
           key == IF fresh THEN [op |-> op, n |-> page.next] ELSE old
           req == Request(key, IF op = "submit" THEN page.hold ELSE 0,
                               IF op \in Manage THEN page.cookie ELSE 0)
       IN /\ fresh => page.next <= world.keys
          /\ page' = [page EXCEPT !.attempt[SlotOf(op)] = key,
                                  !.next = IF fresh THEN @ + 1 ELSE @,
                                  !.forgot = @ \/ (op = "edit" /\ fresh /\ old # NoKey),
                                  !.conn[SlotOf(op)] = [Idle EXCEPT !.phase = "sent", !.req = req]]
    /\ UNCHANGED <<world, db, late>>

JoinWaitlist ==
    /\ "queue" \in world.calls
    /\ page.step = "search"
    /\ page.conn["hold"] = Idle
    /\ page' = [page EXCEPT !.step = "details", !.mode = "queue"]
    /\ UNCHANGED <<world, db, late>>

BackToSearch ==
    /\ page.step = "details"
    /\ page.conn["submit"] = Idle
    /\ page' = [page EXCEPT !.step = "search", !.hold = 0]
    /\ Leave(Release(page.hold))
    /\ UNCHANGED <<world, db>>

\* The clock of the browser decides, also while the form is on its way.
HoldTimer ==
    /\ page.hold # 0
    /\ page' = [page EXCEPT !.hold = 0]
    /\ Leave(Release(page.hold))
    /\ UNCHANGED <<world, db>>

NewReservation ==
    /\ page.step = "result"
    /\ page' = [page EXCEPT !.step = "search", !.mode = "booking"]
    /\ UNCHANGED <<world, db, late>>

Pending == {s \in Slots : page.conn[s].phase = "sent"}

\* The page is closed and opened again, or comes back from the provider: its refs are gone.
Reload ==
    /\ \E step \in IF page.cookie = 0 THEN {"search"} ELSE {"search", "result"} :
         page' = [page EXCEPT !.step = step, !.mode = "booking", !.hold = 0,
                              !.attempt = [s \in Slots |-> NoKey],
                              !.conn = [s \in Slots |-> Idle],
                              !.forgot = @ \/ \E s \in Manage : page.attempt[s] # NoKey]
    /\ Leave(Release(page.hold) \cup {page.conn[s].req : s \in Pending})
    /\ UNCHANGED <<world, db>>

\* The answer of a handler, as the page takes it.
CookieOf(c) ==
    IF c.code # "ok" \/ c.req.key.op \in {"hold", "queue"} THEN page.cookie
    ELSE IF c.req.key.op = "erase" THEN 0 ELSE c.token

AfterHold(c) ==
    IF c.code = "ok" THEN [page EXCEPT !.hold = c.req.key.n, !.step = "details", !.mode = "booking"]
    ELSE IF c.code = "conflict" THEN [page EXCEPT !.attempt["hold"] = NoKey]
    ELSE page

AfterSubmit(c) ==
    IF c.code = "ok"
    THEN [page EXCEPT !.attempt["submit"] = NoKey, !.step = "result",
                      !.hold = IF page.mode = "booking" THEN 0 ELSE @]
    ELSE [page EXCEPT !.attempt["submit"] = IF c.code = "conflict" THEN NoKey ELSE @,
                      !.hold = IF page.mode = "booking" /\ c.code \in {"conflict", "gone"} THEN 0 ELSE @]

AfterManage(c) ==
    IF c.code = "ok" THEN [page EXCEPT !.attempt[c.req.key.op] = NoKey] ELSE page

After(s, c) ==
    CASE s = "hold" -> AfterHold(c) [] s = "submit" -> AfterSubmit(c) [] OTHER -> AfterManage(c)

Answer(s) ==
    LET c == page.conn[s]
    IN /\ c.phase = "answered"
       /\ page' = [After(s, c) EXCEPT !.conn[s] = Idle, !.cookie = CookieOf(c),
                                      !.forgot = @ /\ CookieOf(c) = page.cookie]
       /\ Leave(IF s = "submit" /\ c.code \in {"conflict", "gone"} /\ page.mode = "booking"
                THEN Release(page.hold) ELSE {})
       /\ UNCHANGED <<world, db>>

\* The connection breaks: before the server has read the request, which may still
\* arrive, before the answer, or between its headers, with the cookie, and its body.
Break(s) ==
    LET c == page.conn[s]
    IN /\ c.phase # "idle"
       /\ \E cookie \in {page.cookie} \cup (IF c.phase = "answered" THEN {CookieOf(c)} ELSE {}) :
            page' = [page EXCEPT !.conn[s] = Idle, !.cookie = cookie,
                                 !.forgot = @ /\ cookie = page.cookie]
       /\ Leave(IF c.phase = "sent" THEN {c.req} ELSE {})
       /\ UNCHANGED <<world, db>>

-----------------------------------------------------------------------------
(* The server, the network and the others.                                 *)

Serve(s) ==
    /\ page.conn[s].phase = "sent"
    /\ \E o \in Handle(page.conn[s].req) :
         /\ db' = o.db
         /\ page' = [page EXCEPT !.conn[s].phase = "answered", !.conn[s].code = o.code,
                                 !.conn[s].token = o.token]
    /\ UNCHANGED <<world, late>>

ServeLate(r) ==
    /\ \E o \in Handle(r) : db' = o.db
    /\ late' = late \ {r}
    /\ UNCHANGED <<world, page>>

HoldLapses ==
    /\ "Lapse" \in world.others
    /\ \E k \in Keys : /\ db.holds[k].state = "active"
                       /\ db' = [db EXCEPT !.holds[k].state = "lapsed"]
    /\ UNCHANGED <<world, page, late>>

PaymentFails ==
    /\ "PaymentFails" \in world.others
    /\ \E v \in DOMAIN db.visits :
         /\ db.visits[v].pay = "pending"
         /\ db' = [db EXCEPT !.visits[v].pay = "failed"]
    /\ UNCHANGED <<world, page, late>>

OperatorEdits ==
    /\ "Edit" \in world.others
    /\ \E v \in DOMAIN db.visits :
         /\ Active(db.visits[v])
         /\ db.visits[v].by = "guest"
         /\ db' = [db EXCEPT !.visits[v].by = "operator"]
    /\ UNCHANGED <<world, page, late>>

OperatorCancels ==
    /\ "Cancel" \in world.others
    /\ \E v \in DOMAIN db.visits :
         /\ Active(db.visits[v])
         /\ db' = [db EXCEPT !.visits[v].status = "cancelled"]
    /\ UNCHANGED <<world, page, late>>

OperatorErases ==
    /\ "Erase" \in world.others
    /\ \E v \in DOMAIN db.visits : db.visits[v].personal /\ db' = Erased(db, v, {})
    /\ UNCHANGED <<world, page, late>>

Init ==
    /\ world \in Worlds
    /\ late = {}
    /\ page = [step |-> IF world.booked THEN "result" ELSE "search", mode |-> "booking", hold |-> 0,
               cookie |-> IF world.booked THEN 1 ELSE 0, next |-> IF world.booked THEN 2 ELSE 1,
               attempt |-> [s \in Slots |-> NoKey], conn |-> [s \in Slots |-> Idle], forgot |-> FALSE]
    /\ LET t == CHOOSE x \in Tables : TRUE
           pay == IF "pay" \in world.calls THEN "failed" ELSE "none"
       IN db = [holds |-> [k \in Keys |-> IF world.booked /\ k = 1
                                         THEN [state |-> "consumed", table |-> t, visit |-> 1] ELSE NoHold],
               records |-> [k \in Keys |-> IF world.booked /\ k = 1 THEN 1 ELSE 0],
               visits |-> IF world.booked THEN <<Visit(1, 1, t, pay)>> ELSE <<>>,
               tokens |-> IF world.booked THEN <<Token(1)>> ELSE <<>>,
               waits |-> [k \in Keys |-> 0]]

Next ==
    \/ \E op \in Calls, changed \in BOOLEAN : Press(op, changed)
    \/ JoinWaitlist \/ BackToSearch \/ HoldTimer \/ NewReservation \/ Reload
    \/ \E s \in Slots : Serve(s) \/ Answer(s) \/ Break(s)
    \/ \E r \in late : ServeLate(r)
    \/ HoldLapses \/ PaymentFails \/ OperatorEdits \/ OperatorCancels \/ OperatorErases

Spec == Init /\ [][Next]_vars

-----------------------------------------------------------------------------
(* Properties.                                                             *)

\* However often a form is sent, changed and sent again, and whenever its copies
\* arrive, a hold becomes one visit, a submission one visit or one entry of the
\* waiting list (reservation_service.py 1561-1627, main.py 8487-8494, 9088-9105).
OneVisitPerSubmission ==
    /\ \A u, v \in DOMAIN db.visits :
         (u # v /\ db.visits[u].personal /\ db.visits[v].personal)
           => db.visits[u].hold # db.visits[v].hold /\ db.visits[u].key # db.visits[v].key
    /\ \A k \in Keys : db.waits[k] <= 1

Answers(token, key) ==
    \E o \in Rotate(Request(key, 0, token)) : o.code = "ok" /\ Live(o.db.tokens[o.token])

\* A guest whose page still remembers what it asked for is never locked out: either its
\* cookie is the live token, or repeating one of the open requests answers with it; and
\* repeating a submission that was booked answers with the first one
\* (the docstring of reservation_service.py 596-600).
RepetitionSucceeds ==
    /\ (page.cookie # 0 /\ ~page.forgot /\ db.visits[db.tokens[page.cookie].visit].personal)
         => \/ Live(db.tokens[page.cookie])
            \/ \E s \in Manage : page.attempt[s] # NoKey /\ Answers(page.cookie, page.attempt[s])
    /\ LET key == page.attempt["submit"]
       IN (key.op = "submit" /\ page.cookie = 0 /\ db.records[key.n] # 0)
            => ReplayBooking(db.records[key.n]).code = "ok"

\* Nobody reaches a visit whose personal data has been erased: no link opens it, and no
\* hold or recorded submission leads to it, whatever request is still under way.
ErasedHasNoWayBack ==
    \A v \in DOMAIN db.visits : ~db.visits[v].personal =>
      /\ \A i \in DOMAIN db.tokens : db.tokens[i].visit = v => ~Live(db.tokens[i])
      /\ \A k \in Keys : db.records[k] # v /\ db.holds[k].visit # v

\* A copy of a request that arrives late does not undo what an operator has changed
\* since: the guest's change spends a token, once.
ChangeSpendsToken ==
    [][\A v \in DOMAIN db.visits :
         (db.visits[v].by # "guest" /\ db'.visits[v].by = "guest")
           => \E i \in DOMAIN db.tokens : Live(db.tokens[i]) /\ db'.tokens[i].used]_vars
=============================================================================
