------------------------- MODULE GuestRequests_proofs -------------------------
(***************************************************************************)
(* Proofs about GuestRequests, for every set of tables and every number of *)
(* intents, visits, tokens and requests under way.                         *)
(*                                                                         *)
(* The rows of the server agree by themselves, whatever the page sends     *)
(* (RowsOK).  That a guest is not locked out is a matter of who knows      *)
(* which token (LinksOK): the successor of a spent token is carried by no  *)
(* request until the page has it in its cookie, and until then the page    *)
(* remembers the key that the predecessor was spent for.                   *)
(***************************************************************************)
EXTENDS GuestRequests, SequenceTheorems, TLAPS

-----------------------------------------------------------------------------
(* The inductive invariant.                                                 *)

KeyRows == [op : Calls \cup {"none", "release"}, n : 0..MaxKeys]
RequestRows == [key : KeyRows, hold : 0..MaxKeys, token : Nat]
AnyTable == Tables \cup {0, CHOOSE x \in Tables : TRUE}
HoldRows == [state : HoldStates, table : AnyTable, visit : Nat]
VisitRows == [hold : Keys, key : Keys, table : AnyTable, status : {"new", "confirmed", "cancelled"},
              personal : BOOLEAN, pay : {"none", "pending", "failed"}, by : {"nobody", "guest", "operator"}]
TokenRows == [visit : Nat, used : BOOLEAN, for : KeyRows, next : Nat, revoked : BOOLEAN, deleted : BOOLEAN]
ConnRows == [phase : {"idle", "sent", "answered"}, req : RequestRows,
             code : {"none", "ok", "conflict", "gone", "refused"}, token : Nat]

DbRows == [holds : [Keys -> HoldRows], records : [Keys -> Nat], visits : Seq(VisitRows),
           tokens : Seq(TokenRows), waits : [Keys -> 0..1]]
PageRows == [step : {"search", "details", "result"}, mode : {"booking", "queue"}, hold : 0..MaxKeys,
             cookie : Nat, next : 1..(MaxKeys + 1), attempt : [Slots -> KeyRows],
             conn : [Slots -> ConnRows], forgot : BOOLEAN]

\* A visit with its personal data has its hold and its record to itself; nothing leads
\* to one without them.
Known(d, v) ==
    /\ d.records[d.visits[v].key] = v
    /\ d.holds[d.visits[v].hold].state = "consumed" /\ d.holds[d.visits[v].hold].visit = v
Forgotten(d, v) ==
    /\ \A i \in 1..Len(d.tokens) : d.tokens[i].visit = v => ~Live(d.tokens[i])
    /\ \A k \in Keys : d.records[k] # v /\ d.holds[k].visit # v
VisitOK(d, v) == IF d.visits[v].personal THEN Known(d, v) ELSE Forgotten(d, v)
VisitsOK(d) ==
    /\ \A k \in Keys : d.records[k] <= Len(d.visits)
    /\ \A v \in 1..Len(d.visits) : VisitOK(d, v)

\* The tokens of a visit are one chain, from its root to the one that is not used.
Root(d, i) == \A j \in 1..Len(d.tokens) : d.tokens[j].next # i
TokenOK(d, i) ==
    /\ d.tokens[i].visit \in 1..Len(d.visits)
    /\ IF d.tokens[i].used
       THEN /\ d.tokens[i].next \in 1..Len(d.tokens)
            /\ d.tokens[d.tokens[i].next].visit = d.tokens[i].visit
            /\ d.tokens[i].for.op \in Manage
       ELSE d.tokens[i].next = 0
    /\ d.visits[d.tokens[i].visit].personal => ~d.tokens[i].revoked /\ ~d.tokens[i].deleted
NoFork(d) ==
    \A i, j \in 1..Len(d.tokens) : d.tokens[i].used /\ d.tokens[j].next = d.tokens[i].next => j = i
OneRoot(d, v) ==
    \E i \in 1..Len(d.tokens) :
       /\ d.tokens[i].visit = v /\ Root(d, i)
       /\ \A j \in 1..Len(d.tokens) : d.tokens[j].visit = v /\ Root(d, j) => j = i
TokensOK(d) ==
    /\ \A i \in 1..Len(d.tokens) : TokenOK(d, i)
    /\ NoFork(d)
    /\ \A v \in 1..Len(d.visits) : OneRoot(d, v)

RowsOK(d) == d \in DbRows /\ VisitsOK(d) /\ TokensOK(d)

\* Requests under way: known keys, and what their handlers look up exists.
Flight(p, l) == l \cup {p.conn[s].req : s \in {x \in Slots : p.conn[x].phase = "sent"}}

RequestOK(r, p, d) ==
    /\ r \in RequestRows /\ r.key.op # "none" /\ r.key.n \in Keys /\ r.key.n < p.next
    /\ r.key.op \in {"submit", "release"} => r.hold \in Keys
    /\ IF r.key.op \in Manage THEN r.token \in 1..Len(d.tokens) ELSE r.token = 0

\* The page knows the key of every connection, and has none for a form it has left.
SlotOK(p, s) ==
    /\ p.attempt[s] = NoKey \/ (SlotOf(p.attempt[s].op) = s /\ p.attempt[s].n \in Keys /\ p.attempt[s].n < p.next)
    /\ IF p.conn[s].phase = "idle" THEN p.conn[s] = Idle
       ELSE p.conn[s].req.key = p.attempt[s] /\ p.attempt[s] # NoKey
PageOK(p) ==
    /\ p \in PageRows /\ p.hold < p.next
    /\ \A s \in Slots : SlotOK(p, s)
    /\ p.step = "result" => p.attempt["submit"] = NoKey

\* Nobody can spend this token before the page has it.
Secret(F, d, i) == ~d.tokens[i].used /\ \A r \in F : r.token # i

\* The request of the slot has spent its token, maybe unknown to the page.
Spending(p, s) == p.conn[s].phase = "sent" \/ (p.conn[s].phase = "answered" /\ p.conn[s].code = "ok")
SpentFor(d, r) == d.tokens[r.token].used /\ d.tokens[r.token].for = r.key

ManageOK(p, F, d, s) ==
    /\ Spending(p, s) =>
         /\ p.conn[s].req.token \in 1..Len(d.tokens)
         /\ SpentFor(d, p.conn[s].req) =>
              /\ Secret(F, d, d.tokens[p.conn[s].req.token].next)
              /\ d.tokens[p.conn[s].req.token].next # p.cookie
    /\ p.conn[s].phase = "answered" /\ p.conn[s].code = "ok" =>
         SpentFor(d, p.conn[s].req) /\ p.conn[s].token = d.tokens[p.conn[s].req.token].next

SubmitOK(p, F, d) ==
    /\ p.attempt["submit"].op = "submit" /\ d.records[p.attempt["submit"].n] # 0
       => \A i \in 1..Len(d.tokens) :
            d.tokens[i].visit = d.records[p.attempt["submit"].n] /\ Root(d, i) => Secret(F, d, i)
    /\ p.conn["submit"].phase = "answered" /\ p.conn["submit"].code = "ok" /\ p.attempt["submit"].op = "submit"
       => LET i == p.conn["submit"].token
          IN i \in 1..Len(d.tokens) /\ Root(d, i) /\ Secret(F, d, i)

CookieOK(p, F, d) ==
    p.cookie # 0 =>
      /\ p.cookie \in 1..Len(d.tokens)
      /\ d.tokens[p.cookie].used => Secret(F, d, d.tokens[p.cookie].next)
      /\ ~p.forgot =>
           /\ \A r \in F : r.token = p.cookie => p.attempt[r.key.op] = r.key
           /\ d.tokens[p.cookie].used => p.attempt[d.tokens[p.cookie].for.op] = d.tokens[p.cookie].for

LinksOK(p, F, d) ==
    /\ \A r \in F : RequestOK(r, p, d)
    /\ \A k \in Keys : k >= p.next => d.records[k] = 0
    /\ \A s \in Manage : ManageOK(p, F, d, s)
    /\ SubmitOK(p, F, d)
    /\ CookieOK(p, F, d)

IInv ==
    /\ world \in Worlds
    /\ RowsOK(db)
    /\ PageOK(page)
    /\ LinksOK(page, Flight(page, late), db)
    /\ page.cookie = 0 \/ page.cookie \in 1..Len(db.tokens)

-----------------------------------------------------------------------------
(* What a handler does to the rows, as far as the others can see.           *)

\* The links of a token, all that requests and the page depend on.
SameLinks(t, u) == t.visit = u.visit /\ t.used = u.used /\ t.for = u.for /\ t.next = u.next

LinksStay(d, e) ==
    /\ Len(e.tokens) = Len(d.tokens)
    /\ \A i \in 1..Len(d.tokens) : SameLinks(d.tokens[i], e.tokens[i])
    /\ \A k \in Keys : e.records[k] \in {d.records[k], 0}

\* The root of a new visit.
LinkRooted(d, e, r) ==
    /\ r.key.op = "submit"
    /\ e.tokens = Append(d.tokens, Token(Len(d.visits) + 1))
    /\ Len(e.visits) = Len(d.visits) + 1
    /\ e.records = [d.records EXCEPT ![r.key.n] = Len(d.visits) + 1]

\* The token of the request, and its successor.
LinkSpent(d, e, r) ==
    /\ r.key.op \in Manage
    /\ Live(d.tokens[r.token])
    /\ Len(e.tokens) = Len(d.tokens) + 1
    /\ \A i \in 1..Len(d.tokens) : i # r.token => SameLinks(d.tokens[i], e.tokens[i])
    /\ LET t == e.tokens[r.token]
           u == e.tokens[Len(d.tokens) + 1]
       IN /\ t.used /\ t.for = r.key /\ t.next = Len(d.tokens) + 1 /\ t.visit = d.tokens[r.token].visit
          /\ ~u.used /\ u.next = 0 /\ u.visit = d.tokens[r.token].visit
    /\ \A k \in Keys : e.records[k] \in {d.records[k], 0}

Moved(d, e, r) == LinksStay(d, e) \/ LinkRooted(d, e, r) \/ LinkSpent(d, e, r)

\* The guest's mark on a visit is new only where a token has been spent.
MarkedBySpending(d, e) ==
    \A v \in 1..Len(d.visits) :
      (d.visits[v].by # "guest" /\ e.visits[v].by = "guest")
        => \E i \in 1..Len(d.tokens) : Live(d.tokens[i]) /\ e.tokens[i].used

\* A sequence with one element replaced.
LEMMA OneReplaced ==
    ASSUME NEW S, NEW q \in Seq(S), NEW i \in 1..Len(q), NEW x \in S
    PROVE  /\ [q EXCEPT ![i] = x] \in Seq(S) /\ Len([q EXCEPT ![i] = x]) = Len(q)
           /\ [q EXCEPT ![i] = x][i] = x
           /\ \A j \in 1..Len(q) : j # i => [q EXCEPT ![i] = x][j] = q[j]
BY ExceptSeq

\* A token's link is 0 or a token.
LEMMA NextIsToken ==
    ASSUME NEW d, NEW i, TokenOK(d, i)
    PROVE  TokenOK(d, i) /\ d.tokens[i].next \in 0..Len(d.tokens)
<1>1. d.tokens[i].used => d.tokens[i].next \in 1..Len(d.tokens)
  BY DEF TokenOK
<1>2. ~d.tokens[i].used => d.tokens[i].next = 0
  BY DEF TokenOK
<1>. QED
  BY <1>1, <1>2

LEMMA FunctionIsSeq ==
    ASSUME NEW S, NEW n \in Nat, NEW f, f = [i \in 1..n |-> f[i]], \A i \in 1..n : f[i] \in S
    PROVE  f \in Seq(S) /\ Len(f) = n
<1>1. f \in [1..n -> S]
  OBVIOUS
<1>. QED
  BY <1>1

LEMMA RowFacts ==
    ASSUME NEW d, d \in DbRows
    PROVE  /\ d.holds \in [Keys -> HoldRows] /\ d.records \in [Keys -> Nat]
           /\ d.visits \in Seq(VisitRows) /\ d.tokens \in Seq(TokenRows) /\ d.waits \in [Keys -> 0..1]
           /\ Len(d.visits) \in Nat /\ Len(d.tokens) \in Nat
           /\ DOMAIN d.visits = 1..Len(d.visits) /\ DOMAIN d.tokens = 1..Len(d.tokens)
           /\ \A k \in Keys : d.holds[k] \in HoldRows /\ d.records[k] \in Nat /\ d.waits[k] \in 0..1
           /\ \A v \in 1..Len(d.visits) : d.visits[v] \in VisitRows
           /\ \A i \in 1..Len(d.tokens) : d.tokens[i] \in TokenRows
<1>1. /\ d.holds \in [Keys -> HoldRows] /\ d.records \in [Keys -> Nat]
      /\ d.visits \in Seq(VisitRows) /\ d.tokens \in Seq(TokenRows) /\ d.waits \in [Keys -> 0..1]
  BY DEF DbRows
<1>2. /\ Len(d.visits) \in Nat /\ DOMAIN d.visits = 1..Len(d.visits)
      /\ \A v \in 1..Len(d.visits) : d.visits[v] \in VisitRows
  BY <1>1
<1>3. /\ Len(d.tokens) \in Nat /\ DOMAIN d.tokens = 1..Len(d.tokens)
      /\ \A i \in 1..Len(d.tokens) : d.tokens[i] \in TokenRows
  BY <1>1
<1>4. \A k \in Keys : d.holds[k] \in HoldRows /\ d.records[k] \in Nat /\ d.waits[k] \in 0..1
  BY <1>1
<1>. QED
  BY <1>1, <1>2, <1>3, <1>4

\* Only the holds or the entries of the waiting list change.
LEMMA HoldsMove ==
    ASSUME NEW d, RowsOK(d), NEW e \in DbRows,
           e.records = d.records, e.visits = d.visits, e.tokens = d.tokens,
           \A k \in Keys : /\ e.holds[k].visit \in {d.holds[k].visit, 0}
                           /\ d.holds[k].state = "consumed" => e.holds[k] = d.holds[k]
    PROVE  RowsOK(e) /\ LinksStay(d, e) /\ MarkedBySpending(d, e)
<1>1. d \in DbRows /\ VisitsOK(d) /\ TokensOK(d)
  BY DEF RowsOK
<1>. USE RowFacts
<1>2. e.records = d.records /\ e.visits = d.visits /\ e.tokens = d.tokens
  OBVIOUS
<1>3. VisitsOK(e)
  <2>1. \A k \in Keys : e.records[k] <= Len(e.visits)
    BY <1>1, <1>2 DEF VisitsOK
  <2>2. ASSUME NEW v \in 1..Len(e.visits), e.visits[v].personal
        PROVE  Known(e, v)
    <3>1. Known(d, v)
      BY <1>1, <1>2, <2>2 DEF VisitsOK, VisitOK
    <3>2. d.visits[v].hold \in Keys
      BY <1>1, <1>2 DEF VisitRows
    <3>. QED
      BY <1>2, <3>1, <3>2 DEF Known
  <2>3. ASSUME NEW v \in 1..Len(e.visits), ~e.visits[v].personal
        PROVE  Forgotten(e, v)
    <3>1. Forgotten(d, v)
      BY <1>1, <1>2, <2>3 DEF VisitsOK, VisitOK
    <3>2. v # 0
      BY <1>1, <1>2
    <3>. QED
      BY <1>2, <3>1, <3>2 DEF Forgotten
  <2>. QED
    BY <2>1, <2>2, <2>3 DEF VisitsOK, VisitOK
<1>4. TokensOK(e)
  BY <1>1, <1>2 DEF TokensOK, TokenOK, NoFork, OneRoot, Root
<1>5. LinksStay(d, e) /\ MarkedBySpending(d, e)
  BY <1>1, <1>2 DEF LinksStay, SameLinks, MarkedBySpending
<1>. QED
  BY <1>2, <1>3, <1>4, <1>5 DEF RowsOK

\* What an operation leaves of a visit: its hold, its key and its personal data.
SameVisit(x, y) == x.hold = y.hold /\ x.key = y.key /\ x.personal = y.personal

LEMMA VisitMove ==
    ASSUME NEW d, RowsOK(d), NEW v \in 1..Len(d.visits), NEW x \in VisitRows, SameVisit(d.visits[v], x),
           NEW e \in DbRows, e.records = d.records, e.holds = d.holds, e.tokens = d.tokens,
           e.visits = [d.visits EXCEPT ![v] = x]
    PROVE  /\ RowsOK(e) /\ LinksStay(d, e)
           /\ (x.by = "guest" => d.visits[v].by = "guest") => MarkedBySpending(d, e)
<1>1. d \in DbRows /\ VisitsOK(d) /\ TokensOK(d)
  BY DEF RowsOK
<1>. USE RowFacts
<1>2. e.records = d.records /\ e.holds = d.holds /\ e.tokens = d.tokens
  OBVIOUS
<1>3. /\ Len(e.visits) = Len(d.visits) /\ e.visits[v] = x
      /\ \A u \in 1..Len(d.visits) : u # v => e.visits[u] = d.visits[u]
  BY <1>1, <1>2
<1>4. \A u \in 1..Len(d.visits) : SameVisit(d.visits[u], e.visits[u])
  BY <1>3 DEF SameVisit
<1>5. VisitsOK(e)
  <2>1. ASSUME NEW u \in 1..Len(d.visits)
        PROVE  VisitOK(e, u)
    <3>1. VisitOK(d, u) /\ SameVisit(d.visits[u], e.visits[u])
      BY <1>1, <1>4 DEF VisitsOK
    <3>. QED
      BY <1>2, <3>1 DEF VisitOK, Known, Forgotten, SameVisit
  <2>. QED
    BY <1>1, <1>2, <1>3, <2>1 DEF VisitsOK
<1>6. TokensOK(e)
  <2>1. ASSUME NEW i \in 1..Len(e.tokens)
        PROVE  TokenOK(e, i)
    <3>1. TokenOK(d, i)
      BY <1>1, <1>2, <2>1 DEF TokensOK
    <3>2. d.visits[d.tokens[i].visit].personal = e.visits[d.tokens[i].visit].personal
      BY <1>4, <3>1 DEF TokenOK, SameVisit
    <3>. QED
      BY <1>2, <1>3, <3>1, <3>2 DEF TokenOK
  <2>. QED
    <3>1. NoFork(e)
      BY <1>1, <1>2 DEF TokensOK, NoFork
    <3>2. ASSUME NEW u \in 1..Len(e.visits)
          PROVE  OneRoot(e, u)
      <4>1. OneRoot(d, u)
        BY <1>1, <1>3 DEF TokensOK
      <4>2. \A i : Root(e, i) <=> Root(d, i)
        BY <1>2 DEF Root
      <4>. QED
        BY <1>2, <4>1, <4>2 DEF OneRoot
    <3>. QED
      BY <2>1, <3>1, <3>2 DEF TokensOK
<1>7. LinksStay(d, e)
  BY <1>1, <1>2 DEF LinksStay, SameLinks
<1>8. (x.by = "guest" => d.visits[v].by = "guest") => MarkedBySpending(d, e)
  BY <1>3 DEF MarkedBySpending
<1>. QED
  BY <1>2, <1>3, <1>5, <1>6, <1>7, <1>8 DEF RowsOK

\* A visit is booked: its hold, its record and its root appear together.
LEMMA BookedMove ==
    ASSUME NEW d, RowsOK(d), NEW r \in RequestRows, r.key.op = "submit", r.key.n \in Keys, r.hold \in Keys,
           d.records[r.key.n] = 0, d.holds[r.hold].state = "active",
           NEW x \in VisitRows, x.hold = r.hold, x.key = r.key.n, x.personal, x.by = "nobody",
           NEW e \in DbRows, e.holds[r.hold].state = "consumed", e.holds[r.hold].visit = Len(d.visits) + 1,
           \A k \in Keys : k # r.hold => e.holds[k] = d.holds[k],
           e.visits = Append(d.visits, x),
           e.tokens = Append(d.tokens, Token(Len(d.visits) + 1)),
           e.records = [d.records EXCEPT ![r.key.n] = Len(d.visits) + 1]
    PROVE  RowsOK(e) /\ LinkRooted(d, e, r) /\ MarkedBySpending(d, e)
<1>. DEFINE V == Len(d.visits) + 1
            N == Len(d.tokens) + 1
<1>1. d \in DbRows /\ VisitsOK(d) /\ TokensOK(d)
  BY DEF RowsOK
<1>. USE RowFacts
<1>2. V \in Nat /\ N \in Nat /\ V > 0 /\ N > 0
  BY <1>1
<1>4. Token(V) \in TokenRows /\ Token(V).visit = V /\ ~Token(V).used /\ Token(V).next = 0
      /\ ~Token(V).revoked /\ ~Token(V).deleted
  BY <1>2, GuestAssumption DEF Token, TokenRows, KeyRows
<1>5. e.records \in [Keys -> Nat] /\ e.records[r.key.n] = V
      /\ \A k \in Keys : k # r.key.n => e.records[k] = d.records[k]
  BY <1>1, <1>2
<1>9. /\ Append(d.visits, x) \in Seq(VisitRows) /\ Len(Append(d.visits, x)) = V
      /\ \A v \in 1..Len(d.visits) : Append(d.visits, x)[v] = d.visits[v]
      /\ Append(d.visits, x)[V] = x
  BY <1>1, AppendProperties
<1>10. /\ Append(d.tokens, Token(V)) \in Seq(TokenRows) /\ Len(Append(d.tokens, Token(V))) = N
       /\ \A i \in 1..Len(d.tokens) : Append(d.tokens, Token(V))[i] = d.tokens[i]
       /\ Append(d.tokens, Token(V))[N] = Token(V)
  BY <1>1, <1>4, AppendProperties
<1>12. /\ Len(e.visits) = V /\ \A v \in 1..V : v \in 1..Len(d.visits) \/ v = V
       /\ Len(e.tokens) = N /\ \A i \in 1..N : i \in 1..Len(d.tokens) \/ i = N
  BY <1>1, <1>2, <1>9, <1>10, SMTT(30)
<1>13. /\ \A v \in 1..Len(d.visits) : e.visits[v] = d.visits[v] /\ v # V
       /\ e.visits[V] = x
       /\ \A i \in 1..Len(d.tokens) : e.tokens[i] = d.tokens[i] /\ i # N
       /\ e.tokens[N] = Token(V)
  BY <1>1, <1>2, <1>9, <1>10
<1>14. \A k \in Keys : d.records[k] < V
  BY <1>1 DEF VisitsOK
<1>15. VisitsOK(e)
  <2>1. \A k \in Keys : e.records[k] <= Len(e.visits)
    BY <1>1, <1>2, <1>5, <1>12, <1>14
  <2>2. ASSUME NEW v \in 1..Len(d.visits), e.visits[v].personal
        PROVE  Known(e, v)
    <3>1. Known(d, v)
      BY <1>1, <1>13, <2>2 DEF VisitsOK, VisitOK
    <3>2. d.visits[v].hold \in Keys /\ d.visits[v].key \in Keys
      BY <1>1 DEF VisitRows
    <3>3. d.visits[v].hold # r.hold /\ d.visits[v].key # r.key.n
      BY <1>1, <3>1, SMTT(30) DEF Known
    <3>. QED
      BY <1>5, <1>13, <3>1, <3>2, <3>3, SMTT(30) DEF Known
  <2>3. ASSUME NEW v \in 1..Len(d.visits), ~e.visits[v].personal
        PROVE  Forgotten(e, v)
    <3>1. Forgotten(d, v)
      BY <1>1, <1>13, <2>3 DEF VisitsOK, VisitOK
    <3>2. v # V
      BY <1>13
    <3>3. ASSUME NEW k \in Keys
          PROVE  e.records[k] # v /\ e.holds[k].visit # v
      BY <1>5, <3>1, <3>2 DEF Forgotten
    <3>4. \A i \in 1..N : e.tokens[i].visit = v => ~Live(e.tokens[i])
      BY <1>4, <1>12, <1>13, <3>1, <3>2 DEF Forgotten
    <3>5. 1..Len(e.tokens) = 1..N
      BY <1>12
    <3>. QED
      BY <3>3, <3>4, <3>5, Zenon DEF Forgotten
  <2>4. e.visits[V].personal /\ Known(e, V)
    BY <1>5, <1>13 DEF Known
  <2>5. \A v \in 1..V : VisitOK(e, v)
    BY <1>12, <2>2, <2>3, <2>4 DEF VisitOK
  <2>6. \A v \in 1..Len(e.visits) : VisitOK(e, v)
    BY <1>12, <2>5
  <2>. QED
    BY <2>1, <2>6 DEF VisitsOK
<1>16. \A i \in 1..Len(d.tokens) : TokenOK(d, i) /\ d.tokens[i].next \in 0..Len(d.tokens)
  BY <1>1 DEF TokensOK, TokenOK
<1>17. \A i \in 1..Len(d.tokens) : Root(e, i) <=> Root(d, i)
  BY <1>2, <1>4, <1>12, <1>13 DEF Root
<1>18. Root(e, N)
  BY <1>1, <1>2, <1>4, <1>12, <1>13, <1>16 DEF Root
<1>19. TokensOK(e)
  <2>1. ASSUME NEW i \in 1..Len(d.tokens)
        PROVE  TokenOK(e, i)
    <3>1. TokenOK(d, i) /\ e.tokens[i] = d.tokens[i]
      BY <1>13, <1>16
    <3>2. e.visits[d.tokens[i].visit] = d.visits[d.tokens[i].visit] /\ d.tokens[i].visit \in 1..V
      <4>1. d.tokens[i].visit \in 1..Len(d.visits)
        BY <3>1 DEF TokenOK
      <4>. QED
        BY <1>1, <1>13, <4>1
    <3>3. d.tokens[i].used => e.tokens[d.tokens[i].next] = d.tokens[d.tokens[i].next] /\ d.tokens[i].next \in 1..N
      BY <1>1, <1>13, <3>1 DEF TokenOK
    <3>. QED
      BY <1>12, <3>1, <3>2, <3>3, SMTT(30) DEF TokenOK
  <2>2. TokenOK(e, N)
    BY <1>2, <1>4, <1>12, <1>13 DEF TokenOK
  <2>3. ASSUME NEW i \in 1..Len(e.tokens), NEW j \in 1..Len(e.tokens),
               e.tokens[i].used, e.tokens[j].next = e.tokens[i].next
        PROVE  j = i
    <3>1. i \in 1..Len(d.tokens) /\ d.tokens[i].used /\ e.tokens[i] = d.tokens[i] /\ d.tokens[i].next # 0
      BY <1>1, <1>4, <1>12, <1>13, <1>16, <2>3, SMTT(30) DEF TokenOK
    <3>2. j \in 1..Len(d.tokens) /\ e.tokens[j] = d.tokens[j]
      BY <1>4, <1>12, <1>13, <2>3, <3>1
    <3>. QED
      BY <1>1, <2>3, <3>1, <3>2 DEF TokensOK, NoFork
  <2>4. ASSUME NEW v \in 1..Len(d.visits)
        PROVE  OneRoot(e, v)
    <3>1. PICK i \in 1..Len(d.tokens) :
                 /\ d.tokens[i].visit = v /\ Root(d, i)
                 /\ \A j \in 1..Len(d.tokens) : d.tokens[j].visit = v /\ Root(d, j) => j = i
      BY <1>1 DEF TokensOK, OneRoot
    <3>2. i \in 1..N /\ e.tokens[i].visit = v /\ Root(e, i)
      BY <1>1, <1>13, <1>17, <3>1
    <3>3. \A j \in 1..N : e.tokens[j].visit = v /\ Root(e, j) => j = i
      BY <1>4, <1>12, <1>13, <1>17, <3>1
    <3>. QED
      BY <1>12, <3>2, <3>3 DEF OneRoot
  <2>5. OneRoot(e, V)
    <3>1. \A j \in 1..Len(d.tokens) : e.tokens[j].visit # V
      BY <1>1, <1>13, <1>16 DEF TokenOK
    <3>2. N \in 1..N /\ e.tokens[N].visit = V /\ Root(e, N)
      BY <1>2, <1>4, <1>13, <1>18
    <3>3. \A j \in 1..N : e.tokens[j].visit = V => j = N
      BY <1>12, <3>1
    <3>4. N \in 1..Len(e.tokens)
          /\ \A j \in 1..Len(e.tokens) : e.tokens[j].visit = V /\ Root(e, j) => j = N
      BY <1>12, <3>2, <3>3
    <3>. QED
      BY <3>2, <3>4 DEF OneRoot
  <2>6. NoFork(e)
    BY <2>3 DEF NoFork
  <2>. QED
    BY <1>12, <2>1, <2>2, <2>4, <2>5, <2>6 DEF TokensOK
<1>20. LinkRooted(d, e, r)
  BY <1>12 DEF LinkRooted
<1>21. MarkedBySpending(d, e)
  BY <1>13 DEF MarkedBySpending
<1>. QED
  BY <1>15, <1>19, <1>20, <1>21 DEF RowsOK

\* The personal data of a visit are erased, and what leads to it with them.
LEMMA EraseMove ==
    ASSUME NEW d, RowsOK(d), NEW v \in 1..Len(d.visits), NEW e \in DbRows,
           Len(e.visits) = Len(d.visits), ~e.visits[v].personal,
           \A u \in 1..Len(d.visits) : u # v => e.visits[u] = d.visits[u],
           Len(e.tokens) = Len(d.tokens),
           \A i \in 1..Len(d.tokens) :
              /\ SameLinks(d.tokens[i], e.tokens[i])
              /\ IF d.tokens[i].visit = v THEN ~Live(e.tokens[i]) ELSE e.tokens[i] = d.tokens[i],
           \A k \in Keys : /\ e.records[k] = IF d.records[k] = v THEN 0 ELSE d.records[k]
                           /\ e.holds[k] = IF d.holds[k].visit = v THEN NoHold ELSE d.holds[k]
    PROVE  RowsOK(e) /\ LinksStay(d, e)
<1>1. d \in DbRows /\ VisitsOK(d) /\ TokensOK(d)
  BY DEF RowsOK
<1>0. Len(d.visits) \in Nat /\ Len(d.tokens) \in Nat
  BY <1>1, RowFacts
<1>. USE <1>0
<1>2. v # 0 /\ NoHold.visit = 0
  BY DEF NoHold
<1>3. \A k \in Keys : e.records[k] # v /\ e.records[k] \in {d.records[k], 0}
  BY <1>2
<1>4. \A k \in Keys : e.holds[k].visit # v /\ (d.holds[k].visit # v => e.holds[k] = d.holds[k])
  BY <1>2
<1>5. VisitsOK(e)
  <2>1. ASSUME NEW k \in Keys
        PROVE  e.records[k] <= Len(e.visits)
    BY <1>1, <1>3 DEF VisitsOK
  <2>2. VisitOK(e, v)
    BY <1>3, <1>4 DEF VisitOK, Forgotten, SameLinks
  <2>3. ASSUME NEW u \in 1..Len(d.visits), u # v, e.visits[u].personal
        PROVE  Known(e, u)
    <3>1. Known(d, u)
      BY <1>1, <2>3 DEF VisitsOK, VisitOK
    <3>2. d.visits[u].hold \in Keys /\ d.visits[u].key \in Keys
      BY <1>1, RowFacts DEF VisitRows
    <3>. QED
      BY <1>4, <2>3, <3>1, <3>2, SMTT(30) DEF Known
  <2>4. ASSUME NEW u \in 1..Len(d.visits), u # v, ~e.visits[u].personal
        PROVE  Forgotten(e, u)
    <3>1. Forgotten(d, u) /\ u # 0
      BY <1>1, <2>4 DEF VisitsOK, VisitOK
    <3>2. \A k \in Keys : e.records[k] # u
      BY <1>3, <3>1 DEF Forgotten
    <3>3. \A k \in Keys : e.holds[k].visit # u
      BY <1>2, <3>1 DEF Forgotten
    <3>4. \A i \in 1..Len(e.tokens) : e.tokens[i].visit = u => ~Live(e.tokens[i])
      BY <2>4, <3>1 DEF Forgotten, SameLinks
    <3>. QED
      BY <3>2, <3>3, <3>4 DEF Forgotten
  <2>5. \A u \in 1..Len(e.visits) : VisitOK(e, u)
    BY <2>2, <2>3, <2>4 DEF VisitOK
  <2>. QED
    BY <2>1, <2>5 DEF VisitsOK
<1>6. TokensOK(e)
  <2>1. \A i : Root(e, i) <=> Root(d, i)
    BY DEF Root, SameLinks
  <2>2. NoFork(e)
    BY <1>1 DEF TokensOK, NoFork, SameLinks
  <2>3. ASSUME NEW u \in 1..Len(d.visits)
        PROVE  OneRoot(e, u)
    <3>1. OneRoot(d, u)
      BY <1>1 DEF TokensOK
    <3>2. \A i \in 1..Len(d.tokens) : e.tokens[i].visit = d.tokens[i].visit
      BY DEF SameLinks
    <3>. QED
      BY <2>1, <3>1, <3>2 DEF OneRoot
  <2>4. ASSUME NEW i \in 1..Len(d.tokens)
        PROVE  TokenOK(e, i)
    <3>1. TokenOK(d, i) /\ SameLinks(d.tokens[i], e.tokens[i])
      BY <1>1 DEF TokensOK
    <3>2. d.tokens[i].used => SameLinks(d.tokens[d.tokens[i].next], e.tokens[d.tokens[i].next])
      BY <3>1 DEF TokenOK
    <3>3. e.visits[d.tokens[i].visit].personal => d.tokens[i].visit # v
      OBVIOUS
    <3>4. e.visits[d.tokens[i].visit].personal => e.tokens[i] = d.tokens[i]
      BY <3>3
    <3>5. e.visits[d.tokens[i].visit].personal => d.visits[d.tokens[i].visit].personal
      BY <3>1, <3>3 DEF TokenOK
    <3>. QED
      BY <3>1, <3>2, <3>4, <3>5, SMTT(30) DEF TokenOK, SameLinks
  <2>. QED
    BY <2>2, <2>3, <2>4 DEF TokensOK
<1>7. LinksStay(d, e)
  BY <1>3 DEF LinksStay
<1>. QED
  BY <1>5, <1>6, <1>7 DEF RowsOK

\* A token is spent, and its successor takes its place.
RowsSpent(d, e, r, v, x) ==
    /\ Len(e.visits) = Len(d.visits) /\ e.visits[v] = x
    /\ \A u \in 1..Len(d.visits) : u # v => e.visits[u] = d.visits[u]
    /\ Len(e.tokens) = Len(d.tokens) + 1
    /\ \A i \in 1..Len(d.tokens) : i # r.token => e.tokens[i] = d.tokens[i]
    /\ LET w == e.tokens[r.token]
       IN w.used /\ w.for = r.key /\ w.next = Len(d.tokens) + 1 /\ w.visit = v /\ ~w.revoked /\ ~w.deleted
    /\ e.tokens[Len(d.tokens) + 1] = Token(v)
    /\ e.records = d.records /\ e.holds = d.holds

LEMMA SpendMove ==
    ASSUME NEW d, RowsOK(d), NEW r \in RequestRows, r.key.op \in Manage,
           r.token \in 1..Len(d.tokens), Live(d.tokens[r.token]),
           NEW v, v = d.tokens[r.token].visit,
           NEW x \in VisitRows, SameVisit(d.visits[v], x), NEW e \in DbRows, RowsSpent(d, e, r, v, x)
    PROVE  RowsOK(e) /\ LinkSpent(d, e, r) /\ MarkedBySpending(d, e)
<1>1. d \in DbRows /\ VisitsOK(d) /\ TokensOK(d)
  BY DEF RowsOK
<1>0. Len(d.visits) \in Nat /\ Len(d.tokens) \in Nat
  BY <1>1, RowFacts
<1>. USE <1>0
<1>. DEFINE N == Len(d.tokens) + 1
            t == d.tokens[r.token]
            w == e.tokens[r.token]
<1>2. N \in Nat /\ N # 0 /\ N \notin 1..Len(d.tokens) /\ N # r.token
  BY <1>1
<1>2a. /\ Len(e.tokens) = N /\ e.tokens[N] = Token(v)
       /\ \A i \in 1..Len(d.tokens) : i # r.token => e.tokens[i] = d.tokens[i]
       /\ e.records = d.records /\ e.holds = d.holds
  BY DEF RowsSpent
<1>. USE <1>2a
<1>3. /\ ~t.used /\ ~t.revoked /\ ~t.deleted /\ t \in TokenRows
      /\ v \in 1..Len(d.visits) /\ t.next = 0
  BY <1>1, RowFacts DEF TokensOK, TokenOK, Live
<1>4. /\ w.used /\ w.for = r.key /\ w.next = N /\ w.visit = v /\ ~w.revoked /\ ~w.deleted
  BY DEF RowsSpent
<1>5. /\ ~Token(v).used /\ Token(v).next = 0 /\ Token(v).visit = v /\ ~Token(v).revoked /\ ~Token(v).deleted
  BY DEF Token
<1>6. \A i \in 1..N : i \in 1..Len(d.tokens) \/ i = N
  BY <1>1
<1>7. /\ Len(e.visits) = Len(d.visits) /\ e.visits[v] = x
      /\ \A u \in 1..Len(d.visits) : u # v => e.visits[u] = d.visits[u]
  BY DEF RowsSpent
<1>8. \A u \in 1..Len(d.visits) : SameVisit(d.visits[u], e.visits[u])
  BY <1>7 DEF SameVisit
<1>9. d.visits[v].personal
  BY <1>1, <1>3 DEF VisitsOK, VisitOK, Forgotten
<1>10. VisitsOK(e)
  <2>1. ASSUME NEW u \in 1..Len(d.visits), e.visits[u].personal
        PROVE  Known(e, u)
    BY <1>1, <1>8, <2>1, ZenonT(60) DEF VisitsOK, VisitOK, Known, SameVisit
  <2>2. ASSUME NEW u \in 1..Len(d.visits), ~e.visits[u].personal
        PROVE  Forgotten(e, u)
    <3>1. Forgotten(d, u) /\ u # v
      BY <1>1, <1>8, <1>9, <2>2, ZenonT(60) DEF VisitsOK, VisitOK, SameVisit
    <3>2. ASSUME NEW i \in 1..N, e.tokens[i].visit = u
          PROVE  ~Live(e.tokens[i])
      <4>1. i # N /\ i # r.token
        BY <1>4, <1>5, <3>1, <3>2
      <4>. QED
        BY <1>6, <3>1, <3>2, <4>1 DEF Forgotten
    <3>3. \A i \in 1..Len(e.tokens) : e.tokens[i].visit = u => ~Live(e.tokens[i])
      BY <3>2
    <3>. QED
      BY <3>1, <3>3 DEF Forgotten
  <2>3. \A u \in 1..Len(e.visits) : VisitOK(e, u)
    BY <1>7, <2>1, <2>2 DEF VisitOK
  <2>4. \A k \in Keys : e.records[k] <= Len(e.visits)
    BY <1>1, <1>7 DEF VisitsOK
  <2>. QED
    BY <2>3, <2>4 DEF VisitsOK
<1>11. ASSUME NEW i \in 1..Len(d.tokens)
       PROVE  TokenOK(d, i) /\ d.tokens[i].next \in 0..Len(d.tokens)
  <2>1. TokenOK(d, i)
    BY <1>1 DEF TokensOK
  <2>. QED
    BY <2>1, NextIsToken
<1>12. ~Root(e, N)
  BY <1>1, <1>2, <1>4 DEF Root
<1>13. ASSUME NEW i \in 1..Len(d.tokens)
       PROVE  Root(e, i) <=> Root(d, i)
  <2>1. i # 0 /\ i # N
    BY <1>2
  <2>2. ASSUME Root(d, i)
        PROVE  Root(e, i)
    <3>1. ASSUME NEW j \in 1..N
          PROVE  e.tokens[j].next # i
      BY <1>4, <1>5, <1>6, <2>1, <2>2 DEF Root
    <3>. QED
      BY <3>1 DEF Root
  <2>3. ASSUME Root(e, i)
        PROVE  Root(d, i)
    <3>1. ASSUME NEW j \in 1..Len(d.tokens)
          PROVE  d.tokens[j].next # i
      <4>1. j \in 1..Len(e.tokens)
        BY <1>1
      <4>2. e.tokens[j].next # i
        BY <2>3, <4>1 DEF Root
      <4>. QED
        BY <1>3, <2>1, <4>2
    <3>. QED
      BY <3>1 DEF Root
  <2>. QED
    BY <2>2, <2>3
<1>14. \A i \in 1..Len(d.tokens) : e.tokens[i].visit = d.tokens[i].visit
  BY <1>4
<1>15. TokensOK(e)
  <2>1. ASSUME NEW i \in 1..Len(d.tokens)
        PROVE  TokenOK(e, i)
    <3>1. /\ TokenOK(d, i) /\ d.tokens[i].visit \in 1..Len(d.visits)
          /\ SameVisit(d.visits[d.tokens[i].visit], e.visits[d.tokens[i].visit])
      BY <1>8, <1>11 DEF TokenOK
    <3>2. CASE i = r.token
      <4>1. N \in 1..Len(e.tokens) /\ e.tokens[N].visit = v
        BY <1>2, <1>5
      <4>. QED
        BY <1>3, <1>4, <1>7, <3>2, <4>1 DEF TokenOK
    <3>3. CASE i # r.token
      <4>1. e.tokens[i] = d.tokens[i]
        BY <3>3
      <4>2. ASSUME d.tokens[i].used
            PROVE  /\ d.tokens[i].next \in 1..Len(e.tokens)
                   /\ e.tokens[d.tokens[i].next].visit = d.tokens[i].visit
        <5>1. d.tokens[i].next \in 1..Len(d.tokens) /\ d.tokens[d.tokens[i].next].visit = d.tokens[i].visit
          BY <3>1, <4>2 DEF TokenOK
        <5>. QED
          BY <1>14, <5>1, SMTT(30)
      <4>. QED
        BY <1>7, <3>1, <4>1, <4>2 DEF TokenOK, SameVisit
    <3>. QED
      BY <3>2, <3>3
  <2>2. TokenOK(e, N)
    BY <1>3, <1>5, <1>7 DEF TokenOK
  <2>3. ASSUME NEW i \in 1..N, NEW j \in 1..N, e.tokens[i].used, e.tokens[j].next = e.tokens[i].next
        PROVE  j = i
    <3>1. i \in 1..Len(d.tokens)
      BY <1>5, <1>6, <2>3
    <3>2. e.tokens[i].next # 0
      <4>1. TokenOK(d, i)
        BY <1>11, <3>1
      <4>2. i # r.token => e.tokens[i] = d.tokens[i] /\ d.tokens[i].next \in 1..Len(d.tokens)
        BY <2>3, <3>1, <4>1 DEF TokenOK
      <4>. QED
        BY <1>2, <1>4, <4>2
    <3>3. j \in 1..Len(d.tokens)
      BY <1>5, <1>6, <2>3, <3>2
    <3>4. CASE i = r.token
      <4>1. e.tokens[j].next = N
        BY <1>4, <2>3, <3>4
      <4>2. j # r.token => e.tokens[j].next = d.tokens[j].next /\ d.tokens[j].next \in 0..Len(d.tokens)
        BY <1>11, <3>3
      <4>. QED
        BY <3>4, <4>1, <4>2
    <3>5. CASE i # r.token
      <4>1. e.tokens[i] = d.tokens[i] /\ d.tokens[i].next # N
        BY <1>2, <1>11, <3>1, <3>5
      <4>2. j # r.token
        BY <1>4, <2>3, <4>1
      <4>3. e.tokens[j] = d.tokens[j]
        BY <3>3, <4>2
      <4>. QED
        BY <1>1, <2>3, <3>1, <3>3, <4>1, <4>3 DEF TokensOK, NoFork
    <3>. QED
      BY <3>4, <3>5
  <2>4. ASSUME NEW u \in 1..Len(d.visits)
        PROVE  OneRoot(e, u)
    <3>1. PICK i \in 1..Len(d.tokens) :
                 /\ d.tokens[i].visit = u /\ Root(d, i)
                 /\ \A j \in 1..Len(d.tokens) : d.tokens[j].visit = u /\ Root(d, j) => j = i
      BY <1>1 DEF TokensOK, OneRoot
    <3>2. i \in 1..Len(e.tokens) /\ e.tokens[i].visit = u /\ Root(e, i)
      BY <1>1, <1>13, <1>14, <3>1
    <3>3. \A j \in 1..N : e.tokens[j].visit = u /\ Root(e, j) => j = i
      BY <1>6, <1>12, <1>13, <1>14, <3>1
    <3>. QED
      BY <3>2, <3>3 DEF OneRoot
  <2>5. NoFork(e)
    BY <2>3 DEF NoFork
  <2>6. \A i \in 1..Len(e.tokens) : TokenOK(e, i)
    BY <1>6, <2>1, <2>2
  <2>. QED
    BY <1>7, <2>4, <2>5, <2>6 DEF TokensOK
<1>16. LinkSpent(d, e, r)
  BY <1>1, <1>4, <1>5 DEF LinkSpent, SameLinks
<1>17. MarkedBySpending(d, e)
  BY <1>4 DEF MarkedBySpending
<1>. QED
  BY <1>7, <1>10, <1>15, <1>16, <1>17 DEF RowsOK

-----------------------------------------------------------------------------
(* What the handlers leave and answer.                                      *)

\* What an answer tells the page.
Told(r, o) ==
    /\ o.code \in {"ok", "conflict", "gone", "refused"} /\ o.token \in Nat
    /\ o.code = "ok" /\ r.key.op \in Manage
       => SpentFor(o.db, r) /\ o.token = o.db.tokens[r.token].next
    /\ o.code = "ok" /\ r.key.op = "submit"
       => /\ o.db.records[r.key.n] # 0
          /\ o.token \in 1..Len(o.db.tokens) /\ Root(o.db, o.token)
          /\ o.db.tokens[o.token].visit = o.db.records[r.key.n]

Handled(r, o) == RowsOK(o.db) /\ Moved(db, o.db, r) /\ MarkedBySpending(db, o.db) /\ Told(r, o)

LEMMA NothingMoves ==
    ASSUME NEW d, RowsOK(d)
    PROVE  LinksStay(d, d) /\ MarkedBySpending(d, d)
  BY DEF LinksStay, SameLinks, MarkedBySpending

LEMMA Refusals ==
    ASSUME RowsOK(db), NEW r, NEW code \in {"conflict", "gone", "refused"}
    PROVE  Handled(r, Refuse(code))
  BY NothingMoves DEF Handled, Moved, Told, Refuse, Reply

LEMMA CreateHoldMoves ==
    ASSUME RowsOK(db), NEW r, RequestOK(r, page, db), r.key.op = "hold", NEW o \in CreateHold(r)
    PROVE  Handled(r, o)
<1>1. db \in DbRows /\ r.key.n \in Keys
  BY DEF RowsOK, RequestOK
<1>. DEFINE swept == Swept(db.holds)
            Fresh(t) == [state |-> "active", table |-> t, visit |-> 0]
            taken(t) == [swept EXCEPT ![r.key.n] = Fresh(t)]
<1>2. /\ swept \in [Keys -> HoldRows]
      /\ \A k \in Keys : /\ swept[k].visit = db.holds[k].visit
                         /\ db.holds[k].state = "consumed" => swept[k] = db.holds[k]
  <2>1. ASSUME NEW k \in Keys
        PROVE  /\ swept[k] \in HoldRows /\ swept[k].visit = db.holds[k].visit
               /\ db.holds[k].state = "consumed" => swept[k] = db.holds[k]
    <3>1. swept[k] = IF db.holds[k].state = "lapsed" THEN [db.holds[k] EXCEPT !.state = "expired"] ELSE db.holds[k]
      BY DEF Swept
    <3>2. db.holds[k] \in HoldRows
      BY <1>1, RowFacts
    <3>. QED
      BY <3>1, <3>2 DEF HoldRows, HoldStates
  <2>2. swept = [k \in Keys |-> swept[k]]
    BY DEF Swept
  <2>. HIDE DEF swept
  <2>. QED
    BY <2>1, <2>2
<1>. HIDE DEF swept
<1>3. ASSUME NEW t \in Tables \ Occupied(db)
      PROVE  Handled(r, TakeHold(r, t))
  <2>1. CASE swept[r.key.n].state = "none" /\ TakeHold(r, t) = Reply([db EXCEPT !.holds = taken(t)], "ok", 0)
    <3>1. Fresh(t) \in HoldRows
      BY DEF HoldRows, HoldStates, AnyTable
    <3>2. taken(t) \in [Keys -> HoldRows]
      BY <1>2, <3>1
    <3>3. \A k \in Keys : taken(t)[k] = IF k = r.key.n THEN Fresh(t) ELSE swept[k]
      BY <1>1, <1>2
    <3>4. db.holds[r.key.n].state # "consumed"
      BY <1>1, <1>2, <2>1
    <3>5. \A k \in Keys : /\ taken(t)[k].visit \in {db.holds[k].visit, 0}
                          /\ db.holds[k].state = "consumed" => taken(t)[k] = db.holds[k]
      BY <1>2, <3>3, <3>4
    <3>. HIDE DEF taken
    <3>6. PICK e : e = [db EXCEPT !.holds = taken(t)]
      OBVIOUS
    <3>7. /\ e \in DbRows /\ e.holds = taken(t)
          /\ e.records = db.records /\ e.visits = db.visits /\ e.tokens = db.tokens
      BY <1>1, <3>2, <3>6 DEF DbRows
    <3>8. RowsOK(e) /\ LinksStay(db, e) /\ MarkedBySpending(db, e)
      BY <3>5, <3>7, HoldsMove
    <3>9. TakeHold(r, t) = [db |-> e, code |-> "ok", token |-> 0]
      BY <2>1, <3>6 DEF Reply
    <3>10. "hold" \notin Manage
      BY DEF Manage
    <3>. QED
      BY <3>8, <3>9, <3>10 DEF Handled, Moved, Told
  <2>2. CASE \E code \in {"conflict", "gone", "refused"} : TakeHold(r, t) = Refuse(code)
    BY <2>2, Refusals
  <2>. QED
    BY <2>1, <2>2 DEF TakeHold, swept
<1>. QED
  BY <1>3, Refusals DEF CreateHold

LEMMA ReleaseHoldMoves ==
    ASSUME RowsOK(db), NEW r, RequestOK(r, page, db), r.key.op = "release", NEW o \in ReleaseHold(r)
    PROVE  Handled(r, o)
<1>1. db \in DbRows /\ r.hold \in Keys
  BY DEF RowsOK, RequestOK
<1>. DEFINE old == db.holds[r.hold]
            state == CASE old.state = "active" -> "released" [] old.state = "lapsed" -> "expired"
                       [] OTHER -> old.state
            h == [db.holds EXCEPT ![r.hold] = [old EXCEPT !.state = state]]
<1>2. o = Reply([db EXCEPT !.holds = h], "ok", 0)
  BY <1>1, RowFacts DEF ReleaseHold
<1>3. old \in HoldRows
  BY <1>1, RowFacts
<1>4. state \in HoldStates /\ (old.state = "consumed" => state = old.state)
  BY <1>3 DEF HoldRows, HoldStates
<1>. HIDE DEF state
<1>5. /\ [old EXCEPT !.state = state] \in HoldRows /\ [old EXCEPT !.state = state].visit = old.visit
      /\ old.state = "consumed" => [old EXCEPT !.state = state] = old
  BY <1>3, <1>4 DEF HoldRows
<1>6. /\ h \in [Keys -> HoldRows]
      /\ \A k \in Keys : h[k] = IF k = r.hold THEN [old EXCEPT !.state = state] ELSE db.holds[k]
  BY <1>1, <1>5, RowFacts
<1>7. \A k \in Keys : /\ h[k].visit \in {db.holds[k].visit, 0}
                      /\ db.holds[k].state = "consumed" => h[k] = db.holds[k]
  BY <1>5, <1>6
<1>. HIDE DEF h
<1>8. PICK e : e = [db EXCEPT !.holds = h]
  OBVIOUS
<1>9. /\ e \in DbRows /\ e.holds = h
      /\ e.records = db.records /\ e.visits = db.visits /\ e.tokens = db.tokens
  BY <1>1, <1>6, <1>8 DEF DbRows
<1>10. RowsOK(e) /\ LinksStay(db, e) /\ MarkedBySpending(db, e)
  BY <1>7, <1>9, HoldsMove
<1>11. o = [db |-> e, code |-> "ok", token |-> 0] /\ "release" \notin Manage
  BY <1>2, <1>8 DEF Reply, Manage
<1>. QED
  BY <1>10, <1>11 DEF Handled, Moved, Told

LEMMA QueueMoves ==
    ASSUME RowsOK(db), NEW r, RequestOK(r, page, db), r.key.op = "queue", NEW o \in Queue(r)
    PROVE  Handled(r, o)
<1>1. db \in DbRows /\ r.key.n \in Keys /\ "queue" \notin Manage
  BY DEF RowsOK, RequestOK, Manage
<1>2. CASE o = Reply(db, "ok", 0)
  BY <1>1, <1>2, NothingMoves DEF Handled, Moved, Told, Reply
<1>3. CASE ~(db.waits[r.key.n] > 0)
           /\ o = Reply([db EXCEPT !.waits[r.key.n] = db.waits[r.key.n] + 1], "ok", 0)
  <2>. DEFINE w == [db.waits EXCEPT ![r.key.n] = db.waits[r.key.n] + 1]
  <2>1. db.waits[r.key.n] = 0
    BY <1>1, <1>3, RowFacts
  <2>2. w \in [Keys -> 0..1]
    BY <1>1, <2>1, RowFacts
  <2>3. o = Reply([db EXCEPT !.waits = w], "ok", 0)
    BY <1>3
  <2>. HIDE DEF w
  <2>4. PICK e : e = [db EXCEPT !.waits = w]
    OBVIOUS
  <2>5. /\ e \in DbRows /\ e.holds = db.holds
        /\ e.records = db.records /\ e.visits = db.visits /\ e.tokens = db.tokens
    BY <1>1, <2>2, <2>4 DEF DbRows
  <2>6. RowsOK(e) /\ LinksStay(db, e) /\ MarkedBySpending(db, e)
    BY <2>5, HoldsMove
  <2>7. o = [db |-> e, code |-> "ok", token |-> 0]
    BY <2>3, <2>4 DEF Reply
  <2>. QED
    BY <1>1, <2>6, <2>7 DEF Handled, Moved, Told
<1>. QED
  BY <1>2, <1>3 DEF Queue

\* The root of a visit is found, and it is the only one.
LEMMA FirstFacts ==
    ASSUME NEW d, RowsOK(d), NEW v \in 1..Len(d.visits)
    PROVE  /\ First(d, v) \in 1..Len(d.tokens) /\ d.tokens[First(d, v)].visit = v /\ Root(d, First(d, v))
           /\ \A j \in 1..Len(d.tokens) : d.tokens[j].visit = v /\ Root(d, j) => j = First(d, v)
<1>1. DOMAIN d.tokens = 1..Len(d.tokens) /\ OneRoot(d, v)
  BY RowFacts DEF RowsOK, TokensOK
<1>2. PICK i \in 1..Len(d.tokens) :
             /\ d.tokens[i].visit = v /\ Root(d, i)
             /\ \A j \in 1..Len(d.tokens) : d.tokens[j].visit = v /\ Root(d, j) => j = i
  BY <1>1 DEF OneRoot
<1>3. First(d, v) = CHOOSE j \in 1..Len(d.tokens) : d.tokens[j].visit = v /\ Root(d, j)
  BY <1>1 DEF First, Root
<1>4. First(d, v) \in 1..Len(d.tokens) /\ d.tokens[First(d, v)].visit = v /\ Root(d, First(d, v))
  BY <1>2, <1>3
<1>. QED
  BY <1>2, <1>4

LEMMA BookMoves ==
    ASSUME RowsOK(db), NEW r, RequestOK(r, page, db), r.key.op = "submit", NEW o \in Book(r)
    PROVE  Handled(r, o)
<1>1. /\ db \in DbRows /\ r \in RequestRows /\ r.key.n \in Keys /\ r.hold \in Keys
      /\ "submit" \notin Manage
  BY DEF RowsOK, RequestOK, Manage
<1>2. ASSUME NEW code \in {"conflict", "gone", "refused"}, o = Refuse(code)
      PROVE  Handled(r, o)
  BY <1>2, Refusals
<1>3. CASE db.records[r.key.n] # 0 /\ o = ReplayBooking(db.records[r.key.n])
  <2>. DEFINE v == db.records[r.key.n]
  <2>1. v \in 1..Len(db.visits)
    BY <1>1, <1>3, RowFacts DEF RowsOK, VisitsOK
  <2>2. CASE o = Reply(db, "ok", First(db, v))
    <3>1. /\ First(db, v) \in 1..Len(db.tokens) /\ db.tokens[First(db, v)].visit = v
          /\ Root(db, First(db, v))
      BY <2>1, FirstFacts
    <3>2. First(db, v) \in Nat
      BY <1>1, <3>1, RowFacts
    <3>3. o.db = db /\ o.code = "ok" /\ o.token = First(db, v)
      BY <2>2 DEF Reply
    <3>4. Told(r, o)
      BY <1>1, <1>3, <3>1, <3>2, <3>3 DEF Told
    <3>. QED
      BY <3>3, <3>4, NothingMoves DEF Handled, Moved
  <2>3. CASE \E code \in {"conflict", "refused"} : o = Refuse(code)
    BY <1>2, <2>3
  <2>. QED
    BY <1>3, <2>2, <2>3 DEF ReplayBooking
<1>4. ASSUME db.records[r.key.n] = 0, Bookable(db.holds[r.hold]),
             NEW pay \in {"none", "pending"}, o = Booked(r, pay)
      PROVE  Handled(r, o)
  <2>. DEFINE V == Len(db.visits) + 1
              N == Len(db.tokens) + 1
              old == db.holds[r.hold]
              new == [old EXCEPT !.state = "consumed", !.visit = V]
              h == [db.holds EXCEPT ![r.hold] = new]
              c == [db.records EXCEPT ![r.key.n] = V]
              x == Visit(r.hold, r.key.n, old.table, pay)
              vs == Append(db.visits, x)
              ts == Append(db.tokens, Token(V))
  <2>1. o = Reply([db EXCEPT !.holds = h, !.visits = vs, !.tokens = ts, !.records = c], "ok", N)
    <3>1. db.holds \in [Keys -> HoldRows]
      BY <1>1, RowFacts
    <3>2. [[db.holds EXCEPT ![r.hold].state = "consumed"] EXCEPT ![r.hold].visit = V] = h
      BY <1>1, <3>1
    <3>. QED
      BY <1>1, <1>4, <3>2, ZenonT(60) DEF Booked, DbRows
  <2>2. V \in Nat /\ N \in Nat /\ V # 0 /\ old \in HoldRows
    BY <1>1, RowFacts
  <2>3. new \in HoldRows /\ new.state = "consumed" /\ new.visit = V
    BY <2>2 DEF HoldRows, HoldStates
  <2>4. /\ h \in [Keys -> HoldRows] /\ h[r.hold] = new
        /\ \A k \in Keys : k # r.hold => h[k] = db.holds[k]
    BY <1>1, <2>3, RowFacts
  <2>5. c \in [Keys -> Nat] /\ c[r.key.n] = V
    BY <1>1, <2>2, RowFacts
  <2>6. x \in VisitRows /\ x.hold = r.hold /\ x.key = r.key.n /\ x.personal /\ x.by = "nobody"
    BY <1>1, <2>2 DEF Visit, VisitRows, HoldRows
  <2>7. Token(V) \in TokenRows /\ Token(V).visit = V
    BY <2>2, GuestAssumption DEF Token, TokenRows, KeyRows
  <2>8. vs \in Seq(VisitRows) /\ ts \in Seq(TokenRows) /\ Len(ts) = N /\ Len(vs) = V /\ ts[N] = Token(V)
    BY <1>1, <2>6, <2>7, RowFacts, AppendProperties
  <2>. HIDE DEF h, c, x, vs, ts, new
  <2>9. PICK e : e = [db EXCEPT !.holds = h, !.visits = vs, !.tokens = ts, !.records = c]
    OBVIOUS
  <2>10. /\ e \in DbRows /\ e.holds = h /\ e.visits = vs /\ e.tokens = ts /\ e.records = c
    BY <1>1, <2>4, <2>5, <2>8, <2>9 DEF DbRows
  <2>11. o.db = e /\ o.code = "ok" /\ o.token = N
    BY <2>1, <2>9 DEF Reply
  <2>12. RowsOK(e) /\ LinkRooted(db, e, r) /\ MarkedBySpending(db, e)
    <3>1. db.holds[r.hold].state = "active"
      BY <1>4 DEF Bookable
    <3>2. e.holds[r.hold].state = "consumed" /\ e.holds[r.hold].visit = V
          /\ \A k \in Keys : k # r.hold => e.holds[k] = db.holds[k]
      BY <2>3, <2>4, <2>10
    <3>3. /\ e.visits = Append(db.visits, x) /\ e.tokens = Append(db.tokens, Token(V))
          /\ e.records = [db.records EXCEPT ![r.key.n] = V]
      BY <2>10 DEF vs, ts, c
    <3>. QED
      BY <1>1, <1>4, <2>6, <2>10, <3>1, <3>2, <3>3, BookedMove
  <2>13. e.records[r.key.n] # 0 /\ N \in 1..Len(e.tokens) /\ e.tokens[N].visit = e.records[r.key.n]
    BY <2>2, <2>5, <2>7, <2>8, <2>10
  <2>14. Root(e, N)
    <3>1. \A i \in 1..Len(e.tokens) : e.tokens[i].next # N
      <4>1. ASSUME NEW i \in 1..Len(e.tokens)
            PROVE  e.tokens[i].next # N
        <5>1. i \in 1..Len(db.tokens) \/ i = N
          BY <1>1, <2>8, <2>10, RowFacts
        <5>2. CASE i = N
          BY <2>2, <2>8, <2>10, <5>2, <1>1, RowFacts DEF Token
        <5>3. CASE i \in 1..Len(db.tokens)
          <6>1. e.tokens[i] = db.tokens[i]
            BY <1>1, <2>7, <2>10, <5>3, RowFacts, AppendProperties DEF ts
          <6>2. TokenOK(db, i)
            BY <5>3 DEF RowsOK, TokensOK
          <6>. QED
            BY <1>1, <6>1, <6>2, RowFacts DEF TokenOK
        <5>. QED
          BY <5>1, <5>2, <5>3
      <4>. QED
        BY <4>1
    <3>. QED
      BY <3>1 DEF Root
  <2>15. Told(r, o)
    BY <1>1, <2>2, <2>11, <2>13, <2>14 DEF Told
  <2>. QED
    BY <2>11, <2>12, <2>15 DEF Handled, Moved
<1>. QED
  BY <1>2, <1>3, <1>4 DEF Book

LEMMA EffectFacts ==
    ASSUME NEW v \in VisitRows, NEW op \in Manage, NEW x \in Effects(op, v)
    PROVE  x \in VisitRows /\ SameVisit(v, x)
<1>1. CASE op = "confirm"
  <2>1. x = v \/ x = [v EXCEPT !.status = "confirmed"]
    BY <1>1 DEF Effects, ConfirmVisit
  <2>. QED
    BY <2>1 DEF VisitRows, SameVisit
<1>2. CASE op \in {"cancel", "erase"}
  <2>1. x = v \/ x = [v EXCEPT !.status = "cancelled"]
    BY <1>2 DEF Effects, CancelVisit
  <2>. QED
    BY <2>1 DEF VisitRows, SameVisit
<1>3. CASE op = "edit"
  <2>1. PICK p \in {"none", "pending"} : x = [v EXCEPT !.by = "guest", !.pay = p]
    BY <1>3 DEF Effects, EditVisit
  <2>. QED
    BY <2>1 DEF VisitRows, SameVisit
<1>4. CASE op = "pay"
  <2>1. x = [v EXCEPT !.pay = "pending"]
    BY <1>4 DEF Effects, PayAgain
  <2>. QED
    BY <2>1 DEF VisitRows, SameVisit
<1>. QED
  BY <1>1, <1>2, <1>3, <1>4 DEF Manage

\* What is left of the rows when a visit has been erased.
RowsErased(d, e, v, keep) ==
    /\ Len(e.visits) = Len(d.visits) /\ Len(e.tokens) = Len(d.tokens)
    /\ e.visits[v] = [d.visits[v] EXCEPT !.personal = FALSE]
    /\ \A u \in 1..Len(d.visits) : u # v => e.visits[u] = d.visits[u]
    /\ \A i \in 1..Len(d.tokens) :
         e.tokens[i] = IF d.tokens[i].visit = v /\ i \notin keep
                       THEN [d.tokens[i] EXCEPT !.deleted = TRUE] ELSE d.tokens[i]
    /\ \A k \in Keys : /\ e.records[k] = IF d.records[k] = v THEN 0 ELSE d.records[k]
                       /\ e.holds[k] = IF d.holds[k].visit = v THEN NoHold ELSE d.holds[k]

LEMMA ErasedFacts ==
    ASSUME NEW d \in DbRows, NEW v \in 1..Len(d.visits), NEW keep, NEW e, e = Erased(d, v, keep)
    PROVE  e \in DbRows /\ RowsErased(d, e, v, keep)
<1>. DEFINE gone == [d.visits[v] EXCEPT !.personal = FALSE]
            vs == [d.visits EXCEPT ![v] = gone]
            T(i) == IF d.tokens[i].visit = v /\ i \notin keep
                    THEN [d.tokens[i] EXCEPT !.deleted = TRUE] ELSE d.tokens[i]
            ts == [i \in 1..Len(d.tokens) |-> T(i)]
            c == [k \in Keys |-> IF d.records[k] = v THEN 0 ELSE d.records[k]]
            h == [k \in Keys |-> IF d.holds[k].visit = v THEN NoHold ELSE d.holds[k]]
<1>1. DOMAIN d.tokens = 1..Len(d.tokens) /\ Len(d.tokens) \in Nat
  BY RowFacts
<1>2. e = [d EXCEPT !.visits = vs, !.tokens = ts, !.records = c, !.holds = h]
  BY <1>1 DEF Erased
<1>3. gone \in VisitRows
  <2>1. d.visits[v] \in VisitRows
    BY RowFacts
  <2>. QED
    BY <2>1 DEF VisitRows
<1>4. /\ vs \in Seq(VisitRows) /\ Len(vs) = Len(d.visits) /\ vs[v] = gone
      /\ \A u \in 1..Len(d.visits) : u # v => vs[u] = d.visits[u]
  BY <1>3, RowFacts
<1>5. \A i \in 1..Len(d.tokens) : ts[i] = T(i) /\ T(i) \in TokenRows
  <2>1. ASSUME NEW i \in 1..Len(d.tokens)
        PROVE  T(i) \in TokenRows
    <3>1. d.tokens[i] \in TokenRows
      BY RowFacts
    <3>. QED
      BY <3>1 DEF TokenRows
  <2>. QED
    BY <2>1
<1>6. ts \in Seq(TokenRows) /\ Len(ts) = Len(d.tokens)
  <2>1. ts = [i \in 1..Len(d.tokens) |-> ts[i]] /\ \A i \in 1..Len(d.tokens) : ts[i] \in TokenRows
    BY <1>5
  <2>. HIDE DEF ts
  <2>. QED
    BY <1>1, <2>1, FunctionIsSeq
<1>7. c \in [Keys -> Nat] /\ h \in [Keys -> HoldRows]
  <2>1. NoHold \in HoldRows
    BY DEF NoHold, HoldRows, HoldStates, AnyTable
  <2>. QED
    BY <2>1, RowFacts
<1>8. \A k \in Keys : /\ c[k] = IF d.records[k] = v THEN 0 ELSE d.records[k]
                      /\ h[k] = IF d.holds[k].visit = v THEN NoHold ELSE d.holds[k]
  OBVIOUS
<1>9. \A i \in 1..Len(d.tokens) : ts[i] = IF d.tokens[i].visit = v /\ i \notin keep
                                          THEN [d.tokens[i] EXCEPT !.deleted = TRUE] ELSE d.tokens[i]
  OBVIOUS
<1>. HIDE DEF vs, ts, c, h
<1>10. e \in DbRows /\ e.visits = vs /\ e.tokens = ts /\ e.records = c /\ e.holds = h
  BY <1>2, <1>4, <1>6, <1>7 DEF DbRows
<1>. QED
  BY <1>4, <1>6, <1>8, <1>9, <1>10 DEF RowsErased

\* The rows as a token is spent, before anything is erased.
LEMMA SpendFacts ==
    ASSUME RowsOK(db), NEW r, RequestOK(r, page, db), r.key.op \in Manage, Live(db.tokens[r.token]),
           NEW x \in Effects(r.key.op, db.visits[db.tokens[r.token].visit]), NEW e,
           e = [db EXCEPT !.visits[db.tokens[r.token].visit] = x,
                          !.tokens = Append([@ EXCEPT ![r.token].used = TRUE, ![r.token].for = r.key,
                                                      ![r.token].next = Len(db.tokens) + 1],
                                            Token(db.tokens[r.token].visit))]
    PROVE  /\ RowsOK(e) /\ LinkSpent(db, e, r) /\ MarkedBySpending(db, e)
           /\ Len(e.visits) = Len(db.visits)
<1>. DEFINE t == db.tokens[r.token]
            v == t.visit
            N == Len(db.tokens) + 1
            spent == [t EXCEPT !.used = TRUE, !.for = r.key, !.next = N]
            ts == [db.tokens EXCEPT ![r.token] = spent]
            vs == [db.visits EXCEPT ![v] = x]
            us == Append(ts, Token(v))
<1>1. db \in DbRows /\ r \in RequestRows /\ r.token \in 1..Len(db.tokens)
  BY DEF RowsOK, RequestOK
<1>2. t \in TokenRows /\ v \in 1..Len(db.visits) /\ N \in Nat
  <2>1. TokenOK(db, r.token)
    BY <1>1 DEF RowsOK, TokensOK
  <2>2. v \in 1..Len(db.visits)
    BY <2>1 DEF TokenOK
  <2>3. t \in TokenRows /\ Len(db.tokens) \in Nat
    BY <1>1, RowFacts
  <2>. QED
    BY <2>2, <2>3
<1>3. /\ spent \in TokenRows /\ spent.used /\ spent.for = r.key /\ spent.next = N /\ spent.visit = v
      /\ ~spent.revoked /\ ~spent.deleted
  <2>1. r.key \in KeyRows
    BY <1>1 DEF RequestRows
  <2>. QED
    BY <1>2, <2>1 DEF TokenRows, Live
<1>4. x \in VisitRows /\ SameVisit(db.visits[v], x)
  <2>1. db.visits[v] \in VisitRows
    BY <1>1, <1>2, RowFacts
  <2>. QED
    BY <2>1, EffectFacts
<1>5. e = [db EXCEPT !.visits = vs, !.tokens = us]
  <2>1. db.tokens \in Seq(TokenRows)
    BY <1>1, RowFacts
  <2>2. [[[db.tokens EXCEPT ![r.token].used = TRUE] EXCEPT ![r.token].for = r.key] EXCEPT ![r.token].next = N] = ts
    BY <1>1, <2>1
  <2>. QED
    BY <1>1, <2>2 DEF DbRows
<1>6. /\ vs \in Seq(VisitRows) /\ Len(vs) = Len(db.visits) /\ vs[v] = x
      /\ \A u \in 1..Len(db.visits) : u # v => vs[u] = db.visits[u]
  <2>1. db.visits \in Seq(VisitRows)
    BY <1>1, RowFacts
  <2>2. v \in 1..Len(db.visits) /\ x \in VisitRows
    BY <1>2, <1>4
  <2>. HIDE DEF v
  <2>. QED
    BY <2>1, <2>2, OneReplaced
<1>7. /\ ts \in Seq(TokenRows) /\ Len(ts) = Len(db.tokens) /\ ts[r.token] = spent
      /\ \A i \in 1..Len(db.tokens) : i # r.token => ts[i] = db.tokens[i]
  <2>1. db.tokens \in Seq(TokenRows)
    BY <1>1, RowFacts
  <2>. HIDE DEF spent
  <2>. QED
    BY <1>1, <1>3, <2>1, ExceptSeq, SMTT(30)
<1>8. Token(v) \in TokenRows
  <2>1. v \in Nat
    BY <1>1, <1>2, RowFacts
  <2>. QED
    BY <2>1, GuestAssumption DEF Token, TokenRows, KeyRows
<1>. HIDE DEF ts, vs
<1>9. /\ us \in Seq(TokenRows) /\ Len(us) = N /\ us[N] = Token(v)
      /\ \A i \in 1..Len(db.tokens) : us[i] = ts[i]
  BY <1>7, <1>8, AppendProperties
<1>. HIDE DEF us
<1>10. /\ e \in DbRows /\ e.visits = vs /\ e.tokens = us /\ e.records = db.records /\ e.holds = db.holds
  BY <1>1, <1>5, <1>6, <1>9 DEF DbRows
<1>11. /\ Len(e.visits) = Len(db.visits) /\ e.visits[v] = x
       /\ \A u \in 1..Len(db.visits) : u # v => e.visits[u] = db.visits[u]
  BY <1>6, <1>10
<1>12. /\ Len(e.tokens) = N /\ e.tokens[N] = Token(v) /\ e.tokens[r.token] = spent
       /\ \A i \in 1..Len(db.tokens) : i # r.token => e.tokens[i] = db.tokens[i]
  BY <1>1, <1>7, <1>9, <1>10
<1>13. /\ e.tokens[r.token].used /\ e.tokens[r.token].for = r.key /\ e.tokens[r.token].visit = v
       /\ e.tokens[r.token].next = N /\ ~e.tokens[r.token].revoked /\ ~e.tokens[r.token].deleted
  BY <1>3, <1>12
<1>. HIDE DEF spent
<1>14. RowsSpent(db, e, r, v, x)
  BY <1>10, <1>11, <1>12, <1>13 DEF RowsSpent
<1>15. RowsOK(e) /\ LinkSpent(db, e, r) /\ MarkedBySpending(db, e)
  BY <1>1, <1>4, <1>10, <1>14, SpendMove
<1>. QED
  BY <1>11, <1>15

LEMMA SpendMoves ==
    ASSUME RowsOK(db), NEW r, RequestOK(r, page, db), r.key.op \in Manage, Live(db.tokens[r.token]),
           NEW o \in Spend(r)
    PROVE  Handled(r, o)
<1>. DEFINE t == db.tokens[r.token]
            v == t.visit
            N == Len(db.tokens) + 1
            M(x) == [db EXCEPT !.visits[v] = x,
                               !.tokens = Append([@ EXCEPT ![r.token].used = TRUE, ![r.token].for = r.key,
                                                           ![r.token].next = N], Token(v))]
<1>1. PICK x \in Effects(r.key.op, db.visits[v]) :
             o = Reply(IF r.key.op = "erase" THEN Sealed(Erased(M(x), v, {r.token, N}), r.token, N) ELSE M(x),
                       "ok", N)
  BY DEF Spend
<1>2. PICK m : m = M(x)
  OBVIOUS
<1>3. /\ RowsOK(m) /\ LinkSpent(db, m, r) /\ MarkedBySpending(db, m) /\ Len(m.visits) = Len(db.visits)
  BY <1>2, SpendFacts
<1>4. /\ db \in DbRows /\ m \in DbRows /\ r.token \in 1..Len(db.tokens)
      /\ Len(db.tokens) \in Nat /\ N \in Nat /\ "submit" \notin Manage
  BY <1>3, RowFacts DEF RowsOK, RequestOK, Manage
<1>5. /\ Len(m.tokens) = N /\ m.tokens[r.token].used /\ m.tokens[r.token].for = r.key
      /\ m.tokens[r.token].next = N /\ m.tokens[r.token].visit = v /\ m.tokens[N].visit = v
  BY <1>3 DEF LinkSpent
<1>6. CASE r.key.op # "erase"
  <2>1. o.db = m /\ o.code = "ok" /\ o.token = N
    BY <1>1, <1>2, <1>6 DEF Reply
  <2>2. Told(r, o)
    BY <1>4, <1>5, <2>1 DEF Told, SpentFor
  <2>. QED
    BY <1>3, <2>1, <2>2 DEF Handled, Moved
<1>7. CASE r.key.op = "erase"
  <2>. DEFINE E == Erased(m, v, {r.token, N})
              e == Sealed(E, r.token, N)
  <2>1. o.db = e /\ o.code = "ok" /\ o.token = N
    BY <1>1, <1>2, <1>7 DEF Reply
  <2>2. v \in 1..Len(m.visits)
    <3>1. TokenOK(db, r.token)
      BY <1>4 DEF RowsOK, TokensOK
    <3>. QED
      BY <1>3, <3>1 DEF TokenOK
  <2>3. /\ E \in DbRows /\ Len(E.visits) = Len(m.visits) /\ Len(E.tokens) = N
        /\ E.visits[v] = [m.visits[v] EXCEPT !.personal = FALSE]
        /\ \A u \in 1..Len(m.visits) : u # v => E.visits[u] = m.visits[u]
        /\ \A i \in 1..N : E.tokens[i] = IF m.tokens[i].visit = v /\ i \notin {r.token, N}
                                         THEN [m.tokens[i] EXCEPT !.deleted = TRUE] ELSE m.tokens[i]
        /\ \A k \in Keys : /\ E.records[k] = IF m.records[k] = v THEN 0 ELSE m.records[k]
                           /\ E.holds[k] = IF m.holds[k].visit = v THEN NoHold ELSE m.holds[k]
    <3>1. E \in DbRows /\ RowsErased(m, E, v, {r.token, N})
      BY <1>4, <2>2, ErasedFacts
    <3>. HIDE DEF E
    <3>2. 1..Len(m.tokens) = 1..N
      BY <1>5
    <3>. QED
      BY <1>5, <3>1, <3>2 DEF RowsErased
  <2>. HIDE DEF E
  <2>. DEFINE T(i) == IF i \in {r.token, N} THEN [E.tokens[i] EXCEPT !.revoked = TRUE] ELSE E.tokens[i]
              ts == [i \in 1..N |-> T(i)]
  <2>4. e = [E EXCEPT !.tokens = ts]
    <3>1. E.tokens \in Seq(TokenRows) /\ DOMAIN E.tokens = 1..N /\ r.token \in 1..N /\ N \in 1..N /\ r.token # N
      <4>1. E.tokens \in Seq(TokenRows)
        BY <2>3, RowFacts
      <4>2. DOMAIN E.tokens = 1..N
        BY <2>3, <4>1, LenProperties
      <4>. QED
        BY <1>4, <4>1, <4>2, SMTT(30)
    <3>. DEFINE once == [E.tokens EXCEPT ![r.token].revoked = TRUE]
    <3>2. [once EXCEPT ![N].revoked = TRUE] = ts
      BY <3>1
    <3>3. [E EXCEPT !.tokens[r.token].revoked = TRUE] = [E EXCEPT !.tokens = once]
      OBVIOUS
    <3>. HIDE DEF once, ts
    <3>4. [E EXCEPT !.tokens = once].tokens = once
      BY <2>3 DEF DbRows
    <3>5. e = [[E EXCEPT !.tokens = once] EXCEPT !.tokens = ts]
      BY <3>2, <3>3, <3>4 DEF Sealed
    <3>. QED
      BY <2>3, <3>5 DEF DbRows
  <2>5. \A i \in 1..N : E.tokens[i] \in TokenRows /\ m.tokens[i] \in TokenRows /\ E.visits[v] \in VisitRows
    BY <1>3, <1>4, <1>5, <2>2, <2>3, RowFacts
  <2>6. \A i \in 1..N : ts[i] = T(i) /\ T(i) \in TokenRows
    BY <2>5 DEF TokenRows
  <2>7. ts \in Seq(TokenRows) /\ Len(ts) = N
    <3>1. ts = [i \in 1..N |-> ts[i]] /\ \A i \in 1..N : ts[i] \in TokenRows
      BY <2>6
    <3>. HIDE DEF ts
    <3>. QED
      BY <1>4, <3>1, FunctionIsSeq
  <2>8. \A i \in 1..N : /\ SameLinks(m.tokens[i], ts[i])
                        /\ IF m.tokens[i].visit = v THEN ~Live(ts[i]) ELSE ts[i] = m.tokens[i]
    <3>1. ASSUME NEW i \in 1..N
          PROVE  /\ SameLinks(m.tokens[i], ts[i])
                 /\ IF m.tokens[i].visit = v THEN ~Live(ts[i]) ELSE ts[i] = m.tokens[i]
      <4>1. m.tokens[i] \in TokenRows /\ ts[i] = T(i)
        BY <2>5, <2>6
      <4>2. CASE i \in {r.token, N}
        <5>1. ts[i] = [m.tokens[i] EXCEPT !.revoked = TRUE] /\ m.tokens[i].visit = v
          BY <1>5, <2>3, <4>1, <4>2
        <5>. QED
          BY <4>1, <5>1 DEF TokenRows, SameLinks, Live
      <4>3. CASE i \notin {r.token, N}
        <5>1. ts[i] = IF m.tokens[i].visit = v THEN [m.tokens[i] EXCEPT !.deleted = TRUE] ELSE m.tokens[i]
          BY <2>3, <4>1, <4>3
        <5>. QED
          BY <4>1, <5>1 DEF TokenRows, SameLinks, Live
      <4>. QED
        BY <4>2, <4>3
    <3>. QED
      BY <3>1
  <2>. HIDE DEF ts, e
  <2>9. /\ e \in DbRows /\ e.visits = E.visits /\ e.tokens = ts /\ e.records = E.records /\ e.holds = E.holds
    BY <2>3, <2>4, <2>7 DEF DbRows
  <2>10. ~e.visits[v].personal /\ e.visits[v].by = m.visits[v].by
    <3>1. m.visits[v] \in VisitRows
      BY <1>4, <2>2, RowFacts
    <3>. QED
      BY <2>3, <2>9, <3>1, ZenonT(60) DEF VisitRows
  <2>11. RowsOK(e) /\ LinksStay(m, e)
    <3>1. /\ Len(e.visits) = Len(m.visits) /\ Len(e.tokens) = Len(m.tokens)
          /\ \A u \in 1..Len(m.visits) : u # v => e.visits[u] = m.visits[u]
      <4>1. Len(e.tokens) = Len(m.tokens)
        BY <1>5, <2>7, <2>9
      <4>. QED
        BY <2>3, <2>9, <4>1
    <3>2. \A i \in 1..Len(m.tokens) :
              /\ SameLinks(m.tokens[i], e.tokens[i])
              /\ IF m.tokens[i].visit = v THEN ~Live(e.tokens[i]) ELSE e.tokens[i] = m.tokens[i]
      BY <1>5, <2>8, <2>9
    <3>3. \A k \in Keys : /\ e.records[k] = IF m.records[k] = v THEN 0 ELSE m.records[k]
                          /\ e.holds[k] = IF m.holds[k].visit = v THEN NoHold ELSE m.holds[k]
      <4>1. e.records = E.records /\ e.holds = E.holds
        BY <2>9
      <4>2. \A k \in Keys : /\ E.records[k] = IF m.records[k] = v THEN 0 ELSE m.records[k]
                            /\ E.holds[k] = IF m.holds[k].visit = v THEN NoHold ELSE m.holds[k]
        BY <2>3
      <4>. QED
        BY <4>1, <4>2
    <3>. QED
      BY <1>3, <2>2, <2>9, <2>10, <3>1, <3>2, <3>3, EraseMove
  <2>12. LinkSpent(db, e, r)
    <3>1. \A i \in 1..N : SameLinks(m.tokens[i], e.tokens[i])
      BY <1>5, <2>11 DEF LinksStay
    <3>2. Len(e.tokens) = N /\ r.token \in 1..N /\ N \in 1..N
      BY <1>4, <2>7, <2>9
    <3>3. \A i \in 1..Len(db.tokens) : i # r.token => SameLinks(db.tokens[i], e.tokens[i])
      <4>1. \A i \in 1..Len(db.tokens) : i # r.token => SameLinks(db.tokens[i], m.tokens[i])
        BY <1>3 DEF LinkSpent
      <4>2. \A i \in 1..Len(db.tokens) : i \in 1..N
        BY <1>4
      <4>. QED
        BY <3>1, <4>1, <4>2 DEF SameLinks
    <3>4. LET u == e.tokens[r.token]
              w == e.tokens[N]
          IN /\ u.used /\ u.for = r.key /\ u.next = N /\ u.visit = v
             /\ ~w.used /\ w.next = 0 /\ w.visit = v
      BY <1>3, <3>1, <3>2 DEF LinkSpent, SameLinks
    <3>5. \A k \in Keys : e.records[k] \in {db.records[k], 0}
      BY <1>3, <2>11 DEF LinkSpent, LinksStay
    <3>. QED
      BY <3>2, <3>3, <3>4, <3>5 DEF LinkSpent
  <2>13. MarkedBySpending(db, e)
    <3>1. ASSUME NEW u \in 1..Len(db.visits)
          PROVE  e.visits[u].by = m.visits[u].by
      <4>1. u \in 1..Len(m.visits)
        BY <1>3
      <4>2. u # v => e.visits[u] = m.visits[u]
        BY <2>3, <2>9, <4>1
      <4>. QED
        BY <2>10, <4>2
    <3>2. \A i \in 1..Len(db.tokens) : m.tokens[i].used => e.tokens[i].used
      BY <1>4, <1>5, <2>11 DEF LinksStay, SameLinks
    <3>. QED
      BY <1>3, <3>1, <3>2 DEF MarkedBySpending
  <2>14. Told(r, o)
    <3>1. e.tokens[r.token].used /\ e.tokens[r.token].for = r.key /\ e.tokens[r.token].next = N
      BY <2>12 DEF LinkSpent
    <3>. QED
      BY <1>4, <2>1, <3>1 DEF Told, SpentFor
  <2>. QED
    BY <2>1, <2>11, <2>12, <2>13, <2>14 DEF Handled, Moved
<1>. QED
  BY <1>6, <1>7

LEMMA RotateMoves ==
    ASSUME RowsOK(db), NEW r, RequestOK(r, page, db), r.key.op \in Manage, NEW o \in Rotate(r)
    PROVE  Handled(r, o)
<1>. DEFINE t == db.tokens[r.token]
<1>1. /\ db \in DbRows /\ r.token \in 1..Len(db.tokens) /\ TokenOK(db, r.token) /\ "submit" \notin Manage
  BY DEF RowsOK, TokensOK, RequestOK, Manage
<1>2. CASE \E code \in {"conflict", "gone", "refused"} : o = Refuse(code)
  BY <1>2, Refusals
<1>3. CASE t.used /\ Repeated(t, r) /\ o = Reply(db, "ok", t.next)
  <2>1. t.for = r.key /\ t.next \in Nat
    <3>1. t \in TokenRows
      BY <1>1, RowFacts
    <3>. QED
      BY <1>3, <3>1 DEF Repeated, TokenRows
  <2>2. o.db = db /\ o.code = "ok" /\ o.token = t.next
    BY <1>3 DEF Reply
  <2>3. Told(r, o)
    BY <1>1, <1>3, <2>1, <2>2 DEF Told, SpentFor
  <2>. QED
    BY <2>2, <2>3, NothingMoves DEF Handled, Moved
<1>4. CASE Live(t) /\ o \in Spend(r)
  BY <1>4, SpendMoves
<1>. QED
  BY <1>2, <1>3, <1>4 DEF Rotate, ReplayRotation, Live

\* Every request leaves the rows in order, moves the links of at most one visit, and
\* is told the truth.
LEMMA HandleMoves ==
    ASSUME RowsOK(db), NEW r, RequestOK(r, page, db), NEW o \in Handle(r)
    PROVE  Handled(r, o)
<1>1. r.key.op \in Calls \cup {"release"} /\ r.key.op # "none"
  BY DEF RequestOK, RequestRows, KeyRows
<1>2. CASE o = Refuse("refused")
  BY <1>2, Refusals
<1>3. CASE r.key.op = "hold" /\ o \in CreateHold(r)
  BY <1>3, CreateHoldMoves
<1>4. CASE r.key.op = "release" /\ o \in ReleaseHold(r)
  BY <1>4, ReleaseHoldMoves
<1>5. CASE r.key.op = "submit" /\ o \in Book(r)
  BY <1>5, BookMoves
<1>6. CASE r.key.op = "queue" /\ o \in Queue(r)
  BY <1>6, QueueMoves
<1>7. CASE r.key.op \in Manage /\ o \in Rotate(r)
  BY <1>7, RotateMoves
<1>. QED
  BY <1>1, <1>2, <1>3, <1>4, <1>5, <1>6, <1>7 DEF Handle, Throttled, Calls

-----------------------------------------------------------------------------
(* Who knows which token.                                                   *)

LEMMA TokenFacts ==
    ASSUME NEW d, RowsOK(d), NEW i \in 1..Len(d.tokens)
    PROVE  /\ Len(d.tokens) \in Nat /\ i \in Nat /\ i # 0
           /\ d.tokens[i].visit \in 1..Len(d.visits)
           /\ d.tokens[i].used => d.tokens[i].next \in 1..Len(d.tokens) /\ d.tokens[i].for.op \in Manage
           /\ ~d.tokens[i].used => d.tokens[i].next = 0
<1>1. TokenOK(d, i) /\ Len(d.tokens) \in Nat
  BY RowFacts DEF RowsOK, TokensOK
<1>. QED
  BY <1>1 DEF TokenOK

LEMMA SubmitKey ==
    ASSUME NEW p, PageOK(p), p.attempt["submit"].op = "submit"
    PROVE  p.attempt["submit"].n \in Keys /\ p.attempt["submit"].n < p.next
<1>1. SlotOK(p, "submit")
  BY DEF PageOK, Slots
<1>. QED
  BY <1>1 DEF SlotOK, NoKey

\* Links that stay keep the secrets.
LEMMA LinksKept ==
    ASSUME NEW d, NEW e, NEW p, NEW F, RowsOK(d), PageOK(p), LinksStay(d, e), LinksOK(p, F, d)
    PROVE  LinksOK(p, F, e)
<1>1. /\ Len(e.tokens) = Len(d.tokens) /\ \A i \in 1..Len(d.tokens) : SameLinks(d.tokens[i], e.tokens[i])
      /\ \A k \in Keys : e.records[k] \in {d.records[k], 0}
  BY DEF LinksStay
<1>2. /\ \A r \in F : RequestOK(r, p, d)
      /\ \A k \in Keys : k >= p.next => d.records[k] = 0
      /\ \A s \in Manage : ManageOK(p, F, d, s)
      /\ SubmitOK(p, F, d) /\ CookieOK(p, F, d)
  BY DEF LinksOK
<1>3. \A i \in 1..Len(d.tokens) : Secret(F, e, i) <=> Secret(F, d, i)
  BY <1>1 DEF Secret, SameLinks
<1>4. \A i : Root(e, i) <=> Root(d, i)
  BY <1>1 DEF Root, SameLinks
<1>5. \A r \in F : RequestOK(r, p, e)
  BY <1>1, <1>2 DEF RequestOK
<1>6. \A k \in Keys : k >= p.next => e.records[k] = 0
  BY <1>1, <1>2
<1>7. ASSUME NEW s \in Manage
      PROVE  ManageOK(p, F, e, s)
  <2>. DEFINE q == p.conn[s].req
  <2>1. ManageOK(p, F, d, s)
    BY <1>2
  <2>2. CASE q.token \in 1..Len(d.tokens)
    <3>1. SameLinks(d.tokens[q.token], e.tokens[q.token])
      BY <1>1, <2>2
    <3>2. d.tokens[q.token].used => d.tokens[q.token].next \in 1..Len(d.tokens)
      BY <2>2, TokenFacts
    <3>. QED
      BY <1>1, <1>3, <2>1, <2>2, <3>1, <3>2 DEF ManageOK, SpentFor, SameLinks
  <2>3. CASE q.token \notin 1..Len(d.tokens)
    BY <2>1, <2>3 DEF ManageOK, Spending
  <2>. QED
    BY <2>2, <2>3
<1>8. SubmitOK(p, F, e)
  <2>. DEFINE a == p.attempt["submit"]
              i == p.conn["submit"].token
  <2>1. ASSUME a.op = "submit", e.records[a.n] # 0, NEW j \in 1..Len(e.tokens),
               e.tokens[j].visit = e.records[a.n], Root(e, j)
        PROVE  Secret(F, e, j)
    <3>0. a.n \in Keys
      BY <2>1, SubmitKey
    <3>1. d.records[a.n] = e.records[a.n] /\ d.tokens[j].visit = d.records[a.n] /\ Root(d, j)
      BY <1>1, <1>4, <2>1, <3>0 DEF SameLinks
    <3>. QED
      BY <1>1, <1>2, <1>3, <2>1, <3>1 DEF SubmitOK
  <2>. QED
    BY <1>1, <1>2, <1>3, <1>4, <2>1 DEF SubmitOK
<1>9. CookieOK(p, F, e)
  <2>1. CASE p.cookie = 0
    BY <2>1 DEF CookieOK
  <2>2. CASE p.cookie # 0
    <3>1. p.cookie \in 1..Len(d.tokens)
      BY <1>2, <2>2 DEF CookieOK
    <3>2. SameLinks(d.tokens[p.cookie], e.tokens[p.cookie])
      BY <1>1, <3>1
    <3>3. d.tokens[p.cookie].used => d.tokens[p.cookie].next \in 1..Len(d.tokens)
      BY <3>1, TokenFacts
    <3>. QED
      BY <1>1, <1>2, <1>3, <2>2, <3>1, <3>2, <3>3 DEF CookieOK, SameLinks
  <2>. QED
    BY <2>1, <2>2
<1>. QED
  BY <1>5, <1>6, <1>7, <1>8, <1>9 DEF LinksOK

\* The root of a new visit is known to nobody.
LEMMA LinksRooted ==
    ASSUME NEW d, NEW e, NEW p, NEW F, NEW r \in F,
           RowsOK(d), RowsOK(e), PageOK(p), LinkRooted(d, e, r), LinksOK(p, F, d)
    PROVE  LinksOK(p, F, e)
<1>. DEFINE V == Len(d.visits) + 1
            N == Len(d.tokens) + 1
<1>1. d \in DbRows /\ r.key.n \in Keys /\ r.key.n < p.next
  BY DEF RowsOK, LinksOK, RequestOK
<1>2. /\ Len(d.tokens) \in Nat /\ Len(d.visits) \in Nat /\ d.tokens \in Seq(TokenRows)
      /\ d.records \in [Keys -> Nat]
  BY <1>1, RowFacts
<1>3. Token(V) \in TokenRows /\ Token(V).visit = V /\ ~Token(V).used /\ Token(V).next = 0
  BY <1>2, GuestAssumption DEF Token, TokenRows, KeyRows
<1>4. /\ Len(e.tokens) = N /\ \A i \in 1..Len(d.tokens) : e.tokens[i] = d.tokens[i]
      /\ e.tokens[N] = Token(V)
  BY <1>2, <1>3, AppendProperties DEF LinkRooted
<1>5. e.records[r.key.n] = V /\ \A k \in Keys : k # r.key.n => e.records[k] = d.records[k]
  BY <1>1, <1>2 DEF LinkRooted
<1>6. /\ \A q \in F : RequestOK(q, p, d)
      /\ \A k \in Keys : k >= p.next => d.records[k] = 0
      /\ \A s \in Manage : ManageOK(p, F, d, s)
      /\ SubmitOK(p, F, d) /\ CookieOK(p, F, d)
  BY DEF LinksOK
<1>7. \A i \in 1..Len(d.tokens) : i \in 1..N /\ i # N /\ (Secret(F, e, i) <=> Secret(F, d, i))
  BY <1>2, <1>4 DEF Secret
<1>8. Secret(F, e, N) /\ N \in 1..N /\ \A i \in 1..N : i \in 1..Len(d.tokens) \/ i = N
  BY <1>2, <1>3, <1>4, <1>6 DEF Secret, RequestOK
<1>9. \A i \in 1..Len(d.tokens) : Root(e, i) <=> Root(d, i)
  <2>1. ASSUME NEW i \in 1..Len(d.tokens)
        PROVE  Root(e, i) <=> Root(d, i)
    <3>1. \A j \in 1..Len(e.tokens) : e.tokens[j].next # i \/ j \in 1..Len(d.tokens)
      BY <1>3, <1>4, <1>8
    <3>. QED
      BY <1>2, <1>4, <3>1, SMTT(30) DEF Root
  <2>. QED
    BY <2>1
<1>10. \A q \in F : RequestOK(q, p, e)
  BY <1>4, <1>6, <1>7 DEF RequestOK
<1>11. \A k \in Keys : k >= p.next => e.records[k] = 0
  <2>1. ASSUME NEW k \in Keys, k >= p.next
        PROVE  e.records[k] = 0
    <3>1. k # r.key.n
      BY <1>1, <2>1 DEF PageOK, PageRows, Keys
    <3>. QED
      BY <1>5, <1>6, <2>1, <3>1
  <2>. QED
    BY <2>1
<1>12. ASSUME NEW s \in Manage
       PROVE  ManageOK(p, F, e, s)
  <2>. DEFINE q == p.conn[s].req
  <2>1. ManageOK(p, F, d, s)
    BY <1>6
  <2>2. CASE q.token \in 1..Len(d.tokens)
    <3>1. e.tokens[q.token] = d.tokens[q.token] /\ q.token \in 1..Len(e.tokens)
      BY <1>4, <1>7, <2>2
    <3>2. d.tokens[q.token].used => d.tokens[q.token].next \in 1..Len(d.tokens)
      BY <2>2, TokenFacts
    <3>. QED
      BY <1>7, <2>1, <3>1, <3>2 DEF ManageOK, SpentFor
  <2>3. CASE q.token \notin 1..Len(d.tokens)
    BY <2>1, <2>3 DEF ManageOK, Spending
  <2>. QED
    BY <2>2, <2>3
<1>13. SubmitOK(p, F, e)
  <2>. DEFINE a == p.attempt["submit"]
              i == p.conn["submit"].token
  <2>1. ASSUME a.op = "submit", e.records[a.n] # 0, NEW j \in 1..Len(e.tokens),
               e.tokens[j].visit = e.records[a.n], Root(e, j)
        PROVE  Secret(F, e, j)
    <3>1. a.n \in Keys
      BY <2>1, SubmitKey
    <3>2. CASE j = N
      BY <1>8, <3>2
    <3>3. CASE j \in 1..Len(d.tokens)
      <4>1. a.n # r.key.n
        <5>1. d.tokens[j].visit \in 1..Len(d.visits)
          BY <3>3, TokenFacts
        <5>2. d.tokens[j].visit = e.records[a.n]
          BY <1>4, <2>1, <3>3
        <5>. QED
          BY <1>2, <1>5, <5>1, <5>2
      <4>2. d.records[a.n] = e.records[a.n] /\ d.tokens[j].visit = d.records[a.n] /\ Root(d, j)
        BY <1>4, <1>5, <1>9, <2>1, <3>1, <3>3, <4>1
      <4>. QED
        BY <1>6, <1>7, <2>1, <3>3, <4>2 DEF SubmitOK
    <3>. QED
      BY <1>4, <1>8, <3>2, <3>3
  <2>2. ASSUME p.conn["submit"].phase = "answered", p.conn["submit"].code = "ok", a.op = "submit"
        PROVE  i \in 1..Len(e.tokens) /\ Root(e, i) /\ Secret(F, e, i)
    BY <1>4, <1>6, <1>7, <1>9, <2>2 DEF SubmitOK
  <2>. QED
    BY <2>1, <2>2 DEF SubmitOK
<1>14. CookieOK(p, F, e)
  <2>1. CASE p.cookie = 0
    BY <2>1 DEF CookieOK
  <2>2. CASE p.cookie # 0
    <3>1. p.cookie \in 1..Len(d.tokens)
      BY <1>6, <2>2 DEF CookieOK
    <3>2. e.tokens[p.cookie] = d.tokens[p.cookie] /\ p.cookie \in 1..Len(e.tokens)
      BY <1>4, <1>7, <3>1
    <3>3. d.tokens[p.cookie].used => d.tokens[p.cookie].next \in 1..Len(d.tokens)
      BY <3>1, TokenFacts
    <3>. QED
      BY <1>6, <1>7, <2>2, <3>2, <3>3 DEF CookieOK
  <2>. QED
    BY <2>1, <2>2
<1>. QED
  BY <1>10, <1>11, <1>12, <1>13, <1>14 DEF LinksOK

\* A request spends the token that it carries; the successor is known to nobody.
LEMMA LinksSpent ==
    ASSUME NEW d, NEW e, NEW p, NEW F, NEW r \in F,
           RowsOK(d), RowsOK(e), PageOK(p), p.cookie \in 0..Len(d.tokens), LinkSpent(d, e, r), LinksOK(p, F, d)
    PROVE  LinksOK(p, F, e)
<1>. DEFINE N == Len(d.tokens) + 1
<1>1. Len(d.tokens) \in Nat /\ r.token \in 1..Len(d.tokens)
  BY RowFacts DEF RowsOK, LinksOK, RequestOK, LinkSpent
<1>2. /\ Len(e.tokens) = N /\ ~d.tokens[r.token].used
      /\ \A i \in 1..Len(d.tokens) : i # r.token => SameLinks(d.tokens[i], e.tokens[i])
      /\ \A k \in Keys : e.records[k] \in {d.records[k], 0}
  BY DEF LinkSpent, Live
<1>3. /\ e.tokens[r.token].used /\ e.tokens[r.token].for = r.key /\ e.tokens[r.token].next = N
      /\ e.tokens[r.token].visit = d.tokens[r.token].visit
      /\ ~e.tokens[N].used /\ e.tokens[N].next = 0 /\ e.tokens[N].visit = d.tokens[r.token].visit
  BY DEF LinkSpent
<1>4. /\ \A q \in F : RequestOK(q, p, d)
      /\ \A k \in Keys : k >= p.next => d.records[k] = 0
      /\ \A s \in Manage : ManageOK(p, F, d, s)
      /\ SubmitOK(p, F, d) /\ CookieOK(p, F, d)
  BY DEF LinksOK
<1>5. N \in 1..N /\ N # 0 /\ \A i \in 1..N : i \in 1..Len(d.tokens) \/ i = N
  BY <1>1
<1>6. \A i \in 1..Len(d.tokens) : i \in 1..N /\ i # N /\ i # 0
  BY <1>1
<1>7. \A i \in 1..Len(d.tokens) : Secret(F, d, i) => i # r.token /\ Secret(F, e, i)
  BY <1>2 DEF Secret, SameLinks
<1>8. Secret(F, e, N)
  BY <1>1, <1>3, <1>4 DEF Secret, RequestOK
<1>9. \A i \in 1..Len(d.tokens) : Root(e, i) <=> Root(d, i)
  <2>1. ASSUME NEW i \in 1..Len(d.tokens)
        PROVE  Root(e, i) <=> Root(d, i)
    <3>1. d.tokens[r.token].next # i /\ e.tokens[r.token].next # i /\ e.tokens[N].next # i
      BY <1>1, <1>2, <1>3, <1>6, TokenFacts
    <3>2. \A j \in 1..Len(d.tokens) : d.tokens[j].next = i <=> e.tokens[j].next = i
      BY <1>2, <3>1 DEF SameLinks
    <3>. QED
      BY <1>2, <1>5, <1>6, <3>1, <3>2 DEF Root
  <2>. QED
    BY <2>1
<1>10. ~Root(e, N)
  BY <1>1, <1>2, <1>3, <1>6 DEF Root
<1>11. \A q \in F : RequestOK(q, p, e)
  BY <1>2, <1>4, <1>6 DEF RequestOK
<1>12. \A k \in Keys : k >= p.next => e.records[k] = 0
  BY <1>2, <1>4
<1>13. ASSUME NEW s \in Manage
       PROVE  ManageOK(p, F, e, s)
  <2>. DEFINE q == p.conn[s].req
  <2>1. ManageOK(p, F, d, s)
    BY <1>4
  <2>2. CASE q.token = r.token
    <3>1. ~SpentFor(d, q)
      BY <1>2, <2>2 DEF SpentFor
    <3>2. ~(p.conn[s].phase = "answered" /\ p.conn[s].code = "ok")
      BY <2>1, <3>1 DEF ManageOK
    <3>3. q.token \in 1..Len(e.tokens) /\ e.tokens[q.token].next = N /\ N # p.cookie
      BY <1>1, <1>2, <1>3, <1>6, <2>2
    <3>. QED
      BY <1>8, <3>2, <3>3 DEF ManageOK
  <2>3. CASE q.token \in 1..Len(d.tokens) /\ q.token # r.token
    <3>1. SameLinks(d.tokens[q.token], e.tokens[q.token]) /\ q.token \in 1..Len(e.tokens)
      BY <1>2, <1>6, <2>3
    <3>2. d.tokens[q.token].used => d.tokens[q.token].next \in 1..Len(d.tokens)
      BY <2>3, TokenFacts
    <3>. QED
      BY <1>7, <2>1, <3>1, <3>2 DEF ManageOK, SpentFor, SameLinks
  <2>4. CASE q.token \notin 1..Len(d.tokens)
    BY <2>1, <2>4 DEF ManageOK, Spending
  <2>. QED
    BY <2>2, <2>3, <2>4
<1>14. SubmitOK(p, F, e)
  <2>. DEFINE a == p.attempt["submit"]
              i == p.conn["submit"].token
  <2>1. ASSUME a.op = "submit", e.records[a.n] # 0, NEW j \in 1..Len(e.tokens),
               e.tokens[j].visit = e.records[a.n], Root(e, j)
        PROVE  Secret(F, e, j)
    <3>1. a.n \in Keys
      BY <2>1, SubmitKey
    <3>2. j \in 1..Len(d.tokens)
      BY <1>2, <1>5, <1>10, <2>1
    <3>3. e.tokens[j].visit = d.tokens[j].visit
      BY <1>2, <1>3, <3>2 DEF SameLinks
    <3>4. d.records[a.n] = e.records[a.n] /\ d.tokens[j].visit = d.records[a.n] /\ Root(d, j)
      BY <1>2, <1>9, <2>1, <3>1, <3>2, <3>3
    <3>. QED
      BY <1>4, <1>7, <2>1, <3>2, <3>4 DEF SubmitOK
  <2>2. ASSUME p.conn["submit"].phase = "answered", p.conn["submit"].code = "ok", a.op = "submit"
        PROVE  i \in 1..Len(e.tokens) /\ Root(e, i) /\ Secret(F, e, i)
    BY <1>2, <1>4, <1>6, <1>7, <1>9, <2>2 DEF SubmitOK
  <2>. QED
    BY <2>1, <2>2 DEF SubmitOK
<1>15. CookieOK(p, F, e)
  <2>1. CASE p.cookie = 0
    BY <2>1 DEF CookieOK
  <2>2. CASE p.cookie = r.token
    BY <1>1, <1>2, <1>3, <1>4, <1>6, <1>8, <2>2 DEF CookieOK
  <2>3. CASE p.cookie # 0 /\ p.cookie # r.token
    <3>1. p.cookie \in 1..Len(d.tokens)
      BY <1>4, <2>3 DEF CookieOK
    <3>2. SameLinks(d.tokens[p.cookie], e.tokens[p.cookie]) /\ p.cookie \in 1..Len(e.tokens)
      BY <1>2, <1>6, <2>3, <3>1
    <3>3. d.tokens[p.cookie].used => d.tokens[p.cookie].next \in 1..Len(d.tokens)
      BY <3>1, TokenFacts
    <3>. QED
      BY <1>4, <1>7, <2>3, <3>2, <3>3 DEF CookieOK, SameLinks
  <2>. QED
    BY <2>1, <2>2, <2>3
<1>. QED
  BY <1>11, <1>12, <1>13, <1>14, <1>15 DEF LinksOK

LEMMA LinksMove ==
    ASSUME NEW d, NEW e, NEW p, NEW F, NEW r \in F,
           RowsOK(d), RowsOK(e), PageOK(p), p.cookie \in 0..Len(d.tokens), Moved(d, e, r), LinksOK(p, F, d)
    PROVE  LinksOK(p, F, e) /\ p.cookie \in 0..Len(e.tokens)
<1>1. LinksOK(p, F, e)
  BY LinksKept, LinksRooted, LinksSpent DEF Moved
<1>2. Len(d.tokens) \in Nat /\ d.tokens \in Seq(TokenRows) /\ Len(d.visits) \in Nat
  BY RowFacts DEF RowsOK
<1>3. Len(e.tokens) \in {Len(d.tokens), Len(d.tokens) + 1}
  <2>1. CASE LinkRooted(d, e, r)
    BY <1>2, <2>1 DEF LinkRooted
  <2>. QED
    BY <2>1 DEF Moved, LinksStay, LinkSpent
<1>. QED
  BY <1>1, <1>2, <1>3

-----------------------------------------------------------------------------
(* What the page does with the links.                                       *)

LEMMA SlotKey ==
    ASSUME NEW p, PageOK(p), NEW s \in Slots, p.conn[s].phase # "idle"
    PROVE  /\ p.conn[s].req.key = p.attempt[s] /\ p.attempt[s] # NoKey
           /\ p.attempt[s].n \in Keys /\ p.attempt[s].n < p.next
           /\ s \in Manage => p.attempt[s].op = s
           /\ s = "submit" => p.attempt[s].op \in {"submit", "queue"}
           /\ s = "hold" => p.attempt[s].op = "hold"
<1>1. SlotOK(p, s) /\ p.conn[s] # Idle
  BY DEF PageOK, Idle
<1>2. /\ p.conn[s].req.key = p.attempt[s] /\ p.attempt[s] # NoKey
      /\ p.attempt[s].n \in Keys /\ p.attempt[s].n < p.next /\ SlotOf(p.attempt[s].op) = s
  BY <1>1 DEF SlotOK
<1>. QED
  BY <1>2 DEF SlotOf, Manage

\* The releases of holds, and requests that are over, do not matter.
LEMMA LinksOfOthers ==
    ASSUME NEW d, NEW p, NEW F, NEW G, RowsOK(d), LinksOK(p, F, d),
           \A r \in G : r \in F \/ (RequestOK(r, p, d) /\ r.token = 0)
    PROVE  LinksOK(p, G, d)
<1>1. /\ \A r \in F : RequestOK(r, p, d)
      /\ \A k \in Keys : k >= p.next => d.records[k] = 0
      /\ \A s \in Manage : ManageOK(p, F, d, s)
      /\ SubmitOK(p, F, d) /\ CookieOK(p, F, d)
  BY DEF LinksOK
<1>2. \A i \in 1..Len(d.tokens) : i # 0
  BY TokenFacts
<1>3. \A i \in 1..Len(d.tokens) : Secret(F, d, i) => Secret(G, d, i)
  BY <1>2 DEF Secret
<1>4. \A i \in 1..Len(d.tokens) : d.tokens[i].used => d.tokens[i].next \in 1..Len(d.tokens)
  BY TokenFacts
<1>5. ASSUME NEW s \in Manage
      PROVE  ManageOK(p, G, d, s)
  BY <1>1, <1>3, <1>4 DEF ManageOK, SpentFor
<1>6. SubmitOK(p, G, d)
  BY <1>1, <1>3 DEF SubmitOK
<1>7. CookieOK(p, G, d)
  <2>1. CASE p.cookie = 0
    BY <2>1 DEF CookieOK
  <2>2. CASE p.cookie # 0
    <3>1. p.cookie \in 1..Len(d.tokens) /\ (d.tokens[p.cookie].used => Secret(G, d, d.tokens[p.cookie].next))
      BY <1>1, <1>3, <1>4, <2>2 DEF CookieOK
    <3>2. \A r \in G : r.token = p.cookie => r \in F
      BY <2>2
    <3>. QED
      BY <1>1, <2>2, <3>1, <3>2 DEF CookieOK
  <2>. QED
    BY <2>1, <2>2
<1>. QED
  BY <1>1, <1>5, <1>6, <1>7 DEF LinksOK

LEMMA LinksElsewhere ==
    ASSUME NEW d, NEW p, NEW q, NEW F, LinksOK(p, F, d),
           q.next = p.next, q.cookie = p.cookie, q.forgot = p.forgot,
           q.attempt = p.attempt, q.conn = p.conn
    PROVE  LinksOK(q, F, d)
<1>1. \A r \in F : RequestOK(r, q, d)
  BY DEF LinksOK, RequestOK
<1>2. ASSUME NEW s \in Manage
      PROVE  ManageOK(q, F, d, s)
  BY DEF LinksOK, ManageOK, Spending
<1>3. SubmitOK(q, F, d) /\ CookieOK(q, F, d)
  BY DEF LinksOK, SubmitOK, CookieOK
<1>. QED
  BY <1>1, <1>2, <1>3 DEF LinksOK

\* The page is told what its request has left.
LEMMA LinksTold ==
    ASSUME NEW d, NEW p, NEW q, NEW F, PageOK(p), LinksOK(p, F, d),
           NEW s \in Slots, p.conn[s].phase = "sent", NEW o, o.db = d, Told(p.conn[s].req, o),
           q.next = p.next, q.cookie = p.cookie, q.forgot = p.forgot, q.attempt = p.attempt,
           \A t \in Slots : t # s => q.conn[t] = p.conn[t],
           q.conn[s].phase = "answered", q.conn[s].req = p.conn[s].req,
           q.conn[s].code = o.code, q.conn[s].token = o.token
    PROVE  LinksOK(q, F, d)
<1>1. Manage \subseteq Slots /\ "submit" \in Slots /\ "submit" \notin Manage
  BY DEF Manage, Slots
<1>2. /\ p.conn[s].req.key = p.attempt[s]
      /\ s \in Manage => p.attempt[s].op = s
  BY SlotKey
<1>3. /\ q.conn[s].phase = "answered" /\ q.conn[s].req = p.conn[s].req
      /\ q.conn[s].code = o.code /\ q.conn[s].token = o.token
  OBVIOUS
<1>4. \A r \in F : RequestOK(r, q, d)
  BY DEF LinksOK, RequestOK
<1>5. ASSUME NEW t \in Manage
      PROVE  ManageOK(q, F, d, t)
  <2>1. ManageOK(p, F, d, t)
    BY DEF LinksOK
  <2>2. CASE t # s
    BY <1>1, <2>1, <2>2 DEF ManageOK, Spending
  <2>3. CASE t = s
    <3>1. p.conn[s].req.key.op \in Manage
      BY <1>2, <2>3
    <3>2. o.code = "ok" => SpentFor(d, p.conn[s].req) /\ o.token = d.tokens[p.conn[s].req.token].next
      BY <3>1 DEF Told
    <3>3. Spending(p, t)
      BY <2>3 DEF Spending
    <3>. QED
      BY <1>3, <2>1, <2>3, <3>2, <3>3 DEF ManageOK
  <2>. QED
    BY <2>2, <2>3
<1>6. SubmitOK(q, F, d)
  <2>1. SubmitOK(p, F, d)
    BY DEF LinksOK
  <2>2. CASE s # "submit"
    BY <1>1, <2>1, <2>2 DEF SubmitOK
  <2>3. CASE s = "submit"
    <3>1. ASSUME o.code = "ok", p.attempt["submit"].op = "submit"
          PROVE  o.token \in 1..Len(d.tokens) /\ Root(d, o.token) /\ Secret(F, d, o.token)
      BY <1>2, <2>1, <2>3, <3>1 DEF SubmitOK, Told
    <3>. QED
      BY <1>3, <2>1, <2>3, <3>1 DEF SubmitOK
  <2>. QED
    BY <2>2, <2>3
<1>7. CookieOK(q, F, d)
  BY DEF LinksOK, CookieOK
<1>. QED
  BY <1>4, <1>5, <1>6, <1>7 DEF LinksOK

\* A token that the page learns, and knows from no other request.
Learnt(p, F, d, s, k) ==
    /\ k \in 1..Len(d.tokens) /\ Secret(F, d, k)
    /\ \A t \in Manage : t # s /\ Spending(p, t) /\ SpentFor(d, p.conn[t].req)
                         => d.tokens[p.conn[t].req.token].next # k

\* A connection is over, and the page has taken the cookie of its answer or not.
LEMMA LinksSettled ==
    ASSUME NEW d, NEW p, NEW q, NEW F, RowsOK(d), PageOK(p), LinksOK(p, F, d), NEW s \in Slots,
           q.cookie \in {p.cookie, 0} \/ Learnt(p, F, d, s, q.cookie),
           q.next = p.next, q.forgot = (p.forgot /\ q.cookie = p.cookie),
           \A t \in Slots : t # s => q.conn[t] = p.conn[t] /\ q.attempt[t] = p.attempt[t],
           q.conn[s] = Idle, q.attempt[s] \in {p.attempt[s], NoKey},
           q.attempt[s] = p.attempt[s] \/ s \notin Manage \/ q.cookie = 0 \/ Learnt(p, F, d, s, q.cookie)
    PROVE  LinksOK(q, F, d)
<1>1. Manage \subseteq Slots /\ "submit" \in Slots /\ "submit" \notin Manage
  BY DEF Manage, Slots
<1>2. \A r \in F : RequestOK(r, q, d)
  BY DEF LinksOK, RequestOK
<1>3. ASSUME NEW t \in Manage
      PROVE  ManageOK(q, F, d, t)
  <2>1. ManageOK(p, F, d, t)
    BY DEF LinksOK
  <2>2. CASE t # s
    <3>1. q.conn[t] = p.conn[t]
      BY <1>1, <2>2
    <3>2. ASSUME Spending(p, t), SpentFor(d, p.conn[t].req)
          PROVE  d.tokens[p.conn[t].req.token].next # q.cookie
      <4>1. /\ p.conn[t].req.token \in 1..Len(d.tokens)
            /\ d.tokens[p.conn[t].req.token].next # p.cookie
        BY <2>1, <3>2 DEF ManageOK
      <4>2. d.tokens[p.conn[t].req.token].next \in 1..Len(d.tokens)
        BY <3>2, <4>1, TokenFacts DEF SpentFor
      <4>3. d.tokens[p.conn[t].req.token].next # 0
        BY <4>2, TokenFacts
      <4>. QED
        BY <2>2, <3>2, <4>1, <4>3 DEF Learnt
    <3>. QED
      BY <2>1, <3>1, <3>2 DEF ManageOK, Spending
  <2>3. CASE t = s
    BY <2>3 DEF ManageOK, Spending, Idle
  <2>. QED
    BY <2>2, <2>3
<1>4. SubmitOK(q, F, d)
  <2>1. SubmitOK(p, F, d)
    BY DEF LinksOK
  <2>2. q.attempt["submit"] \in {p.attempt["submit"], NoKey} /\ q.conn["submit"] \in {p.conn["submit"], Idle}
    BY <1>1
  <2>3. NoKey.op # "submit" /\ Idle.phase # "answered"
    BY DEF NoKey, Idle
  <2>. QED
    BY <2>1, <2>2, <2>3 DEF SubmitOK
<1>5. CookieOK(q, F, d)
  <2>1. CASE q.cookie = 0
    BY <2>1 DEF CookieOK
  <2>2. CASE Learnt(p, F, d, s, q.cookie)
    BY <2>2 DEF CookieOK, Learnt, Secret
  <2>3. CASE q.cookie = p.cookie /\ q.cookie # 0 /\ ~Learnt(p, F, d, s, q.cookie)
    <3>1. CookieOK(p, F, d) /\ q.forgot = p.forgot
      BY <2>3 DEF LinksOK, PageOK, PageRows
    <3>2. \A t \in Manage : q.attempt[t] = p.attempt[t]
      BY <1>1, <2>3
    <3>3. p.cookie \in 1..Len(d.tokens)
      BY <2>3, <3>1 DEF CookieOK
    <3>4. \A r \in F : r.token = p.cookie => r.key.op \in Manage
      <4>1. p.cookie # 0
        BY <2>3
      <4>. QED
        BY <4>1 DEF LinksOK, RequestOK
    <3>5. d.tokens[p.cookie].used => d.tokens[p.cookie].for.op \in Manage
      BY <3>3, TokenFacts
    <3>. QED
      BY <2>3, <3>1, <3>2, <3>3, <3>4, <3>5 DEF CookieOK
  <2>. QED
    BY <2>1, <2>2, <2>3
<1>. QED
  BY <1>2, <1>3, <1>4, <1>5 DEF LinksOK

\* A button is pressed: the request carries the cookie, if it carries any token.
Pressed(p, q, op, fresh, req) ==
    LET s == SlotOf(op)
    IN /\ p.conn[s] = Idle
       /\ req \in RequestRows
       /\ IF fresh THEN req.key = [op |-> op, n |-> p.next] /\ p.next \in Keys /\ q.next = p.next + 1
                   ELSE req.key = p.attempt[s] /\ p.attempt[s].op = op /\ q.next = p.next
       /\ IF op \in Manage THEN req.token = p.cookie /\ p.cookie # 0 /\ p.step = "result" ELSE req.token = 0
       /\ op = "submit" => req.hold \in Keys /\ p.step = "details"
       /\ op = "queue" => p.step = "details"
       /\ fresh /\ op \in Manage => op = "edit" \/ p.attempt[s].op # op
       /\ q.attempt = [p.attempt EXCEPT ![s] = req.key]
       /\ q.conn = [p.conn EXCEPT ![s] = [Idle EXCEPT !.phase = "sent", !.req = req]]
       /\ q.cookie = p.cookie /\ q.step = p.step /\ q.hold = p.hold
       /\ q.forgot = (p.forgot \/ (op = "edit" /\ fresh /\ p.attempt[s] # NoKey))

LEMMA PressedFacts ==
    ASSUME NEW p, NEW q, PageOK(p), NEW op \in Calls, NEW fresh \in BOOLEAN, NEW req,
           Pressed(p, q, op, fresh, req)
    PROVE  /\ SlotOf(op) \in Slots /\ op # "none" /\ op # "release"
           /\ op \in Manage => SlotOf(op) = op
           /\ op \notin Manage => SlotOf(op) \in {"hold", "submit"} /\ SlotOf(op) \notin Manage
           /\ (SlotOf(op) = "submit" <=> op \in {"submit", "queue"})
           /\ req.key.op = op /\ req.key.n \in Keys /\ req.key.n < q.next
           /\ p.next \in Nat /\ q.next \in Nat /\ p.next <= q.next
           /\ \A t \in Slots : t # SlotOf(op) => q.conn[t] = p.conn[t] /\ q.attempt[t] = p.attempt[t]
           /\ q.attempt[SlotOf(op)] = req.key
           /\ q.conn[SlotOf(op)].phase = "sent" /\ q.conn[SlotOf(op)].req = req
<1>. DEFINE s == SlotOf(op)
<1>1. /\ s \in Slots /\ op # "none" /\ op # "release"
      /\ op \in Manage => s = op
      /\ op \notin Manage => s \in {"hold", "submit"} /\ s \notin Manage
      /\ (s = "submit" <=> op \in {"submit", "queue"})
  BY DEF SlotOf, Calls, Manage, Slots
<1>. HIDE DEF s
<1>2. /\ p.attempt \in [Slots -> KeyRows] /\ p.conn \in [Slots -> ConnRows] /\ SlotOK(p, s)
      /\ p.next \in Nat
  BY <1>1, GuestAssumption DEF PageOK, PageRows
<1>3. /\ q.attempt = [p.attempt EXCEPT ![s] = req.key]
      /\ q.conn = [p.conn EXCEPT ![s] = [Idle EXCEPT !.phase = "sent", !.req = req]]
      /\ IF fresh THEN req.key = [op |-> op, n |-> p.next] /\ p.next \in Keys /\ q.next = p.next + 1
                  ELSE req.key = p.attempt[s] /\ p.attempt[s].op = op /\ q.next = p.next
  BY DEF Pressed, s
<1>4. q.attempt[s] = req.key /\ q.conn[s].phase = "sent" /\ q.conn[s].req = req
  BY <1>1, <1>2, <1>3 DEF Idle
<1>5. req.key.op = op /\ req.key.n \in Keys /\ req.key.n < q.next /\ q.next \in Nat /\ p.next <= q.next
  BY <1>1, <1>2, <1>3 DEF SlotOK, NoKey
<1>6. \A t \in Slots : t # s => q.conn[t] = p.conn[t] /\ q.attempt[t] = p.attempt[t]
  BY <1>2, <1>3
<1>. QED
  BY <1>1, <1>2, <1>4, <1>5, <1>6 DEF s

LEMMA LinksPressed ==
    ASSUME NEW d, NEW p, NEW q, NEW F, RowsOK(d), PageOK(p), LinksOK(p, F, d),
           NEW op \in Calls, NEW fresh \in BOOLEAN, NEW req, Pressed(p, q, op, fresh, req)
    PROVE  LinksOK(q, F \cup {req}, d)
<1>. DEFINE s == SlotOf(op)
            G == F \cup {req}
<1>1. /\ s \in Slots /\ op # "none" /\ op # "release"
      /\ op \in Manage => s = op
      /\ op \notin Manage => s \in {"hold", "submit"} /\ s \notin Manage
      /\ (s = "submit" <=> op \in {"submit", "queue"})
      /\ req.key.op = op /\ req.key.n \in Keys /\ req.key.n < q.next
      /\ p.next \in Nat /\ q.next \in Nat /\ p.next <= q.next
      /\ \A t \in Slots : t # s => q.conn[t] = p.conn[t] /\ q.attempt[t] = p.attempt[t]
      /\ q.attempt[s] = req.key
      /\ q.conn[s].phase = "sent" /\ q.conn[s].req = req
  BY PressedFacts
<1>2. /\ req \in RequestRows
      /\ IF fresh THEN req.key = [op |-> op, n |-> p.next] /\ p.next \in Keys /\ q.next = p.next + 1
                  ELSE req.key = p.attempt[s] /\ p.attempt[s].op = op /\ q.next = p.next
      /\ IF op \in Manage THEN req.token = p.cookie /\ p.cookie # 0 /\ p.step = "result" ELSE req.token = 0
      /\ op = "submit" => req.hold \in Keys
      /\ fresh /\ op \in Manage => op = "edit" \/ p.attempt[s].op # op
      /\ q.cookie = p.cookie
      /\ q.forgot = (p.forgot \/ (op = "edit" /\ fresh /\ p.attempt[s] # NoKey))
  BY DEF Pressed
<1>. HIDE DEF s
<1>3. /\ \A r \in F : RequestOK(r, p, d)
      /\ \A k \in Keys : k >= p.next => d.records[k] = 0
      /\ \A t \in Manage : ManageOK(p, F, d, t)
      /\ SubmitOK(p, F, d) /\ CookieOK(p, F, d)
  BY DEF LinksOK
<1>4. Manage \subseteq Slots /\ "submit" \in Slots /\ "submit" \notin Manage /\ "hold" \notin Manage
  BY DEF Manage, Slots
<1>5. \A i \in 1..Len(d.tokens) : /\ i # 0
                                  /\ Secret(F, d, i) /\ i # req.token => Secret(G, d, i)
                                  /\ d.tokens[i].used => d.tokens[i].next \in 1..Len(d.tokens)
                                                         /\ d.tokens[i].for.op \in Manage
  BY TokenFacts DEF Secret
<1>6. \A r \in G : RequestOK(r, q, d)
  <2>1. ASSUME NEW r \in F
        PROVE  RequestOK(r, q, d)
    <3>1. RequestOK(r, p, d)
      BY <1>3
    <3>2. r.key.n \in Nat
      BY <3>1 DEF RequestOK, Keys
    <3>. QED
      BY <1>1, <3>1, <3>2 DEF RequestOK
  <2>2. RequestOK(req, q, d)
    BY <1>1, <1>2, <1>3 DEF RequestOK, CookieOK
  <2>. QED
    BY <2>1, <2>2
<1>7. \A k \in Keys : k >= q.next => d.records[k] = 0
  <2>1. ASSUME NEW k \in Keys, k >= q.next
        PROVE  d.records[k] = 0
    <3>1. k \in Nat
      BY DEF Keys
    <3>. QED
      BY <1>1, <1>3, <2>1, <3>1
  <2>. QED
    BY <2>1
<1>8. ASSUME NEW t \in Manage
      PROVE  ManageOK(q, G, d, t)
  <2>1. CASE t # s
    <3>1. ManageOK(p, F, d, t) /\ q.conn[t] = p.conn[t]
      BY <1>1, <1>3, <1>4, <2>1
    <3>2. ASSUME Spending(p, t), SpentFor(d, p.conn[t].req)
          PROVE  Secret(G, d, d.tokens[p.conn[t].req.token].next)
      <4>1. /\ p.conn[t].req.token \in 1..Len(d.tokens)
            /\ Secret(F, d, d.tokens[p.conn[t].req.token].next)
            /\ d.tokens[p.conn[t].req.token].next # p.cookie
        BY <3>1, <3>2 DEF ManageOK
      <4>2. d.tokens[p.conn[t].req.token].next \in 1..Len(d.tokens)
        BY <1>5, <3>2, <4>1 DEF SpentFor
      <4>. QED
        BY <1>2, <1>5, <4>1, <4>2
    <3>. QED
      BY <1>2, <3>1, <3>2 DEF ManageOK, Spending
  <2>2. CASE t = s
    <3>1. op = s /\ op \in Manage /\ req.token = p.cookie /\ p.cookie \in 1..Len(d.tokens)
      BY <1>1, <1>2, <1>3, <2>2 DEF CookieOK
    <3>2. ASSUME SpentFor(d, req)
          PROVE  Secret(G, d, d.tokens[req.token].next) /\ d.tokens[req.token].next # p.cookie
      <4>1. d.tokens[p.cookie].used /\ Secret(F, d, d.tokens[p.cookie].next)
        BY <1>2, <1>3, <3>1, <3>2 DEF CookieOK, SpentFor
      <4>2. d.tokens[p.cookie].next # p.cookie
        BY <4>1 DEF Secret
      <4>. QED
        BY <1>5, <3>1, <4>1, <4>2
    <3>. QED
      BY <1>1, <1>2, <2>2, <3>1, <3>2 DEF ManageOK
  <2>. QED
    BY <2>1, <2>2
<1>9. SubmitOK(q, G, d)
  <2>1. CASE op \in Manage
    <3>1. p.attempt["submit"] = NoKey
      BY <1>2, <2>1 DEF PageOK
    <3>2. q.attempt["submit"].op # "submit"
      BY <1>1, <1>4, <2>1, <3>1 DEF NoKey
    <3>. QED
      BY <3>2 DEF SubmitOK
  <2>2. CASE op \notin Manage
    <3>1. \A i \in 1..Len(d.tokens) : Secret(F, d, i) => Secret(G, d, i)
      BY <1>2, <1>5, <2>2
    <3>2. CASE s # "submit"
      BY <1>1, <1>3, <1>4, <3>1, <3>2 DEF SubmitOK
    <3>3. CASE s = "submit"
      <4>1. q.conn["submit"].phase # "answered" /\ q.attempt["submit"] = req.key
        BY <1>1, <3>3
      <4>2. ASSUME req.key.op = "submit", d.records[req.key.n] # 0
            PROVE  req.key = p.attempt["submit"]
        <5>1. CASE fresh
          <6>1. req.key.n = p.next /\ req.key.n \in Keys
            BY <1>2, <5>1
          <6>2. d.records[req.key.n] = 0
            BY <1>1, <1>3, <6>1
          <6>. QED
            BY <4>2, <6>2
        <5>2. CASE ~fresh
          BY <1>2, <3>3, <5>2
        <5>. QED
          BY <5>1, <5>2
      <4>. QED
        BY <1>3, <3>1, <4>1, <4>2 DEF SubmitOK
    <3>. QED
      BY <3>2, <3>3
  <2>. QED
    BY <2>1, <2>2
<1>10. CookieOK(q, G, d)
  <2>1. CASE p.cookie = 0
    BY <1>2, <2>1 DEF CookieOK
  <2>2. CASE p.cookie # 0
    <3>1. p.cookie \in 1..Len(d.tokens)
      BY <1>3, <2>2 DEF CookieOK
    <3>2. ASSUME d.tokens[p.cookie].used
          PROVE  Secret(G, d, d.tokens[p.cookie].next)
      <4>1. Secret(F, d, d.tokens[p.cookie].next) /\ d.tokens[p.cookie].next \in 1..Len(d.tokens)
        BY <1>3, <1>5, <2>2, <3>1, <3>2 DEF CookieOK
      <4>2. d.tokens[p.cookie].next # p.cookie /\ d.tokens[p.cookie].next # 0
        BY <1>5, <3>2, <4>1 DEF Secret
      <4>. QED
        BY <1>2, <1>5, <4>1, <4>2
    <3>3. ASSUME ~q.forgot, NEW t \in Manage, NEW key, key.op = t, key = p.attempt[t]
          PROVE  q.attempt[t] = key
      <4>1. CASE t # s
        BY <1>1, <1>4, <3>3, <4>1
      <4>2. CASE t = s
        <5>1. op = s /\ op \in Manage
          BY <1>1, <4>2
        <5>2. p.attempt[s] # NoKey /\ p.attempt[s].op = op
          BY <1>1, <3>3, <4>2, <5>1 DEF NoKey
        <5>3. ~fresh
          BY <1>2, <3>3, <5>1, <5>2
        <5>. QED
          BY <1>1, <1>2, <3>3, <4>2, <5>3
      <4>. QED
        BY <4>1, <4>2
    <3>4. ASSUME ~q.forgot
          PROVE  /\ ~p.forgot
                 /\ \A r \in F : r.token = p.cookie => p.attempt[r.key.op] = r.key
                 /\ d.tokens[p.cookie].used
                    => p.attempt[d.tokens[p.cookie].for.op] = d.tokens[p.cookie].for
      BY <1>2, <1>3, <2>2, <3>4 DEF CookieOK
    <3>5. ASSUME ~q.forgot, NEW r \in G, r.token = p.cookie
          PROVE  q.attempt[r.key.op] = r.key
      <4>1. CASE r \in F
        <5>1. r.key.op \in Manage
          BY <1>3, <2>2, <3>5, <4>1 DEF RequestOK
        <5>2. p.attempt[r.key.op] = r.key
          BY <3>4, <3>5, <4>1
        <5>. QED
          BY <3>3, <3>5, <5>1, <5>2
      <4>2. CASE r = req
        BY <1>1, <1>2, <2>2, <3>5, <4>2
      <4>. QED
        BY <4>1, <4>2
    <3>6. ASSUME ~q.forgot, d.tokens[p.cookie].used
          PROVE  q.attempt[d.tokens[p.cookie].for.op] = d.tokens[p.cookie].for
      BY <1>5, <3>1, <3>3, <3>4, <3>6
    <3>. QED
      BY <1>2, <3>1, <3>2, <3>5, <3>6 DEF CookieOK
  <2>. QED
    BY <2>1, <2>2
<1>. QED
  BY <1>6, <1>7, <1>8, <1>9, <1>10 DEF LinksOK

\* The page forgets its keys, and notes that it did.
LEMMA LinksReloaded ==
    ASSUME NEW d, NEW p, NEW q, NEW F, RowsOK(d), PageOK(p), LinksOK(p, F, d),
           q.next = p.next, q.cookie = p.cookie,
           q.forgot = (p.forgot \/ \E s \in Manage : p.attempt[s] # NoKey),
           \A s \in Slots : q.attempt[s] = NoKey /\ q.conn[s] = Idle
    PROVE  LinksOK(q, F, d)
<1>1. Manage \subseteq Slots /\ "submit" \in Slots
  BY DEF Manage, Slots
<1>2. \A r \in F : RequestOK(r, q, d)
  BY DEF LinksOK, RequestOK
<1>3. ASSUME NEW t \in Manage
      PROVE  ManageOK(q, F, d, t)
  BY <1>1 DEF ManageOK, Spending, Idle
<1>4. SubmitOK(q, F, d)
  BY <1>1 DEF SubmitOK, NoKey
<1>5. CookieOK(q, F, d)
  <2>1. CASE p.cookie = 0
    BY <2>1 DEF CookieOK
  <2>2. CASE p.cookie # 0
    <3>1. /\ p.cookie \in 1..Len(d.tokens)
          /\ d.tokens[p.cookie].used => Secret(F, d, d.tokens[p.cookie].next)
          /\ ~p.forgot => /\ \A r \in F : r.token = p.cookie => p.attempt[r.key.op] = r.key
                          /\ d.tokens[p.cookie].used
                             => p.attempt[d.tokens[p.cookie].for.op] = d.tokens[p.cookie].for
      BY <2>2 DEF LinksOK, CookieOK
    <3>2. \A r \in F : r.token = p.cookie => r.key.op \in Manage /\ r.key # NoKey
      BY <2>2 DEF LinksOK, RequestOK, NoKey
    <3>3. d.tokens[p.cookie].used => d.tokens[p.cookie].for.op \in Manage
      BY <3>1, TokenFacts
    <3>4. \A k : k.op \in Manage => k # NoKey
      BY DEF Manage, NoKey
    <3>5. ~q.forgot => ~p.forgot /\ \A s \in Manage : p.attempt[s] = NoKey
      OBVIOUS
    <3>6. ~q.forgot => ~d.tokens[p.cookie].used /\ \A r \in F : r.token # p.cookie
      BY <3>1, <3>2, <3>3, <3>4, <3>5
    <3>. QED
      BY <3>1, <3>6 DEF CookieOK
  <2>. QED
    BY <2>1, <2>2
<1>. QED
  BY <1>2, <1>3, <1>4, <1>5 DEF LinksOK

-----------------------------------------------------------------------------
(* The invariant holds at first.                                            *)

LEMMA InitInv == Init => IInv
<1>. SUFFICES ASSUME Init
              PROVE  IInv
  OBVIOUS
<1>. DEFINE B == world.booked
            T == CHOOSE x \in Tables : TRUE
            pay == IF "pay" \in world.calls THEN "failed" ELSE "none"
            held == [state |-> "consumed", table |-> T, visit |-> 1]
            rec == [holds |-> [k \in Keys |-> IF B /\ k = 1 THEN held ELSE NoHold],
                    records |-> [k \in Keys |-> IF B /\ k = 1 THEN 1 ELSE 0],
                    visits |-> IF B THEN <<Visit(1, 1, T, pay)>> ELSE <<>>,
                    tokens |-> IF B THEN <<Token(1)>> ELSE <<>>,
                    waits |-> [k \in Keys |-> 0]]
<1>1. world \in Worlds /\ B \in BOOLEAN /\ 1 \in Keys
  BY GuestAssumption DEF Init, Keys
<1>2. db = rec
  BY DEF Init
<1>3. /\ late = {}
      /\ page = [step |-> IF B THEN "result" ELSE "search", mode |-> "booking", hold |-> 0,
                 cookie |-> IF B THEN 1 ELSE 0, next |-> IF B THEN 2 ELSE 1,
                 attempt |-> [s \in Slots |-> NoKey], conn |-> [s \in Slots |-> Idle], forgot |-> FALSE]
  BY DEF Init
<1>. HIDE DEF B, T, pay
<1>4. /\ Visit(1, 1, T, pay) \in VisitRows /\ Visit(1, 1, T, pay).personal
      /\ Visit(1, 1, T, pay).hold = 1 /\ Visit(1, 1, T, pay).key = 1
  BY <1>1 DEF Visit, VisitRows, AnyTable, T, pay
<1>5. /\ Token(1) \in TokenRows /\ Token(1).visit = 1 /\ ~Token(1).used /\ Token(1).next = 0
      /\ ~Token(1).revoked /\ ~Token(1).deleted
  BY GuestAssumption DEF Token, TokenRows, KeyRows
<1>6. held \in HoldRows /\ NoHold \in HoldRows /\ NoHold.visit = 0
  BY DEF NoHold, HoldRows, HoldStates, AnyTable, T
<1>7. /\ db.visits = IF B THEN <<Visit(1, 1, T, pay)>> ELSE <<>>
      /\ db.tokens = IF B THEN <<Token(1)>> ELSE <<>>
      /\ \A k \in Keys : /\ db.holds[k] = IF B /\ k = 1 THEN held ELSE NoHold
                         /\ db.records[k] = IF B /\ k = 1 THEN 1 ELSE 0
  BY <1>2
<1>8. db \in DbRows
  <2>1. /\ [k \in Keys |-> IF B /\ k = 1 THEN held ELSE NoHold] \in [Keys -> HoldRows]
        /\ [k \in Keys |-> IF B /\ k = 1 THEN 1 ELSE 0] \in [Keys -> Nat]
        /\ [k \in Keys |-> 0] \in [Keys -> 0..1]
    BY <1>6
  <2>2. (IF B THEN <<Visit(1, 1, T, pay)>> ELSE <<>>) \in Seq(VisitRows)
    BY <1>4
  <2>3. (IF B THEN <<Token(1)>> ELSE <<>>) \in Seq(TokenRows)
    BY <1>5
  <2>. QED
    BY <1>2, <2>1, <2>2, <2>3 DEF DbRows
<1>9. PageOK(page)
  <2>1. NoKey \in KeyRows /\ Idle \in ConnRows
    BY GuestAssumption DEF NoKey, KeyRows, Idle, ConnRows, Request, RequestRows
  <2>2. page \in PageRows /\ page.hold < page.next
    BY <1>1, <1>3, <2>1, GuestAssumption DEF PageRows
  <2>3. \A s \in Slots : SlotOK(page, s)
    BY <1>3 DEF SlotOK, Idle
  <2>4. page.attempt["submit"] = NoKey
    BY <1>3 DEF Slots
  <2>. QED
    BY <2>2, <2>3, <2>4 DEF PageOK
<1>10. Flight(page, late) = {}
  BY <1>3 DEF Flight, Idle
<1>11. \A s \in Manage : ManageOK(page, {}, db, s)
  BY <1>3 DEF ManageOK, Spending, Idle, Manage, Slots
<1>12. SubmitOK(page, {}, db)
  BY <1>3 DEF SubmitOK, Slots, NoKey
<1>13. CASE B
  <2>1. /\ db.visits = <<Visit(1, 1, T, pay)>> /\ db.tokens = <<Token(1)>>
        /\ \A k \in Keys : /\ db.holds[k] = IF k = 1 THEN held ELSE NoHold
                           /\ db.records[k] = IF k = 1 THEN 1 ELSE 0
    BY <1>7, <1>13
  <2>2. /\ Len(db.visits) = 1 /\ db.visits[1] = Visit(1, 1, T, pay)
        /\ Len(db.tokens) = 1 /\ db.tokens[1] = Token(1) /\ \A i \in 1..1 : i = 1
    BY <2>1
  <2>3. VisitsOK(db)
    <3>1. Known(db, 1)
      BY <1>1, <1>4, <2>1, <2>2 DEF Known
    <3>2. \A v \in 1..1 : VisitOK(db, v)
      BY <1>4, <2>2, <3>1 DEF VisitOK
    <3>3. \A k \in Keys : db.records[k] <= 1
      BY <2>1
    <3>. QED
      BY <2>2, <3>2, <3>3 DEF VisitsOK
  <2>4. Root(db, 1)
    BY <1>5, <2>2 DEF Root
  <2>5. TokensOK(db)
    <3>1. TokenOK(db, 1)
      BY <1>5, <2>2 DEF TokenOK
    <3>2. OneRoot(db, 1)
      BY <1>5, <2>2, <2>4 DEF OneRoot
    <3>3. NoFork(db)
      BY <2>2 DEF NoFork
    <3>. QED
      BY <2>2, <3>1, <3>2, <3>3 DEF TokensOK
  <2>6. page.cookie = 1 /\ page.next = 2
    BY <1>3, <1>13
  <2>7. CookieOK(page, {}, db) /\ 1 \in 1..Len(db.tokens)
    BY <1>5, <2>2, <2>6 DEF CookieOK
  <2>8. \A k \in Keys : k >= page.next => db.records[k] = 0
    BY <2>1, <2>6
  <2>. QED
    BY <1>1, <1>8, <1>9, <1>10, <1>11, <1>12, <2>3, <2>5, <2>6, <2>7, <2>8 DEF IInv, RowsOK, LinksOK
<1>14. CASE ~B
  <2>1. Len(db.visits) = 0 /\ Len(db.tokens) = 0 /\ \A k \in Keys : db.records[k] = 0
    BY <1>7, <1>14
  <2>2. VisitsOK(db) /\ TokensOK(db)
    BY <2>1 DEF VisitsOK, TokensOK, NoFork
  <2>3. page.cookie = 0
    BY <1>3, <1>14
  <2>4. CookieOK(page, {}, db)
    BY <2>3 DEF CookieOK
  <2>. QED
    BY <1>1, <1>8, <1>9, <1>10, <1>11, <1>12, <2>1, <2>2, <2>3, <2>4 DEF IInv, RowsOK, LinksOK
<1>. QED
  BY <1>13, <1>14

-----------------------------------------------------------------------------
(* The steps of the page.                                                   *)

LEMMA InvFacts ==
    ASSUME IInv
    PROVE  /\ world \in Worlds /\ RowsOK(db) /\ PageOK(page)
           /\ LinksOK(page, Flight(page, late), db)
           /\ page.cookie \in 0..Len(db.tokens) /\ Len(db.tokens) \in Nat
           /\ \A r \in Flight(page, late) : RequestOK(r, page, db)
           /\ \A s \in Slots : page.conn[s].phase = "sent" => page.conn[s].req \in Flight(page, late)
           /\ \A r \in late : r \in Flight(page, late)
           /\ page.step \in {"search", "details", "result"} /\ page.mode \in {"booking", "queue"}
           /\ page.hold \in 0..MaxKeys /\ page.cookie \in Nat /\ page.next \in 1..(MaxKeys + 1)
           /\ page.attempt \in [Slots -> KeyRows] /\ page.conn \in [Slots -> ConnRows]
           /\ page.forgot \in BOOLEAN /\ page \in PageRows
<1>1. Len(db.tokens) \in Nat
  BY RowFacts DEF IInv, RowsOK
<1>2. /\ page.step \in {"search", "details", "result"} /\ page.mode \in {"booking", "queue"}
      /\ page.hold \in 0..MaxKeys /\ page.cookie \in Nat /\ page.next \in 1..(MaxKeys + 1)
      /\ page.attempt \in [Slots -> KeyRows] /\ page.conn \in [Slots -> ConnRows]
      /\ page.forgot \in BOOLEAN /\ page \in PageRows
  BY DEF IInv, PageOK, PageRows
<1>3. page.cookie \in 0..Len(db.tokens)
  BY <1>1 DEF IInv
<1>4. \A s \in Slots : page.conn[s].phase = "sent" => page.conn[s].req \in Flight(page, late)
  BY DEF Flight
<1>5. \A r \in late : r \in Flight(page, late)
  BY DEF Flight
<1>. QED
  BY <1>1, <1>2, <1>3, <1>4, <1>5 DEF IInv, LinksOK

\* A release names a hold that the page has had, and no token.
LEMMA ReleaseFacts ==
    ASSUME IInv, NEW q, q.next = page.next, NEW r \in Release(page.hold)
    PROVE  RequestOK(r, q, db) /\ r.token = 0
<1>1. page.hold \in Keys /\ page.hold < page.next /\ r = Request([op |-> "release", n |-> page.hold], page.hold, 0)
  BY InvFacts DEF Release, Keys, IInv, PageOK
<1>2. r \in RequestRows /\ r.key.op = "release" /\ r.key.n = page.hold /\ r.hold = page.hold /\ r.token = 0
  BY <1>1 DEF Request, RequestRows, KeyRows, Keys
<1>. QED
  BY <1>1, <1>2 DEF RequestOK, Manage

\* It is enough to look at the new page with the requests of before.
LEMMA PageStep ==
    ASSUME IInv, world' = world, db' = db, PageOK(page'), LinksOK(page', Flight(page, late), db),
           page'.next = page.next, page'.cookie \in 0..Len(db.tokens),
           \A r \in late' : r \in Flight(page, late) \/ r \in Release(page.hold),
           \A s \in Slots : page'.conn[s].phase = "sent" => page'.conn[s] = page.conn[s]
    PROVE  IInv'
<1>1. \A r \in Flight(page', late') : r \in Flight(page, late) \/ r \in Release(page.hold)
  <2>1. ASSUME NEW s \in Slots, page'.conn[s].phase = "sent"
        PROVE  page'.conn[s].req \in Flight(page, late)
    <3>1. page'.conn[s] = page.conn[s]
      BY <2>1
    <3>. QED
      BY <2>1, <3>1, InvFacts
  <2>. QED
    BY <2>1 DEF Flight
<1>2. \A r \in Flight(page', late') : r \in Flight(page, late) \/ (RequestOK(r, page', db) /\ r.token = 0)
  BY <1>1, ReleaseFacts
<1>3. LinksOK(page', Flight(page', late'), db)
  BY <1>2, LinksOfOthers, InvFacts
<1>4. page'.cookie = 0 \/ page'.cookie \in 1..Len(db.tokens)
  BY InvFacts
<1>. QED
  BY <1>3, <1>4, InvFacts DEF IInv

LEMMA PressInv ==
    ASSUME IInv, NEW op \in Calls, NEW changed \in BOOLEAN, Press(op, changed)
    PROVE  IInv'
<1>. DEFINE s == SlotOf(op)
            old == page.attempt[s]
            fresh == changed \/ old.op # op
            key == IF fresh THEN [op |-> op, n |-> page.next] ELSE old
            req == Request(key, IF op = "submit" THEN page.hold ELSE 0,
                                IF op \in Manage THEN page.cookie ELSE 0)
            F == Flight(page, late)
<1>1. /\ Ready(op) /\ page.conn[s] = Idle /\ (changed => op \in {"hold", "submit", "queue", "edit"})
      /\ fresh => page.next <= world.keys
      /\ page' = [page EXCEPT !.attempt[s] = key, !.next = IF fresh THEN page.next + 1 ELSE page.next,
                              !.forgot = page.forgot \/ (op = "edit" /\ fresh /\ old # NoKey),
                              !.conn[s] = [Idle EXCEPT !.phase = "sent", !.req = req]]
      /\ UNCHANGED <<world, db, late>>
  BY InvFacts DEF Press, PageRows
<1>2. s \in Slots /\ fresh \in BOOLEAN
  BY DEF SlotOf, Slots, Calls
<1>3. fresh => page.next \in Keys
  <2>1. world.keys \in 0..MaxKeys
    BY InvFacts, GuestAssumption
  <2>. QED
    BY <1>1, <2>1, InvFacts, GuestAssumption DEF Keys
<1>4. key \in KeyRows
  BY <1>2, <1>3, InvFacts DEF KeyRows, Keys
<1>5. req \in RequestRows /\ req.key = key /\ req.hold = (IF op = "submit" THEN page.hold ELSE 0)
      /\ req.token = (IF op \in Manage THEN page.cookie ELSE 0)
  BY <1>4, InvFacts, GuestAssumption DEF Request, RequestRows
<1>6. [Idle EXCEPT !.phase = "sent", !.req = req] \in ConnRows
  BY <1>5 DEF Idle, ConnRows
<1>. DEFINE att == [page.attempt EXCEPT ![s] = key]
            conns == [page.conn EXCEPT ![s] = [Idle EXCEPT !.phase = "sent", !.req = req]]
            n == IF fresh THEN page.next + 1 ELSE page.next
            forgot == page.forgot \/ (op = "edit" /\ fresh /\ old # NoKey)
<1>7. page' = [page EXCEPT !.attempt = att, !.next = n, !.forgot = forgot, !.conn = conns]
  BY <1>1, InvFacts DEF PageRows
<1>8. att \in [Slots -> KeyRows] /\ conns \in [Slots -> ConnRows]
  BY <1>2, <1>4, <1>6, InvFacts
<1>9. n \in 1..(MaxKeys + 1) /\ forgot \in BOOLEAN
  BY <1>3, InvFacts, GuestAssumption DEF Keys
<1>. HIDE DEF key, req, fresh
<1>10. /\ page' \in PageRows /\ page'.attempt = att /\ page'.conn = conns /\ page'.next = n
       /\ page'.forgot = forgot /\ page'.cookie = page.cookie /\ page'.step = page.step
       /\ page'.hold = page.hold /\ page'.mode = page.mode
  <2>. HIDE DEF att, conns, n, forgot
  <2>. QED
    BY <1>7, <1>8, <1>9, InvFacts DEF PageRows
<1>11. Pressed(page, page', op, fresh, req)
  <2>1. IF fresh THEN req.key = [op |-> op, n |-> page.next] /\ page.next \in Keys /\ page'.next = page.next + 1
                 ELSE req.key = page.attempt[s] /\ page.attempt[s].op = op /\ page'.next = page.next
    BY <1>3, <1>5, <1>10 DEF key, fresh
  <2>2. IF op \in Manage THEN req.token = page.cookie /\ page.cookie # 0 /\ page.step = "result" ELSE req.token = 0
    <3>1. CASE op \in Manage
      BY <1>1, <1>5, <3>1 DEF Ready, Manage
    <3>2. CASE op \notin Manage
      BY <1>5, <3>2
    <3>. QED
      BY <3>1, <3>2
  <2>3. op = "submit" => req.hold \in Keys /\ page.step = "details"
    BY <1>1, <1>5, InvFacts DEF Ready, Keys
  <2>4. op = "queue" => page.step = "details"
    BY <1>1 DEF Ready
  <2>5. fresh /\ op \in Manage => op = "edit" \/ page.attempt[s].op # op
    BY <1>1 DEF fresh, Manage
  <2>6. /\ page'.attempt = [page.attempt EXCEPT ![s] = req.key]
        /\ page'.conn = [page.conn EXCEPT ![s] = [Idle EXCEPT !.phase = "sent", !.req = req]]
    BY <1>5, <1>10
  <2>7. page'.forgot = (page.forgot \/ (op = "edit" /\ fresh /\ page.attempt[s] # NoKey))
    BY <1>10
  <2>. QED
    BY <1>1, <1>5, <1>10, <2>1, <2>2, <2>3, <2>4, <2>5, <2>6, <2>7 DEF Pressed
<1>12. LinksOK(page', F \cup {req}, db)
  BY <1>2, <1>11, LinksPressed, InvFacts
<1>13. /\ s \in Slots /\ req.key.op = op /\ req.key.n \in Keys /\ req.key.n < page'.next
       /\ page.next \in Nat /\ page'.next \in Nat /\ page.next <= page'.next /\ op # "none"
       /\ op \notin Manage => s \in {"hold", "submit"} /\ s \notin Manage
       /\ (s = "submit" <=> op \in {"submit", "queue"})
       /\ \A t \in Slots : t # s => page'.conn[t] = page.conn[t] /\ page'.attempt[t] = page.attempt[t]
       /\ page'.attempt[s] = req.key
       /\ page'.conn[s].phase = "sent" /\ page'.conn[s].req = req
  <2>. DEFINE q == page'
  <2>1. PageOK(page) /\ Pressed(page, q, op, fresh, req) /\ fresh \in BOOLEAN
    BY <1>2, <1>11, InvFacts
  <2>. HIDE DEF q
  <2>2. /\ SlotOf(op) \in Slots /\ op # "none" /\ op # "release"
        /\ op \in Manage => SlotOf(op) = op
        /\ op \notin Manage => SlotOf(op) \in {"hold", "submit"} /\ SlotOf(op) \notin Manage
        /\ (SlotOf(op) = "submit" <=> op \in {"submit", "queue"})
        /\ req.key.op = op /\ req.key.n \in Keys /\ req.key.n < q.next
        /\ page.next \in Nat /\ q.next \in Nat /\ page.next <= q.next
        /\ \A t \in Slots : t # SlotOf(op) => q.conn[t] = page.conn[t] /\ q.attempt[t] = page.attempt[t]
        /\ q.attempt[SlotOf(op)] = req.key
        /\ q.conn[SlotOf(op)].phase = "sent" /\ q.conn[SlotOf(op)].req = req
    BY <2>1, PressedFacts
  <2>. QED
    BY <2>2 DEF q
<1>14. PageOK(page')
  <2>1. ASSUME NEW t \in Slots
        PROVE  SlotOK(page', t)
    <3>1. CASE t = s
      BY <1>13, <3>1 DEF SlotOK, NoKey
    <3>2. CASE t # s
      <4>1. SlotOK(page, t) /\ page'.conn[t] = page.conn[t] /\ page'.attempt[t] = page.attempt[t]
        BY <1>13, <3>2, InvFacts DEF PageOK
      <4>2. page.attempt[t].n \in Keys /\ page.attempt[t].n < page.next => page.attempt[t].n < page'.next
        BY <1>13 DEF Keys
      <4>. QED
        BY <4>1, <4>2 DEF SlotOK
    <3>. QED
      BY <3>1, <3>2
  <2>2. page'.hold < page'.next
    BY <1>10, <1>13, InvFacts DEF PageOK, PageRows
  <2>3. page'.step = "result" => page'.attempt["submit"] = NoKey
    <3>1. CASE s = "submit"
      <4>1. page.step = "details"
        BY <1>11, <1>13, <3>1 DEF Pressed
      <4>. QED
        BY <1>10, <4>1
    <3>2. CASE s # "submit"
      <4>1. page'.attempt["submit"] = page.attempt["submit"]
        BY <1>13, <3>2 DEF Slots
      <4>. QED
        BY <1>10, <4>1, InvFacts DEF PageOK
    <3>. QED
      BY <3>1, <3>2
  <2>. QED
    BY <1>10, <2>1, <2>2, <2>3 DEF PageOK
<1>15. \A r \in Flight(page', late') : r \in F \cup {req}
  <2>1. ASSUME NEW t \in Slots, page'.conn[t].phase = "sent"
        PROVE  page'.conn[t].req \in F \cup {req}
    BY <1>13, <2>1, InvFacts
  <2>2. late' = late
    BY <1>1
  <2>. QED
    BY <2>1, <2>2, InvFacts DEF Flight
<1>16. LinksOK(page', Flight(page', late'), db)
  BY <1>12, <1>15, LinksOfOthers, InvFacts
<1>17. page'.cookie = 0 \/ page'.cookie \in 1..Len(db.tokens)
  BY <1>10, InvFacts
<1>. QED
  BY <1>1, <1>14, <1>16, <1>17, InvFacts DEF IInv

\* Another step of the page, another mode, or no hold any more.
LEMMA ElsewhereInv ==
    ASSUME IInv, UNCHANGED <<world, db>>, page' \in PageRows, page'.hold \in {page.hold, 0},
           page'.next = page.next, page'.cookie = page.cookie, page'.forgot = page.forgot,
           page'.attempt = page.attempt, page'.conn = page.conn,
           page'.step = "result" => page.step = "result",
           \A r \in late' : r \in late \/ r \in Release(page.hold)
    PROVE  IInv'
<1>1. LinksOK(page', Flight(page, late), db)
  BY LinksElsewhere, InvFacts
<1>2. PageOK(page')
  <2>1. page.hold < page.next /\ (page.step = "result" => page.attempt["submit"] = NoKey)
        /\ \A s \in Slots : SlotOK(page, s)
    BY InvFacts DEF PageOK
  <2>2. 0 < page.next
    BY InvFacts, GuestAssumption
  <2>3. \A s \in Slots : SlotOK(page', s)
    BY <2>1 DEF SlotOK
  <2>. QED
    BY <2>1, <2>2, <2>3 DEF PageOK
<1>3. \A r \in late' : r \in Flight(page, late) \/ r \in Release(page.hold)
  BY InvFacts
<1>4. \A s \in Slots : page'.conn[s].phase = "sent" => page'.conn[s] = page.conn[s]
  OBVIOUS
<1>5. page'.cookie \in 0..Len(db.tokens)
  BY InvFacts
<1>. QED
  BY <1>1, <1>2, <1>3, <1>4, <1>5, PageStep

LEMMA WalkInv ==
    ASSUME IInv, JoinWaitlist \/ BackToSearch \/ HoldTimer \/ NewReservation
    PROVE  IInv'
<1>1. page \in PageRows /\ page.hold \in 0..MaxKeys /\ page.mode \in {"booking", "queue"} /\ 0 \in 0..MaxKeys
      /\ page.step \in {"search", "details", "result"}
  BY InvFacts, GuestAssumption
<1>2. CASE JoinWaitlist
  <2>1. page' = [page EXCEPT !.step = "details", !.mode = "queue"] /\ UNCHANGED <<world, db, late>>
    BY <1>2 DEF JoinWaitlist
  <2>2. /\ page' \in PageRows /\ page'.hold = page.hold /\ page'.next = page.next
        /\ page'.cookie = page.cookie /\ page'.forgot = page.forgot
        /\ page'.attempt = page.attempt /\ page'.conn = page.conn /\ page'.step = "details"
    BY <1>1, <2>1 DEF PageRows
  <2>. QED
    BY <2>1, <2>2, ElsewhereInv
<1>3. CASE BackToSearch
  <2>1. page' = [page EXCEPT !.step = "search", !.hold = 0] /\ UNCHANGED <<world, db>>
        /\ late' = late \cup Release(page.hold)
    BY <1>3 DEF BackToSearch, Leave
  <2>2. /\ page' \in PageRows /\ page'.hold = 0 /\ page'.next = page.next
        /\ page'.cookie = page.cookie /\ page'.forgot = page.forgot
        /\ page'.attempt = page.attempt /\ page'.conn = page.conn /\ page'.step = "search"
    BY <1>1, <2>1 DEF PageRows
  <2>. QED
    BY <2>1, <2>2, ElsewhereInv
<1>4. CASE HoldTimer
  <2>1. page' = [page EXCEPT !.hold = 0] /\ UNCHANGED <<world, db>> /\ late' = late \cup Release(page.hold)
    BY <1>4 DEF HoldTimer, Leave
  <2>2. /\ page' \in PageRows /\ page'.hold = 0 /\ page'.next = page.next
        /\ page'.cookie = page.cookie /\ page'.forgot = page.forgot
        /\ page'.attempt = page.attempt /\ page'.conn = page.conn /\ page'.step = page.step
    BY <1>1, <2>1 DEF PageRows
  <2>. QED
    BY <2>1, <2>2, ElsewhereInv
<1>5. CASE NewReservation
  <2>1. page' = [page EXCEPT !.step = "search", !.mode = "booking"] /\ UNCHANGED <<world, db, late>>
    BY <1>5 DEF NewReservation
  <2>2. /\ page' \in PageRows /\ page'.hold = page.hold /\ page'.next = page.next
        /\ page'.cookie = page.cookie /\ page'.forgot = page.forgot
        /\ page'.attempt = page.attempt /\ page'.conn = page.conn /\ page'.step = "search"
    BY <1>1, <2>1 DEF PageRows
  <2>. QED
    BY <2>1, <2>2, ElsewhereInv
<1>. QED
  BY <1>2, <1>3, <1>4, <1>5

LEMMA ReloadInv ==
    ASSUME IInv, Reload
    PROVE  IInv'
<1>. DEFINE keys == [s \in Slots |-> NoKey]
            conns == [s \in Slots |-> Idle]
            forgot == page.forgot \/ \E s \in Manage : page.attempt[s] # NoKey
            F == Flight(page, late)
<1>1. NoKey \in KeyRows /\ Idle \in ConnRows
  BY GuestAssumption DEF NoKey, KeyRows, Idle, ConnRows, Request, RequestRows
<1>2. keys \in [Slots -> KeyRows] /\ conns \in [Slots -> ConnRows] /\ forgot \in BOOLEAN
      /\ \A s \in Slots : keys[s] = NoKey /\ conns[s] = Idle
  BY <1>1, InvFacts
<1>3. PICK step \in {"search", "result"} :
        page' = [page EXCEPT !.step = step, !.mode = "booking", !.hold = 0, !.attempt = keys,
                             !.conn = conns, !.forgot = forgot]
  BY InvFacts DEF Reload, PageRows
<1>4. /\ UNCHANGED <<world, db>>
      /\ late' = late \cup (Release(page.hold) \cup {page.conn[s].req : s \in Pending})
  BY DEF Reload, Leave
<1>5. /\ page' \in PageRows /\ page'.attempt = keys /\ page'.conn = conns /\ page'.forgot = forgot
      /\ page'.next = page.next /\ page'.cookie = page.cookie /\ page'.hold = 0
  <2>1. page \in PageRows /\ 0 \in 0..MaxKeys
        /\ keys \in [Slots -> KeyRows] /\ conns \in [Slots -> ConnRows] /\ forgot \in BOOLEAN
        /\ step \in {"search", "details", "result"}
    BY <1>2, InvFacts, GuestAssumption
  <2>. HIDE DEF keys, conns, forgot
  <2>. QED
    BY <1>3, <2>1 DEF PageRows
<1>6. LinksOK(page', F, db)
  BY <1>2, <1>5, LinksReloaded, InvFacts
<1>7. PageOK(page')
  <2>1. \A s \in Slots : SlotOK(page', s)
    BY <1>2, <1>5 DEF SlotOK, Idle
  <2>2. 0 < page'.next
    BY <1>5, InvFacts, GuestAssumption
  <2>3. page'.attempt["submit"] = NoKey
    BY <1>2, <1>5 DEF Slots
  <2>. QED
    BY <1>5, <2>1, <2>2, <2>3 DEF PageOK
<1>8. \A r \in late' : r \in F \/ r \in Release(page.hold)
  BY <1>4, InvFacts DEF Pending
<1>9. \A s \in Slots : page'.conn[s].phase = "sent" => page'.conn[s] = page.conn[s]
  BY <1>2, <1>5 DEF Idle
<1>10. page'.cookie \in 0..Len(db.tokens)
  BY <1>5, InvFacts
<1>. QED
  BY <1>4, <1>5, <1>6, <1>7, <1>8, <1>9, <1>10, PageStep

\* The cookie of an answer is the one of the page, none, or a token that nobody else has.
LEMMA CookieFacts ==
    ASSUME IInv, NEW s \in Slots, page.conn[s].phase = "answered"
    PROVE  /\ \/ CookieOf(page.conn[s]) \in {page.cookie, 0}
              \/ Learnt(page, Flight(page, late), db, s, CookieOf(page.conn[s]))
           /\ page.conn[s].code = "ok" /\ s \in Manage
              => \/ CookieOf(page.conn[s]) = 0
                 \/ Learnt(page, Flight(page, late), db, s, CookieOf(page.conn[s]))
<1>. DEFINE c == page.conn[s]
            F == Flight(page, late)
<1>1. /\ RowsOK(db) /\ PageOK(page) /\ LinksOK(page, F, db) /\ c.phase # "idle"
  BY InvFacts
<1>2. /\ c.req.key = page.attempt[s]
      /\ s \in Manage => page.attempt[s].op = s
      /\ s = "submit" => page.attempt[s].op \in {"submit", "queue"}
      /\ s = "hold" => page.attempt[s].op = "hold"
  BY <1>1, SlotKey
<1>3. \A t \in Manage : ManageOK(page, F, db, t)
  BY <1>1 DEF LinksOK
<1>4. CASE c.code # "ok" \/ c.req.key.op \in {"hold", "queue"}
  <2>1. CookieOf(c) = page.cookie
    BY <1>4 DEF CookieOf
  <2>2. s \in Manage => c.req.key.op \notin {"hold", "queue"}
    BY <1>2 DEF Manage
  <2>. QED
    BY <1>4, <2>1, <2>2
<1>5. CASE c.code = "ok" /\ c.req.key.op = "erase"
  <2>1. CookieOf(c) = 0
    BY <1>5 DEF CookieOf
  <2>. QED
    BY <2>1
<1>6. CASE c.code = "ok" /\ c.req.key.op \notin {"hold", "queue", "erase"} /\ s = "submit"
  <2>1. CookieOf(c) = c.token /\ page.attempt["submit"].op = "submit"
    BY <1>2, <1>6 DEF CookieOf
  <2>2. c.token \in 1..Len(db.tokens) /\ Root(db, c.token) /\ Secret(F, db, c.token)
    BY <1>1, <1>6, <2>1 DEF LinksOK, SubmitOK
  <2>3. ASSUME NEW t \in Manage, Spending(page, t), SpentFor(db, page.conn[t].req)
        PROVE  db.tokens[page.conn[t].req.token].next # c.token
    BY <1>3, <2>2, <2>3 DEF ManageOK, Root
  <2>4. Learnt(page, F, db, s, c.token)
    BY <2>2, <2>3 DEF Learnt
  <2>. QED
    BY <2>1, <2>4
<1>7. CASE c.code = "ok" /\ c.req.key.op \notin {"hold", "queue", "erase"} /\ s \in Manage
  <2>1. CookieOf(c) = c.token
    BY <1>7 DEF CookieOf
  <2>2. /\ c.req.token \in 1..Len(db.tokens) /\ SpentFor(db, c.req)
        /\ Secret(F, db, db.tokens[c.req.token].next) /\ c.token = db.tokens[c.req.token].next
    BY <1>3, <1>7 DEF ManageOK, Spending
  <2>3. c.token \in 1..Len(db.tokens)
    BY <1>1, <2>2, TokenFacts DEF SpentFor
  <2>4. ASSUME NEW t \in Manage, t # s, Spending(page, t), SpentFor(db, page.conn[t].req)
        PROVE  db.tokens[page.conn[t].req.token].next # c.token
    <3>1. page.conn[t].req.token \in 1..Len(db.tokens) /\ page.conn[t].phase # "idle" /\ t \in Slots
      BY <1>3, <2>4 DEF ManageOK, Spending, Slots
    <3>2. page.conn[t].req.key.op = t /\ c.req.key.op = s
      BY <1>1, <1>2, <1>7, <2>4, <3>1, SlotKey
    <3>3. page.conn[t].req.token # c.req.token
      BY <2>2, <2>4, <3>2 DEF SpentFor
    <3>4. NoFork(db)
      BY <1>1 DEF RowsOK, TokensOK
    <3>. QED
      BY <2>2, <3>1, <3>3, <3>4 DEF NoFork, SpentFor
  <2>5. Learnt(page, F, db, s, c.token)
    BY <2>2, <2>3, <2>4 DEF Learnt
  <2>. QED
    BY <2>1, <2>5
<1>. QED
  BY <1>2, <1>4, <1>5, <1>6, <1>7 DEF Slots

\* A connection is over: its answer was taken, in whole or in part, or it broke.
LEMMA SettledInv ==
    ASSUME IInv, UNCHANGED <<world, db>>, page' \in PageRows, NEW s \in Slots,
           page'.hold < page'.next, page'.step = "result" => page'.attempt["submit"] = NoKey,
           \/ page'.cookie \in {page.cookie, 0}
           \/ Learnt(page, Flight(page, late), db, s, page'.cookie),
           page'.next = page.next, page'.forgot = (page.forgot /\ page'.cookie = page.cookie),
           \A t \in Slots : t # s => page'.conn[t] = page.conn[t] /\ page'.attempt[t] = page.attempt[t],
           page'.conn[s] = Idle, page'.attempt[s] \in {page.attempt[s], NoKey},
           \/ page'.attempt[s] = page.attempt[s] \/ s \notin Manage \/ page'.cookie = 0
           \/ Learnt(page, Flight(page, late), db, s, page'.cookie),
           \A r \in late' : r \in Flight(page, late) \/ r \in Release(page.hold)
    PROVE  IInv'
<1>. DEFINE q == page'
            F == Flight(page, late)
<1>1. LinksOK(q, F, db)
  <2>1. RowsOK(db) /\ PageOK(page) /\ LinksOK(page, F, db)
    BY InvFacts
  <2>2. /\ q.cookie \in {page.cookie, 0} \/ Learnt(page, F, db, s, q.cookie)
        /\ q.next = page.next /\ q.forgot = (page.forgot /\ q.cookie = page.cookie)
        /\ \A t \in Slots : t # s => q.conn[t] = page.conn[t] /\ q.attempt[t] = page.attempt[t]
        /\ q.conn[s] = Idle /\ q.attempt[s] \in {page.attempt[s], NoKey}
        /\ q.attempt[s] = page.attempt[s] \/ s \notin Manage \/ q.cookie = 0 \/ Learnt(page, F, db, s, q.cookie)
    OBVIOUS
  <2>. HIDE DEF q, F
  <2>. QED
    BY <2>1, <2>2, LinksSettled
<1>2. ASSUME NEW t \in Slots
      PROVE  SlotOK(page', t)
  <2>1. SlotOK(page, t)
    BY InvFacts DEF PageOK
  <2>2. CASE t = s
    <3>1. page'.conn[t] = Idle /\ page'.attempt[t] \in {page.attempt[t], NoKey}
      BY <2>2
    <3>. QED
      BY <2>1, <3>1 DEF SlotOK, Idle
  <2>3. CASE t # s
    BY <2>1, <2>3 DEF SlotOK
  <2>. QED
    BY <2>2, <2>3
<1>3. PageOK(page')
  BY <1>2 DEF PageOK
<1>4. page'.cookie \in 0..Len(db.tokens)
  <2>1. page.cookie \in 0..Len(db.tokens) /\ 0 \in 0..Len(db.tokens) /\ 1..Len(db.tokens) \subseteq 0..Len(db.tokens)
    BY InvFacts
  <2>2. page'.cookie \in {page.cookie, 0} \/ page'.cookie \in 1..Len(db.tokens)
    BY DEF Learnt
  <2>. QED
    BY <2>1, <2>2
<1>5. \A t \in Slots : page'.conn[t].phase = "sent" => page'.conn[t] = page.conn[t]
  BY DEF Idle
<1>. QED
  BY <1>1, <1>3, <1>4, <1>5, PageStep

\* What the page makes of an answer, without its cookie.
LEMMA AfterFacts ==
    ASSUME IInv, NEW s \in Slots, page.conn[s].phase = "answered",
           NEW p, p = After(s, page.conn[s])
    PROVE  /\ p \in PageRows /\ p.hold < p.next /\ p.next = page.next /\ p.cookie = page.cookie
           /\ p.forgot = page.forgot /\ p.conn = page.conn
           /\ p.step = "result" => p.attempt["submit"] = NoKey
           /\ \A t \in Slots : t # s => p.attempt[t] = page.attempt[t]
           /\ p.attempt[s] \in {page.attempt[s], NoKey}
           /\ p.attempt[s] = page.attempt[s] \/ s \notin Manage \/ page.conn[s].code = "ok"
<1>. DEFINE c == page.conn[s]
            dropped == [page.attempt EXCEPT ![s] = NoKey]
<1>1. /\ page \in PageRows /\ page.hold < page.next /\ 0 < page.next /\ 0 \in 0..MaxKeys
      /\ page.step = "result" => page.attempt["submit"] = NoKey
      /\ page.attempt \in [Slots -> KeyRows] /\ page.hold \in 0..MaxKeys
      /\ page.step \in {"search", "details", "result"} /\ page.mode \in {"booking", "queue"}
  BY InvFacts, GuestAssumption DEF PageOK
<1>2. /\ c.req.key = page.attempt[s] /\ c.req.key.n \in Keys /\ c.req.key.n < page.next
      /\ s \in Manage => page.attempt[s].op = s
  <2>1. PageOK(page) /\ c.phase # "idle"
    BY InvFacts
  <2>. QED
    BY <2>1, SlotKey
<1>3. NoKey \in KeyRows
  BY GuestAssumption DEF NoKey, KeyRows
<1>4. /\ dropped \in [Slots -> KeyRows] /\ dropped[s] = NoKey
      /\ \A t \in Slots : t # s => dropped[t] = page.attempt[t]
      /\ page.attempt["submit"] = NoKey => dropped["submit"] = NoKey
  BY <1>1, <1>3 DEF Slots
<1>. HIDE DEF dropped
<1>5. CASE s = "hold"
  <2>1. p = AfterHold(c)
    BY <1>5 DEF After
  <2>2. CASE c.code = "ok"
    <3>1. p = [page EXCEPT !.hold = c.req.key.n, !.step = "details", !.mode = "booking"]
      BY <2>1, <2>2 DEF AfterHold
    <3>2. c.req.key.n \in 0..MaxKeys
      BY <1>2 DEF Keys
    <3>. QED
      BY <1>1, <1>2, <3>1, <3>2 DEF PageRows
  <2>3. CASE c.code = "conflict"
    <3>1. p = [page EXCEPT !.attempt = dropped]
      BY <1>1, <1>5, <2>1, <2>3 DEF AfterHold, PageRows, dropped
    <3>2. s \notin Manage
      BY <1>5 DEF Manage
    <3>. QED
      BY <1>1, <1>4, <3>1, <3>2 DEF PageRows
  <2>4. CASE c.code \notin {"ok", "conflict"}
    BY <1>1, <2>1, <2>4 DEF AfterHold
  <2>. QED
    BY <2>2, <2>3, <2>4
<1>6. CASE s = "submit"
  <2>1. p = AfterSubmit(c) /\ s \notin Manage
    BY <1>6 DEF After, Manage
  <2>2. CASE c.code = "ok"
    <3>1. PICK h \in {page.hold, 0} : p = [page EXCEPT !.attempt = dropped, !.step = "result", !.hold = h]
      BY <1>1, <1>6, <2>1, <2>2 DEF AfterSubmit, PageRows, dropped
    <3>2. dropped["submit"] = NoKey /\ h \in 0..MaxKeys /\ h < page.next
      BY <1>1, <1>4, <1>6
    <3>3. /\ p \in PageRows /\ p.hold = h /\ p.next = page.next /\ p.cookie = page.cookie
          /\ p.forgot = page.forgot /\ p.conn = page.conn /\ p.attempt = dropped
      BY <1>1, <1>4, <3>1, <3>2 DEF PageRows
    <3>. QED
      BY <1>4, <2>1, <3>2, <3>3
  <2>3. CASE c.code # "ok"
    <3>1. PICK h \in {page.hold, 0}, a \in {page.attempt, dropped} : p = [page EXCEPT !.attempt = a, !.hold = h]
      <4>1. p = [page EXCEPT !.attempt["submit"] = IF c.code = "conflict" THEN NoKey ELSE @,
                             !.hold = IF page.mode = "booking" /\ c.code \in {"conflict", "gone"} THEN 0 ELSE @]
        BY <2>1, <2>3 DEF AfterSubmit
      <4>2. [page.attempt EXCEPT !["submit"] = page.attempt["submit"]] = page.attempt
        BY <1>1
      <4>. DEFINE h == IF page.mode = "booking" /\ c.code \in {"conflict", "gone"} THEN 0 ELSE page.hold
                  a == IF c.code = "conflict" THEN dropped ELSE page.attempt
      <4>3. p = [page EXCEPT !.attempt = a, !.hold = h]
        BY <1>1, <1>6, <4>1, <4>2 DEF PageRows, dropped
      <4>. QED
        BY <4>3
    <3>2. a \in [Slots -> KeyRows] /\ a[s] \in {page.attempt[s], NoKey}
          /\ (page.attempt["submit"] = NoKey => a["submit"] = NoKey)
          /\ \A t \in Slots : t # s => a[t] = page.attempt[t]
      BY <1>1, <1>4, <3>1
    <3>. QED
      BY <1>1, <2>1, <3>1, <3>2, ZenonT(60) DEF PageRows
  <2>. QED
    BY <2>2, <2>3
<1>7. CASE s \in Manage
  <2>1. p = AfterManage(c) /\ c.req.key.op = s
    BY <1>2, <1>7 DEF After, Manage
  <2>2. CASE c.code = "ok"
    <3>1. p = [page EXCEPT !.attempt = dropped]
      BY <1>1, <2>1, <2>2 DEF AfterManage, PageRows, dropped
    <3>. QED
      BY <1>1, <1>4, <2>2, <3>1 DEF PageRows
  <2>3. CASE c.code # "ok"
    BY <1>1, <2>1, <2>3 DEF AfterManage
  <2>. QED
    BY <2>2, <2>3
<1>. QED
  BY <1>5, <1>6, <1>7 DEF Slots

LEMMA AnswerInv ==
    ASSUME IInv, NEW s \in Slots, Answer(s)
    PROVE  IInv'
<1>. DEFINE c == page.conn[s]
            F == Flight(page, late)
<1>1. PICK p : p = After(s, c)
  OBVIOUS
<1>2. /\ c.phase = "answered"
      /\ page' = [p EXCEPT !.conn[s] = Idle, !.cookie = CookieOf(c),
                           !.forgot = @ /\ CookieOf(c) = page.cookie]
      /\ UNCHANGED <<world, db>>
      /\ late' = late \cup (IF s = "submit" /\ c.code \in {"conflict", "gone"} /\ page.mode = "booking"
                            THEN Release(page.hold) ELSE {})
  BY <1>1 DEF Answer, Leave
<1>3. /\ p \in PageRows /\ p.hold < p.next /\ p.next = page.next /\ p.cookie = page.cookie
      /\ p.forgot = page.forgot /\ p.conn = page.conn
      /\ p.step = "result" => p.attempt["submit"] = NoKey
      /\ \A t \in Slots : t # s => p.attempt[t] = page.attempt[t]
      /\ p.attempt[s] \in {page.attempt[s], NoKey}
      /\ p.attempt[s] = page.attempt[s] \/ s \notin Manage \/ c.code = "ok"
  BY <1>1, <1>2, AfterFacts
<1>4. /\ CookieOf(c) \in {page.cookie, 0} \/ Learnt(page, F, db, s, CookieOf(c))
      /\ c.code = "ok" /\ s \in Manage => CookieOf(c) = 0 \/ Learnt(page, F, db, s, CookieOf(c))
  BY <1>2, CookieFacts
<1>5. PICK k : k = CookieOf(c)
  OBVIOUS
<1>6. k \in Nat
  <2>1. page.cookie \in Nat /\ Len(db.tokens) \in Nat
    BY InvFacts
  <2>2. Learnt(page, F, db, s, k) => k \in 1..Len(db.tokens)
    BY DEF Learnt
  <2>. QED
    BY <1>4, <1>5, <2>1, <2>2
<1>. DEFINE conns == [page.conn EXCEPT ![s] = Idle]
            forgot == page.forgot /\ k = page.cookie
<1>7. page' = [p EXCEPT !.conn = conns, !.cookie = k, !.forgot = forgot]
  BY <1>2, <1>3, <1>5 DEF PageRows
<1>8. conns \in [Slots -> ConnRows] /\ conns[s] = Idle /\ forgot \in BOOLEAN
      /\ \A t \in Slots : t # s => conns[t] = page.conn[t]
  <2>1. Idle \in ConnRows
    BY GuestAssumption DEF NoKey, KeyRows, Idle, ConnRows, Request, RequestRows
  <2>. QED
    BY <2>1, InvFacts
<1>. HIDE DEF conns, forgot
<1>9. /\ page' \in PageRows /\ page'.hold = p.hold /\ page'.next = p.next /\ page'.step = p.step
      /\ page'.attempt = p.attempt /\ page'.conn = conns /\ page'.cookie = k /\ page'.forgot = forgot
  BY <1>3, <1>6, <1>7, <1>8 DEF PageRows
<1>10. \A r \in late' : r \in F \/ r \in Release(page.hold)
  BY <1>2, InvFacts
<1>11. page'.forgot = (page.forgot /\ page'.cookie = page.cookie)
  BY <1>9 DEF forgot
<1>12. /\ page'.cookie \in {page.cookie, 0} \/ Learnt(page, F, db, s, page'.cookie)
       /\ page'.attempt[s] = page.attempt[s] \/ s \notin Manage \/ page'.cookie = 0
          \/ Learnt(page, F, db, s, page'.cookie)
  BY <1>3, <1>4, <1>5, <1>9
<1>13. /\ page'.hold < page'.next /\ page'.next = page.next /\ page'.conn[s] = Idle
       /\ page'.step = "result" => page'.attempt["submit"] = NoKey
       /\ \A t \in Slots : t # s => page'.conn[t] = page.conn[t] /\ page'.attempt[t] = page.attempt[t]
       /\ page'.attempt[s] \in {page.attempt[s], NoKey}
  BY <1>3, <1>8, <1>9
<1>. QED
  BY <1>2, <1>9, <1>10, <1>11, <1>12, <1>13, SettledInv

LEMMA BreakInv ==
    ASSUME IInv, NEW s \in Slots, Break(s)
    PROVE  IInv'
<1>. DEFINE c == page.conn[s]
            F == Flight(page, late)
<1>1. PICK k \in {page.cookie} \cup (IF c.phase = "answered" THEN {CookieOf(c)} ELSE {}) :
        page' = [page EXCEPT !.conn[s] = Idle, !.cookie = k, !.forgot = @ /\ k = page.cookie]
  BY DEF Break
<1>2. UNCHANGED <<world, db>> /\ late' = late \cup (IF c.phase = "sent" THEN {c.req} ELSE {})
  BY DEF Break, Leave
<1>3. k \in {page.cookie, 0} \/ Learnt(page, F, db, s, k)
  BY <1>1, CookieFacts
<1>4. k \in Nat
  <2>1. page.cookie \in Nat /\ Len(db.tokens) \in Nat
    BY InvFacts
  <2>2. Learnt(page, F, db, s, k) => k \in 1..Len(db.tokens)
    BY DEF Learnt
  <2>. QED
    BY <1>3, <2>1, <2>2
<1>. DEFINE conns == [page.conn EXCEPT ![s] = Idle]
            forgot == page.forgot /\ k = page.cookie
<1>5. page' = [page EXCEPT !.conn = conns, !.cookie = k, !.forgot = forgot]
  BY <1>1, InvFacts DEF PageRows
<1>6. conns \in [Slots -> ConnRows] /\ conns[s] = Idle /\ forgot \in BOOLEAN
      /\ \A t \in Slots : t # s => conns[t] = page.conn[t]
  <2>1. Idle \in ConnRows
    BY GuestAssumption DEF NoKey, KeyRows, Idle, ConnRows, Request, RequestRows
  <2>. QED
    BY <2>1, InvFacts
<1>. HIDE DEF conns, forgot
<1>7. /\ page' \in PageRows /\ page'.hold = page.hold /\ page'.next = page.next /\ page'.step = page.step
      /\ page'.attempt = page.attempt /\ page'.conn = conns /\ page'.cookie = k /\ page'.forgot = forgot
  <2>1. page \in PageRows
    BY InvFacts
  <2>. QED
    BY <1>4, <1>5, <1>6, <2>1 DEF PageRows
<1>8. \A r \in late' : r \in F
  BY <1>2, InvFacts
<1>9. page'.forgot = (page.forgot /\ page'.cookie = page.cookie)
  BY <1>7 DEF forgot
<1>10. page.hold < page.next /\ (page.step = "result" => page.attempt["submit"] = NoKey)
  BY InvFacts DEF PageOK
<1>11. /\ page'.hold < page'.next /\ page'.conn[s] = Idle
       /\ page'.step = "result" => page'.attempt["submit"] = NoKey
       /\ \A t \in Slots : t # s => page'.conn[t] = page.conn[t] /\ page'.attempt[t] = page.attempt[t]
       /\ page'.attempt[s] = page.attempt[s]
  BY <1>6, <1>7, <1>10
<1>12. page'.cookie \in {page.cookie, 0} \/ Learnt(page, F, db, s, page'.cookie)
  BY <1>3, <1>7
<1>. QED
  BY <1>2, <1>7, <1>8, <1>9, <1>11, <1>12, SettledInv

-----------------------------------------------------------------------------
(* The steps of the server, of the network and of the others.               *)

LEMMA ServeInv ==
    ASSUME IInv, NEW s \in Slots, Serve(s)
    PROVE  IInv' /\ MarkedBySpending(db, db')
<1>. DEFINE F == Flight(page, late)
<1>1. PICK r : r = page.conn[s].req
  OBVIOUS
<1>2. page.conn[s].phase = "sent" /\ UNCHANGED <<world, late>>
  BY DEF Serve
<1>3. PICK o \in Handle(r) :
        /\ db' = o.db
        /\ page' = [page EXCEPT !.conn[s].phase = "answered", !.conn[s].code = o.code,
                                !.conn[s].token = o.token]
  BY <1>1 DEF Serve
<1>4. /\ RowsOK(db) /\ PageOK(page) /\ LinksOK(page, F, db) /\ page.cookie \in 0..Len(db.tokens)
      /\ r \in F /\ RequestOK(r, page, db)
  BY <1>1, <1>2, InvFacts
<1>5. RowsOK(o.db) /\ Moved(db, o.db, r) /\ MarkedBySpending(db, o.db) /\ Told(r, o)
  BY <1>4, HandleMoves DEF Handled
<1>6. LinksOK(page, F, o.db) /\ page.cookie \in 0..Len(o.db.tokens)
  BY <1>4, <1>5, LinksMove
<1>. DEFINE told == [page.conn[s] EXCEPT !.phase = "answered", !.code = o.code, !.token = o.token]
            conns == [page.conn EXCEPT ![s] = told]
<1>7. page.conn \in [Slots -> ConnRows] /\ page \in PageRows
  BY InvFacts
<1>8. /\ told \in ConnRows /\ told.phase = "answered" /\ told.req = r
      /\ told.code = o.code /\ told.token = o.token
  <2>1. page.conn[s] \in ConnRows
    BY <1>7
  <2>2. o.code \in {"ok", "conflict", "gone", "refused"} /\ o.token \in Nat
    BY <1>5 DEF Told
  <2>. QED
    BY <1>1, <2>1, <2>2 DEF ConnRows
<1>9. page' = [page EXCEPT !.conn = conns]
  BY <1>3, <1>7 DEF PageRows
<1>10. conns \in [Slots -> ConnRows] /\ conns[s] = told /\ \A t \in Slots : t # s => conns[t] = page.conn[t]
  BY <1>7, <1>8
<1>. HIDE DEF conns, told
<1>11. /\ page' \in PageRows /\ page'.conn = conns /\ page'.next = page.next /\ page'.cookie = page.cookie
       /\ page'.forgot = page.forgot /\ page'.attempt = page.attempt /\ page'.hold = page.hold
       /\ page'.step = page.step
  BY <1>7, <1>9, <1>10 DEF PageRows
<1>12. LinksOK(page', F, o.db)
  <2>. DEFINE q == page'
              d == o.db
  <2>1. /\ q.next = page.next /\ q.cookie = page.cookie /\ q.forgot = page.forgot /\ q.attempt = page.attempt
        /\ \A t \in Slots : t # s => q.conn[t] = page.conn[t]
        /\ q.conn[s].phase = "answered" /\ q.conn[s].req = page.conn[s].req
        /\ q.conn[s].code = o.code /\ q.conn[s].token = o.token
    BY <1>1, <1>8, <1>10, <1>11
  <2>2. LinksOK(page, F, d) /\ Told(page.conn[s].req, o) /\ o.db = d
    BY <1>1, <1>5, <1>6
  <2>. HIDE DEF q, d, F
  <2>3. LinksOK(q, F, d)
    BY <1>2, <1>4, <2>1, <2>2, LinksTold
  <2>. QED
    BY <2>3 DEF q, d
<1>13. \A x \in Flight(page', late') : x \in F
  <2>1. ASSUME NEW t \in Slots, page'.conn[t].phase = "sent"
        PROVE  page'.conn[t].req \in F
    <3>1. t # s /\ page'.conn[t] = page.conn[t]
      BY <1>8, <1>10, <1>11, <2>1
    <3>. QED
      BY <2>1, <3>1, InvFacts
  <2>. QED
    BY <1>2, <2>1, InvFacts DEF Flight
<1>14. LinksOK(page', Flight(page', late'), db')
  BY <1>3, <1>5, <1>12, <1>13, LinksOfOthers
<1>15. PageOK(page')
  <2>1. ASSUME NEW t \in Slots
        PROVE  SlotOK(page', t)
    <3>1. SlotOK(page, t)
      BY <1>4 DEF PageOK
    <3>2. CASE t = s
      <4>1. page'.conn[t].phase = "answered" /\ page'.conn[t].req = page.conn[t].req
        BY <1>1, <1>8, <1>10, <1>11, <3>2
      <4>. QED
        BY <1>2, <1>11, <3>1, <3>2, <4>1 DEF SlotOK
    <3>3. CASE t # s
      BY <1>10, <1>11, <3>1, <3>3 DEF SlotOK
    <3>. QED
      BY <3>2, <3>3
  <2>. QED
    BY <1>4, <1>11, <2>1 DEF PageOK
<1>16. page'.cookie = 0 \/ page'.cookie \in 1..Len(db'.tokens)
  <2>1. Len(o.db.tokens) \in Nat
    BY <1>5, RowFacts DEF RowsOK
  <2>. QED
    BY <1>3, <1>6, <1>11, <2>1
<1>. QED
  BY <1>2, <1>3, <1>5, <1>14, <1>15, <1>16, InvFacts DEF IInv

\* The rows move on behind the page, with the requests of before or fewer.
LEMMA RowsStep ==
    ASSUME IInv, UNCHANGED <<world, page>>, \A r \in late' : r \in late, RowsOK(db'),
           LinksOK(page, Flight(page, late), db'), page.cookie \in 0..Len(db'.tokens)
    PROVE  IInv'
<1>1. \A r \in Flight(page', late') : r \in Flight(page, late)
  BY DEF Flight
<1>2. LinksOK(page', Flight(page', late'), db')
  BY <1>1, LinksOfOthers
<1>3. page'.cookie = 0 \/ page'.cookie \in 1..Len(db'.tokens)
  <2>1. Len(db'.tokens) \in Nat
    BY RowFacts DEF RowsOK
  <2>. QED
    BY <2>1
<1>. QED
  BY <1>2, <1>3, InvFacts DEF IInv

LEMMA ServeLateInv ==
    ASSUME IInv, NEW r \in late, ServeLate(r)
    PROVE  IInv' /\ MarkedBySpending(db, db')
<1>1. PICK o \in Handle(r) : db' = o.db
  BY DEF ServeLate
<1>2. late' = late \ {r} /\ UNCHANGED <<world, page>>
  BY DEF ServeLate
<1>3. /\ RowsOK(db) /\ PageOK(page) /\ LinksOK(page, Flight(page, late), db)
      /\ page.cookie \in 0..Len(db.tokens)
      /\ r \in Flight(page, late) /\ RequestOK(r, page, db)
  BY InvFacts
<1>4. RowsOK(o.db) /\ Moved(db, o.db, r) /\ MarkedBySpending(db, o.db)
  BY <1>3, HandleMoves DEF Handled
<1>5. LinksOK(page, Flight(page, late), o.db) /\ page.cookie \in 0..Len(o.db.tokens)
  BY <1>3, <1>4, LinksMove
<1>. QED
  BY <1>1, <1>2, <1>4, <1>5, RowsStep

\* The others change rows, but no link.
LEMMA OthersStep ==
    ASSUME IInv, UNCHANGED <<world, page, late>>, RowsOK(db'), LinksStay(db, db')
    PROVE  IInv'
<1>1. LinksOK(page, Flight(page, late), db')
  BY LinksKept, InvFacts
<1>2. page.cookie \in 0..Len(db'.tokens)
  BY InvFacts DEF LinksStay
<1>. QED
  BY <1>1, <1>2, RowsStep

LEMMA OthersInv ==
    ASSUME IInv, HoldLapses \/ PaymentFails \/ OperatorEdits \/ OperatorCancels \/ OperatorErases
    PROVE  IInv' /\ MarkedBySpending(db, db')
<1>1. RowsOK(db) /\ db \in DbRows
  BY InvFacts DEF RowsOK
<1>2. /\ db.holds \in [Keys -> HoldRows] /\ db.visits \in Seq(VisitRows) /\ DOMAIN db.visits = 1..Len(db.visits)
      /\ \A v \in 1..Len(db.visits) : db.visits[v] \in VisitRows
  BY <1>1, RowFacts
<1>3. CASE HoldLapses
  <2>1. PICK k \in Keys : db.holds[k].state = "active" /\ db' = [db EXCEPT !.holds[k].state = "lapsed"]
    BY <1>3 DEF HoldLapses
  <2>2. UNCHANGED <<world, page, late>>
    BY <1>3 DEF HoldLapses
  <2>. DEFINE h == [db.holds EXCEPT ![k] = [db.holds[k] EXCEPT !.state = "lapsed"]]
  <2>3. [db.holds[k] EXCEPT !.state = "lapsed"] \in HoldRows
        /\ [db.holds[k] EXCEPT !.state = "lapsed"].visit = db.holds[k].visit
    BY <1>2 DEF HoldRows, HoldStates
  <2>4. /\ h \in [Keys -> HoldRows] /\ h[k].visit = db.holds[k].visit
        /\ \A x \in Keys : x # k => h[x] = db.holds[x]
    BY <1>2, <2>3
  <2>5. db' = [db EXCEPT !.holds = h]
    BY <1>1, <2>1 DEF DbRows
  <2>. HIDE DEF h
  <2>6. /\ db' \in DbRows /\ db'.holds = h /\ db'.records = db.records /\ db'.visits = db.visits
        /\ db'.tokens = db.tokens
    BY <1>1, <2>4, <2>5 DEF DbRows
  <2>7. \A x \in Keys : /\ db'.holds[x].visit \in {db.holds[x].visit, 0}
                        /\ db.holds[x].state = "consumed" => db'.holds[x] = db.holds[x]
    BY <2>1, <2>4, <2>6
  <2>8. RowsOK(db') /\ LinksStay(db, db') /\ MarkedBySpending(db, db')
    BY <1>1, <2>6, <2>7, HoldsMove
  <2>. QED
    BY <2>2, <2>8, OthersStep
<1>4. CASE PaymentFails \/ OperatorEdits \/ OperatorCancels
  <2>0. PICK v \in 1..Len(db.visits) : \E x :
          /\ \/ x = [db.visits[v] EXCEPT !.pay = "failed"]
             \/ x = [db.visits[v] EXCEPT !.by = "operator"]
             \/ x = [db.visits[v] EXCEPT !.status = "cancelled"]
          /\ db' = [db EXCEPT !.visits = [db.visits EXCEPT ![v] = x]]
    <3>1. CASE PaymentFails
      <4>1. PICK v \in 1..Len(db.visits) : db' = [db EXCEPT !.visits[v].pay = "failed"]
        BY <1>2, <3>1 DEF PaymentFails
      <4>2. db' = [db EXCEPT !.visits = [db.visits EXCEPT ![v] = [db.visits[v] EXCEPT !.pay = "failed"]]]
        BY <1>1, <4>1 DEF DbRows
      <4>. QED
        BY <4>2
    <3>2. CASE OperatorEdits
      <4>1. PICK v \in 1..Len(db.visits) : db' = [db EXCEPT !.visits[v].by = "operator"]
        BY <1>2, <3>2 DEF OperatorEdits
      <4>2. db' = [db EXCEPT !.visits = [db.visits EXCEPT ![v] = [db.visits[v] EXCEPT !.by = "operator"]]]
        BY <1>1, <4>1 DEF DbRows
      <4>. QED
        BY <4>2
    <3>3. CASE OperatorCancels
      <4>1. PICK v \in 1..Len(db.visits) : db' = [db EXCEPT !.visits[v].status = "cancelled"]
        BY <1>2, <3>3 DEF OperatorCancels
      <4>2. db' = [db EXCEPT !.visits = [db.visits EXCEPT ![v] = [db.visits[v] EXCEPT !.status = "cancelled"]]]
        BY <1>1, <4>1 DEF DbRows
      <4>. QED
        BY <4>2
    <3>. QED
      BY <1>4, <3>1, <3>2, <3>3
  <2>1. PICK x : /\ \/ x = [db.visits[v] EXCEPT !.pay = "failed"]
                    \/ x = [db.visits[v] EXCEPT !.by = "operator"]
                    \/ x = [db.visits[v] EXCEPT !.status = "cancelled"]
                 /\ db' = [db EXCEPT !.visits = [db.visits EXCEPT ![v] = x]]
    BY <2>0
  <2>2. UNCHANGED <<world, page, late>>
    BY <1>4 DEF PaymentFails, OperatorEdits, OperatorCancels
  <2>3. x \in VisitRows /\ SameVisit(db.visits[v], x) /\ (x.by = "guest" => db.visits[v].by = "guest")
    <3>1. db.visits[v] \in VisitRows
      BY <1>2
    <3>. QED
      BY <2>1, <3>1 DEF VisitRows, SameVisit
  <2>4. [db.visits EXCEPT ![v] = x] \in Seq(VisitRows)
    BY <1>2, <2>3
  <2>5. /\ db' \in DbRows /\ db'.holds = db.holds /\ db'.records = db.records /\ db'.tokens = db.tokens
        /\ db'.visits = [db.visits EXCEPT ![v] = x]
    <3>. DEFINE vs == [db.visits EXCEPT ![v] = x]
    <3>1. vs \in Seq(VisitRows) /\ db' = [db EXCEPT !.visits = vs]
      BY <2>1, <2>4
    <3>. HIDE DEF vs
    <3>2. db' \in DbRows /\ db'.holds = db.holds /\ db'.records = db.records /\ db'.tokens = db.tokens
          /\ db'.visits = vs
      BY <1>1, <3>1 DEF DbRows
    <3>. QED
      BY <3>2 DEF vs
  <2>6. RowsOK(db') /\ LinksStay(db, db') /\ MarkedBySpending(db, db')
    BY <1>1, <2>3, <2>5, VisitMove
  <2>. QED
    BY <2>2, <2>6, OthersStep
<1>5. CASE OperatorErases
  <2>1. PICK v \in 1..Len(db.visits) : db' = Erased(db, v, {})
    BY <1>2, <1>5 DEF OperatorErases
  <2>2. UNCHANGED <<world, page, late>>
    BY <1>5 DEF OperatorErases
  <2>3. db' \in DbRows /\ RowsErased(db, db', v, {})
    BY <1>1, <2>1, ErasedFacts
  <2>4. /\ ~db'.visits[v].personal /\ db'.visits[v].by = db.visits[v].by
        /\ Len(db'.visits) = Len(db.visits) /\ Len(db'.tokens) = Len(db.tokens)
        /\ \A u \in 1..Len(db.visits) : u # v => db'.visits[u] = db.visits[u]
        /\ \A k \in Keys : /\ db'.records[k] = IF db.records[k] = v THEN 0 ELSE db.records[k]
                           /\ db'.holds[k] = IF db.holds[k].visit = v THEN NoHold ELSE db.holds[k]
    <3>1. db.visits[v] \in VisitRows
      BY <1>2
    <3>2. db'.visits[v] = [db.visits[v] EXCEPT !.personal = FALSE]
      BY <2>3 DEF RowsErased
    <3>3. ~db'.visits[v].personal /\ db'.visits[v].by = db.visits[v].by
      BY <3>1, <3>2 DEF VisitRows
    <3>. QED
      BY <2>3, <3>3 DEF RowsErased
  <2>5. \A i \in 1..Len(db.tokens) :
           /\ SameLinks(db.tokens[i], db'.tokens[i])
           /\ IF db.tokens[i].visit = v THEN ~Live(db'.tokens[i]) ELSE db'.tokens[i] = db.tokens[i]
    <3>1. ASSUME NEW i \in 1..Len(db.tokens)
          PROVE  /\ SameLinks(db.tokens[i], db'.tokens[i])
                 /\ IF db.tokens[i].visit = v THEN ~Live(db'.tokens[i]) ELSE db'.tokens[i] = db.tokens[i]
      <4>1. db.tokens[i] \in TokenRows
        BY <1>1, RowFacts
      <4>2. db'.tokens[i] = IF db.tokens[i].visit = v
                            THEN [db.tokens[i] EXCEPT !.deleted = TRUE] ELSE db.tokens[i]
        BY <2>3 DEF RowsErased
      <4>. QED
        BY <4>1, <4>2 DEF TokenRows, SameLinks, Live
    <3>. QED
      BY <3>1
  <2>6. RowsOK(db') /\ LinksStay(db, db')
    BY <1>1, <2>3, <2>4, <2>5, EraseMove
  <2>7. MarkedBySpending(db, db')
    BY <2>4 DEF MarkedBySpending
  <2>. QED
    BY <2>2, <2>6, <2>7, OthersStep
<1>. QED
  BY <1>3, <1>4, <1>5

LEMMA NextInv ==
    ASSUME IInv, [Next]_vars
    PROVE  IInv' /\ MarkedBySpending(db, db')
<1>. DEFINE Others4 == HoldLapses \/ PaymentFails \/ OperatorEdits \/ OperatorCancels \/ OperatorErases
<1>1. db' = db => MarkedBySpending(db, db')
  BY InvFacts, NothingMoves
<1>2. CASE UNCHANGED vars
  <2>1. /\ world' = world /\ db' = db /\ page' = page /\ late' = late
    BY <1>2 DEF vars
  <2>2. RowsOK(db') /\ LinksStay(db, db')
    BY <2>1, InvFacts, NothingMoves
  <2>. QED
    BY <1>1, <2>1, <2>2, OthersStep
<1>3. ASSUME NEW op \in Calls, NEW changed \in BOOLEAN, Press(op, changed)
      PROVE  IInv' /\ db' = db
  BY <1>3, PressInv DEF Press
<1>4. CASE JoinWaitlist \/ BackToSearch \/ HoldTimer \/ NewReservation
  <2>1. db' = db
    BY <1>4 DEF JoinWaitlist, BackToSearch, HoldTimer, NewReservation
  <2>. QED
    BY <1>1, <1>4, <2>1, WalkInv
<1>5. CASE Reload
  <2>1. db' = db
    BY <1>5 DEF Reload
  <2>. QED
    BY <1>1, <1>5, <2>1, ReloadInv
<1>6. ASSUME NEW s \in Slots, Serve(s)
      PROVE  IInv' /\ MarkedBySpending(db, db')
  BY <1>6, ServeInv
<1>7. ASSUME NEW s \in Slots, Answer(s)
      PROVE  IInv' /\ db' = db
  BY <1>7, AnswerInv DEF Answer
<1>8. ASSUME NEW s \in Slots, Break(s)
      PROVE  IInv' /\ db' = db
  BY <1>8, BreakInv DEF Break
<1>9. ASSUME NEW r \in late, ServeLate(r)
      PROVE  IInv' /\ MarkedBySpending(db, db')
  BY <1>9, ServeLateInv
<1>10. CASE HoldLapses \/ PaymentFails \/ OperatorEdits \/ OperatorCancels \/ OperatorErases
  BY <1>10, OthersInv
<1>. QED
  BY <1>1, <1>2, <1>3, <1>4, <1>5, <1>6, <1>7, <1>8, <1>9, <1>10 DEF Next

-----------------------------------------------------------------------------
(* The theorems.                                                            *)

\* The rows of the server agree with one another, and nobody but the page learns the
\* token that a request of the page has made, whatever is sent, lost, repeated or late
\* (main.py 7036-7142, reservation_service.py 582-695, RezerwacjaWidget.jsx 100-103).
THEOREM InductiveInvariant == Spec => []IInv
<1>1. Init => IInv
  BY InitInv
<1>2. IInv /\ [Next]_vars => IInv'
  BY NextInv
<1>. QED
  BY <1>1, <1>2, PTL DEF Spec

\* However often a form is sent, changed and sent again, and whenever its copies
\* arrive, a hold becomes one visit, a submission one visit or one entry of the
\* waiting list (reservation_service.py 1561-1627, main.py 8487-8494, 9088-9105).
THEOREM FormsAreBookedOnce == Spec => []OneVisitPerSubmission
<1>1. ASSUME IInv
      PROVE  OneVisitPerSubmission
  <2>1. RowsOK(db) /\ VisitsOK(db)
    BY <1>1, InvFacts DEF RowsOK
  <2>2. DOMAIN db.visits = 1..Len(db.visits) /\ \A k \in Keys : db.waits[k] \in 0..1
    BY <2>1, RowFacts DEF RowsOK
  <2>3. ASSUME NEW u \in 1..Len(db.visits), NEW v \in 1..Len(db.visits), u # v,
               db.visits[u].personal, db.visits[v].personal
        PROVE  db.visits[u].hold # db.visits[v].hold /\ db.visits[u].key # db.visits[v].key
    <3>1. Known(db, u) /\ Known(db, v)
      BY <2>1, <2>3 DEF VisitsOK, VisitOK
    <3>. QED
      BY <2>3, <3>1 DEF Known
  <2>4. \A k \in Keys : db.waits[k] <= 1
    BY <2>2
  <2>. QED
    BY <2>2, <2>3, <2>4 DEF OneVisitPerSubmission
<1>. QED
  BY <1>1, InductiveInvariant, PTL

\* Nobody reaches a visit whose personal data has been erased, by a link, by a hold or by
\* a recorded submission, whatever request is still under way (rodo.py 725-795,
\* main.py 9680-9770).
THEOREM ErasedStaysUnreached == Spec => []ErasedHasNoWayBack
<1>1. ASSUME IInv
      PROVE  ErasedHasNoWayBack
  <2>1. RowsOK(db) /\ VisitsOK(db)
    BY <1>1, InvFacts DEF RowsOK
  <2>2. DOMAIN db.visits = 1..Len(db.visits) /\ DOMAIN db.tokens = 1..Len(db.tokens)
    BY <2>1, RowFacts DEF RowsOK
  <2>3. \A v \in 1..Len(db.visits) : ~db.visits[v].personal => Forgotten(db, v)
    BY <2>1 DEF VisitsOK, VisitOK
  <2>. QED
    BY <2>2, <2>3 DEF ErasedHasNoWayBack, Forgotten
<1>. QED
  BY <1>1, InductiveInvariant, PTL

\* The change of a guest spends a token that was live, so a copy of it that arrives late
\* does not undo what an operator has changed since (reservation_service.py 629-695).
THEOREM LateCopiesUndoNothing == Spec => ChangeSpendsToken
<1>1. ASSUME IInv, [Next]_vars
      PROVE  [\A v \in DOMAIN db.visits :
                (db.visits[v].by # "guest" /\ db'.visits[v].by = "guest")
                  => \E i \in DOMAIN db.tokens : Live(db.tokens[i]) /\ db'.tokens[i].used]_vars
  <2>1. RowsOK(db) /\ MarkedBySpending(db, db')
    BY <1>1, InvFacts, NextInv
  <2>2. DOMAIN db.visits = 1..Len(db.visits) /\ DOMAIN db.tokens = 1..Len(db.tokens)
    BY <2>1, RowFacts DEF RowsOK
  <2>. QED
    BY <2>1, <2>2 DEF MarkedBySpending
<1>2. IInv /\ [Next]_vars
      => [\A v \in DOMAIN db.visits :
            (db.visits[v].by # "guest" /\ db'.visits[v].by = "guest")
              => \E i \in DOMAIN db.tokens : Live(db.tokens[i]) /\ db'.tokens[i].used]_vars
  BY <1>1
<1>. QED
  BY <1>2, InductiveInvariant, PTL DEF Spec, ChangeSpendsToken

\* A guest whose page still remembers what it asked for is never locked out: its cookie is
\* the live token, or repeating one of the open requests answers with it; and repeating a
\* submission that was booked answers with the first one (reservation_service.py 596-695,
\* main.py 8487-8494).
THEOREM GuestIsNotLockedOut == Spec => []RepetitionSucceeds
<1>1. ASSUME IInv
      PROVE  RepetitionSucceeds
  <2>. DEFINE F == Flight(page, late)
  <2>1. /\ RowsOK(db) /\ PageOK(page) /\ LinksOK(page, F, db) /\ page.cookie \in 0..Len(db.tokens)
        /\ Len(db.tokens) \in Nat
    BY <1>1, InvFacts
  <2>2. \A i \in 1..Len(db.tokens) : TokenOK(db, i)
    BY <2>1 DEF RowsOK, TokensOK
  <2>3. ASSUME page.cookie # 0, ~page.forgot, db.visits[db.tokens[page.cookie].visit].personal,
               ~Live(db.tokens[page.cookie])
        PROVE  \E s \in Manage : page.attempt[s] # NoKey /\ Answers(page.cookie, page.attempt[s])
    <3>. DEFINE c == page.cookie
                t == db.tokens[c]
    <3>1. c \in 1..Len(db.tokens) /\ TokenOK(db, c)
      BY <2>1, <2>2, <2>3
    <3>2. ~t.revoked /\ ~t.deleted /\ t.used
      BY <2>3, <3>1 DEF TokenOK, Live
    <3>3. t.next \in 1..Len(db.tokens) /\ db.tokens[t.next].visit = t.visit /\ t.for.op \in Manage
      BY <3>1, <3>2 DEF TokenOK
    <3>4. ~db.tokens[t.next].revoked /\ ~db.tokens[t.next].deleted
      BY <2>2, <2>3, <3>3 DEF TokenOK
    <3>5. Secret(F, db, t.next) /\ page.attempt[t.for.op] = t.for
      BY <2>1, <2>3, <3>2 DEF LinksOK, CookieOK
    <3>6. t.for # NoKey
      BY <3>3 DEF NoKey, Manage
    <3>. DEFINE r == Request(t.for, 0, c)
    <3>7. r.key = t.for /\ r.token = c
      BY DEF Request
    <3>8. Rotate(r) = {Reply(db, "ok", t.next)}
      BY <3>2, <3>4, <3>5, <3>7 DEF Rotate, ReplayRotation, Repeated, Secret
    <3>9. Live(db.tokens[t.next])
      BY <3>4, <3>5 DEF Secret, Live
    <3>10. Answers(c, t.for)
      <4>1. PICK o : o = Reply(db, "ok", t.next)
        OBVIOUS
      <4>2. o.code = "ok" /\ o.db = db /\ o.token = t.next
        BY <4>1 DEF Reply
      <4>3. o.code = "ok" /\ Live(o.db.tokens[o.token])
        BY <3>9, <4>2
      <4>4. o \in Rotate(Request(t.for, 0, c))
        BY <3>8, <4>1
      <4>. HIDE DEF t, c
      <4>. QED
        BY <4>3, <4>4 DEF Answers
    <3>. QED
      BY <3>3, <3>5, <3>6, <3>10
  <2>4. ASSUME page.attempt["submit"].op = "submit", db.records[page.attempt["submit"].n] # 0
        PROVE  ReplayBooking(db.records[page.attempt["submit"].n]).code = "ok"
    <3>. DEFINE n == page.attempt["submit"].n
                v == db.records[n]
                i == First(db, v)
    <3>1. n \in Keys
      BY <2>1, <2>4, SubmitKey
    <3>2. v \in 1..Len(db.visits) /\ VisitOK(db, v)
      <4>1. v \in Nat /\ v <= Len(db.visits) /\ Len(db.visits) \in Nat /\ VisitsOK(db)
        BY <2>1, <3>1, RowFacts DEF RowsOK, VisitsOK
      <4>. QED
        BY <2>4, <4>1 DEF VisitsOK
    <3>3. db.visits[v].personal
      BY <3>1, <3>2 DEF VisitOK, Forgotten
    <3>4. i \in 1..Len(db.tokens) /\ db.tokens[i].visit = v /\ Root(db, i)
      BY <2>1, <3>2, FirstFacts
    <3>5. Secret(F, db, i)
      BY <2>1, <2>4, <3>4 DEF LinksOK, SubmitOK
    <3>6. ~db.tokens[i].used /\ ~db.tokens[i].revoked /\ ~db.tokens[i].deleted
      BY <2>2, <3>3, <3>4, <3>5 DEF TokenOK, Secret
    <3>. QED
      BY <3>6 DEF ReplayBooking, Reply
  <2>. QED
    BY <2>3, <2>4 DEF RepetitionSucceeds
<1>. QED
  BY <1>1, InductiveInvariant, PTL

=============================================================================
