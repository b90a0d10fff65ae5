---------------------------- MODULE Customers_proofs ----------------------------
(***************************************************************************)
(* Proofs about Customers, for every set of visits, contacts and requests  *)
(* and every number of consents and merges.                                *)
(*                                                                         *)
(* Merges: whatever takes the contact away from a row looks, in the same   *)
(* transaction, for another row that carries the identity; only an edit    *)
(* that does not hold its row may look for another identity than it takes. *)
(* Consents: only an operator withdraws, and whatever removes his record   *)
(* removes every other consent of the identity with it.                    *)
(***************************************************************************)
EXTENDS Customers, FiniteSetTheorems, SequenceTheorems, TLAPS

-----------------------------------------------------------------------------
(* Rows.                                                                    *)

Forms == Contacts \cup {Nobody}
Ids == ({"contact"} \X STRING) \cup ({"visit"} \X Visits) \cup ({"wait"} \X Waits)
GuestRows ==
    {row \in [contact : Forms, state : {"none", "open", "closed", "deleted"}, unseen : SUBSET Ids] :
        row.state = "none" => row.unseen = {}}
FactRows ==
    {f \in [subject : Ids, decision : {"grant", "decline", "withdraw"}, visit : Visits \cup {NoOne},
            wait : Waits \cup {NoOne}, key : Nat] : f.decision = "withdraw" => ~Public(f)}
MergeRows ==
    [source : Ids, target : Ids, refs : Visits \X Visits, status : {"active", "reverted", "gone"},
     version : Nat, key : Nat, undo : Nat]
EditFields == {"op", "visit", "contact", "was", "is", "held", "locked", "alone", "moves"}

RowTypes ==
    /\ world \in Worlds /\ keys \in Nat
    /\ visits \in [Visits -> GuestRows] /\ waits \in [Waits -> GuestRows]
    /\ facts \in Seq(FactRows)
    /\ merges \in Seq(MergeRows) /\ Len(merges) <= MaxMerges

-----------------------------------------------------------------------------
(* A finite set of integers can be listed in ascending order: the place of  *)
(* an element is the number of those that are not above it.                 *)

AtMost(S, x) == {y \in S : y <= x}

LEMMA Ranks ==
    ASSUME NEW S \in SUBSET Int, IsFiniteSet(S)
    PROVE  /\ \A x \in S : Cardinality(AtMost(S, x)) \in 1..Cardinality(S)
           /\ \A x, y \in S : x < y => Cardinality(AtMost(S, x)) < Cardinality(AtMost(S, y))
<1>1. \A x \in S : /\ IsFiniteSet(AtMost(S, x)) /\ Cardinality(AtMost(S, x)) \in Nat
                   /\ Cardinality(AtMost(S, x)) <= Cardinality(S)
  <2>. TAKE x \in S
  <2>1. AtMost(S, x) \in SUBSET S
    BY DEF AtMost
  <2>. QED
    BY <2>1, FS_Subset, FS_CardinalityType
<1>2. Cardinality(S) \in Nat
  BY FS_CardinalityType
<1>3. \A x \in S : Cardinality(AtMost(S, x)) # 0
  <2>. TAKE x \in S
  <2>1. x \in AtMost(S, x)
    BY DEF AtMost
  <2>. QED
    BY <1>1, <2>1, FS_EmptySet
<1>4. ASSUME NEW x \in S, NEW y \in S, x < y
      PROVE  Cardinality(AtMost(S, x)) < Cardinality(AtMost(S, y))
  <2>1. AtMost(S, x) \in SUBSET AtMost(S, y)
    <3>1. \A z \in S : z \in Int /\ x \in Int /\ y \in Int
      OBVIOUS
    <3>2. \A z \in S : z <= x => z <= y
      BY <1>4, <3>1
    <3>. QED
      BY <3>2 DEF AtMost
  <2>2. y \in AtMost(S, y) /\ y \notin AtMost(S, x)
    BY <1>4 DEF AtMost
  <2>3. /\ Cardinality(AtMost(S, x)) <= Cardinality(AtMost(S, y))
        /\ Cardinality(AtMost(S, y)) = Cardinality(AtMost(S, x)) => AtMost(S, y) = AtMost(S, x)
    BY <1>1, <2>1, FS_Subset
  <2>. QED
    BY <1>1, <2>2, <2>3
<1>. QED
  BY <1>1, <1>2, <1>3, <1>4

LEMMA OrderedFacts ==
    ASSUME NEW S \in SUBSET Int, IsFiniteSet(S)
    PROVE  /\ Ordered(S) \in [1..Cardinality(S) -> S]
           /\ \A x \in S : \E i \in 1..Cardinality(S) : Ordered(S)[i] = x
           /\ \A i, j \in 1..Cardinality(S) : i < j => Ordered(S)[i] < Ordered(S)[j]
           /\ Cardinality(S) \in Nat
<1>. DEFINE n == Cardinality(S)
            rank == [x \in S |-> Cardinality(AtMost(S, x))]
            Ascending(q) == \A i, j \in DOMAIN q : i < j => q[i] < q[j]
<1>1. n \in Nat /\ IsFiniteSet(1..n) /\ Cardinality(1..n) = n
  <2>1. n \in Nat
    BY FS_CardinalityType
  <2>. QED
    BY <2>1, FS_Interval
<1>2. rank \in [S -> 1..n] /\ \A x, y \in S : x < y => rank[x] < rank[y]
  BY Ranks
<1>. HIDE DEF rank, n
<1>3. rank \in Injection(S, 1..n)
  <2>1. ASSUME NEW x \in S, NEW y \in S, rank[x] = rank[y]
        PROVE  x = y
    <3>1. rank[x] \in Int /\ rank[y] \in Int /\ x \in Int /\ y \in Int
      BY <1>1, <1>2
    <3>2. ~(x < y) /\ ~(y < x)
      BY <1>2, <2>1, <3>1
    <3>. QED
      BY <3>1, <3>2
  <2>. QED
    BY <1>2, <2>1 DEF Injection, IsInjective
<1>4. rank \in Surjection(S, 1..n)
  BY <1>1, <1>3, FS_Injection DEF n
<1>5. \E q \in [1..n -> S] : Ascending(q)
  <2>. DEFINE q == [i \in 1..n |-> CHOOSE x \in S : rank[x] = i]
  <2>1. \A i \in 1..n : \E x \in S : rank[x] = i
    BY <1>4 DEF Surjection
  <2>2. q \in [1..n -> S] /\ \A i \in 1..n : rank[q[i]] = i
    BY <2>1
  <2>. HIDE DEF q
  <2>3. ASSUME NEW i \in 1..n, NEW j \in 1..n, i < j
        PROVE  q[i] < q[j]
    <3>1. q[i] \in Int /\ q[j] \in Int /\ rank[q[i]] = i /\ rank[q[j]] = j
      BY <2>2
    <3>2. ~(q[j] < q[i]) /\ q[i] # q[j]
      BY <1>1, <1>2, <2>2, <2>3, <3>1
    <3>. QED
      BY <3>1, <3>2
  <2>4. Ascending(q)
    BY <2>2, <2>3
  <2>. QED
    BY <2>2, <2>4
<1>6. Ordered(S) \in [1..n -> S] /\ Ascending(Ordered(S))
  BY <1>5 DEF Ordered, n
<1>7. Ordered(S) \in Injection(1..n, S)
  <2>1. ASSUME NEW i \in 1..n, NEW j \in 1..n, Ordered(S)[i] = Ordered(S)[j]
        PROVE  i = j
    <3>1. i \in Int /\ j \in Int /\ Ordered(S)[i] \in Int /\ Ordered(S)[j] \in Int
      <4>1. Ordered(S) \in [1..n -> S]
        BY <1>6
      <4>2. Ordered(S)[i] \in S /\ Ordered(S)[j] \in S
        BY <4>1
      <4>3. i \in Int /\ j \in Int
        <5>1. n \in Nat
          BY <1>1
        <5>. QED
          BY <5>1
      <4>4. \A z \in S : z \in Int
        OBVIOUS
      <4>. QED
        BY <4>2, <4>3, <4>4
    <3>. QED
      BY <1>6, <2>1, <3>1
  <2>. QED
    BY <1>6, <2>1 DEF Injection, IsInjective
<1>8. Ordered(S) \in Surjection(1..n, S)
  BY <1>1, <1>7, FS_Injection DEF n
<1>. QED
  BY <1>1, <1>6, <1>8 DEF Surjection, n

LEMMA Extremes ==
    ASSUME NEW S \in SUBSET Int, IsFiniteSet(S), S # {}
    PROVE  /\ \E x \in S : \A y \in S : y <= x
           /\ \E x \in S : \A y \in S : x <= y
<1>. DEFINE n == Cardinality(S)
            q == Ordered(S)
<1>1. /\ q \in [1..n -> S] /\ n \in Nat
      /\ \A x \in S : \E i \in 1..n : q[i] = x
      /\ \A i, j \in 1..n : i < j => q[i] < q[j]
  BY OrderedFacts
<1>. HIDE DEF n, q
<1>2. n >= 1
  <2>1. PICK x \in S : TRUE
    OBVIOUS
  <2>2. PICK i \in 1..n : q[i] = x
    BY <1>1
  <2>. QED
    BY <1>1, <2>2
<1>3. ASSUME NEW i \in 1..n, NEW j \in 1..n, i <= j
      PROVE  q[i] <= q[j]
  <2>1. q[i] \in Int /\ q[j] \in Int
    BY <1>1
  <2>. QED
    BY <1>1, <1>3, <2>1
<1>4. \A y \in S : y <= q[n]
  BY <1>1, <1>2, <1>3
<1>5. \A y \in S : q[1] <= y
  <2>. TAKE y \in S
  <2>1. PICK i \in 1..n : q[i] = y
    BY <1>1
  <2>2. 1 \in 1..n /\ 1 <= i
    BY <1>1, <1>2
  <2>. QED
    BY <1>3, <2>1, <2>2
<1>6. q[1] \in S /\ q[n] \in S
  <2>1. 1 \in 1..n /\ n \in 1..n
    BY <1>1, <1>2
  <2>. QED
    BY <1>1, <2>1
<1>. QED
  BY <1>4, <1>5, <1>6

LEMMA PlacesAreFinite ==
    ASSUME NEW n \in Nat, NEW S \in SUBSET (1..n)
    PROVE  S \in SUBSET Int /\ IsFiniteSet(S)
<1>1. IsFiniteSet(1..n)
  BY FS_Interval
<1>2. IsFiniteSet(S)
  BY <1>1, FS_Subset
<1>. QED
  BY <1>2

LEMMA KeptRows ==
    ASSUME NEW R, NEW rows \in Seq(R), NEW places \in SUBSET DOMAIN rows
    PROVE  Kept(rows, places) \in Seq(R)
<1>1. places \in SUBSET Int /\ IsFiniteSet(places)
  BY PlacesAreFinite, Len(rows) \in Nat, DOMAIN rows = 1..Len(rows)
<1>2. /\ Ordered(places) \in [1..Cardinality(places) -> places]
      /\ Cardinality(places) \in Nat
  BY <1>1, OrderedFacts
<1>3. \A i \in 1..Cardinality(places) : rows[Ordered(places)[i]] \in R
  BY <1>2
<1>. QED
  BY <1>2, <1>3 DEF Kept

-----------------------------------------------------------------------------
(* The inductive invariant.                                                 *)

\* Some row carries the identity, or an edit overlooked it; deleted visits keep their contact.
Living(vs, ws, h) ==
    \/ \E v \in Visits : vs[v].state # "none" /\ Identity("visit", v, vs[v].contact) = h
    \/ \E v \in Visits : h \in vs[v].unseen
    \/ \E w \in Waits : ws[w].state \in Present /\ Identity("wait", w, ws[w].contact) = h

\* An edit that holds its visit has it to itself and knows the identity it takes away.
TxOK(tx, vs) ==
    /\ tx.op = "edit" =>
         /\ DOMAIN tx = EditFields /\ tx.held \in BOOLEAN
         /\ tx.visit \in Visits /\ tx.contact \in Forms
         /\ tx.is = Identity("visit", tx.visit, tx.contact)
         /\ tx.held => /\ vs[tx.visit].state \in Present
                       /\ tx.was = Identity("visit", tx.visit, vs[tx.visit].contact)
    /\ tx.op \in {"merge", "undo"} => tx.key \in Nat
    /\ tx.op \in {"consent", "record"} =>
         /\ DOMAIN tx = {"op", "visit", "decision", "key", "subject"}
         /\ tx.key \in Nat \ {0} /\ tx.decision \in {"grant", "withdraw"}
    /\ tx.op = "record" => tx.subject \in Ids
Holding(tx) == tx.op = "edit" /\ tx.held
TxsOK(txs, vs) ==
    /\ DOMAIN txs = Slots /\ \A s \in Slots : TxOK(txs[s], vs)
    /\ \A s, t \in Slots : Holding(txs[s]) /\ txs[t].op = "edit" /\ txs[s].visit = txs[t].visit => s = t

MergesOK(rows, vs, ws) ==
    /\ \A j, k \in Active(rows) : j # k => rows[j].source \notin {rows[k].source, rows[k].target}
    /\ \A k \in Active(rows) : /\ rows[k].source # rows[k].target
                               /\ Living(vs, ws, rows[k].source) /\ Living(vs, ws, rows[k].target)

Core == RowTypes /\ TxsOK(open, visits) /\ MergesOK(merges, visits, waits)

\* Only visits of the hall are edited without being held, and only there an identity is overlooked.
Aside(vs, txs, halls) ==
    /\ \A v \in Visits \ halls : vs[v].unseen = {}
    /\ \A s \in Slots : txs[s].op = "edit" => txs[s].held \/ txs[s].visit \in halls

IInv == Core /\ Aside(visits, open, world.halls)

-----------------------------------------------------------------------------
(* Identities.                                                              *)

LEMMA Assumed ==
    /\ \A c \in Contacts : c.phone \in STRING /\ c.email \in STRING
    /\ MaxFacts \in Nat /\ MaxMerges \in Nat
    /\ Visits \subseteq Nat \ {0}
    /\ \A w \in Worlds : w.contacts \subseteq Contacts /\ w.visits \in Seq(Contacts)
BY CustomersAssumption

LEMMA IdentityType ==
    ASSUME NEW c \in Forms
    PROVE  /\ \A v \in Visits : Identity("visit", v, c) \in Ids
           /\ \A w \in Waits : Identity("wait", w, c) \in Ids
<1>1. (c.phone # "" => c.phone \in STRING) /\ (c.email # "" => c.email \in STRING)
  <2>1. Nobody.phone = "" /\ Nobody.email = ""
    BY DEF Nobody
  <2>2. c \in Contacts \/ c = Nobody
    BY DEF Forms
  <2>. QED
    BY <2>1, <2>2, Assumed
<1>. QED
  BY <1>1 DEF Identity, Ids

\* The merges that start at an identity, and the one step along them.
From(rows, x) == {k \in Active(rows) : rows[k].source = x}
Hop(rows, x) == IF From(rows, x) = {} THEN x ELSE rows[CHOOSE k \in From(rows, x) : TRUE].target

\* No merge ends where one starts.
OneDeep(rows) == \A j, k \in Active(rows) : rows[j].source # rows[k].target

\* alias_map: the identity that stands for another is at most one merge away.
LEMMA CanonicalIsNear ==
    ASSUME NEW rows, NEW h, OneDeep(rows)
    PROVE  Canonical(rows, h) = h \/ \E k \in Active(rows) : Canonical(rows, h) = rows[k].target
<1>. DEFINE Walk(f) == f = [n \in 0..MaxMerges |-> IF n = 0 THEN h ELSE Hop(rows, f[n - 1])]
            walk == CHOOSE f : Walk(f)
            near == [n \in 0..MaxMerges |-> IF n = 0 THEN h ELSE Hop(rows, h)]
<1>1. MaxMerges \in Nat
  BY Assumed
<1>2. Hop(rows, h) = h \/ \E k \in Active(rows) : Hop(rows, h) = rows[k].target
  BY DEF Hop, From
<1>3. Hop(rows, Hop(rows, h)) = Hop(rows, h)
  <2>1. CASE From(rows, h) = {}
    BY <2>1 DEF Hop
  <2>2. CASE From(rows, h) # {}
    <3>1. PICK k \in Active(rows) : Hop(rows, h) = rows[k].target
      BY <2>2 DEF Hop, From
    <3>2. From(rows, rows[k].target) = {}
      BY DEF From, OneDeep
    <3>. QED
      BY <3>1, <3>2 DEF Hop
  <2>. QED
    BY <2>1, <2>2
<1>4. Walk(near)
  <2>1. ASSUME NEW n \in 0..MaxMerges, n # 0
        PROVE  near[n] = Hop(rows, near[n - 1])
    <3>1. n - 1 \in 0..MaxMerges
      BY <1>1, <2>1
    <3>2. near[n - 1] = h \/ near[n - 1] = Hop(rows, h)
      BY <3>1
    <3>. QED
      BY <1>3, <2>1, <3>2
  <2>2. near[0] = h
    BY <1>1
  <2>3. \A n \in 0..MaxMerges : near[n] = IF n = 0 THEN h ELSE Hop(rows, near[n - 1])
    BY <2>1, <2>2
  <2>. QED
    BY <2>3
<1>5. Walk(walk)
  BY <1>4
<1>6. \A n \in 0..MaxMerges : walk[n] = IF n = 0 THEN h ELSE Hop(rows, walk[n - 1])
  BY <1>5
<1>. HIDE DEF walk, near, Walk
<1>7. \A n \in 0..MaxMerges : walk[n] \in {h, Hop(rows, h)}
  <2>. DEFINE strays == {n \in 0..MaxMerges : walk[n] \notin {h, Hop(rows, h)}}
  <2>1. CASE strays = {}
    BY <2>1
  <2>2. CASE strays # {}
    <3>1. strays \in SUBSET Int /\ IsFiniteSet(strays)
      <4>1. IsFiniteSet(0..MaxMerges)
        BY <1>1, FS_Interval
      <4>2. IsFiniteSet(strays)
        BY <4>1, FS_Subset
      <4>. QED
        BY <4>2
    <3>2. PICK m \in strays : \A n \in strays : m <= n
      BY <2>2, <3>1, Extremes
    <3>3. m # 0 /\ m - 1 \in 0..MaxMerges /\ m - 1 \notin strays
      <4>1. m \in 0..MaxMerges /\ m \in Int
        BY <3>1
      <4>2. m # 0
        BY <1>6, <3>2
      <4>. QED
        BY <1>1, <3>1, <3>2, <4>1, <4>2
    <3>4. walk[m - 1] \in {h, Hop(rows, h)}
      BY <3>3
    <3>5. walk[m] = Hop(rows, walk[m - 1])
      BY <1>6, <3>2, <3>3
    <3>. QED
      BY <1>3, <3>2, <3>4, <3>5
  <2>. QED
    BY <2>1, <2>2
<1>8. Canonical(rows, h) \in {h, walk[MaxMerges]}
  BY DEF Canonical, walk, Walk, Hop, From
<1>9. MaxMerges \in 0..MaxMerges
  BY <1>1
<1>. QED
  BY <1>2, <1>7, <1>8, <1>9

-----------------------------------------------------------------------------
(* Transactions and merges while rows change.                               *)

LEMMA OneTxChanges ==
    ASSUME NEW txs, NEW vs, TxsOK(txs, vs), NEW s \in Slots, NEW tx, TxOK(tx, vs),
           tx.op = "edit" =>
               \A t \in Slots \ {s} : txs[t].op = "edit" /\ txs[t].visit = tx.visit => ~tx.held /\ ~txs[t].held,
           NEW new, new = [txs EXCEPT ![s] = tx]
    PROVE  TxsOK(new, vs)
<1>1. /\ DOMAIN new = Slots /\ new[s] = tx
      /\ \A t \in Slots \ {s} : new[t] = txs[t]
  BY DEF TxsOK
<1>2. \A t \in Slots : TxOK(new[t], vs)
  BY <1>1 DEF TxsOK
<1>3. ASSUME NEW t \in Slots, NEW u \in Slots,
             Holding(new[t]), new[u].op = "edit", new[t].visit = new[u].visit
      PROVE  t = u
  BY <1>1, <1>3 DEF TxsOK, Holding
<1>. QED
  BY <1>1, <1>2, <1>3 DEF TxsOK

LEMMA EndedTx ==
    ASSUME NEW txs, NEW vs, TxsOK(txs, vs), NEW s \in Slots, NEW new, new = [txs EXCEPT ![s] = Free]
    PROVE  TxsOK(new, vs)
<1>1. Free.op = "none"
  BY DEF Free
<1>2. TxOK(Free, vs)
  BY <1>1 DEF TxOK
<1>. QED
  BY <1>1, <1>2, OneTxChanges

\* Visits change that no edit holds.
LEMMA OtherVisitsChange ==
    ASSUME NEW txs, NEW vs, NEW new, TxsOK(txs, vs),
           \A s \in Slots : Holding(txs[s]) =>
               /\ new[txs[s].visit].contact = vs[txs[s].visit].contact
               /\ new[txs[s].visit].state = vs[txs[s].visit].state
    PROVE  TxsOK(txs, new)
<1>1. ASSUME NEW s \in Slots
      PROVE  TxOK(txs[s], new)
  BY DEF TxsOK, TxOK, Holding
<1>. QED
  BY <1>1 DEF TxsOK

\* A merge goes only when it is undone or erased; of those that stay both ends are carried on.
LEMMA FewerMerges ==
    ASSUME NEW rows, NEW new, NEW vs, NEW ws, NEW vs2, NEW ws2, MergesOK(rows, vs, ws),
           \A k \in Active(new) : /\ k \in Active(rows)
                                  /\ new[k].source = rows[k].source /\ new[k].target = rows[k].target
                                  /\ Living(vs, ws, rows[k].source) => Living(vs2, ws2, rows[k].source)
                                  /\ Living(vs, ws, rows[k].target) => Living(vs2, ws2, rows[k].target)
    PROVE  MergesOK(new, vs2, ws2)
BY Zenon DEF MergesOK

LEMMA SameMerges ==
    ASSUME NEW rows, NEW vs, NEW ws, NEW vs2, NEW ws2, MergesOK(rows, vs, ws),
           \A v \in Visits : /\ vs[v].state # "none" => vs2[v].state # "none" /\ vs2[v].contact = vs[v].contact
                             /\ vs[v].unseen \subseteq vs2[v].unseen,
           \A w \in Waits : ws[w].state \in Present => ws2[w].state \in Present /\ ws2[w].contact = ws[w].contact
    PROVE  MergesOK(rows, vs2, ws2)
<1>1. ASSUME NEW h, Living(vs, ws, h)
      PROVE  Living(vs2, ws2, h)
  BY <1>1 DEF Living
<1>. QED
  BY <1>1, FewerMerges

LEMMA MergesAreOneDeep ==
    ASSUME NEW rows, NEW vs, NEW ws, MergesOK(rows, vs, ws)
    PROVE  OneDeep(rows)
BY DEF MergesOK, OneDeep

-----------------------------------------------------------------------------
(* The first state.                                                         *)

LEMMA InitInv == Init => Core
<1>. SUFFICES ASSUME Init PROVE Core
  OBVIOUS
<1>. USE DEF Init
<1>1. Nobody \in Forms
  BY DEF Forms
<1>2. RowTypes
  <2>1. ASSUME NEW v \in Visits
        PROVE  (IF v <= Len(world.visits) THEN Row(world.visits[v], "open") ELSE Row(Nobody, "none")) \in GuestRows
    <3>1. v \in Nat \ {0} /\ world.visits \in Seq(Contacts)
      BY Assumed
    <3>2. CASE v <= Len(world.visits)
      <4>1. world.visits[v] \in Forms
        BY <3>1, <3>2 DEF Forms
      <4>. QED
        BY <3>2, <4>1 DEF GuestRows, Row
    <3>3. CASE ~(v <= Len(world.visits))
      BY <1>1, <3>3 DEF GuestRows, Row
    <3>. QED
      BY <3>2, <3>3
  <2>2. visits \in [Visits -> GuestRows]
    BY <2>1
  <2>3. waits \in [Waits -> GuestRows]
    BY <1>1 DEF GuestRows, Row
  <2>4. MaxMerges \in Nat
    BY Assumed
  <2>. QED
    BY <2>2, <2>3, <2>4 DEF RowTypes
<1>3. TxsOK(open, visits)
  <2>1. Free.op = "none"
    BY DEF Free
  <2>. QED
    BY <2>1 DEF TxsOK, TxOK
<1>4. MergesOK(merges, visits, waits)
  BY DEF MergesOK, Active
<1>. QED
  BY <1>2, <1>3, <1>4 DEF Core

-----------------------------------------------------------------------------
(* Guests.                                                                  *)

LEMMA RowType ==
    ASSUME NEW c \in Forms, NEW state \in {"none", "open", "closed", "deleted"}
    PROVE  /\ Row(c, state) \in GuestRows
           /\ Row(c, state).contact = c /\ Row(c, state).state = state /\ Row(c, state).unseen = {}
BY DEF Row, GuestRows

LEMMA FactType ==
    ASSUME NEW h \in Ids, NEW decision, NEW v \in Visits \cup {NoOne}, NEW w \in Waits \cup {NoOne}, NEW key \in Nat,
           decision \in {"grant", "decline"} \/ (decision = "withdraw" /\ key # 0)
    PROVE  Fact(h, decision, v, w, key) \in FactRows
BY DEF Fact, FactRows, Public

LEMMA RowFields ==
    ASSUME RowTypes
    PROVE  /\ \A v \in Visits : visits[v].contact \in Forms /\ visits[v].state \in {"none", "open", "closed", "deleted"}
           /\ \A v \in Visits : visits[v].unseen \in SUBSET Ids /\ (visits[v].state = "none" => visits[v].unseen = {})
           /\ \A w \in Waits : waits[w].contact \in Forms /\ waits[w].state \in {"none", "open", "closed", "deleted"}
BY DEF RowTypes, GuestRows

LEMMA FormsOfWorld ==
    ASSUME RowTypes, NEW c \in world.contacts
    PROVE  c \in Forms
BY Assumed DEF RowTypes, Forms

LEMMA BookInv ==
    ASSUME Core, Book
    PROVE  Core'
<1>. DEFINE Booked(v, c, decision) ==
              /\ visits[v].state = "none"
              /\ visits' = [visits EXCEPT ![v] = Row(c, "open")]
              /\ facts' = Append(facts, Fact(Identity("visit", v, c), decision, v, NoOne, 0))
              /\ UNCHANGED <<world, waits, profiles, merges, keys, open>>
<1>1. PICK v \in Visits, c \in world.contacts, decision \in {"grant", "decline"} : Booked(v, c, decision)
  BY DEF Book
<1>2. RowTypes /\ TxsOK(open, visits) /\ MergesOK(merges, visits, waits)
  BY DEF Core
<1>3. c \in Forms
  BY <1>2, FormsOfWorld
<1>4. /\ Row(c, "open") \in GuestRows
      /\ Row(c, "open").contact = c /\ Row(c, "open").state = "open"
  BY <1>3, RowType
<1>5. /\ visits' \in [Visits -> GuestRows] /\ visits[v].state = "none"
      /\ \A u \in Visits \ {v} : visits'[u] = visits[u]
  BY <1>1, <1>2, <1>4 DEF RowTypes
<1>6. RowTypes'
  <2>1. Fact(Identity("visit", v, c), decision, v, NoOne, 0) \in FactRows
    BY <1>3, IdentityType, FactType
  <2>2. facts' \in Seq(FactRows)
    BY <1>1, <1>2, <2>1 DEF RowTypes
  <2>. QED
    BY <1>1, <1>2, <1>5, <2>2 DEF RowTypes
<1>7. TxsOK(open, visits')
  <2>1. ASSUME NEW s \in Slots, Holding(open[s])
        PROVE  visits'[open[s].visit] = visits[open[s].visit]
    <3>1. open[s].visit \in Visits /\ visits[open[s].visit].state \in Present
      BY <1>2, <2>1 DEF TxsOK, TxOK, Holding
    <3>. QED
      BY <1>5, <3>1 DEF Present
  <2>. QED
    BY <1>2, <2>1, OtherVisitsChange
<1>8. MergesOK(merges, visits', waits)
  <2>1. \A u \in Visits : /\ visits[u].state # "none" => visits'[u] = visits[u]
                          /\ visits[u].unseen \subseteq visits'[u].unseen
    BY <1>2, <1>5, RowFields
  <2>. QED
    BY <1>2, <2>1, SameMerges
<1>. QED
  BY <1>1, <1>6, <1>7, <1>8 DEF Core

LEMMA WaitInv ==
    ASSUME Core, Wait
    PROVE  Core'
<1>. DEFINE Waited(w, c) ==
              /\ waits[w].state = "none"
              /\ waits' = [waits EXCEPT ![w] = Row(c, "open")]
              /\ facts' = Append(facts, Fact(Identity("wait", w, c), "grant", NoOne, w, 0))
              /\ UNCHANGED <<world, visits, profiles, merges, keys, open>>
<1>1. PICK w \in Waits, c \in world.contacts : Waited(w, c)
  BY DEF Wait
<1>2. RowTypes /\ TxsOK(open, visits) /\ MergesOK(merges, visits, waits)
  BY DEF Core
<1>3. c \in Forms
  BY <1>2, FormsOfWorld
<1>4. Row(c, "open") \in GuestRows
  BY <1>3, RowType
<1>5. /\ waits' \in [Waits -> GuestRows] /\ waits[w].state = "none"
      /\ \A u \in Waits \ {w} : waits'[u] = waits[u]
  BY <1>1, <1>2, <1>4 DEF RowTypes
<1>6. RowTypes'
  <2>1. Fact(Identity("wait", w, c), "grant", NoOne, w, 0) \in FactRows
    BY <1>3, IdentityType, FactType
  <2>2. facts' \in Seq(FactRows)
    BY <1>1, <1>2, <2>1 DEF RowTypes
  <2>. QED
    BY <1>1, <1>2, <1>5, <2>2 DEF RowTypes
<1>7. MergesOK(merges, visits, waits')
  <2>1. \A u \in Waits : waits[u].state \in Present => waits'[u].state \in Present /\ waits'[u].contact = waits[u].contact
    BY <1>5 DEF Present
  <2>. QED
    BY <1>2, <2>1, SameMerges
<1>. QED
  BY <1>1, <1>2, <1>6, <1>7 DEF Core

\* The state of a visit moves on and its contact stays.
Moved(v, state) == [visits EXCEPT ![v].state = state]
LEMMA StateMoves ==
    ASSUME RowTypes, TxsOK(open, visits), MergesOK(merges, visits, waits),
           NEW v \in Visits, NEW state \in {"closed", "deleted"}, visits[v].state # "none", Untouched({v}),
           visits' = Moved(v, state)
    PROVE  /\ visits' \in [Visits -> GuestRows]
           /\ TxsOK(open, visits') /\ MergesOK(merges, visits', waits)
<1>1. visits \in [Visits -> GuestRows] /\ visits[v] \in GuestRows
  BY DEF RowTypes
<1>2. /\ DOMAIN visits' = Visits /\ visits'[v] = [visits[v] EXCEPT !.state = state]
      /\ \A u \in Visits \ {v} : visits'[u] = visits[u]
  BY <1>1 DEF Moved
<1>3. /\ [visits[v] EXCEPT !.state = state] \in GuestRows
      /\ [visits[v] EXCEPT !.state = state].contact = visits[v].contact
      /\ [visits[v] EXCEPT !.state = state].state = state
      /\ [visits[v] EXCEPT !.state = state].unseen = visits[v].unseen
  BY <1>1 DEF GuestRows
<1>4. /\ visits'[v] \in GuestRows /\ visits'[v].contact = visits[v].contact /\ visits'[v].state = state
      /\ visits'[v].unseen = visits[v].unseen
  BY <1>2, <1>3
<1>5. visits' \in [Visits -> GuestRows]
  <2>1. \A u \in Visits : visits'[u] \in GuestRows
    BY <1>1, <1>2, <1>4
  <2>2. visits' = [u \in Visits |-> visits'[u]]
    BY <1>1 DEF Moved
  <2>. QED
    BY <2>1, <2>2
<1>6. TxsOK(open, visits')
  <2>1. ASSUME NEW s \in Slots, Holding(open[s])
        PROVE  visits'[open[s].visit] = visits[open[s].visit]
    <3>1. open[s].visit \in Visits /\ open[s].visit # v
      BY <2>1 DEF TxsOK, TxOK, Untouched, Running, Holding
    <3>. QED
      BY <1>2, <3>1
  <2>2. \A s \in Slots : Holding(open[s]) =>
          /\ visits'[open[s].visit].contact = visits[open[s].visit].contact
          /\ visits'[open[s].visit].state = visits[open[s].visit].state
    BY <2>1
  <2>. QED
    BY <2>2, OtherVisitsChange
<1>7. MergesOK(merges, visits', waits)
  <2>1. \A u \in Visits : /\ visits[u].state # "none" => visits'[u].state # "none" /\ visits'[u].contact = visits[u].contact
                          /\ visits[u].unseen \subseteq visits'[u].unseen
    BY <1>2, <1>4
  <2>. QED
    BY <2>1, SameMerges
<1>. QED
  BY <1>5, <1>6, <1>7

LEMMA CloseVisitInv ==
    ASSUME Core, CloseVisit
    PROVE  Core'
<1>1. PICK v \in Visits :
          /\ visits[v].state = "open" /\ Untouched({v})
          /\ visits' = [visits EXCEPT ![v].state = "closed"]
          /\ UNCHANGED <<world, waits, profiles, merges, facts, keys, open>>
  BY DEF CloseVisit
<1>2. RowTypes /\ TxsOK(open, visits) /\ MergesOK(merges, visits, waits)
  BY DEF Core
<1>3. /\ visits' \in [Visits -> GuestRows]
      /\ TxsOK(open, visits') /\ MergesOK(merges, visits', waits)
  BY <1>1, <1>2, StateMoves DEF Moved
<1>4. RowTypes'
  BY <1>1, <1>2, <1>3 DEF RowTypes
<1>. QED
  BY <1>1, <1>3, <1>4 DEF Core

LEMMA DeleteInv ==
    ASSUME Core, Delete
    PROVE  Core'
<1>. DEFINE Stay(v) == {i \in DOMAIN facts : ~(Public(facts[i]) /\ facts[i].visit = v)}
<1>1. PICK v \in Rows :
          /\ Untouched({v})
          /\ visits' = [visits EXCEPT ![v].state = "deleted"]
          /\ facts' = Kept(facts, Stay(v))
          /\ UNCHANGED <<world, waits, merges, keys, open>>
  BY DEF Delete
<1>2. RowTypes /\ TxsOK(open, visits) /\ MergesOK(merges, visits, waits)
  BY DEF Core
<1>3. v \in Visits /\ visits[v].state # "none"
  BY DEF Rows, Present
<1>4. /\ visits' \in [Visits -> GuestRows]
      /\ TxsOK(open, visits') /\ MergesOK(merges, visits', waits)
  BY <1>1, <1>2, <1>3, StateMoves DEF Moved
<1>5. facts' \in Seq(FactRows)
  <2>1. facts \in Seq(FactRows) /\ Stay(v) \in SUBSET DOMAIN facts
    BY <1>2 DEF RowTypes
  <2>. HIDE DEF Stay
  <2>. QED
    BY <1>1, <2>1, KeptRows
<1>6. RowTypes'
  BY <1>1, <1>2, <1>4, <1>5 DEF RowTypes
<1>. QED
  BY <1>1, <1>4, <1>6 DEF Core

-----------------------------------------------------------------------------
(* Edits of contacts.                                                       *)

LEMMA EditContactInv ==
    ASSUME Core, Aside(visits, open, world.halls), NEW s \in Slots, EditContact(s)
    PROVE  Core'
<1>. DEFINE Tx(v, c) ==
              [op |-> "edit", visit |-> v, contact |-> c, was |-> VisitId(v), is |-> Identity("visit", v, c),
               held |-> v \notin world.halls, locked |-> FALSE,
               alone |-> Carriers(VisitId(v)) \subseteq {v}, moves |-> Moves(v, VisitId(v), Identity("visit", v, c))]
<1>1. PICK v \in Rows, c \in world.contacts \cup {Nobody} :
          /\ Untouched({v}) /\ open' = [open EXCEPT ![s] = Tx(v, c)]
          /\ UNCHANGED <<world, db, keys>>
  BY DEF EditContact, Begin, Corrections
<1>2. RowTypes /\ TxsOK(open, visits) /\ MergesOK(merges, visits, waits)
  BY DEF Core
<1>3. c \in Forms
  BY <1>2, FormsOfWorld DEF Forms
<1>4. v \in Visits /\ visits[v].state \in Present
  BY DEF Rows
<1>5. Tx(v, c).op = "edit" /\ Tx(v, c).visit = v
  OBVIOUS
<1>6. TxOK(Tx(v, c), visits)
  <2>1. /\ DOMAIN Tx(v, c) = EditFields
        /\ Tx(v, c).contact = c
        /\ Tx(v, c).was = VisitId(v)
        /\ Tx(v, c).is = Identity("visit", v, c) /\ Tx(v, c).held \in BOOLEAN
    BY DEF EditFields
  <2>. HIDE DEF Tx
  <2>. QED
    BY <1>3, <1>4, <1>5, <2>1 DEF TxOK, VisitId
<1>7. \A t \in Slots \ {s} : open[t].op = "edit" /\ open[t].visit = v => ~Tx(v, c).held /\ ~open[t].held
  BY <1>1, <1>2 DEF Untouched, Running, Aside, TxsOK, TxOK
<1>. HIDE DEF Tx
<1>8. TxsOK(open', visits)
  BY <1>1, <1>2, <1>5, <1>6, <1>7, OneTxChanges
<1>. QED
  BY <1>1, <1>2, <1>8 DEF Core, RowTypes, db

LEMMA LockGraphInv ==
    ASSUME Core, NEW s \in Slots, LockGraph(s)
    PROVE  Core'
<1>. DEFINE tx == open[s]
            held == [open[s] EXCEPT !.locked = TRUE]
<1>1. /\ open[s].op = "edit" /\ open' = [open EXCEPT ![s].locked = TRUE]
      /\ UNCHANGED <<world, db, keys>>
  BY DEF LockGraph, Running
<1>2. RowTypes /\ TxsOK(open, visits) /\ MergesOK(merges, visits, waits)
  BY DEF Core
<1>3. tx.op = "edit" /\ TxOK(tx, visits) /\ DOMAIN tx = EditFields
  BY <1>1, <1>2 DEF TxsOK, TxOK
<1>4. /\ DOMAIN held = EditFields /\ held.op = tx.op /\ held.visit = tx.visit /\ held.contact = tx.contact
      /\ held.was = tx.was /\ held.is = tx.is /\ held.held = tx.held
  BY <1>3 DEF EditFields
<1>5. open' = [open EXCEPT ![s] = held]
  BY <1>1
<1>6. \A t \in Slots \ {s} : open[t].op = "edit" /\ open[t].visit = tx.visit => ~tx.held /\ ~open[t].held
  BY <1>1, <1>2 DEF TxsOK, Holding
<1>. HIDE DEF tx, held
<1>7. TxOK(held, visits)
  BY <1>3, <1>4 DEF TxOK
<1>8. TxsOK(open', visits)
  BY <1>2, <1>4, <1>5, <1>6, <1>7, OneTxChanges
<1>. QED
  BY <1>1, <1>2, <1>8 DEF Core, RowTypes, db

LEMMA RevertedRows ==
    ASSUME NEW rows \in Seq(MergeRows), NEW named
    PROVE  /\ Reverted(rows, named) \in Seq(MergeRows) /\ Len(Reverted(rows, named)) = Len(rows)
           /\ \A k \in Active(Reverted(rows, named)) :
                 /\ k \in Active(rows) /\ Reverted(rows, named)[k] = rows[k]
                 /\ rows[k].source \notin named /\ rows[k].target \notin named
<1>. DEFINE Undone(row) == [row EXCEPT !.status = "reverted", !.version = @ + 1]
            Hit(k) == rows[k].status = "active" /\ named \cap {rows[k].source, rows[k].target} # {}
            new == Reverted(rows, named)
<1>1. \A row \in MergeRows : Undone(row) \in MergeRows /\ Undone(row).status = "reverted"
  <2>. TAKE row \in MergeRows
  <2>. DEFINE u == Undone(row)
  <2>1. row.version + 1 \in Nat
    BY DEF MergeRows
  <2>2. /\ u = [x \in DOMAIN row |-> u[x]]
        /\ DOMAIN row = {"source", "target", "refs", "status", "version", "key", "undo"} /\ DOMAIN u = DOMAIN row
        /\ u.status = "reverted" /\ u.version = row.version + 1
        /\ u.source = row.source /\ u.target = row.target /\ u.refs = row.refs /\ u.key = row.key /\ u.undo = row.undo
    BY DEF MergeRows
  <2>3. row.source \in Ids /\ row.target \in Ids /\ row.refs \in Visits \X Visits /\ row.key \in Nat /\ row.undo \in Nat
    BY DEF MergeRows
  <2>. HIDE DEF Undone, u
  <2>. QED
    BY <2>1, <2>2, <2>3 DEF MergeRows, u
<1>2. new = [k \in DOMAIN rows |-> IF Hit(k) THEN Undone(rows[k]) ELSE rows[k]]
  BY DEF Reverted
<1>. HIDE DEF Undone, Hit
<1>3. \A k \in DOMAIN rows : new[k] \in MergeRows /\ (Hit(k) => new[k].status = "reverted") /\ (~Hit(k) => new[k] = rows[k])
  <2>1. \A k \in DOMAIN rows : rows[k] \in MergeRows
    OBVIOUS
  <2>. QED
    BY <1>1, <1>2, <2>1
<1>4. new \in Seq(MergeRows) /\ Len(new) = Len(rows)
  <2>1. DOMAIN rows = 1..Len(rows) /\ Len(rows) \in Nat
    OBVIOUS
  <2>. QED
    BY <1>2, <1>3, <2>1
<1>5. DOMAIN new = DOMAIN rows
  BY <1>2
<1>. HIDE DEF new
<1>6. ASSUME NEW k \in Active(new)
      PROVE  k \in Active(rows) /\ new[k] = rows[k] /\ rows[k].source \notin named /\ rows[k].target \notin named
  <2>1. k \in DOMAIN rows /\ new[k].status = "active"
    BY <1>5 DEF Active
  <2>2. ~Hit(k) /\ new[k] = rows[k]
    BY <1>3, <2>1
  <2>. QED
    BY <2>1, <2>2 DEF Active, Hit
<1>. QED
  BY <1>4, <1>6 DEF new

\* The edit looks, under the graph's lock, for another visit with the identity it takes away; one
\* that it did not read is remembered.
Rewritten(tx) ==
    [visits EXCEPT ![tx.visit].contact = tx.contact,
                   ![tx.visit].unseen = @ \cup ({VisitId(tx.visit)} \ {tx.was})]

LEMMA RewrittenRow ==
    ASSUME RowTypes, NEW tx, TxOK(tx, visits), tx.op = "edit", visits[tx.visit].state \in Present
    PROVE  /\ Rewritten(tx) \in [Visits -> GuestRows]
           /\ \A u \in Visits \ {tx.visit} : Rewritten(tx)[u] = visits[u]
           /\ Rewritten(tx)[tx.visit].contact = tx.contact
           /\ Rewritten(tx)[tx.visit].state = visits[tx.visit].state
           /\ Rewritten(tx)[tx.visit].unseen = visits[tx.visit].unseen \cup ({VisitId(tx.visit)} \ {tx.was})
<1>. DEFINE row == visits[tx.visit]
            more == row.unseen \cup ({VisitId(tx.visit)} \ {tx.was})
            new == [contact |-> tx.contact, state |-> row.state, unseen |-> more]
<1>1. tx.visit \in Visits /\ tx.contact \in Forms
  BY DEF TxOK
<1>2. visits \in [Visits -> GuestRows] /\ row \in GuestRows
  BY <1>1 DEF RowTypes
<1>3. more \in SUBSET Ids
  <2>1. VisitId(tx.visit) \in Ids /\ row.unseen \in SUBSET Ids
    BY <1>1, RowFields, IdentityType DEF VisitId
  <2>. QED
    BY <2>1
<1>4. \A c, u : [[row EXCEPT !.contact = c] EXCEPT !.unseen = u] = [contact |-> c, state |-> row.state, unseen |-> u]
  <2>. TAKE c, u
  <2>. DEFINE moved == [row EXCEPT !.contact = c]
  <2>1. moved = [contact |-> c, state |-> row.state, unseen |-> row.unseen]
    BY <1>2 DEF GuestRows
  <2>. HIDE DEF moved
  <2>2. [moved EXCEPT !.unseen = u] = [contact |-> c, state |-> row.state, unseen |-> u]
    BY <2>1
  <2>. QED
    BY <2>2 DEF moved
<1>. HIDE DEF more
<1>5. Rewritten(tx) = [visits EXCEPT ![tx.visit] = new]
  <2>1. Rewritten(tx) = [visits EXCEPT ![tx.visit] = [[@ EXCEPT !.contact = tx.contact] EXCEPT !.unseen = more]]
    BY <1>1, <1>2 DEF Rewritten, more
  <2>2. [[row EXCEPT !.contact = tx.contact] EXCEPT !.unseen = more] = new
    BY <1>4
  <2>. QED
    BY <1>1, <1>2, <2>1, <2>2
<1>6. new \in GuestRows
  BY <1>1, <1>2, <1>3 DEF GuestRows, Present
<1>. QED
  BY <1>1, <1>2, <1>5, <1>6 DEF more

LEMMA EditedLiving ==
    ASSUME RowTypes, NEW s \in Slots, TxOK(open[s], visits), open[s].op = "edit", open[s].visit \in Rows,
           visits' = Rewritten(open[s]),
           NEW h, h \notin Emptied(s), Living(visits, waits, h)
    PROVE  Living(visits', waits, h)
<1>. DEFINE tx == open[s]
            here == Identity("visit", tx.visit, visits[tx.visit].contact)
<1>1. /\ tx.visit \in Visits /\ visits[tx.visit].state \in Present /\ tx.contact \in Forms
      /\ tx.is = Identity("visit", tx.visit, tx.contact)
  BY DEF TxOK, Rows
<1>2. /\ visits'[tx.visit].contact = tx.contact /\ visits'[tx.visit].state = visits[tx.visit].state
      /\ visits'[tx.visit].unseen = visits[tx.visit].unseen \cup ({here} \ {tx.was})
      /\ \A u \in Visits \ {tx.visit} : visits'[u] = visits[u]
  BY <1>1, RewrittenRow DEF VisitId
<1>. HIDE DEF here
<1>3. CASE \E w \in Waits : waits[w].state \in Present /\ Identity("wait", w, waits[w].contact) = h
  BY <1>3 DEF Living
<1>4. CASE \E v \in Visits \ {tx.visit} : visits[v].state # "none" /\ Identity("visit", v, visits[v].contact) = h
  BY <1>2, <1>4 DEF Living
<1>5. CASE h = here /\ here = tx.was /\ tx.was = tx.is
  <2>1. visits'[tx.visit].state # "none" /\ Identity("visit", tx.visit, visits'[tx.visit].contact) = h
    BY <1>1, <1>2, <1>5 DEF Present
  <2>. QED
    BY <1>1, <2>1 DEF Living
<1>6. CASE h = here /\ here = tx.was /\ tx.was # tx.is
  <2>1. ~(Carriers(h) \subseteq {tx.visit})
    BY <1>6 DEF Emptied
  <2>2. PICK u \in Visits : u # tx.visit /\ visits[u].state \in Present /\ Identity("visit", u, visits[u].contact) = h
    BY <2>1 DEF Carriers, Rows, VisitId
  <2>. QED
    BY <1>4, <2>2 DEF Present
<1>7. CASE h = here /\ here # tx.was
  BY <1>1, <1>2, <1>7 DEF Living
<1>8. CASE \E v \in Visits : h \in visits[v].unseen
  <2>1. \A v \in Visits : visits[v].unseen \subseteq visits'[v].unseen
    BY <1>1, <1>2
  <2>. QED
    BY <1>8, <2>1 DEF Living
<1>9. \/ h = here \/ \E v \in Visits \ {tx.visit} : visits[v].state # "none" /\ Identity("visit", v, visits[v].contact) = h
      \/ \E w \in Waits : waits[w].state \in Present /\ Identity("wait", w, waits[w].contact) = h
      \/ \E v \in Visits : h \in visits[v].unseen
  BY DEF Living, here
<1>. QED
  BY <1>3, <1>4, <1>5, <1>6, <1>7, <1>8, <1>9

LEMMA CommitEditInv ==
    ASSUME Core, NEW s \in Slots, CommitEdit(s)
    PROVE  Core'
<1>. DEFINE tx == open[s]
<1>1. RowTypes /\ TxsOK(open, visits) /\ MergesOK(merges, visits, waits)
  BY DEF Core
<1>2. /\ tx.op = "edit" /\ open' = [open EXCEPT ![s] = Free] /\ UNCHANGED <<world, keys>>
      /\ \/ UNCHANGED db
         \/ /\ tx.visit \in Rows /\ visits' = Rewritten(tx)
            /\ merges' = Reverted(merges, Emptied(s))
            /\ UNCHANGED <<waits, facts>>
  BY DEF CommitEdit, Close, Running, Rewritten
<1>3. TxsOK(open', visits)
  BY <1>1, <1>2, EndedTx
<1>4. CASE UNCHANGED db
  BY <1>1, <1>2, <1>3, <1>4 DEF Core, RowTypes, db
<1>5. CASE /\ tx.visit \in Rows /\ visits' = Rewritten(tx)
           /\ merges' = Reverted(merges, Emptied(s))
           /\ UNCHANGED <<waits, facts>>
  <2>1. /\ TxOK(tx, visits) /\ visits[tx.visit].state \in Present
        /\ \A t \in Slots \ {s} : Holding(open[t]) => open[t].visit \in Visits /\ open[t].visit # tx.visit
    BY <1>1, <1>2, <1>5 DEF TxsOK, TxOK, Rows, Holding
  <2>2. /\ visits' \in [Visits -> GuestRows]
        /\ \A u \in Visits \ {tx.visit} : visits'[u] = visits[u]
    BY <1>1, <1>2, <1>5, <2>1, RewrittenRow
  <2>3. merges \in Seq(MergeRows) /\ Len(merges) <= MaxMerges
    BY <1>1 DEF RowTypes
  <2>4. /\ merges' \in Seq(MergeRows) /\ Len(merges') <= MaxMerges
        /\ \A k \in Active(merges') :
              /\ k \in Active(merges) /\ merges'[k] = merges[k]
              /\ merges[k].source \notin Emptied(s) /\ merges[k].target \notin Emptied(s)
    BY <1>5, <2>3, RevertedRows
  <2>5. RowTypes'
    BY <1>1, <1>2, <1>5, <2>2, <2>4 DEF RowTypes
  <2>6. TxsOK(open', visits')
    <3>1. ASSUME NEW t \in Slots, Holding(open'[t])
          PROVE  visits'[open'[t].visit] = visits[open'[t].visit]
      <4>1. t # s
        <5>1. open'[s] = Free /\ Free.op = "none"
          BY <1>1, <1>2 DEF TxsOK, Free
        <5>. QED
          BY <3>1, <5>1 DEF Holding
      <4>2. open'[t] = open[t]
        BY <1>1, <1>2, <4>1 DEF TxsOK
      <4>. QED
        BY <2>1, <2>2, <3>1, <4>1, <4>2
    <3>. QED
      BY <1>3, <3>1, OtherVisitsChange
  <2>7. MergesOK(merges', visits', waits)
    <3>1. ASSUME NEW h, h \notin Emptied(s), Living(visits, waits, h)
          PROVE  Living(visits', waits, h)
      BY <1>1, <1>2, <1>5, <2>1, <3>1, EditedLiving
    <3>2. \A k \in Active(merges') :
              /\ k \in Active(merges)
              /\ merges'[k].source = merges[k].source /\ merges'[k].target = merges[k].target
              /\ Living(visits, waits, merges[k].source) => Living(visits', waits, merges[k].source)
              /\ Living(visits, waits, merges[k].target) => Living(visits', waits, merges[k].target)
      BY <2>4, <3>1
    <3>. QED
      BY <1>1, <3>2, FewerMerges
  <2>. QED
    BY <1>5, <2>5, <2>6, <2>7 DEF Core
<1>. QED
  BY <1>2, <1>4, <1>5

-----------------------------------------------------------------------------
(* Requests that change no row, and those about merges.                     *)

\* A request begins, changes its stage or ends.
LEMMA OnlyRequests ==
    ASSUME Core, TxsOK(open', visits), UNCHANGED <<world, visits, waits, merges, facts>>, keys' \in Nat
    PROVE  Core'
BY DEF Core, RowTypes

LEMMA OtherTx ==
    ASSUME TxsOK(open, visits), NEW s \in Slots, NEW tx, tx.op # "edit",
           tx.op \in {"consent", "record"} =>
               /\ DOMAIN tx = {"op", "visit", "decision", "key", "subject"}
               /\ tx.key \in Nat \ {0} /\ tx.decision \in {"grant", "withdraw"},
           tx.op = "record" => tx.subject \in Ids,
           tx.op \in {"merge", "undo"} => tx.key \in Nat,
           open' = [open EXCEPT ![s] = tx]
    PROVE  TxsOK(open', visits)
<1>1. TxOK(tx, visits)
  BY DEF TxOK
<1>. QED
  BY <1>1, OneTxChanges

LEMMA AnswerTx ==
    ASSUME TxsOK(open, visits), NEW s \in Slots, Answer(s)
    PROVE  TxsOK(open', visits)
<1>1. CASE Close(s)
  BY <1>1, EndedTx DEF Close
<1>2. CASE UNCHANGED open
  BY <1>2
<1>. QED
  BY <1>1, <1>2 DEF Answer

LEMMA OpeningInv ==
    ASSUME Core, NEW s \in Slots, OpenQuality(s) \/ OpenMerges(s) \/ OpenConsents(s) \/ OpenProfile(s)
    PROVE  Core'
<1>1. TxsOK(open, visits) /\ keys \in Nat /\ keys + 1 \in Nat \ {0}
  BY DEF Core, RowTypes
<1>2. CASE OpenQuality(s)
  <2>1. PICK pair \in Candidates :
          open' = [open EXCEPT ![s] =
                     [op |-> "merge", source |-> Latest(pair[1]), target |-> Latest(pair[2]), key |-> keys + 1]]
    BY <1>2 DEF OpenQuality, Begin
  <2>2. TxsOK(open', visits)
    BY <1>1, <2>1, OtherTx
  <2>. QED
    BY <1>1, <1>2, <2>2, OnlyRequests DEF OpenQuality, NewKey, db
<1>3. CASE OpenMerges(s)
  <2>1. PICK k \in Active(merges) :
          open' = [open EXCEPT ![s] = [op |-> "undo", row |-> k, version |-> merges[k].version, key |-> keys + 1]]
    BY <1>3 DEF OpenMerges, Begin
  <2>2. TxsOK(open', visits)
    BY <1>1, <2>1, OtherTx
  <2>. QED
    BY <1>1, <1>3, <2>2, OnlyRequests DEF OpenMerges, NewKey, db
<1>4. CASE OpenConsents(s)
  <2>1. PICK v \in Rows, decision \in {"grant", "withdraw"} :
          open' = [open EXCEPT ![s] = Consent(v, decision, keys + 1)]
    BY <1>4 DEF OpenConsents, Begin
  <2>2. TxsOK(open', visits)
    BY <1>1, <2>1, OtherTx DEF Consent
  <2>. QED
    BY <1>1, <1>4, <2>2, OnlyRequests DEF OpenConsents, NewKey, db
<1>5. CASE OpenProfile(s)
  <2>1. PICK v \in Rows :
          open' = [open EXCEPT ![s] = [op |-> "form", visit |-> v, text |-> Composite(GroupOf(v)) \cup {VisitId(v)}]]
    BY <1>5 DEF OpenProfile, Begin
  <2>2. TxsOK(open', visits)
    BY <1>1, <2>1, OtherTx
  <2>. QED
    BY <1>1, <1>5, <2>2, OnlyRequests DEF OpenProfile, db
<1>. QED
  BY <1>2, <1>3, <1>4, <1>5

LEMMA ProfileInv ==
    ASSUME Core, NEW s \in Slots, SaveProfile(s) \/ CommitProfile(s)
    PROVE  Core'
<1>1. TxsOK(open, visits) /\ keys \in Nat
  BY DEF Core, RowTypes
<1>2. CASE SaveProfile(s) /\ open[s].visit \notin Rows
  <2>1. TxsOK(open', visits)
    BY <1>1, <1>2, EndedTx DEF SaveProfile
  <2>. QED
    BY <1>1, <1>2, <2>1, OnlyRequests DEF SaveProfile, db
<1>3. CASE SaveProfile(s) /\ open[s].visit \in Rows
  <2>1. open' = [open EXCEPT ![s] = [op |-> "upsert", text |-> open[s].text,
                                     to |-> Canonical(merges, VisitId(open[s].visit))]]
    BY <1>3 DEF SaveProfile
  <2>2. TxsOK(open', visits)
    BY <1>1, <2>1, OtherTx
  <2>. QED
    BY <1>1, <1>3, <2>2, OnlyRequests DEF SaveProfile, db
<1>4. CASE CommitProfile(s)
  <2>1. TxsOK(open', visits)
    BY <1>1, <1>4, EndedTx DEF CommitProfile, Close
  <2>. QED
    BY <1>1, <1>4, <2>1, OnlyRequests DEF CommitProfile
<1>. QED
  BY <1>2, <1>3, <1>4

LEMMA CanonicalLives ==
    ASSUME MergesOK(merges, visits, waits), RowTypes, NEW v \in Rows
    PROVE  /\ Canonical(merges, VisitId(v)) \in Ids
           /\ Living(visits, waits, Canonical(merges, VisitId(v)))
<1>. DEFINE h == VisitId(v)
            end == Canonical(merges, h)
<1>1. OneDeep(merges)
  BY MergesAreOneDeep
<1>2. end = h \/ \E k \in Active(merges) : end = merges[k].target
  BY <1>1, CanonicalIsNear
<1>3. h \in Ids /\ Living(visits, waits, h)
  <2>1. v \in Visits /\ visits[v].state \in Present /\ visits[v].contact \in Forms
    BY RowFields DEF Rows
  <2>. QED
    BY <2>1, IdentityType DEF Living, VisitId, Present
<1>4. \A k \in Active(merges) : merges[k].target \in Ids /\ Living(visits, waits, merges[k].target)
  <2>. TAKE k \in Active(merges)
  <2>1. k \in DOMAIN merges /\ merges \in Seq(MergeRows)
    BY DEF Active, RowTypes
  <2>2. merges[k] \in MergeRows
    BY <2>1
  <2>3. merges[k].target \in Ids
    BY <2>2 DEF MergeRows
  <2>. QED
    BY <2>3 DEF MergesOK
<1>. HIDE DEF end, h
<1>. QED
  BY <1>2, <1>3, <1>4 DEF end, h

LEMMA JoinedMerges ==
    ASSUME NEW rows \in Seq(MergeRows), NEW vs, NEW ws, MergesOK(rows, vs, ws), NEW row,
           row.source # row.target, Living(vs, ws, row.source), Living(vs, ws, row.target),
           \A k \in Active(rows) : row.source \notin {rows[k].source, rows[k].target} /\ rows[k].source # row.target
    PROVE  MergesOK(Append(rows, row), vs, ws)
<1>. DEFINE new == Append(rows, row)
            n == Len(rows) + 1
<1>1. /\ DOMAIN new = DOMAIN rows \cup {n} /\ n \notin DOMAIN rows
      /\ new[n] = row /\ \A k \in DOMAIN rows : new[k] = rows[k]
  <2>1. Len(rows) \in Nat /\ DOMAIN rows = 1..Len(rows) /\ DOMAIN new = 1..(Len(rows) + 1)
    OBVIOUS
  <2>. QED
    BY <2>1
<1>. HIDE DEF new, n
<1>2. \A k \in Active(new) : k = n \/ (k \in Active(rows) /\ new[k] = rows[k])
  BY <1>1 DEF Active
<1>3. \A j, k \in Active(new) : j # k => new[j].source \notin {new[k].source, new[k].target}
  <2>. TAKE j, k \in Active(new)
  <2>. HAVE j # k
  <2>1. CASE j = n
    BY <1>1, <1>2, <2>1
  <2>2. CASE j # n /\ k = n
    BY <1>1, <1>2, <2>2
  <2>3. CASE j # n /\ k # n
    BY <1>2, <2>3 DEF MergesOK
  <2>. QED
    BY <2>1, <2>2, <2>3
<1>4. \A k \in Active(new) : /\ new[k].source # new[k].target
                             /\ Living(vs, ws, new[k].source) /\ Living(vs, ws, new[k].target)
  BY <1>1, <1>2 DEF MergesOK
<1>5. MergesOK(new, vs, ws)
  BY <1>3, <1>4 DEF MergesOK
<1>. QED
  BY <1>5 DEF new

\* create_merge refuses chains, and two visits of one guest are not joined.
LEMMA CreateMergeInv ==
    ASSUME Core, NEW s \in Slots, CreateMerge(s)
    PROVE  Core'
<1>. DEFINE tx == open[s]
            source == Canonical(merges, VisitId(tx.source))
            target == Canonical(merges, VisitId(tx.target))
            row == MergeRow(source, target, tx)
            allowed == Mergeable(tx) /\ NotChained(source, target)
<1>1. RowTypes /\ TxsOK(open, visits) /\ MergesOK(merges, visits, waits)
  BY DEF Core
<1>2. /\ tx.op = "merge" /\ Answer(s) /\ UNCHANGED <<world, visits, waits, profiles, facts, keys>>
      /\ \/ merges' = merges
         \/ allowed /\ Len(merges) < MaxMerges /\ merges' = Append(merges, row)
  <2>1. /\ tx.op = "merge" /\ Answer(s) /\ UNCHANGED <<world, visits, waits, profiles, facts, keys>>
        /\ allowed => Len(merges) < MaxMerges
        /\ merges' = IF ~Repeats(merges, tx.key) /\ allowed THEN Append(merges, row) ELSE merges
    BY DEF CreateMerge, Running
  <2>. HIDE DEF allowed, row, tx
  <2>. QED
    BY <2>1
<1>3. TxsOK(open', visits)
  BY <1>1, <1>2, AnswerTx
<1>4. CASE merges' = merges
  BY <1>1, <1>2, <1>3, <1>4 DEF Core, RowTypes
<1>5. CASE allowed /\ Len(merges) < MaxMerges /\ merges' = Append(merges, row)
  <2>1. tx.source \in Rows /\ tx.target \in Rows /\ tx.key \in Nat
    BY <1>1, <1>2, <1>5 DEF Mergeable, TxsOK, TxOK
  <2>2. source # target
    BY <1>5 DEF Mergeable, GroupOf
  <2>3. /\ source \in Ids /\ Living(visits, waits, source)
        /\ target \in Ids /\ Living(visits, waits, target)
    BY <1>1, <2>1, CanonicalLives
  <2>4. \A k \in Active(merges) : source \notin {merges[k].source, merges[k].target} /\ merges[k].source # target
    BY <1>5 DEF NotChained
  <2>. HIDE DEF source, target, tx
  <2>5. row \in MergeRows /\ row.source = source /\ row.target = target
    BY <2>1, <2>3 DEF MergeRow, MergeRows, Rows
  <2>6. merges \in Seq(MergeRows)
    BY <1>1 DEF RowTypes
  <2>. HIDE DEF row
  <2>7. merges' \in Seq(MergeRows) /\ Len(merges') <= MaxMerges
    BY <1>5, <2>5, <2>6, Assumed
  <2>8. MergesOK(merges', visits, waits)
    BY <1>1, <1>5, <2>2, <2>3, <2>4, <2>5, <2>6, JoinedMerges
  <2>. QED
    BY <1>1, <1>2, <1>3, <2>7, <2>8 DEF Core, RowTypes
<1>. QED
  BY <1>2, <1>4, <1>5

LEMMA UndoMergeInv ==
    ASSUME Core, NEW s \in Slots, UndoMerge(s)
    PROVE  Core'
<1>. DEFINE tx == open[s]
            old == merges[tx.row]
            Undone(row) == [row EXCEPT !.status = "reverted", !.version = @ + 1, !.undo = tx.key]
            u == Undone(old)
<1>1. RowTypes /\ TxsOK(open, visits) /\ MergesOK(merges, visits, waits) /\ merges \in Seq(MergeRows)
  BY DEF Core, RowTypes
<1>2. /\ tx.op = "undo" /\ Answer(s) /\ UNCHANGED <<world, visits, waits, profiles, facts, keys>>
      /\ \/ merges' = merges
         \/ merges' = [merges EXCEPT ![tx.row] = u]
  BY DEF UndoMerge, Running
<1>3. TxsOK(open', visits)
  BY <1>1, <1>2, AnswerTx
<1>4. CASE merges' = merges
  BY <1>1, <1>2, <1>3, <1>4 DEF Core, RowTypes
<1>5. CASE tx.row \in DOMAIN merges /\ merges' = [merges EXCEPT ![tx.row] = u]
  <2>1. old \in MergeRows /\ tx.key \in Nat
    BY <1>1, <1>2, <1>5 DEF TxsOK, TxOK
  <2>2. u \in MergeRows /\ u.status = "reverted"
    <3>1. old.version + 1 \in Nat
      BY <2>1 DEF MergeRows
    <3>2. /\ u = [x \in DOMAIN old |-> u[x]]
          /\ DOMAIN old = {"source", "target", "refs", "status", "version", "key", "undo"} /\ DOMAIN u = DOMAIN old
          /\ u.status = "reverted" /\ u.version = old.version + 1 /\ u.undo = tx.key
          /\ u.source = old.source /\ u.target = old.target /\ u.refs = old.refs /\ u.key = old.key
      <4>. HIDE DEF old, tx
      <4>. QED
        BY <2>1 DEF MergeRows
    <3>3. old.source \in Ids /\ old.target \in Ids /\ old.refs \in Visits \X Visits /\ old.key \in Nat
      BY <2>1 DEF MergeRows
    <3>. HIDE DEF old, Undone, u, tx
    <3>. QED
      BY <2>1, <3>1, <3>2, <3>3 DEF MergeRows, u
  <2>. HIDE DEF u, old, Undone
  <2>3. merges' \in Seq(MergeRows) /\ Len(merges') = Len(merges)
    BY <1>1, <1>5, <2>2
  <2>4. /\ DOMAIN merges' = DOMAIN merges /\ merges'[tx.row] = u
        /\ \A k \in DOMAIN merges \ {tx.row} : merges'[k] = merges[k]
    BY <1>5
  <2>5. \A k \in Active(merges') : k \in Active(merges) /\ merges'[k] = merges[k]
    BY <2>2, <2>4 DEF Active
  <2>6. MergesOK(merges', visits, waits)
    BY <1>1, <2>5, FewerMerges
  <2>. QED
    BY <1>1, <1>2, <1>3, <2>3, <2>6 DEF Core, RowTypes
<1>6. CASE tx.row \notin DOMAIN merges /\ merges' = [merges EXCEPT ![tx.row] = u]
  <2>1. merges' = [k \in DOMAIN merges |-> merges[k]]
    BY <1>6
  <2>2. merges' = merges
    BY <1>1, <2>1
  <2>. QED
    BY <1>4, <2>2
<1>. QED
  BY <1>2, <1>4, <1>5, <1>6

-----------------------------------------------------------------------------
(* Consents, erasure and retention.                                         *)

LEMMA InsertedRow ==
    ASSUME NEW R, NEW rows \in Seq(R), NEW row \in R, NEW i \in 1..(Len(rows) + 1)
    PROVE  InsertAt(rows, i, row) \in Seq(R)
<1>1. SubSeq(rows, 1, i - 1) \in Seq(R)
  BY SubSeqProperties
<1>2. SubSeq(rows, i, Len(rows)) \in Seq(R)
  BY SubSeqProperties
<1>3. <<row>> \in Seq(R)
  OBVIOUS
<1>. QED
  BY <1>1, <1>2, <1>3, ConcatProperties DEF InsertAt

LEMMA ReadConsentInv ==
    ASSUME Core, NEW s \in Slots, ReadConsent(s)
    PROVE  Core'
<1>. DEFINE tx == open[s]
            read == [tx EXCEPT !.op = "record", !.subject = VisitId(tx.visit)]
<1>1. RowTypes /\ TxsOK(open, visits) /\ MergesOK(merges, visits, waits) /\ keys \in Nat
  BY DEF Core, RowTypes
<1>2. tx.op = "consent" /\ UNCHANGED <<world, db, keys>>
  BY DEF ReadConsent, Running
<1>3. CASE open' = [open EXCEPT ![s] = Free]
  <2>1. TxsOK(open', visits)
    BY <1>1, <1>3, EndedTx
  <2>. QED
    BY <1>1, <1>2, <2>1, OnlyRequests DEF db
<1>4. CASE /\ tx.visit \in Rows
           /\ open' = [open EXCEPT ![s].op = "record", ![s].subject = VisitId(tx.visit)]
  <2>1. VisitId(tx.visit) \in Ids
    BY <1>1, <1>4, RowFields, IdentityType DEF VisitId, Rows
  <2>2. TxOK(tx, visits) /\ DOMAIN open = Slots
    BY <1>1 DEF TxsOK
  <2>. HIDE DEF tx
  <2>3. /\ DOMAIN tx = {"op", "visit", "decision", "key", "subject"}
        /\ tx.key \in Nat \ {0} /\ tx.decision \in {"grant", "withdraw"}
    BY <1>2, <2>2 DEF TxOK
  <2>4. read.op = "record" /\ read.subject \in Ids /\ read.key = tx.key /\ read.decision = tx.decision
    BY <2>1, <2>3
  <2>7. DOMAIN read = DOMAIN tx
    OBVIOUS
  <2>5. open' = [open EXCEPT ![s] = read]
    BY <1>4, <2>2 DEF tx
  <2>. HIDE DEF read
  <2>6. TxsOK(open', visits)
    BY <1>1, <2>3, <2>4, <2>5, <2>7, OtherTx
  <2>. QED
    BY <1>1, <1>2, <2>6, OnlyRequests DEF db
<1>. QED
  BY <1>3, <1>4 DEF ReadConsent, Close

\* The record names an identity that a visit has had.
LEMMA RecordConsentInv ==
    ASSUME Core, NEW s \in Slots, RecordConsent(s)
    PROVE  Core'
<1>. DEFINE tx == open[s]
            new == tx.visit \in Rows /\ ~Repeats(facts, tx.key)
            row == Fact(tx.subject, tx.decision, tx.visit, NoOne, tx.key)
            again == Consent(tx.visit, tx.decision, tx.key)
<1>1. RowTypes /\ TxsOK(open, visits) /\ MergesOK(merges, visits, waits) /\ facts \in Seq(FactRows)
  BY DEF Core, RowTypes
<1>2. /\ tx.op = "record" /\ UNCHANGED <<world, visits, waits, profiles, merges, keys>>
      /\ open' = [open EXCEPT ![s] = Free] \/ open' = [open EXCEPT ![s] = again]
      /\ \E i \in 1..(Len(facts) + 1) : facts' = IF new THEN InsertAt(facts, i, row) ELSE facts
  BY DEF RecordConsent, Running, Close
<1>3. /\ tx.key \in Nat \ {0} /\ tx.decision \in {"grant", "withdraw"} /\ tx.subject \in Ids
  BY <1>1, <1>2 DEF TxsOK, TxOK
<1>4. TxsOK(open', visits)
  <2>1. /\ again.op = "consent" /\ again.key = tx.key /\ again.decision = tx.decision
        /\ DOMAIN again = {"op", "visit", "decision", "key", "subject"}
    BY DEF Consent
  <2>. HIDE DEF again, tx
  <2>. QED
    BY <1>1, <1>2, <1>3, <2>1, OtherTx, EndedTx
<1>5. facts' \in Seq(FactRows)
  <2>1. PICK i \in 1..(Len(facts) + 1) : facts' = IF new THEN InsertAt(facts, i, row) ELSE facts
    BY <1>2
  <2>2. CASE ~new
    BY <1>1, <2>1, <2>2
  <2>3. CASE new
    <3>1. tx.visit \in Visits
      BY <2>3 DEF Rows
    <3>. HIDE DEF tx
    <3>2. row \in FactRows
      BY <1>3, <3>1, FactType
    <3>. HIDE DEF row, new
    <3>. QED
      BY <1>1, <2>1, <2>3, <3>2, InsertedRow
  <2>. QED
    BY <2>2, <2>3
<1>. QED
  BY <1>1, <1>2, <1>4, <1>5 DEF Core, RowTypes

LEMMA RemainingMerges ==
    ASSUME NEW rows \in Seq(MergeRows), NEW subjects
    PROVE  /\ WithoutMerges(rows, subjects) \in Seq(MergeRows) /\ Len(WithoutMerges(rows, subjects)) = Len(rows)
           /\ \A k \in Active(WithoutMerges(rows, subjects)) :
                 /\ k \in Active(rows) /\ WithoutMerges(rows, subjects)[k] = rows[k]
                 /\ rows[k].source \notin subjects /\ rows[k].target \notin subjects
<1>. DEFINE Gone(row) == [row EXCEPT !.status = "gone"]
            Hit(k) == {rows[k].source, rows[k].target} \cap subjects # {}
            new == WithoutMerges(rows, subjects)
<1>1. \A row \in MergeRows : Gone(row) \in MergeRows /\ Gone(row).status = "gone"
  BY DEF MergeRows
<1>2. new = [k \in DOMAIN rows |-> IF Hit(k) THEN Gone(rows[k]) ELSE rows[k]]
  BY DEF WithoutMerges
<1>. HIDE DEF Gone, Hit
<1>3. \A k \in DOMAIN rows : new[k] \in MergeRows /\ (Hit(k) => new[k].status = "gone") /\ (~Hit(k) => new[k] = rows[k])
  <2>1. \A k \in DOMAIN rows : rows[k] \in MergeRows
    OBVIOUS
  <2>. QED
    BY <1>1, <1>2, <2>1
<1>4. new \in Seq(MergeRows) /\ Len(new) = Len(rows)
  <2>1. DOMAIN rows = 1..Len(rows) /\ Len(rows) \in Nat
    OBVIOUS
  <2>. QED
    BY <1>2, <1>3, <2>1
<1>5. DOMAIN new = DOMAIN rows
  BY <1>2
<1>. HIDE DEF new
<1>6. ASSUME NEW k \in Active(new)
      PROVE  k \in Active(rows) /\ new[k] = rows[k] /\ rows[k].source \notin subjects /\ rows[k].target \notin subjects
  <2>1. k \in DOMAIN rows /\ new[k].status = "active"
    BY <1>5 DEF Active
  <2>2. ~Hit(k) /\ new[k] = rows[k]
    BY <1>3, <2>1
  <2>. QED
    BY <2>1, <2>2 DEF Active, Hit
<1>. QED
  BY <1>4, <1>6 DEF new

\* The identities that an erasure takes, those named with it aside: no other row carries them.
Taken(vs, ws) ==
    ({VisitId(v) : v \in vs} \cup {WaitId(w) : w \in ws})
        \ ({VisitId(v) : v \in Rows \ vs} \cup {WaitId(w) : w \in Queue \ ws})
NewVisits(vs) == [v \in Visits |-> IF v \in vs THEN [visits[v] EXCEPT !.contact = Nobody] ELSE visits[v]]
NewWaits(ws) == [w \in Waits |-> IF w \in ws THEN [waits[w] EXCEPT !.contact = Nobody] ELSE waits[w]]

LEMMA BlankRows ==
    ASSUME RowTypes, NEW vs \in SUBSET Visits, NEW ws \in SUBSET Waits
    PROVE  /\ NewVisits(vs) \in [Visits -> GuestRows] /\ NewWaits(ws) \in [Waits -> GuestRows]
           /\ \A v \in Visits \ vs : NewVisits(vs)[v] = visits[v]
           /\ \A w \in Waits \ ws : NewWaits(ws)[w] = waits[w]
           /\ \A v \in Visits : NewVisits(vs)[v].unseen = visits[v].unseen
<1>1. Nobody \in Forms
  BY DEF Forms
<1>2. \A row \in GuestRows : [row EXCEPT !.contact = Nobody] \in GuestRows
  BY <1>1 DEF GuestRows
<1>. DEFINE Blank(row) == [row EXCEPT !.contact = Nobody]
<1>3. /\ NewVisits(vs) = [v \in Visits |-> IF v \in vs THEN Blank(visits[v]) ELSE visits[v]]
      /\ NewWaits(ws) = [w \in Waits |-> IF w \in ws THEN Blank(waits[w]) ELSE waits[w]]
  BY DEF NewVisits, NewWaits
<1>4. /\ \A v \in Visits : visits[v] \in GuestRows
      /\ \A w \in Waits : waits[w] \in GuestRows
  BY DEF RowTypes
<1>5. \A row \in GuestRows : Blank(row) \in GuestRows /\ Blank(row).unseen = row.unseen
  BY <1>2 DEF GuestRows
<1>. HIDE DEF Blank
<1>. QED
  BY <1>3, <1>4, <1>5

LEMMA OthersLive ==
    ASSUME RowTypes, NEW vs \in SUBSET Rows, NEW ws \in SUBSET Queue,
           NEW h, h \notin Taken(vs, ws), Living(visits, waits, h)
    PROVE  Living(NewVisits(vs), NewWaits(ws), h)
<1>1. vs \in SUBSET Visits /\ ws \in SUBSET Waits
  BY DEF Rows, Queue
<1>2. /\ \A v \in Visits \ vs : NewVisits(vs)[v] = visits[v]
      /\ \A w \in Waits \ ws : NewWaits(ws)[w] = waits[w]
      /\ \A v \in Visits : NewVisits(vs)[v].unseen = visits[v].unseen
  BY <1>1, BlankRows
<1>3. CASE \E v \in Visits \ vs : visits[v].state # "none" /\ Identity("visit", v, visits[v].contact) = h
  BY <1>2, <1>3 DEF Living
<1>4. CASE \E w \in Waits \ ws : waits[w].state \in Present /\ Identity("wait", w, waits[w].contact) = h
  BY <1>2, <1>4 DEF Living
<1>5. CASE (\E v \in vs : VisitId(v) = h) \/ (\E w \in ws : WaitId(w) = h)
  <2>1. (\E v \in Rows \ vs : VisitId(v) = h) \/ (\E w \in Queue \ ws : WaitId(w) = h)
    BY <1>5 DEF Taken
  <2>. QED
    BY <1>3, <1>4, <2>1 DEF Rows, Queue, VisitId, WaitId, Present
<1>6. CASE \E v \in Visits : h \in visits[v].unseen
  BY <1>2, <1>6 DEF Living
<1>. QED
  BY <1>3, <1>4, <1>5, <1>6 DEF Living, VisitId, WaitId

\* Erasure: what it takes from the rows it takes from the merges, unless another row needs it.
LEMMA ErasedInv ==
    ASSUME Core, NEW vs \in SUBSET Rows, NEW ws \in SUBSET Queue, NEW named, Untouched(vs),
           Erased(vs, ws, named), UNCHANGED <<world, keys, open>>
    PROVE  Core'
<1>. DEFINE gone == Taken(vs, ws) \cup named
            Mine(f) == Public(f) /\ \/ f.visit \in vs /\ f.subject = VisitId(f.visit)
                                    \/ f.wait \in ws /\ f.subject = WaitId(f.wait)
            rest == WithoutFacts({i \in DOMAIN facts : ~Mine(facts[i])}, gone)
<1>1. /\ RowTypes /\ TxsOK(open, visits) /\ MergesOK(merges, visits, waits)
      /\ merges \in Seq(MergeRows) /\ Len(merges) <= MaxMerges /\ facts \in Seq(FactRows)
  BY DEF Core, RowTypes
<1>2. /\ facts' = Kept(facts, rest) /\ merges' = WithoutMerges(merges, gone)
      /\ visits' = NewVisits(vs) /\ waits' = NewWaits(ws)
  BY DEF Erased, Taken, NewVisits, NewWaits
<1>3. rest \in SUBSET DOMAIN facts
  BY DEF WithoutFacts
<1>. HIDE DEF rest, gone
<1>4. facts' \in Seq(FactRows)
  BY <1>1, <1>2, <1>3, KeptRows
<1>5. vs \in SUBSET Visits /\ ws \in SUBSET Waits
  BY DEF Rows, Queue
<1>6. /\ visits' \in [Visits -> GuestRows] /\ waits' \in [Waits -> GuestRows]
      /\ \A v \in Visits \ vs : visits'[v] = visits[v]
  BY <1>1, <1>2, <1>5, BlankRows
<1>7. /\ merges' \in Seq(MergeRows) /\ Len(merges') <= MaxMerges
      /\ \A k \in Active(merges') :
            /\ k \in Active(merges) /\ merges'[k] = merges[k]
            /\ merges[k].source \notin gone /\ merges[k].target \notin gone
  BY <1>1, <1>2, RemainingMerges
<1>8. RowTypes'
  BY <1>1, <1>4, <1>6, <1>7 DEF RowTypes
<1>9. TxsOK(open, visits')
  <2>1. ASSUME NEW s \in Slots, Holding(open[s])
        PROVE  visits'[open[s].visit] = visits[open[s].visit]
    <3>1. open[s].visit \in Visits /\ open[s].visit \notin vs
      BY <1>1, <2>1 DEF TxsOK, TxOK, Untouched, Running, Holding
    <3>. QED
      BY <1>6, <3>1
  <2>. QED
    BY <1>1, <2>1, OtherVisitsChange
<1>10. MergesOK(merges', visits', waits')
  <2>1. ASSUME NEW h, h \notin gone, Living(visits, waits, h)
        PROVE  Living(visits', waits', h)
    <3>1. h \notin Taken(vs, ws)
      BY <2>1 DEF gone
    <3>. QED
      BY <1>1, <1>2, <2>1, <3>1, OthersLive
  <2>2. \A k \in Active(merges') :
              /\ k \in Active(merges)
              /\ merges'[k].source = merges[k].source /\ merges'[k].target = merges[k].target
              /\ Living(visits, waits, merges[k].source) => Living(visits', waits', merges[k].source)
              /\ Living(visits, waits, merges[k].target) => Living(visits', waits', merges[k].target)
    BY <1>7, <2>1
  <2>. QED
    BY <1>1, <2>2, FewerMerges
<1>. QED
  BY <1>8, <1>9, <1>10 DEF Core

LEMMA RetentionInv ==
    ASSUME Core, EraseGuest \/ EraseVisit \/ Retain \/ Lapse
    PROVE  Core'
<1>1. CASE EraseGuest
  <2>1. PICK vs \in SUBSET Rows, ws \in SUBSET Queue :
          \E named : Untouched(vs) /\ Erased(vs, ws, named) /\ UNCHANGED <<world, keys, open>>
    BY <1>1, Zenon DEF EraseGuest
  <2>. QED
    BY <2>1, ErasedInv
<1>2. CASE EraseVisit
  <2>1. PICK v \in Rows : Untouched({v}) /\ Erased({v}, {}, {}) /\ UNCHANGED <<world, keys, open>>
    BY <1>2 DEF EraseVisit
  <2>2. {v} \in SUBSET Rows /\ {} \in SUBSET Queue
    OBVIOUS
  <2>. QED
    BY <2>1, <2>2, ErasedInv
<1>3. CASE Retain
  <2>1. PICK vs \in SUBSET Visits, ws \in SUBSET Waits :
          /\ Untouched(vs)
          /\ \A v \in vs : visits[v].state = "closed"
          /\ \A w \in ws : waits[w].state = "open"
          /\ Erased(vs, ws, {}) /\ UNCHANGED <<world, keys, open>>
    BY <1>3 DEF Retain
  <2>2. vs \in SUBSET Rows /\ ws \in SUBSET Queue
    BY <2>1 DEF Rows, Queue, Present
  <2>. QED
    BY <2>1, <2>2, ErasedInv
<1>4. CASE Lapse
  <2>1. PICK i \in DOMAIN facts :
          facts' = Kept(facts, DOMAIN facts \ {i}) /\ UNCHANGED <<world, visits, waits, profiles, merges, keys, open>>
    BY <1>4 DEF Lapse
  <2>2. facts \in Seq(FactRows) /\ DOMAIN facts \ {i} \in SUBSET DOMAIN facts
    BY DEF Core, RowTypes
  <2>3. facts' \in Seq(FactRows)
    BY <2>1, <2>2, KeptRows
  <2>. QED
    BY <2>1, <2>3 DEF Core, RowTypes
<1>. QED
  BY <1>1, <1>2, <1>3, <1>4

-----------------------------------------------------------------------------
(* What is overlooked is a visit of the hall.                               *)

\* Only edits of the hall's visits leave an identity that they did not read.
LEMMA AsideKept ==
    ASSUME Aside(visits, open, world.halls), UNCHANGED world,
           \A v \in Visits : visits'[v].unseen \in {visits[v].unseen, {}},
           \A s \in Slots : open'[s].op = "edit" =>
               open[s].op = "edit" /\ open'[s].held = open[s].held /\ open'[s].visit = open[s].visit
    PROVE  Aside(visits', open', world'.halls)
BY DEF Aside

LEMMA AsideSame ==
    ASSUME Aside(visits, open, world.halls), UNCHANGED <<world, visits, open>>
    PROVE  Aside(visits', open', world'.halls)
OBVIOUS

\* The slot of a request that is not an edit afterwards.
LEMMA AsideOther ==
    ASSUME Core, Aside(visits, open, world.halls), UNCHANGED <<world, visits>>,
           NEW s \in Slots, NEW tx, tx.op # "edit", open' = [open EXCEPT ![s] = tx]
    PROVE  Aside(visits', open', world'.halls)
<1>1. DOMAIN open = Slots
  BY DEF Core, TxsOK
<1>. QED
  BY <1>1, AsideKept

LEMMA AsideRows ==
    ASSUME Core, Aside(visits, open, world.halls), Book \/ CloseVisit \/ Delete
    PROVE  Aside(visits', open', world'.halls)
<1>1. visits \in [Visits -> GuestRows] /\ UNCHANGED <<world, open>>
  BY DEF Core, RowTypes, Book, CloseVisit, Delete
<1>2. CASE Book
  <2>1. PICK v \in Visits, c \in world.contacts : visits' = [visits EXCEPT ![v] = Row(c, "open")]
    BY <1>2 DEF Book
  <2>2. Row(c, "open").unseen = {}
    BY DEF Row
  <2>3. \A u \in Visits : visits'[u].unseen \in {visits[u].unseen, {}}
    BY <1>1, <2>1, <2>2
  <2>. QED
    BY <1>1, <2>3, AsideKept
<1>3. CASE CloseVisit \/ Delete
  <2>1. PICK v \in Visits, state \in {"closed", "deleted"} : visits' = [visits EXCEPT ![v].state = state]
    BY <1>3 DEF CloseVisit, Delete, Rows
  <2>2. [visits[v] EXCEPT !.state = state].unseen = visits[v].unseen
    <3>1. visits[v] \in GuestRows
      BY <1>1
    <3>. QED
      BY <3>1 DEF GuestRows
  <2>3. visits'[v] = [visits[v] EXCEPT !.state = state] /\ \A u \in Visits \ {v} : visits'[u] = visits[u]
    BY <1>1, <2>1
  <2>4. \A u \in Visits : visits'[u].unseen = visits[u].unseen
    BY <2>2, <2>3
  <2>. QED
    BY <1>1, <2>4, AsideKept
<1>. QED
  BY <1>2, <1>3

LEMMA AsideErased ==
    ASSUME Core, Aside(visits, open, world.halls), EraseGuest \/ EraseVisit \/ Retain
    PROVE  Aside(visits', open', world'.halls)
<1>1. UNCHANGED <<world, open>>
  BY DEF EraseGuest, EraseVisit, Retain
<1>2. \E vs \in SUBSET Visits : visits' = NewVisits(vs)
  <2>1. CASE EraseGuest
    BY <2>1, Zenon DEF EraseGuest, Erased, NewVisits, Rows
  <2>2. CASE EraseVisit
    <3>1. PICK v \in Rows : Erased({v}, {}, {})
      BY <2>2 DEF EraseVisit
    <3>2. {v} \in SUBSET Visits /\ visits' = NewVisits({v})
      BY <3>1 DEF Rows, Erased, NewVisits
    <3>. QED
      BY <3>2
  <2>3. CASE Retain
    BY <2>3, Zenon DEF Retain, Erased, NewVisits
  <2>. QED
    BY <2>1, <2>2, <2>3
<1>3. RowTypes /\ {} \in SUBSET Waits
  BY DEF Core
<1>4. \A v \in Visits : visits'[v].unseen = visits[v].unseen
  BY <1>2, <1>3, BlankRows
<1>. QED
  BY <1>1, <1>4, AsideKept

LEMMA AsideEdits ==
    ASSUME Core, Aside(visits, open, world.halls), NEW s \in Slots, EditContact(s) \/ LockGraph(s) \/ CommitEdit(s)
    PROVE  Aside(visits', open', world'.halls)
<1>1. RowTypes /\ TxsOK(open, visits) /\ DOMAIN open = Slots /\ UNCHANGED world
  BY DEF Core, TxsOK, EditContact, LockGraph, CommitEdit
<1>2. CASE EditContact(s)
  <2>1. PICK tx : /\ tx.op = "edit" /\ tx.held = (tx.visit \notin world.halls)
                  /\ open' = [open EXCEPT ![s] = tx] /\ UNCHANGED visits
    <3>. DEFINE Tx(v, c) ==
                  [op |-> "edit", visit |-> v, contact |-> c, was |-> VisitId(v), is |-> Identity("visit", v, c),
                   held |-> v \notin world.halls, locked |-> FALSE, alone |-> Carriers(VisitId(v)) \subseteq {v},
                   moves |-> Moves(v, VisitId(v), Identity("visit", v, c))]
    <3>1. PICK v \in Rows, c \in world.contacts \cup {Nobody} :
              open' = [open EXCEPT ![s] = Tx(v, c)] /\ UNCHANGED visits
      BY <1>2 DEF EditContact, Begin, Corrections, db
    <3>2. Tx(v, c).op = "edit" /\ Tx(v, c).held = (v \notin world.halls) /\ Tx(v, c).visit = v
      OBVIOUS
    <3>. HIDE DEF Tx
    <3>. QED
      BY <3>1, <3>2
  <2>. QED
    BY <1>1, <2>1 DEF Aside
<1>3. CASE LockGraph(s)
  <2>1. open[s].op = "edit" /\ open' = [open EXCEPT ![s].locked = TRUE] /\ UNCHANGED visits
    BY <1>3 DEF LockGraph, Running, db
  <2>2. DOMAIN open[s] = EditFields
    BY <1>1, <2>1 DEF TxsOK, TxOK
  <2>3. /\ open'[s].op = "edit" /\ open'[s].held = open[s].held /\ open'[s].visit = open[s].visit
        /\ \A t \in Slots \ {s} : open'[t] = open[t]
    BY <1>1, <2>1, <2>2 DEF EditFields
  <2>. QED
    BY <1>1, <2>1, <2>3, AsideKept
<1>4. CASE CommitEdit(s)
  <2>1. /\ open[s].op = "edit" /\ open' = [open EXCEPT ![s] = Free]
        /\ \/ UNCHANGED visits
           \/ open[s].visit \in Rows /\ visits' = Rewritten(open[s])
    BY <1>4 DEF CommitEdit, Close, Running, Rewritten, db
  <2>2. open'[s].op # "edit" /\ \A t \in Slots \ {s} : open'[t] = open[t]
    BY <1>1, <2>1 DEF Free
  <2>3. CASE UNCHANGED visits
    BY <1>1, <2>2, <2>3, AsideKept
  <2>4. CASE open[s].visit \in Rows /\ visits' = Rewritten(open[s])
    <3>. DEFINE v == open[s].visit
    <3>1. TxOK(open[s], visits) /\ visits[v].state \in Present
      BY <1>1, <2>4 DEF TxsOK, Rows
    <3>2. /\ \A u \in Visits \ {v} : visits'[u] = visits[u]
          /\ visits'[v].unseen = visits[v].unseen \cup ({VisitId(v)} \ {open[s].was})
      BY <1>1, <2>1, <2>4, <3>1, RewrittenRow
    <3>3. v \in world.halls \/ open[s].was = VisitId(v)
      BY <2>1, <3>1 DEF Aside, TxOK, VisitId
    <3>4. \A u \in Visits \ world.halls : visits'[u].unseen = {}
      BY <3>2, <3>3 DEF Aside
    <3>. QED
      BY <1>1, <2>2, <3>4 DEF Aside
  <2>. QED
    BY <2>1, <2>3, <2>4
<1>. QED
  BY <1>2, <1>3, <1>4

LEMMA AsideRequests ==
    ASSUME Core, Aside(visits, open, world.halls), NEW s \in Slots,
           \/ OpenQuality(s) \/ CreateMerge(s) \/ OpenMerges(s) \/ UndoMerge(s)
           \/ OpenConsents(s) \/ ReadConsent(s) \/ RecordConsent(s)
           \/ OpenProfile(s) \/ SaveProfile(s) \/ CommitProfile(s)
    PROVE  Aside(visits', open', world'.halls)
<1>1. UNCHANGED <<world, visits>> /\ DOMAIN open = Slots /\ Free.op # "edit"
  BY DEF Core, TxsOK, Free, db, OpenQuality, CreateMerge, OpenMerges, UndoMerge, OpenConsents, ReadConsent, RecordConsent,
         OpenProfile, SaveProfile, CommitProfile
<1>2. CASE OpenQuality(s) \/ OpenMerges(s) \/ OpenConsents(s) \/ OpenProfile(s)
  <2>1. \E tx : tx.op # "edit" /\ open' = [open EXCEPT ![s] = tx]
    <3>1. CASE OpenQuality(s)
      <4>1. PICK pair \in Candidates :
              open' = [open EXCEPT ![s] =
                         [op |-> "merge", source |-> Latest(pair[1]), target |-> Latest(pair[2]), key |-> keys + 1]]
        BY <3>1 DEF OpenQuality, Begin
      <4>. QED
        BY <4>1
    <3>2. CASE OpenMerges(s)
      <4>1. PICK k \in Active(merges) :
              open' = [open EXCEPT ![s] = [op |-> "undo", row |-> k, version |-> merges[k].version, key |-> keys + 1]]
        BY <3>2 DEF OpenMerges, Begin
      <4>. QED
        BY <4>1
    <3>3. CASE OpenConsents(s)
      <4>1. PICK v \in Rows, decision \in {"grant", "withdraw"} :
              open' = [open EXCEPT ![s] = Consent(v, decision, keys + 1)]
        BY <3>3 DEF OpenConsents, Begin
      <4>. QED
        BY <4>1 DEF Consent
    <3>4. CASE OpenProfile(s)
      <4>1. PICK v \in Rows :
              open' = [open EXCEPT ![s] = [op |-> "form", visit |-> v, text |-> Composite(GroupOf(v)) \cup {VisitId(v)}]]
        BY <3>4 DEF OpenProfile, Begin
      <4>. QED
        BY <4>1
    <3>. QED
      BY <1>2, <3>1, <3>2, <3>3, <3>4
  <2>. QED
    BY <1>1, <2>1, AsideOther
<1>3. CASE CreateMerge(s) \/ UndoMerge(s) \/ CommitProfile(s)
  <2>1. open' = [open EXCEPT ![s] = Free] \/ UNCHANGED open
    BY <1>3 DEF CreateMerge, UndoMerge, CommitProfile, Answer, Close
  <2>. QED
    BY <1>1, <2>1, AsideOther, AsideSame
<1>4. CASE ReadConsent(s)
  <2>1. open[s].op = "consent"
    BY <1>4 DEF ReadConsent, Running
  <2>2. CASE open' = [open EXCEPT ![s] = Free]
    BY <1>1, <2>2, AsideOther
  <2>3. CASE open' = [open EXCEPT ![s].op = "record", ![s].subject = VisitId(open[s].visit)]
    <3>1. DOMAIN open[s] = {"op", "visit", "decision", "key", "subject"}
      BY <2>1 DEF Core, TxsOK, TxOK
    <3>2. open'[s].op = "record" /\ \A t \in Slots \ {s} : open'[t] = open[t]
      BY <1>1, <2>3, <3>1
    <3>. QED
      BY <1>1, <3>2, AsideKept
  <2>. QED
    BY <1>4, <2>2, <2>3 DEF ReadConsent, Close
<1>5. CASE RecordConsent(s)
  <2>1. \E tx : tx.op # "edit" /\ open' = [open EXCEPT ![s] = tx]
    <3>1. \/ open' = [open EXCEPT ![s] = Free]
          \/ open' = [open EXCEPT ![s] = Consent(open[s].visit, open[s].decision, open[s].key)]
      BY <1>5 DEF RecordConsent, Close
    <3>2. Consent(open[s].visit, open[s].decision, open[s].key).op # "edit"
      BY DEF Consent
    <3>. QED
      BY <1>1, <3>1, <3>2
  <2>. QED
    BY <1>1, <2>1, AsideOther
<1>6. CASE SaveProfile(s)
  <2>1. \E tx : tx.op # "edit" /\ open' = [open EXCEPT ![s] = tx]
    <3>1. \/ open' = [open EXCEPT ![s] = Free]
          \/ open' = [open EXCEPT ![s] = [op |-> "upsert", text |-> open[s].text,
                                          to |-> Canonical(merges, VisitId(open[s].visit))]]
      BY <1>6 DEF SaveProfile
    <3>. QED
      BY <1>1, <3>1
  <2>. QED
    BY <1>1, <2>1, AsideOther
<1>. QED
  BY <1>2, <1>3, <1>4, <1>5, <1>6

-----------------------------------------------------------------------------
(* The theorems.                                                            *)

LEMMA InitAside == Init => Aside(visits, open, world.halls)
<1>. SUFFICES ASSUME Init PROVE Aside(visits, open, world.halls)
  OBVIOUS
<1>1. \A v \in Visits : visits[v].unseen = {}
  BY DEF Init, Row
<1>2. \A s \in Slots : open[s].op # "edit"
  BY DEF Init, Free
<1>. QED
  BY <1>1, <1>2 DEF Aside

LEMMA NextInv == IInv /\ [Next]_vars => IInv'
<1>. SUFFICES ASSUME IInv, [Next]_vars PROVE Core' /\ Aside(visits', open', world'.halls)
  BY DEF IInv
<1>. USE DEF IInv
<1>1. CASE Book \/ Wait \/ CloseVisit \/ Delete
  <2>1. Core'
    BY <1>1, BookInv, WaitInv, CloseVisitInv, DeleteInv
  <2>2. Wait => UNCHANGED <<world, visits, open>>
    BY DEF Wait
  <2>. QED
    BY <1>1, <2>1, <2>2, AsideRows, AsideSame
<1>2. CASE EraseGuest \/ EraseVisit \/ Retain \/ Lapse
  <2>1. Core'
    BY <1>2, RetentionInv
  <2>2. Lapse => UNCHANGED <<world, visits, open>>
    BY DEF Lapse
  <2>. QED
    BY <1>2, <2>1, <2>2, AsideErased, AsideSame
<1>3. ASSUME NEW s \in Slots, Step(s)
      PROVE  Core' /\ Aside(visits', open', world'.halls)
  <2>1. CASE EditContact(s) \/ LockGraph(s) \/ CommitEdit(s)
    BY <2>1, EditContactInv, LockGraphInv, CommitEditInv, AsideEdits
  <2>2. CASE CreateMerge(s) \/ UndoMerge(s) \/ ReadConsent(s) \/ RecordConsent(s)
    BY <2>2, CreateMergeInv, UndoMergeInv, ReadConsentInv, RecordConsentInv, AsideRequests
  <2>3. CASE OpenQuality(s) \/ OpenMerges(s) \/ OpenConsents(s) \/ OpenProfile(s)
    BY <2>3, OpeningInv, AsideRequests
  <2>4. CASE SaveProfile(s) \/ CommitProfile(s)
    BY <2>4, ProfileInv, AsideRequests
  <2>. QED
    BY <1>3, <2>1, <2>2, <2>3, <2>4 DEF Step
<1>4. CASE UNCHANGED vars
  <2>1. Core'
    BY <1>4 DEF vars, Core, RowTypes
  <2>. QED
    BY <1>4, <2>1, AsideSame DEF vars
<1>. QED
  BY <1>1, <1>2, <1>3, <1>4 DEF Next

\* Every reachable state agrees: an edit of a table's visit has it to itself and knows the identity it
\* takes away, merges are one deep between identities that some row carries (deleted visits among
\* them) or that an edit overlooked, which only one of a hall's visit does, and a withdrawal comes
\* from an operator (crm_governance.py, rodo.py and the two edits in main.py).
THEOREM InductiveInvariant == Spec => []IInv
<1>1. Init => IInv
  BY InitInv, InitAside DEF IInv
<1>. QED
  BY <1>1, NextInv, PTL DEF Spec

LEMMA LivingMerges == IInv => MergesJoinTheLiving
<1>. SUFFICES ASSUME IInv, NEW k \in Active(merges)
     PROVE  /\ \A j \in Active(merges) \ {k} : merges[j].source \notin {merges[k].source, merges[k].target}
            /\ \A h \in {merges[k].source, merges[k].target} : Lives(h) \/ Overlooked(h)
  BY DEF MergesJoinTheLiving
<1>1. \A j \in Active(merges) \ {k} : merges[j].source \notin {merges[k].source, merges[k].target}
  BY DEF IInv, Core, MergesOK
<1>2. Living(visits, waits, merges[k].source) /\ Living(visits, waits, merges[k].target)
  BY DEF IInv, Core, MergesOK
<1>3. ASSUME NEW h, Living(visits, waits, h)
      PROVE  Lives(h) \/ Overlooked(h)
  <2>1. \A v \in Visits : h \in visits[v].unseen => v \in world.halls
    BY DEF IInv, Aside
  <2>. QED
    BY <1>3, <2>1 DEF Living, Lives, Overlooked, VisitId, WaitId, Queue
<1>. QED
  BY <1>1, <1>2, <1>3

\* Merges stay one deep and none outlives the last row of an identity it names but by a deletion or
\* by an edit of a hall's visit that overlooked another, however contacts change, are erased or run
\* out, and whatever was read before the graph's lock was had (create_merge and
\* revert_orphaned_identity_merges_after_contact_change, crm_governance.py:382-446, 547-624).
THEOREM MergesStayWithTheLiving == Spec => []MergesJoinTheLiving
  BY InductiveInvariant, LivingMerges, PTL

\* A withdrawal is an operator's, so it is found by the identity in every group that holds it.
LEMMA WithdrawalsCount ==
    ASSUME RowTypes, NEW group, NEW h \in Members(group), StateOf(FactsOf(group), h) = "granted"
    PROVE  \E i \in DOMAIN facts :
               /\ facts[i].subject = h /\ facts[i].decision = "grant"
               /\ \A j \in (i + 1)..Len(facts) : ~(facts[j].subject = h /\ facts[j].decision = "withdraw")
<1>. DEFINE said == {i \in FactsOf(group) : facts[i].subject = h}
            clear == {i \in said : facts[i].decision # "decline"}
            last == CHOOSE i \in clear : \A j \in clear : j <= i
<1>1. clear # {} /\ facts[last].decision = "grant"
  BY DEF StateOf
<1>2. facts \in Seq(FactRows) /\ Len(facts) \in Nat /\ DOMAIN facts = 1..Len(facts)
  BY DEF RowTypes
<1>3. clear \in SUBSET (1..Len(facts))
  BY <1>2 DEF FactsOf
<1>4. last \in clear /\ \A j \in clear : j <= last
  <2>1. clear \in SUBSET Int /\ IsFiniteSet(clear)
    BY <1>2, <1>3, PlacesAreFinite
  <2>. HIDE DEF clear
  <2>2. \E i \in clear : \A j \in clear : j <= i
    BY <1>1, <2>1, Extremes
  <2>. QED
    BY <2>2
<1>. HIDE DEF last
<1>5. ASSUME NEW j \in (last + 1)..Len(facts), facts[j].subject = h, facts[j].decision = "withdraw"
      PROVE  FALSE
  <2>1. last \in 1..Len(facts)
    BY <1>3, <1>4
  <2>2. j \in DOMAIN facts /\ ~(j <= last)
    BY <1>2, <2>1
  <2>3. facts[j] \in FactRows
    BY <1>2, <2>2
  <2>4. ~Public(facts[j])
    BY <1>5, <2>3 DEF FactRows
  <2>5. j \in clear
    BY <1>5, <2>2, <2>4 DEF FactsOf
  <2>. QED
    BY <1>4, <2>2, <2>5
<1>6. last \in DOMAIN facts /\ facts[last].subject = h
  BY <1>2, <1>3, <1>4
<1>. QED
  BY <1>1, <1>5, <1>6

\* No consent is known under the identity.
Unknown(h) == \A i \in DOMAIN facts : facts[i].subject # h
Silenced == \A h : Withdrawn(h) \/ Unknown(h) => ~Marketed(h)

LEMMA SilencedGuests == IInv => Silenced
<1>. SUFFICES ASSUME IInv, NEW h, Withdrawn(h) \/ Unknown(h), Marketed(h) PROVE FALSE
  BY DEF Silenced
<1>1. RowTypes /\ DOMAIN facts = 1..Len(facts) /\ Len(facts) \in Nat
  BY DEF IInv, Core, RowTypes
<1>2. PICK i \in DOMAIN facts :
          /\ facts[i].subject = h /\ facts[i].decision = "grant"
          /\ \A j \in (i + 1)..Len(facts) : ~(facts[j].subject = h /\ facts[j].decision = "withdraw")
  BY <1>1, WithdrawalsCount DEF Marketed, MayMarket
<1>3. Withdrawn(h)
  BY <1>2 DEF Unknown
<1>4. PICK k \in DOMAIN facts :
          /\ facts[k].subject = h /\ facts[k].decision = "withdraw"
          /\ \A j \in (k + 1)..Len(facts) : ~(facts[j].subject = h /\ facts[j].decision = "grant")
  BY <1>3 DEF Withdrawn
<1>5. i \notin (k + 1)..Len(facts) /\ k \notin (i + 1)..Len(facts) /\ i # k
  BY <1>2, <1>4
<1>. QED
  BY <1>1, <1>5

\* A list of which rows are taken away: of the identities in gone all, of others what guests gave.
LEMMA ShorterList ==
    ASSUME RowTypes, RowTypes', NEW places \in SUBSET DOMAIN facts, facts' = Kept(facts, places), NEW gone,
           \A i \in places : facts[i].subject \notin gone,
           \A i \in DOMAIN facts \ places : Public(facts[i]) \/ facts[i].subject \in gone,
           NEW h, Withdrawn(h)
    PROVE  Withdrawn(h)' \/ Unknown(h)'
<1>. DEFINE n == Cardinality(places)
            at == Ordered(places)
<1>1. /\ facts \in Seq(FactRows) /\ Len(facts) \in Nat /\ DOMAIN facts = 1..Len(facts)
      /\ facts' \in Seq(FactRows) /\ Len(facts') \in Nat /\ DOMAIN facts' = 1..Len(facts')
  BY DEF RowTypes
<1>2. /\ n \in Nat /\ at \in [1..n -> places] /\ \A x \in places : \E m \in 1..n : at[m] = x
      /\ \A l, m \in 1..n : l < m => at[l] < at[m]
  BY <1>1, PlacesAreFinite, OrderedFacts
<1>3. DOMAIN facts' = 1..n /\ \A m \in 1..n : facts'[m] = facts[at[m]]
  BY DEF Kept
<1>. HIDE DEF n, at
<1>4. CASE h \in gone
  <2>1. \A m \in DOMAIN facts' : facts'[m].subject # h
    BY <1>2, <1>3, <1>4
  <2>. QED
    BY <2>1 DEF Unknown
<1>5. CASE h \notin gone
  <2>1. PICK k \in DOMAIN facts :
            /\ facts[k].subject = h /\ facts[k].decision = "withdraw"
            /\ \A j \in (k + 1)..Len(facts) : ~(facts[j].subject = h /\ facts[j].decision = "grant")
    BY DEF Withdrawn
  <2>2. k \in places
    <3>1. facts[k] \in FactRows
      BY <1>1
    <3>2. ~Public(facts[k])
      BY <2>1, <3>1 DEF FactRows
    <3>. QED
      BY <1>5, <2>1, <3>2
  <2>3. PICK m \in 1..n : at[m] = k
    BY <1>2, <2>2
  <2>4. m \in DOMAIN facts' /\ facts'[m].subject = h /\ facts'[m].decision = "withdraw"
    BY <1>3, <2>1, <2>3
  <2>5. ASSUME NEW j \in (m + 1)..Len(facts'), facts'[j].subject = h, facts'[j].decision = "grant"
        PROVE  FALSE
    <3>1. j \in 1..n /\ m \in 1..n /\ m < j
      BY <1>1, <1>2, <1>3, <2>3
    <3>2. at[j] \in places /\ at[j] \in 1..Len(facts) /\ k \in 1..Len(facts) /\ k < at[j]
      BY <1>1, <1>2, <2>3, <3>1
    <3>3. at[j] \in (k + 1)..Len(facts)
      BY <1>1, <3>2
    <3>. QED
      BY <1>3, <2>1, <2>5, <3>1, <3>3
  <2>. QED
    BY <2>4, <2>5 DEF Withdrawn
<1>. QED
  BY <1>4, <1>5

\* What a step does to the consents: nothing, one more, or some taken away as above.
Fewer(places, gone) ==
    /\ facts' = Kept(facts, places)
    /\ \A i \in places : facts[i].subject \notin gone
    /\ \A i \in DOMAIN facts \ places : Public(facts[i]) \/ facts[i].subject \in gone

LEMMA ErasedFacts ==
    ASSUME NEW vs, NEW ws, NEW named, Erased(vs, ws, named)
    PROVE  \E places \in SUBSET DOMAIN facts : \E gone : Fewer(places, gone)
<1>. DEFINE own == {VisitId(v) : v \in vs} \cup {WaitId(w) : w \in ws}
            kept == {VisitId(v) : v \in Rows \ vs} \cup {WaitId(w) : w \in Queue \ ws}
            gone == (own \ kept) \cup named
            Mine(f) == Public(f) /\ \/ f.visit \in vs /\ f.subject = VisitId(f.visit)
                                    \/ f.wait \in ws /\ f.subject = WaitId(f.wait)
            places == WithoutFacts({i \in DOMAIN facts : ~Mine(facts[i])}, gone)
<1>1. facts' = Kept(facts, places)
  BY DEF Erased
<1>2. places \in SUBSET DOMAIN facts /\ \A i \in places : facts[i].subject \notin gone
  BY DEF WithoutFacts
<1>3. \A i \in DOMAIN facts \ places : Public(facts[i]) \/ facts[i].subject \in gone
  BY DEF WithoutFacts
<1>. HIDE DEF places, gone
<1>. QED
  BY <1>1, <1>2, <1>3 DEF Fewer

LEMMA FactsChange ==
    ASSUME IInv, [Next]_vars
    PROVE  \/ facts' = facts
           \/ Len(facts') > Len(facts)
           \/ \E places \in SUBSET DOMAIN facts : \E gone : Fewer(places, gone)
<1>1. facts \in Seq(FactRows) /\ Len(facts) \in Nat
  BY DEF IInv, Core, RowTypes
<1>2. \A f : Len(Append(facts, f)) > Len(facts)
  BY <1>1
<1>3. \A i \in 1..(Len(facts) + 1) : \A f : Len(InsertAt(facts, i, f)) > Len(facts)
  <2>. TAKE i \in 1..(Len(facts) + 1)
  <2>. TAKE f
  <2>. DEFINE All == FactRows \cup {f}
              left == SubSeq(facts, 1, i - 1)
              right == SubSeq(facts, i, Len(facts))
  <2>1. facts \in Seq(All) /\ <<f>> \in Seq(All) /\ Len(<<f>>) = 1
    BY <1>1
  <2>. HIDE DEF All
  <2>2. left \in Seq(All) /\ Len(left) = i - 1
    BY <1>1, <2>1
  <2>3. right \in Seq(All) /\ Len(right) = Len(facts) - i + 1
    BY <1>1, <2>1
  <2>. HIDE DEF left, right
  <2>4. InsertAt(facts, i, f) = (left \o <<f>>) \o right
    BY DEF InsertAt, left, right
  <2>5. left \o <<f>> \in Seq(All) /\ Len(left \o <<f>>) = i
    BY <1>1, <2>1, <2>2
  <2>6. Len((left \o <<f>>) \o right) = Len(facts) + 1
    BY <1>1, <2>3, <2>5
  <2>. QED
    BY <1>1, <2>4, <2>6
<1>4. CASE Book \/ Wait
  BY <1>2, <1>4 DEF Book, Wait
<1>5. CASE Delete
  <2>1. PICK v \in Rows : facts' = Kept(facts, {i \in DOMAIN facts : ~(Public(facts[i]) /\ facts[i].visit = v)})
    BY <1>5 DEF Delete
  <2>2. Fewer({i \in DOMAIN facts : ~(Public(facts[i]) /\ facts[i].visit = v)}, {})
    BY <2>1 DEF Fewer
  <2>. QED
    BY <2>2
<1>6. CASE Lapse
  <2>1. PICK i \in DOMAIN facts : Public(facts[i]) /\ facts' = Kept(facts, DOMAIN facts \ {i})
    BY <1>6 DEF Lapse
  <2>2. Fewer(DOMAIN facts \ {i}, {})
    BY <2>1 DEF Fewer
  <2>. QED
    BY <2>2
<1>7. CASE EraseGuest \/ EraseVisit \/ Retain
  <2>1. \E vs, ws, named : Erased(vs, ws, named)
    <3>1. EraseGuest => \E vs, ws, named : Erased(vs, ws, named)
      BY Zenon DEF EraseGuest
    <3>2. EraseVisit => \E vs, ws, named : Erased(vs, ws, named)
      BY Zenon DEF EraseVisit
    <3>3. Retain => \E vs, ws, named : Erased(vs, ws, named)
      BY Zenon DEF Retain
    <3>. QED
      BY <1>7, <3>1, <3>2, <3>3
  <2>. QED
    BY <2>1, ErasedFacts
<1>8. ASSUME NEW s \in Slots, Step(s)
      PROVE  facts' = facts \/ Len(facts') > Len(facts)
  <2>1. CASE RecordConsent(s)
    BY <1>3, <2>1 DEF RecordConsent
  <2>2. CASE ~RecordConsent(s)
    BY <1>8, <2>2 DEF Step, db, EditContact, LockGraph, CommitEdit, OpenQuality, CreateMerge, OpenMerges, UndoMerge,
                      OpenConsents, ReadConsent, OpenProfile, SaveProfile, CommitProfile
  <2>. QED
    BY <2>1, <2>2
<1>9. CASE CloseVisit \/ UNCHANGED vars
  BY <1>9 DEF CloseVisit, vars
<1>. QED
  BY <1>4, <1>5, <1>6, <1>7, <1>8, <1>9 DEF Next

\* Once a guest withdrew, no group he is part of is marketed to until a consent is recorded after it,
\* whichever proofs run out or are erased, and however contacts change, visits go and guests are
\* joined (consent_summary, crm_governance.py:687-749; the erasures, rodo.py:798-882).
THEOREM WithdrawnGuestsStayOut == Spec => WithdrawalsStand
<1>1. ASSUME IInv, IInv', Silenced', [Next]_vars,
             NEW h \in {facts[i].subject : i \in DOMAIN facts},
             Withdrawn(h), Len(facts') > Len(facts) => Withdrawn(h)'
      PROVE  ~Marketed(h)'
  <2>1. Withdrawn(h)' \/ Unknown(h)'
    <3>1. CASE facts' = facts
      BY <1>1, <3>1 DEF Withdrawn
    <3>2. CASE Len(facts') > Len(facts)
      BY <1>1, <3>2
    <3>3. ASSUME NEW places \in SUBSET DOMAIN facts, NEW gone, Fewer(places, gone)
          PROVE  Withdrawn(h)' \/ Unknown(h)'
      BY <1>1, <3>3, ShorterList DEF Fewer, IInv, Core
    <3>. QED
      BY <1>1, <3>1, <3>2, <3>3, FactsChange
  <2>. QED
    BY <1>1, <2>1 DEF Silenced
<1>2. IInv /\ IInv' /\ Silenced' /\ [Next]_vars
      => [\A h \in {facts[i].subject : i \in DOMAIN facts} :
             Withdrawn(h) /\ (Len(facts') > Len(facts) => Withdrawn(h)') => ~Marketed(h)']_vars
  BY <1>1
<1>. QED
  BY <1>2, InductiveInvariant, SilencedGuests, PTL DEF Spec, WithdrawalsStand

=============================================================================
