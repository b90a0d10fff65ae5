------------------------ MODULE ReservationLocks_proofs ------------------------
(***************************************************************************)
(* Proofs about ReservationLocks, for every number of sessions, days,      *)
(* tables, reservations and guests.                                        *)
(***************************************************************************)
EXTENDS ReservationLocks, FiniteSetTheorems, TLAPS

-----------------------------------------------------------------------------
(* A finite set of integers can be listed in ascending order: the place of  *)
(* an element is the number of those that are not above it.                 *)

AtMost(S, x) == {y \in S : y <= x}

LEMMA Ranks ==
    ASSUME NEW S \in SUBSET Int, IsFiniteSet(S)
    PROVE  /\ \A x \in S : Cardinality(AtMost(S, x)) \in 1..Cardinality(S)
           /\ \A x, y \in S : x < y => Cardinality(AtMost(S, x)) < Cardinality(AtMost(S, y))
<1>1. \A x \in S : /\ IsFiniteSet(AtMost(S, x)) /\ Cardinality(AtMost(S, x)) \in Nat
                   /\ Cardinality(AtMost(S, x)) <= Cardinality(S)
  <2>. TAKE x \in S
  <2>1. AtMost(S, x) \in SUBSET S
    BY DEF AtMost
  <2>. QED
    BY <2>1, FS_Subset, FS_CardinalityType
<1>2. Cardinality(S) \in Nat
  BY FS_CardinalityType
<1>3. \A x \in S : Cardinality(AtMost(S, x)) # 0
  <2>. TAKE x \in S
  <2>1. x \in AtMost(S, x)
    BY DEF AtMost
  <2>. QED
    BY <1>1, <2>1, FS_EmptySet
<1>4. ASSUME NEW x \in S, NEW y \in S, x < y
      PROVE  Cardinality(AtMost(S, x)) < Cardinality(AtMost(S, y))
  <2>1. AtMost(S, x) \in SUBSET AtMost(S, y)
    <3>1. \A z \in S : z \in Int /\ x \in Int /\ y \in Int
      OBVIOUS
    <3>2. \A z \in S : z <= x => z <= y
      BY <1>4, <3>1
    <3>. QED
      BY <3>2 DEF AtMost
  <2>2. y \in AtMost(S, y) /\ y \notin AtMost(S, x)
    BY <1>4 DEF AtMost
  <2>3. /\ Cardinality(AtMost(S, x)) <= Cardinality(AtMost(S, y))
        /\ Cardinality(AtMost(S, y)) = Cardinality(AtMost(S, x)) => AtMost(S, y) = AtMost(S, x)
    BY <1>1, <2>1, FS_Subset
  <2>. QED
    BY <1>1, <2>2, <2>3
<1>. QED
  BY <1>1, <1>2, <1>3, <1>4

LEMMA Ascends ==
    ASSUME NEW S \in SUBSET Int, IsFiniteSet(S)
    PROVE  /\ Ordered(S) \in [1..Cardinality(S) -> S]
           /\ \A i, j \in 1..Cardinality(S) : i < j => Ordered(S)[i] < Ordered(S)[j]
<1>. DEFINE n == Cardinality(S)
            rank == [x \in S |-> Cardinality(AtMost(S, x))]
            Ascending(q) == \A i, j \in DOMAIN q : i < j => q[i] < q[j]
<1>1. n \in Nat /\ IsFiniteSet(1..n) /\ Cardinality(1..n) = n
  <2>1. n \in Nat
    BY FS_CardinalityType
  <2>. QED
    BY <2>1, FS_Interval
<1>2. rank \in [S -> 1..n] /\ \A x, y \in S : x < y => rank[x] < rank[y]
  BY Ranks
<1>. HIDE DEF rank, n
<1>3. rank \in Injection(S, 1..n)
  <2>1. ASSUME NEW x \in S, NEW y \in S, rank[x] = rank[y]
        PROVE  x = y
    <3>1. rank[x] \in Int /\ rank[y] \in Int /\ x \in Int /\ y \in Int
      BY <1>1, <1>2
    <3>2. ~(x < y) /\ ~(y < x)
      BY <1>2, <2>1, <3>1
    <3>. QED
      BY <3>1, <3>2
  <2>. QED
    BY <1>2, <2>1 DEF Injection, IsInjective
<1>4. rank \in Surjection(S, 1..n)
  BY <1>1, <1>3, FS_Injection DEF n
<1>5. \E q \in [1..n -> S] : Ascending(q)
  <2>. DEFINE q == [i \in 1..n |-> CHOOSE x \in S : rank[x] = i]
  <2>1. \A i \in 1..n : \E x \in S : rank[x] = i
    BY <1>4 DEF Surjection
  <2>2. q \in [1..n -> S] /\ \A i \in 1..n : rank[q[i]] = i
    BY <2>1
  <2>. HIDE DEF q
  <2>3. ASSUME NEW i \in 1..n, NEW j \in 1..n, i < j
        PROVE  q[i] < q[j]
    <3>1. q[i] \in Int /\ q[j] \in Int /\ rank[q[i]] = i /\ rank[q[j]] = j
      BY <2>2
    <3>2. ~(q[j] < q[i]) /\ q[i] # q[j]
      BY <1>1, <1>2, <2>2, <2>3, <3>1
    <3>. QED
      BY <3>1, <3>2
  <2>4. Ascending(q)
    BY <2>2, <2>3
  <2>. QED
    BY <2>2, <2>4
<1>6. Ordered(S) \in [1..n -> S] /\ Ascending(Ordered(S))
  BY <1>5 DEF Ordered, n
<1>. QED
  BY <1>6 DEF n

LEMMA OrderedFacts ==
    ASSUME NEW S \in SUBSET Int, IsFiniteSet(S)
    PROVE  /\ Ordered(S) \in [1..Cardinality(S) -> S]
           /\ \A x \in S : \E i \in 1..Cardinality(S) : Ordered(S)[i] = x
           /\ Cardinality(S) \in Nat
<1>. DEFINE n == Cardinality(S)
<1>1. n \in Nat /\ IsFiniteSet(1..n) /\ Cardinality(1..n) = n
  <2>1. n \in Nat
    BY FS_CardinalityType
  <2>. QED
    BY <2>1, FS_Interval
<1>. HIDE DEF n
<1>2. Ordered(S) \in [1..n -> S] /\ \A i, j \in 1..n : i < j => Ordered(S)[i] < Ordered(S)[j]
  BY Ascends DEF n
<1>3. Ordered(S) \in Injection(1..n, S)
  <2>1. ASSUME NEW i \in 1..n, NEW j \in 1..n, Ordered(S)[i] = Ordered(S)[j]
        PROVE  i = j
    <3>1. i \in Int /\ j \in Int /\ Ordered(S)[i] \in Int /\ Ordered(S)[j] \in Int
      <4>1. Ordered(S) \in [1..n -> S]
        BY <1>2
      <4>2. Ordered(S)[i] \in S /\ Ordered(S)[j] \in S
        BY <4>1
      <4>3. i \in Int /\ j \in Int
        <5>1. n \in Nat
          BY <1>1
        <5>. QED
          BY <5>1
      <4>4. \A z \in S : z \in Int
        OBVIOUS
      <4>. QED
        BY <4>2, <4>3, <4>4
    <3>. QED
      BY <1>2, <2>1, <3>1
  <2>. QED
    BY <1>2, <2>1 DEF Injection, IsInjective
<1>4. Ordered(S) \in Surjection(1..n, S)
  BY <1>1, <1>3, FS_Injection DEF n
<1>. QED
  BY <1>1, <1>2, <1>4 DEF Surjection, n

-----------------------------------------------------------------------------
(* The inductive invariant.                                                 *)

\* A lock that the session has, or is still going to take.
Waits(t, l)     == \E i \in 1..Len(t.todo) : t.todo[i] = l
Covers(p, t, H, l) == H[l] = p \/ Waits(t, l)

\* The rows that a handler must hold before it writes, beside its days.
Needs(t) ==
    CASE t.call = "Hold" -> {Subject(t.guest.session), Subject(t.guest.ip)}
      [] t.call \in {"Erase", "Retain"} -> {Planner}
      [] OTHER -> {}

OnOneRow == {"Edit", "Contact", "Cancel", "Erase", "Settle"}

\* The locks of a session follow its progress.
LocksOK(p, t, H) ==
    /\ t.phase = "days" => \A d \in t.days : Covers(p, t, H, Day(d))
    /\ t.phase \in {"rows", "insert"} => \A d \in t.days : H[Day(d)] = p
    /\ t.phase = "rows" => \A l \in Needs(t) : Covers(p, t, H, l)
    /\ t.phase = "rows" /\ t.call = "Plan" => H[Planner] = p
    /\ t.phase = "insert" => t.call = "Hold" /\ \A l \in Needs(t) : H[l] = p
    /\ t.call \in {"Edit", "Hold"} => t.to \in t.days
    /\ t.call = "Plan" => t.days = {}
    /\ t.call = "Hold" => t.guest \in Guests
    /\ t.call \in OnOneRow => t.r \in Reservations

\* What a session has read under its locks is still so.
ReadsOK(t, R) ==
    /\ t.phase = "rows" /\ t.call \in OnOneRow \ {"Settle"} => R[t.r].day \in t.days
    /\ t.phase = "rows" /\ t.call = "Edit" /\ R[t.r].day # t.to
          => R[t.r].pay \notin {"pending", "paid"}
    /\ t.phase = "rows" /\ t.call = "Plan" => \A r \in t.seen : R[r].personal
    /\ t.call = "Settle" =>
          /\ t.attempt <= R[t.r].attempt
          /\ t.attempt = R[t.r].attempt /\ t.days # {} /\ R[t.r].pay = "pending"
                => R[t.r].day \in t.days

CountOK(t, h) ==
    t.phase = "insert" => /\ Cardinality(Of(h, t.guest)) < SessionLimit
                          /\ Cardinality(At(h, t.guest)) < IpLimit

TxRows == [call : Calls \cup {"idle"}, phase : {"idle", "days", "rows", "insert"},
           r : Reservations \cup {0}, to : Days \cup {0}, tables : SUBSET Tables,
           guest : Guests \cup {<<>>}, attempt : 0..MaxAttempts, days : SUBSET Days,
           todo : Seq(Resources), seen : SUBSET Reservations]
ResRows == [day : Days, status : Statuses, pay : Payments, attempt : 1..MaxAttempts,
            personal : BOOLEAN]
HoldRows == [day : Days, session : {g.session : g \in Guests}, ip : {g.ip : g \in Guests},
             live : BOOLEAN]

Typed ==
    /\ world \in Worlds
    /\ holder \in [Resources -> Txs \cup {Nobody}]
    /\ tx \in [Txs -> TxRows]
    /\ res \in [Reservations -> ResRows]
    /\ mail \subseteq Reservations
    /\ holds \subseteq HoldRows /\ IsFiniteSet(holds)
    /\ retained \in BOOLEAN

IInv ==
    /\ Typed
    /\ \A p \in Txs : LocksOK(p, tx[p], holder) /\ ReadsOK(tx[p], res) /\ CountOK(tx[p], holds)
    /\ LimitsHold
    /\ ErasedHasNoMessages

-----------------------------------------------------------------------------
(* The sequences of locks.                                                  *)

LEMMA LockConstants ==
    /\ Days \subseteq Int /\ Tables \subseteq Int /\ Reservations \subseteq Int
    /\ IsFiniteSet(Days) /\ IsFiniteSet(Tables) /\ IsFiniteSet(Reservations)
    /\ \A S : S \subseteq Days \/ S \subseteq Tables \/ S \subseteq Reservations => IsFiniteSet(S)
    /\ \A g \in Guests : g.session \in Int /\ g.ip \in Int
    /\ SessionLimit \in Nat /\ IpLimit \in Nat /\ MaxAttempts \in Nat \ {0}
    /\ Nobody \notin Txs
    /\ \A w \in Worlds : /\ w.rows \subseteq Reservations /\ w.calls \subseteq Calls
                         /\ w.txs \subseteq Txs /\ w.sets \subseteq SUBSET Tables
                         /\ w.pay \subseteq Payments
<1>1. \A S : S \subseteq Days \/ S \subseteq Tables \/ S \subseteq Reservations => IsFiniteSet(S)
  BY LockAssumption, FS_Subset
<1>2. \A g \in Guests : g.session \in Int /\ g.ip \in Int
  BY LockAssumption
<1>3. \A w \in Worlds : /\ w.rows \subseteq Reservations /\ w.calls \subseteq Calls
                        /\ w.txs \subseteq Txs /\ w.sets \subseteq SUBSET Tables
                        /\ w.pay \subseteq Payments
  BY LockAssumption
<1>. QED
  BY <1>1, <1>2, <1>3, LockAssumption

LEMMA LocksAreResources ==
    /\ \A d \in Days : Day(d) \in Resources
    /\ \A t \in Tables : Table(t) \in Resources
    /\ \A g \in Guests : Subject(g.session) \in Resources /\ Subject(g.ip) \in Resources
    /\ \A r \in Reservations : /\ Payment(r) \in Resources /\ Command(r) \in Resources
                               /\ Letters(r) \in Resources /\ Reminders(r) \in Resources
    /\ Planner \in Resources /\ Governance \in Resources /\ Retention \in Resources
<1>1. \A r \in Reservations : /\ Payment(r) \in Resources /\ Command(r) \in Resources
                              /\ Letters(r) \in Resources /\ Reminders(r) \in Resources
  <2>. TAKE r \in Reservations
  <2>. DEFINE four == {Payment(r), Command(r), Letters(r), Reminders(r)}
              all == UNION {{Payment(x), Command(x), Letters(x), Reminders(x)} : x \in Reservations}
  <2>1. four \subseteq all
    OBVIOUS
  <2>2. all \subseteq Resources
    BY DEF Resources
  <2>. QED
    BY <2>1, <2>2
<1>2. /\ \A d \in Days : Day(d) \in Resources
      /\ \A t \in Tables : Table(t) \in Resources
  BY Zenon DEF Resources
<1>3. \A g \in Guests : Subject(g.session) \in Resources /\ Subject(g.ip) \in Resources
  <2>. DEFINE A == {Subject(g.session) : g \in Guests}
              B == {Subject(g.ip) : g \in Guests}
  <2>1. A \subseteq Resources /\ B \subseteq Resources
    BY DEF Resources
  <2>2. \A g \in Guests : Subject(g.session) \in A /\ Subject(g.ip) \in B
    OBVIOUS
  <2>. QED
    BY <2>1, <2>2
<1>4. Planner \in Resources /\ Governance \in Resources /\ Retention \in Resources
  <2>1. {Planner, Governance, Retention} \subseteq Resources
    BY DEF Resources
  <2>. QED
    BY <2>1
<1>. QED
  BY <1>1, <1>2, <1>3, <1>4

LEMMA PairIsFinite ==
    \A a, b : IsFiniteSet({a} \cup {b})
BY FS_Singleton, FS_AddElement

\* Each lists the images of all elements.
LEMMA EachDay ==
    ASSUME NEW S \in SUBSET Days
    PROVE  /\ Each(Day, S) \in Seq(Resources)
           /\ \A d \in S : \E i \in 1..Len(Each(Day, S)) : Each(Day, S)[i] = Day(d)
<1>. DEFINE q == Ordered(S)
            n == Cardinality(S)
<1>1. /\ q \in [1..n -> S] /\ n \in Nat /\ \A x \in S : \E i \in 1..n : q[i] = x
  BY LockConstants, OrderedFacts
<1>. HIDE DEF q, n
<1>2. q \in Seq(S) /\ Len(q) = n
  BY <1>1
<1>3. Each(Day, S) = [i \in 1..n |-> Day(q[i])]
  BY <1>2 DEF Each, q
<1>4. \A i \in 1..n : Day(q[i]) \in Resources
  BY <1>1, LocksAreResources
<1>. QED
  BY <1>1, <1>3, <1>4

LEMMA EachTable ==
    ASSUME NEW S \in SUBSET Tables
    PROVE  Each(Table, S) \in Seq(Resources)
<1>. DEFINE q == Ordered(S)
            n == Cardinality(S)
<1>1. /\ q \in [1..n -> S] /\ n \in Nat
  BY LockConstants, OrderedFacts
<1>. HIDE DEF q, n
<1>2. q \in Seq(S) /\ Len(q) = n
  BY <1>1
<1>3. Each(Table, S) = [i \in 1..n |-> Table(q[i])]
  BY <1>2 DEF Each, q
<1>4. \A i \in 1..n : Table(q[i]) \in Resources
  BY <1>1, LocksAreResources
<1>. QED
  BY <1>1, <1>3, <1>4

LEMMA EachRow ==
    ASSUME NEW S \in SUBSET Reservations
    PROVE  Each(Letters, S) \in Seq(Resources) /\ Each(Reminders, S) \in Seq(Resources)
<1>. DEFINE q == Ordered(S)
            n == Cardinality(S)
<1>1. /\ q \in [1..n -> S] /\ n \in Nat
  BY LockConstants, OrderedFacts
<1>. HIDE DEF q, n
<1>2. q \in Seq(S) /\ Len(q) = n
  BY <1>1
<1>3. /\ Each(Letters, S) = [i \in 1..n |-> Letters(q[i])]
      /\ Each(Reminders, S) = [i \in 1..n |-> Reminders(q[i])]
  BY <1>2 DEF Each, q
<1>4. \A i \in 1..n : Letters(q[i]) \in Resources /\ Reminders(q[i]) \in Resources
  BY <1>1, LocksAreResources
<1>. QED
  BY <1>1, <1>3, <1>4

LEMMA EachSubject ==
    ASSUME NEW g \in Guests
    PROVE  LET q == Each(Subject, SubjectsOf(g))
           IN  /\ q \in Seq(Resources)
               /\ \A l \in {Subject(g.session), Subject(g.ip)} : \E i \in 1..Len(q) : q[i] = l
<1>. DEFINE S == SubjectsOf(g)
            q == Ordered(S)
            n == Cardinality(S)
<1>1. S \in SUBSET Int /\ IsFiniteSet(S) /\ S = {g.session, g.ip}
  <2>1. S = {g.session} \cup {g.ip}
    BY DEF SubjectsOf
  <2>2. IsFiniteSet({g.session} \cup {g.ip})
    BY PairIsFinite
  <2>. QED
    BY <2>1, <2>2, LockConstants
<1>. HIDE DEF S
<1>2. /\ q \in [1..n -> S] /\ n \in Nat /\ \A x \in S : \E i \in 1..n : q[i] = x
  BY <1>1, OrderedFacts
<1>. HIDE DEF q, n
<1>3. q \in Seq(S) /\ Len(q) = n
  BY <1>2
<1>4. Each(Subject, S) = [i \in 1..n |-> Subject(q[i])]
  BY <1>3 DEF Each, q
<1>5. \A i \in 1..n : Subject(q[i]) \in Resources
  BY <1>1, <1>2, LocksAreResources
<1>6. Each(Subject, S) \in Seq(Resources) /\ Len(Each(Subject, S)) = n
  BY <1>2, <1>4, <1>5
<1>7. \A x \in S : \E i \in 1..n : Each(Subject, S)[i] = Subject(x)
  BY <1>2, <1>4
<1>8. \A l \in {Subject(g.session), Subject(g.ip)} :
         \E i \in 1..Len(Each(Subject, S)) : Each(Subject, S)[i] = l
  BY <1>1, <1>6, <1>7
<1>. QED
  BY <1>6, <1>8 DEF S

\* What the rows of a handler need is among the locks it takes.
LEMMA RowsCoverNeeds ==
    ASSUME NEW t \in TxRows, world \in Worlds,
           t.call = "Hold" => t.guest \in Guests,
           t.call \in OnOneRow => t.r \in Reservations
    PROVE  /\ RowsAfterDays(t) \in Seq(Resources)
           /\ \A l \in Needs(t) : \E i \in 1..Len(RowsAfterDays(t)) : RowsAfterDays(t)[i] = l
<1>. DEFINE q == RowsAfterDays(t)
            Good == /\ q \in Seq(Resources)
                    /\ \A l \in Needs(t) : \E i \in 1..Len(q) : q[i] = l
<1>1. /\ t.call \in Calls \cup {"idle"} /\ t.seen \in SUBSET Reservations
      /\ t.tables \in SUBSET Tables /\ world.rows \in SUBSET Reservations
  BY LockConstants DEF TxRows
<1>2. /\ \A T \in SUBSET Tables : Each(Table, T) \in Seq(Resources)
      /\ \A S \in SUBSET Reservations : Each(Letters, S) \in Seq(Resources) /\ Each(Reminders, S) \in Seq(Resources)
  BY EachTable, EachRow
<1>3. CASE t.call = "Hold"
  BY <1>3, EachSubject DEF RowsAfterDays, Needs
<1>4. CASE t.call \in {"Edit", "Contact", "Cancel", "Settle", "Erase"}
  <2>1. t.r \in Reservations
    BY <1>4 DEF OnOneRow
  <2>2. /\ Letters(t.r) \in Resources /\ Planner \in Resources /\ Reminders(t.r) \in Resources
        /\ Governance \in Resources /\ Payment(t.r) \in Resources /\ Command(t.r) \in Resources
    BY <2>1, LocksAreResources
  <2>3. CASE t.call = "Edit"
    <3>1. q = Each(Table, t.tables) \o <<Letters(t.r), Planner, Reminders(t.r)>> /\ Needs(t) = {}
      BY <2>3 DEF RowsAfterDays, Needs
    <3>2. <<Letters(t.r), Planner, Reminders(t.r)>> \in Seq(Resources)
      BY <2>2
    <3>. QED
      BY <1>1, <1>2, <3>1, <3>2
  <2>4. CASE t.call = "Contact"
    BY <2>2, <2>4 DEF RowsAfterDays, Needs
  <2>5. CASE t.call = "Cancel"
    BY <2>2, <2>5 DEF RowsAfterDays, Needs
  <2>6. CASE t.call = "Settle"
    BY <2>2, <2>6 DEF RowsAfterDays, Needs
  <2>7. CASE t.call = "Erase"
    <3>1. q = <<Planner, Governance, Letters(t.r), Reminders(t.r)>> /\ Needs(t) = {Planner}
      BY <2>7 DEF RowsAfterDays, Needs, ErasureRows
    <3>2. q \in Seq(Resources) /\ Len(q) = 4 /\ q[1] = Planner
      BY <2>2, <3>1
    <3>. QED
      BY <3>1, <3>2
  <2>. QED
    BY <1>4, <2>3, <2>4, <2>5, <2>6, <2>7
<1>5. CASE t.call = "Retain"
  <2>. DEFINE rest == Each(Letters, t.seen) \o Each(Reminders, t.seen)
                      \o (IF t.seen = {} THEN <<>> ELSE <<Governance>>)
              last == IF t.seen = {} THEN <<>> ELSE <<Governance>>
              a == Each(Letters, t.seen)
              b == Each(Reminders, t.seen)
  <2>1. q = ((<<Planner>> \o a) \o b) \o last /\ Needs(t) = {Planner}
    BY <1>5 DEF RowsAfterDays, Needs
  <2>2. a \in Seq(Resources) /\ b \in Seq(Resources) /\ last \in Seq(Resources)
    BY <1>1, <1>2, LocksAreResources
  <2>3. <<Planner>> \in Seq(Resources) /\ Len(<<Planner>>) = 1 /\ <<Planner>>[1] = Planner
    BY LocksAreResources
  <2>. HIDE DEF a, b, last
  <2>4. q \in Seq(Resources) /\ Len(q) >= 1 /\ q[1] = Planner
    BY <2>1, <2>2, <2>3
  <2>5. 1 \in 1..Len(q)
    BY <2>4
  <2>. QED
    BY <2>1, <2>4, <2>5
<1>6. CASE t.call = "Plan"
  BY <1>1, <1>2, <1>6 DEF RowsAfterDays, Needs
<1>7. CASE t.call = "Reconfigure"
  <2>1. q = Each(Reminders, world.rows) \o <<Governance>> /\ Needs(t) = {}
    BY <1>7 DEF RowsAfterDays, Needs
  <2>2. <<Governance>> \in Seq(Resources)
    BY LocksAreResources
  <2>. QED
    BY <1>1, <1>2, <2>1, <2>2
<1>8. CASE t.call = "Optimise"
  BY <1>2, <1>8 DEF RowsAfterDays, Needs, AllTables
<1>9. CASE t.call = "Publish"
  BY <1>1, <1>2, <1>9 DEF RowsAfterDays, Needs
<1>10. CASE t.call \in {"Expire", "idle"}
  <2>1. CASE t.call = "Expire"
    <3>1. q = <<>> /\ Needs(t) = {}
      BY <2>1 DEF RowsAfterDays, Needs
    <3>. QED
      BY <3>1
  <2>2. CASE t.call = "idle"
    <3>1. q = <<>> /\ Needs(t) = {}
      BY <2>2 DEF RowsAfterDays, Needs
    <3>. QED
      BY <3>1
  <2>. QED
    BY <1>10, <2>1, <2>2
<1>. QED
  BY <1>1, <1>3, <1>4, <1>5, <1>6, <1>7, <1>8, <1>9, <1>10 DEF Calls

-----------------------------------------------------------------------------
(* Steps of one session.                                                    *)

LEMMA NeedsAreResources ==
    ASSUME NEW t, t.call = "Hold" => t.guest \in Guests
    PROVE  Needs(t) \subseteq Resources
BY LocksAreResources DEF Needs

\* A session keeps what it has when others take and release locks.
LEMMA OthersKeepLocks ==
    ASSUME NEW q, NEW t \in TxRows, NEW H, NEW G, LocksOK(q, t, H),
           \A l \in Resources : H[l] = q => G[l] = q
    PROVE  LocksOK(q, t, G)
<1>1. t.days \subseteq Days
  BY DEF TxRows
<1>2. \A d \in t.days : Day(d) \in Resources
  BY <1>1, LocksAreResources
<1>3. Needs(t) \subseteq Resources
  BY NeedsAreResources DEF LocksOK
<1>4. Planner \in Resources
  BY LocksAreResources
<1>. QED
  BY <1>2, <1>3, <1>4 DEF LocksOK, Covers

LEMMA IdleIsFine ==
    /\ Idle \in TxRows /\ Idle.call = "idle" /\ Idle.phase = "idle"
    /\ \A p, H : LocksOK(p, Idle, H)
    /\ \A R : ReadsOK(Idle, R)
    /\ \A h : CountOK(Idle, h)
<1>1. 0 \in 0..MaxAttempts
  BY LockConstants
<1>2. <<>> \in Seq(Resources)
  OBVIOUS
<1>3. Idle \in TxRows
  BY <1>1, <1>2 DEF Idle, TxRows
<1>4. Idle.call = "idle" /\ Idle.phase = "idle"
  BY DEF Idle
<1>. QED
  BY <1>3, <1>4 DEF LocksOK, ReadsOK, CountOK, OnOneRow

\* A step of one session that writes nothing.
LEMMA SessionStep ==
    ASSUME IInv, NEW p \in Txs, NEW t \in TxRows, tx' = [tx EXCEPT ![p] = t],
           holder' \in [Resources -> Txs \cup {Nobody}],
           \A q \in Txs \ {p} : \A l \in Resources : holder[l] = q => holder'[l] = q,
           LocksOK(p, t, holder'), ReadsOK(t, res), CountOK(t, holds),
           UNCHANGED <<world, res, mail, holds, retained>>
    PROVE  IInv'
<1>1. Typed
  BY DEF IInv
<1>2. tx' \in [Txs -> TxRows] /\ tx'[p] = t /\ \A q \in Txs \ {p} : tx'[q] = tx[q]
  BY <1>1 DEF Typed
<1>3. Typed'
  BY <1>1, <1>2 DEF Typed
<1>4. ASSUME NEW q \in Txs
      PROVE  LocksOK(q, tx'[q], holder') /\ ReadsOK(tx'[q], res) /\ CountOK(tx'[q], holds)
  <2>1. CASE q = p
    BY <1>2, <2>1
  <2>2. CASE q # p
    <3>1. tx[q] \in TxRows /\ tx'[q] = tx[q]
      BY <1>1, <1>2, <2>2 DEF Typed
    <3>2. LocksOK(q, tx[q], holder) /\ ReadsOK(tx[q], res) /\ CountOK(tx[q], holds)
      BY DEF IInv
    <3>. QED
      BY <2>2, <3>1, <3>2, OthersKeepLocks
  <2>. QED
    BY <2>1, <2>2
<1>5. LimitsHold' /\ ErasedHasNoMessages'
  BY DEF IInv, LimitsHold, ErasedHasNoMessages
<1>. QED
  BY <1>3, <1>4, <1>5 DEF IInv

\* A commit: the session is done, the others still rely on what they have read.
LEMMA CommitStep ==
    ASSUME IInv, NEW p \in Txs, End(p),
           res' \in [Reservations -> ResRows], mail' \subseteq Reservations,
           holds' \subseteq HoldRows, IsFiniteSet(holds'), retained' \in BOOLEAN,
           \A q \in Txs \ {p} : ReadsOK(tx[q], res') /\ CountOK(tx[q], holds'),
           LimitsHold', ErasedHasNoMessages'
    PROVE  IInv'
<1>1. Typed
  BY DEF IInv
<1>2. /\ holder' = Freed(p) /\ tx' = [tx EXCEPT ![p] = Idle] /\ world' = world
  BY DEF End
<1>3. tx' \in [Txs -> TxRows] /\ tx'[p] = Idle /\ \A q \in Txs \ {p} : tx'[q] = tx[q]
  BY <1>1, <1>2, IdleIsFine DEF Typed
<1>4. /\ holder' \in [Resources -> Txs \cup {Nobody}]
      /\ \A q \in Txs \ {p} : \A l \in Resources : holder[l] = q => holder'[l] = q
  BY <1>1, <1>2 DEF Typed, Freed
<1>5. Typed'
  BY <1>1, <1>2, <1>3, <1>4 DEF Typed
<1>6. ASSUME NEW q \in Txs
      PROVE  LocksOK(q, tx'[q], holder') /\ ReadsOK(tx'[q], res') /\ CountOK(tx'[q], holds')
  <2>1. CASE q = p
    BY <1>3, <2>1, IdleIsFine
  <2>2. CASE q # p
    <3>1. tx[q] \in TxRows /\ tx'[q] = tx[q] /\ LocksOK(q, tx[q], holder)
      BY <1>1, <1>3, <2>2 DEF Typed, IInv
    <3>. QED
      BY <1>4, <2>2, <3>1, OthersKeepLocks
  <2>. QED
    BY <2>1, <2>2
<1>. QED
  BY <1>5, <1>6 DEF IInv

-----------------------------------------------------------------------------
(* A handler starts.                                                        *)

LEMMA DaysPhase ==
    ASSUME NEW p, NEW t \in TxRows, t.phase = "days", t.todo = Each(Day, t.days),
           t.call \in {"Edit", "Hold"} => t.to \in t.days,
           t.call = "Plan" => t.days = {},
           t.call = "Hold" => t.guest \in Guests,
           t.call \in OnOneRow => t.r \in Reservations,
           NEW H
    PROVE  LocksOK(p, t, H)
<1>1. t.days \in SUBSET Days
  BY DEF TxRows
<1>2. \A d \in t.days : \E i \in 1..Len(t.todo) : t.todo[i] = Day(d)
  BY <1>1, EachDay
<1>. QED
  BY <1>2 DEF LocksOK, Covers, Waits

LEMMA StartInv ==
    ASSUME IInv, NEW p \in Txs, NEW call \in Calls, NEW args \in TxRows, NEW days \in SUBSET Days,
           Start(p, call, args, days),
           call \in {"Edit", "Hold"} => args.to \in days,
           call = "Plan" => days = {},
           call = "Hold" => args.guest \in Guests,
           call \in OnOneRow => args.r \in Reservations,
           call = "Settle" =>
               /\ args.attempt <= res[args.r].attempt
               /\ days # {} => res[args.r].day \in days
    PROVE  IInv'
<1>. DEFINE t == [args EXCEPT !.call = call, !.phase = "days", !.days = days, !.todo = Each(Day, days)]
<1>1. /\ tx' = [tx EXCEPT ![p] = t] /\ UNCHANGED <<world, holder, res, mail, holds, retained>>
  BY DEF Start
<1>2. /\ t \in TxRows /\ t.call = call /\ t.phase = "days" /\ t.days = days
      /\ t.todo = Each(Day, days) /\ t.to = args.to /\ t.guest = args.guest /\ t.r = args.r
      /\ t.attempt = args.attempt
  <2>1. Each(Day, days) \in Seq(Resources)
    BY EachDay
  <2>. QED
    BY <2>1 DEF TxRows
<1>. HIDE DEF t
<1>3. LocksOK(p, t, holder)
  BY <1>2, DaysPhase
<1>4. ReadsOK(t, res) /\ CountOK(t, holds)
  BY <1>2 DEF ReadsOK, CountOK
<1>5. holder \in [Resources -> Txs \cup {Nobody}]
  BY DEF IInv, Typed
<1>. QED
  BY <1>1, <1>2, <1>3, <1>4, <1>5, SessionStep

LEMMA ExpiredDays ==
    ASSUME IInv
    PROVE  /\ Expired \in SUBSET Days
           /\ Closed \in SUBSET Reservations
           /\ {res[r].day : r \in Closed} \in SUBSET Days
           /\ world.rows \in SUBSET Reservations
           /\ \A r \in Reservations : /\ res[r] \in ResRows /\ res[r].day \in Days
                                      /\ res[r].attempt \in 1..MaxAttempts
<1>1. /\ world \in Worlds /\ res \in [Reservations -> ResRows] /\ holds \subseteq HoldRows
  BY DEF IInv, Typed
<1>2. world.rows \in SUBSET Reservations
  BY <1>1, LockConstants
<1>3. \A r \in Reservations : /\ res[r] \in ResRows /\ res[r].day \in Days
                              /\ res[r].attempt \in 1..MaxAttempts
  BY <1>1 DEF ResRows
<1>4. Closed \in SUBSET Reservations
  BY <1>2 DEF Closed
<1>5. Expired \in SUBSET Days
  BY <1>1 DEF Expired, HoldRows
<1>. QED
  BY <1>2, <1>3, <1>4, <1>5

LEMMA BeginInv ==
    ASSUME IInv, NEW p \in Txs, Begin(p)
    PROVE  IInv'
<1>1. /\ Expired \in SUBSET Days /\ Closed \in SUBSET Reservations
      /\ {res[r].day : r \in Closed} \in SUBSET Days
      /\ world.rows \in SUBSET Reservations
      /\ \A r \in Reservations : /\ res[r] \in ResRows /\ res[r].day \in Days
                                 /\ res[r].attempt \in 1..MaxAttempts
  BY ExpiredDays
<1>2. Typed /\ world \in Worlds /\ holder \in [Resources -> Txs \cup {Nobody}]
  BY DEF IInv, Typed
<1>3. Idle \in TxRows
  BY IdleIsFine
<1>4. CASE StartHold(p)
  <2>1. PICK g \in Guests, d \in Days : Start(p, "Hold", [Idle EXCEPT !.guest = g, !.to = d], {d})
    BY <1>4 DEF StartHold
  <2>. DEFINE a == [Idle EXCEPT !.guest = g, !.to = d]
  <2>2. a \in TxRows /\ a.to = d /\ a.guest = g
    BY <1>3 DEF TxRows
  <2>. HIDE DEF a
  <2>3. Start(p, "Hold", a, {d}) /\ {d} \in SUBSET Days
    BY <2>1 DEF a
  <2>4. "Hold" \in Calls /\ "Hold" \notin OnOneRow
    BY DEF Calls, OnOneRow
  <2>. QED
    BY <2>2, <2>3, <2>4, StartInv
<1>5. CASE StartExpire(p)
  <2>1. "Expire" \in Calls /\ "Expire" \notin OnOneRow
    BY DEF Calls, OnOneRow
  <2>2. Start(p, "Expire", Idle, Expired)
    BY <1>5 DEF StartExpire
  <2>. QED
    BY <1>1, <1>3, <2>1, <2>2, StartInv
<1>6. CASE StartEdit(p)
  <2>1. PICK r \in world.rows, d \in Days, T \in world.sets :
            Start(p, "Edit", [Idle EXCEPT !.r = r, !.to = d, !.tables = T], {res[r].day, d})
    BY <1>6 DEF StartEdit
  <2>. DEFINE a == [Idle EXCEPT !.r = r, !.to = d, !.tables = T]
  <2>2. T \in SUBSET Tables /\ r \in Reservations
    BY <1>1, <1>2, LockConstants
  <2>3. a \in TxRows /\ a.to = d /\ a.r = r
    BY <1>3, <2>2 DEF TxRows
  <2>. HIDE DEF a
  <2>4. Start(p, "Edit", a, {res[r].day, d}) /\ {res[r].day, d} \in SUBSET Days
    BY <1>1, <2>1, <2>2 DEF a
  <2>5. "Edit" \in Calls
    BY DEF Calls
  <2>. QED
    BY <2>2, <2>3, <2>4, <2>5, StartInv
<1>7. ASSUME NEW call \in {"Contact", "Cancel", "Erase"}, NEW r \in world.rows,
             Start(p, call, [Idle EXCEPT !.r = r], {res[r].day})
      PROVE  IInv'
  <2>. DEFINE a == [Idle EXCEPT !.r = r]
  <2>1. r \in Reservations /\ {res[r].day} \in SUBSET Days
    BY <1>1
  <2>2. a \in TxRows /\ a.r = r
    BY <1>3, <2>1 DEF TxRows
  <2>. HIDE DEF a
  <2>3. Start(p, call, a, {res[r].day})
    BY <1>7 DEF a
  <2>4. call \in Calls
    BY DEF Calls
  <2>. QED
    BY <2>1, <2>2, <2>3, <2>4, StartInv
<1>8. CASE StartContact(p) \/ StartCancel(p) \/ StartErase(p)
  BY <1>7, <1>8 DEF StartContact, StartCancel, StartErase
<1>9. CASE StartPlan(p)
  <2>1. "Plan" \in Calls /\ "Plan" \notin OnOneRow
    BY DEF Calls, OnOneRow
  <2>. QED
    BY <1>3, <1>9, <2>1, StartInv DEF StartPlan
<1>10. CASE StartOptimise(p)
  <2>1. PICK d \in Days : Start(p, "Optimise", [Idle EXCEPT !.to = d], {d})
    BY <1>10 DEF StartOptimise
  <2>. DEFINE a == [Idle EXCEPT !.to = d]
  <2>2. a \in TxRows
    BY <1>3 DEF TxRows
  <2>. HIDE DEF a
  <2>3. Start(p, "Optimise", a, {d})
    BY <2>1 DEF a
  <2>4. "Optimise" \in Calls /\ "Optimise" \notin OnOneRow
    BY DEF Calls, OnOneRow
  <2>. QED
    BY <2>2, <2>3, <2>4, StartInv
<1>11. CASE StartPublish(p)
  <2>1. PICK T \in world.sets \ {{}} : Start(p, "Publish", [Idle EXCEPT !.tables = T], {})
    BY <1>11 DEF StartPublish
  <2>. DEFINE a == [Idle EXCEPT !.tables = T]
  <2>2. T \in SUBSET Tables
    BY <1>2, LockConstants
  <2>3. a \in TxRows
    BY <1>3, <2>2 DEF TxRows
  <2>. HIDE DEF a
  <2>4. Start(p, "Publish", a, {})
    BY <2>1 DEF a
  <2>5. "Publish" \in Calls /\ "Publish" \notin OnOneRow
    BY DEF Calls, OnOneRow
  <2>. QED
    BY <2>3, <2>4, <2>5, StartInv
<1>12. CASE StartSettle(p)
  <2>1. PICK r \in world.rows, named \in BOOLEAN :
            Start(p, "Settle", [Idle EXCEPT !.r = r, !.attempt = res[r].attempt],
                  IF named THEN {res[r].day} ELSE {})
    BY <1>12 DEF StartSettle
  <2>. DEFINE a == [Idle EXCEPT !.r = r, !.attempt = res[r].attempt]
              days == IF named THEN {res[r].day} ELSE {}
  <2>2. r \in Reservations /\ res[r].attempt \in Int /\ res[r].attempt \in 0..MaxAttempts
    <3>1. r \in Reservations
      BY <1>1
    <3>2. res[r].attempt \in 1..MaxAttempts
      BY <1>1, <3>1
    <3>3. MaxAttempts \in Nat
      BY LockConstants
    <3>. QED
      BY <3>1, <3>2, <3>3
  <2>3. a \in TxRows /\ a.r = r /\ a.attempt = res[r].attempt
    BY <1>3, <2>2 DEF TxRows
  <2>4. days \in SUBSET Days /\ (days # {} => res[r].day \in days)
    BY <1>1, <2>2
  <2>5. Start(p, "Settle", a, days)
    BY <2>1
  <2>. HIDE DEF a, days
  <2>6. "Settle" \in Calls
    BY DEF Calls
  <2>. QED
    BY <2>2, <2>3, <2>4, <2>5, <2>6, StartInv
<1>13. CASE StartReconfigure(p)
  <2>. DEFINE t == [Idle EXCEPT !.call = "Reconfigure", !.phase = "days", !.todo = <<Planner>>]
  <2>1. <<Planner>> \in Seq(Resources)
    BY LocksAreResources
  <2>2. /\ t \in TxRows /\ t.call = "Reconfigure" /\ t.phase = "days" /\ t.days = {}
    BY <1>3, <2>1 DEF TxRows, Calls, Idle
  <2>3. /\ tx' = [tx EXCEPT ![p] = t] /\ UNCHANGED <<world, holder, res, mail, holds, retained>>
    BY <1>13 DEF StartReconfigure
  <2>. HIDE DEF t
  <2>4. LocksOK(p, t, holder) /\ ReadsOK(t, res) /\ CountOK(t, holds)
    BY <2>2 DEF LocksOK, ReadsOK, CountOK, OnOneRow
  <2>. QED
    BY <1>2, <2>2, <2>3, <2>4, SessionStep
<1>14. CASE StartRetain(p)
  <2>. DEFINE days == {res[r].day : r \in Closed} \cup Expired
              t == [Idle EXCEPT !.call = "Retain", !.phase = "days", !.days = days, !.todo = Each(Day, days)]
  <2>1. /\ tx' = [tx EXCEPT ![p] = t] /\ UNCHANGED <<world, res, mail, holds, retained>>
        /\ holder[Retention] = Nobody /\ holder' = [holder EXCEPT ![Retention] = p]
    BY <1>14 DEF StartRetain
  <2>2. days \in SUBSET Days
    BY <1>1
  <2>. HIDE DEF days
  <2>3. Each(Day, days) \in Seq(Resources)
    BY <2>2, EachDay
  <2>4. /\ t \in TxRows /\ t.call = "Retain" /\ t.phase = "days" /\ t.days = days
        /\ t.todo = Each(Day, days)
    BY <1>3, <2>2, <2>3 DEF TxRows, Calls
  <2>. HIDE DEF t
  <2>5. LocksOK(p, t, holder')
    BY <2>4, DaysPhase DEF OnOneRow
  <2>6. ReadsOK(t, res) /\ CountOK(t, holds)
    BY <2>4 DEF ReadsOK, CountOK, OnOneRow
  <2>7. /\ holder' \in [Resources -> Txs \cup {Nobody}]
        /\ \A q \in Txs \ {p} : \A l \in Resources : holder[l] = q => holder'[l] = q
    BY <1>2, <2>1, LockConstants
  <2>. QED
    BY <2>1, <2>4, <2>5, <2>6, <2>7, SessionStep
<1>. QED
  BY <1>4, <1>5, <1>6, <1>8, <1>9, <1>10, <1>11, <1>12, <1>13, <1>14 DEF Begin

-----------------------------------------------------------------------------
(* A handler takes its locks.                                               *)

LEMMA TodoFacts ==
    ASSUME NEW s \in Seq(Resources), s # <<>>
    PROVE  /\ Head(s) \in Resources /\ Tail(s) \in Seq(Resources)
           /\ \A i \in 1..Len(s) : s[i] = Head(s) \/ \E j \in 1..Len(Tail(s)) : Tail(s)[j] = s[i]
<1>1. /\ Head(s) = s[1] /\ Len(Tail(s)) = Len(s) - 1 /\ Len(s) \in Nat /\ Len(s) >= 1
      /\ \A j \in 1..Len(Tail(s)) : Tail(s)[j] = s[j + 1]
  OBVIOUS
<1>2. Head(s) \in Resources /\ Tail(s) \in Seq(Resources)
  OBVIOUS
<1>3. ASSUME NEW i \in 1..Len(s), i # 1
      PROVE  \E j \in 1..Len(Tail(s)) : Tail(s)[j] = s[i]
  <2>1. i - 1 \in 1..Len(Tail(s)) /\ (i - 1) + 1 = i
    BY <1>1, <1>3
  <2>2. Tail(s)[i - 1] = s[(i - 1) + 1]
    BY <1>1, <2>1
  <2>. QED
    BY <2>1, <2>2
<1>. QED
  BY <1>1, <1>2, <1>3

LEMMA SessionFacts ==
    ASSUME IInv, NEW p \in Txs
    PROVE  /\ tx[p] \in TxRows /\ tx[p].todo \in Seq(Resources)
           /\ tx \in [Txs -> TxRows]
           /\ holder \in [Resources -> Txs \cup {Nobody}]
           /\ LocksOK(p, tx[p], holder) /\ ReadsOK(tx[p], res) /\ CountOK(tx[p], holds)
           /\ \A l : tx[p].todo = <<>> => ~Waits(tx[p], l)
<1>1. tx[p] \in TxRows /\ tx \in [Txs -> TxRows] /\ holder \in [Resources -> Txs \cup {Nobody}]
  BY DEF IInv, Typed
<1>2. tx[p].todo \in Seq(Resources)
  BY <1>1 DEF TxRows
<1>3. LocksOK(p, tx[p], holder) /\ ReadsOK(tx[p], res) /\ CountOK(tx[p], holds)
  BY DEF IInv
<1>4. \A l : tx[p].todo = <<>> => ~Waits(tx[p], l)
  BY DEF Waits
<1>. QED
  BY <1>1, <1>2, <1>3, <1>4

LEMMA AcquireInv ==
    ASSUME IInv, NEW p \in Txs, Acquire(p)
    PROVE  IInv'
<1>. DEFINE s == tx[p].todo
            t == [tx[p] EXCEPT !.todo = Tail(s)]
<1>1. /\ tx[p] \in TxRows /\ s \in Seq(Resources) /\ tx \in [Txs -> TxRows]
      /\ holder \in [Resources -> Txs \cup {Nobody}]
      /\ LocksOK(p, tx[p], holder) /\ ReadsOK(tx[p], res) /\ CountOK(tx[p], holds)
  BY SessionFacts
<1>2. /\ s # <<>> /\ holder[Head(s)] \in {Nobody, p} /\ holder' = [holder EXCEPT ![Head(s)] = p]
      /\ UNCHANGED <<world, res, mail, holds, retained>>
  BY DEF Acquire
<1>3. tx' = [tx EXCEPT ![p] = t]
  BY <1>1 DEF Acquire, TxRows
<1>. HIDE DEF s
<1>4. /\ Head(s) \in Resources /\ Tail(s) \in Seq(Resources)
      /\ \A i \in 1..Len(s) : s[i] = Head(s) \/ \E j \in 1..Len(Tail(s)) : Tail(s)[j] = s[i]
  BY <1>1, <1>2, TodoFacts
<1>5. /\ t \in TxRows /\ t.call = tx[p].call /\ t.phase = tx[p].phase /\ t.days = tx[p].days
      /\ t.r = tx[p].r /\ t.to = tx[p].to /\ t.guest = tx[p].guest /\ t.attempt = tx[p].attempt
      /\ t.seen = tx[p].seen /\ t.todo = Tail(s)
  BY <1>1, <1>4 DEF TxRows
<1>. HIDE DEF t
<1>6. /\ holder' \in [Resources -> Txs \cup {Nobody}]
      /\ \A q \in Txs \ {p} : \A l \in Resources : holder[l] = q => holder'[l] = q
      /\ \A l \in Resources : holder[l] = p => holder'[l] = p
      /\ holder'[Head(s)] = p
  BY <1>1, <1>2, <1>4, LockConstants
<1>7. \A l \in Resources : Covers(p, tx[p], holder, l) => Covers(p, t, holder', l)
  <2>1. \A l : Waits(tx[p], l) => l = Head(s) \/ Waits(t, l)
    BY <1>4, <1>5 DEF Waits, s
  <2>. QED
    BY <1>6, <2>1 DEF Covers
<1>8. LocksOK(p, t, holder')
  <2>1. \A d \in t.days : Day(d) \in Resources
    <3>1. t.days \subseteq Days
      BY <1>5 DEF TxRows
    <3>. QED
      BY <3>1, LocksAreResources
  <2>2. Needs(t) = Needs(tx[p]) /\ Needs(t) \subseteq Resources /\ Planner \in Resources
    <3>1. Needs(t) = Needs(tx[p])
      BY <1>5 DEF Needs
    <3>2. t.call = "Hold" => t.guest \in Guests
      BY <1>1, <1>5 DEF LocksOK
    <3>. QED
      BY <3>1, <3>2, NeedsAreResources, LocksAreResources
  <2>. QED
    BY <1>1, <1>5, <1>6, <1>7, <2>1, <2>2 DEF LocksOK
<1>9. ReadsOK(t, res) /\ CountOK(t, holds)
  BY <1>1, <1>5 DEF ReadsOK, CountOK
<1>. QED
  BY <1>2, <1>3, <1>5, <1>6, <1>8, <1>9, SessionStep

LEMMA FreedKeeps ==
    ASSUME IInv, NEW p \in Txs
    PROVE  /\ Freed(p) \in [Resources -> Txs \cup {Nobody}]
           /\ \A q \in Txs \ {p} : \A l \in Resources : holder[l] = q => Freed(p)[l] = q
BY DEF IInv, Typed, Freed

\* A session that gives up.
LEMMA GiveUp ==
    ASSUME IInv, NEW p \in Txs, holder' = Freed(p) \/ UNCHANGED holder,
           tx' = [tx EXCEPT ![p] = Idle], UNCHANGED <<world, res, mail, holds, retained>>
    PROVE  IInv'
<1>1. /\ holder' \in [Resources -> Txs \cup {Nobody}]
      /\ \A q \in Txs \ {p} : \A l \in Resources : holder[l] = q => holder'[l] = q
  BY FreedKeeps, SessionFacts
<1>2. /\ Idle \in TxRows /\ LocksOK(p, Idle, holder') /\ ReadsOK(Idle, res) /\ CountOK(Idle, holds)
  BY IdleIsFine
<1>. QED
  BY <1>1, <1>2, SessionStep

LEMMA ScopeDays ==
    ASSUME IInv, NEW p \in Txs
    PROVE  Scope(tx[p]) \in SUBSET Days
<1>1. /\ Expired \in SUBSET Days
      /\ {res[r].day : r \in Closed} \in SUBSET Days
      /\ \A r \in Reservations : res[r].day \in Days
  BY ExpiredDays
<1>2. tx[p].call \in {"Edit", "Contact", "Cancel", "Erase"} => tx[p].r \in Reservations
  BY SessionFacts DEF LocksOK, OnOneRow
<1>. QED
  BY <1>1, <1>2 DEF Scope

LEMMA RecheckInv ==
    ASSUME IInv, NEW p \in Txs, Recheck(p)
    PROVE  IInv'
<1>1. /\ tx[p] \in TxRows /\ tx \in [Txs -> TxRows]
      /\ holder \in [Resources -> Txs \cup {Nobody}]
      /\ LocksOK(p, tx[p], holder) /\ ReadsOK(tx[p], res) /\ CountOK(tx[p], holds)
      /\ \A l : tx[p].todo = <<>> => ~Waits(tx[p], l)
  BY SessionFacts
<1>2. /\ tx[p].phase = "days" /\ tx[p].todo = <<>> /\ tx[p].call # "Plan"
      /\ UNCHANGED <<world, res, mail, holds, retained>>
  BY DEF Recheck
<1>3. \A d \in tx[p].days : holder[Day(d)] = p
  BY <1>1, <1>2 DEF LocksOK, Covers
<1>4. Scope(tx[p]) \in SUBSET Days /\ tx[p].days \in SUBSET Days
  BY <1>1, ScopeDays DEF TxRows
<1>5. CASE ~(Scope(tx[p]) \subseteq tx[p].days) /\ tx[p].call # "Retain"
  <2>. DEFINE days == tx[p].days \cup Scope(tx[p])
              t == [tx[p] EXCEPT !.days = days, !.todo = Each(Day, days)]
  <2>1. holder' = Freed(p) /\ tx' = [tx EXCEPT ![p].days = days, ![p].todo = Each(Day, days)]
    BY <1>5 DEF Recheck, Restart
  <2>2. tx' = [tx EXCEPT ![p] = t]
    BY <1>1, <2>1 DEF TxRows
  <2>3. days \in SUBSET Days /\ tx[p].days \subseteq days
    BY <1>4
  <2>. HIDE DEF days
  <2>4. Each(Day, days) \in Seq(Resources)
    BY <2>3, EachDay
  <2>5. /\ t \in TxRows /\ t.call = tx[p].call /\ t.phase = "days" /\ t.days = days
        /\ t.todo = Each(Day, days) /\ t.to = tx[p].to /\ t.guest = tx[p].guest /\ t.r = tx[p].r
    BY <1>1, <1>2, <2>3, <2>4 DEF TxRows
  <2>. HIDE DEF t
  <2>6. tx[p].call # "Settle"
    BY <1>5 DEF Scope
  <2>7. LocksOK(p, t, holder')
    <3>1. /\ t.call \in {"Edit", "Hold"} => t.to \in t.days
          /\ t.call = "Hold" => t.guest \in Guests
          /\ t.call \in OnOneRow => t.r \in Reservations
      BY <1>1, <2>3, <2>5 DEF LocksOK
    <3>. QED
      BY <1>2, <2>5, <3>1, DaysPhase
  <2>8. ReadsOK(t, res) /\ CountOK(t, holds)
    BY <2>5, <2>6 DEF ReadsOK, CountOK
  <2>9. /\ holder' \in [Resources -> Txs \cup {Nobody}]
        /\ \A q \in Txs \ {p} : \A l \in Resources : holder[l] = q => holder'[l] = q
    BY <2>1, FreedKeeps
  <2>. QED
    BY <1>2, <2>2, <2>5, <2>7, <2>8, <2>9, SessionStep
<1>6. CASE /\ ~(~(Scope(tx[p]) \subseteq tx[p].days) /\ tx[p].call # "Retain")
           /\ ~(Scope(tx[p]) \subseteq tx[p].days) \/ EditRefused(tx[p])
  <2>1. holder' = Freed(p) /\ tx' = [tx EXCEPT ![p] = Idle]
    BY <1>6 DEF Recheck
  <2>. QED
    BY <1>2, <2>1, GiveUp
<1>7. CASE Scope(tx[p]) \subseteq tx[p].days /\ ~EditRefused(tx[p])
  <2>. DEFINE seen == IF tx[p].call = "Retain" THEN Closed ELSE {}
              u == [tx[p] EXCEPT !.seen = seen, !.phase = "rows"]
              t == [u EXCEPT !.todo = RowsAfterDays(u)]
  <2>1. tx' = [tx EXCEPT ![p] = t] /\ UNCHANGED holder
    BY <1>7 DEF Recheck, Rows
  <2>2. seen \in SUBSET Reservations
    BY ExpiredDays
  <2>. HIDE DEF seen
  <2>3. /\ u \in TxRows /\ u.call = tx[p].call /\ u.phase = "rows" /\ u.days = tx[p].days
        /\ u.to = tx[p].to /\ u.guest = tx[p].guest /\ u.r = tx[p].r /\ u.attempt = tx[p].attempt
    BY <1>1, <2>2 DEF TxRows
  <2>. HIDE DEF u
  <2>4. /\ RowsAfterDays(u) \in Seq(Resources)
        /\ \A l \in Needs(u) : \E i \in 1..Len(RowsAfterDays(u)) : RowsAfterDays(u)[i] = l
    <3>1. /\ u.call = "Hold" => u.guest \in Guests
          /\ u.call \in OnOneRow => u.r \in Reservations
          /\ world \in Worlds
      BY <1>1, <2>3 DEF LocksOK, IInv, Typed
    <3>. QED
      BY <2>3, <3>1, RowsCoverNeeds
  <2>5. /\ t \in TxRows /\ t.call = tx[p].call /\ t.phase = "rows" /\ t.days = tx[p].days
        /\ t.to = tx[p].to /\ t.guest = tx[p].guest /\ t.r = tx[p].r /\ t.attempt = tx[p].attempt
        /\ t.todo = RowsAfterDays(u)
    BY <2>3, <2>4 DEF TxRows
  <2>. HIDE DEF t
  <2>6. Needs(t) = Needs(u)
    BY <2>3, <2>5 DEF Needs
  <2>7. LocksOK(p, t, holder)
    BY <1>1, <1>2, <1>3, <2>4, <2>5, <2>6 DEF LocksOK, Covers, Waits
  <2>8. ReadsOK(t, res) /\ CountOK(t, holds)
    <3>1. t.call \in OnOneRow \ {"Settle"} => res[t.r].day \in t.days
      BY <1>7, <2>5 DEF Scope, OnOneRow
    <3>2. t.call = "Edit" /\ res[t.r].day # t.to => res[t.r].pay \notin {"pending", "paid"}
      BY <1>7, <2>5 DEF EditRefused
    <3>. QED
      BY <1>1, <1>2, <2>5, <3>1, <3>2 DEF ReadsOK, CountOK
  <2>. QED
    BY <1>1, <1>2, <2>1, <2>5, <2>7, <2>8, SessionStep
<1>. QED
  BY <1>5, <1>6, <1>7

LEMMA TryPlannerInv ==
    ASSUME IInv, NEW p \in Txs, TryPlanner(p)
    PROVE  IInv'
<1>1. /\ tx[p] \in TxRows /\ tx \in [Txs -> TxRows]
      /\ holder \in [Resources -> Txs \cup {Nobody}]
      /\ LocksOK(p, tx[p], holder)
  BY SessionFacts
<1>2. /\ tx[p].phase = "days" /\ tx[p].call = "Plan"
      /\ UNCHANGED <<world, res, mail, holds, retained>>
  BY DEF TryPlanner
<1>3. CASE holder[Planner] # Nobody
  <2>1. tx' = [tx EXCEPT ![p] = Idle] /\ UNCHANGED holder
    BY <1>3 DEF TryPlanner
  <2>. QED
    BY <1>2, <2>1, GiveUp
<1>4. CASE holder[Planner] = Nobody
  <2>. DEFINE seen == {r \in world.rows : res[r].status = "active" /\ res[r].personal}
              u == [tx[p] EXCEPT !.seen = seen, !.phase = "rows"]
              t == [u EXCEPT !.todo = RowsAfterDays(u)]
  <2>1. tx' = [tx EXCEPT ![p] = t] /\ holder' = [holder EXCEPT ![Planner] = p]
    BY <1>4 DEF TryPlanner, Rows
  <2>2. seen \in SUBSET Reservations /\ \A r \in seen : res[r].personal
    BY ExpiredDays
  <2>. HIDE DEF seen
  <2>3. /\ u \in TxRows /\ u.call = "Plan" /\ u.phase = "rows" /\ u.days = tx[p].days /\ u.seen = seen
    BY <1>1, <1>2, <2>2 DEF TxRows
  <2>. HIDE DEF u
  <2>4. RowsAfterDays(u) \in Seq(Resources)
    <3>1. u.call # "Hold" /\ u.call \notin OnOneRow /\ world \in Worlds
      BY <2>3 DEF IInv, Typed, OnOneRow
    <3>. QED
      BY <2>3, <3>1, RowsCoverNeeds
  <2>5. t \in TxRows /\ t.call = "Plan" /\ t.phase = "rows" /\ t.days = tx[p].days /\ t.seen = seen
    BY <2>3, <2>4 DEF TxRows
  <2>. HIDE DEF t
  <2>6. Needs(t) = {} /\ t.days = {}
    BY <1>1, <1>2, <2>5 DEF Needs, LocksOK
  <2>7. /\ holder' \in [Resources -> Txs \cup {Nobody}] /\ holder'[Planner] = p
        /\ \A q \in Txs \ {p} : \A l \in Resources : holder[l] = q => holder'[l] = q
    BY <1>1, <1>4, <2>1, LocksAreResources, LockConstants
  <2>8. LocksOK(p, t, holder') /\ ReadsOK(t, res) /\ CountOK(t, holds)
    BY <2>2, <2>5, <2>6, <2>7 DEF LocksOK, ReadsOK, CountOK, OnOneRow
  <2>. QED
    BY <1>2, <2>1, <2>5, <2>7, <2>8, SessionStep
<1>. QED
  BY <1>3, <1>4

LEMMA CountHoldsInv ==
    ASSUME IInv, NEW p \in Txs, CountHolds(p)
    PROVE  IInv'
<1>1. /\ tx[p] \in TxRows /\ tx \in [Txs -> TxRows]
      /\ holder \in [Resources -> Txs \cup {Nobody}]
      /\ LocksOK(p, tx[p], holder)
      /\ \A l : tx[p].todo = <<>> => ~Waits(tx[p], l)
  BY SessionFacts
<1>2. /\ tx[p].phase = "rows" /\ tx[p].call = "Hold" /\ tx[p].todo = <<>>
      /\ UNCHANGED <<world, res, mail, holds, retained>>
  BY DEF CountHolds, Working
<1>. DEFINE room == /\ Cardinality(Of(holds, tx[p].guest)) < SessionLimit
                    /\ Cardinality(At(holds, tx[p].guest)) < IpLimit
<1>3. CASE ~room
  <2>1. holder' = Freed(p) /\ tx' = [tx EXCEPT ![p] = Idle]
    BY <1>3 DEF CountHolds
  <2>. QED
    BY <1>2, <2>1, GiveUp
<1>4. CASE room
  <2>. DEFINE t == [tx[p] EXCEPT !.phase = "insert"]
  <2>1. tx' = [tx EXCEPT ![p] = t] /\ UNCHANGED holder
    BY <1>1, <1>4 DEF CountHolds, TxRows
  <2>2. /\ t \in TxRows /\ t.call = "Hold" /\ t.phase = "insert" /\ t.days = tx[p].days
        /\ t.guest = tx[p].guest /\ t.to = tx[p].to
    BY <1>1, <1>2 DEF TxRows
  <2>. HIDE DEF t
  <2>3. \A l \in Needs(tx[p]) : holder[l] = p
    BY <1>1, <1>2 DEF LocksOK, Covers
  <2>4. Needs(t) = Needs(tx[p])
    BY <1>2, <2>2 DEF Needs
  <2>5. LocksOK(p, t, holder)
    BY <1>1, <1>2, <2>2, <2>3, <2>4 DEF LocksOK, OnOneRow
  <2>6. ReadsOK(t, res) /\ CountOK(t, holds)
    BY <1>4, <2>2 DEF ReadsOK, CountOK
  <2>. QED
    BY <1>1, <1>2, <2>1, <2>2, <2>5, <2>6, SessionStep
<1>. QED
  BY <1>3, <1>4

LEMMA VictimInv ==
    ASSUME IInv, NEW p \in Txs, Victim(p)
    PROVE  IInv'
<1>1. /\ holder' = Freed(p) /\ tx' = [tx EXCEPT ![p] = Idle]
      /\ UNCHANGED <<world, res, mail, holds, retained>>
  BY DEF Victim, End
<1>. QED
  BY <1>1, GiveUp

-----------------------------------------------------------------------------
(* Holds and their limits.                                                  *)

LEMMA CountsAreFinite ==
    ASSUME NEW S, NEW T, IsFiniteSet(T), \A x \in S : x.live => x \in T, NEW g
    PROVE  /\ IsFiniteSet(Of(T, g)) /\ IsFiniteSet(At(T, g))
           /\ IsFiniteSet(Of(S, g)) /\ IsFiniteSet(At(S, g))
           /\ Cardinality(Of(S, g)) \in Nat /\ Cardinality(Of(T, g)) \in Nat
           /\ Cardinality(At(S, g)) \in Nat /\ Cardinality(At(T, g)) \in Nat
           /\ Cardinality(Of(S, g)) <= Cardinality(Of(T, g))
           /\ Cardinality(At(S, g)) <= Cardinality(At(T, g))
<1>1. Of(T, g) \in SUBSET T /\ At(T, g) \in SUBSET T
  BY DEF Of, At
<1>2. IsFiniteSet(Of(T, g)) /\ IsFiniteSet(At(T, g))
  BY <1>1, FS_Subset
<1>3. Of(S, g) \in SUBSET Of(T, g) /\ At(S, g) \in SUBSET At(T, g)
  BY DEF Of, At
<1>. QED
  BY <1>2, <1>3, FS_Subset, FS_CardinalityType

\* Holds that lapse or go free room.
LEMMA HoldsShrink ==
    ASSUME IInv, NEW S, \A x \in S : x.live => x \in holds
    PROVE  /\ \A q \in Txs : CountOK(tx[q], S)
           /\ \A g \in Guests : /\ Cardinality(Of(S, g)) <= SessionLimit
                                /\ Cardinality(At(S, g)) <= IpLimit
<1>1. IsFiniteSet(holds)
  BY DEF IInv, Typed
<1>2. \A g : /\ Cardinality(Of(S, g)) \in Nat /\ Cardinality(Of(holds, g)) \in Nat
             /\ Cardinality(At(S, g)) \in Nat /\ Cardinality(At(holds, g)) \in Nat
             /\ Cardinality(Of(S, g)) <= Cardinality(Of(holds, g))
             /\ Cardinality(At(S, g)) <= Cardinality(At(holds, g))
  BY <1>1, CountsAreFinite
<1>3. SessionLimit \in Nat /\ IpLimit \in Nat
  BY LockConstants
<1>4. ASSUME NEW q \in Txs
      PROVE  CountOK(tx[q], S)
  <2>1. CountOK(tx[q], holds)
    BY DEF IInv
  <2>. QED
    BY <1>2, <1>3, <2>1 DEF CountOK
<1>5. ASSUME NEW g \in Guests
      PROVE  Cardinality(Of(S, g)) <= SessionLimit /\ Cardinality(At(S, g)) <= IpLimit
  <2>1. Cardinality(Of(holds, g)) <= SessionLimit /\ Cardinality(At(holds, g)) <= IpLimit
    BY DEF IInv, LimitsHold
  <2>. QED
    BY <1>2, <1>3, <2>1
<1>. QED
  BY <1>4, <1>5

LEMMA OneMore ==
    ASSUME NEW S, NEW T, NEW x, IsFiniteSet(T), S \subseteq T \cup {x}, NEW n \in Nat, Cardinality(T) < n
    PROVE  Cardinality(S) <= n
<1>1. IsFiniteSet(T \cup {x}) /\ Cardinality(T \cup {x}) <= Cardinality(T) + 1 /\ Cardinality(T) \in Nat
  <2>1. Cardinality(T) \in Nat
    BY FS_CardinalityType
  <2>2. IsFiniteSet(T \cup {x}) /\ (Cardinality(T \cup {x}) = Cardinality(T) \/ Cardinality(T \cup {x}) = Cardinality(T) + 1)
    BY FS_AddElement
  <2>. QED
    BY <2>1, <2>2
<1>2. S \in SUBSET (T \cup {x})
  OBVIOUS
<1>3. Cardinality(S) <= Cardinality(T \cup {x}) /\ Cardinality(S) \in Nat /\ Cardinality(T \cup {x}) \in Nat
  BY <1>1, <1>2, FS_Subset, FS_CardinalityType
<1>. QED
  BY <1>1, <1>3

LEMMA CreateHoldInv ==
    ASSUME IInv, NEW p \in Txs, CreateHold(p)
    PROVE  IInv'
<1>. DEFINE g == tx[p].guest
            new == [day |-> tx[p].to, session |-> g.session, ip |-> g.ip, live |-> TRUE]
            kept == {h \in holds : h.live \/ h.day # tx[p].to}
<1>1. /\ tx[p].phase = "insert" /\ holds' = kept \cup {new} /\ End(p)
      /\ UNCHANGED <<res, mail, retained>>
  BY DEF CreateHold
<1>2. /\ tx[p] \in TxRows /\ LocksOK(p, tx[p], holder) /\ CountOK(tx[p], holds)
  BY SessionFacts
<1>3. /\ tx[p].call = "Hold" /\ g \in Guests /\ tx[p].to \in tx[p].days /\ tx[p].days \subseteq Days
      /\ holder[Subject(g.session)] = p /\ holder[Subject(g.ip)] = p
  <2>1. tx[p].call = "Hold" /\ g \in Guests /\ tx[p].to \in tx[p].days /\ tx[p].days \subseteq Days
    BY <1>1, <1>2 DEF LocksOK, TxRows
  <2>2. Needs(tx[p]) = {Subject(g.session), Subject(g.ip)}
    BY <2>1 DEF Needs
  <2>. QED
    BY <1>1, <1>2, <2>1, <2>2 DEF LocksOK
<1>4. Cardinality(Of(holds, g)) < SessionLimit /\ Cardinality(At(holds, g)) < IpLimit
  BY <1>1, <1>2 DEF CountOK
<1>5. holds \subseteq HoldRows /\ IsFiniteSet(holds) /\ Typed
  BY DEF IInv, Typed
<1>6. new \in HoldRows
  BY <1>3 DEF HoldRows
<1>7. new.session = g.session /\ new.ip = g.ip /\ new.live = TRUE
  OBVIOUS
<1>. HIDE DEF new, g
<1>8. holds' \subseteq HoldRows /\ IsFiniteSet(holds')
  <2>1. kept \in SUBSET holds
    OBVIOUS
  <2>2. IsFiniteSet(kept)
    BY <1>5, <2>1, FS_Subset
  <2>3. IsFiniteSet(kept \cup {new})
    BY <2>2, FS_AddElement
  <2>. QED
    BY <1>1, <1>5, <1>6, <2>1, <2>3
<1>9. /\ \A k : k.session # g.session => Of(holds', k) \subseteq Of(holds, k)
      /\ \A k : k.ip # g.ip => At(holds', k) \subseteq At(holds, k)
      /\ \A k : Of(holds', k) \subseteq Of(holds, k) \cup {new}
      /\ \A k : At(holds', k) \subseteq At(holds, k) \cup {new}
  BY <1>1, <1>7 DEF Of, At
<1>10. \A k : IsFiniteSet(Of(holds, k)) /\ IsFiniteSet(At(holds, k))
  BY <1>5, CountsAreFinite
<1>11. \A k : /\ Of(holds', k) \subseteq Of(holds, k) =>
                   /\ Cardinality(Of(holds', k)) <= Cardinality(Of(holds, k))
                   /\ Cardinality(Of(holds', k)) \in Nat /\ Cardinality(Of(holds, k)) \in Nat
              /\ At(holds', k) \subseteq At(holds, k) =>
                   /\ Cardinality(At(holds', k)) <= Cardinality(At(holds, k))
                   /\ Cardinality(At(holds', k)) \in Nat /\ Cardinality(At(holds, k)) \in Nat
  BY <1>10, FS_Subset, FS_CardinalityType
<1>12. SessionLimit \in Nat /\ IpLimit \in Nat
  BY LockConstants
<1>13. ASSUME NEW q \in Txs \ {p}
       PROVE  ReadsOK(tx[q], res') /\ CountOK(tx[q], holds')
  <2>1. ReadsOK(tx[q], res) /\ CountOK(tx[q], holds) /\ LocksOK(q, tx[q], holder)
    BY SessionFacts
  <2>2. ASSUME tx[q].phase = "insert"
        PROVE  tx[q].guest.session # g.session /\ tx[q].guest.ip # g.ip
    <3>1. tx[q].call = "Hold" /\ Needs(tx[q]) = {Subject(tx[q].guest.session), Subject(tx[q].guest.ip)}
      BY <2>1, <2>2 DEF LocksOK, Needs
    <3>2. holder[Subject(tx[q].guest.session)] = q /\ holder[Subject(tx[q].guest.ip)] = q
      BY <2>1, <2>2, <3>1 DEF LocksOK
    <3>. QED
      BY <1>3, <3>2
  <2>3. CountOK(tx[q], holds')
    BY <1>9, <1>11, <1>12, <2>1, <2>2 DEF CountOK
  <2>. QED
    BY <1>1, <2>1, <2>3
<1>14. ASSUME NEW k \in Guests
       PROVE  Cardinality(Of(holds', k)) <= SessionLimit /\ Cardinality(At(holds', k)) <= IpLimit
  <2>1. Cardinality(Of(holds, k)) <= SessionLimit /\ Cardinality(At(holds, k)) <= IpLimit
    BY DEF IInv, LimitsHold
  <2>2. Cardinality(Of(holds', k)) <= SessionLimit
    <3>1. CASE k.session # g.session
      BY <1>9, <1>11, <1>12, <2>1, <3>1
    <3>2. CASE k.session = g.session
      <4>1. Of(holds, k) = Of(holds, g)
        BY <3>2 DEF Of
      <4>. QED
        BY <1>4, <1>9, <1>10, <1>12, <4>1, OneMore
    <3>. QED
      BY <3>1, <3>2
  <2>3. Cardinality(At(holds', k)) <= IpLimit
    <3>1. CASE k.ip # g.ip
      BY <1>9, <1>11, <1>12, <2>1, <3>1
    <3>2. CASE k.ip = g.ip
      <4>1. At(holds, k) = At(holds, g)
        BY <3>2 DEF At
      <4>. QED
        BY <1>4, <1>9, <1>10, <1>12, <4>1, OneMore
    <3>. QED
      BY <3>1, <3>2
  <2>. QED
    BY <2>2, <2>3
<1>15. LimitsHold'
  BY <1>14 DEF LimitsHold
<1>16. /\ res' \in [Reservations -> ResRows] /\ mail' \subseteq Reservations /\ retained' \in BOOLEAN
       /\ ErasedHasNoMessages'
  BY <1>1, <1>5 DEF Typed, IInv, ErasedHasNoMessages
<1>. QED
  BY <1>1, <1>8, <1>13, <1>15, <1>16, CommitStep

LEMMA ExpireInv ==
    ASSUME IInv, NEW p \in Txs, Expire(p)
    PROVE  IInv'
<1>1. /\ holds' = {h \in holds : h.live \/ h.day \notin tx[p].days} /\ End(p)
      /\ UNCHANGED <<res, mail, retained>>
  BY DEF Expire
<1>2. Typed /\ holds \subseteq HoldRows /\ IsFiniteSet(holds)
  BY DEF IInv, Typed
<1>3. holds' \subseteq HoldRows /\ IsFiniteSet(holds') /\ holds' \subseteq holds
  <2>1. holds' \in SUBSET holds
    BY <1>1
  <2>. QED
    BY <1>2, <2>1, FS_Subset
<1>4. /\ \A q \in Txs : CountOK(tx[q], holds')
      /\ LimitsHold'
  <2>1. \A x \in holds' : x.live => x \in holds
    BY <1>3
  <2>. QED
    BY <2>1, HoldsShrink DEF LimitsHold
<1>5. \A q \in Txs : ReadsOK(tx[q], res')
  BY <1>1, SessionFacts
<1>6. /\ res' \in [Reservations -> ResRows] /\ mail' \subseteq Reservations /\ retained' \in BOOLEAN
      /\ ErasedHasNoMessages'
  BY <1>1, <1>2 DEF Typed, IInv, ErasedHasNoMessages
<1>. QED
  BY <1>1, <1>3, <1>4, <1>5, <1>6, CommitStep

LEMMA HoldLapsesInv ==
    ASSUME IInv, HoldLapses
    PROVE  IInv'
<1>1. PICK h \in holds : h.live /\ holds' = (holds \ {h}) \cup {[h EXCEPT !.live = FALSE]}
  BY DEF HoldLapses
<1>2. UNCHANGED <<world, holder, tx, res, mail, retained>>
  BY DEF HoldLapses
<1>3. Typed /\ holds \subseteq HoldRows /\ IsFiniteSet(holds)
  BY DEF IInv, Typed
<1>. DEFINE old == [h EXCEPT !.live = FALSE]
<1>4. old \in HoldRows /\ ~old.live
  BY <1>3 DEF HoldRows
<1>. HIDE DEF old
<1>5. holds' \subseteq HoldRows /\ IsFiniteSet(holds')
  <2>1. holds' = (holds \ {h}) \cup {old}
    BY <1>1 DEF old
  <2>2. IsFiniteSet(holds \ {h})
    BY <1>3, FS_RemoveElement
  <2>3. IsFiniteSet((holds \ {h}) \cup {old})
    BY <2>2, FS_AddElement
  <2>. QED
    BY <1>3, <1>4, <2>1, <2>3
<1>6. \A x \in holds' : x.live => x \in holds
  BY <1>1, <1>4 DEF old
<1>7. (\A q \in Txs : CountOK(tx[q], holds')) /\ LimitsHold'
  BY <1>6, HoldsShrink DEF LimitsHold
<1>8. Typed'
  BY <1>2, <1>3, <1>5 DEF Typed
<1>9. ASSUME NEW q \in Txs
      PROVE  LocksOK(q, tx'[q], holder') /\ ReadsOK(tx'[q], res') /\ CountOK(tx'[q], holds')
  BY <1>2, <1>7, SessionFacts
<1>10. ErasedHasNoMessages'
  BY <1>2 DEF IInv, ErasedHasNoMessages
<1>. QED
  BY <1>7, <1>8, <1>9, <1>10 DEF IInv

-----------------------------------------------------------------------------
(* Commits on reservations.                                                 *)

\* A change of a row that a session may write.
Gentle(p, old, row) ==
    /\ holder[Day(old.day)] = p
    /\ row.personal \/ holder[Planner] = p \/ row.personal = old.personal
    /\ row.attempt \in 1..MaxAttempts /\ row.attempt >= old.attempt
    /\ row.attempt = old.attempt /\ row.pay = "pending"
          => old.pay = "pending" /\ row.day = old.day

\* Whoever writes a row under the anchor of its day disturbs nothing that another
\* session has read.
LEMMA OthersRead ==
    ASSUME IInv, NEW p \in Txs, NEW q \in Txs \ {p}, NEW r \in Reservations, NEW row,
           NEW R, R[r] = row, \A x \in Reservations \ {r} : R[x] = res[x],
           Gentle(p, res[r], row)
    PROVE  ReadsOK(tx[q], R)
<1>. USE DEF Gentle
<1>1. tx[q] \in TxRows /\ LocksOK(q, tx[q], holder) /\ ReadsOK(tx[q], res)
  BY SessionFacts
<1>2. tx[q].call \in OnOneRow => tx[q].r \in Reservations
  BY <1>1 DEF LocksOK
<1>3. tx[q].phase = "rows" /\ tx[q].call \in OnOneRow \ {"Settle"} => tx[q].r # r
  BY <1>1 DEF LocksOK, ReadsOK
<1>4. ASSUME tx[q].phase = "rows", tx[q].call = "Plan"
      PROVE  \A x \in tx[q].seen : R[x].personal
  <2>1. holder[Planner] = q /\ \A x \in tx[q].seen : res[x].personal
    BY <1>1, <1>4 DEF LocksOK, ReadsOK
  <2>2. tx[q].seen \subseteq Reservations
    BY <1>1 DEF TxRows
  <2>3. ASSUME NEW x \in tx[q].seen
        PROVE  R[x].personal
    <3>1. CASE x # r
      BY <2>1, <2>2, <3>1
    <3>2. CASE x = r
      <4>1. holder[Planner] # p /\ res[r].personal
        BY <2>1, <3>2
      <4>. QED
        BY <3>2, <4>1
    <3>. QED
      BY <3>1, <3>2
  <2>. QED
    BY <2>3
<1>5. ASSUME tx[q].call = "Settle"
      PROVE  /\ tx[q].attempt <= R[tx[q].r].attempt
             /\ tx[q].attempt = R[tx[q].r].attempt /\ tx[q].days # {} /\ R[tx[q].r].pay = "pending"
                   => R[tx[q].r].day \in tx[q].days
  <2>1. tx[q].r \in Reservations
    BY <1>2, <1>5 DEF OnOneRow
  <2>2. /\ tx[q].attempt <= res[tx[q].r].attempt
        /\ tx[q].attempt = res[tx[q].r].attempt /\ tx[q].days # {} /\ res[tx[q].r].pay = "pending"
              => res[tx[q].r].day \in tx[q].days
    BY <1>1, <1>5 DEF ReadsOK
  <2>3. CASE tx[q].r # r
    BY <2>1, <2>2, <2>3
  <2>4. CASE tx[q].r = r
    <3>1. tx[q].attempt \in Int /\ res[r].attempt \in Int /\ row.attempt \in Int
      <4>1. MaxAttempts \in Nat
        BY LockConstants
      <4>2. tx[q].attempt \in 0..MaxAttempts
        BY <1>1 DEF TxRows
      <4>3. res[r].attempt \in 1..MaxAttempts
        BY ExpiredDays
      <4>. QED
        BY <4>1, <4>2, <4>3
    <3>2. tx[q].attempt <= row.attempt
      BY <2>2, <2>4, <3>1
    <3>3. ASSUME tx[q].attempt = row.attempt, tx[q].days # {}, row.pay = "pending"
          PROVE  row.day \in tx[q].days
      <4>1. row.attempt = res[r].attempt
        BY <2>2, <2>4, <3>1, <3>3
      <4>. QED
        BY <2>2, <2>4, <3>3, <4>1
    <3>. QED
      BY <2>4, <3>2, <3>3
  <2>. QED
    BY <2>3, <2>4
<1>6. tx[q].phase = "rows" /\ tx[q].call \in OnOneRow \ {"Settle"} => R[tx[q].r] = res[tx[q].r]
  BY <1>2, <1>3
<1>7. /\ tx[q].phase = "rows" /\ tx[q].call \in OnOneRow \ {"Settle"} => R[tx[q].r].day \in tx[q].days
      /\ tx[q].phase = "rows" /\ tx[q].call = "Edit" /\ R[tx[q].r].day # tx[q].to
            => R[tx[q].r].pay \notin {"pending", "paid"}
  <2>1. "Edit" \in OnOneRow \ {"Settle"}
    BY DEF OnOneRow
  <2>. QED
    BY <1>1, <1>6, <2>1 DEF ReadsOK
<1>. QED
  BY <1>4, <1>5, <1>7 DEF ReadsOK

\* What a session that is about to write one row holds and knows.
LEMMA RowFacts ==
    ASSUME IInv, NEW p \in Txs, NEW call \in OnOneRow, Working(p, call)
    PROVE  /\ tx[p].r \in Reservations
           /\ res[tx[p].r] \in ResRows
           /\ call # "Settle" => holder[Day(res[tx[p].r].day)] = p
           /\ call = "Edit" => /\ tx[p].to \in Days /\ holder[Day(tx[p].to)] = p
                               /\ res[tx[p].r].day # tx[p].to
                                    => res[tx[p].r].pay \notin {"pending", "paid"}
           /\ call = "Settle" /\ tx[p].attempt = res[tx[p].r].attempt /\ tx[p].days # {}
                 /\ res[tx[p].r].pay = "pending" => holder[Day(res[tx[p].r].day)] = p
           /\ call = "Erase" => holder[Planner] = p
<1>1. /\ tx[p] \in TxRows /\ LocksOK(p, tx[p], holder) /\ ReadsOK(tx[p], res)
      /\ \A l : tx[p].todo = <<>> => ~Waits(tx[p], l)
  BY SessionFacts
<1>2. tx[p].call = call /\ tx[p].phase = "rows" /\ tx[p].todo = <<>>
  BY DEF Working
<1>3. tx[p].r \in Reservations /\ \A d \in tx[p].days : holder[Day(d)] = p
  BY <1>1, <1>2 DEF LocksOK
<1>4. res[tx[p].r] \in ResRows
  BY <1>3, ExpiredDays
<1>5. call # "Settle" => res[tx[p].r].day \in tx[p].days
  BY <1>1, <1>2 DEF ReadsOK
<1>6. call = "Edit" => /\ tx[p].to \in tx[p].days
                       /\ res[tx[p].r].day # tx[p].to
                             => res[tx[p].r].pay \notin {"pending", "paid"}
  BY <1>1, <1>2 DEF LocksOK, ReadsOK
<1>7. tx[p].days \subseteq Days
  BY <1>1 DEF TxRows
<1>8. call = "Settle" /\ tx[p].attempt = res[tx[p].r].attempt /\ tx[p].days # {}
         /\ res[tx[p].r].pay = "pending" => res[tx[p].r].day \in tx[p].days
  BY <1>1, <1>2 DEF ReadsOK
<1>9. call = "Erase" => holder[Planner] = p
  <2>1. call = "Erase" => Planner \in Needs(tx[p])
    BY <1>2 DEF Needs
  <2>. QED
    BY <1>1, <1>2, <2>1 DEF LocksOK, Covers
<1>. QED
  BY <1>3, <1>4, <1>5, <1>6, <1>7, <1>8, <1>9

\* A commit that writes one row and leaves the holds alone.
LEMMA RowCommit ==
    ASSUME IInv, NEW p \in Txs, End(p), NEW r \in Reservations, NEW row \in ResRows,
           res' = [res EXCEPT ![r] = row], mail' \subseteq Reservations,
           UNCHANGED <<holds, retained>>,
           Gentle(p, res[r], row), ErasedHasNoMessages'
    PROVE  IInv'
<1>1. Typed /\ res \in [Reservations -> ResRows]
  BY DEF IInv, Typed
<1>2. /\ res' \in [Reservations -> ResRows] /\ res'[r] = row
      /\ \A x \in Reservations \ {r} : res'[x] = res[x]
  BY <1>1
<1>4. ASSUME NEW q \in Txs \ {p}
      PROVE  ReadsOK(tx[q], res')
  BY <1>2, OthersRead
<1>5. \A q \in Txs \ {p} : CountOK(tx[q], holds')
  BY SessionFacts
<1>6. /\ holds' \subseteq HoldRows /\ IsFiniteSet(holds') /\ retained' \in BOOLEAN /\ LimitsHold'
  BY <1>1 DEF Typed, IInv, LimitsHold
<1>. QED
  BY <1>2, <1>4, <1>5, <1>6, CommitStep

LEMMA MailFacts ==
    ASSUME IInv
    PROVE  /\ mail \subseteq Reservations /\ \A r \in mail : res[r].personal
           /\ res \in [Reservations -> ResRows]
BY DEF IInv, Typed, ErasedHasNoMessages

LEMMA EditInv ==
    ASSUME IInv, NEW p \in Txs, Edit(p)
    PROVE  IInv'
<1>. DEFINE r == tx[p].r
            moved == res[r].day # tx[p].to
<1>1. "Edit" \in OnOneRow /\ Working(p, "Edit") /\ End(p) /\ UNCHANGED <<holds, retained>>
  BY DEF Edit, OnOneRow
<1>2. /\ r \in Reservations /\ res[r] \in ResRows /\ holder[Day(res[r].day)] = p
      /\ tx[p].to \in Days /\ (moved => res[r].pay \notin {"pending", "paid"})
  BY <1>1, RowFacts
<1>3. PICK pay \in IF moved /\ res[r].pay = "failed" /\ res[r].attempt < MaxAttempts
                   THEN {"none", "pending"} ELSE {IF moved THEN "none" ELSE res[r].pay} :
          res' = [res EXCEPT ![r].day = tx[p].to, ![r].pay = pay,
                             ![r].attempt = IF pay = "pending" /\ moved THEN @ + 1 ELSE @]
  BY DEF Edit
<1>4. mail' = mail \cup {x \in {r} : res'[x].status = "active" /\ res'[x].personal}
  BY DEF Edit, Announced
<1>. DEFINE n == IF pay = "pending" /\ moved THEN res[r].attempt + 1 ELSE res[r].attempt
            row == [res[r] EXCEPT !.day = tx[p].to, !.pay = pay, !.attempt = n]
<1>5. res' = [res EXCEPT ![r] = row]
  <2>1. res \in [Reservations -> ResRows]
    BY MailFacts
  <2>. QED
    BY <1>2, <1>3, <2>1 DEF ResRows
<1>6. /\ pay \in Payments
      /\ moved /\ pay = "pending" => res[r].attempt < MaxAttempts
      /\ ~moved => pay = res[r].pay
  <2>1. res[r].pay \in Payments
    BY <1>2 DEF ResRows
  <2>. QED
    BY <1>3, <2>1 DEF Payments
<1>7. /\ res[r].attempt \in Nat /\ n \in 1..MaxAttempts /\ n >= res[r].attempt
      /\ n = res[r].attempt /\ pay = "pending" => ~moved
  <2>1. res[r].attempt \in 1..MaxAttempts /\ MaxAttempts \in Nat
    BY <1>2, LockConstants DEF ResRows
  <2>. QED
    BY <1>6, <2>1
<1>. HIDE DEF n
<1>8. /\ row \in ResRows /\ row.day = tx[p].to /\ row.pay = pay /\ row.attempt = n
      /\ row.personal = res[r].personal /\ row.status = res[r].status
  BY <1>2, <1>6, <1>7 DEF ResRows
<1>. HIDE DEF row
<1>9. row.attempt = res[r].attempt /\ row.pay = "pending"
         => res[r].pay = "pending" /\ row.day = res[r].day
  BY <1>6, <1>7, <1>8
<1>11. Gentle(p, res[r], row)
  BY <1>2, <1>7, <1>8, <1>9 DEF Gentle
<1>10. mail' \subseteq Reservations /\ ErasedHasNoMessages'
  <2>1. \A x \in Reservations : res'[x].personal = res[x].personal
    BY <1>2, <1>5, <1>8, MailFacts
  <2>2. mail' \subseteq Reservations
    BY <1>2, <1>4, MailFacts
  <2>3. ASSUME NEW x \in mail'
        PROVE  res'[x].personal
    BY <1>2, <1>4, <2>1, MailFacts
  <2>. QED
    BY <2>2, <2>3 DEF ErasedHasNoMessages
<1>. QED
  BY <1>1, <1>2, <1>5, <1>8, <1>10, <1>11, RowCommit

LEMMA ContactInv ==
    ASSUME IInv, NEW p \in Txs, Contact(p)
    PROVE  IInv'
<1>. DEFINE r == tx[p].r
            row == [res[r] EXCEPT !.personal = TRUE]
<1>1. "Contact" \in OnOneRow /\ Working(p, "Contact") /\ End(p) /\ UNCHANGED <<holds, retained>>
  BY DEF Contact, OnOneRow
<1>2. r \in Reservations /\ res[r] \in ResRows /\ holder[Day(res[r].day)] = p
  BY <1>1, RowFacts
<1>3. res' = [res EXCEPT ![r] = row]
  <2>1. res' = [res EXCEPT ![r].personal = TRUE]
    BY DEF Contact
  <2>. QED
    BY <1>2, <2>1, MailFacts DEF ResRows
<1>4. mail' = mail \cup {x \in {r} : res'[x].status = "active" /\ res'[x].personal}
  BY DEF Contact, Announced
<1>5. /\ row \in ResRows /\ row.day = res[r].day /\ row.pay = res[r].pay
      /\ row.attempt = res[r].attempt /\ row.personal = TRUE
  BY <1>2 DEF ResRows
<1>6. res[r].attempt \in Int
  <2>1. res[r].attempt \in 1..MaxAttempts
    BY <1>2 DEF ResRows
  <2>. QED
    BY <2>1
<1>. HIDE DEF row
<1>7. mail' \subseteq Reservations /\ ErasedHasNoMessages'
  <2>1. \A x \in Reservations : res[x].personal => res'[x].personal
    BY <1>2, <1>3, <1>5, MailFacts
  <2>2. mail' \subseteq Reservations
    BY <1>2, <1>4, MailFacts
  <2>3. ASSUME NEW x \in mail'
        PROVE  res'[x].personal
    BY <1>2, <1>4, <2>1, MailFacts
  <2>. QED
    BY <2>2, <2>3 DEF ErasedHasNoMessages
<1>8. Gentle(p, res[r], row)
  BY <1>2, <1>5, <1>6 DEF Gentle, ResRows
<1>. QED
  BY <1>1, <1>2, <1>3, <1>5, <1>7, <1>8, RowCommit

LEMMA CancelInv ==
    ASSUME IInv, NEW p \in Txs, Cancel(p)
    PROVE  IInv'
<1>. DEFINE r == tx[p].r
            row == [res[r] EXCEPT !.status = "cancelled"]
<1>1. "Cancel" \in OnOneRow /\ Working(p, "Cancel") /\ End(p) /\ UNCHANGED <<holds, retained>>
  BY DEF Cancel, OnOneRow
<1>2. r \in Reservations /\ res[r] \in ResRows /\ holder[Day(res[r].day)] = p
  BY <1>1, RowFacts
<1>3. res' = [res EXCEPT ![r] = row]
  <2>1. res' = [res EXCEPT ![r].status = "cancelled"]
    BY DEF Cancel
  <2>. QED
    BY <1>2, <2>1, MailFacts DEF ResRows
<1>4. mail' = mail \cup {x \in {r} : res[x].status = "active" /\ res[x].personal}
  BY DEF Cancel, Announced
<1>5. /\ row \in ResRows /\ row.day = res[r].day /\ row.pay = res[r].pay
      /\ row.attempt = res[r].attempt /\ row.personal = res[r].personal
  BY <1>2 DEF ResRows, Statuses
<1>6. res[r].attempt \in Int
  <2>1. res[r].attempt \in 1..MaxAttempts
    BY <1>2 DEF ResRows
  <2>. QED
    BY <2>1
<1>. HIDE DEF row
<1>7. mail' \subseteq Reservations /\ ErasedHasNoMessages'
  <2>1. \A x \in Reservations : res'[x].personal = res[x].personal
    BY <1>2, <1>3, <1>5, MailFacts
  <2>2. mail' \subseteq Reservations
    BY <1>2, <1>4, MailFacts
  <2>3. ASSUME NEW x \in mail'
        PROVE  res'[x].personal
    BY <1>2, <1>4, <2>1, MailFacts
  <2>. QED
    BY <2>2, <2>3 DEF ErasedHasNoMessages
<1>8. Gentle(p, res[r], row)
  BY <1>2, <1>5, <1>6 DEF Gentle, ResRows
<1>. QED
  BY <1>1, <1>2, <1>3, <1>5, <1>7, <1>8, RowCommit

LEMMA EraseInv ==
    ASSUME IInv, NEW p \in Txs, Erase(p)
    PROVE  IInv'
<1>. DEFINE r == tx[p].r
            row == [res[r] EXCEPT !.personal = FALSE]
<1>1. "Erase" \in OnOneRow /\ Working(p, "Erase") /\ End(p) /\ UNCHANGED <<holds, retained>>
  BY DEF Erase, OnOneRow
<1>2. /\ r \in Reservations /\ res[r] \in ResRows /\ holder[Day(res[r].day)] = p
      /\ holder[Planner] = p
  BY <1>1, RowFacts
<1>3. res' = [res EXCEPT ![r] = row]
  <2>1. res' = [res EXCEPT ![r].personal = FALSE]
    BY DEF Erase
  <2>. QED
    BY <1>2, <2>1, MailFacts DEF ResRows
<1>4. mail' = mail \ {r}
  BY DEF Erase
<1>5. /\ row \in ResRows /\ row.day = res[r].day /\ row.pay = res[r].pay
      /\ row.attempt = res[r].attempt
  BY <1>2 DEF ResRows
<1>6. res[r].attempt \in Int
  <2>1. res[r].attempt \in 1..MaxAttempts
    BY <1>2 DEF ResRows
  <2>. QED
    BY <2>1
<1>. HIDE DEF row
<1>7. mail' \subseteq Reservations /\ ErasedHasNoMessages'
  <2>1. \A x \in Reservations \ {r} : res'[x].personal = res[x].personal
    BY <1>3, MailFacts
  <2>. QED
    BY <1>4, <2>1, MailFacts DEF ErasedHasNoMessages
<1>8. Gentle(p, res[r], row)
  BY <1>2, <1>5, <1>6 DEF Gentle, ResRows
<1>. QED
  BY <1>1, <1>2, <1>3, <1>5, <1>7, <1>8, RowCommit

LEMMA SettleInv ==
    ASSUME IInv, NEW p \in Txs, Settle(p)
    PROVE  IInv'
<1>. DEFINE r == tx[p].r
            current == res[r].attempt = tx[p].attempt /\ tx[p].days # {} /\ res[r].pay = "pending"
<1>1. /\ "Settle" \in OnOneRow /\ Working(p, "Settle") /\ End(p)
      /\ UNCHANGED <<mail, holds, retained>>
  BY DEF Settle, OnOneRow
<1>2. PICK pay \in {"failed", "paid"} :
          res' = IF ~current THEN res
                 ELSE [res EXCEPT ![r].pay = pay,
                                  ![r].status = IF pay = "failed" THEN "cancelled" ELSE @]
  BY DEF Settle
<1>3. CASE ~current
  <2>1. UNCHANGED <<res, mail, holds, retained>>
    BY <1>1, <1>2, <1>3
  <2>2. /\ holder' = Freed(p) /\ tx' = [tx EXCEPT ![p] = Idle] /\ UNCHANGED world
    BY <1>1 DEF End
  <2>. QED
    BY <2>1, <2>2, GiveUp
<1>4. CASE current
  <2>. DEFINE status == IF pay = "failed" THEN "cancelled" ELSE res[r].status
              row == [res[r] EXCEPT !.pay = pay, !.status = status]
  <2>1. r \in Reservations /\ res[r] \in ResRows /\ holder[Day(res[r].day)] = p
    BY <1>1, <1>4, RowFacts
  <2>2. res' = [res EXCEPT ![r] = row]
    BY <1>2, <1>4, <2>1, MailFacts DEF ResRows
  <2>3. /\ row \in ResRows /\ row.day = res[r].day /\ row.pay # "pending"
        /\ row.attempt = res[r].attempt /\ row.personal = res[r].personal
    BY <1>2, <2>1 DEF ResRows, Payments, Statuses
  <2>4. res[r].attempt \in Int
    <3>1. res[r].attempt \in 1..MaxAttempts
      BY <2>1 DEF ResRows
    <3>. QED
      BY <3>1
  <2>. HIDE DEF row
  <2>5. mail' \subseteq Reservations /\ ErasedHasNoMessages'
    <3>1. \A x \in Reservations : res'[x].personal = res[x].personal
      BY <2>1, <2>2, <2>3, MailFacts
    <3>. QED
      BY <1>1, <3>1, MailFacts DEF ErasedHasNoMessages
  <2>6. Gentle(p, res[r], row)
    BY <2>1, <2>3, <2>4 DEF Gentle, ResRows
  <2>. QED
    BY <1>1, <2>1, <2>2, <2>3, <2>5, <2>6, RowCommit
<1>. QED
  BY <1>3, <1>4

\* A commit that changes no row of a reservation and no hold.
LEMMA MailCommit ==
    ASSUME IInv, NEW p \in Txs, End(p), UNCHANGED <<res, holds, retained>>,
           mail' \subseteq Reservations, \A r \in mail' : res[r].personal
    PROVE  IInv'
<1>1. Typed
  BY DEF IInv
<1>2. \A q \in Txs \ {p} : ReadsOK(tx[q], res') /\ CountOK(tx[q], holds')
  BY SessionFacts
<1>3. /\ res' \in [Reservations -> ResRows] /\ holds' \subseteq HoldRows /\ IsFiniteSet(holds')
      /\ retained' \in BOOLEAN /\ LimitsHold' /\ ErasedHasNoMessages'
  BY <1>1 DEF Typed, IInv, LimitsHold, ErasedHasNoMessages
<1>. QED
  BY <1>2, <1>3, CommitStep

LEMMA PlanInv ==
    ASSUME IInv, NEW p \in Txs, Plan(p) \/ Reconfigure(p) \/ Rearrange(p)
    PROVE  IInv'
<1>1. CASE Plan(p)
  <2>1. /\ mail' = mail \cup tx[p].seen /\ End(p) /\ UNCHANGED <<res, holds, retained>>
        /\ tx[p].call = "Plan" /\ tx[p].phase = "rows"
    BY <1>1 DEF Plan, Working
  <2>2. tx[p].seen \subseteq Reservations /\ \A r \in tx[p].seen : res[r].personal
    BY <2>1, SessionFacts DEF ReadsOK, TxRows
  <2>3. mail' \subseteq Reservations /\ \A r \in mail' : res[r].personal
    BY <2>1, <2>2, MailFacts
  <2>. QED
    BY <2>1, <2>3, MailCommit
<1>2. CASE Reconfigure(p)
  <2>1. /\ mail' = mail \cup {r \in world.rows : res[r].status = "active" /\ res[r].personal}
        /\ End(p) /\ UNCHANGED <<res, holds, retained>>
    BY <1>2 DEF Reconfigure, Announced
  <2>2. world.rows \subseteq Reservations
    BY ExpiredDays
  <2>3. mail' \subseteq Reservations /\ \A r \in mail' : res[r].personal
    BY <2>1, <2>2, MailFacts
  <2>. QED
    BY <2>1, <2>3, MailCommit
<1>3. CASE Rearrange(p)
  <2>1. End(p) /\ UNCHANGED <<res, mail, holds, retained>>
    BY <1>3 DEF Rearrange
  <2>. QED
    BY <2>1, MailFacts, MailCommit
<1>. QED
  BY <1>1, <1>2, <1>3

LEMMA RetainInv ==
    ASSUME IInv, NEW p \in Txs, Retain(p)
    PROVE  IInv'
<1>. DEFINE seen == tx[p].seen
            row(r) == [res[r] EXCEPT !.personal = FALSE]
<1>1. /\ res' = [r \in Reservations |-> IF r \in seen THEN row(r) ELSE res[r]]
      /\ mail' = mail \ seen
      /\ holds' = {h \in holds : h.live \/ h.day \notin tx[p].days}
      /\ retained' \in BOOLEAN /\ End(p)
      /\ tx[p].call = "Retain" /\ tx[p].phase = "rows" /\ tx[p].todo = <<>>
  <2>1. retained' \in BOOLEAN
    BY DEF Retain
  <2>. QED
    BY <2>1 DEF Retain, Working
<1>2. Typed /\ holds \subseteq HoldRows /\ IsFiniteSet(holds) /\ res \in [Reservations -> ResRows]
  BY DEF IInv, Typed
<1>3. holder[Planner] = p
  <2>1. Planner \in Needs(tx[p])
    BY <1>1 DEF Needs
  <2>. QED
    BY <1>1, <2>1, SessionFacts DEF LocksOK, Covers
<1>4. \A r \in Reservations :
         /\ row(r) \in ResRows /\ row(r).day = res[r].day /\ row(r).pay = res[r].pay
         /\ row(r).attempt = res[r].attempt /\ row(r).personal = FALSE
  <2>. TAKE r \in Reservations
  <2>1. res[r] \in ResRows
    BY <1>2
  <2>. QED
    BY <2>1 DEF ResRows
<1>. HIDE DEF row
<1>5. res' \in [Reservations -> ResRows]
  BY <1>1, <1>2, <1>4
<1>6. \A r \in Reservations :
         res'[r].day = res[r].day /\ res'[r].pay = res[r].pay /\ res'[r].attempt = res[r].attempt
  BY <1>1, <1>4
<1>7. \A q \in Txs \ {p} : ReadsOK(tx[q], res')
  <2>. TAKE q \in Txs \ {p}
  <2>1. ReadsOK(tx[q], res) /\ LocksOK(q, tx[q], holder)
    BY SessionFacts
  <2>2. ~(tx[q].phase = "rows" /\ tx[q].call = "Plan")
    BY <1>3, <2>1 DEF LocksOK
  <2>3. tx[q].call \in OnOneRow => tx[q].r \in Reservations
    BY <2>1 DEF LocksOK
  <2>4. tx[q].call = "Edit" \/ tx[q].call = "Settle" => tx[q].r \in Reservations
    BY <2>3 DEF OnOneRow
  <2>. QED
    BY <1>6, <2>1, <2>2, <2>3, <2>4 DEF ReadsOK
<1>8. holds' \subseteq HoldRows /\ IsFiniteSet(holds') /\ holds' \subseteq holds
  <2>1. holds' \in SUBSET holds
    BY <1>1
  <2>. QED
    BY <1>2, <2>1, FS_Subset
<1>9. (\A q \in Txs : CountOK(tx[q], holds')) /\ LimitsHold'
  <2>1. \A x \in holds' : x.live => x \in holds
    BY <1>8
  <2>. QED
    BY <2>1, HoldsShrink DEF LimitsHold
<1>10. mail' \subseteq Reservations /\ ErasedHasNoMessages'
  <2>1. \A r \in Reservations \ seen : res'[r] = res[r]
    BY <1>1
  <2>. QED
    BY <1>1, <2>1, MailFacts DEF ErasedHasNoMessages
<1>. QED
  BY <1>1, <1>5, <1>7, <1>8, <1>9, <1>10, CommitStep

LEMMA GoInv ==
    ASSUME IInv, NEW p \in Txs, Go(p)
    PROVE  IInv'
<1>1. CASE Commit(p)
  BY <1>1, CreateHoldInv, ExpireInv, EditInv, ContactInv, CancelInv, SettleInv, EraseInv,
     RetainInv, PlanInv DEF Commit
<1>. QED
  BY <1>1, RecheckInv, TryPlannerInv, CountHoldsInv DEF Go

LEMMA InitInv == Init => IInv
<1>. SUFFICES ASSUME Init
              PROVE  IInv
  OBVIOUS
<1>1. /\ world \in Worlds /\ holder = [l \in Resources |-> Nobody] /\ tx = [p \in Txs |-> Idle]
      /\ mail = {} /\ holds = {} /\ retained = FALSE
  BY DEF Init
<1>2. res \in [Reservations -> ResRows]
  <2>1. PICK pay \in world.pay, day \in [world.rows -> Days] :
          res = [r \in Reservations |-> [day |-> IF r \in world.rows THEN day[r] ELSE 1,
                                         status |-> "active", pay |-> pay, attempt |-> 1,
                                         personal |-> TRUE]]
    BY DEF Init
  <2>2. pay \in Payments
    BY <1>1, LockConstants
  <2>3. 1 \in Days /\ 1 \in 1..MaxAttempts
    BY LockAssumption
  <2>4. \A r \in Reservations : (IF r \in world.rows THEN day[r] ELSE 1) \in Days
    BY <2>3
  <2>. QED
    BY <2>1, <2>2, <2>3, <2>4 DEF ResRows, Statuses
<1>3. Typed
  <2>1. tx \in [Txs -> TxRows] /\ holder \in [Resources -> Txs \cup {Nobody}]
    BY <1>1, IdleIsFine
  <2>2. IsFiniteSet({})
    BY FS_EmptySet
  <2>. QED
    BY <1>1, <1>2, <2>1, <2>2 DEF Typed
<1>4. \A p \in Txs : LocksOK(p, tx[p], holder) /\ ReadsOK(tx[p], res) /\ CountOK(tx[p], holds)
  BY <1>1, IdleIsFine
<1>5. LimitsHold
  <2>1. \A g : Of(holds, g) = {} /\ At(holds, g) = {}
    BY <1>1 DEF Of, At
  <2>2. Cardinality({}) = 0
    BY FS_EmptySet
  <2>3. SessionLimit \in Nat /\ IpLimit \in Nat
    BY LockConstants
  <2>4. \A g \in Guests : Cardinality(Of(holds, g)) = 0 /\ Cardinality(At(holds, g)) = 0
    BY <2>1, <2>2, Zenon
  <2>. QED
    BY <2>3, <2>4 DEF LimitsHold
<1>6. ErasedHasNoMessages
  BY <1>1 DEF ErasedHasNoMessages
<1>. QED
  BY <1>3, <1>4, <1>5, <1>6 DEF IInv

LEMMA StutterInv == IInv /\ UNCHANGED vars => IInv'
BY DEF vars, IInv, Typed, LimitsHold, ErasedHasNoMessages

LEMMA NextInv == IInv /\ [Next]_vars => IInv'
<1>. SUFFICES ASSUME IInv, [Next]_vars
              PROVE  IInv'
  OBVIOUS
<1>1. ASSUME NEW p \in Txs, Begin(p) \/ Acquire(p) \/ Victim(p) \/ Go(p)
      PROVE  IInv'
  BY <1>1, BeginInv, AcquireInv, VictimInv, GoInv
<1>. QED
  BY <1>1, HoldLapsesInv, StutterInv DEF Next

-----------------------------------------------------------------------------
(* The order in which a handler takes its locks.                            *)

\* The kinds of locks of a handler, and when each has its turn.
Takes(c) ==
    CASE c = "Hold" -> {"day", "subject"}
      [] c = "Expire" -> {"day"}
      [] c = "Edit" -> {"day", "table", "letters", "planner", "reminders"}
      [] c = "Contact" -> {"day", "config", "letters", "planner", "reminders"}
      [] c = "Cancel" -> {"day", "payment", "letters", "reminders"}
      [] c = "Settle" -> {"day", "command", "payment"}
      [] c = "Erase" -> {"day", "planner", "config", "letters", "reminders"}
      [] c = "Retain" -> {"retention", "day", "planner", "letters", "reminders", "config"}
      [] c = "Plan" -> {"planner", "reminders"}
      [] c = "Reconfigure" -> {"planner", "reminders", "config"}
      [] c = "Optimise" -> {"day", "table"}
      [] c = "Publish" -> {"table"}
      [] OTHER -> {}
Turn(c, kind) ==
    CASE kind = "retention" -> 1
      [] kind = "day" -> 2
      [] kind \in {"table", "subject", "command"} -> 3
      [] kind = "payment" -> 4
      [] kind = "letters" -> 7
      [] kind = "reminders" -> 9
      [] kind = "planner" -> IF c \in {"Edit", "Contact"} THEN 8 ELSE 5
      [] OTHER -> IF c \in {"Contact", "Erase"} THEN 6 ELSE 10

Ahead(c, l, m) == Turn(c, l[1]) < Turn(c, m[1]) \/ (l[1] = m[1] /\ l[2] < m[2])

\* The locks that the handler may take.
OfRows == {"payment", "command", "letters", "reminders"}
Its(t, l) ==
    /\ l[1] \in Takes(t.call)
    /\ t.call \in OnOneRow /\ l[1] \in OfRows => l[2] = t.r
    /\ t.call = "Retain" /\ l[1] = "letters" => l[2] \in t.seen
    /\ t.phase = "days" => l[1] \in {"retention", "day"} \/ (t.call = "Reconfigure" /\ l[1] = "planner")

\* What it is still going to take is in order, and after all that it has.
InOrder(t, s) ==
    /\ \A i \in 1..Len(s) : Its(t, s[i]) /\ s[i] # Retention
    /\ \A i, j \in 1..Len(s) : i < j => Ahead(t.call, s[i], s[j])
OrderOK(p, t, H) ==
    /\ t.phase = "idle" => t.call = "idle"
    /\ InOrder(t, t.todo)
    /\ \A l \in Resources : H[l] = p => Its(t, l) /\ \A i \in 1..Len(t.todo) : Ahead(t.call, l, t.todo[i])
    /\ t.phase = "rows" /\ t.call \in {"Edit", "Contact"} => Covers(p, t, H, Planner)
    /\ t.call = "Reconfigure" => Covers(p, t, H, Planner)

\* The retention holds the days of the reservations that it has read.
SeenOK(t, R) == t.phase = "rows" /\ t.call = "Retain" => \A r \in t.seen : R[r].day \in t.days

OInv ==
    /\ IsFiniteSet({p \in Txs : tx[p] # Idle})
    /\ \A p \in Txs : OrderOK(p, tx[p], holder) /\ SeenOK(tx[p], res)

-----------------------------------------------------------------------------
(* Locks, their kinds and their lists.                                      *)

LEMMA Kinds ==
    /\ \A x : /\ Day(x) = <<"day", x>> /\ Table(x) = <<"table", x>> /\ Subject(x) = <<"subject", x>>
              /\ Payment(x) = <<"payment", x>> /\ Command(x) = <<"command", x>>
              /\ Letters(x) = <<"letters", x>> /\ Reminders(x) = <<"reminders", x>>
    /\ Planner = <<"planner", 0>> /\ Governance = <<"config", 0>> /\ Retention = <<"retention", 0>>
BY DEF Day, Table, Subject, Payment, Command, Letters, Reminders, Planner, Governance, Retention

LEMMA LockIs ==
    ASSUME NEW l \in Resources
    PROVE  /\ l[2] \in Int
           /\ \/ l[1] = "day" /\ l = Day(l[2]) /\ l[2] \in Days
              \/ l[1] = "table" /\ l[2] \in Tables
              \/ l[1] = "subject"
              \/ l[1] \in OfRows /\ l[2] \in Reservations
              \/ l[1] = "planner" /\ l = Planner
              \/ l[1] = "config" /\ l = Governance
              \/ l[1] = "retention" /\ l = Retention
<1>. DEFINE four == UNION {{Payment(r), Command(r), Letters(r), Reminders(r)} : r \in Reservations}
<1>1. \/ \E d \in Days : l = Day(d)
      \/ \E t \in Tables : l = Table(t)
      \/ \E g \in Guests : l = Subject(g.session) \/ l = Subject(g.ip)
      \/ l \in four
      \/ l \in {Planner, Governance, Retention}
  BY DEF Resources
<1>2. ASSUME l \in four
      PROVE  \E r \in Reservations : l \in {Payment(r), Command(r), Letters(r), Reminders(r)}
  BY <1>2
<1>. HIDE DEF four
<1>3. CASE \E d \in Days : l = Day(d)
  BY <1>3, Kinds, LockConstants
<1>4. CASE \E t \in Tables : l = Table(t)
  BY <1>4, Kinds, LockConstants
<1>5. CASE \E g \in Guests : l = Subject(g.session) \/ l = Subject(g.ip)
  BY <1>5, Kinds, LockConstants
<1>6. CASE l \in four
  <2>1. PICK r \in Reservations : l \in {Payment(r), Command(r), Letters(r), Reminders(r)}
    BY <1>2, <1>6
  <2>2. l[1] \in OfRows /\ l[2] = r
    BY <2>1, Kinds DEF OfRows
  <2>. QED
    BY <2>2, LockConstants
<1>7. CASE l \in {Planner, Governance, Retention}
  BY <1>7, Kinds
<1>. QED
  BY <1>1, <1>3, <1>4, <1>5, <1>6, <1>7

Listing(k, S) == [i \in 1..Len(Ordered(S)) |-> <<k, Ordered(S)[i]>>]

LEMMA EachIsListing ==
    \A S : /\ Each(Day, S) = Listing("day", S) /\ Each(Table, S) = Listing("table", S)
           /\ Each(Subject, S) = Listing("subject", S)
           /\ Each(Letters, S) = Listing("letters", S) /\ Each(Reminders, S) = Listing("reminders", S)
BY DEF Each, Listing, Day, Table, Subject, Letters, Reminders

LEMMA ListingFacts ==
    ASSUME NEW S \in SUBSET Int, IsFiniteSet(S), NEW k
    PROVE  /\ Listing(k, S) \in Seq({<<k, x>> : x \in S})
           /\ \A i \in 1..Len(Listing(k, S)) : /\ Listing(k, S)[i][1] = k
                                               /\ Listing(k, S)[i][2] \in S
                                               /\ Listing(k, S)[i] = <<k, Listing(k, S)[i][2]>>
           /\ \A i, j \in 1..Len(Listing(k, S)) : i < j => Listing(k, S)[i][2] < Listing(k, S)[j][2]
<1>. DEFINE q == Ordered(S)
            n == Cardinality(S)
            s == Listing(k, S)
<1>1. /\ q \in [1..n -> S] /\ n \in Nat /\ \A i, j \in 1..n : i < j => q[i] < q[j]
  BY OrderedFacts, Ascends
<1>. HIDE DEF q, n
<1>2. q \in Seq(S) /\ Len(q) = n
  BY <1>1
<1>3. s = [i \in 1..n |-> <<k, q[i]>>]
  BY <1>2 DEF Listing, q
<1>4. s \in Seq({<<k, x>> : x \in S}) /\ Len(s) = n
  BY <1>1, <1>3
<1>5. \A i \in 1..n : s[i] = <<k, q[i]>> /\ s[i][1] = k /\ s[i][2] = q[i] /\ q[i] \in S
  BY <1>1, <1>3
<1>. QED
  BY <1>1, <1>4, <1>5

LEMMA ListingInOrder ==
    ASSUME NEW S \in SUBSET Int, IsFiniteSet(S), NEW k, NEW t, k # "retention",
           \A x \in S : Its(t, <<k, x>>)
    PROVE  InOrder(t, Listing(k, S))
<1>. DEFINE s == Listing(k, S)
<1>1. /\ \A i \in 1..Len(s) : /\ s[i][1] = k
                               /\ s[i][2] \in S
                               /\ s[i] = <<k, s[i][2]>>
      /\ \A i, j \in 1..Len(s) : i < j => s[i][2] < s[j][2]
  BY ListingFacts, ZenonT(60)
<1>. HIDE DEF s
<1>2. \A i \in 1..Len(s) : Its(t, s[i]) /\ s[i] # Retention
  <2>. TAKE i \in 1..Len(s)
  <2>1. s[i][1] = k /\ s[i][2] \in S /\ s[i] = <<k, s[i][2]>>
    BY <1>1
  <2>2. Its(t, <<k, s[i][2]>>)
    BY <2>1
  <2>3. Retention[1] = "retention"
    BY Kinds
  <2>. QED
    BY <2>1, <2>2, <2>3, Zenon
<1>3. \A i, j \in 1..Len(s) : i < j => Ahead(t.call, s[i], s[j])
  BY <1>1 DEF Ahead
<1>. QED
  BY <1>2, <1>3 DEF InOrder, s

LEMMA Concat ==
    ASSUME NEW t, NEW s \in Seq(Resources), NEW u \in Seq(Resources), InOrder(t, s), InOrder(t, u),
           \A i \in 1..Len(s), j \in 1..Len(u) : Ahead(t.call, s[i], u[j])
    PROVE  InOrder(t, s \o u)
<1>. DEFINE w == s \o u
<1>1. /\ Len(s) \in Nat /\ Len(u) \in Nat /\ Len(w) = Len(s) + Len(u)
      /\ \A i \in 1..Len(w) : w[i] = IF i <= Len(s) THEN s[i] ELSE u[i - Len(s)]
  OBVIOUS
<1>2. \A i \in 1..Len(w) : \/ i \in 1..Len(s) /\ w[i] = s[i]
                           \/ i > Len(s) /\ i - Len(s) \in 1..Len(u) /\ w[i] = u[i - Len(s)]
  BY <1>1
<1>. HIDE DEF w
<1>3. \A i \in 1..Len(w) : Its(t, w[i]) /\ w[i] # Retention
  BY <1>2 DEF InOrder
<1>4. ASSUME NEW i \in 1..Len(w), NEW j \in 1..Len(w), i < j
      PROVE  Ahead(t.call, w[i], w[j])
  <2>1. CASE i \in 1..Len(s) /\ w[i] = s[i] /\ j \in 1..Len(s) /\ w[j] = s[j]
    BY <1>4, <2>1 DEF InOrder
  <2>2. CASE /\ i \in 1..Len(s) /\ w[i] = s[i]
             /\ j > Len(s) /\ j - Len(s) \in 1..Len(u) /\ w[j] = u[j - Len(s)]
    BY <2>2
  <2>3. CASE /\ i > Len(s) /\ i - Len(s) \in 1..Len(u) /\ w[i] = u[i - Len(s)]
             /\ j > Len(s) /\ j - Len(s) \in 1..Len(u) /\ w[j] = u[j - Len(s)]
    <3>1. i - Len(s) < j - Len(s)
      BY <1>1, <1>4
    <3>. QED
      BY <2>3, <3>1 DEF InOrder
  <2>. QED
    BY <1>1, <1>2, <1>4, <2>1, <2>2, <2>3
<1>. QED
  BY <1>3, <1>4 DEF InOrder, w

-----------------------------------------------------------------------------
(* The rows of a handler are in order, after its days.                      *)

LEMMA TakesOf ==
    /\ Takes("Hold") = {"day", "subject"} /\ Takes("Expire") = {"day"}
    /\ Takes("Edit") = {"day", "table", "letters", "planner", "reminders"}
    /\ Takes("Contact") = {"day", "config", "letters", "planner", "reminders"}
    /\ Takes("Cancel") = {"day", "payment", "letters", "reminders"}
    /\ Takes("Settle") = {"day", "command", "payment"}
    /\ Takes("Erase") = {"day", "planner", "config", "letters", "reminders"}
    /\ Takes("Retain") = {"retention", "day", "planner", "letters", "reminders", "config"}
    /\ Takes("Plan") = {"planner", "reminders"}
    /\ Takes("Reconfigure") = {"planner", "reminders", "config"}
    /\ Takes("Optimise") = {"day", "table"} /\ Takes("Publish") = {"table"}
    /\ Takes("idle") = {}
BY DEF Takes

LEMMA TurnOf ==
    \A c : /\ Turn(c, "retention") = 1 /\ Turn(c, "day") = 2
           /\ Turn(c, "table") = 3 /\ Turn(c, "subject") = 3 /\ Turn(c, "command") = 3
           /\ Turn(c, "payment") = 4 /\ Turn(c, "letters") = 7 /\ Turn(c, "reminders") = 9
           /\ c \in {"Edit", "Contact"} => Turn(c, "planner") = 8
           /\ c \notin {"Edit", "Contact"} => Turn(c, "planner") = 5
           /\ c \in {"Contact", "Erase"} => Turn(c, "config") = 6
           /\ c \notin {"Contact", "Erase"} => Turn(c, "config") = 10
BY DEF Turn

LEMMA FiniteRows ==
    \A S : S \subseteq Days \/ S \subseteq Tables \/ S \subseteq Reservations
             => S \in SUBSET Int /\ IsFiniteSet(S)
BY LockConstants

\* What follows when a list is that of the rows of a handler.
RowsOK(t, s) ==
    /\ InOrder(t, s)
    /\ \A i \in 1..Len(s) : /\ s[i][1] \notin {"day", "retention"}
                            /\ t.call = "Reconfigure" => s[i][1] # "planner"
    /\ t.call \in {"Edit", "Contact"} => \E i \in 1..Len(s) : s[i] = Planner

LEMMA SubjectRows ==
    ASSUME NEW t, t.call = "Hold", t.phase = "rows", NEW g \in Guests
    PROVE  RowsOK(t, Each(Subject, SubjectsOf(g)))
<1>. DEFINE S == SubjectsOf(g)
            s == Listing("subject", S)
<1>1. S \in SUBSET Int /\ IsFiniteSet(S)
  <2>1. S = {g.session} \cup {g.ip}
    BY DEF SubjectsOf
  <2>2. IsFiniteSet({g.session} \cup {g.ip})
    BY PairIsFinite
  <2>. QED
    BY <2>1, <2>2, LockConstants
<1>. HIDE DEF S
<1>2. \A x \in S : Its(t, <<"subject", x>>)
  BY TakesOf DEF Its, OnOneRow, OfRows
<1>3. InOrder(t, s)
  BY <1>1, <1>2, ListingInOrder
<1>4. \A i \in 1..Len(s) : s[i][1] = "subject"
  BY <1>1, ListingFacts
<1>. HIDE DEF s
<1>5. RowsOK(t, s)
  BY <1>3, <1>4 DEF RowsOK
<1>. QED
  BY <1>5, EachIsListing DEF S, s

LEMMA TableRows ==
    ASSUME NEW t, t.call \in {"Edit", "Optimise", "Publish"}, t.phase = "rows", NEW S \in SUBSET Tables
    PROVE  /\ InOrder(t, Each(Table, S)) /\ Each(Table, S) \in Seq(Resources)
           /\ \A i \in 1..Len(Each(Table, S)) : Each(Table, S)[i][1] = "table"
<1>. DEFINE s == Listing("table", S)
<1>1. S \in SUBSET Int /\ IsFiniteSet(S)
  BY FiniteRows
<1>2. \A x \in S : Its(t, <<"table", x>>)
  BY TakesOf DEF Its, OnOneRow, OfRows
<1>3. InOrder(t, s)
  BY <1>1, <1>2, ListingInOrder
<1>4. \A i \in 1..Len(s) : s[i][1] = "table"
  BY <1>1, ListingFacts
<1>. HIDE DEF s
<1>. QED
  BY <1>3, <1>4, EachIsListing, EachTable DEF s

LEMMA ReminderRows ==
    ASSUME NEW t, t.call \in {"Retain", "Plan", "Reconfigure"}, t.phase = "rows",
           NEW S \in SUBSET Reservations
    PROVE  /\ InOrder(t, Each(Reminders, S)) /\ Each(Reminders, S) \in Seq(Resources)
           /\ \A i \in 1..Len(Each(Reminders, S)) : Each(Reminders, S)[i][1] = "reminders"
<1>. DEFINE s == Listing("reminders", S)
<1>1. S \in SUBSET Int /\ IsFiniteSet(S)
  BY FiniteRows
<1>2. \A x \in S : Its(t, <<"reminders", x>>)
  BY TakesOf DEF Its, OnOneRow, OfRows
<1>3. InOrder(t, s)
  BY <1>1, <1>2, ListingInOrder
<1>4. \A i \in 1..Len(s) : s[i][1] = "reminders"
  BY <1>1, ListingFacts
<1>. HIDE DEF s
<1>. QED
  BY <1>3, <1>4, EachIsListing, EachRow DEF s

LEMMA LetterRows ==
    ASSUME NEW t, t.call = "Retain", t.phase = "rows", t.seen \in SUBSET Reservations
    PROVE  /\ InOrder(t, Each(Letters, t.seen)) /\ Each(Letters, t.seen) \in Seq(Resources)
           /\ \A i \in 1..Len(Each(Letters, t.seen)) : Each(Letters, t.seen)[i][1] = "letters"
<1>. DEFINE S == t.seen
            s == Listing("letters", S)
<1>1. S \in SUBSET Int /\ IsFiniteSet(S)
  BY FiniteRows
<1>2. \A x \in S : Its(t, <<"letters", x>>)
  BY TakesOf DEF Its, OnOneRow, OfRows
<1>. HIDE DEF S
<1>3. InOrder(t, s)
  BY <1>1, <1>2, ListingInOrder
<1>4. \A i \in 1..Len(s) : s[i][1] = "letters"
  BY <1>1, ListingFacts
<1>. HIDE DEF s
<1>5. InOrder(t, Each(Letters, S)) /\ \A i \in 1..Len(Each(Letters, S)) : Each(Letters, S)[i][1] = "letters"
  BY <1>3, <1>4, EachIsListing DEF s
<1>. QED
  BY <1>5, EachRow DEF S

\* Lists of one row.
LEMMA OneLock ==
    ASSUME NEW t, NEW l, Its(t, l), l # Retention
    PROVE  InOrder(t, <<l>>)
<1>1. Len(<<l>>) = 1 /\ <<l>>[1] = l
  OBVIOUS
<1>2. \A i \in 1..Len(<<l>>) : i = 1
  BY <1>1
<1>3. \A i, j \in 1..Len(<<l>>) : ~(i < j)
  BY <1>2
<1>4. \A i \in 1..Len(<<l>>) : <<l>>[i] = l
  BY <1>1, <1>2
<1>. QED
  BY <1>3, <1>4 DEF InOrder

LEMMA ThreeLocks ==
    ASSUME NEW t, NEW a, NEW b, NEW c,
           \A l \in {a, b, c} : Its(t, l) /\ l # Retention,
           Ahead(t.call, a, b), Ahead(t.call, b, c), Ahead(t.call, a, c)
    PROVE  InOrder(t, <<a, b, c>>)
<1>. DEFINE s == <<a, b, c>>
<1>1. Len(s) = 3 /\ s[1] = a /\ s[2] = b /\ s[3] = c
  OBVIOUS
<1>. HIDE DEF s
<1>2. \A i \in 1..Len(s) : i \in {1, 2, 3}
  BY <1>1
<1>3. \A i \in 1..Len(s) : Its(t, s[i]) /\ s[i] # Retention
  BY <1>1, <1>2
<1>4. \A i, j \in 1..Len(s) : i < j => Ahead(t.call, s[i], s[j])
  <2>. SUFFICES ASSUME NEW i \in 1..Len(s), NEW j \in 1..Len(s), i < j
                PROVE  Ahead(t.call, s[i], s[j])
    OBVIOUS
  <2>1. (i = 1 /\ j = 2) \/ (i = 2 /\ j = 3) \/ (i = 1 /\ j = 3)
    BY <1>2
  <2>. QED
    BY <1>1, <2>1
<1>. QED
  BY <1>3, <1>4 DEF InOrder, s

LEMMA FourLocks ==
    ASSUME NEW t, NEW a \in Resources, NEW b \in Resources, NEW c \in Resources, NEW d \in Resources,
           \A l \in {a, b, c, d} : Its(t, l) /\ l # Retention,
           Ahead(t.call, a, b), Ahead(t.call, b, c), Ahead(t.call, a, c),
           Ahead(t.call, a, d), Ahead(t.call, b, d), Ahead(t.call, c, d)
    PROVE  InOrder(t, <<a, b, c, d>>)
<1>. DEFINE s == <<a, b, c, d>>
<1>1. Len(s) = 4 /\ s[1] = a /\ s[2] = b /\ s[3] = c /\ s[4] = d
  OBVIOUS
<1>. HIDE DEF s
<1>2. \A i \in 1..Len(s) : i \in {1, 2, 3, 4}
  BY <1>1
<1>3. \A i \in 1..Len(s) : Its(t, s[i]) /\ s[i] # Retention
  BY <1>1, <1>2
<1>4. \A i, j \in 1..Len(s) : i < j => Ahead(t.call, s[i], s[j])
  <2>. SUFFICES ASSUME NEW i \in 1..Len(s), NEW j \in 1..Len(s), i < j
                PROVE  Ahead(t.call, s[i], s[j])
    OBVIOUS
  <2>1. \/ (i = 1 /\ j = 2) \/ (i = 2 /\ j = 3) \/ (i = 1 /\ j = 3)
        \/ (i = 1 /\ j = 4) \/ (i = 2 /\ j = 4) \/ (i = 3 /\ j = 4)
    BY <1>2
  <2>. QED
    BY <1>1, <2>1
<1>. QED
  BY <1>3, <1>4 DEF InOrder, s

\* Lists of kinds that have their turn one after the other.
Before(t, s, u) ==
    \A i \in 1..Len(s), j \in 1..Len(u) : Turn(t.call, s[i][1]) < Turn(t.call, u[j][1])
From(w, s, u) ==
    \A i \in 1..Len(w) : (\E j \in 1..Len(s) : w[i] = s[j]) \/ (\E j \in 1..Len(u) : w[i] = u[j])
Within(w, u) == \A i \in 1..Len(u) : \E j \in 1..Len(w) : w[j] = u[i]

LEMMA InTurn ==
    ASSUME NEW t, NEW s \in Seq(Resources), NEW u \in Seq(Resources), InOrder(t, s), InOrder(t, u),
           Before(t, s, u)
    PROVE  /\ InOrder(t, s \o u) /\ s \o u \in Seq(Resources)
           /\ From(s \o u, s, u) /\ Within(s \o u, u)
<1>. DEFINE w == s \o u
<1>1. /\ Len(s) \in Nat /\ Len(u) \in Nat /\ Len(w) = Len(s) + Len(u) /\ w \in Seq(Resources)
      /\ \A i \in 1..Len(w) : w[i] = IF i <= Len(s) THEN s[i] ELSE u[i - Len(s)]
  OBVIOUS
<1>2. \A i \in 1..Len(s), j \in 1..Len(u) : Ahead(t.call, s[i], u[j])
  BY DEF Ahead, Before
<1>3. InOrder(t, w)
  BY <1>2, Concat
<1>. HIDE DEF w
<1>4. \A i \in 1..Len(w) : \/ \E j \in 1..Len(s) : w[i] = s[j]
                           \/ \E j \in 1..Len(u) : w[i] = u[j]
  <2>1. \A i \in 1..Len(w) : \/ i \in 1..Len(s) /\ w[i] = s[i]
                             \/ i - Len(s) \in 1..Len(u) /\ w[i] = u[i - Len(s)]
    BY <1>1
  <2>. QED
    BY <2>1
<1>5. ASSUME NEW i \in 1..Len(u)
      PROVE  \E j \in 1..Len(w) : w[j] = u[i]
  <2>1. Len(s) + i \in 1..Len(w) /\ ~(Len(s) + i <= Len(s)) /\ (Len(s) + i) - Len(s) = i
    BY <1>1
  <2>2. w[Len(s) + i] = u[i]
    BY <1>1, <2>1
  <2>. QED
    BY <2>1, <2>2
<1>. QED
  BY <1>1, <1>3, <1>4, <1>5 DEF w, From, Within

\* The rows that a handler of one reservation may take, and those that anyone may.
LEMMA RowLocks ==
    ASSUME NEW t, t.phase = "rows"
    PROVE  /\ \A l : /\ t.call \in OnOneRow /\ l[1] \in Takes(t.call) /\ l[2] = t.r => Its(t, l)
                     /\ l[1] \in Takes(t.call) /\ l[1] \notin OfRows => Its(t, l)
           /\ \A x : /\ Letters(x)[1] = "letters" /\ Letters(x)[2] = x
                     /\ Reminders(x)[1] = "reminders" /\ Reminders(x)[2] = x
                     /\ Payment(x)[1] = "payment" /\ Payment(x)[2] = x
                     /\ Command(x)[1] = "command" /\ Command(x)[2] = x
           /\ Planner[1] = "planner" /\ Governance[1] = "config" /\ Retention[1] = "retention"
<1>1. ASSUME NEW l, t.call \in OnOneRow, l[1] \in Takes(t.call), l[2] = t.r
      PROVE  Its(t, l)
  BY <1>1 DEF Its, OnOneRow
<1>2. ASSUME NEW l, l[1] \in Takes(t.call), l[1] \notin OfRows
      PROVE  Its(t, l)
  BY <1>2 DEF Its, OfRows
<1>. QED
  BY <1>1, <1>2, Kinds

LEMMA RowsInOrder ==
    ASSUME NEW t \in TxRows, t.phase = "rows", world \in Worlds,
           t.call = "Hold" => t.guest \in Guests,
           t.call \in OnOneRow => t.r \in Reservations
    PROVE  RowsOK(t, RowsAfterDays(t))
<1>. DEFINE q == RowsAfterDays(t)
<1>1. /\ t.call \in Calls \cup {"idle"} /\ t.seen \in SUBSET Reservations
      /\ t.tables \in SUBSET Tables /\ world.rows \in SUBSET Reservations
  BY LockConstants DEF TxRows
<1>2. CASE t.call = "Hold"
  BY <1>2, SubjectRows DEF RowsAfterDays
<1>3. /\ \A l : /\ t.call \in OnOneRow /\ l[1] \in Takes(t.call) /\ l[2] = t.r => Its(t, l)
                /\ l[1] \in Takes(t.call) /\ l[1] \notin OfRows => Its(t, l)
      /\ \A x : /\ Letters(x)[1] = "letters" /\ Letters(x)[2] = x
                /\ Reminders(x)[1] = "reminders" /\ Reminders(x)[2] = x
                /\ Payment(x)[1] = "payment" /\ Payment(x)[2] = x
                /\ Command(x)[1] = "command" /\ Command(x)[2] = x
      /\ Planner[1] = "planner" /\ Governance[1] = "config" /\ Retention[1] = "retention"
  BY RowLocks
<1>4. ASSUME t.call \in OnOneRow
      PROVE  /\ Letters(t.r) \in Resources /\ Planner \in Resources /\ Reminders(t.r) \in Resources
             /\ Governance \in Resources /\ Payment(t.r) \in Resources /\ Command(t.r) \in Resources
  BY <1>4, LocksAreResources
<1>5. CASE t.call = "Edit"
  <2>. DEFINE a == Each(Table, t.tables)
              b == <<Letters(t.r), Planner, Reminders(t.r)>>
  <2>1. /\ InOrder(t, a) /\ a \in Seq(Resources)
        /\ \A i \in 1..Len(a) : a[i][1] = "table"
    BY <1>1, <1>5, TableRows
  <2>2. b \in Seq(Resources) /\ Len(b) = 3 /\ b[1] = Letters(t.r) /\ b[2] = Planner /\ b[3] = Reminders(t.r)
    BY <1>4, <1>5 DEF OnOneRow
  <2>3. InOrder(t, b)
    <3>1. \A l \in {Letters(t.r), Planner, Reminders(t.r)} : Its(t, l) /\ l # Retention
      BY <1>3, <1>5, TakesOf DEF OnOneRow, OfRows
    <3>2. /\ Ahead(t.call, Letters(t.r), Planner) /\ Ahead(t.call, Planner, Reminders(t.r))
          /\ Ahead(t.call, Letters(t.r), Reminders(t.r))
      BY <1>3, <1>5, TurnOf DEF Ahead
    <3>. QED
      BY <3>1, <3>2, ThreeLocks
  <2>4. q = a \o b
    BY <1>5 DEF RowsAfterDays
  <2>. HIDE DEF a, b, q
  <2>5. \A j \in 1..Len(b) : j \in {1, 2, 3}
    BY <2>2
  <2>6. \A j \in 1..Len(b) : b[j][1] \in {"letters", "planner", "reminders"}
    BY <1>3, <2>2, <2>5
  <2>7. /\ InOrder(t, q)
        /\ From(q, a, b) /\ Within(q, b)
    <3>1. Before(t, a, b)
      BY <1>5, <2>1, <2>6, TurnOf DEF Before
    <3>. QED
      BY <2>1, <2>2, <2>3, <2>4, <3>1, InTurn
  <2>8. \E j \in 1..Len(q) : q[j] = Planner
    <3>1. 2 \in 1..Len(b)
      BY <2>2
    <3>. QED
      BY <2>2, <2>7, <3>1 DEF Within
  <2>9. \A i \in 1..Len(q) : q[i][1] \notin {"day", "retention"}
    BY <2>1, <2>6, <2>7 DEF From
  <2>. QED
    BY <1>5, <2>7, <2>8, <2>9 DEF RowsOK, q
<1>6. CASE t.call = "Contact"
  <2>. DEFINE b == <<Governance, Letters(t.r), Planner, Reminders(t.r)>>
  <2>1. Len(b) = 4 /\ b[1] = Governance /\ b[2] = Letters(t.r) /\ b[3] = Planner /\ b[4] = Reminders(t.r)
    OBVIOUS
  <2>2. \A l \in {Governance, Letters(t.r), Planner, Reminders(t.r)} : Its(t, l) /\ l # Retention
    BY <1>3, <1>6, TakesOf DEF OnOneRow, OfRows
  <2>3. /\ Ahead(t.call, Governance, Letters(t.r)) /\ Ahead(t.call, Governance, Planner)
        /\ Ahead(t.call, Governance, Reminders(t.r))
        /\ Ahead(t.call, Letters(t.r), Planner) /\ Ahead(t.call, Planner, Reminders(t.r))
        /\ Ahead(t.call, Letters(t.r), Reminders(t.r))
    BY <1>3, <1>6, TurnOf DEF Ahead
  <2>4. InOrder(t, b)
    BY <1>4, <1>6, <2>2, <2>3, FourLocks DEF OnOneRow
  <2>5. q = b
    BY <1>6 DEF RowsAfterDays
  <2>. HIDE DEF b
  <2>6. \A i \in 1..Len(b) : i \in {1, 2, 3, 4}
    BY <2>1
  <2>7. \A i \in 1..Len(b) : b[i][1] \notin {"day", "retention"}
    BY <1>3, <2>1, <2>6
  <2>8. 3 \in 1..Len(b)
    BY <2>1
  <2>. QED
    BY <1>6, <2>1, <2>4, <2>5, <2>7, <2>8 DEF RowsOK
<1>7. CASE t.call = "Cancel"
  <2>. DEFINE b == <<Payment(t.r), Letters(t.r), Reminders(t.r)>>
  <2>1. Len(b) = 3 /\ b[1] = Payment(t.r) /\ b[2] = Letters(t.r) /\ b[3] = Reminders(t.r)
    OBVIOUS
  <2>2. \A l \in {Payment(t.r), Letters(t.r), Reminders(t.r)} : Its(t, l) /\ l # Retention
    BY <1>3, <1>7, TakesOf DEF OnOneRow, OfRows
  <2>3. /\ Ahead(t.call, Payment(t.r), Letters(t.r)) /\ Ahead(t.call, Letters(t.r), Reminders(t.r))
        /\ Ahead(t.call, Payment(t.r), Reminders(t.r))
    BY <1>3, <1>7, TurnOf DEF Ahead
  <2>4. InOrder(t, b)
    BY <2>2, <2>3, ThreeLocks
  <2>5. q = b
    BY <1>7 DEF RowsAfterDays
  <2>. HIDE DEF b
  <2>6. \A i \in 1..Len(b) : i \in {1, 2, 3}
    BY <2>1
  <2>7. \A i \in 1..Len(b) : b[i][1] \notin {"day", "retention"}
    BY <1>3, <2>1, <2>6
  <2>. QED
    BY <1>7, <2>4, <2>5, <2>7 DEF RowsOK
<1>8. CASE t.call = "Settle"
  <2>. DEFINE a == <<Command(t.r)>>
              b == <<Payment(t.r)>>
  <2>1. a \in Seq(Resources) /\ b \in Seq(Resources)
    BY <1>4, <1>8 DEF OnOneRow
  <2>2. /\ Len(a) = 1 /\ a[1] = Command(t.r) /\ Len(b) = 1 /\ b[1] = Payment(t.r)
        /\ Len(q) = 2 /\ q[1] = Command(t.r) /\ q[2] = Payment(t.r) /\ q = a \o b
    BY <1>8 DEF RowsAfterDays
  <2>3. \A l \in {Command(t.r), Payment(t.r)} : Its(t, l) /\ l # Retention
    BY <1>3, <1>8, TakesOf DEF OnOneRow, OfRows
  <2>4. InOrder(t, a) /\ InOrder(t, b)
    BY <2>3, OneLock
  <2>5. Ahead(t.call, Command(t.r), Payment(t.r))
    BY <1>3, <1>8, TurnOf DEF Ahead
  <2>. HIDE DEF a, b, q
  <2>6. \A i \in 1..Len(a), j \in 1..Len(b) : Ahead(t.call, a[i], b[j])
    <3>1. \A i \in 1..Len(a) : i = 1
      BY <2>2
    <3>2. \A i \in 1..Len(b) : i = 1
      BY <2>2
    <3>. QED
      BY <2>2, <2>5, <3>1, <3>2
  <2>7. InOrder(t, q)
    BY <2>1, <2>2, <2>4, <2>6, Concat
  <2>8. \A i \in 1..Len(q) : q[i][1] \notin {"day", "retention"}
    <3>1. \A i \in 1..Len(q) : i \in {1, 2}
      BY <2>2
    <3>. QED
      BY <1>3, <2>2, <3>1
  <2>. QED
    BY <1>8, <2>7, <2>8 DEF RowsOK, q
<1>9. CASE t.call = "Erase"
  <2>. DEFINE b == <<Planner, Governance, Letters(t.r), Reminders(t.r)>>
  <2>1. Len(b) = 4 /\ b[1] = Planner /\ b[2] = Governance /\ b[3] = Letters(t.r) /\ b[4] = Reminders(t.r)
    OBVIOUS
  <2>2. \A l \in {Planner, Governance, Letters(t.r), Reminders(t.r)} : Its(t, l) /\ l # Retention
    BY <1>3, <1>9, TakesOf DEF OnOneRow, OfRows
  <2>3. /\ Ahead(t.call, Planner, Governance) /\ Ahead(t.call, Governance, Letters(t.r))
        /\ Ahead(t.call, Planner, Letters(t.r)) /\ Ahead(t.call, Planner, Reminders(t.r))
        /\ Ahead(t.call, Governance, Reminders(t.r)) /\ Ahead(t.call, Letters(t.r), Reminders(t.r))
    BY <1>3, <1>9, TurnOf DEF Ahead
  <2>4. InOrder(t, b)
    BY <1>4, <1>9, <2>2, <2>3, FourLocks DEF OnOneRow
  <2>5. q = b
    BY <1>9 DEF RowsAfterDays, ErasureRows
  <2>. HIDE DEF b
  <2>6. \A i \in 1..Len(b) : i \in {1, 2, 3, 4}
    BY <2>1
  <2>7. \A i \in 1..Len(b) : b[i][1] \notin {"day", "retention"}
    BY <1>3, <2>1, <2>6
  <2>. QED
    BY <1>9, <2>4, <2>5, <2>7 DEF RowsOK
<1>10. CASE t.call = "Retain"
  <2>. DEFINE a == <<Planner>>
              b == Each(Letters, t.seen)
              c == Each(Reminders, t.seen)
              d == IF t.seen = {} THEN <<>> ELSE <<Governance>>
              Kind(s, k) == \A i \in 1..Len(s) : s[i][1] = k
  <2>1. /\ InOrder(t, b) /\ b \in Seq(Resources) /\ Kind(b, "letters")
        /\ InOrder(t, c) /\ c \in Seq(Resources) /\ Kind(c, "reminders")
    BY <1>1, <1>10, LetterRows, ReminderRows
  <2>2. InOrder(t, a) /\ a \in Seq(Resources) /\ Kind(a, "planner")
    <3>1. Its(t, Planner) /\ Planner # Retention
      BY <1>3, <1>10, TakesOf DEF OfRows
    <3>2. a \in Seq(Resources) /\ Len(a) = 1 /\ a[1] = Planner
      BY LocksAreResources
    <3>. QED
      BY <1>3, <3>1, <3>2, OneLock
  <2>3. InOrder(t, d) /\ d \in Seq(Resources) /\ Kind(d, "config")
    <3>1. Its(t, Governance) /\ Governance # Retention
      BY <1>3, <1>10, TakesOf DEF OfRows
    <3>2. CASE t.seen = {}
      <4>1. d = <<>>
        BY <3>2
      <4>2. Len(d) = 0 /\ d \in Seq(Resources)
        BY <4>1
      <4>. QED
        BY <4>2 DEF InOrder
    <3>3. CASE t.seen # {}
      <4>1. d = <<Governance>>
        BY <3>3
      <4>2. d \in Seq(Resources) /\ Len(d) = 1 /\ d[1] = Governance
        BY <4>1, LocksAreResources
      <4>. QED
        BY <1>3, <3>1, <4>1, <4>2, OneLock
    <3>. QED
      BY <3>2, <3>3
  <2>4. q = ((a \o b) \o c) \o d
    BY <1>10 DEF RowsAfterDays
  <2>. DEFINE e == a \o b
              f == e \o c
  <2>. HIDE DEF a, b, c, d, q
  <2>5. /\ e \in Seq(Resources) /\ InOrder(t, e)
        /\ From(e, a, b)
    <3>1. Before(t, a, b)
      BY <1>10, <2>1, <2>2, TurnOf DEF Before
    <3>. QED
      BY <2>1, <2>2, <3>1, InTurn
  <2>. HIDE DEF e
  <2>6. \A i \in 1..Len(e) : e[i][1] \in {"planner", "letters"}
    BY <2>1, <2>2, <2>5 DEF From
  <2>7. /\ f \in Seq(Resources) /\ InOrder(t, f)
        /\ From(f, e, c)
    <3>1. Before(t, e, c)
      BY <1>10, <2>1, <2>6, TurnOf DEF Before
    <3>. QED
      BY <2>1, <2>5, <3>1, InTurn
  <2>8. q = f \o d
    BY <2>4 DEF e
  <2>. HIDE DEF f
  <2>9. \A i \in 1..Len(f) : f[i][1] \in {"planner", "letters", "reminders"}
    BY <2>1, <2>6, <2>7 DEF From
  <2>10. /\ InOrder(t, q)
         /\ From(q, f, d)
    <3>1. Before(t, f, d)
      BY <1>10, <2>3, <2>9, TurnOf DEF Before
    <3>. QED
      BY <2>3, <2>7, <2>8, <3>1, InTurn
  <2>11. \A i \in 1..Len(q) : q[i][1] \in {"planner", "letters", "reminders", "config"}
    BY <2>3, <2>9, <2>10 DEF From
  <2>. QED
    BY <1>10, <2>10, <2>11 DEF RowsOK, q
<1>11. CASE t.call = "Plan"
  <2>1. q = Each(Reminders, t.seen)
    BY <1>11 DEF RowsAfterDays
  <2>2. InOrder(t, q) /\ \A i \in 1..Len(q) : q[i][1] = "reminders"
    BY <1>1, <1>11, <2>1, ReminderRows
  <2>. QED
    BY <1>11, <2>2 DEF RowsOK
<1>12. CASE t.call = "Reconfigure"
  <2>. DEFINE a == Each(Reminders, world.rows)
              b == <<Governance>>
  <2>1. InOrder(t, a) /\ a \in Seq(Resources) /\ \A i \in 1..Len(a) : a[i][1] = "reminders"
    BY <1>1, <1>12, ReminderRows
  <2>2. InOrder(t, b) /\ b \in Seq(Resources) /\ \A i \in 1..Len(b) : b[i][1] = "config"
    <3>1. Its(t, Governance) /\ Governance # Retention
      BY <1>3, <1>12, TakesOf DEF OfRows
    <3>2. b \in Seq(Resources) /\ Len(b) = 1 /\ b[1] = Governance
      BY LocksAreResources
    <3>. QED
      BY <1>3, <3>1, <3>2, OneLock
  <2>3. q = a \o b
    BY <1>12 DEF RowsAfterDays
  <2>. HIDE DEF a, b, q
  <2>4. /\ InOrder(t, q)
        /\ From(q, a, b)
    <3>1. Before(t, a, b)
      BY <1>12, <2>1, <2>2, TurnOf DEF Before
    <3>. QED
      BY <2>1, <2>2, <2>3, <3>1, InTurn
  <2>5. \A i \in 1..Len(q) : q[i][1] \in {"reminders", "config"}
    BY <2>1, <2>2, <2>4 DEF From
  <2>. QED
    BY <1>12, <2>4, <2>5 DEF RowsOK, q
<1>13. CASE t.call \in {"Optimise", "Publish"}
  <2>. DEFINE S == IF t.call = "Optimise" THEN Tables ELSE t.tables
  <2>1. q = Each(Table, S)
    BY <1>13 DEF RowsAfterDays, AllTables
  <2>2. S \in SUBSET Tables
    BY <1>1
  <2>. HIDE DEF S
  <2>3. InOrder(t, q) /\ \A i \in 1..Len(q) : q[i][1] = "table"
    BY <1>13, <2>1, <2>2, TableRows
  <2>. QED
    BY <1>13, <2>3 DEF RowsOK
<1>14. CASE t.call \in {"Expire", "idle"}
  <2>1. q = <<>>
    BY <1>14 DEF RowsAfterDays
  <2>2. Len(q) = 0
    BY <2>1
  <2>. QED
    BY <1>14, <2>2 DEF RowsOK, InOrder
<1>. QED
  BY <1>1, <1>2, <1>5, <1>6, <1>7, <1>8, <1>9, <1>10, <1>11, <1>12, <1>13, <1>14 DEF Calls

-----------------------------------------------------------------------------
(* The order is kept.                                                       *)

LEMMA OrderStep ==
    ASSUME IInv, OInv, NEW p \in Txs, NEW t, tx' = [tx EXCEPT ![p] = t],
           \A q \in Txs \ {p} : \A l \in Resources : holder'[l] = q <=> holder[l] = q,
           OrderOK(p, t, holder'), SeenOK(t, res'), \A q \in Txs \ {p} : SeenOK(tx[q], res')
    PROVE  OInv'
<1>1. tx'[p] = t /\ \A q \in Txs \ {p} : tx'[q] = tx[q]
  BY SessionFacts
<1>2. IsFiniteSet({q \in Txs : tx'[q] # Idle})
  <2>. DEFINE A == {q \in Txs : tx[q] # Idle}
  <2>1. IsFiniteSet(A)
    BY DEF OInv
  <2>2. IsFiniteSet(A \cup {p})
    BY <2>1, FS_AddElement
  <2>3. {q \in Txs : tx'[q] # Idle} \in SUBSET (A \cup {p})
    BY <1>1
  <2>. QED
    BY <2>2, <2>3, FS_Subset
<1>3. ASSUME NEW q \in Txs \ {p}
      PROVE  OrderOK(q, tx[q], holder')
  <2>1. OrderOK(q, tx[q], holder)
    BY DEF OInv
  <2>2. Planner \in Resources
    BY LocksAreResources
  <2>. QED
    BY <2>1, <2>2 DEF OrderOK, Covers
<1>. QED
  BY <1>1, <1>2, <1>3 DEF OInv

LEMMA IdleOrder ==
    ASSUME NEW p, NEW H, \A l \in Resources : H[l] # p
    PROVE  OrderOK(p, Idle, H) /\ \A R : SeenOK(Idle, R)
<1>1. Idle.call = "idle" /\ Idle.phase = "idle" /\ Idle.todo = <<>>
  BY DEF Idle
<1>2. Len(Idle.todo) = 0
  BY <1>1
<1>3. InOrder(Idle, Idle.todo)
  BY <1>2 DEF InOrder
<1>. QED
  BY <1>1, <1>3 DEF OrderOK, SeenOK

LEMMA OrderFacts ==
    ASSUME OInv, NEW p \in Txs
    PROVE  /\ OrderOK(p, tx[p], holder) /\ SeenOK(tx[p], res)
           /\ \A l \in Resources : holder[l] = p => /\ Its(tx[p], l)
                                                    /\ l[1] \in Takes(tx[p].call)
                                                    /\ tx[p] # Idle
<1>1. OrderOK(p, tx[p], holder) /\ SeenOK(tx[p], res)
  BY DEF OInv
<1>2. \A l \in Resources : holder[l] = p => Its(tx[p], l) /\ l[1] \in Takes(tx[p].call)
  BY <1>1 DEF OrderOK, Its
<1>3. tx[p] = Idle => Takes(tx[p].call) = {}
  BY IdleIsFine, TakesOf
<1>. QED
  BY <1>1, <1>2, <1>3

LEMMA DayList ==
    ASSUME NEW S \in SUBSET Int, IsFiniteSet(S)
    PROVE  \A i \in 1..Len(Listing("day", S)) : Listing("day", S)[i][1] = "day"
BY ListingFacts

LEMMA DaysOrder ==
    ASSUME NEW p, NEW t, NEW H, t.phase = "days", t.days \in SUBSET Days, t.todo = Each(Day, t.days),
           "day" \in Takes(t.call) \/ t.days = {}, t.call # "Reconfigure",
           \A l \in Resources : H[l] = p => l = Retention /\ t.call = "Retain"
    PROVE  OrderOK(p, t, H) /\ \A R : SeenOK(t, R)
<1>. DEFINE S == t.days
            s == Listing("day", S)
<1>1. S \in SUBSET Int /\ IsFiniteSet(S)
  BY FiniteRows
<1>2. \A x \in S : Its(t, <<"day", x>>)
  BY DEF Its, OnOneRow, OfRows
<1>. HIDE DEF S
<1>3. InOrder(t, s)
  BY <1>1, <1>2, ListingInOrder
<1>4. \A i \in 1..Len(s) : s[i][1] = "day"
  BY <1>1, DayList
<1>5. s = t.todo
  BY EachIsListing DEF S
<1>. HIDE DEF s
<1>6. Its(t, Retention) \/ t.call # "Retain"
  BY Kinds, TakesOf DEF Its, OnOneRow
<1>7. \A i \in 1..Len(s) : Ahead(t.call, Retention, s[i])
  BY <1>4, Kinds, TurnOf DEF Ahead
<1>. QED
  BY <1>3, <1>5, <1>6, <1>7 DEF OrderOK, SeenOK

LEMMA ReleasedOrder ==
    ASSUME IInv, NEW p \in Txs, holder' = Freed(p)
    PROVE  /\ \A q \in Txs \ {p} : \A l \in Resources : holder'[l] = q <=> holder[l] = q
           /\ \A l \in Resources : holder'[l] # p
<1>1. p # Nobody /\ \A q \in Txs : q # Nobody
  BY LockConstants
<1>. QED
  BY <1>1 DEF Freed

LEMMA EndOrder ==
    ASSUME IInv, OInv, NEW p \in Txs, holder' = Freed(p), tx' = [tx EXCEPT ![p] = Idle],
           \A q \in Txs \ {p} : SeenOK(tx[q], res')
    PROVE  OInv'
<1>1. /\ \A q \in Txs \ {p} : \A l \in Resources : holder'[l] = q <=> holder[l] = q
      /\ \A l \in Resources : holder'[l] # p
  BY ReleasedOrder
<1>2. OrderOK(p, Idle, holder') /\ SeenOK(Idle, res')
  BY <1>1, IdleOrder
<1>. QED
  BY <1>1, <1>2, OrderStep

LEMMA SameSeen ==
    ASSUME OInv, \A r \in Reservations : res'[r].day = res[r].day,
           \A q \in Txs : tx[q].seen \in SUBSET Reservations
    PROVE  \A q \in Txs : SeenOK(tx[q], res')
BY DEF OInv, SeenOK

LEMMA AcquireOrder ==
    ASSUME IInv, OInv, NEW p \in Txs, Acquire(p)
    PROVE  OInv'
<1>. DEFINE s == tx[p].todo
            t == [tx[p] EXCEPT !.todo = Tail(s)]
<1>1. /\ tx[p] \in TxRows /\ s \in Seq(Resources) /\ tx \in [Txs -> TxRows]
      /\ holder \in [Resources -> Txs \cup {Nobody}]
  BY SessionFacts
<1>2. /\ s # <<>> /\ holder[Head(s)] \in {Nobody, p} /\ holder' = [holder EXCEPT ![Head(s)] = p]
      /\ UNCHANGED <<world, res, mail, holds, retained>>
  BY DEF Acquire
<1>3. tx' = [tx EXCEPT ![p] = t]
  BY <1>1 DEF Acquire, TxRows
<1>4. OrderOK(p, tx[p], holder) /\ SeenOK(tx[p], res)
  BY DEF OInv
<1>5. InOrder(tx[p], s)
  BY <1>4 DEF OrderOK
<1>6. /\ t.call = tx[p].call /\ t.phase = tx[p].phase /\ t.days = tx[p].days
      /\ t.r = tx[p].r /\ t.seen = tx[p].seen /\ t.todo = Tail(s)
  BY <1>1 DEF TxRows
<1>7. \A i \in 1..Len(s) : s[i] = Head(s) \/ \E j \in 1..Len(Tail(s)) : Tail(s)[j] = s[i]
  BY <1>1, <1>2, TodoFacts
<1>. HIDE DEF t
<1>8. \A l : Waits(tx[p], l) => l = Head(s) \/ Waits(t, l)
  BY <1>6, <1>7 DEF Waits
<1>. HIDE DEF s
<1>9. /\ Head(s) = s[1] /\ Len(s) \in Nat /\ Len(s) >= 1 /\ Len(Tail(s)) = Len(s) - 1
      /\ \A j \in 1..Len(Tail(s)) : j + 1 \in 1..Len(s) /\ Tail(s)[j] = s[j + 1]
      /\ Head(s) \in Resources
  BY <1>1, <1>2, TodoFacts
<1>10. \A l : Its(t, l) <=> Its(tx[p], l)
  BY <1>6 DEF Its
<1>11. 1 \in 1..Len(s)
  BY <1>9
<1>12. \A j \in 1..Len(Tail(s)) : Its(t, Tail(s)[j]) /\ Tail(s)[j] # Retention
  BY <1>5, <1>9, <1>10 DEF InOrder
<1>13. \A i, j \in 1..Len(Tail(s)) : i < j => Ahead(t.call, Tail(s)[i], Tail(s)[j])
  <2>. SUFFICES ASSUME NEW i \in 1..Len(Tail(s)), NEW j \in 1..Len(Tail(s)), i < j
                PROVE  Ahead(t.call, Tail(s)[i], Tail(s)[j])
    OBVIOUS
  <2>1. i + 1 \in 1..Len(s) /\ j + 1 \in 1..Len(s) /\ i + 1 < j + 1
    BY <1>9
  <2>2. Ahead(t.call, s[i + 1], s[j + 1])
    BY <1>5, <1>6, <2>1 DEF InOrder
  <2>. QED
    BY <1>9, <2>2
<1>14. \A j \in 1..Len(Tail(s)) : Ahead(t.call, Head(s), Tail(s)[j])
  <2>. TAKE j \in 1..Len(Tail(s))
  <2>1. j + 1 \in 1..Len(s) /\ 1 < j + 1
    BY <1>9
  <2>2. Ahead(t.call, s[1], s[j + 1])
    BY <1>5, <1>6, <1>11, <2>1 DEF InOrder
  <2>. QED
    BY <1>9, <2>2
<1>15. \A l \in Resources : holder'[l] = p => holder[l] = p \/ l = Head(s)
  BY <1>1, <1>2
<1>16. ASSUME NEW l \in Resources, holder'[l] = p
       PROVE  Its(t, l) /\ \A i \in 1..Len(t.todo) : Ahead(t.call, l, t.todo[i])
  <2>1. CASE holder[l] = p
    <3>1. Its(tx[p], l) /\ \A i \in 1..Len(s) : Ahead(tx[p].call, l, s[i])
      BY <1>4, <2>1 DEF OrderOK, s
    <3>. QED
      BY <1>6, <1>9, <1>10, <3>1
  <2>2. CASE l = Head(s)
    <3>1. Its(t, l)
      BY <1>5, <1>9, <1>10, <1>11, <2>2 DEF InOrder
    <3>. QED
      BY <1>6, <1>14, <2>2, <3>1
  <2>. QED
    BY <1>15, <1>16, <2>1, <2>2
<1>17. Covers(p, tx[p], holder, Planner) => Covers(p, t, holder', Planner)
  <2>1. Planner \in Resources
    BY LocksAreResources
  <2>2. holder[Planner] = p => holder'[Planner] = p
    BY <1>1, <1>2, <1>9, <2>1
  <2>3. holder'[Head(s)] = p
    BY <1>1, <1>2, <1>9
  <2>. QED
    BY <1>8, <2>2, <2>3 DEF Covers
<1>18. OrderOK(p, t, holder')
  <2>1. InOrder(t, t.todo)
    BY <1>6, <1>12, <1>13 DEF InOrder
  <2>. QED
    BY <1>4, <1>6, <1>16, <1>17, <2>1 DEF OrderOK
<1>19. SeenOK(t, res') /\ \A q \in Txs \ {p} : SeenOK(tx[q], res')
  BY <1>2, <1>4, <1>6 DEF SeenOK, OInv
<1>20. \A q \in Txs \ {p} : \A l \in Resources : holder'[l] = q <=> holder[l] = q
  BY <1>1, <1>2, <1>9, LockConstants
<1>. QED
  BY <1>3, <1>18, <1>19, <1>20, OrderStep

LEMMA StartOrder ==
    ASSUME IInv, OInv, NEW p \in Txs, NEW call \in Calls, NEW args \in TxRows, NEW days \in SUBSET Days,
           Start(p, call, args, days),
           "day" \in Takes(call) \/ days = {}, call # "Reconfigure"
    PROVE  OInv'
<1>. DEFINE t == [args EXCEPT !.call = call, !.phase = "days", !.days = days, !.todo = Each(Day, days)]
<1>1. /\ tx' = [tx EXCEPT ![p] = t] /\ UNCHANGED <<world, holder, res, mail, holds, retained>>
      /\ tx[p] = Idle
  BY DEF Start
<1>2. t.call = call /\ t.phase = "days" /\ t.days = days /\ t.todo = Each(Day, days)
  BY DEF TxRows
<1>. HIDE DEF t
<1>3. \A l \in Resources : holder[l] # p
  BY <1>1, OrderFacts
<1>4. OrderOK(p, t, holder') /\ SeenOK(t, res')
  BY <1>1, <1>2, <1>3, DaysOrder
<1>5. \A q \in Txs \ {p} : SeenOK(tx[q], res')
  BY <1>1 DEF OInv
<1>. QED
  BY <1>1, <1>4, <1>5, OrderStep

LEMMA BeginOrder ==
    ASSUME IInv, OInv, NEW p \in Txs, Begin(p)
    PROVE  OInv'
<1>1. /\ Expired \in SUBSET Days /\ Closed \in SUBSET Reservations
      /\ {res[r].day : r \in Closed} \in SUBSET Days
      /\ world.rows \in SUBSET Reservations
      /\ \A r \in Reservations : /\ res[r] \in ResRows /\ res[r].day \in Days
                                 /\ res[r].attempt \in 1..MaxAttempts
  BY ExpiredDays
<1>2. Typed /\ world \in Worlds /\ holder \in [Resources -> Txs \cup {Nobody}]
  BY DEF IInv, Typed
<1>3. Idle \in TxRows
  BY IdleIsFine
<1>4. CASE StartHold(p)
  <2>1. PICK g \in Guests, d \in Days : Start(p, "Hold", [Idle EXCEPT !.guest = g, !.to = d], {d})
    BY <1>4 DEF StartHold
  <2>. DEFINE a == [Idle EXCEPT !.guest = g, !.to = d]
  <2>2. a \in TxRows
    BY <1>3 DEF TxRows
  <2>. HIDE DEF a
  <2>3. Start(p, "Hold", a, {d}) /\ {d} \in SUBSET Days
    BY <2>1 DEF a
  <2>4. "Hold" \in Calls /\ "day" \in Takes("Hold")
    BY TakesOf DEF Calls
  <2>. QED
    BY <2>2, <2>3, <2>4, StartOrder
<1>5. CASE StartExpire(p)
  <2>1. "Expire" \in Calls /\ "day" \in Takes("Expire")
    BY TakesOf DEF Calls
  <2>2. Start(p, "Expire", Idle, Expired)
    BY <1>5 DEF StartExpire
  <2>. QED
    BY <1>1, <1>3, <2>1, <2>2, StartOrder
<1>6. CASE StartEdit(p)
  <2>1. PICK r \in world.rows, d \in Days, T \in world.sets :
            Start(p, "Edit", [Idle EXCEPT !.r = r, !.to = d, !.tables = T], {res[r].day, d})
    BY <1>6 DEF StartEdit
  <2>. DEFINE a == [Idle EXCEPT !.r = r, !.to = d, !.tables = T]
  <2>2. T \in SUBSET Tables /\ r \in Reservations
    BY <1>1, <1>2, LockConstants
  <2>3. a \in TxRows
    BY <1>3, <2>2 DEF TxRows
  <2>. HIDE DEF a
  <2>4. Start(p, "Edit", a, {res[r].day, d}) /\ {res[r].day, d} \in SUBSET Days
    BY <1>1, <2>1, <2>2 DEF a
  <2>5. "Edit" \in Calls /\ "day" \in Takes("Edit")
    BY TakesOf DEF Calls
  <2>. QED
    BY <2>3, <2>4, <2>5, StartOrder
<1>7. ASSUME NEW call \in {"Contact", "Cancel", "Erase"}, NEW r \in world.rows,
             Start(p, call, [Idle EXCEPT !.r = r], {res[r].day})
      PROVE  OInv'
  <2>. DEFINE a == [Idle EXCEPT !.r = r]
  <2>1. r \in Reservations /\ {res[r].day} \in SUBSET Days
    BY <1>1
  <2>2. a \in TxRows
    BY <1>3, <2>1 DEF TxRows
  <2>. HIDE DEF a
  <2>3. Start(p, call, a, {res[r].day})
    BY <1>7 DEF a
  <2>4. call \in Calls /\ "day" \in Takes(call) /\ call # "Reconfigure"
    BY TakesOf DEF Calls
  <2>. QED
    BY <2>1, <2>2, <2>3, <2>4, StartOrder
<1>8. CASE StartContact(p) \/ StartCancel(p) \/ StartErase(p)
  BY <1>7, <1>8 DEF StartContact, StartCancel, StartErase
<1>9. CASE StartPlan(p)
  <2>1. "Plan" \in Calls /\ {} \in SUBSET Days
    BY DEF Calls
  <2>2. Start(p, "Plan", Idle, {})
    BY <1>9 DEF StartPlan
  <2>. QED
    BY <1>3, <2>1, <2>2, StartOrder
<1>10. CASE StartOptimise(p)
  <2>1. PICK d \in Days : Start(p, "Optimise", [Idle EXCEPT !.to = d], {d})
    BY <1>10 DEF StartOptimise
  <2>. DEFINE a == [Idle EXCEPT !.to = d]
  <2>2. a \in TxRows
    BY <1>3 DEF TxRows
  <2>. HIDE DEF a
  <2>3. Start(p, "Optimise", a, {d})
    BY <2>1 DEF a
  <2>4. "Optimise" \in Calls /\ "day" \in Takes("Optimise")
    BY TakesOf DEF Calls
  <2>. QED
    BY <2>2, <2>3, <2>4, StartOrder
<1>11. CASE StartPublish(p)
  <2>1. PICK T \in world.sets \ {{}} : Start(p, "Publish", [Idle EXCEPT !.tables = T], {})
    BY <1>11 DEF StartPublish
  <2>. DEFINE a == [Idle EXCEPT !.tables = T]
  <2>2. T \in SUBSET Tables
    BY <1>2, LockConstants
  <2>3. a \in TxRows
    BY <1>3, <2>2 DEF TxRows
  <2>. HIDE DEF a
  <2>4. Start(p, "Publish", a, {})
    BY <2>1 DEF a
  <2>5. "Publish" \in Calls /\ {} \in SUBSET Days
    BY DEF Calls
  <2>. QED
    BY <2>3, <2>4, <2>5, StartOrder
<1>12. CASE StartSettle(p)
  <2>1. PICK r \in world.rows, named \in BOOLEAN :
            Start(p, "Settle", [Idle EXCEPT !.r = r, !.attempt = res[r].attempt],
                  IF named THEN {res[r].day} ELSE {})
    BY <1>12 DEF StartSettle
  <2>. DEFINE a == [Idle EXCEPT !.r = r, !.attempt = res[r].attempt]
              days == IF named THEN {res[r].day} ELSE {}
  <2>2. r \in Reservations /\ res[r].attempt \in 0..MaxAttempts
    <3>1. r \in Reservations
      BY <1>1
    <3>2. res[r].attempt \in 1..MaxAttempts
      BY <1>1, <3>1
    <3>3. MaxAttempts \in Nat
      BY LockConstants
    <3>. QED
      BY <3>1, <3>2, <3>3
  <2>3. a \in TxRows
    BY <1>3, <2>2 DEF TxRows
  <2>4. days \in SUBSET Days
    BY <1>1, <2>2
  <2>5. Start(p, "Settle", a, days)
    BY <2>1
  <2>. HIDE DEF a, days
  <2>6. "Settle" \in Calls /\ "day" \in Takes("Settle")
    BY TakesOf DEF Calls
  <2>. QED
    BY <2>3, <2>4, <2>5, <2>6, StartOrder
<1>13. CASE StartReconfigure(p)
  <2>. DEFINE t == [Idle EXCEPT !.call = "Reconfigure", !.phase = "days", !.todo = <<Planner>>]
  <2>1. /\ t.call = "Reconfigure" /\ t.phase = "days" /\ t.todo = <<Planner>>
    BY DEF Idle
  <2>2. /\ tx' = [tx EXCEPT ![p] = t] /\ UNCHANGED <<world, holder, res, mail, holds, retained>>
        /\ tx[p] = Idle
    BY <1>13 DEF StartReconfigure
  <2>. HIDE DEF t
  <2>3. \A l \in Resources : holder[l] # p
    BY <2>2, OrderFacts
  <2>4. Len(t.todo) = 1 /\ t.todo[1] = Planner /\ 1 \in 1..Len(t.todo)
    BY <2>1
  <2>5. Its(t, Planner) /\ Planner # Retention
    BY <2>1, Kinds, TakesOf DEF Its, OnOneRow, OfRows
  <2>6. InOrder(t, t.todo)
    BY <2>1, <2>5, OneLock
  <2>7. Covers(p, t, holder', Planner)
    BY <2>4 DEF Covers, Waits
  <2>8. OrderOK(p, t, holder') /\ SeenOK(t, res')
    BY <2>1, <2>2, <2>3, <2>6, <2>7 DEF OrderOK, SeenOK
  <2>9. \A q \in Txs \ {p} : SeenOK(tx[q], res')
    BY <2>2 DEF OInv
  <2>. QED
    BY <2>2, <2>8, <2>9, OrderStep
<1>14. CASE StartRetain(p)
  <2>. DEFINE days == {res[r].day : r \in Closed} \cup Expired
              t == [Idle EXCEPT !.call = "Retain", !.phase = "days", !.days = days, !.todo = Each(Day, days)]
  <2>1. /\ tx' = [tx EXCEPT ![p] = t] /\ UNCHANGED <<world, res, mail, holds, retained>>
        /\ holder[Retention] = Nobody /\ holder' = [holder EXCEPT ![Retention] = p]
        /\ tx[p] = Idle
    BY <1>14 DEF StartRetain
  <2>2. days \in SUBSET Days
    BY <1>1
  <2>. HIDE DEF days
  <2>3. t.call = "Retain" /\ t.phase = "days" /\ t.days = days /\ t.todo = Each(Day, days)
    BY DEF Idle
  <2>. HIDE DEF t
  <2>4. \A l \in Resources : holder[l] # p
    BY <2>1, OrderFacts
  <2>5. \A l \in Resources : holder'[l] = p => l = Retention
    BY <1>2, <2>1, <2>4
  <2>6. OrderOK(p, t, holder') /\ SeenOK(t, res')
    <3>1. "day" \in Takes(t.call)
      BY <2>3, TakesOf
    <3>. QED
      BY <2>2, <2>3, <2>5, <3>1, DaysOrder
  <2>7. \A q \in Txs \ {p} : \A l \in Resources : holder'[l] = q <=> holder[l] = q
    BY <1>2, <2>1, LockConstants
  <2>8. \A q \in Txs \ {p} : SeenOK(tx[q], res')
    BY <2>1 DEF OInv
  <2>. QED
    BY <2>1, <2>6, <2>7, <2>8, OrderStep
<1>. QED
  BY <1>4, <1>5, <1>6, <1>8, <1>9, <1>10, <1>11, <1>12, <1>13, <1>14 DEF Begin

LEMMA RecheckOrder ==
    ASSUME IInv, OInv, NEW p \in Txs, Recheck(p)
    PROVE  OInv'
<1>1. /\ tx[p] \in TxRows /\ tx \in [Txs -> TxRows]
      /\ holder \in [Resources -> Txs \cup {Nobody}]
      /\ LocksOK(p, tx[p], holder)
      /\ \A l : tx[p].todo = <<>> => ~Waits(tx[p], l)
  BY SessionFacts
<1>2. /\ tx[p].phase = "days" /\ tx[p].todo = <<>> /\ tx[p].call # "Plan"
      /\ UNCHANGED <<world, res, mail, holds, retained>>
  BY DEF Recheck
<1>3. OrderOK(p, tx[p], holder) /\ \A q \in Txs : SeenOK(tx[q], res')
  BY <1>2 DEF OInv
<1>4. Scope(tx[p]) \in SUBSET Days /\ tx[p].days \in SUBSET Days
  BY <1>1, ScopeDays DEF TxRows
<1>5. CASE ~(Scope(tx[p]) \subseteq tx[p].days) /\ tx[p].call # "Retain"
  <2>. DEFINE days == tx[p].days \cup Scope(tx[p])
              t == [tx[p] EXCEPT !.days = days, !.todo = Each(Day, days)]
  <2>1. holder' = Freed(p) /\ tx' = [tx EXCEPT ![p].days = days, ![p].todo = Each(Day, days)]
    BY <1>5 DEF Recheck, Restart
  <2>2. tx' = [tx EXCEPT ![p] = t]
    BY <1>1, <2>1 DEF TxRows
  <2>3. days \in SUBSET Days
    BY <1>4
  <2>. HIDE DEF days
  <2>4. /\ t.call = tx[p].call /\ t.phase = "days" /\ t.days = days /\ t.todo = Each(Day, days)
    BY <1>1, <1>2 DEF TxRows
  <2>. HIDE DEF t
  <2>5. t.call \in {"Edit", "Contact", "Cancel", "Erase"}
    BY <1>5, <2>4 DEF Scope
  <2>6. /\ \A q \in Txs \ {p} : \A l \in Resources : holder'[l] = q <=> holder[l] = q
        /\ \A l \in Resources : holder'[l] # p
    BY <2>1, ReleasedOrder
  <2>7. OrderOK(p, t, holder') /\ SeenOK(t, res')
    <3>1. "day" \in Takes(t.call) /\ t.call # "Reconfigure"
      BY <2>5, TakesOf
    <3>. QED
      BY <2>3, <2>4, <2>6, <3>1, DaysOrder
  <2>. QED
    BY <1>3, <2>2, <2>6, <2>7, OrderStep
<1>6. CASE /\ ~(~(Scope(tx[p]) \subseteq tx[p].days) /\ tx[p].call # "Retain")
           /\ ~(Scope(tx[p]) \subseteq tx[p].days) \/ EditRefused(tx[p])
  <2>1. holder' = Freed(p) /\ tx' = [tx EXCEPT ![p] = Idle]
    BY <1>6 DEF Recheck
  <2>. QED
    BY <1>3, <2>1, EndOrder
<1>7. CASE Scope(tx[p]) \subseteq tx[p].days /\ ~EditRefused(tx[p])
  <2>. DEFINE seen == IF tx[p].call = "Retain" THEN Closed ELSE {}
              u == [tx[p] EXCEPT !.seen = seen, !.phase = "rows"]
              t == [u EXCEPT !.todo = RowsAfterDays(u)]
  <2>1. tx' = [tx EXCEPT ![p] = t] /\ UNCHANGED holder
    BY <1>7 DEF Recheck, Rows
  <2>2. seen \in SUBSET Reservations /\ (tx[p].call = "Retain" => seen = Closed)
    BY ExpiredDays
  <2>. HIDE DEF seen
  <2>3. /\ u \in TxRows /\ u.call = tx[p].call /\ u.phase = "rows" /\ u.days = tx[p].days
        /\ u.guest = tx[p].guest /\ u.r = tx[p].r /\ u.seen = seen
    BY <1>1, <2>2 DEF TxRows
  <2>. HIDE DEF u
  <2>4. RowsOK(u, RowsAfterDays(u))
    <3>1. /\ u.call = "Hold" => u.guest \in Guests
          /\ u.call \in OnOneRow => u.r \in Reservations
          /\ world \in Worlds
      BY <1>1, <2>3 DEF LocksOK, IInv, Typed
    <3>. QED
      BY <2>3, <3>1, RowsInOrder
  <2>5. /\ t.call = tx[p].call /\ t.phase = "rows" /\ t.days = tx[p].days
        /\ t.r = tx[p].r /\ t.seen = seen /\ t.todo = RowsAfterDays(u)
    BY <2>3 DEF TxRows
  <2>. HIDE DEF t
  <2>6. /\ InOrder(t, t.todo)
        /\ \A i \in 1..Len(t.todo) : /\ t.todo[i][1] \notin {"day", "retention"}
                                     /\ t.call = "Reconfigure" => t.todo[i][1] # "planner"
        /\ t.call \in {"Edit", "Contact"} => \E i \in 1..Len(t.todo) : t.todo[i] = Planner
    <3>1. \A l : Its(t, l) <=> Its(u, l)
      BY <2>3, <2>5 DEF Its
    <3>2. t.call = u.call
      BY <2>3, <2>5
    <3>. QED
      BY <2>4, <2>5, <3>1, <3>2 DEF RowsOK, InOrder
  <2>7. ASSUME NEW l \in Resources, holder[l] = p
        PROVE  Its(t, l) /\ \A i \in 1..Len(t.todo) : Ahead(t.call, l, t.todo[i])
    <3>1. Its(tx[p], l)
      BY <1>3, <2>7 DEF OrderOK
    <3>2. l[1] \in {"retention", "day"} \/ (t.call = "Reconfigure" /\ l[1] = "planner")
      BY <1>2, <2>5, <3>1 DEF Its
    <3>3. Its(t, l)
      BY <2>5, <3>1, <3>2 DEF Its, OfRows
    <3>4. \A i \in 1..Len(t.todo) : Ahead(t.call, l, t.todo[i])
      <4>. TAKE i \in 1..Len(t.todo)
      <4>1. /\ t.todo[i][1] \notin {"day", "retention"} /\ t.todo[i][1] \in Takes(t.call)
            /\ t.call = "Reconfigure" => t.todo[i][1] # "planner"
        BY <2>6 DEF InOrder, Its
      <4>2. CASE l[1] \in {"retention", "day"}
        <5>1. Turn(t.call, l[1]) \in {1, 2}
          BY <4>2, TurnOf
        <5>2. Turn(t.call, t.todo[i][1]) \in {3, 4, 5, 6, 7, 8, 9, 10}
          BY <4>1 DEF Turn
        <5>. QED
          BY <5>1, <5>2 DEF Ahead
      <4>3. CASE t.call = "Reconfigure" /\ l[1] = "planner"
        <5>1. t.todo[i][1] \in {"reminders", "config"}
          BY <4>1, <4>3, TakesOf
        <5>. QED
          BY <4>3, <5>1, TurnOf DEF Ahead
      <4>. QED
        BY <3>2, <4>2, <4>3
    <3>. QED
      BY <3>3, <3>4
  <2>8. t.call = "Reconfigure" => holder[Planner] = p
    BY <1>1, <1>2, <1>3, <2>5 DEF OrderOK, Covers
  <2>9. OrderOK(p, t, holder')
    <3>1. t.call \in {"Edit", "Contact"} => Covers(p, t, holder', Planner)
      BY <2>6 DEF Covers, Waits
    <3>2. t.call = "Reconfigure" => Covers(p, t, holder', Planner)
      BY <2>1, <2>8 DEF Covers
    <3>. QED
      BY <2>1, <2>5, <2>6, <2>7, <3>1, <3>2 DEF OrderOK
  <2>10. SeenOK(t, res')
    <3>1. ASSUME t.call = "Retain", NEW r \in t.seen
          PROVE  res[r].day \in t.days
      <4>1. r \in Closed
        BY <2>2, <2>5, <3>1
      <4>2. res[r].day \in Scope(tx[p])
        BY <2>5, <3>1, <4>1 DEF Scope
      <4>. QED
        BY <1>7, <2>5, <4>2
    <3>. QED
      BY <1>2, <3>1 DEF SeenOK
  <2>. QED
    BY <1>3, <2>1, <2>9, <2>10, OrderStep
<1>. QED
  BY <1>5, <1>6, <1>7

LEMMA TryPlannerOrder ==
    ASSUME IInv, OInv, NEW p \in Txs, TryPlanner(p)
    PROVE  OInv'
<1>1. /\ tx[p] \in TxRows /\ tx \in [Txs -> TxRows]
      /\ holder \in [Resources -> Txs \cup {Nobody}]
  BY SessionFacts
<1>2. /\ tx[p].phase = "days" /\ tx[p].call = "Plan"
      /\ UNCHANGED <<world, res, mail, holds, retained>>
  BY DEF TryPlanner
<1>3. \A l \in Resources : holder[l] # p
  <2>1. Takes("Plan") \cap {"retention", "day"} = {}
    BY TakesOf
  <2>2. \A l \in Resources : holder[l] = p => l[1] \in Takes("Plan") /\ l[1] \in {"retention", "day"}
    BY <1>2, OrderFacts DEF Its
  <2>. QED
    BY <2>1, <2>2
<1>4. \A q \in Txs : SeenOK(tx[q], res')
  BY <1>2 DEF OInv
<1>5. CASE holder[Planner] # Nobody
  <2>1. tx' = [tx EXCEPT ![p] = Idle] /\ UNCHANGED holder
    BY <1>5 DEF TryPlanner
  <2>2. OrderOK(p, Idle, holder') /\ SeenOK(Idle, res')
    BY <1>3, <2>1, IdleOrder
  <2>. QED
    BY <1>4, <2>1, <2>2, OrderStep
<1>6. CASE holder[Planner] = Nobody
  <2>. DEFINE seen == {r \in world.rows : res[r].status = "active" /\ res[r].personal}
              u == [tx[p] EXCEPT !.seen = seen, !.phase = "rows"]
              t == [u EXCEPT !.todo = RowsAfterDays(u)]
  <2>1. tx' = [tx EXCEPT ![p] = t] /\ holder' = [holder EXCEPT ![Planner] = p]
    BY <1>6 DEF TryPlanner, Rows
  <2>2. seen \in SUBSET Reservations
    BY ExpiredDays
  <2>. HIDE DEF seen
  <2>3. u.call = "Plan" /\ u.phase = "rows" /\ u.seen = seen
    BY <1>1, <1>2 DEF TxRows
  <2>. HIDE DEF u
  <2>4. t.call = "Plan" /\ t.phase = "rows" /\ t.todo = RowsAfterDays(u)
    BY <2>3 DEF TxRows
  <2>5. RowsAfterDays(u) = Each(Reminders, seen)
    BY <2>3 DEF RowsAfterDays
  <2>. HIDE DEF t
  <2>6. InOrder(t, t.todo) /\ \A i \in 1..Len(t.todo) : t.todo[i][1] = "reminders"
    BY <2>2, <2>4, <2>5, ReminderRows
  <2>7. Its(t, Planner) /\ \A i \in 1..Len(t.todo) : Ahead(t.call, Planner, t.todo[i])
    <3>1. Planner[1] = "planner"
      BY Kinds
    <3>2. Its(t, Planner)
      BY <2>4, <3>1, TakesOf DEF Its, OnOneRow
    <3>3. \A i \in 1..Len(t.todo) : Ahead(t.call, Planner, t.todo[i])
      BY <2>4, <2>6, <3>1, TurnOf DEF Ahead
    <3>. QED
      BY <3>2, <3>3
  <2>8. \A l \in Resources : holder'[l] = p => l = Planner
    BY <1>1, <1>3, <2>1
  <2>9. OrderOK(p, t, holder') /\ SeenOK(t, res')
    BY <2>4, <2>6, <2>7, <2>8 DEF OrderOK, SeenOK
  <2>10. \A q \in Txs \ {p} : \A l \in Resources : holder'[l] = q <=> holder[l] = q
    BY <1>1, <1>6, <2>1, LocksAreResources, LockConstants
  <2>. QED
    BY <1>4, <2>1, <2>9, <2>10, OrderStep
<1>. QED
  BY <1>5, <1>6

LEMMA CountHoldsOrder ==
    ASSUME IInv, OInv, NEW p \in Txs, CountHolds(p)
    PROVE  OInv'
<1>1. tx[p] \in TxRows /\ tx \in [Txs -> TxRows]
  BY SessionFacts
<1>2. /\ tx[p].phase = "rows" /\ tx[p].call = "Hold" /\ tx[p].todo = <<>>
      /\ UNCHANGED <<world, res, mail, holds, retained>>
  BY DEF CountHolds, Working
<1>3. OrderOK(p, tx[p], holder) /\ \A q \in Txs : SeenOK(tx[q], res')
  BY <1>2 DEF OInv
<1>. DEFINE room == /\ Cardinality(Of(holds, tx[p].guest)) < SessionLimit
                    /\ Cardinality(At(holds, tx[p].guest)) < IpLimit
<1>4. CASE ~room
  <2>1. holder' = Freed(p) /\ tx' = [tx EXCEPT ![p] = Idle]
    BY <1>4 DEF CountHolds
  <2>. QED
    BY <1>3, <2>1, EndOrder
<1>5. CASE room
  <2>. DEFINE t == [tx[p] EXCEPT !.phase = "insert"]
  <2>1. tx' = [tx EXCEPT ![p] = t] /\ UNCHANGED holder
    BY <1>1, <1>5 DEF CountHolds, TxRows
  <2>2. t.call = "Hold" /\ t.phase = "insert" /\ t.r = tx[p].r /\ t.seen = tx[p].seen /\ t.todo = tx[p].todo
    BY <1>1, <1>2 DEF TxRows
  <2>. HIDE DEF t
  <2>3. \A l : Its(tx[p], l) => Its(t, l)
    BY <1>2, <2>2 DEF Its
  <2>4. InOrder(t, t.todo)
    BY <1>2, <1>3, <2>2, <2>3 DEF OrderOK, InOrder
  <2>5. \A l \in Resources : holder[l] = p => Its(t, l) /\ \A i \in 1..Len(t.todo) : Ahead(t.call, l, t.todo[i])
    BY <1>2, <1>3, <2>2, <2>3 DEF OrderOK
  <2>6. OrderOK(p, t, holder') /\ SeenOK(t, res')
    BY <2>1, <2>2, <2>4, <2>5 DEF OrderOK, SeenOK
  <2>. QED
    BY <1>3, <2>1, <2>6, OrderStep
<1>. QED
  BY <1>4, <1>5

\* Only a move changes the day of a reservation, and it holds that day.
LEMMA CommitOrder ==
    ASSUME IInv, OInv, NEW p \in Txs, Commit(p)
    PROVE  OInv'
<1>1. End(p)
  BY DEF Commit, CreateHold, Expire, Edit, Contact, Cancel, Settle, Erase, Retain, Plan,
         Reconfigure, Rearrange
<1>2. holder' = Freed(p) /\ tx' = [tx EXCEPT ![p] = Idle]
  BY <1>1 DEF End
<1>3. \A q \in Txs : tx[q].seen \in SUBSET Reservations
  BY SessionFacts DEF TxRows
<1>4. CASE \A r \in Reservations : res'[r].day = res[r].day
  BY <1>2, <1>3, <1>4, SameSeen, EndOrder
<1>5. CASE Edit(p)
  <2>1. "Edit" \in OnOneRow /\ Working(p, "Edit")
    BY <1>5 DEF Edit, OnOneRow
  <2>2. tx[p].r \in Reservations /\ holder[Day(res[tx[p].r].day)] = p
    BY <2>1, RowFacts
  <2>. DEFINE moved == res[tx[p].r].day # tx[p].to
  <2>3. PICK pay : res' = [res EXCEPT ![tx[p].r].day = tx[p].to, ![tx[p].r].pay = pay,
                              ![tx[p].r].attempt = IF pay = "pending" /\ moved THEN @ + 1 ELSE @]
    BY <1>5 DEF Edit
  <2>. HIDE DEF moved
  <2>4. \A r \in Reservations \ {tx[p].r} : res'[r] = res[r]
    BY <2>2, <2>3, MailFacts DEF ResRows
  <2>5. ASSUME NEW q \in Txs \ {p}
        PROVE  SeenOK(tx[q], res')
    <3>1. SeenOK(tx[q], res) /\ LocksOK(q, tx[q], holder)
      BY SessionFacts, OrderFacts
    <3>2. SUFFICES ASSUME tx[q].phase = "rows", tx[q].call = "Retain"
                   PROVE  tx[p].r \notin tx[q].seen
      BY <1>3, <2>4, <3>1 DEF SeenOK
    <3>3. \A d \in tx[q].days : holder[Day(d)] = q
      BY <3>1, <3>2 DEF LocksOK
    <3>4. \A r \in tx[q].seen : res[r].day \in tx[q].days
      BY <3>1, <3>2 DEF SeenOK
    <3>. QED
      BY <2>2, <3>3, <3>4
  <2>. QED
    BY <1>2, <2>5, EndOrder
<1>6. CASE Contact(p) \/ Erase(p)
  <2>1. PICK b : res' = [res EXCEPT ![tx[p].r].personal = b]
    BY <1>6 DEF Contact, Erase
  <2>2. \A r \in Reservations : res'[r].day = res[r].day
    BY <2>1, MailFacts DEF ResRows
  <2>. QED
    BY <1>4, <2>2
<1>7. CASE Cancel(p)
  <2>1. res' = [res EXCEPT ![tx[p].r].status = "cancelled"]
    BY <1>7 DEF Cancel
  <2>2. \A r \in Reservations : res'[r].day = res[r].day
    BY <2>1, MailFacts DEF ResRows
  <2>. QED
    BY <1>4, <2>2
<1>8. CASE Settle(p)
  <2>. DEFINE r == tx[p].r
              current == res[r].attempt = tx[p].attempt /\ tx[p].days # {} /\ res[r].pay = "pending"
  <2>1. PICK pay, status : res' = IF ~current THEN res
                                  ELSE [res EXCEPT ![r].pay = pay, ![r].status = status]
    BY <1>8 DEF Settle
  <2>. HIDE DEF r, current
  <2>2. \A x \in Reservations : res'[x].day = res[x].day
    BY <2>1, MailFacts DEF ResRows
  <2>. QED
    BY <1>4, <2>2
<1>9. CASE Retain(p)
  <2>1. res' = [r \in Reservations |-> IF r \in tx[p].seen THEN [res[r] EXCEPT !.personal = FALSE] ELSE res[r]]
    BY <1>9 DEF Retain
  <2>2. \A r \in Reservations : res'[r].day = res[r].day
    BY <2>1, MailFacts DEF ResRows
  <2>. QED
    BY <1>4, <2>2
<1>10. CASE CreateHold(p) \/ Expire(p) \/ Plan(p) \/ Reconfigure(p) \/ Rearrange(p)
  <2>1. UNCHANGED res
    BY <1>10 DEF CreateHold, Expire, Plan, Reconfigure, Rearrange
  <2>. QED
    BY <1>4, <2>1
<1>. QED
  BY <1>5, <1>6, <1>7, <1>8, <1>9, <1>10 DEF Commit

LEMMA VictimOrder ==
    ASSUME IInv, OInv, NEW p \in Txs, Victim(p)
    PROVE  OInv'
<1>1. /\ holder' = Freed(p) /\ tx' = [tx EXCEPT ![p] = Idle] /\ UNCHANGED res
  BY DEF Victim, End
<1>2. \A q \in Txs : SeenOK(tx[q], res')
  BY <1>1 DEF OInv
<1>. QED
  BY <1>1, <1>2, EndOrder

LEMMA InitOrder == Init => OInv
<1>. SUFFICES ASSUME Init
              PROVE  OInv
  OBVIOUS
<1>1. holder = [l \in Resources |-> Nobody] /\ tx = [p \in Txs |-> Idle]
  BY DEF Init
<1>2. {p \in Txs : tx[p] # Idle} = {}
  BY <1>1
<1>3. ASSUME NEW p \in Txs
      PROVE  OrderOK(p, tx[p], holder) /\ SeenOK(tx[p], res)
  <2>1. \A l \in Resources : holder[l] # p
    BY <1>1, LockConstants
  <2>. QED
    BY <1>1, <2>1, IdleOrder
<1>. QED
  BY <1>2, <1>3, FS_EmptySet DEF OInv

LEMMA NextOrder == IInv /\ OInv /\ [Next]_vars => OInv'
<1>. SUFFICES ASSUME IInv, OInv, [Next]_vars
              PROVE  OInv'
  OBVIOUS
<1>1. ASSUME NEW p \in Txs, Begin(p) \/ Acquire(p) \/ Victim(p) \/ Go(p)
      PROVE  OInv'
  BY <1>1, BeginOrder, AcquireOrder, VictimOrder, RecheckOrder, TryPlannerOrder, CountHoldsOrder,
     CommitOrder DEF Go
<1>2. CASE HoldLapses
  BY <1>2 DEF HoldLapses, OInv
<1>3. CASE UNCHANGED vars
  BY <1>3 DEF vars, OInv
<1>. QED
  BY <1>1, <1>2, <1>3 DEF Next

-----------------------------------------------------------------------------
(* Circles.                                                                 *)

Wanted(p) == Head(tx[p].todo)

\* What comes after a lock in the order of one handler.
LEMMA After ==
    ASSUME NEW c \in Calls \cup {"idle"}, NEW l, NEW m, l[1] \in Takes(c), m[1] \in Takes(c),
           Ahead(c, l, m), m[1] # "letters"
    PROVE  /\ l[1] = "reminders" => \/ m[1] = "reminders" /\ l[2] < m[2]
                                    \/ m[1] = "config" /\ c \in {"Retain", "Reconfigure"}
           /\ l[1] = "config" => \/ m[1] = "config" /\ l[2] < m[2]
                                 \/ m[1] = "reminders" /\ c \in {"Contact", "Erase"}
                                 \/ m[1] = "planner" /\ c = "Contact"
           /\ l[1] = "planner" => \/ m[1] = "planner" /\ l[2] < m[2]
                                  \/ m[1] \in {"reminders", "config"}
           /\ l[1] = "payment" => \/ m[1] = "payment" /\ l[2] < m[2]
                                  \/ m[1] = "reminders" /\ c = "Cancel"
           /\ l[1] = "command" => \/ m[1] = "command" /\ l[2] < m[2]
                                  \/ m[1] = "payment"
           /\ l[1] = "subject" => m[1] = "subject" /\ l[2] < m[2]
           /\ l[1] = "table" => \/ m[1] = "table" /\ l[2] < m[2]
                                \/ m[1] \in {"planner", "reminders"}
           /\ l[1] = "day" => \/ m[1] = "day" /\ l[2] < m[2]
                              \/ m[1] # "day"
<1>. DEFINE k == l[1]
            n == m[1]
            less == l[2] < m[2]
<1>1. Turn(c, k) < Turn(c, n) \/ (k = n /\ less)
  BY DEF Ahead
<1>. HIDE DEF less
<1>2. k = "reminders" => (n = "reminders" /\ less) \/ (n = "config" /\ c \in {"Retain", "Reconfigure"})
  BY <1>1, TakesOf, TurnOf DEF Calls
<1>3. k = "config" => \/ n = "config" /\ less
                      \/ n = "reminders" /\ c \in {"Contact", "Erase"}
                      \/ n = "planner" /\ c = "Contact"
  BY <1>1, TakesOf, TurnOf DEF Calls
<1>4. k = "planner" => (n = "planner" /\ less) \/ n \in {"reminders", "config"}
  BY <1>1, TakesOf, TurnOf DEF Calls
<1>5. k = "payment" => (n = "payment" /\ less) \/ (n = "reminders" /\ c = "Cancel")
  BY <1>1, TakesOf, TurnOf DEF Calls
<1>6. k = "command" => (n = "command" /\ less) \/ n = "payment"
  BY <1>1, TakesOf, TurnOf DEF Calls
<1>7. k = "subject" => n = "subject" /\ less
  BY <1>1, TakesOf, TurnOf DEF Calls
<1>8. k = "table" => (n = "table" /\ less) \/ n \in {"planner", "reminders"}
  BY <1>1, TakesOf, TurnOf DEF Calls
<1>9. k = "day" => (n = "day" /\ less) \/ n # "day"
  BY <1>1, TurnOf
<1>. QED
  BY <1>2, <1>3, <1>4, <1>5, <1>6, <1>7, <1>8, <1>9 DEF less

LEMMA WantedFacts ==
    ASSUME IInv, OInv, NEW p \in Txs, Blocked(p)
    PROVE  /\ Wanted(p) \in Resources /\ Its(tx[p], Wanted(p)) /\ Wanted(p) # Retention
           /\ holder[Wanted(p)] \in Txs \ {p}
           /\ tx[p].call \in Calls \cup {"idle"} /\ Wanted(p)[1] \in Takes(tx[p].call)
           /\ \A l \in Resources : holder[l] = p => Ahead(tx[p].call, l, Wanted(p))
           /\ \A l : Waits(tx[p], l) => l = Wanted(p) \/ Ahead(tx[p].call, Wanted(p), l)
<1>. DEFINE s == tx[p].todo
<1>1. /\ tx[p] \in TxRows /\ s \in Seq(Resources) /\ holder \in [Resources -> Txs \cup {Nobody}]
      /\ OrderOK(p, tx[p], holder)
  BY SessionFacts, OrderFacts
<1>2. s # <<>> /\ holder[Wanted(p)] \notin {Nobody, p}
  BY DEF Blocked, Wanted
<1>3. InOrder(tx[p], s) /\ \A l \in Resources : holder[l] = p => \A i \in 1..Len(s) : Ahead(tx[p].call, l, s[i])
  BY <1>1 DEF OrderOK
<1>. HIDE DEF s
<1>4. Wanted(p) = s[1] /\ 1 \in 1..Len(s) /\ Len(s) \in Nat /\ s[1] \in Resources
  <2>1. Wanted(p) = Head(s)
    BY DEF Wanted, s
  <2>. QED
    BY <1>1, <1>2, <2>1
<1>5. Its(tx[p], Wanted(p)) /\ Wanted(p) # Retention
  BY <1>3, <1>4 DEF InOrder
<1>6. ASSUME NEW l, Waits(tx[p], l)
      PROVE  l = Wanted(p) \/ Ahead(tx[p].call, Wanted(p), l)
  <2>1. PICK i \in 1..Len(s) : s[i] = l
    BY <1>6 DEF Waits, s
  <2>2. i = 1 \/ 1 < i
    BY <1>4
  <2>. QED
    BY <1>3, <1>4, <2>1, <2>2 DEF InOrder
<1>7. tx[p].call \in Calls \cup {"idle"} /\ Wanted(p)[1] \in Takes(tx[p].call)
  BY <1>1, <1>5 DEF TxRows, Its
<1>8. holder[Wanted(p)] \in Txs \ {p}
  BY <1>1, <1>2, <1>4
<1>. QED
  BY <1>3, <1>4, <1>5, <1>6, <1>7, <1>8

\* A session past its days, which is what one with rows is.
LEMMA InRows ==
    ASSUME IInv, OInv, NEW p \in Txs, NEW l, Its(tx[p], l), l[1] \notin {"retention", "day", "subject"},
           tx[p].call # "Reconfigure" \/ l[1] # "planner"
    PROVE  tx[p].phase = "rows"
<1>1. /\ tx[p].phase \in {"idle", "days", "rows", "insert"} /\ LocksOK(p, tx[p], holder)
      /\ OrderOK(p, tx[p], holder)
  BY SessionFacts, OrderFacts DEF TxRows
<1>2. tx[p].phase # "days" /\ l[1] \in Takes(tx[p].call)
  BY DEF Its
<1>3. tx[p].phase # "idle"
  BY <1>1, <1>2, TakesOf DEF OrderOK
<1>4. tx[p].phase # "insert"
  BY <1>1, <1>2, TakesOf DEF LocksOK
<1>. QED
  BY <1>1, <1>2, <1>3, <1>4

\* Whoever may take the messages of a reservation holds the day that it has.
LEMMA LettersHoldTheDay ==
    ASSUME IInv, OInv, NEW p \in Txs, NEW l, Its(tx[p], l), l[1] = "letters"
    PROVE  holder[Day(res[l[2]].day)] = p
<1>1. tx[p].phase = "rows"
  BY InRows
<1>2. /\ LocksOK(p, tx[p], holder) /\ ReadsOK(tx[p], res) /\ SeenOK(tx[p], res)
      /\ tx[p].call \in Calls \cup {"idle"}
  BY SessionFacts, OrderFacts DEF TxRows
<1>3. tx[p].call \in {"Edit", "Contact", "Cancel", "Erase", "Retain"}
  <2>1. "letters" \in Takes(tx[p].call)
    BY DEF Its
  <2>. QED
    BY <1>2, <2>1, TakesOf DEF Calls
<1>4. res[l[2]].day \in tx[p].days
  <2>1. CASE tx[p].call = "Retain"
    BY <1>1, <1>2, <2>1 DEF Its, SeenOK
  <2>2. CASE tx[p].call \in OnOneRow \ {"Settle"}
    <3>1. l[2] = tx[p].r
      BY <2>2 DEF Its, OfRows
    <3>. QED
      BY <1>1, <1>2, <2>2, <3>1 DEF ReadsOK
  <2>. QED
    BY <1>3, <2>1, <2>2 DEF OnOneRow
<1>. QED
  BY <1>1, <1>2, <1>4 DEF LocksOK

\* Whoever waits for what comes after the planner holds the planner.
LEMMA PlannerFirst ==
    ASSUME IInv, OInv, NEW p \in Txs, Blocked(p), "planner" \in Takes(tx[p].call),
           Turn(tx[p].call, "planner") < Turn(tx[p].call, Wanted(p)[1])
    PROVE  holder[Planner] = p
<1>1. /\ Its(tx[p], Wanted(p)) /\ tx[p].call \in Calls \cup {"idle"} /\ Wanted(p)[1] \in Takes(tx[p].call)
      /\ \A l : Waits(tx[p], l) => l = Wanted(p) \/ Ahead(tx[p].call, Wanted(p), l)
  BY WantedFacts
<1>2. Turn(tx[p].call, "planner") \in {5, 8}
  BY DEF Turn
<1>3. Wanted(p)[1] \notin {"retention", "day", "subject", "planner"}
  BY <1>2, TurnOf
<1>4. tx[p].phase = "rows"
  BY <1>1, <1>3, InRows
<1>5. ~Waits(tx[p], Planner)
  <2>1. Planner[1] = "planner" /\ Turn(tx[p].call, Wanted(p)[1]) \in Int
    BY Kinds DEF Turn
  <2>2. ~Ahead(tx[p].call, Wanted(p), Planner)
    BY <1>2, <1>3, <2>1 DEF Ahead
  <2>. QED
    BY <1>1, <1>3, <2>1, <2>2
<1>6. tx[p].call \in {"Edit", "Contact", "Erase", "Retain", "Plan", "Reconfigure"}
  BY <1>1, TakesOf DEF Calls
<1>7. LocksOK(p, tx[p], holder) /\ OrderOK(p, tx[p], holder)
  BY SessionFacts, OrderFacts
<1>8. CASE tx[p].call \in {"Edit", "Contact", "Reconfigure"}
  BY <1>4, <1>5, <1>7, <1>8 DEF OrderOK, Covers
<1>9. CASE tx[p].call \in {"Erase", "Retain"}
  <2>1. Planner \in Needs(tx[p])
    BY <1>9 DEF Needs
  <2>. QED
    BY <1>4, <1>5, <1>7, <2>1 DEF LocksOK, Covers
<1>10. CASE tx[p].call = "Plan"
  BY <1>4, <1>7, <1>10 DEF LocksOK
<1>. QED
  BY <1>6, <1>8, <1>9, <1>10

\* The links of a circle.
LEMMA Link ==
    ASSUME IInv, OInv, NEW S \in SUBSET Txs, Circle(S), NEW p \in S,
           NEW q, q = holder[Wanted(p)]
    PROVE  /\ q \in S /\ q \in Txs /\ q # p /\ Blocked(p) /\ Blocked(q)
           /\ Wanted(p) \in Resources /\ Wanted(q) \in Resources /\ holder[Wanted(q)] # q
           /\ Its(tx[p], Wanted(p)) /\ Its(tx[q], Wanted(p)) /\ Its(tx[q], Wanted(q))
           /\ Wanted(p) # Retention
           /\ tx[q].call \in Calls \cup {"idle"}
           /\ Wanted(p)[1] \in Takes(tx[q].call) /\ Wanted(q)[1] \in Takes(tx[q].call)
           /\ Ahead(tx[q].call, Wanted(p), Wanted(q))
           /\ Wanted(p)[1] # "letters"
<1>1. p \in Txs /\ q \in S /\ q \in Txs /\ Blocked(p) /\ Blocked(q)
  BY DEF Circle, Wanted
<1>2. Wanted(p) \in Resources /\ Its(tx[p], Wanted(p)) /\ Wanted(p) # Retention /\ q # p
  BY <1>1, WantedFacts
<1>3. /\ Wanted(q) \in Resources /\ Its(tx[q], Wanted(q)) /\ holder[Wanted(q)] # q
      /\ tx[q].call \in Calls \cup {"idle"} /\ Wanted(q)[1] \in Takes(tx[q].call)
      /\ Ahead(tx[q].call, Wanted(p), Wanted(q))
  BY <1>1, <1>2, WantedFacts
<1>4. Its(tx[q], Wanted(p)) /\ Wanted(p)[1] \in Takes(tx[q].call)
  BY <1>1, <1>2, OrderFacts
<1>5. Wanted(p)[1] # "letters"
  <2>1. SUFFICES ASSUME Wanted(p)[1] = "letters"
                 PROVE  FALSE
    OBVIOUS
  <2>2. holder[Day(res[Wanted(p)[2]].day)] = p
    BY <1>1, <1>2, <2>1, LettersHoldTheDay
  <2>3. holder[Day(res[Wanted(p)[2]].day)] = q
    BY <1>1, <1>4, <2>1, LettersHoldTheDay
  <2>. QED
    BY <1>2, <2>2, <2>3
<1>. QED
  BY <1>1, <1>2, <1>3, <1>4, <1>5

LEMMA RemindersInCircle ==
    ASSUME IInv, OInv, NEW S \in SUBSET Txs, Circle(S), NEW p \in S, Wanted(p)[1] = "reminders"
    PROVE  holder[Planner] = holder[Wanted(p)]
<1>. DEFINE q == holder[Wanted(p)]
            c == tx[q].call
            l == Wanted(p)
            m == Wanted(q)
<1>1. /\ q \in S /\ q \in Txs /\ Blocked(q) /\ l \in Resources /\ m \in Resources
      /\ Its(tx[q], l) /\ Its(tx[q], m) /\ c \in Calls \cup {"idle"}
      /\ l[1] \in Takes(c) /\ m[1] \in Takes(c) /\ Ahead(c, l, m)
  BY Link
<1>2. m[1] # "letters"
  BY <1>1, Link
<1>3. \/ m[1] = "reminders" /\ l[2] < m[2]
      \/ m[1] = "config" /\ c \in {"Retain", "Reconfigure"}
  BY <1>1, <1>2, After
<1>4. c \in {"Retain", "Plan", "Reconfigure"}
  <2>1. ASSUME c \in {"Edit", "Contact", "Cancel", "Erase"}
        PROVE  FALSE
    <3>1. m[1] = "reminders" /\ l[2] < m[2]
      BY <1>3, <2>1
    <3>2. l[2] = tx[q].r /\ m[2] = tx[q].r
      BY <1>1, <2>1, <3>1 DEF Its, OnOneRow, OfRows
    <3>3. l[2] \in Int
      BY <1>1, LockIs
    <3>. QED
      BY <3>1, <3>2, <3>3
  <2>. QED
    BY <1>1, <2>1, TakesOf DEF Calls
<1>5. "planner" \in Takes(c) /\ Turn(c, "planner") < Turn(c, m[1])
  BY <1>3, <1>4, TakesOf, TurnOf
<1>. QED
  BY <1>1, <1>5, PlannerFirst

LEMMA ConfigInCircle ==
    ASSUME IInv, OInv, NEW S \in SUBSET Txs, Circle(S), NEW p \in S, Wanted(p)[1] = "config",
           NEW q, q = holder[Wanted(p)]
    PROVE  holder[Planner] = q \/ Wanted(q) = Planner
<1>. DEFINE c == tx[q].call
            l == Wanted(p)
            m == Wanted(q)
<1>1. /\ q \in S /\ q \in Txs /\ Blocked(q) /\ l \in Resources /\ m \in Resources
      /\ c \in Calls \cup {"idle"} /\ holder[m] # q
      /\ l[1] \in Takes(c) /\ m[1] \in Takes(c) /\ Ahead(c, l, m)
  BY Link
<1>2. m[1] # "letters"
  BY <1>1, Link
<1>3. m[1] # "config"
  <2>1. l = Governance
    BY <1>1, LockIs DEF OfRows
  <2>2. m[1] = "config" => m = Governance
    BY <1>1, LockIs DEF OfRows
  <2>. QED
    BY <1>1, <2>1, <2>2
<1>4. \/ m[1] = "reminders" /\ c \in {"Contact", "Erase"}
      \/ m[1] = "planner" /\ c = "Contact"
  BY <1>1, <1>2, <1>3, After
<1>5. CASE m[1] = "reminders"
  <2>1. "planner" \in Takes(c) /\ Turn(c, "planner") < Turn(c, m[1])
    BY <1>4, <1>5, TakesOf, TurnOf
  <2>. QED
    BY <1>1, <2>1, PlannerFirst
<1>6. CASE m[1] = "planner"
  BY <1>1, <1>6, LockIs DEF OfRows
<1>. QED
  BY <1>4, <1>5, <1>6

\* A circle with one that holds the planner passes the configuration.
LEMMA PlannerInCircle ==
    ASSUME IInv, OInv, NEW S \in SUBSET Txs, Circle(S), NEW q \in S, holder[Planner] = q
    PROVE  {Planner, Governance} \subseteq {Wanted(p) : p \in S}
<1>. DEFINE u == holder[Wanted(q)]
            m == Wanted(q)
<1>1. /\ u \in S /\ u # q /\ q \in Txs /\ Blocked(q) /\ m \in Resources /\ m[1] # "letters"
      /\ Its(tx[q], m)
  BY Link
<1>2. /\ Planner \in Resources /\ Planner[1] = "planner" /\ Planner[2] = 0
  BY LocksAreResources, Kinds
<1>3. /\ tx[q].call \in Calls \cup {"idle"} /\ m[1] \in Takes(tx[q].call) /\ Ahead(tx[q].call, Planner, m)
      /\ Planner[1] \in Takes(tx[q].call)
  BY <1>1, <1>2, WantedFacts, OrderFacts
<1>4. (m[1] = "planner" /\ 0 < m[2]) \/ m[1] \in {"reminders", "config"}
  BY <1>1, <1>2, <1>3, After
<1>5. m[1] # "planner"
  BY <1>1, LockIs DEF OfRows
<1>6. m[1] # "reminders"
  BY <1>1, RemindersInCircle
<1>7. m = Governance
  BY <1>1, <1>4, <1>5, <1>6, LockIs DEF OfRows
<1>8. holder[Planner] = u \/ Wanted(u) = Planner
  BY <1>4, <1>5, <1>6, ConfigInCircle
<1>. QED
  BY <1>1, <1>7, <1>8

\* Numbers that can always be exceeded within a finite set are none.
LEMMA NoAscent ==
    ASSUME NEW T \in SUBSET Int, IsFiniteSet(T), \A x \in T : \E y \in T : x < y
    PROVE  T = {}
<1>. DEFINE n == Cardinality(T)
            q == Ordered(T)
<1>1. /\ q \in [1..n -> T] /\ n \in Nat /\ \A x \in T : \E i \in 1..n : q[i] = x
      /\ \A i, j \in 1..n : i < j => q[i] < q[j]
  BY OrderedFacts, Ascends
<1>. HIDE DEF n, q
<1>2. SUFFICES ASSUME NEW x \in T
               PROVE  FALSE
  OBVIOUS
<1>3. n \in 1..n
  BY <1>1
<1>4. PICK y \in T : q[n] < y
  BY <1>1, <1>3
<1>5. PICK i \in 1..n : q[i] = y
  BY <1>1
<1>6. i = n \/ i < n
  BY <1>1
<1>7. q[i] \in Int /\ q[n] \in Int
  BY <1>1, <1>3
<1>8. i < n => q[i] < q[n]
  BY <1>1, <1>3
<1>. QED
  BY <1>4, <1>5, <1>6, <1>7, <1>8

LEMMA FiniteCircle ==
    ASSUME IInv, OInv, NEW S \in SUBSET Txs, Circle(S)
    PROVE  IsFiniteSet(S)
<1>1. \A p \in S : tx[p] # Idle
  <2>. SUFFICES ASSUME NEW p \in S, tx[p] = Idle
                PROVE  FALSE
    OBVIOUS
  <2>1. Blocked(p)
    BY DEF Circle
  <2>2. tx[p].todo = <<>>
    BY DEF Idle
  <2>. QED
    BY <2>1, <2>2 DEF Blocked
<1>2. S \in SUBSET {p \in Txs : tx[p] # Idle}
  BY <1>1
<1>. QED
  BY <1>2, FS_Subset DEF OInv

\* Nobody in a circle waits for a kind of which each waits for a greater one.
LEMMA NoneOfKind ==
    ASSUME IInv, OInv, NEW S \in SUBSET Txs, Circle(S), NEW k,
           \A p \in S : Wanted(p)[1] = k => \E q \in S : Wanted(q)[1] = k /\ Wanted(p)[2] < Wanted(q)[2]
    PROVE  \A p \in S : Wanted(p)[1] # k
<1>. DEFINE A == {p \in S : Wanted(p)[1] = k}
            f == [p \in A |-> Wanted(p)[2]]
            T == {f[p] : p \in A}
<1>1. \A p \in S : Wanted(p)[2] \in Int
  BY Link, LockIs
<1>2. IsFiniteSet(A)
  <2>1. A \in SUBSET S
    OBVIOUS
  <2>. QED
    BY <2>1, FiniteCircle, FS_Subset
<1>3. IsFiniteSet(T)
  <2>1. f \in Surjection(A, T)
    BY DEF Surjection
  <2>. QED
    BY <1>2, <2>1, FS_Surjection
<1>4. T \in SUBSET Int
  BY <1>1
<1>5. \A x \in T : \E y \in T : x < y
  <2>. TAKE x \in T
  <2>1. PICK p \in A : x = Wanted(p)[2]
    OBVIOUS
  <2>2. PICK q \in S : Wanted(q)[1] = k /\ Wanted(p)[2] < Wanted(q)[2]
    OBVIOUS
  <2>3. q \in A /\ f[q] = Wanted(q)[2] /\ f[q] \in T
    BY <2>2
  <2>. QED
    BY <2>1, <2>2, <2>3
<1>6. T = {}
  BY <1>3, <1>4, <1>5, NoAscent
<1>. QED
  BY <1>6

LEMMA CirclesOfOrder ==
    ASSUME IInv, OInv, NEW S \in SUBSET Txs, Circle(S)
    PROVE  {Planner, Governance} \subseteq {Wanted(p) : p \in S}
<1>1. \A p \in S : /\ holder[Wanted(p)] \in S /\ Wanted(p) \in Resources
                   /\ Wanted(p)[1] # "letters" /\ Wanted(p) # Retention
  BY Link
<1>2. CASE \E p \in S : Wanted(p)[1] \in {"planner", "reminders", "config"}
  <2>1. PICK p \in S : Wanted(p)[1] \in {"planner", "reminders", "config"}
    BY <1>2
  <2>. DEFINE q == holder[Wanted(p)]
  <2>2. q \in S /\ Wanted(p) \in Resources
    BY <1>1
  <2>3. CASE Wanted(p)[1] = "planner"
    <3>1. Wanted(p) = Planner
      BY <2>2, <2>3, LockIs DEF OfRows
    <3>. QED
      BY <2>2, <3>1, PlannerInCircle
  <2>4. CASE Wanted(p)[1] = "reminders"
    BY <2>2, <2>4, RemindersInCircle, PlannerInCircle
  <2>5. CASE Wanted(p)[1] = "config"
    <3>1. holder[Planner] = q \/ Wanted(q) = Planner
      BY <2>5, ConfigInCircle
    <3>2. CASE holder[Planner] = q
      BY <2>2, <3>2, PlannerInCircle
    <3>3. CASE Wanted(q) = Planner
      <4>1. holder[Planner] \in S
        BY <1>1, <2>2, <3>3
      <4>. QED
        BY <4>1, PlannerInCircle
    <3>. QED
      BY <3>1, <3>2, <3>3
  <2>. QED
    BY <2>1, <2>3, <2>4, <2>5
<1>3. CASE \A p \in S : Wanted(p)[1] \notin {"planner", "reminders", "config"}
  <2>1. ASSUME NEW p \in S
        PROVE  LET q == holder[Wanted(p)]
                   l == Wanted(p)
                   m == Wanted(q)
               IN  /\ q \in S
                   /\ l[1] = "payment" => m[1] = "payment" /\ l[2] < m[2]
                   /\ l[1] = "command" => (m[1] = "command" /\ l[2] < m[2]) \/ m[1] = "payment"
                   /\ l[1] = "subject" => m[1] = "subject" /\ l[2] < m[2]
                   /\ l[1] = "table" => m[1] = "table" /\ l[2] < m[2]
                   /\ l[1] = "day" => (m[1] = "day" /\ l[2] < m[2]) \/ m[1] # "day"
    <3>. DEFINE q == holder[Wanted(p)]
                c == tx[q].call
    <3>1. /\ q \in S /\ c \in Calls \cup {"idle"}
          /\ Wanted(p)[1] \in Takes(c) /\ Wanted(q)[1] \in Takes(c) /\ Ahead(c, Wanted(p), Wanted(q))
      BY Link
    <3>2. Wanted(q)[1] \notin {"planner", "reminders", "config", "letters"}
      BY <1>1, <1>3, <3>1
    <3>. QED
      BY <3>1, <3>2, After
  <2>2. \A p \in S : Wanted(p)[1] # "payment"
    <3>1. \A p \in S : Wanted(p)[1] = "payment" =>
             \E q \in S : Wanted(q)[1] = "payment" /\ Wanted(p)[2] < Wanted(q)[2]
      BY <2>1
    <3>. QED
      BY <3>1, NoneOfKind
  <2>3. \A p \in S : Wanted(p)[1] # "command"
    <3>1. \A p \in S : Wanted(p)[1] = "command" =>
             \E q \in S : Wanted(q)[1] = "command" /\ Wanted(p)[2] < Wanted(q)[2]
      BY <2>1, <2>2
    <3>. QED
      BY <3>1, NoneOfKind
  <2>4. \A p \in S : Wanted(p)[1] # "subject"
    <3>1. \A p \in S : Wanted(p)[1] = "subject" =>
             \E q \in S : Wanted(q)[1] = "subject" /\ Wanted(p)[2] < Wanted(q)[2]
      BY <2>1
    <3>. QED
      BY <3>1, NoneOfKind
  <2>5. \A p \in S : Wanted(p)[1] # "table"
    <3>1. \A p \in S : Wanted(p)[1] = "table" =>
             \E q \in S : Wanted(q)[1] = "table" /\ Wanted(p)[2] < Wanted(q)[2]
      BY <2>1
    <3>. QED
      BY <3>1, NoneOfKind
  <2>6. \A p \in S : Wanted(p)[1] = "day"
    <3>. TAKE p \in S
    <3>1. Wanted(p) \in Resources /\ Wanted(p)[1] # "letters" /\ Wanted(p) # Retention
      BY <1>1
    <3>. QED
      BY <1>3, <2>2, <2>3, <2>4, <2>5, <3>1, LockIs DEF OfRows
  <2>7. \A p \in S : Wanted(p)[1] # "day"
    <3>1. \A p \in S : Wanted(p)[1] = "day" =>
             \E q \in S : Wanted(q)[1] = "day" /\ Wanted(p)[2] < Wanted(q)[2]
      BY <2>1, <2>6
    <3>. QED
      BY <3>1, NoneOfKind
  <2>8. S # {}
    BY DEF Circle
  <2>. QED
    BY <2>6, <2>7, <2>8
<1>. QED
  BY <1>2, <1>3

-----------------------------------------------------------------------------
(* Theorems.                                                                *)

\* However many handlers run, and however often a reservation moves while they
\* wait, a session that is past its days holds the anchor of every one of them and
\* what it has read there is still so; the planner of reminders excludes erasures,
\* and whoever is about to insert a hold has room for it.
THEOREM InductiveInvariant == Spec => []IInv
<1>. QED
  BY InitInv, NextInv, PTL DEF Spec

\* The variables keep their types (reservation_service.py, models.py).
THEOREM LockTypes == Spec => []TypeOK
<1>1. IInv => TypeOK
  <2>. SUFFICES ASSUME IInv
                PROVE  TypeOK
    OBVIOUS
  <2>1. Typed
    BY DEF IInv
  <2>2. ASSUME NEW p \in Txs
        PROVE  /\ tx[p].call \in Calls \cup {"idle"}
               /\ tx[p].phase \in {"idle", "days", "rows", "insert"}
               /\ tx[p].days \subseteq Days
               /\ ToSet(tx[p].todo) \subseteq Resources
    <3>1. tx[p] \in TxRows /\ tx[p].todo \in Seq(Resources)
      BY SessionFacts
    <3>2. ToSet(tx[p].todo) \subseteq Resources
      BY <3>1 DEF ToSet
    <3>. QED
      BY <3>1, <3>2 DEF TxRows
  <2>. QED
    BY <2>1, <2>2 DEF TypeOK, Typed, ResRows, HoldRows
<1>. QED
  BY <1>1, InductiveInvariant, PTL

\* Requests of one session or address, on whatever days and however they
\* interleave, never exceed the limits of live holds (reservation_service.py 1165-1175).
THEOREM HoldsStayWithinLimits == Spec => []LimitsHold
<1>1. IInv => LimitsHold
  BY DEF IInv
<1>. QED
  BY <1>1, InductiveInvariant, PTL

\* No message carries the data of a reservation that has been erased, although the
\* planner and a reconfiguration queue reminders without its day
\* (reservation_communication.py 539-541).
THEOREM ErasedStaysUnannounced == Spec => []ErasedHasNoMessages
<1>1. IInv => ErasedHasNoMessages
  BY DEF IInv
<1>. QED
  BY <1>1, InductiveInvariant, PTL

HeldFor(d1, d2) == \E p \in Txs : holder[Day(d1)] = p /\ holder[Day(d2)] = p

LEMMA WritesUnderDays ==
    ASSUME IInv, [Next]_vars
    PROVE  /\ \A r \in Reservations :
                (res'[r].day # res[r].day \/ res'[r].status # res[r].status)
                   => HeldFor(res[r].day, res'[r].day)
           /\ \A h \in holds' \ holds : h.live => HeldFor(h.day, h.day)
<1>. DEFINE Goal == /\ \A r \in Reservations :
                         (res'[r].day # res[r].day \/ res'[r].status # res[r].status)
                            => HeldFor(res[r].day, res'[r].day)
                    /\ \A h \in holds' \ holds : h.live => HeldFor(h.day, h.day)
<1>1. CASE UNCHANGED <<res, holds>>
  BY <1>1
<1>2. ASSUME NEW p \in Txs, CreateHold(p)
      PROVE  Goal
  <2>1. /\ tx[p].phase = "insert" /\ UNCHANGED res
        /\ \A h \in holds' \ holds : h.day = tx[p].to
    BY <1>2 DEF CreateHold
  <2>2. holder[Day(tx[p].to)] = p
    BY <2>1, SessionFacts DEF LocksOK
  <2>. QED
    BY <2>1, <2>2 DEF HeldFor
<1>3. ASSUME NEW p \in Txs, Edit(p)
      PROVE  Goal
  <2>1. "Edit" \in OnOneRow /\ Working(p, "Edit") /\ UNCHANGED holds
    BY <1>3 DEF Edit, OnOneRow
  <2>2. /\ tx[p].r \in Reservations /\ holder[Day(res[tx[p].r].day)] = p
        /\ holder[Day(tx[p].to)] = p
    BY <2>1, RowFacts
  <2>. DEFINE moved == res[tx[p].r].day # tx[p].to
  <2>3. PICK pay : res' = [res EXCEPT ![tx[p].r].day = tx[p].to, ![tx[p].r].pay = pay,
                              ![tx[p].r].attempt = IF pay = "pending" /\ moved THEN @ + 1 ELSE @]
    BY <1>3 DEF Edit
  <2>. HIDE DEF moved
  <2>4. /\ res'[tx[p].r].day = tx[p].to
        /\ \A r \in Reservations \ {tx[p].r} : res'[r] = res[r]
    BY <2>2, <2>3, MailFacts DEF ResRows
  <2>. QED
    BY <2>1, <2>2, <2>4 DEF HeldFor
<1>4. ASSUME NEW p \in Txs, Contact(p) \/ Erase(p)
      PROVE  Goal
  <2>1. UNCHANGED holds
    BY <1>4 DEF Contact, Erase
  <2>2. PICK b : res' = [res EXCEPT ![tx[p].r].personal = b]
    BY <1>4 DEF Contact, Erase
  <2>3. \A r \in Reservations : res'[r].day = res[r].day /\ res'[r].status = res[r].status
    BY <2>2, MailFacts DEF ResRows
  <2>. QED
    BY <2>1, <2>3
<1>5. ASSUME NEW p \in Txs, Cancel(p)
      PROVE  Goal
  <2>1. "Cancel" \in OnOneRow /\ Working(p, "Cancel") /\ UNCHANGED holds
        /\ res' = [res EXCEPT ![tx[p].r].status = "cancelled"]
    BY <1>5 DEF Cancel, OnOneRow
  <2>2. tx[p].r \in Reservations /\ holder[Day(res[tx[p].r].day)] = p
    BY <2>1, RowFacts
  <2>3. /\ res'[tx[p].r].day = res[tx[p].r].day
        /\ \A r \in Reservations \ {tx[p].r} : res'[r] = res[r]
    BY <2>1, <2>2, MailFacts DEF ResRows
  <2>. QED
    BY <2>1, <2>2, <2>3 DEF HeldFor
<1>6. ASSUME NEW p \in Txs, Settle(p)
      PROVE  Goal
  <2>. DEFINE r == tx[p].r
              current == res[r].attempt = tx[p].attempt /\ tx[p].days # {} /\ res[r].pay = "pending"
  <2>1. "Settle" \in OnOneRow /\ Working(p, "Settle") /\ UNCHANGED holds
    BY <1>6 DEF Settle, OnOneRow
  <2>2. PICK pay, status : res' = IF ~current THEN res
                                  ELSE [res EXCEPT ![r].pay = pay, ![r].status = status]
    BY <1>6 DEF Settle
  <2>3. CASE ~current
    BY <2>1, <2>2, <2>3
  <2>4. CASE current
    <3>1. r \in Reservations /\ holder[Day(res[r].day)] = p
      BY <2>1, <2>4, RowFacts
    <3>2. res' = [res EXCEPT ![r].pay = pay, ![r].status = status]
      BY <2>2, <2>4
    <3>3. res'[r].day = res[r].day /\ \A x \in Reservations \ {r} : res'[x] = res[x]
      BY <3>1, <3>2, MailFacts DEF ResRows
    <3>. QED
      BY <2>1, <3>1, <3>3 DEF HeldFor
  <2>. QED
    BY <2>3, <2>4
<1>7. ASSUME NEW p \in Txs, Retain(p) \/ Expire(p)
      PROVE  Goal
  <2>1. holds' \subseteq holds
    BY <1>7 DEF Retain, Expire
  <2>2. \A r \in Reservations : res'[r].day = res[r].day /\ res'[r].status = res[r].status
    <3>1. CASE Expire(p)
      BY <3>1 DEF Expire
    <3>2. CASE Retain(p)
      <4>1. res' = [r \in Reservations |-> IF r \in tx[p].seen THEN [res[r] EXCEPT !.personal = FALSE] ELSE res[r]]
        BY <3>2 DEF Retain
      <4>. QED
        BY <4>1, MailFacts DEF ResRows
    <3>. QED
      BY <1>7, <3>1, <3>2
  <2>. QED
    BY <2>1, <2>2
<1>8. CASE HoldLapses
  <2>1. PICK h \in holds : holds' = (holds \ {h}) \cup {[h EXCEPT !.live = FALSE]}
    BY <1>8 DEF HoldLapses
  <2>2. h \in HoldRows
    BY DEF IInv, Typed
  <2>3. ~[h EXCEPT !.live = FALSE].live
    BY <2>2 DEF HoldRows
  <2>4. \A x \in holds' \ holds : ~x.live
    BY <2>1, <2>3
  <2>5. UNCHANGED res
    BY <1>8 DEF HoldLapses
  <2>. QED
    BY <2>4, <2>5
<1>9. ASSUME NEW p \in Txs, Begin(p) \/ Acquire(p) \/ Victim(p) \/ Recheck(p) \/ TryPlanner(p)
                            \/ CountHolds(p) \/ Plan(p) \/ Reconfigure(p) \/ Rearrange(p)
      PROVE  UNCHANGED <<res, holds>>
  <2>1. CASE Begin(p)
    BY <2>1 DEF Begin, StartHold, StartExpire, StartEdit, StartContact, StartCancel, StartErase,
                StartPlan, StartOptimise, StartPublish, StartSettle, StartReconfigure,
                StartRetain, Start
  <2>2. CASE Acquire(p) \/ Victim(p) \/ Recheck(p) \/ TryPlanner(p) \/ CountHolds(p)
    BY <2>2 DEF Acquire, Victim, Recheck, TryPlanner, CountHolds
  <2>3. CASE Plan(p) \/ Reconfigure(p) \/ Rearrange(p)
    BY <2>3 DEF Plan, Reconfigure, Rearrange
  <2>. QED
    BY <1>9, <2>1, <2>2, <2>3
<1>10. CASE UNCHANGED vars
  BY <1>1, <1>10 DEF vars
<1>11. ASSUME NEW p \in Txs, Begin(p) \/ Acquire(p) \/ Victim(p) \/ Go(p)
       PROVE  Goal
  <2>1. CASE Commit(p)
    BY <1>1, <1>2, <1>3, <1>4, <1>5, <1>6, <1>7, <1>9, <2>1 DEF Commit
  <2>. QED
    BY <1>1, <1>9, <1>11, <2>1 DEF Go
<1>. QED
  BY <1>8, <1>10, <1>11 DEF Next

\* Whoever moves or closes a reservation holds the anchors of the day it had and of
\* the day it gets, and whoever makes a hold that of its day (main.py 2140-2154,
\* reservation_payment_worker.py 1150-1168, reservation_service.py 5).
THEOREM DaysGuardWrites == Spec => WritesHoldTheDay
<1>1. IInv /\ [Next]_vars
        => [LET Own(d1, d2) == \E p \in Txs : holder[Day(d1)] = p /\ holder[Day(d2)] = p
            IN /\ \A r \in Reservations :
                    (res'[r].day # res[r].day \/ res'[r].status # res[r].status)
                      => Own(res[r].day, res'[r].day)
               /\ \A h \in holds' \ holds : h.live => Own(h.day, h.day)]_vars
  BY WritesUnderDays DEF HeldFor
<1>. QED
  BY <1>1, InductiveInvariant, PTL DEF Spec, WritesHoldTheDay

\* Days, tables, subjects, messages and payments are taken in orders that never close a
\* circle, however many transactions wait and on whatever rows: every circle passes the
\* planner and the configuration row, which a change of contact takes in the other order
\* (main.py 4690-4865, routers/rodo.py 1474-1483, routers/lokal.py 38-47).
THEOREM CirclesNeedConfiguration == Spec => []CirclesPassConfiguration
<1>1. IInv /\ OInv => CirclesPassConfiguration
  BY CirclesOfOrder DEF CirclesPassConfiguration, Wanted
<1>. QED
  BY <1>1, InductiveInvariant, InitOrder, NextOrder, PTL DEF Spec

=============================================================================
