---------------------- MODULE CommunicationOutbox_proofs ----------------------
(***************************************************************************)
(* Proofs about CommunicationOutbox, for every set of workers and contacts *)
(* and every number of rows and tries.                                     *)
(*                                                                         *)
(* A row is Unseen while no provider can have seen it, and Tracked while   *)
(* neither a key at the gateway nor the ruling of an operator excuses a    *)
(* second copy.  The inductive invariant says that an unseen tracked row   *)
(* has no copy and no worker on the way to the provider, and one that is   *)
(* seen has one of the two at most.  Handlers move rows quietly: never     *)
(* from seen to unseen, and never to a lease that was not there.           *)
(***************************************************************************)
EXTENDS CommunicationOutbox, FiniteSetTheorems, SequenceTheorems, WellFoundedInduction, TLAPS

-----------------------------------------------------------------------------
(* The inductive invariant.                                                 *)

RowOK(r) ==
    /\ r \in Row
    /\ r.state = "processing" <=> r.holder # Nobody
    /\ r.state = "processing" <=> r.attempt # "none"
    /\ r.stale => r.state = "uncertain"

BoxOK(box) == box \in Seq(Row) /\ \A i \in 1..Len(box) : RowOK(box[i])

Statuses == {"none", "active", "cancelled", "ended", "waiting", "offered", "closed", "missing"}
OwnerRows == [status : Statuses, channels : SUBSET Contacts, at : 0..MaxNow, version : Nat]
WorkerRows == [at : {"idle", "claimed", "started", "answered"}, row : 0..MaxRows,
               result : {"none", "sent", "failed", "retry", "uncertain"}]

WorkerOK(j, box) ==
    /\ j.at # "idle" => j.row \in 1..Len(box)
    /\ j.at = "answered" => j.result # "none"

Typed ==
    /\ world \in Worlds /\ now \in 0..MaxNow /\ hours \in 0..MaxHours
    /\ owner \in OwnerRows
    /\ BoxOK(outbox) /\ Len(outbox) <= MaxRows
    /\ worker \in [world.workers -> WorkerRows]
    /\ \A w \in world.workers : WorkerOK(worker[w], outbox)
    /\ received \in [1..MaxRows -> 0..2]
    /\ \A i \in 1..MaxRows : i > Len(outbox) => received[i] = 0

\* No provider can have seen this row.
Unseen(r) == r.state \in PENDING_STATES \cup {"failed", "expired", "cancelled"} \/ BeforeIO(r)

\* A second copy of it would be nobody's decision.
Tracked(r) == r.contact \notin Idempotent /\ ~r.ruled

Sending(j, i) == j.at = "started" /\ j.row = i
Holds(r, w) == r.state = "processing" /\ r.holder = w

\* The row i and its copies c agree with one worker, and with two.
WorkerAgrees(r, i, c, w, j) ==
    /\ j.row = i /\ j.at \in {"started", "answered"} /\ Holds(r, w) => AfterIO(r)
    /\ Tracked(r) /\ Sending(j, i) =>
          /\ c = 0 /\ ~Unseen(r)
          /\ AfterIO(r) => r.holder = w
    /\ /\ Tracked(r) /\ j.row = i /\ j.at = "answered" /\ Holds(r, w)
       /\ j.result \in {"failed", "retry"}
       => c = 0

CopiesOK(r, c) ==
    /\ r.contact \in Idempotent => c <= 1
    /\ Tracked(r) => c <= 1 /\ (Unseen(r) => c = 0)

OneSender(r, i, W) ==
    Tracked(r) => \A v, w \in DOMAIN W : Sending(W[v], i) /\ Sending(W[w], i) => v = w

DeliveryOK(box, W, R) ==
    \A i \in 1..Len(box) :
        /\ CopiesOK(box[i], R[i])
        /\ OneSender(box[i], i, W)
        /\ \A w \in DOMAIN W : WorkerAgrees(box[i], i, R[i], w, W[w])

\* The keys of reminders and changes are those of their first rows; the reminders that
\* count speak to the contacts the owner has, and one that is alone in its generation
\* and has a successor was withdrawn.
KeysOK(box) == \A i \in 1..Len(box) : box[i].event \in {"reminder", "change"} => box[i].key <= i

Generation(box, i) == {j \in 1..Len(box) : box[j].event = "reminder" /\ box[j].key = box[i].key}

GenerationsOK(box, channels) ==
    \A i \in Of(box, {"reminder"}) :
        SinceChange(box, i) /\ channels # {}
        => channels = {box[j].contact : j \in Generation(box, i)}

Twins(box, i, j) ==
    /\ i < j
    /\ box[i].event = "reminder" /\ box[j].event = "reminder"
    /\ box[i].contact = box[j].contact /\ box[i].until = box[j].until
    /\ \A k \in (i + 1)..(j - 1) : box[k].event # "change"
    /\ \A k \in (1..Len(box)) \ {i} : box[k].key # box[i].key

TwinsOK(box) ==
    \A i, j \in 1..Len(box) : Twins(box, i, j) /\ Tracked(box[i]) => box[i].state = "cancelled"

RemindersOK(box, channels) == KeysOK(box) /\ GenerationsOK(box, channels) /\ TwinsOK(box)

\* An owner that is not there yet has no messages, one that is gone only empty rows.
OwnerOK(o, box) ==
    /\ o.status = "none" => box = <<>>
    /\ \A i \in 1..Len(box) : /\ box[i].state = "deleted" <=> o.status = "missing"
                              /\ o.status = "missing" => box[i].key = 0

IInv ==
    /\ Typed
    /\ DeliveryOK(outbox, worker, received)
    /\ OfferIsFenced
    /\ RemindersOK(outbox, owner.channels)
    /\ OwnerOK(owner, outbox)

-----------------------------------------------------------------------------
(* Sequences of rows.                                                       *)

LEMMA WorldFacts ==
    ASSUME world \in Worlds
    PROVE  /\ world.workers \subseteq Workers /\ world.times \subseteq 1..MaxNow
           /\ world.rows \in 0..MaxRows /\ world.tries \in Nat \ {0}
           /\ world.preferences \subseteq SUBSET Contacts /\ world.leads \subseteq 0..MaxHours
           /\ Nobody \notin world.workers
           /\ MaxNow \in Nat /\ MaxHours \in Nat /\ MaxRows \in Nat
BY ContactAssumption, BoundAssumption, WorkerAssumption

LEMMA ListOfRows ==
    ASSUME NEW S, NEW n \in Nat, NEW f \in [1..n -> S]
    PROVE  f \in Seq(S) /\ Len(f) = n
<1>1. f \in Seq(S)
  BY IsASeq
<1>2. DOMAIN f = 1..Len(f) /\ Len(f) \in Nat
  BY <1>1, LenProperties
<1>. QED
  BY <1>2

\* The community module turns a finite set into a sequence: it lists it.
LEMMA SetToSeqLists ==
    ASSUME NEW S, IsFiniteSet(S)
    PROVE  /\ SetToSeq(S) \in Seq(S) /\ Len(SetToSeq(S)) \in Nat
           /\ \A x \in S : \E i \in 1..Len(SetToSeq(S)) : SetToSeq(S)[i] = x
<1>. DEFINE n == Cardinality(S)
            q == SetToSeq(S)
<1>1. n \in Nat
  BY FS_CardinalityType
<1>2. \E f \in [1..n -> S] : IsInjective(f)
  <2>1. ExistsBijection(1..n, S)
    BY FS_CardinalityType
  <2>. QED
    BY <2>1 DEF ExistsBijection, Bijection, Injection, IsInjective
<1>3. q \in [1..n -> S] /\ IsInjective(q)
  BY <1>2 DEF SetToSeq
<1>. HIDE DEF n, q
<1>4. q \in Seq(S) /\ Len(q) = n
  BY <1>1, <1>3, ListOfRows
<1>. DEFINE im == {q[i] : i \in 1..n}
<1>5. im \in SUBSET S
  BY <1>3
<1>6. IsFiniteSet(im) /\ Cardinality(im) = n
  <2>1. IsFiniteSet(1..n) /\ Cardinality(1..n) = n
    BY <1>1, FS_Interval
  <2>2. q \in Bijection(1..n, im)
    BY <1>3 DEF Bijection, Injection, Surjection, IsInjective
  <2>. QED
    BY <2>1, <2>2, FS_Bijection DEF ExistsBijection
<1>7. im = S
  BY <1>5, <1>6, FS_Subset DEF n
<1>. QED
  BY <1>1, <1>4, <1>7 DEF q

-----------------------------------------------------------------------------
(* What handlers, operators and recoveries may do to a row.                 *)

\* What the row is about stays, and what is final stays.
Same(a, b) ==
    /\ b.event = a.event /\ b.key = a.key /\ b.contact = a.contact /\ b.until = a.until
    /\ a.ruled => b.ruled
    /\ a.state \in {"sent", "cancelled", "deleted"} => b.state = a.state
    /\ b.state = "deleted" => a.state = "deleted"

\* It does not become unseen again by itself, and nobody gets a lease.
Quiet(a, b) ==
    /\ b.contact = a.contact
    /\ a.ruled => b.ruled
    /\ Unseen(b) /\ Tracked(b) => Unseen(a)
    /\ b.state = "processing" => a.state = "processing" /\ b.holder = a.holder /\ b.attempt = a.attempt

Gentle(a, b) == Same(a, b) /\ Quiet(a, b) /\ RowOK(b)

LEMMA GentleSelf == ASSUME NEW a, RowOK(a) PROVE Gentle(a, a)
BY DEF Gentle, Same, Quiet

LEMMA GentleChain ==
    ASSUME NEW a, NEW b, NEW c, RowOK(a), Gentle(a, b), Gentle(b, c)
    PROVE  Gentle(a, c)
<1>1. a \in Row /\ b \in Row /\ c \in Row
  BY DEF Gentle, RowOK
<1>2. a.ruled \in BOOLEAN /\ b.ruled \in BOOLEAN /\ c.ruled \in BOOLEAN
  BY <1>1 DEF Row
<1>3. Same(a, c)
  BY DEF Gentle, Same
<1>4. Quiet(a, c)
  <2>1. Tracked(c) => Tracked(b)
    BY <1>2 DEF Gentle, Quiet, Tracked
  <2>. QED
    BY <2>1 DEF Gentle, Quiet
<1>. QED
  BY <1>3, <1>4 DEF Gentle

\* The lease is given up, for a state that claims no more than is known.
ClosesTo(a, st) ==
    /\ st \in RowStates \ {"processing", "deleted"}
    /\ a.stale => st = "uncertain"
    /\ a.state \in {"sent", "cancelled", "deleted"} => st = a.state
    /\ st \in {"sent", "uncertain"} \/ Unseen(a) \/ ~Tracked(a)

LEMMA ClosedFields ==
    ASSUME NEW a \in Row, NEW st \in RowStates
    PROVE  /\ Closed(a, st) \in Row
           /\ Closed(a, st).state = st /\ Closed(a, st).holder = Nobody
           /\ Closed(a, st).attempt = "none" /\ Closed(a, st).stale = a.stale
           /\ Closed(a, st).event = a.event /\ Closed(a, st).key = a.key
           /\ Closed(a, st).contact = a.contact /\ Closed(a, st).until = a.until
           /\ Closed(a, st).ruled = a.ruled
<1>. DEFINE d == IF st = "retry" THEN a.due ELSE 0
            n == IF st = "retry" THEN a.left ELSE 0
<1>1. d \in Int /\ n \in Nat
  BY DEF Row
<1>. DEFINE e == [a EXCEPT !.state = st, !.attempt = "none", !.holder = Nobody, !.lapsed = FALSE,
                           !.due = d, !.left = n]
<1>2. Closed(a, st) = e
  BY DEF Closed
<1>. HIDE DEF d, n
<1>3. e \in Row
  BY <1>1 DEF Row
<1>4. /\ e.state = st /\ e.holder = Nobody /\ e.attempt = "none" /\ e.stale = a.stale
      /\ e.event = a.event /\ e.key = a.key /\ e.contact = a.contact /\ e.until = a.until
      /\ e.ruled = a.ruled
  BY DEF Row
<1>. QED
  BY <1>2, <1>3, <1>4

LEMMA ClosedGentle ==
    ASSUME NEW a, RowOK(a), NEW st, ClosesTo(a, st)
    PROVE  /\ Gentle(a, Closed(a, st))
           /\ \A d \in Int : Gentle(a, [Closed(a, st) EXCEPT !.due = d])
<1>. DEFINE b == Closed(a, st)
<1>1. /\ b \in Row /\ b.state = st /\ b.holder = Nobody /\ b.attempt = "none" /\ b.stale = a.stale
      /\ b.event = a.event /\ b.key = a.key /\ b.contact = a.contact /\ b.until = a.until
      /\ b.ruled = a.ruled
  BY ClosedFields DEF RowOK, ClosesTo
<1>. HIDE DEF b
<1>2. RowOK(b)
  BY <1>1 DEF RowOK, ClosesTo
<1>3. Same(a, b)
  BY <1>1 DEF Same, ClosesTo
<1>4. Tracked(b) => Tracked(a)
  BY <1>1 DEF Tracked
<1>5. Unseen(b) => st \notin {"sent", "uncertain"}
  BY <1>1 DEF Unseen, BeforeIO, PENDING_STATES
<1>6. Quiet(a, b)
  BY <1>1, <1>4, <1>5 DEF Quiet, ClosesTo
<1>7. ASSUME NEW d \in Int
      PROVE  Gentle(a, [b EXCEPT !.due = d])
  <2>. DEFINE c == [b EXCEPT !.due = d]
  <2>1. /\ c \in Row /\ c.state = b.state /\ c.holder = b.holder /\ c.attempt = b.attempt /\ c.stale = b.stale
        /\ c.event = b.event /\ c.key = b.key /\ c.contact = b.contact /\ c.until = b.until
        /\ c.ruled = b.ruled
    BY <1>1 DEF Row
  <2>. HIDE DEF c
  <2>2. RowOK(c)
    BY <1>2, <2>1 DEF RowOK
  <2>3. Same(a, c)
    BY <1>3, <2>1 DEF Same
  <2>4. (Tracked(c) <=> Tracked(b)) /\ (Unseen(c) <=> Unseen(b))
    BY <2>1 DEF Tracked, Unseen, BeforeIO
  <2>5. Quiet(a, c)
    BY <1>6, <2>1, <2>4 DEF Quiet
  <2>6. Gentle(a, c)
    BY <2>2, <2>3, <2>5 DEF Gentle
  <2>. QED
    BY <2>6 DEF c
<1>8. Gentle(a, b)
  BY <1>2, <1>3, <1>6 DEF Gentle
<1>. QED
  BY <1>7, <1>8 DEF b

-----------------------------------------------------------------------------
(* What they may do to the outbox: old rows move gently, new ones come last. *)

Grown(box, b2) ==
    /\ BoxOK(b2) /\ Len(box) <= Len(b2)
    /\ \A i \in 1..Len(box) : Gentle(box[i], b2[i])
    /\ \A i \in 1..Len(b2) : i > Len(box) => b2[i].state # "deleted"

Moved(box, b2) == Grown(box, b2) /\ Len(b2) = Len(box)

LEMMA BoxLen == ASSUME NEW box, BoxOK(box) PROVE Len(box) \in Nat /\ \A i \in 1..Len(box) : RowOK(box[i]) /\ box[i] \in Row
<1>1. Len(box) \in Nat
  BY LenProperties DEF BoxOK
<1>2. \A i \in 1..Len(box) : RowOK(box[i])
  BY DEF BoxOK
<1>. QED
  BY <1>1, <1>2 DEF RowOK

LEMMA MovedSelf == ASSUME NEW box, BoxOK(box) PROVE Moved(box, box)
BY BoxLen, GentleSelf DEF Moved, Grown, BoxOK

LEMMA GrownChain ==
    ASSUME NEW a, NEW b, NEW c, BoxOK(a), Grown(a, b), Grown(b, c)
    PROVE  Grown(a, c)
<1>1. Len(a) \in Nat /\ Len(b) \in Nat /\ Len(c) \in Nat /\ Len(a) <= Len(b) /\ Len(b) <= Len(c)
  BY BoxLen DEF Grown
<1>2. \A i \in 1..Len(a) : i \in 1..Len(b) /\ Gentle(a[i], c[i])
  BY <1>1, BoxLen, GentleChain DEF Grown
<1>3. \A i \in 1..Len(c) : i > Len(a) => c[i].state # "deleted"
  <2>. TAKE i \in 1..Len(c)
  <2>1. CASE i > Len(b)
    BY <2>1 DEF Grown
  <2>2. CASE ~(i > Len(b)) /\ i > Len(a)
    <3>1. i \in 1..Len(b)
      BY <1>1, <2>2
    <3>. QED
      BY <2>2, <3>1 DEF Grown, Gentle, Same
  <2>. QED
    BY <2>1, <2>2
<1>. QED
  BY <1>1, <1>2, <1>3 DEF Grown

\* A change of each row on its own.
LEMMA RowsMoved ==
    ASSUME NEW box, BoxOK(box), NEW f, DOMAIN f = 1..Len(box), f = [i \in 1..Len(box) |-> f[i]],
           \A i \in 1..Len(box) : Gentle(box[i], f[i])
    PROVE  Moved(box, f)
<1>1. Len(box) \in Nat
  BY BoxLen
<1>2. f \in [1..Len(box) -> Row]
  BY DEF Gentle, RowOK
<1>3. f \in Seq(Row) /\ Len(f) = Len(box)
  BY <1>1, <1>2, ListOfRows
<1>. QED
  BY <1>1, <1>3 DEF Moved, Grown, BoxOK, Gentle

LEMMA CancelPendingMoves ==
    ASSUME NEW box, BoxOK(box), NEW events
    PROVE  /\ Moved(box, CancelPending(box, events))
           /\ \A i \in 1..Len(box) : box[i].event \notin events => CancelPending(box, events)[i] = box[i]
<1>. DEFINE f == CancelPending(box, events)
<1>1. DOMAIN f = 1..Len(box) /\ f = [i \in 1..Len(box) |-> f[i]]
  BY DEF CancelPending
<1>2. ASSUME NEW i \in 1..Len(box)
      PROVE  Gentle(box[i], f[i])
  <2>1. RowOK(box[i])
    BY BoxLen
  <2>2. CASE /\ box[i].event \in events
             /\ box[i].state \in PENDING_STATES \cup {"failed", "expired"} \/ BeforeIO(box[i])
    <3>1. ClosesTo(box[i], "cancelled")
      BY <2>1, <2>2 DEF ClosesTo, RowOK, Unseen, BeforeIO, PENDING_STATES, RowStates, Terminal
    <3>2. f[i] = Closed(box[i], "cancelled")
      BY <2>2 DEF CancelPending
    <3>. QED
      BY <2>1, <3>1, <3>2, ClosedGentle
  <2>3. CASE ~(/\ box[i].event \in events
               /\ box[i].state \in PENDING_STATES \cup {"failed", "expired"} \/ BeforeIO(box[i]))
    <3>1. f[i] = box[i]
      BY <2>3 DEF CancelPending
    <3>. QED
      BY <2>1, <3>1, GentleSelf
  <2>. QED
    BY <2>2, <2>3
<1>3. \A i \in 1..Len(box) : box[i].event \notin events => f[i] = box[i]
  BY DEF CancelPending
<1>. HIDE DEF f
<1>4. Moved(box, f)
  BY <1>1, <1>2, RowsMoved
<1>. QED
  BY <1>3, <1>4 DEF f

-----------------------------------------------------------------------------
(* Messages that are queued.                                                *)

LEMMA NewRowFields ==
    ASSUME world \in Worlds, NEW event \in Events, NEW key \in Nat, NEW c \in Contacts,
           NEW due \in Int, NEW until \in Nat
    PROVE  /\ RowOK(NewRow(event, key, c, due, until))
           /\ NewRow(event, key, c, due, until).state = "queued"
           /\ NewRow(event, key, c, due, until).event = event
           /\ NewRow(event, key, c, due, until).key = key
           /\ NewRow(event, key, c, due, until).contact = c
           /\ NewRow(event, key, c, due, until).until = until
<1>. DEFINE r == NewRow(event, key, c, due, until)
<1>1. world.tries \in Nat
  BY WorldFacts
<1>2. r \in Row
  BY <1>1 DEF NewRow, Row, RowStates, PENDING_STATES
<1>3. /\ r.state = "queued" /\ r.event = event /\ r.key = key /\ r.contact = c /\ r.until = until
      /\ r.holder = Nobody /\ r.attempt = "none" /\ r.stale = FALSE
  BY DEF NewRow
<1>. HIDE DEF r
<1>4. RowOK(r)
  BY <1>2, <1>3 DEF RowOK
<1>. QED
  BY <1>3, <1>4 DEF r

\* b2 is box with rows of one event and key after it, for some of the contacts C.
Queued(box, b2, event, key, until, C) ==
    /\ BoxOK(b2) /\ Len(box) <= Len(b2)
    /\ \A i \in 1..Len(box) : b2[i] = box[i]
    /\ \A i \in 1..Len(b2) : i > Len(box) =>
          /\ b2[i].event = event /\ b2[i].key = key /\ b2[i].until = until
          /\ b2[i].state = "queued" /\ b2[i].contact \in C

\* Every one of them gets its row.
AllAddressed(box, b2, C) == \A c \in C : \E i \in 1..Len(b2) : i > Len(box) /\ b2[i].contact = c

LEMMA QueuedGrows ==
    ASSUME NEW box, BoxOK(box), NEW b2, NEW event, NEW key, NEW until, NEW C,
           Queued(box, b2, event, key, until, C)
    PROVE  Grown(box, b2)
<1>1. \A i \in 1..Len(box) : Gentle(box[i], b2[i])
  BY BoxLen, GentleSelf DEF Queued
<1>. QED
  BY <1>1 DEF Queued, Grown

LEMMA EnqueueQueues ==
    ASSUME world \in Worlds, NEW box, BoxOK(box), NEW o \in OwnerRows, NEW event \in Events,
           NEW key \in Nat, NEW due \in Int, NEW until \in Nat
    PROVE  /\ Queued(box, Enqueue(box, o, event, key, due, until), event, key, until, o.channels)
           /\ until > due /\ (\A i \in 1..Len(box) : box[i].event = event => box[i].key # key)
              => AllAddressed(box, Enqueue(box, o, event, key, due, until), o.channels)
<1>. DEFINE new == {c \in o.channels :
                      \A i \in Of(box, {event}) : <<box[i].key, box[i].contact>> # <<key, c>>}
            S == {NewRow(event, key, c, due, until) : c \in new}
            q == SetToSeq(S)
            b2 == box \o q
<1>1. o.channels \in SUBSET Contacts /\ new \in SUBSET Contacts
  BY DEF OwnerRows
<1>2. IsFiniteSet(new)
  BY <1>1, ContactAssumption, FS_Subset
<1>3. IsFiniteSet(S)
  <2>. DEFINE f == [c \in new |-> NewRow(event, key, c, due, until)]
  <2>1. f \in Surjection(new, S)
    BY DEF Surjection
  <2>. HIDE DEF f, new, S
  <2>. QED
    BY <1>2, <2>1, FS_Surjection
<1>4. q \in Seq(S) /\ Len(q) \in Nat /\ \A x \in S : \E i \in 1..Len(q) : q[i] = x
  BY <1>3, SetToSeqLists
<1>5. \A x \in S : /\ RowOK(x) /\ x \in Row /\ x.event = event /\ x.key = key /\ x.until = until
                   /\ x.state = "queued" /\ x.contact \in o.channels
  <2>. TAKE x \in S
  <2>1. PICK c \in new : x = NewRow(event, key, c, due, until)
    OBVIOUS
  <2>2. c \in Contacts /\ c \in o.channels
    BY <1>1
  <2>3. RowOK(x) /\ x.event = event /\ x.key = key /\ x.until = until /\ x.state = "queued" /\ x.contact = c
    BY <2>1, <2>2, NewRowFields
  <2>. QED
    BY <2>2, <2>3 DEF RowOK
<1>6. \A c \in new : \E x \in S : x.contact = c
  <2>. TAKE c \in new
  <2>. DEFINE x == NewRow(event, key, c, due, until)
  <2>1. x \in S /\ c \in Contacts
    BY <1>1
  <2>2. x.contact = c
    BY <2>1, NewRowFields
  <2>. HIDE DEF x, S
  <2>. QED
    BY <2>1, <2>2
<1>7. (\A i \in 1..Len(box) : box[i].event = event => box[i].key # key) => new = o.channels
  BY DEF Of
<1>8. Len(box) \in Nat /\ box \in Seq(Row) /\ \A i \in 1..Len(box) : RowOK(box[i])
  BY BoxLen DEF BoxOK
<1>. HIDE DEF S, q, new
<1>9. q \in Seq(Row)
  BY <1>4, <1>5, SeqMonotonic
<1>10. \A i \in 1..Len(q) : q[i] \in S
  BY <1>4, ElementOfSeq
<1>11. /\ b2 \in Seq(Row) /\ Len(b2) = Len(box) + Len(q)
       /\ \A i \in 1..Len(b2) : b2[i] = IF i <= Len(box) THEN box[i] ELSE q[i - Len(box)]
  BY <1>8, <1>9, ConcatProperties
<1>. HIDE DEF b2
<1>12. \A i \in 1..Len(box) : i \in 1..Len(b2) /\ b2[i] = box[i]
  BY <1>4, <1>8, <1>11
<1>13. \A i \in 1..Len(b2) : i > Len(box) => b2[i] \in S
  <2>. TAKE i \in 1..Len(b2)
  <2>1. i > Len(box) => i - Len(box) \in 1..Len(q) /\ b2[i] = q[i - Len(box)]
    BY <1>4, <1>8, <1>11
  <2>. QED
    BY <1>10, <2>1
<1>14. \A i \in 1..Len(b2) : RowOK(b2[i])
  <2>. TAKE i \in 1..Len(b2)
  <2>1. CASE i > Len(box)
    BY <1>5, <1>13, <2>1
  <2>2. CASE ~(i > Len(box))
    <3>1. i \in 1..Len(box)
      BY <1>4, <1>8, <1>11, <2>2
    <3>. QED
      BY <1>8, <1>12, <3>1
  <2>. QED
    BY <2>1, <2>2
<1>15. Queued(box, b2, event, key, until, o.channels)
  <2>1. Len(box) <= Len(b2)
    BY <1>4, <1>8, <1>11
  <2>2. \A i \in 1..Len(b2) : i > Len(box) =>
          /\ b2[i].event = event /\ b2[i].key = key /\ b2[i].until = until
          /\ b2[i].state = "queued" /\ b2[i].contact \in o.channels
    BY <1>5, <1>13
  <2>. QED
    BY <1>11, <1>12, <1>14, <2>1, <2>2 DEF Queued, BoxOK
<1>16. new = o.channels => AllAddressed(box, b2, o.channels)
  <2>. SUFFICES ASSUME new = o.channels, NEW c \in o.channels
                PROVE  \E i \in 1..Len(b2) : i > Len(box) /\ b2[i].contact = c
    BY DEF AllAddressed
  <2>1. PICK x \in S : x.contact = c
    BY <1>6
  <2>2. PICK j \in 1..Len(q) : q[j] = x
    BY <1>4
  <2>3. Len(box) + j \in 1..Len(b2) /\ Len(box) + j > Len(box) /\ Len(box) + j - Len(box) = j
    BY <1>4, <1>8, <1>11, SMTT(30)
  <2>4. b2[Len(box) + j] = q[j]
    BY <1>8, <1>11, <2>3
  <2>. QED
    BY <2>1, <2>2, <2>3, <2>4
<1>17. CASE until <= due
  <2>1. Enqueue(box, o, event, key, due, until) = box
    BY <1>17 DEF Enqueue
  <2>2. Queued(box, box, event, key, until, o.channels)
    BY <1>8 DEF Queued, BoxOK
  <2>. QED
    BY <1>17, <2>1, <2>2
<1>18. CASE ~(until <= due)
  <2>1. Enqueue(box, o, event, key, due, until) = b2
    BY <1>18 DEF Enqueue, b2, q, S, new
  <2>. QED
    BY <1>7, <1>15, <1>16, <2>1
<1>. QED
  BY <1>17, <1>18

-----------------------------------------------------------------------------
(* Reminders.                                                               *)

SameRows(box, b2) == Len(b2) = Len(box) /\ \A i \in 1..Len(box) : Same(box[i], b2[i])

LEMMA SinceChangeFacts ==
    ASSUME NEW box, NEW b2, Len(box) \in Nat, Len(b2) \in Nat, Len(box) <= Len(b2),
           \A i \in 1..Len(box) : b2[i].event = box[i].event,
           NEW i \in 1..Len(box)
    PROVE  /\ SinceChange(b2, i) => SinceChange(box, i)
           /\ SinceChange(box, i) /\ (\A j \in 1..Len(b2) : j > Len(box) => b2[j].event # "change")
              => SinceChange(b2, i)
<1>1. \A j \in (i + 1)..Len(box) : j \in 1..Len(box) /\ j \in (i + 1)..Len(b2)
  OBVIOUS
<1>2. \A j \in (i + 1)..Len(b2) : j \in (i + 1)..Len(box) \/ (j \in 1..Len(b2) /\ j > Len(box))
  OBVIOUS
<1>. QED
  BY <1>1, <1>2 DEF SinceChange

LEMMA RemindersMoved ==
    ASSUME NEW box, BoxOK(box), NEW ch, RemindersOK(box, ch), NEW b2, SameRows(box, b2)
    PROVE  RemindersOK(b2, ch)
<1>. DEFINE n == Len(box)
<1>1. n \in Nat /\ Len(b2) = n
  BY BoxLen DEF SameRows
<1>2. \A i \in 1..n : /\ b2[i].event = box[i].event /\ b2[i].key = box[i].key
                      /\ b2[i].contact = box[i].contact /\ b2[i].until = box[i].until
                      /\ box[i].ruled => b2[i].ruled
                      /\ box[i].state = "cancelled" => b2[i].state = "cancelled"
                      /\ b2[i].state = "deleted" <=> box[i].state = "deleted"
  BY DEF SameRows, Same
<1>3. KeysOK(b2)
  BY <1>1, <1>2 DEF RemindersOK, KeysOK
<1>4. GenerationsOK(b2, ch)
  <2>. SUFFICES ASSUME NEW i \in Of(b2, {"reminder"}), SinceChange(b2, i), ch # {}
                PROVE  ch = {b2[j].contact : j \in Generation(b2, i)}
    BY DEF GenerationsOK
  <2>1. i \in 1..n /\ i \in Of(box, {"reminder"})
    BY <1>1, <1>2 DEF Of
  <2>2. SinceChange(box, i)
    BY <1>1, <1>2, <2>1, SinceChangeFacts
  <2>3. Generation(b2, i) = Generation(box, i) /\ Generation(box, i) \subseteq 1..n
    BY <1>1, <1>2, <2>1 DEF Generation
  <2>4. {b2[j].contact : j \in Generation(b2, i)} = {box[j].contact : j \in Generation(box, i)}
    BY <1>2, <2>3
  <2>. QED
    BY <2>1, <2>2, <2>4 DEF RemindersOK, GenerationsOK
<1>5. TwinsOK(b2)
  <2>. SUFFICES ASSUME NEW i \in 1..n, NEW j \in 1..n, Twins(b2, i, j), Tracked(b2[i])
                PROVE  b2[i].state = "cancelled"
    BY <1>1 DEF TwinsOK
  <2>1. \A k \in (i + 1)..(j - 1) : k \in 1..n
    BY <1>1
  <2>2. Twins(box, i, j)
    BY <1>1, <1>2, <2>1 DEF Twins
  <2>3. Tracked(box[i])
    BY <1>2 DEF Tracked
  <2>. QED
    BY <1>2, <2>2, <2>3 DEF RemindersOK, TwinsOK
<1>. QED
  BY <1>3, <1>4, <1>5 DEF RemindersOK

\* Twins among the rows that were there stay twins in the shorter box.
LEMMA OldTwins ==
    ASSUME NEW box, NEW b2, Len(box) \in Nat, Len(b2) \in Nat, Len(box) <= Len(b2),
           \A i \in 1..Len(box) : b2[i] = box[i],
           NEW i \in 1..Len(box), NEW j \in 1..Len(box), Twins(b2, i, j)
    PROVE  Twins(box, i, j)
<1>1. \A k \in (i + 1)..(j - 1) : k \in 1..Len(box)
  OBVIOUS
<1>2. \A k \in 1..Len(box) : k \in 1..Len(b2)
  OBVIOUS
<1>. QED
  BY <1>1, <1>2 DEF Twins

\* Messages of another kind do not count, and a change ends what counted.
LEMMA RemindersBesides ==
    ASSUME NEW box, BoxOK(box), NEW ch, NEW ch2, RemindersOK(box, ch), NEW b2,
           NEW event \in Events \ {"reminder"}, NEW key \in Nat, NEW until, NEW C,
           Queued(box, b2, event, key, until, C),
           \/ event # "change" /\ ch2 = ch
           \/ event = "change" /\ key = Len(box) + 1 /\ (ch2 # {} => Len(b2) > Len(box))
    PROVE  RemindersOK(b2, ch2)
<1>. DEFINE n == Len(box)
<1>1. n \in Nat /\ Len(b2) \in Nat /\ n <= Len(b2)
  BY BoxLen DEF Queued
<1>2. \A i \in 1..n : b2[i] = box[i]
  BY DEF Queued
<1>3. \A i \in 1..Len(b2) : i > n => b2[i].event = event /\ b2[i].key = key
  BY DEF Queued
<1>4. \A i \in 1..Len(b2) : b2[i].event = "reminder" => i \in 1..n
  BY <1>1, <1>3
<1>5. KeysOK(b2)
  <2>. SUFFICES ASSUME NEW i \in 1..Len(b2), b2[i].event \in {"reminder", "change"}
                PROVE  b2[i].key <= i
    BY DEF KeysOK
  <2>1. CASE i \in 1..n
    BY <1>2, <2>1 DEF RemindersOK, KeysOK
  <2>2. CASE i \notin 1..n
    BY <1>1, <1>3, <1>4, <2>2
  <2>. QED
    BY <2>1, <2>2
<1>6. GenerationsOK(b2, ch2)
  <2>. SUFFICES ASSUME NEW i \in Of(b2, {"reminder"}), SinceChange(b2, i), ch2 # {}
                PROVE  ch2 = {b2[j].contact : j \in Generation(b2, i)}
    BY DEF GenerationsOK
  <2>1. i \in 1..n /\ i \in 1..Len(b2) /\ i \in Of(box, {"reminder"})
    BY <1>2, <1>4 DEF Of
  <2>2. event # "change" /\ ch2 = ch
    <3>. SUFFICES ASSUME event = "change", Len(b2) > n PROVE FALSE
      OBVIOUS
    <3>1. n + 1 \in (i + 1)..Len(b2) /\ n + 1 \in 1..Len(b2) /\ n + 1 > n
      BY <1>1, <2>1
    <3>. QED
      BY <1>3, <3>1 DEF SinceChange
  <2>3. SinceChange(box, i)
    BY <1>1, <1>2, <2>1, SinceChangeFacts
  <2>4. Generation(b2, i) = Generation(box, i) /\ Generation(box, i) \subseteq 1..n
    BY <1>1, <1>2, <1>4, <2>1 DEF Generation
  <2>5. {b2[j].contact : j \in Generation(b2, i)} = {box[j].contact : j \in Generation(box, i)}
    BY <1>2, <2>4
  <2>. QED
    BY <2>1, <2>2, <2>3, <2>5 DEF RemindersOK, GenerationsOK
<1>7. TwinsOK(b2)
  <2>. SUFFICES ASSUME NEW i \in 1..Len(b2), NEW j \in 1..Len(b2), Twins(b2, i, j), Tracked(b2[i])
                PROVE  b2[i].state = "cancelled"
    BY DEF TwinsOK
  <2>1. i \in 1..n /\ j \in 1..n
    BY <1>4 DEF Twins
  <2>2. Twins(box, i, j)
    BY <1>1, <1>2, <2>1, OldTwins
  <2>. QED
    BY <1>2, <2>1, <2>2 DEF RemindersOK, TwinsOK
<1>. QED
  BY <1>5, <1>6, <1>7 DEF RemindersOK

\* A new generation of reminders: every older one that it might repeat is withdrawn.
LEMMA RemindersRenewed ==
    ASSUME NEW box, BoxOK(box), NEW ch, RemindersOK(box, ch), NEW b2, NEW until,
           Queued(box, b2, "reminder", Len(box) + 1, until, ch), AllAddressed(box, b2, ch),
           \A i \in 1..Len(box) :
              /\ box[i].event = "reminder" /\ box[i].until = until /\ box[i].contact \in ch
              /\ SinceChange(box, i) /\ Generation(box, i) = {i}
              => box[i].state = "cancelled"
    PROVE  RemindersOK(b2, ch)
<1>. DEFINE n == Len(box)
<1>1. n \in Nat /\ Len(b2) \in Nat /\ n <= Len(b2)
  BY BoxLen DEF Queued
<1>2. \A i \in 1..n : b2[i] = box[i]
  BY DEF Queued
<1>3. \A i \in 1..Len(b2) : i > n => /\ b2[i].event = "reminder" /\ b2[i].key = n + 1
                                     /\ b2[i].until = until /\ b2[i].contact \in ch
  BY DEF Queued
<1>4. \A i \in 1..Len(b2) : i \in 1..n \/ i > n
  BY <1>1
<1>5. \A i \in 1..n : box[i].event = "reminder" => box[i].key # n + 1
  <2>. SUFFICES ASSUME NEW i \in 1..n, box[i].event = "reminder" PROVE box[i].key # n + 1
    OBVIOUS
  <2>1. box[i].key <= i
    BY DEF RemindersOK, KeysOK
  <2>. QED
    BY <1>1, <2>1
<1>6. KeysOK(b2)
  <2>. SUFFICES ASSUME NEW i \in 1..Len(b2), b2[i].event \in {"reminder", "change"}
                PROVE  b2[i].key <= i
    BY DEF KeysOK
  <2>1. CASE i \in 1..n
    BY <1>2, <2>1 DEF RemindersOK, KeysOK
  <2>2. CASE i > n
    BY <1>1, <1>3, <2>2
  <2>. QED
    BY <1>4, <2>1, <2>2
<1>7. GenerationsOK(b2, ch)
  <2>. SUFFICES ASSUME NEW i \in Of(b2, {"reminder"}), SinceChange(b2, i), ch # {}
                PROVE  ch = {b2[j].contact : j \in Generation(b2, i)}
    BY DEF GenerationsOK
  <2>1. i \in 1..Len(b2) /\ b2[i].event = "reminder"
    BY DEF Of
  <2>2. CASE i \in 1..n
    <3>1. i \in Of(box, {"reminder"})
      BY <1>2, <2>2 DEF Of
    <3>2. SinceChange(box, i)
      BY <1>1, <1>2, <2>2, SinceChangeFacts
    <3>3. \A j \in 1..Len(b2) : j > n => b2[j].key # b2[i].key
      BY <1>2, <1>3, <1>5, <2>1, <2>2
    <3>4. Generation(b2, i) = Generation(box, i) /\ Generation(box, i) \subseteq 1..n
      BY <1>1, <1>2, <1>4, <2>2, <3>3 DEF Generation
    <3>5. {b2[j].contact : j \in Generation(b2, i)} = {box[j].contact : j \in Generation(box, i)}
      BY <1>2, <3>4
    <3>. QED
      BY <3>1, <3>2, <3>5 DEF RemindersOK, GenerationsOK
  <2>3. CASE i > n
    <3>1. \A j \in Generation(b2, i) : j \in 1..Len(b2) /\ j > n
      BY <1>2, <1>3, <1>4, <1>5, <2>1, <2>3 DEF Generation
    <3>2. \A j \in 1..Len(b2) : j > n => j \in Generation(b2, i)
      BY <1>3, <2>1, <2>3 DEF Generation
    <3>3. \A j \in Generation(b2, i) : b2[j].contact \in ch
      BY <1>3, <3>1
    <3>4. \A c \in ch : \E j \in Generation(b2, i) : b2[j].contact = c
      BY <3>2 DEF AllAddressed
    <3>. QED
      BY <3>3, <3>4
  <2>. QED
    BY <1>4, <2>1, <2>2, <2>3
<1>8. TwinsOK(b2)
  <2>. SUFFICES ASSUME NEW i \in 1..Len(b2), NEW j \in 1..Len(b2), Twins(b2, i, j), Tracked(b2[i])
                PROVE  b2[i].state = "cancelled"
    BY DEF TwinsOK
  <2>1. i < j /\ b2[i].event = "reminder"
    BY DEF Twins
  <2>2. CASE j \in 1..n
    <3>1. i \in 1..n
      BY <1>1, <2>1, <2>2
    <3>2. Twins(box, i, j)
      BY <1>1, <1>2, <2>2, <3>1, OldTwins
    <3>. QED
      BY <1>2, <2>2, <3>1, <3>2 DEF RemindersOK, TwinsOK
  <2>3. CASE j > n
    <3>1. \A k \in (1..Len(b2)) \ {i} : b2[k].key # b2[i].key
      BY DEF Twins
    <3>2. i \in 1..n
      <4>. SUFFICES ASSUME i > n PROVE FALSE
        BY <1>4
      <4>. QED
        BY <1>3, <2>1, <2>3, <3>1
    <3>3. box[i].event = "reminder" /\ box[i].until = until /\ box[i].contact \in ch
      BY <1>2, <1>3, <2>3, <3>2 DEF Twins
    <3>4. SinceChange(box, i)
      <4>1. \A k \in (i + 1)..n : k \in (i + 1)..(j - 1) /\ k \in 1..n
        BY <1>1, <2>3, <3>2
      <4>. QED
        BY <1>2, <4>1 DEF SinceChange, Twins
    <3>5. Generation(box, i) = {i}
      <4>1. \A k \in 1..n : k # i => box[k].key # box[i].key
        BY <1>1, <1>2, <3>1, <3>2
      <4>. QED
        BY <3>2, <3>3, <4>1 DEF Generation
    <3>. QED
      BY <1>2, <3>2, <3>3, <3>4, <3>5
  <2>. QED
    BY <1>4, <2>2, <2>3
<1>. QED
  BY <1>6, <1>7, <1>8 DEF RemindersOK

LEMMA MovedSame ==
    ASSUME NEW box, NEW b2, Moved(box, b2)
    PROVE  SameRows(box, b2) /\ BoxOK(b2)
BY DEF Moved, Grown, SameRows, Gentle

\* The rows that a schedule withdraws before it queues a new generation.
Cleared(b) ==
    LET pending == {i \in ExistingReminders(b) : b[i].state \in PENDING_STATES}
    IN [i \in 1..Len(b) |-> IF i \in pending THEN Closed(b[i], "cancelled") ELSE b[i]]

LEMMA ClearedMoves ==
    ASSUME NEW b, BoxOK(b)
    PROVE  /\ Moved(b, Cleared(b))
           /\ \A i \in 1..Len(b) :
                Cleared(b)[i].state = "cancelled"
                \/ i \notin ExistingReminders(b) \/ b[i].state \notin PENDING_STATES
<1>. DEFINE pending == {i \in ExistingReminders(b) : b[i].state \in PENDING_STATES}
            f == Cleared(b)
<1>1. DOMAIN f = 1..Len(b) /\ f = [i \in 1..Len(b) |-> f[i]]
  BY DEF Cleared
<1>2. \A i \in 1..Len(b) : f[i] = IF i \in pending THEN Closed(b[i], "cancelled") ELSE b[i]
  BY DEF Cleared
<1>3. \A i \in 1..Len(b) : i \in pending <=> i \in ExistingReminders(b) /\ b[i].state \in PENDING_STATES
  OBVIOUS
<1>. HIDE DEF f, pending
<1>4. ASSUME NEW i \in 1..Len(b)
      PROVE  Gentle(b[i], f[i]) /\ (i \in pending => f[i].state = "cancelled")
  <2>1. RowOK(b[i]) /\ b[i] \in Row
    BY BoxLen
  <2>2. CASE i \in pending
    <3>1. ClosesTo(b[i], "cancelled")
      BY <1>3, <2>1, <2>2 DEF ClosesTo, RowOK, Unseen, PENDING_STATES, RowStates, Terminal
    <3>2. "cancelled" \in RowStates
      BY DEF RowStates, Terminal
    <3>. QED
      BY <1>2, <2>1, <2>2, <3>1, <3>2, ClosedGentle, ClosedFields
  <2>3. CASE i \notin pending
    BY <1>2, <2>1, <2>3, GentleSelf
  <2>. QED
    BY <2>2, <2>3
<1>5. Moved(b, f)
  BY <1>1, <1>4, RowsMoved
<1>. QED
  BY <1>3, <1>4, <1>5 DEF f

\* Any schedule of a reminder, by a handler, by a new configuration or by the planner.
LEMMA ScheduleReminderKeeps ==
    ASSUME world \in Worlds, NEW box, BoxOK(box), NEW o \in OwnerRows, NEW h \in 0..MaxHours,
           NEW force \in BOOLEAN, RemindersOK(box, o.channels),
           o.status = "active" => \A i \in 1..Len(box) : box[i].state # "deleted",
           force => \A i \in Of(box, {"reminder"}) : ~SinceChange(box, i) \/ o.channels = {}
    PROVE  /\ Grown(box, ScheduleReminder(box, o, h, force))
           /\ RemindersOK(ScheduleReminder(box, o, h, force), o.channels)
           /\ o.status # "active" => Moved(box, ScheduleReminder(box, o, h, force))
<1>. DEFINE b2 == ScheduleReminder(box, o, h, force)
            b == IF force THEN CancelPending(box, {"reminder"}) ELSE box
            matching == MatchingReminders(b, o, h)
            enough == ~force /\ matching # {} /\ {b[i].contact : i \in matching} = o.channels
            kept == Cleared(b)
            added == Enqueue(kept, o, "reminder", Len(b) + 1, o.at - h, o.at)
<1>0. MaxNow \in Nat /\ MaxHours \in Nat
  BY WorldFacts
<1>1. o.at \in Nat /\ h \in Nat /\ o.at - h \in Int
  BY <1>0 DEF OwnerRows
<1>2. CASE ~ReminderDue(o, h)
  <2>1. b2 = CancelPending(box, {"reminder"})
    BY <1>2 DEF ScheduleReminder
  <2>2. Moved(box, b2)
    BY <2>1, CancelPendingMoves
  <2>. QED
    BY <2>2, RemindersMoved, MovedSame DEF Moved
<1>3. CASE ReminderDue(o, h)
  <2>1. h > 0 /\ o.status = "active"
    BY <1>3 DEF ReminderDue
  <2>2. Moved(box, b)
    BY CancelPendingMoves, MovedSelf
  <2>3. BoxOK(b) /\ RemindersOK(b, o.channels) /\ Len(b) = Len(box) /\ Len(b) \in Nat
    BY <2>2, RemindersMoved, MovedSame, BoxLen DEF Moved
  <2>4. \A i \in 1..Len(b) : /\ b[i].event = box[i].event /\ b[i].state # "deleted"
    BY <2>1, <2>2, <2>3 DEF Moved, Grown, Gentle, Same
  <2>5. b2 = IF enough THEN b ELSE added
    BY <1>3 DEF ScheduleReminder, Cleared, FreshKey
  <2>6. Moved(b, kept)
    BY <2>3, ClearedMoves
  <2>7. BoxOK(kept) /\ RemindersOK(kept, o.channels) /\ Len(kept) = Len(b)
    BY <2>3, <2>6, RemindersMoved, MovedSame DEF Moved
  <2>8. \A i \in 1..Len(b) : /\ kept[i].event = b[i].event /\ kept[i].key = b[i].key
                             /\ kept[i].contact = b[i].contact /\ kept[i].until = b[i].until
                             /\ b[i].state = "cancelled" => kept[i].state = "cancelled"
    BY <2>6 DEF Moved, Grown, Gentle, Same
  <2>9. \A i \in 1..Len(b) : \/ kept[i].state = "cancelled"
                             \/ i \notin ExistingReminders(b) \/ b[i].state \notin PENDING_STATES
    BY <2>3, ClearedMoves
  <2>10. ~force => b = box
    OBVIOUS
  <2>. HIDE DEF b, kept
  <2>11. CASE enough
    BY <2>2, <2>3, <2>5, <2>11, <2>1 DEF Moved
  <2>12. CASE ~enough
    <3>. DEFINE n == Len(b)
    <3>1. ASSUME NEW i \in 1..n,
                 kept[i].event = "reminder", kept[i].until = o.at, kept[i].contact \in o.channels,
                 SinceChange(kept, i), Generation(kept, i) = {i}
          PROVE  kept[i].state = "cancelled"
      <4>1. b[i].event = "reminder" /\ b[i].until = o.at /\ b[i].contact \in o.channels
        BY <2>8, <3>1
      <4>2. SinceChange(b, i)
        BY <2>3, <2>7, <2>8, <3>1, SinceChangeFacts
      <4>3. \A j \in Generation(b, i) : j = i
        <5>1. \A j \in Generation(b, i) : j \in Generation(kept, i)
          BY <2>7, <2>8 DEF Generation
        <5>. QED
          BY <3>1, <5>1
      <4>4. i \in Of(b, {"reminder"})
        BY <2>4, <4>1 DEF Of
      <4>5. ~force
        <5>. SUFFICES ASSUME force PROVE FALSE
          OBVIOUS
        <5>1. i \in Of(box, {"reminder"}) /\ SinceChange(box, i)
          <6>1. i \in Of(box, {"reminder"})
            BY <2>1, <2>3, <2>4, <4>1 DEF Of
          <6>2. SinceChange(box, i)
            BY <2>3, <2>4, <4>2, SinceChangeFacts
          <6>. QED
            BY <6>1, <6>2
        <5>. QED
          BY <4>1, <5>1
      <4>. SUFFICES ASSUME kept[i].state # "cancelled" PROVE FALSE
        OBVIOUS
      <4>6. i \in ExistingReminders(b) /\ b[i].state \notin PENDING_STATES
        <5>1. b[i].state # "cancelled"
          BY <2>8
        <5>2. i \in ExistingReminders(b)
          BY <4>2, <4>4, <5>1 DEF ExistingReminders
        <5>. QED
          BY <2>9, <5>2
      <4>7. i \in matching
        BY <4>1, <4>6 DEF MatchingReminders, PENDING_STATES
      <4>8. \A k \in matching : /\ k \in Of(b, {"reminder"}) /\ SinceChange(b, k)
                                /\ k \in Generation(b, k)
        BY DEF MatchingReminders, ExistingReminders, Of, Generation
      <4>9. \A k \in matching : o.channels = {b[j].contact : j \in Generation(b, k)}
        BY <2>3, <4>1, <4>8 DEF RemindersOK, GenerationsOK
      <4>10. o.channels = {b[i].contact}
        BY <4>3, <4>7, <4>8, <4>9
      <4>11. \A k \in matching : b[k].contact = b[i].contact
        BY <4>8, <4>9, <4>10
      <4>12. {b[k].contact : k \in matching} = o.channels
        BY <4>7, <4>10, <4>11
      <4>. QED
        BY <2>12, <4>5, <4>7, <4>12
    <3>2. "reminder" \in Events /\ n + 1 \in Nat /\ o.at > o.at - h
      BY <1>1, <2>1, <2>3 DEF Events
    <3>3. \A i \in 1..Len(kept) : kept[i].event = "reminder" => kept[i].key # n + 1
      <4>. SUFFICES ASSUME NEW i \in 1..n, kept[i].event = "reminder" PROVE kept[i].key # n + 1
        BY <2>7
      <4>1. kept[i].key <= i
        BY <2>7 DEF RemindersOK, KeysOK
      <4>. QED
        BY <2>3, <4>1
    <3>4. Queued(kept, added, "reminder", n + 1, o.at, o.channels)
      BY <1>1, <2>7, <3>2, EnqueueQueues
    <3>5. AllAddressed(kept, added, o.channels)
      BY <1>1, <2>7, <3>2, <3>3, EnqueueQueues
    <3>. HIDE DEF added
    <3>6. RemindersOK(added, o.channels)
      BY <2>7, <3>1, <3>4, <3>5, RemindersRenewed
    <3>7. Grown(kept, added)
      BY <2>7, <3>4, QueuedGrows
    <3>8. Grown(box, added)
      BY <2>2, <2>3, <2>6, <3>7, GrownChain DEF Moved
    <3>. QED
      BY <2>1, <2>5, <2>12, <3>6, <3>8
  <2>. QED
    BY <2>11, <2>12
<1>. QED
  BY <1>2, <1>3

-----------------------------------------------------------------------------
(* Copies and leases.                                                       *)

LEMMA TrackedBefore ==
    ASSUME NEW a, NEW b, Quiet(a, b), Tracked(b) PROVE Tracked(a)
BY DEF Quiet, Tracked

\* Quiet rows change nothing for the workers: who holds or sends what is as before.
LEMMA DeliveryKept ==
    ASSUME NEW box, NEW b2, NEW W, NEW R, DeliveryOK(box, W, R),
           Len(box) \in Nat, Len(b2) \in Nat, Len(box) <= Len(b2),
           \A i \in 1..Len(box) : Quiet(box[i], b2[i]),
           \A w \in DOMAIN W : WorkerOK(W[w], box),
           \A i \in 1..Len(b2) : i > Len(box) => R[i] = 0
    PROVE  DeliveryOK(b2, W, R) /\ \A w \in DOMAIN W : WorkerOK(W[w], b2)
<1>1. \A w \in DOMAIN W : WorkerOK(W[w], b2)
  <2>. SUFFICES ASSUME NEW w \in DOMAIN W PROVE WorkerOK(W[w], b2)
    OBVIOUS
  <2>1. \A k \in 1..Len(box) : k \in 1..Len(b2)
    OBVIOUS
  <2>. QED
    BY <2>1 DEF WorkerOK
<1>2. ASSUME NEW i \in 1..Len(b2), i \in 1..Len(box)
      PROVE  /\ CopiesOK(b2[i], R[i])
             /\ OneSender(b2[i], i, W)
             /\ \A w \in DOMAIN W : WorkerAgrees(b2[i], i, R[i], w, W[w])
  <2>. DEFINE a == box[i]
              b == b2[i]
  <2>1. Quiet(a, b)
    BY <1>2
  <2>2. CopiesOK(a, R[i]) /\ OneSender(a, i, W)
    BY <1>2 DEF DeliveryOK
  <2>. HIDE DEF a, b
  <2>3. Tracked(b) => Tracked(a)
    BY <2>1, TrackedBefore
  <2>4. CopiesOK(b, R[i])
    BY <2>1, <2>2, <2>3 DEF CopiesOK, Quiet
  <2>5. OneSender(b, i, W)
    BY <2>2, <2>3 DEF OneSender
  <2>6. ASSUME NEW w \in DOMAIN W
        PROVE  WorkerAgrees(b, i, R[i], w, W[w])
    <3>1. WorkerAgrees(a, i, R[i], w, W[w])
      BY <1>2 DEF DeliveryOK, a
    <3>2. Holds(b, w) => Holds(a, w)
      BY <2>1 DEF Holds, Quiet
    <3>3. Holds(b, w) /\ AfterIO(a) => AfterIO(b)
      BY <2>1 DEF Holds, Quiet, AfterIO
    <3>4. AfterIO(b) => AfterIO(a) /\ b.holder = a.holder
      BY <2>1 DEF Quiet, AfterIO
    <3>5. Tracked(b) /\ ~Unseen(a) => ~Unseen(b)
      BY <2>1 DEF Quiet
    <3>. QED
      BY <2>3, <3>1, <3>2, <3>3, <3>4, <3>5 DEF WorkerAgrees
  <2>. QED
    BY <2>4, <2>5, <2>6 DEF b
<1>3. ASSUME NEW i \in 1..Len(b2), i > Len(box)
      PROVE  /\ CopiesOK(b2[i], R[i])
             /\ OneSender(b2[i], i, W)
             /\ \A w \in DOMAIN W : WorkerAgrees(b2[i], i, R[i], w, W[w])
  <2>1. \A w \in DOMAIN W : W[w].at # "idle" => W[w].row # i
    BY <1>3 DEF WorkerOK
  <2>2. CopiesOK(b2[i], R[i])
    BY <1>3 DEF CopiesOK
  <2>3. OneSender(b2[i], i, W)
    BY <2>1 DEF OneSender, Sending
  <2>4. \A w \in DOMAIN W : WorkerAgrees(b2[i], i, R[i], w, W[w])
    BY <2>1 DEF WorkerAgrees, Sending
  <2>. QED
    BY <2>2, <2>3, <2>4
<1>4. \A i \in 1..Len(b2) : i \in 1..Len(box) \/ i > Len(box)
  OBVIOUS
<1>. QED
  BY <1>1, <1>2, <1>3, <1>4 DEF DeliveryOK

\* A worker that neither sends nor has an answer says nothing about any row.
LEMMA WorkerLetsGo ==
    ASSUME NEW box, NEW W, NEW R, DeliveryOK(box, W, R), NEW w \in DOMAIN W, NEW j,
           j.at \notin {"started", "answered"}
    PROVE  DeliveryOK(box, [W EXCEPT ![w] = j], R)
<1>. DEFINE V == [W EXCEPT ![w] = j]
<1>1. DOMAIN V = DOMAIN W /\ \A v \in DOMAIN W : V[v] = IF v = w THEN j ELSE W[v]
  OBVIOUS
<1>. HIDE DEF V
<1>2. ASSUME NEW i \in 1..Len(box)
      PROVE  /\ CopiesOK(box[i], R[i]) /\ OneSender(box[i], i, V)
             /\ \A v \in DOMAIN V : WorkerAgrees(box[i], i, R[i], v, V[v])
  <2>1. /\ CopiesOK(box[i], R[i]) /\ OneSender(box[i], i, W)
        /\ \A v \in DOMAIN W : WorkerAgrees(box[i], i, R[i], v, W[v])
    BY DEF DeliveryOK
  <2>2. OneSender(box[i], i, V)
    BY <1>1, <2>1 DEF OneSender, Sending
  <2>3. WorkerAgrees(box[i], i, R[i], w, j)
    BY DEF WorkerAgrees, Sending
  <2>. QED
    BY <1>1, <2>1, <2>2, <2>3
<1>. QED
  BY <1>2 DEF DeliveryOK, V

-----------------------------------------------------------------------------
(* Offers.                                                                  *)

Offered(W, O) == W.kind = "waitlist" /\ O.status = "offered"

SendingOne(W, i) == \E w \in DOMAIN W : Sending(W[w], i)

FenceOK(box, W, R, O) ==
    \A i \in 1..Len(box) :
        box[i].key < O.version /\ (R[i] > 0 \/ SendingOne(W, i))
        => box[i].state = "sent" \/ box[i].ruled \/ box[i].contact \in Idempotent

LEMMA FenceIsFence ==
    ASSUME DOMAIN worker = world.workers
    PROVE  OfferIsFenced <=> (Offered(world, owner) => FenceOK(outbox, worker, received, owner))
BY Zenon DEF OfferIsFenced, FenceOK, Offered, Rows, InFlight, SendingOne, Sending

\* Rows that stay the same and new ones; fewer are sent or have come.
LEMMA FenceKept ==
    ASSUME NEW box, NEW b2, NEW W, NEW V, NEW R, NEW S, NEW O, NEW P, FenceOK(box, W, R, O),
           Len(box) \in Nat, Len(b2) \in Nat, Len(box) <= Len(b2),
           \A i \in 1..Len(box) : Same(box[i], b2[i]),
           P.version = O.version,
           \A i \in 1..Len(box) :
              box[i].key < O.version /\ (S[i] > 0 \/ SendingOne(V, i)) => R[i] > 0 \/ SendingOne(W, i),
           \A i \in 1..Len(b2) : i > Len(box) => ~(S[i] > 0) /\ ~SendingOne(V, i)
    PROVE  FenceOK(b2, V, S, P)
<1>. SUFFICES ASSUME NEW i \in 1..Len(b2), b2[i].key < P.version, S[i] > 0 \/ SendingOne(V, i)
              PROVE  b2[i].state = "sent" \/ b2[i].ruled \/ b2[i].contact \in Idempotent
  BY DEF FenceOK
<1>1. i \in 1..Len(box)
  OBVIOUS
<1>2. Same(box[i], b2[i])
  BY <1>1
<1>3. box[i].state = "sent" \/ box[i].ruled \/ box[i].contact \in Idempotent
  BY <1>1, <1>2 DEF FenceOK, Same
<1>. QED
  BY <1>2, <1>3 DEF Same

-----------------------------------------------------------------------------
(* Handlers.                                                                *)

LEMMA OwnerGoesOn ==
    ASSUME NEW box, BoxOK(box), NEW b2, NEW o, NEW p, OwnerOK(o, box), Grown(box, b2),
           o.status # "missing", p.status \notin {"none", "missing"}
    PROVE  OwnerOK(p, b2)
<1>1. Len(box) \in Nat /\ Len(b2) \in Nat /\ Len(box) <= Len(b2)
  BY BoxLen DEF Grown
<1>2. \A i \in 1..Len(b2) : b2[i].state # "deleted"
  <2>. TAKE i \in 1..Len(b2)
  <2>1. CASE i > Len(box)
    BY <2>1 DEF Grown
  <2>2. CASE ~(i > Len(box))
    <3>1. i \in 1..Len(box)
      BY <1>1, <2>2
    <3>2. box[i].state # "deleted"
      BY <3>1 DEF OwnerOK
    <3>. QED
      BY <3>1, <3>2 DEF Grown, Gentle, Same
  <2>. QED
    BY <2>1, <2>2
<1>. QED
  BY <1>2 DEF OwnerOK

LEMMA OwnerStays ==
    ASSUME NEW box, BoxOK(box), NEW b2, NEW o, OwnerOK(o, box), Moved(box, b2)
    PROVE  OwnerOK(o, b2)
<1>1. Len(b2) = Len(box) /\ b2 \in Seq(Row)
  BY DEF Moved, Grown, BoxOK
<1>2. \A i \in 1..Len(box) : /\ b2[i].key = box[i].key
                             /\ b2[i].state = "deleted" <=> box[i].state = "deleted"
  BY DEF Moved, Grown, Gentle, Same
<1>3. o.status = "none" => b2 = <<>>
  BY <1>1, EmptySeq DEF OwnerOK
<1>. QED
  BY <1>1, <1>2, <1>3 DEF OwnerOK

LEMMA Pieces ==
    ASSUME IInv
    PROVE  /\ world \in Worlds /\ now \in 0..MaxNow /\ hours \in 0..MaxHours /\ owner \in OwnerRows
           /\ BoxOK(outbox) /\ Len(outbox) \in Nat /\ Len(outbox) <= MaxRows
           /\ worker \in [world.workers -> WorkerRows]
           /\ \A w \in world.workers : WorkerOK(worker[w], outbox)
           /\ received \in [1..MaxRows -> 0..2]
           /\ \A i \in 1..MaxRows : i > Len(outbox) => received[i] = 0
           /\ DeliveryOK(outbox, worker, received)
           /\ Offered(world, owner) => FenceOK(outbox, worker, received, owner)
           /\ RemindersOK(outbox, owner.channels) /\ OwnerOK(owner, outbox)
<1>1. Typed
  BY DEF IInv
<1>2. BoxOK(outbox) /\ worker \in [world.workers -> WorkerRows]
  BY <1>1 DEF Typed
<1>3. Len(outbox) \in Nat
  BY <1>2, BoxLen
<1>4. Offered(world, owner) => FenceOK(outbox, worker, received, owner)
  BY <1>2, FenceIsFence DEF IInv
<1>. QED
  BY <1>1, <1>2, <1>3, <1>4 DEF IInv, Typed

LEMMA FenceIsFenceNext ==
    ASSUME DOMAIN worker' = world'.workers
    PROVE  OfferIsFenced' <=> (Offered(world', owner') => FenceOK(outbox', worker', received', owner'))
BY Zenon DEF OfferIsFenced, FenceOK, Offered, Rows, InFlight, SendingOne, Sending

LEMMA Together ==
    ASSUME world' \in Worlds, now' \in 0..MaxNow, hours' \in 0..MaxHours, owner' \in OwnerRows,
           BoxOK(outbox'), Len(outbox') <= MaxRows,
           worker' \in [world'.workers -> WorkerRows],
           \A w \in world'.workers : WorkerOK(worker'[w], outbox'),
           received' \in [1..MaxRows -> 0..2],
           \A i \in 1..MaxRows : i > Len(outbox') => received'[i] = 0,
           DeliveryOK(outbox', worker', received'),
           Offered(world', owner') => FenceOK(outbox', worker', received', owner'),
           RemindersOK(outbox', owner'.channels), OwnerOK(owner', outbox')
    PROVE  IInv'
<1>1. Typed'
  BY DEF Typed, BoxOK, RowOK, WorkerOK
<1>2. OfferIsFenced'
  BY FenceIsFenceNext
<1>3. DeliveryOK(outbox, worker, received)'
  BY DEF DeliveryOK, CopiesOK, OneSender, WorkerAgrees, Tracked, Unseen, Sending, Holds, AfterIO, BeforeIO
<1>4. RemindersOK(outbox, owner.channels)'
  BY DEF RemindersOK, KeysOK, GenerationsOK, TwinsOK, Twins, Generation, Of, SinceChange, Tracked
<1>5. OwnerOK(owner, outbox)'
  BY DEF OwnerOK
<1>. QED
  BY <1>1, <1>2, <1>3, <1>4, <1>5 DEF IInv

LEMMA HandlerInv ==
    ASSUME IInv, Grown(outbox, outbox'), Len(outbox') <= MaxRows,
           owner' \in OwnerRows, hours' \in 0..MaxHours, UNCHANGED <<world, worker, received>>,
           now' \in 0..MaxNow,
           RemindersOK(outbox', owner'.channels), OwnerOK(owner', outbox'),
           Offered(world, owner') => \/ Offered(world, owner) /\ owner'.version = owner.version
                                     \/ FenceOK(outbox, worker, received, owner')
    PROVE  IInv'
<1>1. MaxRows \in Nat /\ world' = world /\ worker' = worker /\ received' = received
  BY BoundAssumption
<1>2. BoxOK(outbox') /\ Len(outbox') \in Nat /\ Len(outbox) <= Len(outbox')
  BY BoxLen DEF Grown
<1>3. DOMAIN worker = world.workers
  BY Pieces
<1>4. \A i \in 1..Len(outbox') : i > Len(outbox) =>
         /\ received[i] = 0 /\ ~(received[i] > 0) /\ ~SendingOne(worker, i)
  <2>. SUFFICES ASSUME NEW i \in 1..Len(outbox'), i > Len(outbox)
                PROVE  received[i] = 0 /\ ~SendingOne(worker, i)
    OBVIOUS
  <2>1. i \in 1..MaxRows /\ i \notin 1..Len(outbox)
    BY <1>1, <1>2, Pieces
  <2>. QED
    BY <1>3, <2>1, Pieces DEF SendingOne, Sending, WorkerOK
<1>5. \A i \in 1..Len(outbox) : Quiet(outbox[i], outbox'[i]) /\ Same(outbox[i], outbox'[i])
  BY DEF Grown, Gentle
<1>6. DeliveryOK(outbox', worker, received) /\ \A w \in world.workers : WorkerOK(worker[w], outbox')
  BY <1>2, <1>3, <1>4, <1>5, Pieces, DeliveryKept
<1>7. Offered(world, owner') => FenceOK(outbox', worker, received, owner')
  <2>. SUFFICES ASSUME Offered(world, owner') PROVE FenceOK(outbox', worker, received, owner')
    OBVIOUS
  <2>1. \E o \in {owner, owner'} : o.version = owner'.version /\ FenceOK(outbox, worker, received, o)
    BY Pieces
  <2>. QED
    BY <1>2, <1>4, <1>5, <2>1, Pieces, FenceKept
<1>8. \A i \in 1..MaxRows : i > Len(outbox') => received[i] = 0
  BY <1>1, <1>2, Pieces
<1>. QED
  BY <1>1, <1>2, <1>6, <1>7, <1>8, Pieces, Together

-----------------------------------------------------------------------------
(* Handlers of reservations.                                                *)

LEMMA EnqueueReservationKeeps ==
    ASSUME world \in Worlds, now \in 0..MaxNow, NEW box, BoxOK(box), NEW o \in OwnerRows,
           NEW ch, RemindersOK(box, ch), NEW event \in {"confirmation", "change", "cancellation"},
           event = "change" \/ ch = o.channels
    PROVE  /\ Grown(box, EnqueueReservation(box, o, event))
           /\ RemindersOK(EnqueueReservation(box, o, event), o.channels)
           /\ event = "change" =>
                \A i \in Of(EnqueueReservation(box, o, event), {"reminder"}) :
                    ~SinceChange(EnqueueReservation(box, o, event), i) \/ o.channels = {}
<1>. DEFINE n == Len(box)
            until == IF event = "cancellation" THEN now + 2 ELSE Max2(now + 1, o.at)
            b2 == EnqueueReservation(box, o, event)
<1>1. n \in Nat /\ n + 1 \in Nat
  BY BoxLen
<1>2. MaxNow \in Nat /\ now \in Nat /\ now \in Int /\ o.at \in Nat
  BY BoundAssumption DEF OwnerRows
<1>3. until \in Nat /\ until > now
  BY <1>2 DEF Max2
<1>4. b2 = Enqueue(box, o, event, n + 1, now, until)
  BY DEF EnqueueReservation, FreshKey
<1>5. event \in Events
  BY DEF Events
<1>. HIDE DEF until, b2
<1>6. Queued(box, b2, event, n + 1, until, o.channels)
  BY <1>1, <1>2, <1>3, <1>4, <1>5, EnqueueQueues
<1>7. event = "change" => AllAddressed(box, b2, o.channels)
  <2>. SUFFICES ASSUME event = "change" PROVE AllAddressed(box, b2, o.channels)
    OBVIOUS
  <2>1. \A i \in 1..n : box[i].event = event => box[i].key # n + 1
    <3>. SUFFICES ASSUME NEW i \in 1..n, box[i].event = event PROVE box[i].key # n + 1
      OBVIOUS
    <3>1. box[i].key <= i
      BY DEF RemindersOK, KeysOK
    <3>. QED
      BY <1>1, <3>1
  <2>. QED
    BY <1>1, <1>2, <1>3, <1>4, <1>5, <2>1, EnqueueQueues
<1>8. Len(b2) \in Nat
  BY <1>6, BoxLen DEF Queued
<1>9. event = "change" => (o.channels # {} => Len(b2) > n)
  BY <1>1, <1>7, <1>8 DEF AllAddressed
<1>10. RemindersOK(b2, o.channels)
  <2>1. event \in Events \ {"reminder"}
    BY <1>5
  <2>. QED
    BY <1>1, <1>6, <1>9, <2>1, RemindersBesides
<1>11. Grown(box, b2)
  BY <1>6, QueuedGrows
<1>12. ASSUME event = "change", NEW i \in Of(b2, {"reminder"}), SinceChange(b2, i), o.channels # {}
       PROVE  FALSE
  <2>1. i \in 1..Len(b2) /\ b2[i].event = "reminder"
    BY DEF Of
  <2>2. \A j \in 1..Len(b2) : j > n => b2[j].event = "change"
    BY <1>6, <1>12 DEF Queued
  <2>3. Len(b2) > n /\ Len(b2) \in 1..Len(b2)
    BY <1>1, <1>8, <1>9, <1>12
  <2>4. b2[Len(b2)].event = "change" /\ i # Len(b2)
    BY <2>1, <2>2, <2>3
  <2>5. Len(b2) \in (i + 1)..Len(b2)
    BY <1>8, <2>1, <2>4
  <2>. QED
    BY <1>12, <2>4, <2>5 DEF SinceChange
<1>. QED
  BY <1>10, <1>11, <1>12 DEF b2

LEMMA HandlerFacts ==
    ASSUME IInv, NEW call, NEW o, NEW box, ReservationHandler(call, o, box) \/ WaitlistHandler(call, o, box)
    PROVE  /\ outbox' = box /\ Len(outbox') <= world.rows /\ owner' = o
           /\ UNCHANGED <<world, now, hours, worker, received>>
BY DEF ReservationHandler, WaitlistHandler, Write

LEMMA RoomForRows ==
    ASSUME IInv, Len(outbox') \in Nat, Len(outbox') <= world.rows
    PROVE  Len(outbox') <= MaxRows
<1>1. world.rows \in 0..MaxRows /\ MaxRows \in Nat
  BY Pieces, WorldFacts
<1>. QED
  BY <1>1

\* A handler of an owner that is there and stays, with the messages it leaves.
LEMMA ReservationInv ==
    ASSUME IInv, NEW call, NEW o \in OwnerRows, NEW box,
           ReservationHandler(call, o, box) \/ WaitlistHandler(call, o, box),
           Grown(outbox, box), RemindersOK(box, o.channels),
           owner.status # "missing", o.status \notin {"none", "missing"},
           Offered(world, o) => \/ Offered(world, owner) /\ o.version = owner.version
                                \/ FenceOK(outbox, worker, received, o)
    PROVE  IInv'
<1>1. /\ outbox' = box /\ Len(outbox') <= world.rows /\ owner' = o
      /\ UNCHANGED <<world, now, hours, worker, received>>
  BY HandlerFacts
<1>2. Len(outbox') \in Nat
  BY <1>1, BoxLen DEF Grown
<1>3. Len(outbox') <= MaxRows
  BY <1>1, <1>2, RoomForRows
<1>4. OwnerOK(o, box)
  BY Pieces, OwnerGoesOn
<1>5. now' \in 0..MaxNow /\ hours' \in 0..MaxHours
  BY <1>1, Pieces
<1>. QED
  BY <1>1, <1>3, <1>4, <1>5, HandlerInv

LEMMA CancelPendingKeeps ==
    ASSUME NEW box, BoxOK(box), NEW ch, RemindersOK(box, ch), NEW events
    PROVE  /\ Moved(box, CancelPending(box, events)) /\ Grown(box, CancelPending(box, events))
           /\ BoxOK(CancelPending(box, events)) /\ RemindersOK(CancelPending(box, events), ch)
<1>1. Moved(box, CancelPending(box, events))
  BY CancelPendingMoves
<1>2. SameRows(box, CancelPending(box, events)) /\ BoxOK(CancelPending(box, events))
  BY <1>1, MovedSame
<1>. QED
  BY <1>1, <1>2, RemindersMoved DEF Moved

LEMMA NoneDeleted ==
    ASSUME NEW box, BoxOK(box), NEW b2, Grown(box, b2), \A i \in 1..Len(box) : box[i].state # "deleted"
    PROVE  \A i \in 1..Len(b2) : b2[i].state # "deleted"
<1>1. Len(box) \in Nat /\ Len(b2) \in Nat
  BY BoxLen DEF Grown
<1>2. \A i \in 1..Len(b2) : i > Len(box) \/ i \in 1..Len(box)
  BY <1>1
<1>. QED
  BY <1>2 DEF Grown, Gentle, Same

LEMMA LiveRows ==
    ASSUME IInv, owner.status # "missing"
    PROVE  \A i \in 1..Len(outbox) : outbox[i].state # "deleted"
BY Pieces DEF OwnerOK

LEMMA CreateInv == IInv /\ Create => IInv'
<1>. SUFFICES ASSUME IInv, Create PROVE IInv'
  OBVIOUS
<1>. USE Pieces, WorldFacts
<1>1. PICK at \in {t \in world.times : t > now}, channels \in world.preferences :
         LET o == [owner EXCEPT !.status = "active", !.at = at, !.channels = channels]
         IN ReservationHandler("Create", o, ScheduleReminder(EnqueueReservation(outbox, o, "confirmation"),
                                                   o, hours, FALSE))
  BY DEF Create
<1>. DEFINE o == [owner EXCEPT !.status = "active", !.at = at, !.channels = channels]
            b1 == EnqueueReservation(outbox, o, "confirmation")
            b2 == ScheduleReminder(b1, o, hours, FALSE)
<1>2. at \in 0..MaxNow /\ channels \in SUBSET Contacts
  OBVIOUS
<1>3. o \in OwnerRows /\ o.status = "active" /\ o.channels = channels
  BY <1>2 DEF OwnerRows, Statuses
<1>4. ReservationHandler("Create", o, b2)
  BY <1>1
<1>. HIDE DEF o
<1>5. owner.status = "none" /\ outbox = <<>>
  BY DEF Create, OwnerOK
<1>6. RemindersOK(outbox, o.channels)
  <2>1. Len(outbox) = 0
    BY <1>5
  <2>. QED
    BY <2>1 DEF RemindersOK, KeysOK, GenerationsOK, TwinsOK, Of
<1>7. Grown(outbox, b1) /\ RemindersOK(b1, o.channels)
  BY <1>3, <1>6, EnqueueReservationKeeps
<1>8. BoxOK(b1) /\ \A i \in 1..Len(b1) : b1[i].state # "deleted"
  BY <1>5, <1>7, LiveRows, NoneDeleted DEF Grown
<1>. HIDE DEF b1
<1>9. Grown(b1, b2) /\ RemindersOK(b2, o.channels)
  BY <1>3, <1>7, <1>8, ScheduleReminderKeeps
<1>. HIDE DEF b2
<1>10. Grown(outbox, b2)
  BY <1>7, <1>9, GrownChain
<1>11. ~Offered(world, o)
  BY <1>3 DEF Offered
<1>. QED
  BY <1>3, <1>4, <1>5, <1>9, <1>10, <1>11, ReservationInv

LEMMA EditInv == IInv /\ Edit => IInv'
<1>. SUFFICES ASSUME IInv, Edit PROVE IInv'
  OBVIOUS
<1>. USE Pieces, WorldFacts
<1>1. PICK at \in {t \in world.times : t > now}, channels \in world.preferences :
         LET o == [owner EXCEPT !.at = at, !.channels = channels]
             cancelled == CancelPending(outbox, {"confirmation", "change"})
         IN ReservationHandler("Edit", o, ScheduleReminder(EnqueueReservation(cancelled, o, "change"),
                                                   o, hours, TRUE))
  BY DEF Edit
<1>. DEFINE o == [owner EXCEPT !.at = at, !.channels = channels]
            b0 == CancelPending(outbox, {"confirmation", "change"})
            b1 == EnqueueReservation(b0, o, "change")
            b2 == ScheduleReminder(b1, o, hours, TRUE)
<1>2. at \in 0..MaxNow /\ channels \in SUBSET Contacts /\ owner.status = "active"
  BY DEF Edit
<1>3. o \in OwnerRows /\ o.status = "active" /\ o.channels = channels
  BY <1>2 DEF OwnerRows, Statuses
<1>4. ReservationHandler("Edit", o, b2)
  BY <1>1
<1>. HIDE DEF o
<1>5. Grown(outbox, b0) /\ BoxOK(b0) /\ RemindersOK(b0, owner.channels)
  BY CancelPendingKeeps
<1>. HIDE DEF b0
<1>6. /\ Grown(b0, b1) /\ RemindersOK(b1, o.channels)
      /\ \A i \in Of(b1, {"reminder"}) : ~SinceChange(b1, i) \/ o.channels = {}
  BY <1>3, <1>5, EnqueueReservationKeeps
<1>. HIDE DEF b1
<1>7. Grown(outbox, b1) /\ BoxOK(b1)
  BY <1>5, <1>6, GrownChain, ZenonT(60) DEF Grown
<1>8. \A i \in 1..Len(b1) : b1[i].state # "deleted"
  BY <1>2, <1>7, LiveRows, NoneDeleted
<1>9. Grown(b1, b2) /\ RemindersOK(b2, o.channels)
  BY <1>3, <1>6, <1>7, <1>8, ScheduleReminderKeeps
<1>. HIDE DEF b2
<1>10. Grown(outbox, b2)
  BY <1>7, <1>9, GrownChain
<1>11. ~Offered(world, o)
  BY <1>3 DEF Offered
<1>. QED
  BY <1>2, <1>3, <1>4, <1>9, <1>10, <1>11, ReservationInv

LEMMA ConfirmInv == IInv /\ Confirm => IInv'
<1>. SUFFICES ASSUME IInv, Confirm PROVE IInv'
  OBVIOUS
<1>. USE Pieces
<1>. DEFINE b2 == ScheduleReminder(outbox, owner, hours, FALSE)
<1>1. owner.status = "active" /\ ReservationHandler("Confirm", owner, b2)
  BY DEF Confirm
<1>2. Grown(outbox, b2) /\ RemindersOK(b2, owner.channels)
  BY <1>1, LiveRows, ScheduleReminderKeeps
<1>. HIDE DEF b2
<1>3. ~Offered(world, owner)
  BY <1>1 DEF Offered
<1>. QED
  BY <1>1, <1>2, <1>3, ReservationInv

LEMMA CancelInv == IInv /\ Cancel => IInv'
<1>. SUFFICES ASSUME IInv, Cancel PROVE IInv'
  OBVIOUS
<1>. USE Pieces
<1>. DEFINE o == [owner EXCEPT !.status = "cancelled"]
            b1 == CancelPending(outbox, Events)
            b2 == EnqueueReservation(b1, o, "cancellation")
<1>1. owner.status = "active" /\ ReservationHandler("Cancel", o, b2)
  BY DEF Cancel
<1>2. o \in OwnerRows /\ o.status = "cancelled" /\ o.channels = owner.channels
  BY DEF OwnerRows, Statuses
<1>. HIDE DEF o
<1>3. Grown(outbox, b1) /\ BoxOK(b1) /\ RemindersOK(b1, owner.channels)
  BY CancelPendingKeeps
<1>. HIDE DEF b1
<1>4. Grown(b1, b2) /\ RemindersOK(b2, o.channels)
  BY <1>2, <1>3, EnqueueReservationKeeps
<1>. HIDE DEF b2
<1>5. Grown(outbox, b2)
  BY <1>3, <1>4, GrownChain
<1>6. ~Offered(world, o)
  BY <1>2 DEF Offered
<1>. QED
  BY <1>1, <1>2, <1>4, <1>5, <1>6, ReservationInv

LEMMA EndInv == IInv /\ End => IInv'
<1>. SUFFICES ASSUME IInv, End PROVE IInv'
  OBVIOUS
<1>. USE Pieces
<1>. DEFINE o == [owner EXCEPT !.status = "ended"]
            b1 == CancelPending(outbox, Events)
<1>1. owner.status = "active" /\ ReservationHandler("End", o, b1)
  BY DEF End
<1>2. o \in OwnerRows /\ o.status = "ended" /\ o.channels = owner.channels
  BY DEF OwnerRows, Statuses
<1>. HIDE DEF o
<1>3. Grown(outbox, b1) /\ RemindersOK(b1, o.channels)
  BY <1>2, CancelPendingKeeps
<1>. HIDE DEF b1
<1>4. ~Offered(world, o)
  BY <1>2 DEF Offered
<1>. QED
  BY <1>1, <1>2, <1>3, <1>4, ReservationInv

LEMMA ReleaseByPaymentInv == IInv /\ ReleaseByPayment => IInv'
<1>. SUFFICES ASSUME IInv, ReleaseByPayment PROVE IInv'
  OBVIOUS
<1>. USE Pieces
<1>. DEFINE o == [owner EXCEPT !.status = "cancelled"]
<1>1. owner.status = "active" /\ ReservationHandler("ReleaseByPayment", o, outbox)
  BY DEF ReleaseByPayment
<1>2. o \in OwnerRows /\ o.status = "cancelled" /\ o.channels = owner.channels
  BY DEF OwnerRows, Statuses
<1>. HIDE DEF o
<1>3. Grown(outbox, outbox) /\ RemindersOK(outbox, o.channels)
  BY <1>2, MovedSelf DEF Moved
<1>4. ~Offered(world, o)
  BY <1>2 DEF Offered
<1>. QED
  BY <1>1, <1>2, <1>3, <1>4, ReservationInv

LEMMA SendConfirmationInv == IInv /\ SendConfirmation => IInv'
<1>. SUFFICES ASSUME IInv, SendConfirmation PROVE IInv'
  OBVIOUS
<1>. USE Pieces
<1>. DEFINE b2 == EnqueueReservation(outbox, owner, "confirmation")
<1>1. owner.status = "active" /\ ReservationHandler("SendConfirmation", owner, b2)
  BY DEF SendConfirmation
<1>2. Grown(outbox, b2) /\ RemindersOK(b2, owner.channels)
  BY EnqueueReservationKeeps
<1>. HIDE DEF b2
<1>3. ~Offered(world, owner)
  BY <1>1 DEF Offered
<1>. QED
  BY <1>1, <1>2, <1>3, ReservationInv

-----------------------------------------------------------------------------
(* Handlers of the waiting list.                                            *)

LEMMA EnqueueTableReadyKeeps ==
    ASSUME world \in Worlds, now \in 0..MaxNow, NEW box, BoxOK(box), NEW o \in OwnerRows,
           RemindersOK(box, o.channels)
    PROVE  /\ Grown(box, EnqueueTableReady(box, o))
           /\ RemindersOK(EnqueueTableReady(box, o), o.channels)
<1>. DEFINE b2 == Enqueue(box, o, "table_ready", o.version, now, o.at)
<1>1. MaxNow \in Nat /\ now \in Int /\ o.at \in Nat /\ o.version \in Nat
  BY BoundAssumption DEF OwnerRows
<1>2. "table_ready" \in Events \ {"reminder"}
  BY DEF Events
<1>3. Queued(box, b2, "table_ready", o.version, o.at, o.channels)
  BY <1>1, <1>2, EnqueueQueues
<1>. HIDE DEF b2
<1>4. Grown(box, b2)
  BY <1>3, QueuedGrows
<1>5. RemindersOK(b2, o.channels)
  BY <1>1, <1>2, <1>3, RemindersBesides
<1>6. Grown(box, box)
  BY MovedSelf DEF Moved
<1>. QED
  BY <1>4, <1>5, <1>6 DEF EnqueueTableReady, b2

\* A row that may have gone out is no longer pending, failed or withdrawn: when no row is
\* under way or uncertain, what may have gone out is known to be sent.
LEMMA OfferIsNew ==
    ASSUME IInv, owner.status # "missing",
           \A i \in Rows : outbox[i].state \notin {"processing", "uncertain"}, NEW o
    PROVE  FenceOK(outbox, worker, received, o)
<1>. SUFFICES ASSUME NEW i \in 1..Len(outbox), received[i] > 0 \/ SendingOne(worker, i), Tracked(outbox[i])
              PROVE  outbox[i].state = "sent"
  BY DEF FenceOK, Tracked
<1>1. received[i] # 0 \/ SendingOne(worker, i)
  OBVIOUS
<1>2. ~Unseen(outbox[i])
  BY <1>1, Pieces DEF DeliveryOK, CopiesOK, WorkerAgrees, SendingOne
<1>3. outbox[i].state \in RowStates
  BY Pieces, BoxLen DEF Row
<1>4. outbox[i].state \notin {"processing", "uncertain", "deleted"}
  BY LiveRows DEF Rows
<1>. QED
  BY <1>2, <1>3, <1>4 DEF Unseen, RowStates, Terminal, PENDING_STATES

LEMMA OfferInv == IInv /\ Offer => IInv'
<1>. SUFFICES ASSUME IInv, Offer PROVE IInv'
  OBVIOUS
<1>. USE Pieces, WorldFacts
<1>1. PICK at \in {t \in world.times : t > now}, may_contact \in BOOLEAN :
         LET o == [owner EXCEPT !.status = "offered", !.at = at, !.version = @ + 1]
         IN WaitlistHandler("Offer", o, IF may_contact THEN EnqueueTableReady(outbox, o) ELSE outbox)
  BY DEF Offer
<1>. DEFINE o == [owner EXCEPT !.status = "offered", !.at = at, !.version = @ + 1]
            b2 == IF may_contact THEN EnqueueTableReady(outbox, o) ELSE outbox
<1>2. at \in 0..MaxNow /\ owner.version \in Nat /\ owner.version + 1 \in Nat
  BY DEF OwnerRows
<1>3. o \in OwnerRows /\ o.status = "offered" /\ o.channels = owner.channels
  BY <1>2 DEF OwnerRows, Statuses
<1>4. WaitlistHandler("Offer", o, b2)
  BY <1>1
<1>. HIDE DEF o
<1>5. owner.status = "waiting" /\ \A i \in Rows : outbox[i].state \notin {"processing", "uncertain"}
  BY DEF Offer
<1>6. Grown(outbox, outbox)
  BY MovedSelf DEF Moved
<1>7. Grown(outbox, b2) /\ RemindersOK(b2, o.channels)
  BY <1>3, <1>6, EnqueueTableReadyKeeps
<1>. HIDE DEF b2
<1>8. FenceOK(outbox, worker, received, o)
  BY <1>5, OfferIsNew
<1>. QED
  BY <1>3, <1>4, <1>5, <1>7, <1>8, ReservationInv

LEMMA NextVersionFacts ==
    ASSUME IInv, NEW status \in Statuses
    PROVE  /\ NextVersion(status) \in OwnerRows /\ NextVersion(status).status = status
           /\ NextVersion(status).channels = owner.channels
<1>1. owner \in OwnerRows /\ owner.version \in Nat /\ owner.version + 1 \in Nat
  BY Pieces DEF OwnerRows
<1>2. 0 \in 0..MaxNow
  BY BoundAssumption
<1>. QED
  BY <1>1, <1>2 DEF NextVersion, OwnerRows

\* The entry leaves its offer: its messages are withdrawn.
LEMMA LeaveInv ==
    ASSUME IInv, NEW call, NEW status \in {"waiting", "closed"}, owner.status # "missing",
           WaitlistHandler(call, NextVersion(status), CancelPending(outbox, Events))
    PROVE  IInv'
<1>. USE Pieces
<1>. DEFINE o == NextVersion(status)
            b1 == CancelPending(outbox, Events)
<1>1. o \in OwnerRows /\ o.status = status /\ o.channels = owner.channels
  BY NextVersionFacts DEF Statuses
<1>2. Grown(outbox, b1) /\ RemindersOK(b1, owner.channels)
  BY CancelPendingKeeps
<1>. HIDE DEF o, b1
<1>3. ~Offered(world, o) /\ o.status \notin {"none", "missing"}
  BY <1>1 DEF Offered
<1>4. WaitlistHandler(call, o, b1)
  BY DEF o, b1
<1>. QED
  BY <1>1, <1>2, <1>3, <1>4, ReservationInv

LEMMA ExpireOfferInv == IInv /\ ExpireOffer => IInv'
<1>. SUFFICES ASSUME IInv, ExpireOffer PROVE IInv'
  OBVIOUS
<1>. USE Pieces
<1>1. owner.status = "offered" /\ owner' = NextVersion("closed")
      /\ UNCHANGED <<world, now, hours, outbox, worker, received>>
  BY DEF ExpireOffer
<1>2. owner' \in OwnerRows /\ owner'.status = "closed" /\ owner'.channels = owner.channels
  BY <1>1, NextVersionFacts DEF Statuses
<1>3. Grown(outbox, outbox')
  BY <1>1, MovedSelf DEF Moved
<1>4. OwnerOK(owner', outbox')
  BY <1>1, <1>2, <1>3, OwnerGoesOn
<1>5. ~Offered(world, owner')
  BY <1>2 DEF Offered
<1>6. RemindersOK(outbox', owner'.channels) /\ Len(outbox') <= MaxRows
  BY <1>1, <1>2
<1>. QED
  BY <1>1, <1>2, <1>3, <1>4, <1>5, <1>6, HandlerInv

LEMMA NotifyInv == IInv /\ Notify => IInv'
<1>. SUFFICES ASSUME IInv, Notify PROVE IInv'
  OBVIOUS
<1>. USE Pieces
<1>. DEFINE b2 == EnqueueTableReady(outbox, owner)
<1>1. owner.status = "offered" /\ WaitlistHandler("Notify", owner, b2)
  BY DEF Notify
<1>2. Grown(outbox, b2) /\ RemindersOK(b2, owner.channels)
  BY EnqueueTableReadyKeeps
<1>. HIDE DEF b2
<1>3. Offered(world, owner) => Offered(world, owner) /\ owner.version = owner.version
  OBVIOUS
<1>. QED
  BY <1>1, <1>2, <1>3, ReservationInv

LEMMA WaitlistInv == IInv /\ Waitlist => IInv'
<1>. SUFFICES ASSUME IInv, Waitlist PROVE IInv'
  OBVIOUS
<1>1. CASE Offer
  BY <1>1, OfferInv
<1>2. CASE Withdraw
  BY <1>2, LeaveInv DEF Withdraw
<1>3. CASE CancelEntry
  BY <1>3, LeaveInv DEF CancelEntry
<1>4. CASE Accept
  BY <1>4, LeaveInv DEF Accept
<1>5. CASE ExpireOffer
  BY <1>5, ExpireOfferInv
<1>6. CASE Notify
  BY <1>6, NotifyInv
<1>. QED
  BY <1>1, <1>2, <1>3, <1>4, <1>5, <1>6 DEF Waitlist

-----------------------------------------------------------------------------
(* Erasure, the configuration, the operators, time.                         *)

LEMMA ErasedRow ==
    ASSUME NEW a, RowOK(a)
    PROVE  LET b == [Closed(a, "deleted") EXCEPT !.stale = FALSE, !.key = 0, !.until = 0]
           IN /\ RowOK(b) /\ b.state = "deleted" /\ b.key = 0 /\ Quiet(a, b)
<1>. DEFINE c == Closed(a, "deleted")
            b == [c EXCEPT !.stale = FALSE, !.key = 0, !.until = 0]
<1>1. "deleted" \in RowStates
  BY DEF RowStates, Terminal
<1>2. /\ c \in Row /\ c.state = "deleted" /\ c.holder = Nobody /\ c.attempt = "none"
      /\ c.contact = a.contact /\ c.ruled = a.ruled
  BY <1>1, ClosedFields DEF RowOK
<1>. HIDE DEF c
<1>3. b \in Row
  BY <1>2 DEF Row
<1>4. /\ b.state = "deleted" /\ b.holder = Nobody /\ b.attempt = "none" /\ b.stale = FALSE
      /\ b.contact = a.contact /\ b.ruled = a.ruled /\ b.key = 0
  BY <1>2 DEF Row
<1>. HIDE DEF b
<1>5. RowOK(b) /\ Quiet(a, b)
  BY <1>3, <1>4 DEF RowOK, Quiet, Unseen, BeforeIO, PENDING_STATES
<1>. QED
  BY <1>4, <1>5 DEF b, c

LEMMA EraseInv == IInv /\ Erase => IInv'
<1>. SUFFICES ASSUME IInv, Erase PROVE IInv'
  OBVIOUS
<1>. USE Pieces
<1>. DEFINE n == Len(outbox)
            b2 == Erased(outbox)
<1>1. /\ owner' = [owner EXCEPT !.status = "missing", !.at = 0, !.channels = {}]
      /\ outbox' = b2 /\ UNCHANGED <<world, now, hours, worker, received>>
  BY DEF Erase
<1>2. 0 \in 0..MaxNow /\ MaxRows \in Nat
  BY BoundAssumption
<1>3. owner' \in OwnerRows /\ owner'.status = "missing"
  BY <1>1, <1>2 DEF OwnerRows, Statuses
<1>4. \A i \in 1..n : b2[i] = [Closed(outbox[i], "deleted") EXCEPT !.stale = FALSE, !.key = 0, !.until = 0]
  BY DEF Erased
<1>5. \A i \in 1..n : RowOK(b2[i]) /\ b2[i].state = "deleted" /\ b2[i].key = 0 /\ Quiet(outbox[i], b2[i])
  <2>. TAKE i \in 1..n
  <2>. DEFINE b == [Closed(outbox[i], "deleted") EXCEPT !.stale = FALSE, !.key = 0, !.until = 0]
  <2>1. RowOK(outbox[i])
    BY BoxLen
  <2>2. RowOK(b) /\ b.state = "deleted" /\ b.key = 0 /\ Quiet(outbox[i], b)
    BY ONLY <2>1, ErasedRow
  <2>. HIDE DEF b
  <2>3. b2[i] = b
    BY <1>4 DEF b
  <2>. QED
    BY <2>2, <2>3
<1>6. b2 \in [1..n -> Row]
  BY <1>5 DEF RowOK, Erased
<1>. HIDE DEF b2
<1>7. b2 \in Seq(Row) /\ Len(b2) = n
  BY <1>6, ListOfRows
<1>8. BoxOK(b2)
  BY <1>5, <1>7 DEF BoxOK
<1>9. DeliveryOK(b2, worker, received) /\ \A w \in DOMAIN worker : WorkerOK(worker[w], b2)
  <2>1. \A i \in 1..Len(b2) : i > n => received[i] = 0
    BY <1>7
  <2>2. \A i \in 1..n : Quiet(outbox[i], b2[i])
    BY <1>5
  <2>3. \A w \in DOMAIN worker : WorkerOK(worker[w], outbox)
    OBVIOUS
  <2>4. DeliveryOK(outbox, worker, received) /\ n \in Nat /\ Len(b2) \in Nat /\ n <= Len(b2)
    BY <1>7
  <2>. HIDE Pieces
  <2>. QED
    BY <2>1, <2>2, <2>3, <2>4, DeliveryKept
<1>10. RemindersOK(b2, owner'.channels)
  <2>1. KeysOK(b2)
    BY <1>5, <1>7 DEF KeysOK
  <2>2. Of(b2, {"reminder"}) = {}
    BY <1>5, <1>7 DEF Of
  <2>3. TwinsOK(b2)
    <3>1. \A i, j \in 1..n : i < j => j \in (1..Len(b2)) \ {i} /\ b2[j].key = b2[i].key
      BY <1>5, <1>7
    <3>. QED
      BY <1>7, <3>1 DEF TwinsOK, Twins
  <2>. QED
    BY <2>1, <2>2, <2>3 DEF RemindersOK, GenerationsOK
<1>11. OwnerOK(owner', b2)
  BY <1>3, <1>5, <1>7 DEF OwnerOK
<1>12. ~Offered(world, owner')
  BY <1>3 DEF Offered
<1>13. DOMAIN worker = world.workers
  OBVIOUS
<1>. QED
  BY <1>1, <1>3, <1>7, <1>8, <1>9, <1>10, <1>11, <1>12, <1>13, Together

LEMMA ReconfigureInv == IInv /\ Reconfigure => IInv'
<1>. SUFFICES ASSUME IInv, Reconfigure PROVE IInv'
  OBVIOUS
<1>. USE Pieces
<1>. DEFINE cancelled == CancelPending(outbox, {"reminder"})
<1>1. PICK h \in 0..MaxHours :
        /\ hours' = h
        /\ Write(IF owner.status = "active"
                 THEN ScheduleReminder(cancelled, owner, h, FALSE) ELSE cancelled)
        /\ UNCHANGED <<world, now, owner, worker, received>>
  BY DEF Reconfigure
<1>2. Moved(outbox, cancelled) /\ BoxOK(cancelled) /\ RemindersOK(cancelled, owner.channels)
  BY CancelPendingKeeps
<1>. HIDE DEF cancelled
<1>. DEFINE b2 == IF owner.status = "active" THEN ScheduleReminder(cancelled, owner, h, FALSE) ELSE cancelled
<1>3. outbox' = b2 /\ Len(outbox') <= world.rows
  BY <1>1 DEF Write
<1>4. Grown(outbox, b2) /\ RemindersOK(b2, owner.channels) /\ OwnerOK(owner, b2)
  <2>1. CASE owner.status = "active"
    <3>1. \A i \in 1..Len(cancelled) : cancelled[i].state # "deleted"
      BY <1>2, <2>1, LiveRows, NoneDeleted DEF Moved
    <3>2. Grown(cancelled, b2) /\ RemindersOK(b2, owner.channels)
      BY <1>2, <2>1, <3>1, ScheduleReminderKeeps
    <3>. HIDE DEF b2
    <3>3. Grown(outbox, b2)
      BY <1>2, <3>2, GrownChain DEF Moved
    <3>4. OwnerOK(owner, b2)
      BY <2>1, <3>3, OwnerGoesOn
    <3>. QED
      BY <3>2, <3>3, <3>4
  <2>2. CASE owner.status # "active"
    BY <1>2, <2>2, OwnerStays DEF Moved
  <2>. QED
    BY <2>1, <2>2
<1>. HIDE DEF b2
<1>5. Len(outbox') \in Nat
  BY <1>3, <1>4, BoxLen DEF Grown
<1>6. Len(outbox') <= MaxRows
  BY <1>3, <1>5, RoomForRows
<1>. QED
  BY <1>1, <1>3, <1>4, <1>6, HandlerInv

LEMMA ReconcileRemindersInv == IInv /\ ReconcileReminders => IInv'
<1>. SUFFICES ASSUME IInv, ReconcileReminders PROVE IInv'
  OBVIOUS
<1>. USE Pieces
<1>. DEFINE live == world.kind = "reservation" /\ owner.status = "active"
            b2 == IF live THEN ScheduleReminder(outbox, owner, hours, FALSE) ELSE outbox
<1>1. /\ outbox' = b2 /\ Len(outbox') <= world.rows
      /\ UNCHANGED <<world, now, hours, owner, worker, received>>
  BY DEF ReconcileReminders, Write
<1>2. Grown(outbox, b2) /\ RemindersOK(b2, owner.channels) /\ OwnerOK(owner, b2)
  <2>1. CASE live
    <3>1. Grown(outbox, b2) /\ RemindersOK(b2, owner.channels)
      BY <2>1, LiveRows, ScheduleReminderKeeps
    <3>. HIDE DEF b2
    <3>2. OwnerOK(owner, b2)
      BY <2>1, <3>1, OwnerGoesOn
    <3>. QED
      BY <3>1, <3>2
  <2>2. CASE ~live
    BY <2>2, MovedSelf DEF Moved
  <2>. QED
    BY <2>1, <2>2
<1>. HIDE DEF b2
<1>3. Len(outbox') \in Nat
  BY <1>1, <1>2, BoxLen DEF Grown
<1>4. Len(outbox') <= MaxRows
  BY <1>1, <1>3, RoomForRows
<1>. QED
  BY <1>1, <1>2, <1>4, HandlerInv

LEMMA OneRowMoves ==
    ASSUME NEW box, BoxOK(box), NEW i \in 1..Len(box), NEW row, Gentle(box[i], row)
    PROVE  Moved(box, [box EXCEPT ![i] = row])
<1>. DEFINE f == [box EXCEPT ![i] = row]
<1>1. box \in Seq(Row) /\ DOMAIN box = 1..Len(box)
  BY LenProperties DEF BoxOK
<1>2. /\ DOMAIN f = 1..Len(box) /\ f = [k \in 1..Len(box) |-> f[k]]
      /\ \A k \in 1..Len(box) : f[k] = IF k = i THEN row ELSE box[k]
  BY <1>1
<1>. HIDE DEF f
<1>3. \A k \in 1..Len(box) : Gentle(box[k], f[k])
  BY <1>2, BoxLen, GentleSelf
<1>4. Moved(box, f)
  BY <1>2, <1>3, RowsMoved
<1>. QED
  BY <1>4 DEF f

\* Rows move, and nobody else does.
LEMMA OutboxInv ==
    ASSUME IInv, Moved(outbox, outbox'), UNCHANGED <<world, now, hours, owner, worker, received>>
    PROVE  IInv'
<1>1. RemindersOK(outbox', owner.channels) /\ OwnerOK(owner, outbox')
  BY Pieces, RemindersMoved, MovedSame, OwnerStays
<1>2. Grown(outbox, outbox') /\ Len(outbox') <= MaxRows
  BY Pieces DEF Moved
<1>. QED
  BY <1>1, <1>2, Pieces, HandlerInv

\* What an operator makes of a row that has failed or is uncertain.
LEMMA RuledGentle ==
    ASSUME NEW a, RowOK(a), NEW b \in Row, a.state \in {"failed", "uncertain"},
           b.event = a.event, b.key = a.key, b.contact = a.contact, b.until = a.until,
           b.holder = a.holder, b.attempt = a.attempt, b.stale = FALSE,
           a.ruled => b.ruled, b.state \in {"queued", "retry", "sent", "failed", "cancelled"},
           a.state = "failed" \/ b.state = "sent" \/ b.ruled
    PROVE  Gentle(a, b)
<1>1. RowOK(b)
  BY DEF RowOK
<1>2. Same(a, b)
  BY DEF Same
<1>3. Unseen(b) /\ Tracked(b) => Unseen(a)
  BY DEF Unseen, Tracked, BeforeIO, PENDING_STATES
<1>. QED
  BY <1>1, <1>2, <1>3 DEF Gentle, Quiet

LEMMA OperatorInv ==
    ASSUME IInv, NEW i \in Rows, RetryFailed(i) \/ ReconcileUncertain(i)
    PROVE  IInv'
<1>. DEFINE a == outbox[i]
<1>1. i \in 1..Len(outbox) /\ RowOK(a) /\ a \in Row /\ now \in Int /\ world.tries \in Nat
  BY Pieces, BoxLen, WorldFacts DEF Rows
<1>2. \A row : Gentle(a, row) /\ OperatorSets(i, row) => IInv'
  <2>. TAKE row
  <2>. HAVE Gentle(a, row) /\ OperatorSets(i, row)
  <2>1. Moved(outbox, [outbox EXCEPT ![i] = row])
    BY <1>1, Pieces, OneRowMoves
  <2>. QED
    BY <2>1, OutboxInv DEF OperatorSets
<1>3. a.state \in {"failed", "uncertain"} => a.holder = Nobody /\ a.attempt = "none"
  BY <1>1 DEF RowOK
<1>4. CASE RetryFailed(i)
  <2>. DEFINE b == [[a EXCEPT !.state = "queued"] EXCEPT !.due = now, !.left = world.tries]
  <2>1. a.state = "failed" /\ OperatorSets(i, b)
    BY <1>4 DEF RetryFailed, Granted
  <2>2. a.stale = FALSE
    BY <1>1, <2>1 DEF RowOK, Row
  <2>3. /\ b \in Row /\ b.event = a.event /\ b.key = a.key /\ b.contact = a.contact /\ b.until = a.until
        /\ b.holder = a.holder /\ b.attempt = a.attempt /\ b.stale = FALSE /\ b.ruled = a.ruled
        /\ b.state = "queued"
    BY <1>1, <2>2 DEF Row, RowStates, PENDING_STATES
  <2>. HIDE DEF a, b
  <2>4. Gentle(a, b)
    BY <1>1, <2>1, <2>3, RuledGentle
  <2>. QED
    BY <1>2, <2>1, <2>4
<1>5. CASE ReconcileUncertain(i)
  <2>1. a.state = "uncertain"
    BY <1>5 DEF ReconcileUncertain
  <2>. DEFINE sent == [a EXCEPT !.state = "sent", !.stale = FALSE]
              st == IF world.kind = "waitlist" /\ ~Relevant(outbox, i) THEN "cancelled" ELSE "failed"
              closed == [a EXCEPT !.ruled = TRUE, !.state = st]
              again == [[a EXCEPT !.state = "retry", !.ruled = TRUE] EXCEPT !.due = now, !.left = world.tries]
  <2>2. \/ OperatorSets(i, sent)
        \/ ~a.stale /\ OperatorSets(i, closed)
        \/ ~a.stale /\ OperatorSets(i, again)
    BY <1>5 DEF ReconcileUncertain, Granted
  <2>3. /\ sent \in Row /\ sent.event = a.event /\ sent.key = a.key /\ sent.contact = a.contact
        /\ sent.until = a.until /\ sent.holder = a.holder /\ sent.attempt = a.attempt
        /\ sent.stale = FALSE /\ sent.ruled = a.ruled /\ sent.state = "sent"
    BY <1>1 DEF Row, RowStates, Terminal
  <2>4. st \in {"cancelled", "failed"}
    OBVIOUS
  <2>. HIDE DEF st
  <2>5. ~a.stale =>
          /\ closed \in Row /\ closed.event = a.event /\ closed.key = a.key /\ closed.contact = a.contact
          /\ closed.until = a.until /\ closed.holder = a.holder /\ closed.attempt = a.attempt
          /\ closed.stale = FALSE /\ closed.ruled = TRUE /\ closed.state = st
    BY <1>1, <2>4 DEF Row, RowStates, Terminal
  <2>6. ~a.stale =>
          /\ again \in Row /\ again.event = a.event /\ again.key = a.key /\ again.contact = a.contact
          /\ again.until = a.until /\ again.holder = a.holder /\ again.attempt = a.attempt
          /\ again.stale = FALSE /\ again.ruled = TRUE /\ again.state = "retry"
    BY <1>1 DEF Row, RowStates, PENDING_STATES
  <2>. HIDE DEF a, sent, closed, again
  <2>7. Gentle(a, sent)
    BY <1>1, <2>1, <2>3, RuledGentle
  <2>8. ~a.stale => Gentle(a, closed)
    BY <1>1, <2>1, <2>4, <2>5, RuledGentle
  <2>9. ~a.stale => Gentle(a, again)
    BY <1>1, <2>1, <2>6, RuledGentle
  <2>. QED
    BY <1>2, <2>2, <2>7, <2>8, <2>9
<1>. QED
  BY <1>4, <1>5

LEMMA LapseInv ==
    ASSUME IInv, NEW rows \in SUBSET Leased, LeasesLapse(rows)
    PROVE  IInv'
<1>1. Rows = 1..Len(outbox)
  BY DEF Rows
<1>2. /\ outbox' = [i \in Rows |-> IF i \in rows THEN [outbox[i] EXCEPT !.lapsed = TRUE] ELSE outbox[i]]
      /\ UNCHANGED <<world, now, hours, owner, worker, received>>
  BY DEF LeasesLapse
<1>3. ASSUME NEW i \in 1..Len(outbox)
      PROVE  Gentle(outbox[i], outbox'[i])
  <2>. DEFINE a == outbox[i]
              b == [a EXCEPT !.lapsed = TRUE]
  <2>1. RowOK(a) /\ a \in Row
    BY Pieces, BoxLen
  <2>2. outbox'[i] = a \/ outbox'[i] = b
    BY <1>1, <1>2
  <2>3. /\ b \in Row /\ b.state = a.state /\ b.holder = a.holder /\ b.attempt = a.attempt /\ b.stale = a.stale
        /\ b.event = a.event /\ b.key = a.key /\ b.contact = a.contact /\ b.until = a.until /\ b.ruled = a.ruled
    BY <2>1 DEF Row
  <2>. HIDE DEF a, b
  <2>4. RowOK(b) /\ Same(a, b)
    BY <2>1, <2>3 DEF RowOK, Same
  <2>5. Quiet(a, b)
    BY <2>3 DEF Quiet, Unseen, Tracked, BeforeIO
  <2>6. Gentle(a, a)
    BY <2>1, GentleSelf
  <2>. QED
    BY <2>2, <2>4, <2>5, <2>6 DEF Gentle, a
<1>4. DOMAIN outbox' = 1..Len(outbox) /\ outbox' = [i \in 1..Len(outbox) |-> outbox'[i]]
  BY <1>1, <1>2
<1>5. Moved(outbox, outbox')
  BY <1>3, <1>4, Pieces, RowsMoved
<1>. QED
  BY <1>2, <1>5, OutboxInv

LEMMA TickInv == IInv /\ Tick => IInv'
<1>. SUFFICES ASSUME IInv, Tick PROVE IInv'
  OBVIOUS
<1>1. now' = now + 1 /\ UNCHANGED <<world, hours, owner, outbox, worker, received>>
  BY DEF Tick
<1>2. now' \in 0..MaxNow
  <2>1. PICK t \in world.times : now < t
    BY DEF Tick
  <2>2. t \in 1..MaxNow /\ now \in 0..MaxNow /\ MaxNow \in Nat
    BY Pieces, WorldFacts, BoundAssumption
  <2>. QED
    BY <1>1, <2>1, <2>2
<1>3. Grown(outbox, outbox')
  BY <1>1, Pieces, MovedSelf DEF Moved
<1>4. /\ Len(outbox') <= MaxRows /\ owner' \in OwnerRows /\ hours' \in 0..MaxHours
      /\ RemindersOK(outbox', owner'.channels) /\ OwnerOK(owner', outbox')
      /\ Offered(world, owner') => Offered(world, owner) /\ owner'.version = owner.version
  BY <1>1, Pieces
<1>. QED
  BY <1>1, <1>2, <1>3, <1>4, HandlerInv

-----------------------------------------------------------------------------
(* The workers.                                                             *)

WorkersOK(W, box) ==
    /\ W \in [world.workers -> WorkerRows]
    /\ \A w \in world.workers : WorkerOK(W[w], box)

CopiesCounted(R, box) ==
    /\ R \in [1..MaxRows -> 0..2]
    /\ \A i \in 1..MaxRows : i > Len(box) => R[i] = 0

\* Nothing of an earlier offer begins to be sent or comes for the first time.
NothingOldBegins(box, W, V, R, S) ==
    \A i \in 1..Len(box) :
        box[i].key < owner.version /\ (S[i] > 0 \/ SendingOne(V, i)) => R[i] > 0 \/ SendingOne(W, i)

LEMMA WorkerInv ==
    ASSUME IInv, UNCHANGED <<world, now, hours, owner>>,
           BoxOK(outbox'), SameRows(outbox, outbox'),
           WorkersOK(worker', outbox'), CopiesCounted(received', outbox'),
           DeliveryOK(outbox', worker', received'),
           Offered(world, owner) => NothingOldBegins(outbox, worker, worker', received, received')
    PROVE  IInv'
<1>1. /\ world' = world /\ now' = now /\ hours' = hours /\ owner' = owner
      /\ Len(outbox') = Len(outbox) /\ Len(outbox) \in Nat /\ Len(outbox) <= MaxRows
      /\ \A i \in 1..Len(outbox) : Same(outbox[i], outbox'[i])
  BY Pieces DEF SameRows
<1>2. /\ worker' \in [world'.workers -> WorkerRows]
      /\ \A w \in world'.workers : WorkerOK(worker'[w], outbox')
      /\ received' \in [1..MaxRows -> 0..2]
      /\ \A i \in 1..MaxRows : i > Len(outbox') => received'[i] = 0
  BY <1>1 DEF WorkersOK, CopiesCounted
<1>3. RemindersOK(outbox', owner.channels)
  BY Pieces, RemindersMoved
<1>4. OwnerOK(owner, outbox')
  <2>1. \A i \in 1..Len(outbox) : /\ outbox'[i].key = outbox[i].key
                                  /\ outbox'[i].state = "deleted" <=> outbox[i].state = "deleted"
    BY <1>1 DEF Same
  <2>2. owner.status = "none" => outbox' = <<>>
    BY <1>1, Pieces, EmptySeq DEF OwnerOK, BoxOK
  <2>. QED
    BY <1>1, <2>1, <2>2, Pieces DEF OwnerOK
<1>5. Offered(world, owner) => FenceOK(outbox', worker', received', owner)
  <2>. SUFFICES ASSUME Offered(world, owner) PROVE FenceOK(outbox', worker', received', owner)
    OBVIOUS
  <2>1. FenceOK(outbox, worker, received, owner)
    BY Pieces
  <2>2. \A i \in 1..Len(outbox') : ~(i > Len(outbox))
    BY <1>1
  <2>. QED
    BY <1>1, <2>1, <2>2, FenceKept DEF NothingOldBegins
<1>. QED
  BY <1>1, <1>2, <1>3, <1>4, <1>5, Pieces, Together

\* One worker turns to something else than sending.
LEMMA WorkerRests ==
    ASSUME IInv, NEW w \in world.workers, NEW j \in WorkerRows, j.at \in {"idle", "claimed"},
           j.at = "claimed" => j.row \in 1..Len(outbox)
    PROVE  /\ WorkersOK([worker EXCEPT ![w] = j], outbox)
           /\ DeliveryOK(outbox, [worker EXCEPT ![w] = j], received)
           /\ \A i : SendingOne([worker EXCEPT ![w] = j], i) => SendingOne(worker, i)
<1>. DEFINE V == [worker EXCEPT ![w] = j]
<1>1. /\ V \in [world.workers -> WorkerRows] /\ DOMAIN V = world.workers /\ DOMAIN worker = world.workers
      /\ \A v \in world.workers : V[v] = IF v = w THEN j ELSE worker[v]
  BY Pieces
<1>2. DeliveryOK(outbox, V, received)
  BY <1>1, Pieces, WorkerLetsGo
<1>. HIDE DEF V
<1>3. WorkerOK(j, outbox)
  BY DEF WorkerOK
<1>4. \A v \in world.workers : WorkerOK(V[v], outbox)
  BY <1>1, <1>3, Pieces
<1>5. \A i : SendingOne(V, i) => SendingOne(worker, i)
  BY <1>1 DEF SendingOne, Sending
<1>. QED
  BY <1>1, <1>2, <1>4, <1>5 DEF WorkersOK, V

LEMMA CopiesAsBefore ==
    ASSUME IInv, NEW box, Len(box) = Len(outbox)
    PROVE  CopiesCounted(received, box)
BY Pieces DEF CopiesCounted

LEMMA IdleFacts == Idle \in WorkerRows /\ Idle.at = "idle" /\ Idle.row = 0
<1>1. 0 \in 0..MaxRows
  BY BoundAssumption
<1>. QED
  BY <1>1 DEF Idle, WorkerRows

\* A worker stops, and at most a row moves as if by a handler.
LEMMA StopInv ==
    ASSUME IInv, NEW w \in world.workers, worker' = [worker EXCEPT ![w] = Idle],
           Moved(outbox, outbox'), UNCHANGED <<world, now, hours, owner, received>>
    PROVE  IInv'
<1>1. /\ WorkersOK(worker', outbox) /\ DeliveryOK(outbox, worker', received)
      /\ \A i : SendingOne(worker', i) => SendingOne(worker, i)
  BY IdleFacts, WorkerRests
<1>2. SameRows(outbox, outbox') /\ BoxOK(outbox')
  BY MovedSame
<1>3. /\ Len(outbox') = Len(outbox) /\ Len(outbox) \in Nat /\ Len(outbox') \in Nat
      /\ DOMAIN worker' = world.workers
      /\ \A i \in 1..Len(outbox) : Quiet(outbox[i], outbox'[i])
      /\ \A i \in 1..Len(outbox') : ~(i > Len(outbox))
  <2>1. Len(outbox') = Len(outbox) /\ \A i \in 1..Len(outbox) : Quiet(outbox[i], outbox'[i])
    BY DEF Moved, Grown, Gentle
  <2>2. DOMAIN worker' = world.workers
    BY <1>1 DEF WorkersOK
  <2>3. Len(outbox) \in Nat
    BY Pieces
  <2>4. \A i \in 1..Len(outbox') : ~(i > Len(outbox))
    BY <2>1, <2>3
  <2>. QED
    BY <2>1, <2>2, <2>3, <2>4
<1>4. DeliveryOK(outbox', worker', received) /\ \A v \in world.workers : WorkerOK(worker'[v], outbox')
  <2>1. \A v \in DOMAIN worker' : WorkerOK(worker'[v], outbox)
    BY <1>1, <1>3 DEF WorkersOK
  <2>2. Len(outbox) <= Len(outbox') /\ \A i \in 1..Len(outbox') : i > Len(outbox) => received[i] = 0
    BY <1>3
  <2>. HIDE DEF Moved
  <2>. QED
    BY <1>1, <1>3, <2>1, <2>2, DeliveryKept
<1>5. WorkersOK(worker', outbox') /\ CopiesCounted(received', outbox')
  BY <1>1, <1>3, <1>4, CopiesAsBefore DEF WorkersOK
<1>6. NothingOldBegins(outbox, worker, worker', received, received')
  BY <1>1 DEF NothingOldBegins
<1>. QED
  BY <1>2, <1>4, <1>5, <1>6, WorkerInv

LEMMA CrashInv ==
    ASSUME IInv, NEW w \in world.workers, Crash(w)
    PROVE  IInv'
<1>1. Moved(outbox, outbox')
  BY Pieces, MovedSelf DEF Crash
<1>. QED
  BY <1>1, StopInv DEF Crash

-----------------------------------------------------------------------------
(* The next row: leases, expiry, relevance and tries first.                 *)

LEMMA RecoveredGentle ==
    ASSUME NEW box, BoxOK(box), NEW i \in 1..Len(box), now \in Int
    PROVE  Gentle(box[i], Recovered(box, i))
<1>. DEFINE row == box[i]
<1>1. RowOK(row)
  BY BoxLen
<1>. HIDE DEF row
<1>2. CASE ~(row.state = "processing" /\ row.lapsed)
  BY <1>1, <1>2, GentleSelf DEF Recovered, row
<1>3. CASE row.state = "processing" /\ row.lapsed
  <2>1. \A st \in {"cancelled", "retry", "expired", "uncertain"} : st \in RowStates \ {"processing", "deleted"}
    BY DEF RowStates, Terminal, PENDING_STATES
  <2>2. ~row.stale
    BY <1>1, <1>3 DEF RowOK
  <2>3. CASE BeforeIO(row)
    <3>1. \A st \in {"cancelled", "retry", "expired"} : ClosesTo(row, st)
      BY <1>3, <2>1, <2>2, <2>3 DEF ClosesTo, Unseen
    <3>2. \A st \in {"cancelled", "retry", "expired"} :
             Gentle(row, Closed(row, st)) /\ Gentle(row, [Closed(row, st) EXCEPT !.due = now])
      BY <1>1, <3>1, ClosedGentle
    <3>3. Recovered(box, i) \in {Closed(row, "cancelled"), [Closed(row, "retry") EXCEPT !.due = now],
                                 Closed(row, "expired")}
      BY <1>3, <2>3 DEF Recovered, row
    <3>. QED
      BY <3>2, <3>3 DEF row
  <2>4. CASE ~BeforeIO(row)
    <3>1. ClosesTo(row, "uncertain") /\ (row.contact \in Idempotent => ClosesTo(row, "retry"))
      BY <1>3, <2>1, <2>2 DEF ClosesTo, Tracked
    <3>2. /\ Gentle(row, Closed(row, "uncertain"))
          /\ row.contact \in Idempotent => Gentle(row, [Closed(row, "retry") EXCEPT !.due = now])
      BY <1>1, <3>1, ClosedGentle
    <3>3. \/ Recovered(box, i) = Closed(row, "uncertain")
          \/ row.contact \in Idempotent /\ Recovered(box, i) = [Closed(row, "retry") EXCEPT !.due = now]
      BY <1>3, <2>4 DEF Recovered, row
    <3>. QED
      BY <3>2, <3>3 DEF row
  <2>. QED
    BY <2>3, <2>4
<1>. QED
  BY <1>2, <1>3

LEMMA PendingCloses ==
    ASSUME NEW a, RowOK(a), a.state \in PENDING_STATES, NEW st \in {"expired", "cancelled", "failed"}
    PROVE  Gentle(a, Closed(a, st))
<1>1. ClosesTo(a, st)
  BY DEF ClosesTo, RowOK, Unseen, RowStates, Terminal, PENDING_STATES
<1>. QED
  BY <1>1, ClosedGentle

LEMMA ExpiredGentle == ASSUME NEW a, RowOK(a) PROVE Gentle(a, Expired(a))
BY PendingCloses, GentleSelf DEF Expired

LEMMA SettledGentle ==
    ASSUME NEW box, BoxOK(box), NEW i \in 1..Len(box)
    PROVE  Gentle(box[i], Settled(box, i))
<1>1. RowOK(box[i])
  BY BoxLen
<1>2. Gentle(box[i], box[i])
  BY <1>1, GentleSelf
<1>. QED
  BY <1>1, <1>2, PendingCloses DEF Settled

\* Of the rows that are fit to be sent one is the oldest.
LEMMA OldestExists ==
    ASSUME NEW box, NEW n \in Nat, NEW fit \in SUBSET (1..n), fit # {}, \A i \in fit : box[i].due \in Int
    PROVE  \E i \in fit : \A j \in fit : Before(box, i, j)
<1>. DEFINE below == [i \in fit |-> {j \in fit : Before(box, j, i)}]
            T == {below[i] : i \in fit}
            R == StrictSubsetOrdering(fit)
            S == FiniteSubsetsOf(fit)
<1>1. IsFiniteSet(fit)
  <2>1. IsFiniteSet(1..n)
    BY FS_Interval
  <2>. QED
    BY <2>1, FS_Subset
<1>2. T \subseteq S /\ T # {}
  <2>1. S = SUBSET fit
    BY <1>1, FS_FiniteSubsetsOfFinite
  <2>2. \A i \in fit : below[i] \in SUBSET fit
    OBVIOUS
  <2>. HIDE DEF below, S
  <2>. QED
    BY <2>1, <2>2
<1>3. IsWellFoundedOn(R, S)
  BY FS_StrictSubsetOrderingWellFounded
<1>4. \E x \in T : \A y \in T : <<y, x>> \notin R
  <2>. HIDE DEF T, R, S
  <2>. QED
    BY <1>2, <1>3, WFMin
<1>5. PICK i \in fit : \A j \in fit : <<below[j], below[i]>> \notin R
  <2>. HIDE DEF below, R
  <2>. QED
    BY <1>4
<1>6. ASSUME NEW j \in fit, ~Before(box, i, j) PROVE FALSE
  <2>0. \A k \in fit : k \in 1..n /\ box[k].due \in Int
    OBVIOUS
  <2>1. i \in Int /\ j \in Int /\ box[i].due \in Int /\ box[j].due \in Int
    BY <2>0
  <2>2. Before(box, j, i) /\ Before(box, i, i)
    BY <1>6, <2>1 DEF Before
  <2>3. \A k \in fit : Before(box, k, j) => Before(box, k, i)
    <3>. TAKE k \in fit
    <3>1. k \in Int /\ box[k].due \in Int
      BY <2>0
    <3>. DEFINE a == box[i].due
                b == box[j].due
                c == box[k].due
    <3>2. (b < a \/ (b = a /\ j <= i)) /\ a \in Int /\ b \in Int /\ c \in Int
      BY <2>1, <2>2, <3>1 DEF Before
    <3>. HIDE DEF a, b, c
    <3>3. (c < b \/ (c = b /\ k <= j)) => (c < a \/ (c = a /\ k <= i))
      BY <2>1, <3>1, <3>2
    <3>. QED
      BY <3>3 DEF Before, a, b, c
  <2>4. /\ \A k \in fit : k \in below[j] => k \in below[i]
        /\ i \in below[i] /\ i \notin below[j]
    BY <1>6, <2>2, <2>3
  <2>5. below[j] \in SUBSET fit /\ below[i] \in SUBSET fit
    OBVIOUS
  <2>. HIDE DEF below
  <2>6. below[j] \subseteq below[i] /\ below[j] # below[i]
    BY <2>4, <2>5
  <2>7. <<below[j], below[i]>> \in R
    BY <2>5, <2>6 DEF StrictSubsetOrdering
  <2>. QED
    BY <1>5, <2>7
<1>. QED
  BY <1>6

LEMMA WorkersStay ==
    ASSUME NEW V, NEW box, NEW b2, WorkersOK(V, box), Len(b2) = Len(box)
    PROVE  WorkersOK(V, b2)
BY DEF WorkersOK, WorkerOK

LEMMA SettlingMoves ==
    ASSUME BoxOK(outbox), now \in Int, NEW passed
    PROVE  LET recovered == [i \in Rows |-> Recovered(outbox, i)]
               live == [i \in Rows |-> Expired(recovered[i])]
               settled == [i \in Rows |-> IF i \in passed THEN Settled(live, i) ELSE live[i]]
           IN Moved(outbox, live) /\ Moved(outbox, settled)
<1>. DEFINE n == Len(outbox)
            recovered == [i \in 1..n |-> Recovered(outbox, i)]
            live == [i \in 1..n |-> Expired(recovered[i])]
            settled == [i \in 1..n |-> IF i \in passed THEN Settled(live, i) ELSE live[i]]
<1>1. Moved(outbox, recovered)
  <2>1. \A i \in 1..n : Gentle(outbox[i], recovered[i])
    BY RecoveredGentle
  <2>2. DOMAIN recovered = 1..n /\ recovered = [i \in 1..n |-> recovered[i]]
    OBVIOUS
  <2>. HIDE DEF recovered
  <2>. QED
    BY <2>1, <2>2, RowsMoved
<1>2. Moved(recovered, live)
  <2>. HIDE DEF recovered
  <2>1. BoxOK(recovered) /\ Len(recovered) = n
    BY <1>1 DEF Moved, Grown
  <2>2. \A i \in 1..n : Gentle(recovered[i], live[i])
    BY <2>1, BoxLen, ExpiredGentle
  <2>3. DOMAIN live = 1..n /\ live = [i \in 1..n |-> live[i]]
    OBVIOUS
  <2>. HIDE DEF live, n
  <2>. QED
    BY <2>1, <2>2, <2>3, RowsMoved
<1>3. Moved(live, settled)
  <2>. HIDE DEF live
  <2>1. BoxOK(live) /\ Len(live) = n
    BY <1>1, <1>2 DEF Moved, Grown
  <2>2. \A i \in 1..n : Gentle(live[i], settled[i])
    BY <2>1, BoxLen, SettledGentle, GentleSelf
  <2>3. DOMAIN settled = 1..n /\ settled = [i \in 1..n |-> settled[i]]
    OBVIOUS
  <2>. HIDE DEF settled, n
  <2>. QED
    BY <2>1, <2>2, <2>3, RowsMoved
<1>4. Moved(outbox, live) /\ Moved(outbox, settled)
  <2>. HIDE DEF recovered, live, settled
  <2>. QED
    BY <1>1, <1>2, <1>3, GrownChain DEF Moved
<1>. QED
  BY <1>4 DEF Rows

\* What is fit is pending, due, relevant and has a try left.
LEMMA FitToSend ==
    ASSUME NEW box, BoxOK(box), NEW i \in 1..Len(box), box[i].state \in PENDING_STATES, ~(box[i].due > now),
           Settled(box, i) = box[i]
    PROVE  Relevant(box, i) /\ box[i].left - 1 \in Nat
<1>1. box[i] \in Row
  BY BoxLen
<1>2. \A st \in {"cancelled", "failed"} : Closed(box[i], st) # box[i]
  <2>1. \A st \in {"cancelled", "failed"} : st \in RowStates /\ st \notin PENDING_STATES
    BY DEF RowStates, Terminal, PENDING_STATES
  <2>. QED
    BY <1>1, <2>1, ClosedFields
<1>3. Relevant(box, i) /\ box[i].left # 0
  BY <1>2 DEF Settled
<1>4. box[i].left \in Nat
  BY <1>1 DEF Row
<1>. QED
  BY <1>3, <1>4

\* A row nobody can have seen goes to a worker that is free.
LEMMA ClaimedDelivery ==
    ASSUME NEW box, NEW W, NEW R, DeliveryOK(box, W, R), NEW i \in 1..Len(box), NEW b2,
           Len(b2) = Len(box), \A k \in 1..Len(box) : k # i => b2[k] = box[k],
           box[i].state \in PENDING_STATES, b2[i].holder \in DOMAIN W,
           b2[i].contact = box[i].contact, b2[i].ruled = box[i].ruled,
           \A v \in DOMAIN W : v = b2[i].holder => W[v].at \notin {"started", "answered"}
    PROVE  DeliveryOK(b2, W, R)
<1>. SUFFICES ASSUME NEW k \in 1..Len(box)
              PROVE  /\ CopiesOK(b2[k], R[k]) /\ OneSender(b2[k], k, W)
                     /\ \A v \in DOMAIN W : WorkerAgrees(b2[k], k, R[k], v, W[v])
  BY DEF DeliveryOK
<1>1. /\ CopiesOK(box[k], R[k]) /\ OneSender(box[k], k, W)
      /\ \A v \in DOMAIN W : WorkerAgrees(box[k], k, R[k], v, W[v])
  BY DEF DeliveryOK
<1>2. CASE k # i
  BY <1>1, <1>2
<1>3. CASE k = i
  <2>. DEFINE a == box[i]
              b == b2[i]
  <2>1. Unseen(a) /\ (Tracked(b) <=> Tracked(a)) /\ b.contact = a.contact
    BY DEF Unseen, Tracked
  <2>2. /\ CopiesOK(a, R[i]) /\ OneSender(a, i, W)
        /\ \A v \in DOMAIN W : WorkerAgrees(a, i, R[i], v, W[v])
    BY <1>1, <1>3
  <2>3. \A v \in DOMAIN W : v = b.holder => W[v].at \notin {"started", "answered"}
    OBVIOUS
  <2>. HIDE DEF a, b
  <2>4. CopiesOK(b, R[i]) /\ OneSender(b, i, W)
    BY <2>1, <2>2 DEF CopiesOK, OneSender
  <2>5. \A v \in DOMAIN W : WorkerAgrees(b, i, R[i], v, W[v])
    BY <2>1, <2>2, <2>3 DEF WorkerAgrees, Holds, Sending
  <2>. QED
    BY <1>3, <2>4, <2>5 DEF b
<1>. QED
  BY <1>2, <1>3

LEMMA ClaimNextInv ==
    ASSUME IInv, NEW w \in world.workers, ClaimNext(w)
    PROVE  IInv'
<1>. DEFINE recovered == [i \in Rows |-> Recovered(outbox, i)]
            live == [i \in Rows |-> Expired(recovered[i])]
            due == {i \in Rows : live[i].state \in PENDING_STATES /\ live[i].due <= now}
            fit == {i \in due : Settled(live, i) = live[i]}
            first == CHOOSE i \in fit : \A j \in fit : Before(live, i, j)
            passed == {i \in due : fit # {} => Before(live, i, first)}
            settled == [i \in Rows |-> IF i \in passed THEN Settled(live, i) ELSE live[i]]
            claimed == [Idle EXCEPT !.at = "claimed", !.row = first]
<1>1. /\ worker[w].at = "idle"
      /\ fit = {} => outbox' = settled /\ UNCHANGED worker
      /\ fit # {} =>
           /\ outbox' = [settled EXCEPT ![first].state = "processing", ![first].attempt = "claimed",
                                        ![first].holder = w, ![first].left = @ - 1]
           /\ worker' = [worker EXCEPT ![w] = claimed]
      /\ UNCHANGED <<world, now, hours, owner, received>>
  BY DEF ClaimNext
<1>2. BoxOK(outbox) /\ now \in Int /\ Rows = 1..Len(outbox) /\ Len(outbox) \in Nat
  BY Pieces DEF Rows
<1>3. Moved(outbox, live) /\ Moved(outbox, settled)
  <2>. HIDE DEF passed
  <2>. QED
    BY <1>2, SettlingMoves
<1>4. \A i \in fit : /\ i \in 1..Len(outbox) /\ live[i].state \in PENDING_STATES /\ live[i].due <= now
                     /\ Settled(live, i) = live[i]
                     /\ settled[i] = live[i]
  BY <1>2
<1>. HIDE DEF recovered, live, due, settled
<1>5. CASE fit = {}
  BY <1>1, <1>3, <1>5, OutboxInv
<1>6. CASE fit # {}
  <2>. DEFINE n == Len(outbox)
  <2>1. first \in fit
    <3>1. \A i \in 1..n : live[i].due \in Int
      BY <1>3, BoxLen DEF Moved, Grown, Row
    <3>2. fit \in SUBSET (1..n)
      BY <1>4
    <3>3. \E i \in fit : \A j \in fit : Before(live, i, j)
      <4>. HIDE DEF fit
      <4>. QED
        BY <1>2, <1>4, <1>6, <3>1, <3>2, OldestExists
    <3>. HIDE DEF fit
    <3>. QED
      BY <3>3
  <2>. HIDE DEF fit, first
  <2>. DEFINE a == settled[first]
              c == [a EXCEPT !.state = "processing", !.attempt = "claimed", !.holder = w, !.left = a.left - 1]
  <2>2. first \in 1..n /\ a = live[first] /\ a.state \in PENDING_STATES /\ ~(live[first].due > now)
    <3>1. live[first].due \in Int
      BY <1>3, <1>4, <2>1, BoxLen DEF Moved, Grown, Row
    <3>. QED
      BY <1>2, <1>4, <2>1, <3>1
  <2>3. a.left - 1 \in Nat
    <3>1. BoxOK(live) /\ Len(live) = n
      BY <1>3 DEF Moved, Grown
    <3>. QED
      BY <1>4, <2>1, <2>2, <3>1, FitToSend
  <2>4. BoxOK(settled) /\ Len(settled) = n /\ DOMAIN settled = 1..n /\ settled \in Seq(Row)
    BY <1>3, LenProperties DEF Moved, Grown, BoxOK
  <2>5. RowOK(a) /\ a \in Row /\ w \in Workers /\ w # Nobody
    BY <2>2, <2>4, BoxLen, Pieces, WorldFacts
  <2>6. outbox' = [settled EXCEPT ![first] = c]
    <3>1. [settled EXCEPT ![first].state = "processing", ![first].attempt = "claimed",
                          ![first].holder = w, ![first].left = @ - 1]
          = [settled EXCEPT ![first] = [settled[first] EXCEPT !.state = "processing", !.attempt = "claimed",
                                                     !.holder = w, !.left = settled[first].left - 1]]
      BY <2>2, <2>4
    <3>. QED
      BY <1>1, <1>6, <3>1
  <2>7. /\ c \in Row /\ c.state = "processing" /\ c.attempt = "claimed" /\ c.holder = w /\ c.stale = a.stale
        /\ c.event = a.event /\ c.key = a.key /\ c.contact = a.contact /\ c.until = a.until /\ c.ruled = a.ruled
    <3>. DEFINE m == a.left - 1
    <3>1. m \in Nat
      BY <2>3
    <3>. HIDE DEF m, a
    <3>2. "processing" \in RowStates
      BY DEF RowStates
    <3>. QED
      BY <2>5, <3>1, <3>2 DEF Row, m
  <2>. HIDE DEF c
  <2>8. RowOK(c) /\ Same(a, c)
    <3>1. a.state \notin {"sent", "cancelled", "deleted", "uncertain"}
      BY <2>2 DEF PENDING_STATES
    <3>. HIDE DEF a
    <3>. QED
      BY <2>5, <2>7, <3>1 DEF RowOK, Same
  <2>9. /\ Len(outbox') = n /\ outbox' \in Seq(Row) /\ outbox'[first] = c
        /\ \A k \in 1..n : k # first => outbox'[k] = settled[k]
    <3>. HIDE DEF a
    <3>1. outbox' \in [1..n -> Row]
      BY <2>4, <2>6, <2>7, BoxLen
    <3>2. outbox' \in Seq(Row) /\ Len(outbox') = n
      BY <1>2, <3>1, ListOfRows
    <3>. QED
      BY <2>2, <2>4, <2>6, <3>2
  <2>10. BoxOK(outbox')
    BY <2>4, <2>8, <2>9 DEF BoxOK
  <2>11. SameRows(outbox, outbox')
    <3>1. \A k \in 1..n : Same(outbox[k], settled[k])
      BY <1>3, MovedSame DEF SameRows
    <3>2. Same(outbox[first], c)
      <4>. HIDE DEF a
      <4>1. Same(outbox[first], a)
        BY <2>2, <3>1 DEF a
      <4>. QED
        BY <2>8, <4>1 DEF Same
    <3>. QED
      BY <2>9, <3>1, <3>2 DEF SameRows
  <2>12. claimed \in WorkerRows /\ claimed.at = "claimed" /\ claimed.row = first
    <3>1. first \in 0..MaxRows
      BY <2>2, Pieces, BoundAssumption
    <3>. QED
      BY <3>1 DEF Idle, WorkerRows
  <2>. HIDE DEF claimed
  <2>13. /\ WorkersOK(worker', outbox) /\ DeliveryOK(outbox, worker', received)
         /\ \A i : SendingOne(worker', i) => SendingOne(worker, i)
         /\ worker'[w] = claimed /\ DOMAIN worker' = world.workers
    <3>1. worker' = [worker EXCEPT ![w] = claimed] /\ DOMAIN worker = world.workers
      BY <1>1, <1>6, Pieces
    <3>. QED
      BY <2>2, <2>12, <3>1, WorkerRests
  <2>14. DeliveryOK(settled, worker', received)
    <3>1. \A v \in DOMAIN worker' : WorkerOK(worker'[v], outbox)
      BY <2>13 DEF WorkersOK
    <3>2. \A i \in 1..n : Quiet(outbox[i], settled[i])
      BY <1>3 DEF Moved, Grown, Gentle
    <3>3. Len(outbox) <= Len(settled) /\ Len(settled) \in Nat /\ \A i \in 1..Len(settled) : ~(i > Len(outbox))
      BY <1>2, <2>4
    <3>. QED
      BY <1>2, <2>13, <3>1, <3>2, <3>3, DeliveryKept
  <2>15. DeliveryOK(outbox', worker', received)
    <3>1. \A v \in DOMAIN worker' : v = w => worker'[v].at \notin {"started", "answered"}
      BY <2>12, <2>13
    <3>. QED
      BY <2>2, <2>4, <2>7, <2>9, <2>13, <2>14, <3>1, ClaimedDelivery, SMTT(30)
  <2>16. WorkersOK(worker', outbox') /\ CopiesCounted(received', outbox')
    BY <1>1, <2>9, <2>13, WorkersStay, CopiesAsBefore
  <2>17. NothingOldBegins(outbox, worker, worker', received, received')
    BY <1>1, <2>13 DEF NothingOldBegins
  <2>. QED
    BY <1>1, <2>10, <2>11, <2>15, <2>16, <2>17, WorkerInv
<1>. QED
  BY <1>5, <1>6

\* A worker takes a step with its row.
LEMMA ExchangeInv ==
    ASSUME IInv, NEW w \in world.workers, NEW i \in 1..Len(outbox), worker[w].row = i,
           NEW j \in WorkerRows, worker' = [worker EXCEPT ![w] = j],
           j.at # "idle" => j.row = i, j.at = "answered" => j.result # "none",
           NEW row, RowOK(row), Same(outbox[i], row), outbox' = [outbox EXCEPT ![i] = row],
           NEW c \in 0..2, received' = [received EXCEPT ![i] = c],
           UNCHANGED <<world, now, hours, owner>>,
           CopiesOK(row, c), OneSender(row, i, worker'),
           \A v \in world.workers : WorkerAgrees(row, i, c, v, worker'[v]),
           Offered(world, owner) /\ outbox[i].key < owner.version /\ (c > 0 \/ SendingOne(worker', i))
           => received[i] > 0 \/ SendingOne(worker, i)
    PROVE  IInv'
<1>. DEFINE n == Len(outbox)
<1>1. /\ n \in Nat /\ n <= MaxRows /\ MaxRows \in Nat /\ outbox \in Seq(Row) /\ DOMAIN outbox = 1..n
      /\ worker \in [world.workers -> WorkerRows] /\ received \in [1..MaxRows -> 0..2]
      /\ row \in Row /\ i \in 1..n /\ i \in 1..MaxRows
  BY Pieces, LenProperties, BoundAssumption DEF BoxOK, RowOK
<1>2. /\ Len(outbox') = n /\ outbox' \in Seq(Row) /\ outbox'[i] = row
      /\ \A k \in 1..n : k # i => outbox'[k] = outbox[k]
  <2>1. outbox' \in [1..n -> Row]
    BY <1>1, Pieces, BoxLen
  <2>2. outbox' \in Seq(Row) /\ Len(outbox') = n
    BY <1>1, <2>1, ListOfRows
  <2>. QED
    BY <1>1, <2>2
<1>3. /\ worker' \in [world.workers -> WorkerRows] /\ DOMAIN worker' = world.workers /\ worker'[w] = j
      /\ \A v \in world.workers : v # w => worker'[v] = worker[v]
  BY <1>1
<1>4. /\ received' \in [1..MaxRows -> 0..2] /\ received'[i] = c
      /\ \A k \in 1..MaxRows : k # i => received'[k] = received[k]
  BY <1>1
<1>5. BoxOK(outbox') /\ SameRows(outbox, outbox')
  <2>1. \A k \in 1..n : RowOK(outbox'[k])
    BY <1>2, Pieces, BoxLen
  <2>2. \A k \in 1..n : Same(outbox[k], outbox[k])
    BY DEF Same
  <2>. QED
    BY <1>2, <2>1, <2>2 DEF BoxOK, SameRows
<1>6. WorkersOK(worker', outbox')
  <2>1. \A v \in world.workers : WorkerOK(worker[v], outbox)
    BY Pieces
  <2>2. WorkerOK(j, outbox)
    BY <1>1 DEF WorkerOK
  <2>3. \A v \in world.workers : WorkerOK(worker'[v], outbox)
    BY <1>3, <2>1, <2>2
  <2>. QED
    BY <1>2, <1>3, <2>3 DEF WorkersOK, WorkerOK
<1>7. CopiesCounted(received', outbox')
  BY <1>1, <1>2, <1>4, Pieces DEF CopiesCounted
<1>8. DeliveryOK(outbox', worker', received')
  <2>. SUFFICES ASSUME NEW k \in 1..n
                PROVE  /\ CopiesOK(outbox'[k], received'[k]) /\ OneSender(outbox'[k], k, worker')
                       /\ \A v \in world.workers : WorkerAgrees(outbox'[k], k, received'[k], v, worker'[v])
    BY <1>2, <1>3 DEF DeliveryOK
  <2>1. CASE k = i
    BY <1>2, <1>4, <2>1
  <2>2. CASE k # i
    <3>1. outbox'[k] = outbox[k] /\ received'[k] = received[k]
      BY <1>1, <1>2, <1>4, <2>2
    <3>2. /\ CopiesOK(outbox[k], received[k]) /\ OneSender(outbox[k], k, worker)
          /\ \A v \in world.workers : WorkerAgrees(outbox[k], k, received[k], v, worker[v])
      BY <1>1, Pieces DEF DeliveryOK
    <3>3. ~Sending(j, k) /\ (j.at \in {"started", "answered"} => j.row # k)
      BY <2>2 DEF Sending
    <3>4. OneSender(outbox[k], k, worker')
      BY <1>1, <1>3, <3>2, <3>3 DEF OneSender
    <3>5. WorkerAgrees(outbox[k], k, received[k], w, j)
      BY <3>3 DEF WorkerAgrees, Sending
    <3>. QED
      BY <1>3, <3>1, <3>2, <3>4, <3>5
  <2>. QED
    BY <2>1, <2>2
<1>9. Offered(world, owner) => NothingOldBegins(outbox, worker, worker', received, received')
  <2>. SUFFICES ASSUME Offered(world, owner), NEW k \in 1..n, outbox[k].key < owner.version,
                       received'[k] > 0 \/ SendingOne(worker', k)
                PROVE  received[k] > 0 \/ SendingOne(worker, k)
    BY DEF NothingOldBegins
  <2>1. CASE k = i
    BY <1>4, <2>1
  <2>2. CASE k # i
    <3>1. SendingOne(worker', k) => SendingOne(worker, k)
      BY <1>1, <1>3, <2>2 DEF SendingOne, Sending
    <3>. QED
      BY <1>1, <1>4, <2>2, <3>1
  <2>. QED
    BY <2>1, <2>2
<1>. QED
  BY <1>5, <1>6, <1>7, <1>8, <1>9, WorkerInv

\* What the invariant says of a worker that is busy with its row.
LEMMA BusyFacts ==
    ASSUME IInv, NEW w \in world.workers, worker[w].at # "idle"
    PROVE  /\ worker[w].row \in 1..Len(outbox) /\ worker[w].row \in 1..MaxRows
           /\ RowOK(outbox[worker[w].row]) /\ outbox[worker[w].row] \in Row
           /\ worker[w] \in WorkerRows /\ received[worker[w].row] \in 0..2
           /\ CopiesOK(outbox[worker[w].row], received[worker[w].row])
           /\ OneSender(outbox[worker[w].row], worker[w].row, worker)
           /\ \A v \in world.workers :
                 WorkerAgrees(outbox[worker[w].row], worker[w].row, received[worker[w].row], v, worker[v])
<1>1. worker[w].row \in 1..Len(outbox) /\ worker[w] \in WorkerRows
  BY Pieces DEF WorkerOK
<1>2. worker[w].row \in 1..MaxRows
  BY <1>1, Pieces, BoundAssumption
<1>3. RowOK(outbox[worker[w].row]) /\ outbox[worker[w].row] \in Row
  BY <1>1, Pieces, BoxLen
<1>. QED
  BY <1>1, <1>2, <1>3, Pieces DEF DeliveryOK

LEMMA MarkClaimStartedInv ==
    ASSUME IInv, NEW w \in world.workers, MarkClaimStarted(w)
    PROVE  IInv'
<1>. DEFINE i == worker[w].row
            a == outbox[i]
<1>1. worker[w].at = "claimed" /\ UNCHANGED <<world, now, hours, owner, received>>
  BY DEF MarkClaimStarted
<1>2. /\ i \in 1..Len(outbox) /\ i \in 1..MaxRows /\ RowOK(a) /\ a \in Row /\ worker[w] \in WorkerRows
      /\ received[i] \in 0..2 /\ CopiesOK(a, received[i]) /\ OneSender(a, i, worker)
      /\ \A v \in world.workers : WorkerAgrees(a, i, received[i], v, worker[v])
  BY <1>1, BusyFacts
<1>3. DOMAIN outbox = 1..Len(outbox) /\ worker \in [world.workers -> WorkerRows] /\ received \in [1..MaxRows -> 0..2]
  BY Pieces, LenProperties DEF BoxOK
<1>4. CASE HoldsLease(w) /\ outbox[i].until > now /\ outbox[i].attempt = "claimed" /\ Relevant(outbox, i)
  <2>. DEFINE c == [a EXCEPT !.attempt = "processing"]
              j == [worker[w] EXCEPT !.at = "started"]
  <2>1. outbox' = [outbox EXCEPT ![i].attempt = "processing"] /\ worker' = [worker EXCEPT ![w].at = "started"]
    BY <1>4 DEF MarkClaimStarted
  <2>2. outbox' = [outbox EXCEPT ![i] = c] /\ worker' = [worker EXCEPT ![w] = j]
    BY <1>2, <1>3, <2>1
  <2>3. a.state = "processing" /\ a.holder = w /\ a.attempt = "claimed"
    BY <1>4 DEF HoldsLease
  <2>4. /\ c \in Row /\ c.state = "processing" /\ c.attempt = "processing" /\ c.holder = w /\ c.stale = a.stale
        /\ c.event = a.event /\ c.key = a.key /\ c.contact = a.contact /\ c.until = a.until /\ c.ruled = a.ruled
    BY <1>2, <2>3 DEF Row
  <2>5. j \in WorkerRows /\ j.at = "started" /\ j.row = i
    BY <1>2 DEF WorkerRows
  <2>6. received' = [received EXCEPT ![i] = received[i]]
    BY <1>1, <1>3
  <2>7. world.kind = "waitlist" => a.key = owner.version /\ owner.version \in Nat
    BY <1>4, Pieces DEF Relevant, WaitlistRelevant, OwnerRows
  <2>8. \A v \in world.workers : worker'[v] = IF v = w THEN j ELSE worker[v]
    BY <1>3, <2>2
  <2>9. DOMAIN worker' = world.workers /\ DOMAIN worker = world.workers
    BY <1>3, <2>2
  <2>. HIDE DEF a, c, j, i
  <2>10. RowOK(c) /\ Same(a, c)
    BY <1>2, <2>3, <2>4 DEF RowOK, Same
  <2>11. Unseen(a) /\ ~Unseen(c) /\ AfterIO(c) /\ (Tracked(c) <=> Tracked(a))
    BY <2>3, <2>4 DEF Unseen, BeforeIO, AfterIO, Tracked, PENDING_STATES
  <2>12. Tracked(a) => received[i] = 0 /\ \A v \in world.workers : ~Sending(worker[v], i)
    BY <1>2, <2>11 DEF CopiesOK, WorkerAgrees
  <2>13. CopiesOK(c, received[i])
    BY <1>2, <2>4, <2>11 DEF CopiesOK
  <2>14. OneSender(c, i, worker')
    BY <2>8, <2>9, <2>11, <2>12 DEF OneSender
  <2>15. \A v \in world.workers : WorkerAgrees(c, i, received[i], v, worker'[v])
    <3>. TAKE v \in world.workers
    <3>1. CASE v = w
      BY <2>4, <2>5, <2>8, <2>11, <2>12, <3>1 DEF WorkerAgrees
    <3>2. CASE v # w
      BY <2>4, <2>8, <2>11, <2>12, <3>2 DEF WorkerAgrees, Holds
    <3>. QED
      BY <3>1, <3>2
  <2>16. ~(Offered(world, owner) /\ a.key < owner.version)
    BY <2>7 DEF Offered
  <2>. QED
    BY <1>1, <1>2, <2>2, <2>5, <2>6, <2>10, <2>13, <2>14, <2>15, <2>16, ExchangeInv DEF a, i
<1>5. CASE HoldsLease(w) /\ outbox[i].until > now /\ outbox[i].attempt = "claimed" /\ ~Relevant(outbox, i)
  <2>. DEFINE c == Closed(a, "cancelled")
  <2>1. outbox' = [outbox EXCEPT ![i] = Closed(@, "cancelled")] /\ worker' = [worker EXCEPT ![w] = Idle]
    BY <1>5 DEF MarkClaimStarted
  <2>2. outbox' = [outbox EXCEPT ![i] = c]
    BY <1>2, <1>3, <2>1
  <2>3. a.state = "processing" /\ a.attempt = "claimed" /\ ~a.stale
    BY <1>2, <1>5 DEF HoldsLease, RowOK
  <2>4. ClosesTo(a, "cancelled")
    <3>. HIDE DEF a
    <3>. QED
      BY <2>3 DEF ClosesTo, RowStates, Terminal, Unseen, BeforeIO
  <2>5. Gentle(a, c)
    BY <1>2, <2>4, ClosedGentle
  <2>. HIDE DEF c
  <2>6. Moved(outbox, outbox')
    BY <1>2, <2>2, <2>5, Pieces, OneRowMoves
  <2>. QED
    BY <1>1, <2>1, <2>6, StopInv
<1>6. CASE ~(HoldsLease(w) /\ outbox[i].until > now /\ outbox[i].attempt = "claimed")
  <2>1. worker' = [worker EXCEPT ![w] = Idle] /\ outbox' = outbox
    BY <1>6 DEF MarkClaimStarted
  <2>2. Moved(outbox, outbox')
    BY <2>1, Pieces, MovedSelf
  <2>. QED
    BY <1>1, <2>1, <2>2, StopInv
<1>. QED
  BY <1>4, <1>5, <1>6

LEMMA DeliverClaimInv ==
    ASSUME IInv, NEW w \in world.workers, DeliverClaim(w)
    PROVE  IInv'
<1>. DEFINE i == worker[w].row
            a == outbox[i]
<1>1. worker[w].at = "started" /\ UNCHANGED <<world, now, hours, owner, outbox>>
  BY DEF DeliverClaim
<1>2. PICK outcome \in Outcomes(a.contact) :
        /\ received' = [received EXCEPT ![i] = Copies(i, outcome[1])]
        /\ worker' = [worker EXCEPT ![w].at = "answered", ![w].result = outcome[2]]
  BY DEF DeliverClaim
<1>3. /\ i \in 1..Len(outbox) /\ i \in 1..MaxRows /\ RowOK(a) /\ a \in Row /\ worker[w] \in WorkerRows
      /\ received[i] \in 0..2 /\ CopiesOK(a, received[i]) /\ OneSender(a, i, worker)
      /\ \A v \in world.workers : WorkerAgrees(a, i, received[i], v, worker[v])
  BY <1>1, BusyFacts
<1>4. DOMAIN outbox = 1..Len(outbox) /\ worker \in [world.workers -> WorkerRows] /\ outbox \in Seq(Row)
  BY Pieces, LenProperties DEF BoxOK
<1>. DEFINE accepted == outcome[1]
            result == outcome[2]
            c == Copies(i, accepted)
            j == [worker[w] EXCEPT !.at = "answered", !.result = result]
<1>5. /\ accepted \in BOOLEAN /\ result \in {"sent", "failed", "retry", "uncertain"}
      /\ a.contact \notin Idempotent /\ result \in {"failed", "retry"} => ~accepted
  <2>1. \/ outcome = <<TRUE, "sent">> \/ outcome = <<FALSE, "failed">> \/ outcome = <<FALSE, "retry">>
        \/ outcome = <<TRUE, "retry">> /\ a.contact \in Idempotent
        \/ outcome = <<TRUE, "uncertain">> \/ outcome = <<FALSE, "uncertain">>
    BY <1>2 DEF Outcomes
  <2>. HIDE DEF a
  <2>2. \/ accepted = TRUE /\ result \in {"sent", "uncertain"}
        \/ accepted = FALSE /\ result \in {"failed", "retry", "uncertain"}
        \/ accepted = TRUE /\ result = "retry" /\ a.contact \in Idempotent
    <3>1. \A x, y : outcome = <<x, y>> => accepted = x /\ result = y
      OBVIOUS
    <3>. HIDE DEF accepted, result
    <3>. QED
      BY <2>1, <3>1, Zenon
  <2>. HIDE DEF accepted, result
  <2>. QED
    BY <2>2
<1>6. /\ c = IF ~accepted THEN received[i] ELSE IF a.contact \in Idempotent THEN 1
             ELSE IF received[i] + 1 <= 2 THEN received[i] + 1 ELSE 2
  BY DEF Copies, Min2
<1>7. outbox' = [outbox EXCEPT ![i] = a] /\ received' = [received EXCEPT ![i] = c]
  BY <1>1, <1>2, <1>3, <1>4
<1>8. worker' = [worker EXCEPT ![w] = j]
  BY <1>2, <1>4
<1>. HIDE DEF result, accepted, c
<1>9. j \in WorkerRows /\ j.at = "answered" /\ j.row = i /\ j.result = result
  BY <1>3, <1>5 DEF WorkerRows
<1>10. \A v \in world.workers : worker'[v] = IF v = w THEN j ELSE worker[v]
  BY <1>4, <1>8
<1>11. DOMAIN worker' = world.workers /\ DOMAIN worker = world.workers
  BY <1>4, <1>8
<1>. DEFINE d == received[i]
<1>. HIDE DEF a, i, j, d
<1>12. Sending(worker[w], i)
  BY <1>1 DEF Sending, i
<1>13. Tracked(a) => d = 0 /\ ~Unseen(a) /\ (AfterIO(a) => a.holder = w)
  BY <1>3, <1>12 DEF WorkerAgrees, d
<1>14. c \in 0..2 /\ (a.contact \in Idempotent => c <= 1) /\ (d = 0 => c <= 1)
  <2>1. d \in 0..2 /\ (a.contact \in Idempotent => d <= 1)
    BY <1>3 DEF CopiesOK, d
  <2>. QED
    BY <1>5, <1>6, <2>1 DEF d
<1>15. Tracked(a) /\ result \in {"failed", "retry"} => c = 0
  BY <1>5, <1>6, <1>13 DEF Tracked, d
<1>16. CopiesOK(a, c)
  BY <1>13, <1>14 DEF CopiesOK
<1>17. OneSender(a, i, worker')
  BY <1>3, <1>9, <1>10, <1>11 DEF OneSender, Sending
<1>18. \A v \in world.workers : WorkerAgrees(a, i, c, v, worker'[v])
  <2>. TAKE v \in world.workers
  <2>1. CASE v = w
    <3>1. Holds(a, w) => AfterIO(a)
      BY <1>3, <1>12 DEF WorkerAgrees, Sending
    <3>. QED
      BY <1>9, <1>10, <1>15, <2>1, <3>1 DEF WorkerAgrees, Sending
  <2>2. CASE v # w
    <3>1. Tracked(a) => ~Sending(worker[v], i)
      BY <1>3, <1>11, <1>12, <2>2 DEF OneSender
    <3>2. worker[v].row = i /\ worker[v].at \in {"started", "answered"} /\ Holds(a, v) => AfterIO(a)
      BY <1>3 DEF WorkerAgrees
    <3>3. worker[v].row = i /\ worker[v].at = "answered" /\ Holds(a, v) => ~Tracked(a)
      BY <1>13, <2>2, <3>2 DEF Holds
    <3>. QED
      BY <1>10, <2>2, <3>1, <3>2, <3>3 DEF WorkerAgrees
  <2>. QED
    BY <2>1, <2>2
<1>19. SendingOne(worker, i)
  BY <1>11, <1>12 DEF SendingOne
<1>20. Same(a, a)
  BY DEF Same
<1>21. j.result # "none"
  BY <1>5, <1>9
<1>. QED
  BY <1>1, <1>3, <1>7, <1>8, <1>9, <1>14, <1>16, <1>17, <1>18, <1>19, <1>20, <1>21, ExchangeInv DEF a, i

\* A result gives the lease up, and only a failure or a retry says that nothing came.
LEMMA FinalizedRows ==
    ASSUME NEW i, NEW a, a = outbox[i], RowOK(a), a.state = "processing", now \in Int,
           NEW result \in {"sent", "failed", "retry", "uncertain"}, NEW row \in Finalized(i, result)
    PROVE  /\ RowOK(row) /\ Same(a, row) /\ row.state # "processing"
           /\ Unseen(row) => result \in {"failed", "retry"}
<1>0. a \in Row /\ ~a.stale
  BY DEF RowOK
<1>1. \A st \in {"sent", "uncertain", "cancelled", "expired", "retry", "failed"} :
        /\ Closed(a, st) \in Row /\ Closed(a, st).state = st /\ Closed(a, st).holder = Nobody
        /\ Closed(a, st).attempt = "none" /\ ~Closed(a, st).stale
        /\ Closed(a, st).event = a.event /\ Closed(a, st).key = a.key
        /\ Closed(a, st).contact = a.contact /\ Closed(a, st).until = a.until
        /\ Closed(a, st).ruled = a.ruled
  <2>1. \A st \in {"sent", "uncertain", "cancelled", "expired", "retry", "failed"} : st \in RowStates
    BY DEF RowStates, Terminal, PENDING_STATES
  <2>. TAKE st \in {"sent", "uncertain", "cancelled", "expired", "retry", "failed"}
  <2>2. st \in RowStates
    BY <2>1
  <2>3. Closed(a, st) \in Row
    BY <1>0, <2>2, ClosedFields
  <2>. QED
    BY <1>0, <2>2, <2>3, ClosedFields
<1>. DEFINE superseded == world.kind = "waitlist" /\ ~Relevant(outbox, i)
            fits(st) == st \in {"cancelled", "expired", "failed", "retry"} => result \in {"failed", "retry"}
            told == [Closed(a, "uncertain") EXCEPT !.stale = TRUE]
            again == [Closed(a, "retry") EXCEPT !.due = now]
<1>2. \/ \E st \in {"sent", "uncertain", "cancelled", "expired", "failed"} : row = Closed(a, st) /\ fits(st)
      \/ row = told
      \/ row = again /\ result = "retry"
  <2>1. CASE result = "sent"
    <3>1. Finalized(i, result) = IF superseded THEN {told} ELSE {Closed(a, "sent")}
      BY <2>1 DEF Finalized
    <3>. HIDE DEF told, superseded
    <3>. QED
      BY <2>1, <3>1
  <2>2. CASE result = "uncertain"
    <3>1. Finalized(i, result) = {Closed(a, "uncertain")}
      BY <2>2 DEF Finalized
    <3>. QED
      BY <2>2, <3>1
  <2>3. CASE result = "retry" /\ Relevant(outbox, i) /\ a.left > 0
    <3>1. Finalized(i, result) = {Closed(a, "expired")} \cup (IF a.until > now THEN {again} ELSE {})
      BY <2>3 DEF Finalized
    <3>. HIDE DEF again
    <3>. QED
      BY <2>3, <3>1
  <2>4. CASE result = "retry" /\ ~Relevant(outbox, i)
    <3>1. Finalized(i, result) = {Closed(a, "cancelled")}
      BY <2>4 DEF Finalized
    <3>. QED
      BY <2>4, <3>1
  <2>5. CASE result = "failed" \/ (result = "retry" /\ Relevant(outbox, i) /\ ~(a.left > 0))
    <3>1. Finalized(i, result) = {Closed(a, IF superseded THEN "cancelled" ELSE "failed")}
      BY <2>5 DEF Finalized
    <3>2. row = Closed(a, "cancelled") \/ row = Closed(a, "failed")
      BY <3>1
    <3>. QED
      BY <2>5, <3>2
  <2>. QED
    BY <2>1, <2>2, <2>3, <2>4, <2>5
<1>. DEFINE settles(st) ==
              /\ row \in Row /\ row.state = st /\ row.holder = Nobody /\ row.attempt = "none"
              /\ row.stale => st = "uncertain"
              /\ row.event = a.event /\ row.key = a.key /\ row.contact = a.contact /\ row.until = a.until
              /\ row.ruled = a.ruled /\ fits(st)
<1>3. PICK st \in {"sent", "uncertain", "cancelled", "expired", "retry", "failed"} : settles(st)
  <2>1. CASE row = told
    <3>. DEFINE u == Closed(a, "uncertain")
    <3>1. /\ u \in Row /\ u.state = "uncertain" /\ u.holder = Nobody /\ u.attempt = "none"
          /\ u.event = a.event /\ u.key = a.key /\ u.contact = a.contact /\ u.until = a.until
          /\ u.ruled = a.ruled /\ row = [u EXCEPT !.stale = TRUE]
      BY <1>1, <2>1
    <3>. HIDE DEF u
    <3>2. settles("uncertain")
      BY <3>1 DEF Row
    <3>. QED
      BY <3>2
  <2>2. CASE row = again /\ result = "retry"
    <3>. DEFINE u == Closed(a, "retry")
    <3>1. /\ u \in Row /\ u.state = "retry" /\ u.holder = Nobody /\ u.attempt = "none" /\ ~u.stale
          /\ u.event = a.event /\ u.key = a.key /\ u.contact = a.contact /\ u.until = a.until
          /\ u.ruled = a.ruled /\ row = [u EXCEPT !.due = now]
      BY <1>1, <2>2
    <3>. HIDE DEF u
    <3>2. settles("retry")
      BY <2>2, <3>1 DEF Row
    <3>. QED
      BY <3>2
  <2>3. ASSUME NEW st \in {"sent", "uncertain", "cancelled", "expired", "failed"}, row = Closed(a, st), fits(st)
        PROVE  settles(st)
    BY <1>1, <2>3
  <2>. HIDE DEF told, again, settles, fits
  <2>. QED
    BY <1>2, <2>1, <2>2, <2>3
<1>. QED
  BY <1>0, <1>3 DEF RowOK, Same, Unseen, BeforeIO, PENDING_STATES

LEMMA FinalizeClaimInv ==
    ASSUME IInv, NEW w \in world.workers, FinalizeClaim(w)
    PROVE  IInv'
<1>. DEFINE i == worker[w].row
            a == outbox[i]
            d == received[i]
<1>1. /\ worker[w].at = "answered" /\ worker' = [worker EXCEPT ![w] = Idle]
      /\ UNCHANGED <<world, now, hours, owner, received>>
  BY DEF FinalizeClaim
<1>2. CASE ~HoldsLease(w)
  <2>1. Moved(outbox, outbox')
    BY <1>2, Pieces, MovedSelf DEF FinalizeClaim
  <2>. QED
    BY <1>1, <2>1, StopInv
<1>3. CASE HoldsLease(w)
  <2>1. PICK row \in Finalized(i, worker[w].result) : outbox' = [outbox EXCEPT ![i] = row]
    BY <1>3 DEF FinalizeClaim
  <2>2. /\ i \in 1..Len(outbox) /\ i \in 1..MaxRows /\ RowOK(a) /\ worker[w] \in WorkerRows
        /\ d \in 0..2 /\ CopiesOK(a, d) /\ OneSender(a, i, worker)
        /\ \A v \in world.workers : WorkerAgrees(a, i, d, v, worker[v])
    BY <1>1, BusyFacts
  <2>3. /\ worker \in [world.workers -> WorkerRows] /\ received \in [1..MaxRows -> 0..2] /\ now \in Int
        /\ worker[w].result \in {"sent", "failed", "retry", "uncertain"}
    BY <1>1, <2>2, Pieces DEF WorkerOK, WorkerRows
  <2>4. a.state = "processing" /\ a.holder = w
    BY <1>3 DEF HoldsLease
  <2>5. /\ RowOK(row) /\ Same(a, row) /\ row.state # "processing"
        /\ Unseen(row) => worker[w].result \in {"failed", "retry"}
    BY <2>1, <2>2, <2>3, <2>4, FinalizedRows
  <2>6. received' = [received EXCEPT ![i] = d]
    BY <1>1, <2>3
  <2>7. /\ \A v \in world.workers : worker'[v] = IF v = w THEN Idle ELSE worker[v]
        /\ DOMAIN worker' = world.workers /\ DOMAIN worker = world.workers
    BY <1>1, <2>3
  <2>8. worker[w].row = i
    OBVIOUS
  <2>. HIDE DEF a, d, i
  <2>9. Holds(a, w) /\ AfterIO(a)
    BY <1>1, <2>2, <2>4, <2>8 DEF Holds, WorkerAgrees
  <2>10. Tracked(a) => d <= 1 /\ (worker[w].result \in {"failed", "retry"} => d = 0)
    BY <1>1, <2>2, <2>8, <2>9 DEF CopiesOK, WorkerAgrees
  <2>11. row.contact = a.contact /\ (Tracked(row) => Tracked(a))
    BY <2>5 DEF Same, Tracked
  <2>12. CopiesOK(row, d)
    BY <2>2, <2>5, <2>10, <2>11 DEF CopiesOK
  <2>13. \A v \in world.workers : Sending(worker'[v], i) => v # w /\ Sending(worker[v], i)
    BY <2>7, IdleFacts DEF Sending
  <2>14. OneSender(row, i, worker')
    BY <2>2, <2>7, <2>11, <2>13 DEF OneSender
  <2>15. \A v \in world.workers : WorkerAgrees(row, i, d, v, worker'[v])
    <3>. TAKE v \in world.workers
    <3>1. ~Holds(row, v)
      BY <2>5 DEF Holds
    <3>2. Tracked(row) => ~Sending(worker'[v], i)
      BY <2>2, <2>4, <2>9, <2>11, <2>13 DEF WorkerAgrees
    <3>. QED
      BY <3>1, <3>2 DEF WorkerAgrees
  <2>16. SendingOne(worker', i) => SendingOne(worker, i)
    BY <2>7, <2>13 DEF SendingOne
  <2>17. d > 0 => received[i] > 0
    BY DEF d
  <2>. QED
    BY <1>1, <2>1, <2>2, <2>5, <2>6, <2>8, <2>12, <2>14, <2>15, <2>16, <2>17, IdleFacts, ExchangeInv DEF a, i
<1>. QED
  BY <1>2, <1>3

-----------------------------------------------------------------------------
(* The invariant.                                                           *)

LEMMA ReservationsInv == IInv /\ Reservations => IInv'
BY CreateInv, EditInv, ConfirmInv, CancelInv, EndInv, ReleaseByPaymentInv, SendConfirmationInv
   DEF Reservations

LEMMA DeliverInv ==
    ASSUME IInv, NEW w \in world.workers, Deliver(w)
    PROVE  IInv'
BY ClaimNextInv, MarkClaimStartedInv, DeliverClaimInv, FinalizeClaimInv DEF Deliver

LEMMA InitInv == Init => IInv
<1>. SUFFICES ASSUME Init PROVE IInv
  OBVIOUS
<1>1. /\ now = 0 /\ world \in Worlds /\ hours \in world.leads /\ outbox = <<>>
      /\ worker = [w \in world.workers |-> Idle] /\ received = [i \in 1..MaxRows |-> 0]
  BY DEF Init
<1>2. PICK channels \in world.preferences :
        owner = [status |-> IF world.kind = "waitlist" THEN "waiting" ELSE "none",
                 channels |-> channels, at |-> 0, version |-> 0]
  BY DEF Init
<1>3. /\ MaxNow \in Nat /\ MaxRows \in Nat /\ hours \in 0..MaxHours /\ channels \in SUBSET Contacts
  BY <1>1, WorldFacts
<1>4. outbox \in Seq(Row) /\ Len(outbox) = 0 /\ 1..Len(outbox) = {}
  BY <1>1, EmptySeq
<1>5. owner \in OwnerRows /\ owner.status \in {"waiting", "none"}
  <2>. DEFINE st == IF world.kind = "waitlist" THEN "waiting" ELSE "none"
  <2>1. st \in {"waiting", "none"}
    OBVIOUS
  <2>2. owner = [status |-> st, channels |-> channels, at |-> 0, version |-> 0]
    BY <1>2
  <2>. HIDE DEF st
  <2>. QED
    BY <1>3, <2>1, <2>2 DEF OwnerRows, Statuses
<1>6. worker \in [world.workers -> WorkerRows] /\ \A w \in world.workers : worker[w].at = "idle"
  BY <1>1, IdleFacts
<1>7. Typed
  BY <1>1, <1>3, <1>4, <1>5, <1>6 DEF Typed, BoxOK, WorkerOK
<1>8. DeliveryOK(outbox, worker, received)
  BY <1>4 DEF DeliveryOK
<1>9. OfferIsFenced
  BY <1>5 DEF OfferIsFenced
<1>10. RemindersOK(outbox, owner.channels)
  BY <1>4 DEF RemindersOK, KeysOK, GenerationsOK, TwinsOK, Of
<1>11. OwnerOK(owner, outbox)
  BY <1>1, <1>4 DEF OwnerOK
<1>. QED
  BY <1>7, <1>8, <1>9, <1>10, <1>11 DEF IInv

LEMMA NextInv == IInv /\ [Next]_vars => IInv'
<1>. SUFFICES ASSUME IInv, [Next]_vars PROVE IInv'
  OBVIOUS
<1>1. CASE Reservations
  BY <1>1, ReservationsInv
<1>2. CASE Waitlist
  BY <1>2, WaitlistInv
<1>3. CASE Operators
  BY <1>3, EraseInv, ReconfigureInv, OperatorInv DEF Operators
<1>4. CASE ReconcileReminders
  BY <1>4, ReconcileRemindersInv
<1>5. CASE Tick
  BY <1>5, TickInv
<1>6. ASSUME NEW w \in world.workers, Deliver(w) \/ Crash(w)
      PROVE  IInv'
  BY <1>6, DeliverInv, CrashInv
<1>7. ASSUME NEW rows \in SUBSET Leased, LeasesLapse(rows)
      PROVE  IInv'
  BY <1>7, LapseInv
<1>8. CASE UNCHANGED vars
  <2>1. Moved(outbox, outbox') /\ UNCHANGED <<world, now, hours, owner, worker, received>>
    BY <1>8, Pieces, MovedSelf DEF vars
  <2>. QED
    BY <2>1, OutboxInv
<1>. QED
  BY <1>1, <1>2, <1>3, <1>4, <1>5, <1>6, <1>7, <1>8 DEF Next

\* The inductive invariant holds in every state that the handlers, the operators, the
\* planner and the workers of the outbox can reach, whoever is interrupted where.
THEOREM InductiveInvariant == Spec => []IInv
<1>. QED
  BY InitInv, NextInv, PTL DEF Spec

-----------------------------------------------------------------------------
(* What the runs check, for every value of the constants.                   *)

\* Every row keeps to the CHECK constraints of its table: it has a lease and an attempt
\* exactly while it is processed, and it waits for the acknowledgement of a superseded
\* offer only while it is uncertain (RezerwacjaWiadomoscOutbox, RezerwacjaWiadomoscProba).
THEOREM OutboxTypes == Spec => []TypeOK
<1>1. IInv => TypeOK
  <2>. SUFFICES ASSUME IInv PROVE TypeOK
    OBVIOUS
  <2>1. now \in 0..MaxNow /\ hours \in 0..MaxHours
    BY Pieces
  <2>2. \A i \in Rows : RowOK(outbox[i])
    BY Pieces, BoxLen DEF Rows
  <2>3. \A w \in world.workers : worker[w].at # "idle" => worker[w].row \in Rows
    BY Pieces DEF WorkerOK, Rows
  <2>. QED
    BY <2>1, <2>2, <2>3 DEF TypeOK, RowOK
<1>. QED
  BY <1>1, InductiveInvariant, PTL

\* However many workers die after they have sent or are overtaken by another, a guest
\* gets a second copy of a message only after an operator has ruled on the uncertain
\* row (_recover_expired_leases, mark_claim_started, finalize_claim).
THEOREM NoCopyUnruled == Spec => []NoSilentDuplicate
<1>1. IInv => NoSilentDuplicate
  <2>. SUFFICES ASSUME IInv, NEW i \in Rows, received[i] > 1, ~outbox[i].ruled PROVE FALSE
    BY DEF NoSilentDuplicate
  <2>1. i \in 1..Len(outbox) /\ CopiesOK(outbox[i], received[i]) /\ received[i] \in 0..2
    BY Pieces, BoundAssumption DEF Rows, DeliveryOK
  <2>2. received[i] <= 1
    BY <2>1 DEF CopiesOK, Tracked
  <2>. QED
    BY <2>1, <2>2
<1>. QED
  BY <1>1, InductiveInvariant, PTL

\* A table is never offered anew while a message of an earlier offer may be on its way
\* or may have arrived unknown to anybody (zaoferuj_lista_oczekujacych, finalize_claim).
THEOREM OffersAreFenced == Spec => []OfferIsFenced
<1>1. IInv => OfferIsFenced
  BY DEF IInv
<1>. QED
  BY <1>1, InductiveInvariant, PTL

\* Whoever schedules them and however often the lead is changed, of two reminders of the
\* same visit, with no change of it in between, at most one comes to a guest with one
\* channel (schedule_reminder, reconfigure_reminders, reconcile_reminder_schedule).
THEOREM RemindersComeOnce == Spec => []RemindedOnce
<1>1. IInv => RemindedOnce
  <2>. SUFFICES ASSUME IInv, NEW i \in Rows, NEW j \in Rows, SameVisit(i, j),
                       outbox[i].contact \notin Idempotent, ~outbox[i].ruled
                PROVE  received[i] = 0
    BY DEF RemindedOnce
  <2>1. i \in 1..Len(outbox) /\ j \in 1..Len(outbox)
    BY DEF Rows
  <2>2. Twins(outbox, i, j) /\ Tracked(outbox[i])
    BY DEF SameVisit, Twins, Tracked, Rows
  <2>3. outbox[i].state = "cancelled"
    BY <2>1, <2>2, Pieces DEF RemindersOK, TwinsOK
  <2>4. CopiesOK(outbox[i], received[i])
    BY <2>1, Pieces DEF DeliveryOK
  <2>. QED
    BY <2>2, <2>3, <2>4 DEF CopiesOK, Unseen
<1>. QED
  BY <1>1, InductiveInvariant, PTL

\* A worker that comes back to a row that was withdrawn, has expired or was erased while
\* it slept does not begin to send it (mark_claim_started).
THEOREM WithdrawnStaysUnsent == Spec => WithdrawnIsNotBegun
<1>. DEFINE Begins(w) == worker[w].at = "claimed" /\ worker'[w].at = "started"
<1>1. ASSUME IInv, [Next]_vars, NEW w \in world.workers, Begins(w)
      PROVE  outbox[worker[w].row].state \notin Terminal
  <2>. USE <1>1
  <2>1. worker \in [world.workers -> WorkerRows]
    BY Pieces
  <2>2. worker' # worker
    OBVIOUS
  <2>3. PICK v \in world.workers : Deliver(v) \/ Crash(v)
    <3>1. ~(Reservations \/ Waitlist \/ Operators)
      BY <2>2 DEF Reservations, Create, Edit, Confirm, Cancel, End, ReleaseByPayment, SendConfirmation,
                  Waitlist, Offer, Withdraw, CancelEntry, Accept, ExpireOffer, Notify,
                  Operators, Erase, Reconfigure, RetryFailed, ReconcileUncertain, OperatorSets,
                  ReservationHandler, WaitlistHandler
    <3>2. ~ReconcileReminders /\ ~Tick /\ ~UNCHANGED vars
      BY <2>2 DEF ReconcileReminders, Tick, vars
    <3>3. \A rows : ~LeasesLapse(rows)
      BY <2>2 DEF LeasesLapse
    <3>. QED
      BY <3>1, <3>2, <3>3 DEF Next
  <2>4. Idle.at = "idle"
    BY IdleFacts
  <2>5. ~ClaimNext(v)
    BY <2>1, <2>4 DEF ClaimNext, Idle
  <2>6. ~DeliverClaim(v) /\ ~FinalizeClaim(v) /\ ~Crash(v)
    BY <2>1, <2>4 DEF DeliverClaim, FinalizeClaim, Crash
  <2>7. MarkClaimStarted(v)
    BY <2>3, <2>5, <2>6 DEF Deliver
  <2>8. v = w /\ HoldsLease(w)
    BY <2>1, <2>4, <2>7 DEF MarkClaimStarted
  <2>. QED
    BY <2>8 DEF HoldsLease, Terminal
<1>2. IInv /\ [Next]_vars
      => [\A w \in world.workers : Begins(w) => outbox[worker[w].row].state \notin Terminal]_vars
  BY <1>1
<1>. QED
  BY <1>2, InductiveInvariant, PTL DEF Spec, WithdrawnIsNotBegun

\* The personal data of an owner are not removed while a worker that still holds its
\* lease is talking to a provider about them (prepare_outboxes_for_pii_erasure).
THEOREM ErasureWaits == Spec => ErasureWaitsForDelivery
<1>. DEFINE Removed == owner'.status = "missing" /\ owner.status # "missing"
            Waited == \A w \in world.workers : worker[w].at \in {"started", "answered"} => ~HoldsLease(w)
<1>1. ASSUME IInv, [Next]_vars, Removed
      PROVE  Waited
  <2>. USE <1>1
  <2>1. owner' # owner /\ owner \in OwnerRows
    BY Pieces
  <2>2. Erase
    <3>1. ~Reservations
      BY <2>1 DEF Reservations, Create, Edit, Confirm, Cancel, End, ReleaseByPayment, SendConfirmation,
                  ReservationHandler, OwnerRows
    <3>2. ~Waitlist
      BY <2>1 DEF Waitlist, Offer, Withdraw, CancelEntry, Accept, ExpireOffer, Notify,
                  WaitlistHandler, NextVersion, OwnerRows
    <3>3. ~Reconfigure /\ \A i \in Rows : ~RetryFailed(i) /\ ~ReconcileUncertain(i)
      BY <2>1 DEF Reconfigure, RetryFailed, ReconcileUncertain, OperatorSets
    <3>4. ~ReconcileReminders /\ ~Tick /\ ~UNCHANGED vars /\ \A rows : ~LeasesLapse(rows)
      BY <2>1 DEF ReconcileReminders, Tick, vars, LeasesLapse
    <3>5. \A w \in world.workers : ~Deliver(w) /\ ~Crash(w)
      BY <2>1 DEF Deliver, ClaimNext, MarkClaimStarted, DeliverClaim, FinalizeClaim, Crash
    <3>. QED
      BY <3>1, <3>2, <3>3, <3>4, <3>5 DEF Next, Operators
  <2>. SUFFICES ASSUME NEW w \in world.workers, worker[w].at \in {"started", "answered"}, HoldsLease(w)
                PROVE  FALSE
    OBVIOUS
  <2>3. /\ worker[w].row \in 1..Len(outbox)
        /\ WorkerAgrees(outbox[worker[w].row], worker[w].row, received[worker[w].row], w, worker[w])
    BY BusyFacts
  <2>4. AfterIO(outbox[worker[w].row])
    BY <2>3 DEF WorkerAgrees, HoldsLease, Holds
  <2>. QED
    BY <2>2, <2>3, <2>4 DEF Erase, ErasureAllowed
<1>2. IInv /\ [Next]_vars => [Removed => Waited]_vars
  BY <1>1
<1>. QED
  BY <1>2, InductiveInvariant, PTL DEF Spec, ErasureWaitsForDelivery

=============================================================================
