------------------------------- MODULE Customers -------------------------------
(***************************************************************************)
(* Who is who among the guests: visits are grouped by the identity their   *)
(* contact gives, operators join identities and undo it, consents are kept *)
(* under the identity that gave them, profiles hold what the staff knows,  *)
(* and erasure and retention take all of it away again.                    *)
(*                                                                         *)
(* Writers of the graph of identities hold the row of LokalConfig from     *)
(* lock_governance_graph to their commit; a write that takes that lock     *)
(* first and then reads is one step.  An edit and a record of a consent    *)
(* read before it, and an upsert of a profile does not take it at all.     *)
(* An edit of a table's visit holds the row from its read to its commit;   *)
(* one of a hall's visit (rodzaj = "sala", rows that are there from        *)
(* before) holds nothing until it waits for the graph.                     *)
(***************************************************************************)
EXTENDS Integers, Sequences, FiniteSets, SequencesExt

CONSTANTS
    Slots,          \* requests that may be open at once
    Visits,         \* 1..n, in the order of their dates
    Waits,          \* 1..n, entries of the waiting list
    Contacts,       \* what a form may hold: [phone, email], each "" when left out
    MaxFacts, MaxMerges,            \* bounds of the rows
    Worlds          \* what to look at: the requests made and how many with a key, the contacts in forms,
                    \* how many requests at once, the rows at the start and which of them are of the hall

ASSUME CustomersAssumption ==
    /\ \A c \in Contacts : {c.phone, c.email} \subseteq STRING
    /\ Visits \subseteq Nat \ {0} /\ {MaxFacts, MaxMerges} \subseteq Nat
    /\ \A w \in Worlds : w.contacts \subseteq Contacts /\ w.visits \in Seq(Contacts)
    \* Erasure reads a hall's visit before it waits, too; that race is not looked at.
    /\ \A w \in Worlds : w.halls \subseteq DOMAIN w.visits /\ (w.halls # {} => {"erase", "retention"} \cap w.ops = {})

VARIABLES
    world,
    visits,     \* Termin
    waits,      \* ListaOczekujacych
    profiles,   \* ProfilGoscia: of each identity the identities whose data its texts hold
    merges,     \* CrmGuestMerge, in the order of the rows
    facts,      \* RezerwacjaZgodaPubliczna and CrmConsentEvent, in the order of captured_at
    keys,       \* Idempotency-Keys used so far
    open        \* the request of every slot

db == <<visits, waits, profiles, merges, facts>>
vars == <<world, visits, waits, profiles, merges, facts, keys, open>>

Nobody == [phone |-> "", email |-> ""]
NoOne == 0      \* a fact without a visit, or without an entry of the waiting list
Free == [op |-> "none"]
NoSubject == <<>>
\* unseen is history: the identities that an edit wrote over without having read them.
Row(contact, state) == [contact |-> contact, state |-> state, unseen |-> {}]
Present == {"open", "closed"}

-----------------------------------------------------------------------------
(* Identities and groups.                                                  *)

\* The telephone, else the e-mail, else the row alone.
Identity(kind, id, contact) ==
    CASE contact.phone # "" -> <<"contact", contact.phone>>
      [] contact.phone = "" /\ contact.email # "" -> <<"contact", contact.email>>
      [] OTHER -> <<kind, id>>
VisitId(v) == Identity("visit", v, visits[v].contact)
WaitId(w) == Identity("wait", w, waits[w].contact)

Rows == {v \in Visits : visits[v].state \in Present}
Queue == {w \in Waits : waits[w].state \in Present}
Carriers(h) == {v \in Rows : VisitId(v) = h}

Active(rows) == {k \in DOMAIN rows : rows[k].status = "active"}
\* alias_map and canonical_hash: along the merges; a circle leaves the identity alone.
Canonical(rows, h) ==
    LET From(x) == {k \in Active(rows) : rows[k].source = x}
        Hop(x) == IF From(x) = {} THEN x ELSE rows[CHOOSE k \in From(x) : TRUE].target
        reached[n \in 0..MaxMerges] == IF n = 0 THEN h ELSE Hop(reached[n - 1])
    IN  IF From(reached[MaxMerges]) = {} THEN reached[MaxMerges] ELSE h

GroupOf(v) == {u \in Rows : Canonical(merges, VisitId(u)) = Canonical(merges, VisitId(v))}
Groups == {GroupOf(v) : v \in Rows}
Members(group) == {VisitId(v) : v \in group}
Latest(group) == CHOOSE v \in group : \A u \in group : u <= v

\* exact_evidence
Shared(a, b) ==
    \E v \in a, u \in b : \/ visits[v].contact.phone # "" /\ visits[v].contact.phone = visits[u].contact.phone
                          \/ visits[v].contact.email # "" /\ visits[v].contact.email = visits[u].contact.email
\* duplicate_candidates: into the group with more visits, then with the later ones.
Candidates ==
    {pair \in Groups \X Groups :
        LET a == pair[1]  b == pair[2]
        IN  /\ a # b /\ Shared(a, b)
            /\ \/ Cardinality(b) > Cardinality(a)
               \/ Cardinality(b) = Cardinality(a) /\ Latest(b) > Latest(a)}

-----------------------------------------------------------------------------
(* Consents.                                                               *)

Fact(subject, decision, visit, wait, key) ==
    [subject |-> subject, decision |-> decision, visit |-> visit, wait |-> wait, key |-> key]
Public(f) == f.key = 0

\* Places in a list, in their order, and the rows that are left there.
Ordered(S) ==
    CHOOSE q \in [1..Cardinality(S) -> S] : \A i, j \in DOMAIN q : i < j => q[i] < q[j]
Kept(rows, places) == [i \in 1..Cardinality(places) |-> rows[Ordered(places)[i]]]

\* Of the widget's those given with the visits of the group, of the operators' those of its identities.
FactsOf(group) ==
    {i \in DOMAIN facts : IF Public(facts[i]) THEN facts[i].visit \in group
                                             ELSE facts[i].subject \in Members(group)}

\* The last that grants or withdraws decides; a refusal in a form only counts alone.
StateOf(known, h) ==
    LET said == {i \in known : facts[i].subject = h}
        clear == {i \in said : facts[i].decision # "decline"}
        last == CHOOSE i \in clear : \A j \in clear : j <= i
    IN  CASE clear # {} /\ facts[last].decision = "grant" -> "granted"
          [] clear # {} /\ facts[last].decision = "withdraw" -> "withdrawn"
          [] clear = {} /\ said # {} -> "declined"
          [] OTHER -> "missing"
\* consent_summary
MayMarket(group) == \A h \in Members(group) : StateOf(FactsOf(group), h) = "granted"

-----------------------------------------------------------------------------
(* Requests.                                                               *)

May(op) == op \in world.ops
Begin(s, tx) ==
    open[s] = Free /\ Cardinality({t \in Slots : open[t] # Free}) < world.parallel /\ open' = [open EXCEPT ![s] = tx]
Running(s, op) == open[s].op = op
Close(s) == open' = [open EXCEPT ![s] = Free]
\* The answer arrives, or the operator sends the same request again.
Answer(s) == Close(s) \/ UNCHANGED open
NewKey == keys < world.keys /\ keys' = keys + 1

\* The row of LokalConfig is held by an edit that waits to commit; its visit, by an edit at work,
\* but no visit of the hall.
GraphFree == \A s \in Slots : ~(Running(s, "edit") /\ open[s].locked)
Untouched(vs) == \A s \in Slots : Running(s, "edit") /\ open[s].held => open[s].visit \notin vs

-----------------------------------------------------------------------------
(* Guests book, join the waiting list and leave.                           *)

Book == May("book") /\
    \E v \in Visits, c \in world.contacts, decision \in {"grant", "decline"} :
        /\ visits[v].state = "none" /\ (\A u \in Visits : u < v => visits[u].state # "none") /\ Len(facts) < MaxFacts
        /\ visits' = [visits EXCEPT ![v] = Row(c, "open")]
        /\ facts' = Append(facts, Fact(Identity("visit", v, c), decision, v, NoOne, 0))
        /\ UNCHANGED <<world, waits, profiles, merges, keys, open>>
Wait == May("wait") /\
    \E w \in Waits, c \in world.contacts :
        /\ waits[w].state = "none" /\ Len(facts) < MaxFacts
        /\ waits' = [waits EXCEPT ![w] = Row(c, "open")]
        /\ facts' = Append(facts, Fact(Identity("wait", w, c), "grant", NoOne, w, 0))
        /\ UNCHANGED <<world, visits, profiles, merges, keys, open>>
CloseVisit == May("retention") /\
    \E v \in Visits :
        /\ visits[v].state = "open" /\ Untouched({v})
        /\ visits' = [visits EXCEPT ![v].state = "closed"]
        /\ UNCHANGED <<world, waits, profiles, merges, facts, keys, open>>

\* A visit that holds another person's proof may not be deleted; its profiles and merges stay.
Delete == May("delete") /\
    \E v \in Rows :
        /\ Untouched({v}) /\ \A i \in DOMAIN facts : Public(facts[i]) /\ facts[i].visit = v => facts[i].subject = VisitId(v)
        /\ visits' = [visits EXCEPT ![v].state = "deleted"]
        /\ facts' = Kept(facts, {i \in DOMAIN facts : ~(Public(facts[i]) /\ facts[i].visit = v)})
        /\ profiles' = [h \in DOMAIN profiles \ {<<"visit", v>>} |-> profiles[h]]
        /\ UNCHANGED <<world, waits, merges, keys, open>>

-----------------------------------------------------------------------------
(* An operator changes a contact.                                          *)

\* Without the graph's lock: is the profile to follow the visit to its new identity?
Moves(v, was, is) ==
    /\ was # is /\ was \in DOMAIN profiles /\ is \notin DOMAIN profiles
    /\ Carriers(was) \subseteq {v}
\* The events' form of a hall's visit changes the telephone only.
Corrections(v) ==
    {c \in world.contacts \cup {Nobody} : v \in world.halls => c.email = visits[v].contact.email}
EditContact(s) == May("edit") /\
    \E v \in Rows : \E c \in Corrections(v) :
        LET was == VisitId(v)  is == Identity("visit", v, c)
        IN  /\ Untouched({v}) /\ c # visits[v].contact
            /\ Begin(s, [op |-> "edit", visit |-> v, contact |-> c, was |-> was, is |-> is,
                         held |-> v \notin world.halls, locked |-> FALSE, alone |-> Carriers(was) \subseteq {v}, moves |-> Moves(v, was, is)])
            /\ UNCHANGED <<world, db, keys>>

\* Merges of an identity that lost its last visit, by what is there once the lock is held; the
\* identity is the one that was read.
LockGraph(s) ==
    /\ Running(s, "edit") /\ ~open[s].locked /\ open[s].was # open[s].is /\ GraphFree
    /\ open' = [open EXCEPT ![s].locked = TRUE]
    /\ UNCHANGED <<world, db, keys>>
Reverted(rows, named) ==
    [k \in DOMAIN rows |-> IF rows[k].status = "active" /\ named \cap {rows[k].source, rows[k].target} # {}
                           THEN [rows[k] EXCEPT !.status = "reverted", !.version = @ + 1] ELSE rows[k]]
\* Mutant: by what the request saw before it waited for the lock.
EmptiedAsSeen(s) == IF open[s].alone /\ open[s].was # open[s].is THEN {open[s].was} ELSE {}
Emptied(s) ==
    LET tx == open[s]
    IN  IF tx.was # tx.is /\ Carriers(tx.was) \subseteq {tx.visit} THEN {tx.was} ELSE {}
Renamed(was, is) ==
    [h \in (DOMAIN profiles \ {was}) \cup {is} |-> IF h = is THEN profiles[was] ELSE profiles[h]]
CommitEdit(s) ==
    /\ Running(s, "edit") /\ (open[s].locked \/ open[s].was = open[s].is)
    /\ LET tx == open[s]
           lost == \/ tx.visit \notin Rows
                   \/ tx.moves /\ (tx.was \notin DOMAIN profiles \/ tx.is \in DOMAIN profiles)
       IN  \/ lost /\ UNCHANGED db           \* a row is gone or the key is taken: rolled back
           \/ /\ ~lost
              /\ visits' = [visits EXCEPT ![tx.visit].contact = tx.contact,
                                         ![tx.visit].unseen = @ \cup ({VisitId(tx.visit)} \ {tx.was})]
              /\ merges' = Reverted(merges, Emptied(s))
              /\ profiles' = IF tx.moves THEN Renamed(tx.was, tx.is) ELSE profiles
              /\ UNCHANGED <<waits, facts>>
    /\ Close(s) /\ UNCHANGED <<world, keys>>

-----------------------------------------------------------------------------
(* An operator joins two guests, or undoes it.                             *)

\* A page of candidates, and a request that may be sent long after it was read.
OpenQuality(s) == May("merge") /\
    \E pair \in Candidates :
        /\ Begin(s, [op |-> "merge", source |-> Latest(pair[1]), target |-> Latest(pair[2]), key |-> keys + 1])
        /\ NewKey /\ UNCHANGED <<world, db>>

MergeRow(source, target, tx) ==
    [source |-> source, target |-> target, refs |-> <<tx.source, tx.target>>, status |-> "active",
     version |-> 1, key |-> tx.key, undo |-> 0]
\* merge_preview: still two guests, still with a contact in common.
Mergeable(tx) ==
    /\ {tx.source, tx.target} \subseteq Rows
    /\ GroupOf(tx.source) # GroupOf(tx.target) /\ Shared(GroupOf(tx.source), GroupOf(tx.target))
\* No chains: the source is in no other merge, the target is not the source of one.
NotChained(source, target) ==
    \A k \in Active(merges) : source \notin {merges[k].source, merges[k].target} /\ merges[k].source # target
Repeats(rows, key) == \E k \in DOMAIN rows : rows[k].key = key
CreateMerge(s) ==
    /\ Running(s, "merge") /\ GraphFree
    /\ LET tx == open[s]
           source == Canonical(merges, VisitId(tx.source))  target == Canonical(merges, VisitId(tx.target))
           allowed == Mergeable(tx) /\ NotChained(source, target)
       IN  /\ allowed => Len(merges) < MaxMerges
           /\ merges' = IF ~Repeats(merges, tx.key) /\ allowed THEN Append(merges, MergeRow(source, target, tx)) ELSE merges
    /\ Answer(s) /\ UNCHANGED <<world, visits, waits, profiles, facts, keys>>

OpenMerges(s) == May("merge") /\
    \E k \in Active(merges) :
        /\ Begin(s, [op |-> "undo", row |-> k, version |-> merges[k].version, key |-> keys + 1])
        /\ NewKey /\ UNCHANGED <<world, db>>
\* An erasure may have taken the row; of two who undo it the second finds another version.
UndoMerge(s) ==
    /\ Running(s, "undo") /\ GraphFree
    /\ LET tx == open[s]
       IN  merges' = IF merges[tx.row].status = "active" /\ merges[tx.row].version = tx.version
                     THEN [merges EXCEPT ![tx.row].status = "reverted", ![tx.row].version = @ + 1, ![tx.row].undo = tx.key]
                     ELSE merges
    /\ Answer(s) /\ UNCHANGED <<world, visits, waits, profiles, facts, keys>>

-----------------------------------------------------------------------------
(* An operator records a consent, or writes a profile.                     *)

Consent(v, decision, key) ==
    [op |-> "consent", visit |-> v, decision |-> decision, key |-> key, subject |-> NoSubject]
OpenConsents(s) == May("consent") /\
    \E v \in Rows, decision \in {"grant", "withdraw"} :
        /\ Begin(s, Consent(v, decision, keys + 1))
        /\ NewKey /\ UNCHANGED <<world, db>>
\* The rights are checked on the visit, which the session keeps as it was read.
ReadConsent(s) ==
    /\ Running(s, "consent")
    /\ LET v == open[s].visit
       IN  IF v \in Rows THEN open' = [open EXCEPT ![s].op = "record", ![s].subject = VisitId(v)] ELSE Close(s)
    /\ UNCHANGED <<world, db, keys>>
\* Under the identity that was read; it may have been captured before what is already there.
RecordConsent(s) ==
    /\ Running(s, "record") /\ GraphFree
    /\ LET tx == open[s]
           new == tx.visit \in Rows /\ ~Repeats(facts, tx.key)
       IN  /\ new => Len(facts) < MaxFacts
           /\ \E i \in 1..(Len(facts) + 1) :
                facts' = IF new THEN InsertAt(facts, i, Fact(tx.subject, tx.decision, tx.visit, NoOne, tx.key))
                         ELSE facts
           /\ \/ Close(s)
              \/ open' = [open EXCEPT ![s] = Consent(tx.visit, tx.decision, tx.key)]       \* sent again
    /\ UNCHANGED <<world, visits, waits, profiles, merges, keys>>

\* composite_profile: the texts of all its identities together.
Composite(group) == UNION {profiles[h] : h \in Members(group) \cap DOMAIN profiles}
OpenProfile(s) == May("profile") /\
    \E v \in Rows :
        /\ Begin(s, [op |-> "form", visit |-> v, text |-> Composite(GroupOf(v)) \cup {VisitId(v)}])
        /\ UNCHANGED <<world, db, keys>>
\* The whole form goes to the identity that stands for the group.
SaveProfile(s) ==
    /\ Running(s, "form")
    /\ open' = [open EXCEPT ![s] = IF open[s].visit \notin Rows THEN Free
                                   ELSE [op |-> "upsert", text |-> open[s].text,
                                         to |-> Canonical(merges, VisitId(open[s].visit))]]
    /\ UNCHANGED <<world, db, keys>>
CommitProfile(s) ==
    /\ Running(s, "upsert")
    /\ profiles' = [h \in DOMAIN profiles \cup {open[s].to} |-> IF h = open[s].to THEN open[s].text ELSE profiles[h]]
    /\ Close(s) /\ UNCHANGED <<world, visits, waits, merges, facts, keys>>

-----------------------------------------------------------------------------
(* Erasure and retention.                                                  *)

\* Mutant: only what operators recorded goes with the identity.
WithoutRecords(places, subjects) == {i \in places : Public(facts[i]) \/ facts[i].subject \notin subjects}
\* _usun_frozen_governance_podmiotu; a merge that is gone keeps its place in the order.
WithoutFacts(places, subjects) == {i \in places : facts[i].subject \notin subjects}
WithoutMerges(rows, subjects) ==
    [k \in DOMAIN rows |-> IF {rows[k].source, rows[k].target} \cap subjects # {}
                           THEN [rows[k] EXCEPT !.status = "gone"] ELSE rows[k]]

\* usun_powiazane_pii_rezerwacji and _anonimizuj_waitliste: what no other row of the guest needs.
Erased(vs, ws, named) ==
    LET own == {VisitId(v) : v \in vs} \cup {WaitId(w) : w \in ws}
        kept == {VisitId(v) : v \in Rows \ vs} \cup {WaitId(w) : w \in Queue \ ws}
        gone == (own \ kept) \cup named
        Mine(f) == Public(f) /\ \/ f.visit \in vs /\ f.subject = VisitId(f.visit)
                                \/ f.wait \in ws /\ f.subject = WaitId(f.wait)
    IN  /\ facts' = Kept(facts, WithoutFacts({i \in DOMAIN facts : ~Mine(facts[i])}, gone))
        /\ merges' = WithoutMerges(merges, gone)
        /\ profiles' = [h \in DOMAIN profiles \ ({VisitId(v) : v \in vs} \ {VisitId(v) : v \in Rows \ vs}) |-> profiles[h]]
        /\ visits' = [v \in Visits |-> IF v \in vs THEN [visits[v] EXCEPT !.contact = Nobody] ELSE visits[v]]
        /\ waits' = [w \in Waits |-> IF w \in ws THEN [waits[w] EXCEPT !.contact = Nobody] ELSE waits[w]]

Named(row, value) == value \in {row.contact.phone, row.contact.email}
\* On a guest's demand by a telephone or an e-mail, with what is kept under the identities found.
EraseGuest == May("erase") /\ GraphFree /\
    \E value \in UNION {{c.phone, c.email} : c \in world.contacts} \ {""} :
        LET vs == {v \in Rows : Named(visits[v], value)}  ws == {w \in Queue : Named(waits[w], value)}
            subjects == {<<"contact", value>>} \cup {VisitId(v) : v \in vs} \cup {WaitId(w) : w \in ws}
        IN  /\ Untouched(vs)
            /\ \/ vs \cup ws # {}
               \/ \E i \in DOMAIN facts : facts[i].subject \in subjects
            /\ Erased(vs, ws, subjects)
            /\ UNCHANGED <<world, keys, open>>
\* A guest with a management link erases one visit.
EraseVisit == May("erase") /\ GraphFree /\
    \E v \in Rows :
        /\ Untouched({v}) /\ visits[v].contact # Nobody
        /\ Erased({v}, {}, {})
        /\ UNCHANGED <<world, keys, open>>
\* The old and closed ones, save those a message is on its way to.
Retain == May("retention") /\ GraphFree /\
    \E age \in Visits, vs \in SUBSET Visits, ws \in SUBSET Waits :
        /\ vs \cup ws # {} /\ Untouched(vs)
        /\ \A v \in vs : v <= age /\ visits[v].state = "closed" /\ visits[v].contact # Nobody
        /\ \A w \in ws : waits[w].state = "open" /\ waits[w].contact # Nobody
        /\ Erased(vs, ws, {})
        /\ UNCHANGED <<world, keys, open>>
\* _wyczysc_wygasle_publiczne_rekordy: proofs of the widget reach the end of their time.
Lapse == May("retention") /\
    \E i \in DOMAIN facts :
        /\ Public(facts[i]) /\ facts' = Kept(facts, DOMAIN facts \ {i})
        /\ UNCHANGED <<world, visits, waits, profiles, merges, keys, open>>

-----------------------------------------------------------------------------

Init ==
    /\ world \in Worlds
    /\ visits = [v \in Visits |-> IF v <= Len(world.visits) THEN Row(world.visits[v], "open") ELSE Row(Nobody, "none")]
    /\ waits = [w \in Waits |-> Row(Nobody, "none")]
    /\ profiles = [h \in world.profiles |-> {h}]
    /\ merges = <<>> /\ facts = <<>> /\ keys = 0
    /\ open = [s \in Slots |-> Free]

Step(s) ==
    \/ EditContact(s) \/ LockGraph(s) \/ CommitEdit(s)
    \/ OpenQuality(s) \/ CreateMerge(s) \/ OpenMerges(s) \/ UndoMerge(s)
    \/ OpenConsents(s) \/ ReadConsent(s) \/ RecordConsent(s)
    \/ OpenProfile(s) \/ SaveProfile(s) \/ CommitProfile(s)

Next ==
    \/ Book \/ Wait \/ CloseVisit \/ Delete
    \/ EraseGuest \/ EraseVisit \/ Retain \/ Lapse
    \/ \E s \in Slots : Step(s)

Spec == Init /\ [][Next]_vars

-----------------------------------------------------------------------------
(* Properties.                                                             *)

\* consent_summary, the erasures and the retention (crm_governance.py:627-749, rodo.py:798-882): once
\* a guest withdrew, no group he is part of is marketed to until a consent is recorded after it: never
\* because proofs run out or are erased in part, contacts change, visits go, or guests are joined.
Withdrawn(h) ==
    \E i \in DOMAIN facts :
        /\ facts[i].subject = h /\ facts[i].decision = "withdraw"
        /\ \A j \in (i + 1)..Len(facts) : ~(facts[j].subject = h /\ facts[j].decision = "grant")
Marketed(h) == \E group \in Groups : h \in Members(group) /\ MayMarket(group)
WithdrawalsStand ==
    [][\A h \in {facts[i].subject : i \in DOMAIN facts} :
          Withdrawn(h) /\ (Len(facts') > Len(facts) => Withdrawn(h)') => ~Marketed(h)']_vars

\* create_merge and revert_orphaned_identity_merges_after_contact_change (crm_governance.py:382-446,
\* 547-624): merges stay one deep, and none outlives the last row of an identity it names but by a
\* deletion, or by an edit of a hall's visit that overlooked another (main.py:1727-1755 reads it without
\* a lock and reverts the merges of what it read); so that a contact given to somebody else does not
\* bring him another guest's history.
Lives(h) ==
    \/ \E v \in Visits : visits[v].state # "none" /\ VisitId(v) = h
    \/ \E w \in Queue : WaitId(w) = h
Overlooked(h) == \E v \in world.halls : h \in visits[v].unseen
MergesJoinTheLiving ==
    \A k \in Active(merges) :
        /\ \A j \in Active(merges) \ {k} : merges[j].source \notin {merges[k].source, merges[k].target}
        /\ \A h \in {merges[k].source, merges[k].target} : Lives(h) \/ Overlooked(h)
=============================================================================
