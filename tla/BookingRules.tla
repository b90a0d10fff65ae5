---------------------------- MODULE BookingRules ----------------------------
(***************************************************************************)
(* Which bookings the house accepts: the services of a day, the policy in  *)
(* force for a request, and the verdict on it (reservation_rules.py).      *)
(*                                                                         *)
(* Pure operators.  What the code reads from the database comes as a       *)
(* record b, "the book of one day":                                        *)
(*   ahead, clock  days from today to the day, and the minute it is now    *)
(*   skipped       minutes that summer time removes or repeats             *)
(*   hours, exceptions, config, rooms, rules   the configuration           *)
(*   guests        visits and offers, [owner, from, to, room, channel,     *)
(*                 people, live]                                           *)
(* A settings record holds the columns that are not NULL, and no others.   *)
(***************************************************************************)
EXTENDS Integers, FiniteSets, FiniteSetsExt, TLC

CONSTANTS
    Midnight,       \* minutes of a day; the models count in coarser minutes
    DefaultTurn     \* DEFAULT_SLOT_MIN

ASSUME ClockAssumption == Midnight \in Nat \ {0} /\ DefaultTurn \in 1..Midnight

NoRoom == 0
NoOwner == 0
NoTime == -1
Anywhere == "oba"       \* a rule for both channels

Positive(settings, key) ==
    IF key \in DOMAIN settings /\ settings[key] > 0 THEN settings[key] ELSE 0
Or(first, second) == IF first > 0 THEN first ELSE second

-----------------------------------------------------------------------------
(* Services of a day.                                                      *)

NoService == [id |-> 0, name |-> "", from |-> NoTime, to |-> NoTime, own |-> <<>>]
LastSeating(s) == IF "last" \in DOMAIN s.own THEN s.own.last ELSE s.to
Within(s, t) == s.from <= t /\ t <= LastSeating(s)

\* The base service whose settings an exception completes, or none.
Parents(e, base) ==
    LET named == {s \in base : e.name # "" /\ s.name = e.name}
        around == {s \in base : Within(s, e.from)}
    IN  IF e.id # 0 THEN {s \in base : s.id = e.id}
        ELSE IF Cardinality(named) = 1 THEN named
        ELSE IF Cardinality(around) = 1 THEN around
        ELSE IF Cardinality(base) = 1 THEN base ELSE {}

Inherit(e, parents) ==
    IF parents = {} THEN [NoService EXCEPT !.id = e.id, !.name = e.name, !.from = e.from, !.to = e.to, !.own = e.own]
    ELSE LET p == CHOOSE s \in parents : TRUE
         IN  [id |-> IF e.id # 0 THEN e.id ELSE p.id, name |-> IF e.name # "" THEN e.name ELSE p.name,
              from |-> e.from, to |-> e.to, own |-> e.own @@ p.own]

Blackout(b) == \E e \in b.exceptions : e.kind = "blackout"
Services(b) ==
    LET special == {e \in b.exceptions : e.kind = "special"}
    IN  CASE Blackout(b) -> {}
          [] ~Blackout(b) /\ special # {} -> {Inherit(e, Parents(e, b.hours)) : e \in special}
          [] OTHER -> b.hours

Earlier(s, r) == s.from < r.from \/ (s.from = r.from /\ s.id <= r.id)
FirstOf(services) == CHOOSE s \in services : \A r \in services : Earlier(s, r)
ServiceAt(services, t) ==
    LET fitting == {s \in services : Within(s, t)}
    IN  IF fitting = {} THEN NoService ELSE FirstOf(fitting)

SlotStep(s) == Or(Positive(s.own, "step"), Or(Positive(s.own, "slot"), DefaultTurn))

\* Of the thresholds, each with the largest party it is for, the smallest that holds the party.
Turn(s, people) ==
    LET tiers == IF "tiers" \in DOMAIN s.own THEN {t \in s.own.tiers : t[1] > 0 /\ t[2] > 0} ELSE {}
        enough == {t \in tiers : people <= t[1]}
        Upto(S) == {t[1] : t \in S}
        base == Or(Positive(s.own, "turn"), Or(Positive(s.own, "slot"), DefaultTurn))
        key == IF enough # {} THEN Min(Upto(enough)) ELSE Max(Upto(tiers))
    IN  IF tiers = {} THEN base ELSE Min({t[2] : t \in {u \in tiers : u[1] = key}})

-----------------------------------------------------------------------------
(* The policy for a request q: [from, to, people, channel, room, self,     *)
(* intent, keepRoom, keepInterval].  The most specific layer that sets a   *)
(* key decides, and its scope says what is counted.                        *)

ConfigKeys == {"advance", "cutoff", "partyMin", "partyMax", "buffer"}
ServiceKeys == {"pacingWindow", "pacingVisits", "pacingCovers", "visits", "covers", "buffer", "largeFrom", "largeMode"}
RoomKeys == {"visits", "covers", "buffer"}
Only(settings, keys) == [key \in DOMAIN settings \cap keys |-> settings[key]]

Layer(weight, id, room, channel, settings) ==
    [weight |-> weight, id |-> id, room |-> room, channel |-> channel, settings |-> settings]

Applies(r, q, service) ==
    /\ r.service # 0 => service # NoService /\ r.service = service.id
    /\ r.room # NoRoom => r.room = q.room
    /\ r.channel # Anywhere => r.channel = q.channel
Bit(condition) == IF condition THEN 1 ELSE 0
Weight(r) ==
    LET s == Bit(r.service # 0) m == Bit(r.room # NoRoom) c == Bit(r.channel # Anywhere)
    IN  8 * (s + m + c) + 4 * s + 2 * m + c

Policy(b, q, service) ==
    (IF q.channel = "online" THEN {Layer(-3, 0, NoRoom, "online", Only(b.config, ConfigKeys))} ELSE {})
    \cup (IF service # NoService THEN {Layer(-2, service.id, NoRoom, Anywhere, Only(service.own, ServiceKeys))} ELSE {})
    \cup (IF q.room # NoRoom THEN {Layer(-1, q.room, q.room, Anywhere, Only(b.rooms[q.room].own, RoomKeys))} ELSE {})
    \cup {Layer(Weight(r), r.id, r.room, r.channel, r.own) : r \in {x \in b.rules : Applies(x, q, service)}}

Above(k, l) == k.weight > l.weight \/ (k.weight = l.weight /\ k.id >= l.id)
Setting(policy, key) ==
    LET set == {l \in policy : key \in DOMAIN l.settings}
    IN  IF set = {} THEN Layer(-4, 0, NoRoom, Anywhere, <<>>)
        ELSE CHOOSE l \in set : \A k \in set : Above(l, k)
ValueOf(policy, key) == Positive(Setting(policy, key).settings, key)

-----------------------------------------------------------------------------
(* The time of the visit, and who is there.                                *)

EndOf(q, service) ==
    IF q.keepInterval /\ q.to # NoTime THEN q.to
    ELSE Max({q.from + Turn(service, q.people), IF q.to # NoTime THEN q.to ELSE 0})
EndToday(q, service) == Min({Midnight, EndOf(q, service)})

InScope(g, layer, q) ==
    /\ layer.channel # Anywhere => g.channel = q.channel
    /\ layer.room # NoRoom => g.room = q.room

\* A guest who sits counts for as long as the request asks for, whatever was planned.
PresentAt(g, m) == g.live \/ (g.from <= m /\ m < g.to)
Others(b, q, layer) == {g \in b.guests : InScope(g, layer, q) /\ (q.self = NoOwner \/ g.owner # q.self)}
People(S) == MapThenSumSet(LAMBDA g : g.people, S)

Peak(b, q, service, layer, Count(_)) ==
    Max({0} \cup {Count({g \in Others(b, q, layer) : PresentAt(g, m)}) : m \in q.from..(EndToday(q, service) - 1)})

Window(policy, service) == Or(ValueOf(policy, "pacingWindow"), SlotStep(service))
Bucket(policy, q, service) ==
    LET anchor == IF service = NoService THEN 0 ELSE service.from
        start == anchor + Max({0, (q.from - anchor) \div Window(policy, service)}) * Window(policy, service)
    IN  start..(Min({Midnight, start + Window(policy, service)}) - 1)
Arriving(b, q, service, policy, layer) ==
    {g \in Others(b, q, layer) : g.from \in Bucket(policy, q, service)}

-----------------------------------------------------------------------------
(* Rules.  Each gives the violations it finds, [rule, hard, by]; a hard    *)
(* one no operator may set aside.  "by" tells one violation of a rule from *)
(* another: its code, and the scope and source of the setting it breaks.   *)

System == <<"system", 0, 0>>
By(layer) == <<"layer", layer.weight, layer.id>>
Hard(rule, by, broken) == IF broken THEN {[rule |-> rule, hard |-> TRUE, by |-> by]} ELSE {}
Soft(rule, by, broken) == IF broken THEN {[rule |-> rule, hard |-> FALSE, by |-> by]} ELSE {}

TimeRules(b, q, service) ==
    Hard("date_not_past", System, q.channel = "online" /\ b.ahead < 0)
    \cup Hard("local_time", System, q.from \in b.skipped)
    \cup Hard("interval", System, EndOf(q, service) >= Midnight)

\* A room that was switched off keeps the visits it has.
RoomRule(b, q) ==
    Soft("channel", <<"room", 0, q.room>>,
         /\ q.room # NoRoom
         /\ ~ (/\ q.channel \in b.rooms[q.room].channels
               /\ b.rooms[q.room].active \/ (q.intent = "edit" /\ q.self # NoOwner /\ q.keepRoom)))

ServiceRule(b, q, service) ==
    IF service = NoService
    THEN Soft("service",
              IF Services(b) = {} \/ (q.channel # "online" /\ Blackout(b)) THEN <<"closed", 0, 0>> ELSE <<"outside", 0, 0>>,
              q.channel = "online" \/ Blackout(b) \/ Services(b) # {})
    ELSE Soft("slot_step", <<IF service \in b.hours THEN "service" ELSE "exception", 0, service.id>>,
              q.channel = "online" /\ (q.from - service.from) % SlotStep(service) # 0)

WindowRules(b, q, policy) ==
    LET advance == ValueOf(policy, "advance")
    IN  Soft("advance_window", By(Setting(policy, "advance")), advance > 0 /\ b.ahead > advance)
        \cup Soft("cutoff", By(Setting(policy, "cutoff")),
                 /\ b.ahead >= 0 /\ q.from \notin b.skipped
                 /\ b.ahead * Midnight + q.from - b.clock < ValueOf(policy, "cutoff"))

PartyRules(q, policy) ==
    LET most == ValueOf(policy, "partyMax")
        large == ValueOf(policy, "largeFrom")
        isLarge == large > 0 /\ q.people >= large
        mode == Setting(policy, "largeMode").settings
        Mode(m) == "largeMode" \in DOMAIN mode /\ mode.largeMode = m
    IN  Soft("party_min", By(Setting(policy, "partyMin")), q.people < Or(ValueOf(policy, "partyMin"), 1))
        \cup Soft("party_max", By(Setting(policy, "partyMax")), most > 0 /\ q.people > most)
        \cup Soft("large_party", By(Setting(policy, "largeFrom")), isLarge /\ Mode("approval"))
        \cup Hard("large_party", By(Setting(policy, "largeFrom")), isLarge /\ Mode("phone") /\ q.channel = "online")

PacingRules(b, q, service, policy) ==
    LET visits == Setting(policy, "pacingVisits")
        covers == Setting(policy, "pacingCovers")
        Over(layer, key, n) == Positive(layer.settings, key) > 0 /\ n > Positive(layer.settings, key)
    IN  Soft("pacing_reservations", By(visits),
             Over(visits, "pacingVisits", 1 + Cardinality(Arriving(b, q, service, policy, visits))))
        \cup Soft("pacing_covers", By(covers),
             Over(covers, "pacingCovers", q.people + People(Arriving(b, q, service, policy, covers))))

ConcurrentRules(b, q, service, policy) ==
    LET visits == Setting(policy, "visits")
        covers == Setting(policy, "covers")
        any == EndToday(q, service) > q.from
        Over(layer, key, n) == any /\ Positive(layer.settings, key) > 0 /\ n > Positive(layer.settings, key)
    IN  Soft("concurrent_reservations", By(visits), Over(visits, "visits", 1 + Peak(b, q, service, visits, Cardinality)))
        \cup Soft("concurrent_covers", By(covers), Over(covers, "covers", q.people + Peak(b, q, service, covers, People)))

\* Seating a visit that is accepted already asks only whether the hall can take it.
AssignRules == {"local_time", "interval", "channel", "concurrent_reservations", "concurrent_covers"}

Broken(b, q, service, policy) ==
    {v \in TimeRules(b, q, service) \cup RoomRule(b, q) \cup ServiceRule(b, q, service)
            \cup WindowRules(b, q, policy) \cup PartyRules(q, policy)
            \cup PacingRules(b, q, service, policy) \cup ConcurrentRules(b, q, service, policy)
        : q.intent = "assign" => v.rule \in AssignRules}
Limit(layer, key) ==
    [key |-> key, most |-> Positive(layer.settings, key), room |-> layer.room, channel |-> layer.channel]
Answer(q, service, policy, broken) ==
    [decision |-> IF broken = {} THEN "allow" ELSE IF \E v \in broken : v.hard THEN "deny" ELSE "override",
     rules |-> {v.rule : v \in broken},
     grounds |-> {<<v.rule, v.by>> : v \in broken},
     to |-> EndToday(q, service),
     service |-> service.id,
     buffer |-> ValueOf(policy, "buffer"),
     limits |-> {Limit(Setting(policy, key), key) : key \in {"visits", "covers"}}]

\* evaluate_reservation_rules
Under(b, q, service, policy) == Answer(q, service, policy, Broken(b, q, service, policy))
During(b, q, service) == Under(b, q, service, Policy(b, q, service))
Evaluate(b, q) == During(b, q, ServiceAt(Services(b), q.from))

\* enforce_rule_evaluation: whether the request goes on.
Accepted(evaluation, override, mayOverride) ==
    evaluation.decision = "allow" \/ (override /\ mayOverride /\ evaluation.decision = "override")
=============================================================================
