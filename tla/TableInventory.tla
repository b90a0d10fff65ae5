--------------------------- MODULE TableInventory ---------------------------
(***************************************************************************)
(* What the tables of the restaurant promise, without rows, statuses or a  *)
(* ledger: parties hold sets of places, a promise only until a deadline.   *)
(*                                                                         *)
(* At most one party gains places at a time, and only places that are free *)
(* or whose promise has run out; a visit may succeed a promise that still  *)
(* holds.  Everybody else keeps all it has or loses all of it.  Only when   *)
(* the places of all visits are measured anew, any of them may gain free    *)
(* places and let some, but never all, of its own go.                       *)
(***************************************************************************)
EXTENDS Integers

CONSTANTS Places, Promises, Visits  \* no promise is a visit

VARIABLES now, held     \* held[p]: the places of p, and until when

vars == <<now, held>>

Parties == Promises \cup Visits
Holding(p) == held[p].places # {}
Expired(p) == held[p].until <= now

Init ==
    /\ now = 0
    /\ \A p \in Parties : held[p].places = {}

Keeps(p)  == IF Holding(p) THEN held'[p] = held[p] ELSE held'[p].places = {}
Loses(p)  == held'[p].places = {}
\* What p holds next nobody else holds.
Alone(p)  == \A q \in Parties \ {p} : held'[p].places \cap held'[q].places = {}

Advance == now' = now + 1 /\ \A p \in Parties : Keeps(p)

\* Any number of parties go, or run out of time.
Release == now' = now /\ \A p \in Parties : Keeps(p) \/ Loses(p)

\* One party takes places, besides or in place of those it has.
Take(p) ==
    /\ now' = now
    /\ held'[p].places \subseteq Places /\ Alone(p)
    /\ p \in Promises => held'[p].until > now
    /\ \A q \in Parties \ {p} : Keeps(q) \/ (Expired(q) /\ Loses(q))

\* A promise that still holds becomes a visit.
Succeed(p, q) ==
    /\ now' = now
    /\ Holding(p) /\ ~Expired(p) /\ ~Holding(q)
    /\ Loses(p)
    /\ held'[q].places \subseteq Places /\ Alone(q)
    /\ \A r \in Parties \ {p, q} : Keeps(r) \/ (Expired(r) /\ Loses(r))

\* Visits keep some of their places, let others go and gain such as nobody holds or lets go.
Remeasure ==
    /\ now' = now
    /\ \A p \in Promises : Keeps(p) \/ (Expired(p) /\ Loses(p))
    /\ \A p \in Visits :
          /\ held'[p].places \subseteq Places /\ Alone(p)
          /\ IF Holding(p) THEN held'[p].places \cap held[p].places # {} ELSE Loses(p)
          /\ \A q \in Visits \ {p} : held'[p].places \cap held[q].places = {}

Next ==
    \/ Advance \/ Release \/ Remeasure
    \/ \E p \in Parties : Take(p)
    \/ \E p \in Promises, q \in Visits : Succeed(p, q)

Spec == Init /\ [][Next]_vars
=============================================================================
