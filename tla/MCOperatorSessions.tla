-------------------------- MODULE MCOperatorSessions --------------------------
(***************************************************************************)
(* Small instances of OperatorSessions.                                    *)
(***************************************************************************)
EXTENDS OperatorSessions

Some(n, set) == CHOOSE part \in SUBSET set : Cardinality(part) = n
World(ops, last, wrong, requests, accounts, atMost) ==
    [ops |-> ops, last |-> last, wrong |-> wrong, requests |-> Some(requests, Requests),
     users |-> Some(accounts, Users), sessions |-> atMost]
Confirm == {"unlock", "override", "reauth"}

\* An operator takes over the station of another while an override is under way.
SwitchA == {World(Confirm, 0, FALSE, 2, 2, 2)}
SwitchB == {World(Confirm \cup {"lock", "touch", "forget"}, 1, FALSE, 1, 2, 2)}
\* The PIN is taken away and set again, which starts its version anew.
PinsA == {World(Confirm \cup {"setPin", "revokePin"}, 0, FALSE, 1, 1, 2)}
PinsC == {World(Confirm \cup {"setPin"}, 0, FALSE, 2, 1, 2)}
PinsB == {World(Confirm \cup {"revokeStation", "register", "setPin"}, 0, FALSE, 1, 1, 2)}
\* Rights change, accounts go.
AccountsA == {World(Confirm \cup {"rights", "employee"}, 0, FALSE, 1, 1, 2)}
AccountsB == {World(Confirm \cup {"reset", "delete", "lock", "touch"}, 0, FALSE, 1, 1, 2)}
\* Wrong PINs and time.
TimeA == {World(Confirm, 3, FALSE, 2, 1, 1)}
TimeB == {World({"unlock", "reauth"}, 1, TRUE, 1, 1, 2)}
SmallWorlds == SwitchA \cup SwitchB \cup PinsA \cup PinsB \cup PinsC \cup AccountsA \cup AccountsB \cup TimeA \cup TimeB
=============================================================================
