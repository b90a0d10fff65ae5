------------------------------ MODULE MCCustomers ------------------------------
(***************************************************************************)
(* Small instances of Customers: two telephones and an e-mail that both    *)
(* share, so that there is something to join.                              *)
(***************************************************************************)
EXTENDS Customers

Ann == [phone |-> "p1", email |-> "e"]
Bob == [phone |-> "p2", email |-> "e"]
Eve == [phone |-> "", email |-> "e"]
Dan == [phone |-> "p1", email |-> "e2"]
Cid == [phone |-> "p3", email |-> "e"]
Five == {Ann, Bob, Cid, Dan, Eve}

World(ops, rows, contacts, sent, parallel) ==
    [ops |-> ops, parallel |-> parallel, visits |-> rows, halls |-> {}, contacts |-> contacts, keys |-> sent,
     profiles |-> {}]
Halls(w, rows) == [w EXCEPT !.halls = rows]

\* Identities are joined and parted while contacts change.
JoinA == {World({"merge", "edit"}, <<Ann, Bob>>, {Ann, Bob}, 2, 2)}
JoinB == {World({"merge"}, <<Ann, Bob, Eve>>, {}, 2, 2)}
JoinC == {World({"merge", "edit", "delete", "erase"}, <<Ann, Bob>>, {Ann}, 1, 1)}
JoinD == {World({"merge", "edit", "retention", "wait"}, <<Ann, Bob>>, {Ann}, 1, 1)}
\* A visit of the hall is corrected by two at once.
JoinH == {Halls(World({"merge", "edit", "delete"}, <<Ann, Bob>>, {Bob, Cid}, 1, 2), {1})}
Joining == JoinA \cup JoinB \cup JoinC \cup JoinD \cup JoinH
\* Consents are given and withdrawn while visits change hands and guests are joined.
ConsA == {World({"consent", "edit", "book", "delete"}, <<Ann, Ann>>, {Ann, Bob}, 1, 1)}
ConsB == {World({"consent", "merge", "erase"}, <<Ann, Bob>>, {Ann}, 3, 1)}
ConsC == {World({"consent", "retention", "book"}, <<Ann>>, {Ann}, 1, 1)}
\* A guest with two addresses, one of which is erased.
ConsD == {World({"consent", "book", "erase"}, <<Ann>>, {Ann, Dan}, 1, 1)}
\* A visit is corrected while a consent is being recorded for it.
ConsE == {World({"consent", "edit"}, <<Ann, Ann>>, {Bob}, 2, 2)}
Consenting == ConsA \cup ConsB \cup ConsC \cup ConsD \cup ConsE
\* Profiles.
ProfA == {World({"profile", "edit", "erase"}, <<Ann>>, {Bob}, 0, 2)}
ProfC == {World({"profile", "edit"}, <<Ann, Ann>>, {Bob}, 0, 1)}
ProfB == {World({"profile", "merge"}, <<Ann, Bob>>, {}, 1, 1)}
Profiling == ProfA \cup ProfB \cup ProfC
SmallWorlds == Joining \cup Consenting \cup Profiling
=============================================================================
