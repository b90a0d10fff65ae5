----------------------- MODULE MCCommunicationOutbox -----------------------
(***************************************************************************)
(* Small instances of CommunicationOutbox: a guest with an e-mail address, *)
(* one with a telephone, behind a gateway that honours our keys.           *)
(***************************************************************************)
EXTENDS CommunicationOutbox, TLC

CONSTANTS mail, sms, w1, w2

Addresses == {mail, sms}
Gateway == {sms}
BothWorkers == {w1, w2}

World(kind, workers, preferences, times, rows, tries, calls, leads) ==
    [kind |-> kind, workers |-> workers, preferences |-> preferences, times |-> times,
     rows |-> rows, tries |-> tries, calls |-> calls, leads |-> leads]

\* A guest who is reminded while the configuration changes.
WA == {World("reservation", {w1}, {{mail}}, {2}, 3, 1,
             {"Create", "Confirm", "Reconfigure"}, {0, 1})}
\* A guest whose contact and visit change, a visit that is cancelled or erased.
WB == {World("reservation", {w1}, {{mail}, {sms}}, {1}, 2, 1, Calls \ {"Reconfigure"}, {0})}
\* An entry with an address and two workers, or with a telephone behind the gateway.
WC == {World("waitlist", {w1, w2}, {{mail}}, {1}, 1, 2, Calls \ {"Retry"}, {0}),
       World("waitlist", {w1}, {{sms}}, {1}, 2, 2, Calls, {0})}
SmallWorlds == WA \cup WB \cup WC
=============================================================================
