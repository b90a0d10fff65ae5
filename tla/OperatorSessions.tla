--------------------------- MODULE OperatorSessions ---------------------------
(***************************************************************************)
(* The shared stations of the reception: an operator unlocks a station     *)
(* with a PIN, works in the session the station then holds and confirms    *)
(* each override of a limit with the PIN again.  Another operator may take *)
(* the station over, and an administrator may change the PIN, the rights   *)
(* or the station while requests are under way.                            *)
(*                                                                         *)
(* A request is admitted twice, by the middleware and by the dependency of *)
(* its endpoint, each on what it reads; then its body runs on rows that    *)
(* the session of the ORM may still remember from before.                  *)
(***************************************************************************)
EXTENDS Integers, Sequences, FiniteSets, FiniteSetsExt

CONSTANTS
    Stations, Users,
    Requests,                               \* requests that may be under way at once
    GrantTicks, IdleTicks, SessionTicks,    \* REAUTH_GRANT, idle timeout, SESSION_ABSOLUTE
    Patience, BlockTicks,                   \* failures before a delay, and the delay
    MaxGrants, MaxPins, MaxFailures,        \* bounds
    Worlds                                  \* what to look at: operations, accounts, sessions at most

Reads == {"unlock", "override", "reauth", "lock", "touch", "forget"}
Changes == {"setPin", "revokePin", "rights", "employee", "reset", "delete", "revokeStation", "register"}

ASSUME SessionAssumption ==
    /\ {GrantTicks, IdleTicks, SessionTicks, Patience, BlockTicks} \subseteq Nat \ {0}
    /\ {MaxGrants, MaxPins, MaxFailures} \subseteq Nat
    /\ Worlds \subseteq [ops : SUBSET (Reads \cup Changes), wrong : BOOLEAN, last : Nat,
                         requests : SUBSET Requests,
                         users : SUBSET Users, sessions : Nat]

VARIABLES
    world,      \* one of Worlds, for the whole run
    now,
    stations,   \* reservation_workstations
    users,      \* what the account may do, "gone" once deleted
    creds,      \* reservation_operator_credentials, PINs as serial numbers, 0 without a row
    sessions,   \* reservation_operator_sessions, in the order of their creation
    pins,       \* PINs given out
    grants,     \* confirmations issued: the session and the PIN that was typed
    uses,       \* overrides committed
    req, adm    \* what each request and the administrator's request do

rows == <<stations, users, creds, sessions>>
log == <<pins, grants, uses>>
vars == <<world, now, rows, log, req, adm>>

-----------------------------------------------------------------------------
\* The exact preset of the reception is all that a PIN may open.
Host == {"operations", "contact", "host", "overrides"}
Manager == Host \cup {"rules"}
Suspended == {}
Gone == {"gone"}
Rights == {Host, Manager, Suspended}
Eligible(u) == users[u] = Host
Fingerprint(u) == users[u]
NoCred == [pin |-> 0, version |-> 0, failed |-> 0, until |-> 0]
HasPin(u) == creds[u].pin # 0

Idle == [op |-> "none", at |-> "idle", s |-> 0, g |-> 0, st |-> CHOOSE st \in Stations : TRUE,
         u |-> CHOOSE u \in Users : TRUE, pin |-> 0, station |-> {}, cred |-> {}, session |-> {}]
Resting == [op |-> "none", st |-> CHOOSE st \in Stations : TRUE, u |-> CHOOSE u \in Users : TRUE,
            found |-> {}, epochs |-> {}, cred |-> NoCred]
Does(op) == op \in world.ops
Step(r, at) == req' = [req EXCEPT ![r].at = at]
Done(r) == req' = [req EXCEPT ![r] = Idle]

Init ==
    /\ world \in Worlds
    /\ now = 0
    /\ stations = [st \in Stations |->
           [state |-> IF Does("register") THEN "none" ELSE "active", epoch |-> 0, failed |-> 0, until |-> 0]]
    /\ users = [u \in Users |-> Host]
    /\ creds = [u \in Users |-> IF Does("register") THEN NoCred
                ELSE [pin |-> 1, version |-> 1, failed |-> 0, until |-> 0]]
    /\ pins = IF Does("register") THEN 0 ELSE 1
    /\ sessions = <<>> /\ grants = <<>> /\ uses = <<>>
    /\ req = [r \in Requests |-> Idle]
    /\ adm = Resting

\* FOR UPDATE: an unlock holds the rows of its station and of its operator.
StationHeld(st) == \E r \in Requests : req[r].op = "unlock" /\ req[r].at = "held" /\ req[r].st = st
UserHeld(u) == \E r \in Requests : req[r].op = "unlock" /\ req[r].at = "held" /\ req[r].u = u

-----------------------------------------------------------------------------
(* Rows written back.  The ORM writes a column only when it differs from   *)
(* what the transaction read.                                              *)
LockSeconds(failed) == IF failed >= Patience THEN BlockTicks ELSE 0
Blocked(row) == now < row.until
Wiped(row, read) ==
    [row EXCEPT !.failed = IF read.failed = 0 THEN @ ELSE 0, !.until = IF read.until = 0 THEN @ ELSE 0]
Failed(row, read) ==
    [row EXCEPT !.failed = read.failed + 1,
                !.until = IF LockSeconds(read.failed + 1) > 0 THEN now + LockSeconds(read.failed + 1) ELSE @]

Locked(session) == [session EXCEPT !.state = "locked", !.grant = 0]
\* Mutant: the new epoch is left to end the sessions of the station.
LeftToEpoch(st) == {}
\* The sessions of the station that the next operator replaces.
Unlocked(st) == {s \in DOMAIN sessions : sessions[s].state = "open" /\ sessions[s].station = st}

\* _lock_session for a set of sessions; each station's epoch advances from what was read.
LockSessions(found) ==
    sessions' = [s \in DOMAIN sessions |-> IF s \in found THEN Locked(sessions[s]) ELSE sessions[s]]
Ended(found, epochs) ==
    {st \in Stations : \E s \in found : sessions[s].station = st /\ sessions[s].epoch = epochs[st]}
Epochs == [st \in Stations |-> stations[st].epoch]
Advanced(found, epochs) ==
    [st \in Stations |-> IF st \in Ended(found, epochs) THEN [stations[st] EXCEPT !.epoch = epochs[st] + 1]
                         ELSE stations[st]]
Remaining(found) == \A s \in found : sessions[s].state # "gone"

-----------------------------------------------------------------------------
(* Unlocking a station.                                                    *)

\* resolve_device: the station is read here and not again.
Unlock(r, st, u, pin) ==
    /\ Does("unlock") /\ req[r].at = "idle" /\ Len(sessions) < world.sessions
    /\ stations[st].state = "active"
    /\ pin \in (IF world.wrong THEN 0 .. pins ELSE {creds[u].pin} \ {0})
    /\ req' = [req EXCEPT ![r] = [Idle EXCEPT !.op = "unlock", !.at = "read", !.st = st, !.u = u, !.pin = pin,
                                              !.station = stations[st]]]
    /\ UNCHANGED <<world, now, rows, log, adm>>

\* Both rows are taken; the account and its PIN are read afresh.
HoldRows(r) ==
    /\ req[r].op = "unlock" /\ req[r].at = "read"
    /\ ~StationHeld(req[r].st) /\ ~UserHeld(req[r].u)
    /\ req' = [req EXCEPT ![r].at = "held",
                          ![r].cred = IF Eligible(req[r].u) THEN creds[req[r].u] ELSE NoCred]
    /\ UNCHANGED <<world, now, rows, log, adm>>

Refused(r) == Blocked(req[r].station) \/ Blocked(req[r].cred)
PinFits(r) == req[r].cred.pin # 0 /\ req[r].cred.pin = req[r].pin

RejectUnlock(r) ==
    /\ req[r].op = "unlock" /\ req[r].at = "held"
    /\ \/ /\ Refused(r)
          /\ UNCHANGED <<stations, creds>>
       \/ /\ ~Refused(r) /\ ~PinFits(r) /\ req[r].station.failed < MaxFailures
          /\ \/ /\ req[r].cred.pin = 0
                /\ UNCHANGED creds
             \/ /\ req[r].cred.pin # 0 /\ HasPin(req[r].u)
                /\ creds' = [creds EXCEPT ![req[r].u] = Failed(@, req[r].cred)]
          /\ stations' = [stations EXCEPT ![req[r].st] = Failed(@, req[r].station)]
       \/ /\ ~Refused(r) /\ req[r].cred.pin # 0 /\ ~HasPin(req[r].u)    \* StaleDataError
          /\ UNCHANGED <<stations, creds>>
    /\ Done(r)
    /\ UNCHANGED <<world, now, users, sessions, log, adm>>

CreateSession(r) ==
    LET q == req[r] IN
    /\ q.op = "unlock" /\ q.at = "held"
    /\ ~Refused(r) /\ PinFits(r) /\ HasPin(q.u) /\ Len(sessions) < world.sessions
    /\ stations' = [stations EXCEPT ![q.st] = [Wiped(@, q.station) EXCEPT !.epoch = q.station.epoch + 1]]
    /\ creds' = [creds EXCEPT ![q.u] = Wiped(@, q.cred)]
    /\ sessions' = Append([s \in DOMAIN sessions |->
                              IF s \in Unlocked(q.st) THEN Locked(sessions[s]) ELSE sessions[s]],
           [state |-> "open", station |-> q.st, user |-> q.u, epoch |-> q.station.epoch + 1,
            version |-> q.cred.version, rights |-> Host, pin |-> q.pin,
            ends |-> now + SessionTicks, seen |-> now, grant |-> 0, grantEnds |-> 0])
    /\ Done(r)
    /\ UNCHANGED <<world, now, users, log, adm>>

-----------------------------------------------------------------------------
(* Admission of a request under a session.                                 *)

InForce(s) ==
    LET e == sessions[s] IN
    /\ e.state = "open"
    /\ stations[e.station].state = "active"
    /\ stations[e.station].epoch = e.epoch
    /\ Eligible(e.user)
    /\ now < e.ends
    /\ now < e.seen + IdleTicks
    /\ HasPin(e.user) /\ creds[e.user].version = e.version
    /\ Fingerprint(e.user) = e.rights

\* requirement_for: a few routes of each kind; none for a session's own endpoints.
Requirement(op) ==
    CASE op = "override" -> [all |-> {"operations", "contact"}, any |-> {}]
      [] op = "assign"   -> [all |-> {}, any |-> {"operations", "host"}]
      [] OTHER           -> [all |-> {}, any |-> {}]
Satisfies(u, need) == need.all \subseteq users[u] /\ (need.any = {} \/ need.any \cap users[u] # {})

\* The session a cookie names: one that exists, of the station whose device asks.
Known(s) == s \in DOMAIN sessions /\ sessions[s].state # "gone"
Reading(q, s) == [q EXCEPT !.s = s, !.st = sessions[s].station, !.u = sessions[s].user,
                           !.station = Epochs, !.session = sessions[s], !.cred = creds[sessions[s].user]]

\* role_guard: an invalid session is locked, in a transaction of its own.
Gate(r, op, s, g) ==
    /\ Does(op) /\ req[r].at = "idle" /\ Known(s)
    /\ op \in {"override", "reauth", "lock", "touch"}
    /\ g \in (IF op = "override" THEN 1 .. Len(grants) ELSE {0})
    /\ \/ /\ InForce(s) /\ Satisfies(sessions[s].user, Requirement(op))
          /\ sessions' = [sessions EXCEPT ![s].seen = now]
          /\ req' = [req EXCEPT ![r] = Reading([Idle EXCEPT !.op = op, !.at = "admitted", !.g = g], s)]
       \/ /\ ~InForce(s) /\ sessions[s].state = "open"
          /\ req' = [req EXCEPT ![r] = Reading([Idle EXCEPT !.op = "refuse", !.at = "ready"], s)]
          /\ UNCHANGED sessions
    /\ UNCHANGED <<world, now, stations, users, creds, log, adm>>

\* get_current_user: the same checks again, and what the body will remember.
Depend(r, pin) ==
    /\ req[r].at = "admitted"
    /\ \/ /\ Known(req[r].s) /\ InForce(req[r].s)
          /\ pin \in (IF req[r].op # "reauth" THEN {creds[req[r].u].pin}
                      ELSE IF world.wrong THEN 0 .. pins ELSE {creds[req[r].u].pin})
          /\ req' = [req EXCEPT ![r] = [Reading(@, req[r].s) EXCEPT !.at = "ready", !.pin = pin]]
       \/ /\ Known(req[r].s) /\ ~InForce(req[r].s) /\ sessions[req[r].s].state = "open"
          /\ pin = 0
          /\ req' = [req EXCEPT ![r] = [Reading(@, req[r].s) EXCEPT !.op = "refuse", !.at = "ready"]]
       \/ /\ ~(Known(req[r].s) /\ sessions[req[r].s].state = "open")
          /\ pin = 0
          /\ Done(r)
    /\ UNCHANGED <<world, now, rows, log, adm>>

\* Forgetting the device asks for no valid session.
Forget(r, s) ==
    /\ Does("forget") /\ req[r].at = "idle" /\ Known(s)
    /\ stations[sessions[s].station].state = "active" /\ sessions[s].state = "open"
    /\ req' = [req EXCEPT ![r] = Reading([Idle EXCEPT !.op = "forget", !.at = "ready"], s)]
    /\ UNCHANGED <<world, now, rows, log, adm>>

\* lock_session, on the epoch read before: a refused, a locked, a forgotten session.
LockSession(r) ==
    LET q == req[r] IN
    /\ q.at = "ready" /\ q.op \in {"refuse", "lock", "forget"}
    /\ ~StationHeld(q.st)
    /\ \/ /\ Remaining({q.s})
          /\ LockSessions({q.s})
          /\ stations' = Advanced({q.s}, q.station)
       \/ /\ ~Remaining({q.s})
          /\ UNCHANGED <<sessions, stations>>
    /\ Done(r)
    /\ UNCHANGED <<world, now, users, creds, log, adm>>

Touch(r) ==
    /\ req[r].at = "ready" /\ req[r].op = "touch"
    /\ \/ Known(req[r].s) /\ sessions' = [sessions EXCEPT ![req[r].s].seen = now]
       \/ ~Known(req[r].s) /\ UNCHANGED sessions
    /\ Done(r)
    /\ UNCHANGED <<world, now, stations, users, creds, log, adm>>

-----------------------------------------------------------------------------
(* The confirmation of an override.                                        *)

\* issue_reauth_grant: the station is fresh, the session and the PIN as remembered.
Confirmable(q) ==
    /\ Known(q.s) /\ HasPin(q.u)
    /\ stations[q.st].state = "active" /\ stations[q.st].epoch = q.session.epoch
    /\ q.cred.version = q.session.version
CanReauth(r) == req[r].at = "ready" /\ req[r].op = "reauth" /\ ~StationHeld(req[r].st)

Reject(r) ==
    LET q == req[r]
        blocked == Blocked(stations[q.st]) \/ Blocked(q.cred)
    IN
    /\ CanReauth(r)
    /\ \/ /\ ~Confirmable(q) \/ blocked
          /\ UNCHANGED <<stations, creds>>
       \/ /\ Confirmable(q) /\ ~blocked /\ q.pin # q.cred.pin /\ stations[q.st].failed < MaxFailures
          /\ stations' = [stations EXCEPT ![q.st] = Failed(@, @)]
          /\ creds' = [creds EXCEPT ![q.u] = Failed(@, q.cred)]
       \/ /\ q.session.grant # 0 /\ Known(q.s) /\ sessions[q.s].grant = 0   \* the row's CHECK fails
          /\ UNCHANGED <<stations, creds>>
    /\ Done(r)
    /\ UNCHANGED <<world, now, users, sessions, log, adm>>

IssueGrant(r) ==
    LET q == req[r] IN
    /\ CanReauth(r) /\ Confirmable(q) /\ Len(grants) < MaxGrants
    /\ ~Blocked(stations[q.st]) /\ ~Blocked(q.cred) /\ q.pin = q.cred.pin
    /\ q.session.grant # 0 => sessions[q.s].grant # 0
    /\ grants' = Append(grants, [session |-> q.s, pin |-> q.pin, ends |-> now + GrantTicks])
    /\ sessions' = [sessions EXCEPT ![q.s].grant = Len(grants) + 1, ![q.s].grantEnds = now + GrantTicks]
    /\ stations' = [stations EXCEPT ![q.st] = Wiped(@, @)]
    /\ creds' = [creds EXCEPT ![q.u] = Wiped(@, q.cred)]
    /\ Done(r)
    /\ UNCHANGED <<world, now, users, pins, uses, adm>>

\* consume_reauth_grant reads the session afresh, in the transaction of the change.
Consumable(s, g) ==
    /\ Known(s) /\ sessions[s].state = "open"
    /\ sessions[s].grant = g /\ now < sessions[s].grantEnds

Override(r) ==
    LET q == req[r] IN
    /\ q.at = "ready" /\ q.op = "override"
    /\ \/ /\ Consumable(q.s, q.g)
          /\ sessions' = [sessions EXCEPT ![q.s].grant = 0]
          /\ uses' = Append(uses, [session |-> q.s, grant |-> q.g, pin |-> q.pin, at |-> now,
                                   newest |-> Max({s \in DOMAIN sessions : sessions[s].station = q.st})])
       \/ UNCHANGED <<sessions, uses>>      \* WORKSTATION_REAUTH_REQUIRED, or the change itself fails
    /\ Done(r)
    /\ UNCHANGED <<world, now, stations, users, creds, pins, grants, adm>>

-----------------------------------------------------------------------------
(* The administrator.                                                      *)

\* The open sessions are looked up before anything is written.
Found(op, st, u) ==
    {s \in DOMAIN sessions : /\ sessions[s].state = "open"
                             /\ IF op = "revokeStation" THEN sessions[s].station = st ELSE sessions[s].user = u}
Begin(op, st, u) ==
    /\ adm.op = "none" /\ Does(op) /\ op \in Changes \ {"register"}
    /\ op = "revokeStation" => stations[st].state = "active"
    /\ op # "revokeStation" => users[u] # Gone
    /\ op = "setPin" => Eligible(u) /\ pins < MaxPins
    /\ adm' = [op |-> op, st |-> st, u |-> u, found |-> Found(op, st, u), epochs |-> Epochs, cred |-> creds[u]]
    /\ UNCHANGED <<world, now, rows, log, req>>

Register(st) ==
    /\ Does("register") /\ stations[st].state = "none"
    /\ stations' = [stations EXCEPT ![st] = [state |-> "active", epoch |-> 0, failed |-> 0, until |-> 0]]
    /\ UNCHANGED <<world, now, users, creds, sessions, log, req, adm>>

\* What the change touches must be free: the stations of the sessions, the account itself.
Free ==
    /\ \A s \in adm.found : ~StationHeld(sessions[s].station)
    /\ adm.op = "revokeStation" => ~StationHeld(adm.st)
    /\ (adm.op \in {"rights", "reset", "delete"} \/ (adm.op = "setPin" /\ adm.cred.pin = 0)) => ~UserHeld(adm.u)

Revoke(found) ==
    /\ LockSessions(found)
    /\ stations' = Advanced(found, adm.epochs)
Finish == adm.op # "none" /\ Free /\ adm' = Resting

SetPin ==
    /\ adm.op = "setPin" /\ Finish /\ pins < MaxPins
    /\ creds' = [creds EXCEPT ![adm.u] = [pin |-> pins + 1, version |-> adm.cred.version + 1,
                                          failed |-> 0, until |-> 0]]
    /\ pins' = pins + 1
    /\ Revoke(adm.found)
    /\ UNCHANGED <<world, now, users, grants, uses, req>>

RevokePin ==
    /\ adm.op = "revokePin" /\ Finish
    /\ creds' = [creds EXCEPT ![adm.u] = NoCred]
    /\ Revoke(adm.found)
    /\ UNCHANGED <<world, now, users, log, req>>

\* Rights and the employee's state change; a new password changes neither.
ChangeUser(rights) ==
    /\ adm.op \in {"rights", "employee", "reset"} /\ Finish
    /\ IF adm.op = "reset" THEN rights = users[adm.u] ELSE rights \in Rights \ {users[adm.u]}
    /\ adm.op = "employee" => rights \in {Host, Suspended}
    /\ users' = [users EXCEPT ![adm.u] = rights]
    /\ Revoke(adm.found)
    /\ UNCHANGED <<world, now, creds, log, req>>

DeleteUser ==
    /\ adm.op = "delete" /\ Finish
    /\ users' = [users EXCEPT ![adm.u] = Gone]
    /\ creds' = [creds EXCEPT ![adm.u] = NoCred]
    /\ sessions' = [s \in DOMAIN sessions |->
                       IF sessions[s].user = adm.u THEN [Locked(sessions[s]) EXCEPT !.state = "gone"] ELSE sessions[s]]
    /\ UNCHANGED <<world, now, stations, log, req>>

RevokeStation ==
    /\ adm.op = "revokeStation" /\ Finish
    /\ LockSessions(adm.found)
    /\ stations' = [Advanced(adm.found, adm.epochs) EXCEPT ![adm.st].state = "off"]
    /\ UNCHANGED <<world, now, users, creds, log, req>>

-----------------------------------------------------------------------------
Tick == now < world.last /\ now' = now + 1 /\ UNCHANGED <<world, rows, log, req, adm>>

Next ==
    \/ \E r \in world.requests :
        \/ \E st \in Stations, u \in world.users, pin \in 0 .. pins : Unlock(r, st, u, pin)
        \/ HoldRows(r) \/ RejectUnlock(r) \/ CreateSession(r)
        \/ \E op \in Reads, s \in DOMAIN sessions, g \in 0 .. Len(grants) : Gate(r, op, s, g)
        \/ \E pin \in 0 .. pins : Depend(r, pin)
        \/ \E s \in DOMAIN sessions : Forget(r, s)
        \/ LockSession(r) \/ Touch(r) \/ Reject(r) \/ IssueGrant(r) \/ Override(r)
    \/ \E op \in Changes, st \in Stations, u \in world.users : Begin(op, st, u)
    \/ \E st \in Stations : Register(st)
    \/ SetPin \/ RevokePin \/ DeleteUser \/ RevokeStation
    \/ \E rights \in Rights : ChangeUser(rights)
    \/ Tick

Spec == Init /\ [][Next]_vars

-----------------------------------------------------------------------------
\* Every override committed under a PIN session spends a confirmation of its own, that the
\* operator of that very session typed, before it ran out, with the PIN the session was opened
\* with and that was in force when the request was last admitted, and no operator had taken
\* the station over by then: workstation_auth.py 435-488 and the docstring of the session
\* epoch, against a switch, a change of PIN and a second use racing the request.
OverridesAreConfirmed ==
    /\ \A i, j \in DOMAIN uses : i # j => uses[i].grant # uses[j].grant
    /\ \A i \in DOMAIN uses :
        LET use == uses[i]
            grant == grants[use.grant]
        IN  /\ grant.session = use.session /\ use.at < grant.ends
            /\ grant.pin = use.pin /\ sessions[use.session].pin = use.pin
            /\ use.newest = use.session
=============================================================================
