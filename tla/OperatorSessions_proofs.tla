------------------------ MODULE OperatorSessions_proofs ------------------------
(***************************************************************************)
(* Proofs about OperatorSessions, for every set of stations, operators and *)
(* requests, every timeout and every number of sessions and PINs.          *)
(*                                                                         *)
(* Versions of a PIN start anew when it is taken away, so a session is not *)
(* known by its version alone.  What holds is that an open session, or a   *)
(* request about to open one, is never ahead of the PIN of its operator    *)
(* and has that PIN when the versions meet (Behind), because a first PIN   *)
(* waits for the requests that hold the account and ends every session.    *)
(***************************************************************************)
EXTENDS OperatorSessions, SequenceTheorems, TLAPS

-----------------------------------------------------------------------------
(* Rows.                                                                    *)

StationRows == [state : {"none", "active", "off"}, epoch : Nat, failed : Nat, until : Nat]
CredRows == [pin : Nat, version : Nat, failed : Nat, until : Nat]
SessionRows == [state : {"open", "locked", "gone"}, station : Stations, user : Users, epoch : Nat,
                version : Nat, rights : {Host}, pin : Nat, ends : Nat, seen : Nat,
                grant : Nat, grantEnds : Nat]
GrantRows == [session : Nat, pin : Nat, ends : Nat]
UseRows == [session : Nat, grant : Nat, pin : Nat, at : Nat, newest : Nat]
EpochRows == [Stations -> Nat]

RowTypes ==
    /\ world \in Worlds /\ now \in Nat /\ pins \in Nat
    /\ stations \in [Stations -> StationRows] /\ users \in [Users -> Rights \cup {Gone}]
    /\ creds \in [Users -> CredRows] /\ sessions \in Seq(SessionRows)
    /\ grants \in Seq(GrantRows) /\ uses \in Seq(UseRows)

\* What a request remembers is as the rows were, or nothing.
ReqFields == {"op", "at", "s", "g", "st", "u", "pin", "station", "cred", "session"}
UnderSession == {"override", "reauth", "lock", "touch", "refuse", "forget"}
UnlockOK(q) ==
    /\ q.at \in {"read", "held"} /\ q.st \in Stations /\ q.u \in Users /\ q.pin \in Nat
    /\ q.station \in StationRows
    /\ q.at = "held" => q.cred \in CredRows
UnderOK(q, ss) ==
    /\ q.at \in {"admitted", "ready"} /\ q.s \in 1..Len(ss) /\ q.g \in Nat /\ q.pin \in Nat
    /\ q.st = ss[q.s].station /\ q.u = ss[q.s].user
    /\ q.station \in EpochRows /\ q.cred \in CredRows /\ q.session \in SessionRows

-----------------------------------------------------------------------------
(* The inductive invariant.                                                 *)

Behind(pin, version, cred) ==
    cred.pin # 0 => version <= cred.version /\ (version = cred.version => pin = cred.pin)

ReqOK(q, ss, cs) ==
    /\ DOMAIN q = ReqFields
    /\ \/ q.op = "none" /\ q.at = "idle"
       \/ q.op = "unlock" /\ UnlockOK(q)
       \/ q.op \in UnderSession /\ UnderOK(q, ss)
    /\ q.op = "unlock" /\ q.at = "held" /\ q.cred.pin # 0 => Behind(q.cred.pin, q.cred.version, cs[q.u])
    /\ q.op = "override" => q.g # 0
    /\ q.op = "override" /\ q.at = "ready" => q.pin = ss[q.s].pin
    /\ q.op = "reauth" /\ q.at = "ready" => q.cred.pin = ss[q.s].pin

\* An open session is the newest of its station; a confirmation is its own, and unspent.
SessionOK(s, ss, cs, gs, us) ==
    /\ ss[s].state = "open" =>
         /\ Behind(ss[s].pin, ss[s].version, cs[ss[s].user])
         /\ \A t \in 1..Len(ss) : t > s => ss[t].station # ss[s].station
    /\ ss[s].grant # 0 =>
         /\ ss[s].grant \in 1..Len(gs)
         /\ gs[ss[s].grant].session = s /\ gs[ss[s].grant].ends = ss[s].grantEnds
         /\ \A i \in 1..Len(us) : us[i].grant # ss[s].grant
SessionsOK(ss, cs, gs, us) == \A s \in 1..Len(ss) : SessionOK(s, ss, cs, gs, us)

GrantsOK(gs, ss) ==
    \A g \in 1..Len(gs) : gs[g].session \in 1..Len(ss) /\ gs[g].pin = ss[gs[g].session].pin

UseOK(use, gs, ss) ==
    /\ use.grant \in 1..Len(gs) /\ use.session \in 1..Len(ss)
    /\ gs[use.grant].session = use.session /\ use.at < gs[use.grant].ends
    /\ gs[use.grant].pin = use.pin /\ ss[use.session].pin = use.pin
    /\ use.newest = use.session
UsesOK(us, gs, ss) ==
    /\ \A i \in 1..Len(us) : UseOK(us[i], gs, ss)
    /\ \A i, j \in 1..Len(us) : i # j => us[i].grant # us[j].grant

\* The administrator's request still sees the PIN; a first PIN has all open sessions before it.
AdmOK(a, ss, cs) ==
    a.op = "none" \/
    /\ a.op \in Changes \ {"register"} /\ a.st \in Stations /\ a.u \in Users
    /\ a.epochs \in EpochRows /\ a.cred \in CredRows
    /\ a.found \subseteq 1..Len(ss)
    /\ a.cred.pin = cs[a.u].pin /\ a.cred.version = cs[a.u].version
    /\ a.op \in {"setPin", "revokePin"} /\ a.cred.pin = 0
         => \A s \in 1..Len(ss) : ss[s].state = "open" /\ ss[s].user = a.u => s \in a.found

IInv ==
    /\ RowTypes
    /\ DOMAIN req = Requests /\ \A r \in Requests : ReqOK(req[r], sessions, creds)
    /\ AdmOK(adm, sessions, creds)
    /\ SessionsOK(sessions, creds, grants, uses)
    /\ GrantsOK(grants, sessions)
    /\ UsesOK(uses, grants, sessions)

-----------------------------------------------------------------------------
(* The parts of the invariant, and what they say of one request.            *)

LEMMA InvFacts ==
    ASSUME IInv
    PROVE  /\ world \in Worlds /\ now \in Nat /\ pins \in Nat
           /\ stations \in [Stations -> StationRows] /\ users \in [Users -> Rights \cup {Gone}]
           /\ creds \in [Users -> CredRows] /\ sessions \in Seq(SessionRows)
           /\ grants \in Seq(GrantRows) /\ uses \in Seq(UseRows)
           /\ DOMAIN req = Requests /\ \A r \in Requests : ReqOK(req[r], sessions, creds)
           /\ AdmOK(adm, sessions, creds)
           /\ SessionsOK(sessions, creds, grants, uses)
           /\ GrantsOK(grants, sessions) /\ UsesOK(uses, grants, sessions)
           /\ Len(sessions) \in Nat /\ DOMAIN sessions = 1..Len(sessions)
           /\ \A s \in 1..Len(sessions) : sessions[s] \in SessionRows
           /\ Len(grants) \in Nat /\ DOMAIN grants = 1..Len(grants)
           /\ Len(uses) \in Nat /\ DOMAIN uses = 1..Len(uses)
           /\ \A g \in 1..Len(grants) : grants[g] \in GrantRows
           /\ \A i \in 1..Len(uses) : uses[i] \in UseRows
           /\ \A u \in Users : creds[u] \in CredRows
           /\ \A st \in Stations : stations[st] \in StationRows
<1>1. /\ sessions \in Seq(SessionRows) /\ grants \in Seq(GrantRows) /\ uses \in Seq(UseRows)
      /\ creds \in [Users -> CredRows] /\ stations \in [Stations -> StationRows]
  BY DEF IInv, RowTypes
<1>2. /\ Len(sessions) \in Nat /\ DOMAIN sessions = 1..Len(sessions)
      /\ \A s \in 1..Len(sessions) : sessions[s] \in SessionRows
  BY <1>1
<1>3. /\ Len(grants) \in Nat /\ DOMAIN grants = 1..Len(grants)
      /\ \A g \in 1..Len(grants) : grants[g] \in GrantRows
  BY <1>1
<1>4. /\ Len(uses) \in Nat /\ DOMAIN uses = 1..Len(uses) /\ \A i \in 1..Len(uses) : uses[i] \in UseRows
  BY <1>1
<1>5. (\A u \in Users : creds[u] \in CredRows) /\ \A st \in Stations : stations[st] \in StationRows
  BY <1>1
<1>. QED
  BY <1>1, <1>2, <1>3, <1>4, <1>5 DEF IInv, RowTypes

LEMMA WorldFacts ==
    ASSUME IInv
    PROVE  /\ world.requests \subseteq Requests /\ world.users \subseteq Users
           /\ GrantTicks \in Nat /\ IdleTicks \in Nat /\ SessionTicks \in Nat
           /\ Patience \in Nat /\ BlockTicks \in Nat
  BY InvFacts, SessionAssumption

\* What never changes in a session, and what a step does that takes no confirmation.
SameOwner(x, y) ==
    /\ y.station = x.station /\ y.user = x.user /\ y.version = x.version /\ y.pin = x.pin
    /\ y.state = "open" => x.state = "open"
SameSession(x, y) == SameOwner(x, y) /\ (y.grant # 0 => y.grant = x.grant /\ y.grantEnds = x.grantEnds)
OwnersKept(ss, tt) ==
    /\ Len(ss) \in Nat /\ Len(tt) \in Nat /\ Len(tt) >= Len(ss)
    /\ \A s \in 1..Len(ss) : SameOwner(ss[s], tt[s])
SessionsKept(ss, tt) ==
    /\ tt \in Seq(SessionRows) /\ Len(tt) = Len(ss)
    /\ \A s \in 1..Len(ss) : SameSession(ss[s], tt[s])
SamePins(cs, ds) == \A u \in Users : ds[u].pin = cs[u].pin /\ ds[u].version = cs[u].version

LEMMA KeptOwners ==
    ASSUME NEW ss, NEW tt, SessionsKept(ss, tt)
    PROVE  OwnersKept(ss, tt)
<1>1. tt \in Seq(SessionRows) /\ Len(tt) = Len(ss)
  BY DEF SessionsKept
<1>2. Len(tt) \in Nat
  BY <1>1
<1>. QED
  BY <1>1, <1>2 DEF SessionsKept, OwnersKept, SameSession

LEMMA SessionsBehind ==
    ASSUME NEW ss, NEW tt, NEW cs, NEW ds, NEW gs, NEW us, SessionsKept(ss, tt), SessionsOK(ss, cs, gs, us),
           \A s \in 1..Len(tt) : tt[s].state = "open" => Behind(tt[s].pin, tt[s].version, ds[tt[s].user])
    PROVE  SessionsOK(tt, ds, gs, us)
<1>1. ASSUME NEW s \in 1..Len(tt)
      PROVE  SessionOK(s, tt, ds, gs, us)
  <2>1. s \in 1..Len(ss) /\ SameSession(ss[s], tt[s]) /\ SessionOK(s, ss, cs, gs, us) /\ Len(tt) = Len(ss)
    BY DEF SessionsKept, SessionsOK
  <2>2. ASSUME tt[s].state = "open", NEW t \in 1..Len(tt), t > s
        PROVE  tt[t].station # tt[s].station
    BY <2>1, <2>2 DEF SessionOK, SameSession, SameOwner, SessionsKept
  <2>. QED
    BY <2>1, <2>2 DEF SessionOK, SameSession
<1>. QED
  BY <1>1 DEF SessionsOK

LEMMA SessionsStay ==
    ASSUME NEW ss, NEW tt, NEW cs, NEW ds, NEW gs, NEW us, ss \in Seq(SessionRows),
           SessionsKept(ss, tt), SamePins(cs, ds), SessionsOK(ss, cs, gs, us)
    PROVE  SessionsOK(tt, ds, gs, us)
<1>1. ASSUME NEW s \in 1..Len(tt), tt[s].state = "open"
      PROVE  Behind(tt[s].pin, tt[s].version, ds[tt[s].user])
  <2>1. s \in 1..Len(ss) /\ SameSession(ss[s], tt[s]) /\ SessionOK(s, ss, cs, gs, us) /\ ss[s] \in SessionRows
    BY DEF SessionsKept, SessionsOK
  <2>2. ss[s].user \in Users
    BY <2>1 DEF SessionRows
  <2>3. /\ tt[s].pin = ss[s].pin /\ tt[s].version = ss[s].version /\ tt[s].user = ss[s].user
        /\ ss[s].state = "open"
    BY <1>1, <2>1 DEF SameSession, SameOwner
  <2>4. Behind(ss[s].pin, ss[s].version, cs[ss[s].user])
    BY <2>1, <2>3 DEF SessionOK
  <2>5. ds[ss[s].user].pin = cs[ss[s].user].pin /\ ds[ss[s].user].version = cs[ss[s].user].version
    BY <2>2 DEF SamePins
  <2>. QED
    BY <2>3, <2>4, <2>5 DEF Behind
<1>. QED
  BY <1>1, SessionsBehind

LEMMA LogStays ==
    ASSUME NEW ss, NEW tt, NEW gs, NEW us, OwnersKept(ss, tt), GrantsOK(gs, ss), UsesOK(us, gs, ss)
    PROVE  GrantsOK(gs, tt) /\ UsesOK(us, gs, tt)
<1>1. 1..Len(ss) \subseteq 1..Len(tt) /\ \A s \in 1..Len(ss) : tt[s].pin = ss[s].pin
  BY DEF OwnersKept, SameOwner
<1>. QED
  BY <1>1 DEF GrantsOK, UsesOK, UseOK

LEMMA RequestBehind ==
    ASSUME NEW ss, NEW tt, NEW cs, NEW ds, NEW q, OwnersKept(ss, tt), ReqOK(q, ss, cs),
           q.op = "unlock" /\ q.at = "held" /\ q.cred.pin # 0 => Behind(q.cred.pin, q.cred.version, ds[q.u])
    PROVE  ReqOK(q, tt, ds)
<1>1. 1..Len(ss) \subseteq 1..Len(tt)
      /\ \A s \in 1..Len(ss) : tt[s].pin = ss[s].pin /\ tt[s].station = ss[s].station /\ tt[s].user = ss[s].user
  BY DEF OwnersKept, SameOwner
<1>2. q.op \in UnderSession => (UnderOK(q, ss) => UnderOK(q, tt))
  BY <1>1 DEF UnderOK
<1>3. q.op \in {"override", "reauth"} /\ UnderOK(q, ss) => tt[q.s].pin = ss[q.s].pin
  BY <1>1 DEF UnderOK
<1>4. "unlock" \notin UnderSession /\ {"override", "reauth"} \subseteq UnderSession /\ "none" \notin UnderSession
  BY DEF UnderSession
<1>. QED
  BY <1>2, <1>3, <1>4 DEF ReqOK

LEMMA RequestStays ==
    ASSUME NEW ss, NEW tt, NEW cs, NEW ds, NEW q, OwnersKept(ss, tt), SamePins(cs, ds), ReqOK(q, ss, cs)
    PROVE  ReqOK(q, tt, ds)
<1>1. ASSUME q.op = "unlock", q.at = "held", q.cred.pin # 0
      PROVE  Behind(q.cred.pin, q.cred.version, ds[q.u])
  <2>1. q.u \in Users /\ Behind(q.cred.pin, q.cred.version, cs[q.u])
    BY <1>1 DEF ReqOK, UnlockOK, UnderSession
  <2>2. ds[q.u].pin = cs[q.u].pin /\ ds[q.u].version = cs[q.u].version
    BY <2>1 DEF SamePins
  <2>. QED
    BY <2>1, <2>2 DEF Behind
<1>. QED
  BY <1>1, RequestBehind

LEMMA AdmStays ==
    ASSUME NEW ss, NEW tt, NEW cs, NEW ds, NEW a, OwnersKept(ss, tt), Len(tt) = Len(ss), SamePins(cs, ds),
           AdmOK(a, ss, cs)
    PROVE  AdmOK(a, tt, ds)
<1>1. Len(tt) = Len(ss)
      /\ \A s \in 1..Len(ss) : tt[s].user = ss[s].user /\ (tt[s].state = "open" => ss[s].state = "open")
  BY DEF OwnersKept, SameOwner
<1>. QED
  BY <1>1 DEF AdmOK, SamePins

LEMMA NoMove ==
    ASSUME NEW ss, ss \in Seq(SessionRows)
    PROVE  SessionsKept(ss, ss)
  BY DEF SessionsKept, SameSession, SameOwner

\* A step that takes no confirmation, spends none and leaves every PIN alone.
LEMMA QuietStep ==
    ASSUME IInv, RowTypes', SessionsKept(sessions, sessions'), SamePins(creds, creds'),
           grants' = grants, uses' = uses, DOMAIN req' = Requests,
           \A r \in Requests : req'[r] = req[r] \/ ReqOK(req'[r], sessions', creds'),
           adm' = adm \/ AdmOK(adm', sessions', creds')
    PROVE  IInv'
<1>0. OwnersKept(sessions, sessions') /\ Len(sessions') = Len(sessions)
  BY KeptOwners DEF SessionsKept
<1>1. SessionsOK(sessions', creds', grants, uses)
  BY SessionsStay, InvFacts
<1>2. GrantsOK(grants, sessions') /\ UsesOK(uses, grants, sessions')
  BY <1>0, LogStays, InvFacts
<1>3. \A r \in Requests : ReqOK(req'[r], sessions', creds')
  BY <1>0, RequestStays, InvFacts
<1>4. AdmOK(adm', sessions', creds')
  BY <1>0, AdmStays, InvFacts
<1>. QED
  BY <1>1, <1>2, <1>3, <1>4 DEF IInv

LEMMA InitInv == Init => IInv
<1>. SUFFICES ASSUME Init
              PROVE  IInv
  OBVIOUS
<1>1. RowTypes
  <2>1. Host \in Rights
    BY DEF Rights
  <2>2. NoCred \in CredRows /\ [pin |-> 1, version |-> 1, failed |-> 0, until |-> 0] \in CredRows
    BY DEF NoCred, CredRows
  <2>3. \A x \in {"none", "active"} : [state |-> x, epoch |-> 0, failed |-> 0, until |-> 0] \in StationRows
    BY DEF StationRows
  <2>4. stations \in [Stations -> StationRows]
    BY <2>3 DEF Init
  <2>5. creds \in [Users -> CredRows]
    BY <2>2 DEF Init
  <2>6. /\ world \in Worlds /\ now \in Nat /\ pins \in Nat /\ users \in [Users -> Rights \cup {Gone}]
        /\ sessions \in Seq(SessionRows) /\ grants \in Seq(GrantRows) /\ uses \in Seq(UseRows)
    BY <2>1 DEF Init
  <2>. QED
    BY <2>4, <2>5, <2>6 DEF RowTypes
<1>2. sessions = <<>> /\ grants = <<>> /\ uses = <<>> /\ adm.op = "none"
  BY DEF Init, Resting
<1>3. DOMAIN req = Requests /\ \A r \in Requests : ReqOK(req[r], sessions, creds)
  BY DEF Init, ReqOK, Idle, ReqFields
<1>4. /\ SessionsOK(sessions, creds, grants, uses) /\ GrantsOK(grants, sessions)
      /\ UsesOK(uses, grants, sessions) /\ AdmOK(adm, sessions, creds)
  BY <1>2 DEF SessionsOK, GrantsOK, UsesOK, AdmOK
<1>. QED
  BY <1>1, <1>3, <1>4 DEF IInv

-----------------------------------------------------------------------------
(* What the rows are after a write, and what a request reads.               *)

LEMMA FunctionsAreSequences ==
    ASSUME NEW S, NEW n \in Nat, NEW f \in [1..n -> S]
    PROVE  f \in Seq(S) /\ Len(f) = n
  OBVIOUS

Written(row, f, u) == [row EXCEPT !.failed = f, !.until = u]

LEMMA RowWrites ==
    ASSUME IInv, NEW row, NEW read, read.failed \in Nat
    PROVE  /\ row \in StationRows => Wiped(row, read) \in StationRows /\ Failed(row, read) \in StationRows
           /\ row \in CredRows =>
                /\ Wiped(row, read) \in CredRows /\ Failed(row, read) \in CredRows
                /\ Wiped(row, read).pin = row.pin /\ Wiped(row, read).version = row.version
                /\ Failed(row, read).pin = row.pin /\ Failed(row, read).version = row.version
<1>1. LockSeconds(read.failed + 1) \in Nat /\ now \in Nat /\ read.failed + 1 \in Nat
  BY InvFacts, WorldFacts DEF LockSeconds
<1>2. ASSUME NEW f \in Nat, NEW u \in Nat, row \in StationRows
      PROVE  Written(row, f, u) \in StationRows
  BY <1>2 DEF Written, StationRows
<1>3. ASSUME NEW f \in Nat, NEW u \in Nat, row \in CredRows
      PROVE  /\ Written(row, f, u) \in CredRows
             /\ Written(row, f, u).pin = row.pin
             /\ Written(row, f, u).version = row.version
  BY <1>3 DEF Written, CredRows
<1>4. ASSUME row \in StationRows \/ row \in CredRows
      PROVE  /\ \E f, u \in Nat : Wiped(row, read) = Written(row, f, u)
             /\ \E f, u \in Nat : Failed(row, read) = Written(row, f, u)
  <2>1. row.failed \in Nat /\ row.until \in Nat
    BY <1>4 DEF StationRows, CredRows
  <2>. DEFINE f1 == IF read.failed = 0 THEN row.failed ELSE 0
              u1 == IF read.until = 0 THEN row.until ELSE 0
              f2 == read.failed + 1
              u2 == IF LockSeconds(read.failed + 1) > 0 THEN now + LockSeconds(read.failed + 1) ELSE row.until
  <2>2. f1 \in Nat /\ u1 \in Nat /\ f2 \in Nat /\ u2 \in Nat
    BY <1>1, <2>1
  <2>3. Wiped(row, read) = Written(row, f1, u1)
    BY DEF Wiped, Written
  <2>4. Failed(row, read) = Written(row, f2, u2)
    BY DEF Failed, Written
  <2>. HIDE DEF f1, u1, f2, u2
  <2>. QED
    BY <2>2, <2>3, <2>4
<1>5. ASSUME row \in StationRows
      PROVE  Wiped(row, read) \in StationRows /\ Failed(row, read) \in StationRows
  BY <1>2, <1>4, <1>5
<1>6. ASSUME row \in CredRows
      PROVE  /\ Wiped(row, read) \in CredRows
             /\ Wiped(row, read).pin = row.pin /\ Wiped(row, read).version = row.version
  <2>1. PICK f \in Nat, u \in Nat : Wiped(row, read) = Written(row, f, u)
    BY <1>4, <1>6
  <2>. QED
    BY <1>3, <1>6, <2>1
<1>7. ASSUME row \in CredRows
      PROVE  /\ Failed(row, read) \in CredRows
             /\ Failed(row, read).pin = row.pin /\ Failed(row, read).version = row.version
  <2>1. PICK f \in Nat, u \in Nat : Failed(row, read) = Written(row, f, u)
    BY <1>4, <1>7
  <2>. QED
    BY <1>3, <1>7, <2>1
<1>. QED
  BY <1>5, <1>6, <1>7

LEMMA LockedRow ==
    ASSUME NEW e \in SessionRows
    PROVE  Locked(e) \in SessionRows /\ SameSession(e, Locked(e)) /\ Locked(e).state = "locked" /\ Locked(e).grant = 0
  BY DEF Locked, SessionRows, SameSession, SameOwner

LEMMA LockMove ==
    ASSUME IInv, NEW found, LockSessions(found)
    PROVE  /\ SessionsKept(sessions, sessions')
           /\ \A s \in found : s \in 1..Len(sessions) => sessions'[s].state # "open"
<1>1. sessions' = [s \in 1..Len(sessions) |-> IF s \in found THEN Locked(sessions[s]) ELSE sessions[s]]
  BY InvFacts DEF LockSessions
<1>2. ASSUME NEW s \in 1..Len(sessions)
      PROVE  /\ sessions'[s] \in SessionRows /\ SameSession(sessions[s], sessions'[s])
             /\ s \in found => sessions'[s].state # "open"
  <2>1. sessions[s] \in SessionRows
    BY InvFacts
  <2>2. CASE s \in found
    BY <1>1, <2>1, <2>2, LockedRow
  <2>3. CASE s \notin found
    BY <1>1, <2>1, <2>3 DEF SameSession, SameOwner
  <2>. QED
    BY <2>2, <2>3
<1>3. sessions' \in [1..Len(sessions) -> SessionRows]
  BY <1>1, <1>2
<1>4. sessions' \in Seq(SessionRows) /\ Len(sessions') = Len(sessions)
  BY <1>3, InvFacts, FunctionsAreSequences
<1>. QED
  BY <1>2, <1>4 DEF SessionsKept

LEMMA AdvancedType ==
    ASSUME IInv, NEW found, NEW epochs \in EpochRows
    PROVE  Advanced(found, epochs) \in [Stations -> StationRows]
<1>1. ASSUME NEW st \in Stations
      PROVE  [stations[st] EXCEPT !.epoch = epochs[st] + 1] \in StationRows /\ stations[st] \in StationRows
  <2>1. stations[st] \in StationRows /\ epochs[st] + 1 \in Nat
    BY InvFacts DEF EpochRows
  <2>. QED
    BY <2>1 DEF StationRows
<1>. QED
  BY <1>1 DEF Advanced

LEMMA EpochsType ==
    ASSUME IInv
    PROVE  Epochs \in EpochRows
<1>1. \A st \in Stations : stations[st].epoch \in Nat
  BY InvFacts DEF StationRows
<1>. QED
  BY <1>1 DEF Epochs, EpochRows

\* The sessions a request may name.
LEMMA KnownSession ==
    ASSUME IInv, NEW s, s \in DOMAIN sessions
    PROVE  /\ s \in 1..Len(sessions) /\ s \in Nat /\ s # 0 /\ sessions[s] \in SessionRows
           /\ sessions[s].station \in Stations /\ sessions[s].user \in Users
           /\ creds[sessions[s].user] \in CredRows
<1>1. s \in 1..Len(sessions) /\ Len(sessions) \in Nat /\ sessions[s] \in SessionRows
  BY InvFacts
<1>2. sessions[s].station \in Stations /\ sessions[s].user \in Users
  BY <1>1 DEF SessionRows
<1>. QED
  BY <1>1, <1>2, InvFacts

\* A session in force was opened with the PIN of its operator.
LEMMA OwnPin ==
    ASSUME IInv, NEW s, s \in DOMAIN sessions, InForce(s)
    PROVE  creds[sessions[s].user].pin = sessions[s].pin
<1>1. SessionOK(s, sessions, creds, grants, uses) /\ s \in 1..Len(sessions)
  BY KnownSession, InvFacts DEF SessionsOK
<1>2. /\ sessions[s].state = "open" /\ creds[sessions[s].user].pin # 0
      /\ creds[sessions[s].user].version = sessions[s].version
  BY DEF InForce, HasPin
<1>. QED
  BY <1>1, <1>2 DEF SessionOK, Behind

\* A request reads the session, its station and its operator.
LEMMA ReadingFields ==
    ASSUME IInv, NEW q, DOMAIN q = ReqFields, NEW s, s \in DOMAIN sessions
    PROVE  LET p == Reading(q, s) IN
           /\ DOMAIN p = ReqFields /\ p.op = q.op /\ p.at = q.at /\ p.g = q.g /\ p.pin = q.pin /\ p.s = s
           /\ p.st = sessions[s].station /\ p.u = sessions[s].user
           /\ p.station \in EpochRows /\ p.cred = creds[sessions[s].user] /\ p.session = sessions[s]
<1>. DEFINE e == sessions[s]
            c == creds[e.user]
            h == Epochs
<1>1. h \in EpochRows
  BY EpochsType
<1>2. Reading(q, s) = [q EXCEPT !.s = s, !.st = e.station, !.u = e.user, !.station = h, !.session = e, !.cred = c]
  BY DEF Reading
<1>. HIDE DEF e, c, h
<1>3. LET p == Reading(q, s) IN
      /\ DOMAIN p = ReqFields /\ p.op = q.op /\ p.at = q.at /\ p.g = q.g /\ p.pin = q.pin /\ p.s = s
      /\ p.st = e.station /\ p.u = e.user
      /\ p.station = h /\ p.cred = c /\ p.session = e
  BY <1>2 DEF ReqFields
<1>. QED
  BY <1>1, <1>3 DEF e, c

LEMMA IdleFields ==
    /\ DOMAIN Idle = ReqFields /\ Idle.op = "none" /\ Idle.at = "idle" /\ Idle.g = 0 /\ Idle.pin = 0
  BY DEF Idle, ReqFields

LEMMA IdleOK ==
    ASSUME NEW ss, NEW cs
    PROVE  ReqOK(Idle, ss, cs)
  BY IdleFields DEF ReqOK

-----------------------------------------------------------------------------
(* Steps that take no confirmation.                                         *)

LEMMA QuietRequest ==
    ASSUME IInv, RowTypes', SessionsKept(sessions, sessions'), SamePins(creds, creds'),
           grants' = grants, uses' = uses, adm' = adm,
           NEW r \in Requests, NEW v, ReqOK(v, sessions, creds), req' = [req EXCEPT ![r] = v]
    PROVE  IInv'
<1>1. DOMAIN req' = Requests /\ \A t \in Requests : req'[t] = req[t] \/ req'[t] = v
  BY InvFacts
<1>2. \A t \in Requests : req'[t] = req[t] \/ ReqOK(req'[t], sessions', creds')
  BY <1>1, KeptOwners, RequestStays
<1>. QED
  BY <1>1, <1>2, QuietStep

LEMMA QuietDone ==
    ASSUME IInv, RowTypes', SessionsKept(sessions, sessions'), SamePins(creds, creds'),
           grants' = grants, uses' = uses, adm' = adm, NEW r \in Requests, Done(r)
    PROVE  IInv'
<1>1. req' = [req EXCEPT ![r] = Idle]
  BY DEF Done
<1>. QED
  BY <1>1, IdleOK, QuietRequest

\* A step that leaves the rows alone.
LEMMA RowsRest ==
    ASSUME IInv, UNCHANGED <<world, now, rows, log>>
    PROVE  /\ RowTypes' /\ SessionsKept(sessions, sessions') /\ SamePins(creds, creds')
           /\ grants' = grants /\ uses' = uses /\ sessions' = sessions /\ creds' = creds
<1>1. /\ world' = world /\ now' = now /\ stations' = stations /\ users' = users /\ creds' = creds
      /\ sessions' = sessions /\ pins' = pins /\ grants' = grants /\ uses' = uses
  BY DEF rows, log
<1>2. SessionsKept(sessions, sessions')
  BY <1>1, InvFacts, NoMove
<1>. QED
  BY <1>1, <1>2 DEF IInv, RowTypes, SamePins

LEMMA UnderFacts ==
    ASSUME IInv, NEW r \in Requests, req[r].at \in {"admitted", "ready"}
    PROVE  /\ req[r].op \in UnderSession /\ DOMAIN req[r] = ReqFields /\ req[r].at # "held"
           /\ req[r].s \in DOMAIN sessions /\ req[r].g \in Nat /\ req[r].pin \in Nat
           /\ req[r].st = sessions[req[r].s].station /\ req[r].u = sessions[req[r].s].user
           /\ req[r].st \in Stations /\ req[r].u \in Users
           /\ req[r].station \in EpochRows /\ req[r].cred \in CredRows /\ req[r].session \in SessionRows
           /\ req[r].cred.failed \in Nat
           /\ req[r].op = "override" => req[r].g # 0
           /\ req[r].op = "override" /\ req[r].at = "ready" => req[r].pin = sessions[req[r].s].pin
           /\ req[r].op = "reauth" /\ req[r].at = "ready" => req[r].cred.pin = sessions[req[r].s].pin
<1>1. ReqOK(req[r], sessions, creds)
  BY InvFacts
<1>2. req[r].op \in UnderSession /\ UnderOK(req[r], sessions)
  BY <1>1 DEF ReqOK, UnlockOK
<1>3. req[r].s \in DOMAIN sessions
  BY <1>2, InvFacts DEF UnderOK
<1>4. req[r].cred \in CredRows
  BY <1>2 DEF UnderOK
<1>5. req[r].cred.failed \in Nat
  BY <1>4 DEF CredRows
<1>6. sessions[req[r].s].station \in Stations /\ sessions[req[r].s].user \in Users
  BY <1>3, KnownSession
<1>. QED
  BY <1>1, <1>2, <1>3, <1>4, <1>5, <1>6 DEF ReqOK, UnderOK

LEMMA UnlockFacts ==
    ASSUME IInv, NEW r \in Requests, req[r].op = "unlock"
    PROVE  /\ DOMAIN req[r] = ReqFields /\ UnlockOK(req[r]) /\ req[r].st \in Stations /\ req[r].u \in Users
           /\ req[r].pin \in Nat /\ req[r].station \in StationRows
           /\ req[r].station.failed \in Nat /\ req[r].station.epoch \in Nat
           /\ req[r].at = "held" => req[r].cred \in CredRows /\ req[r].cred.failed \in Nat
           /\ req[r].at = "held" /\ req[r].cred.pin # 0
                => Behind(req[r].cred.pin, req[r].cred.version, creds[req[r].u])
<1>1. ReqOK(req[r], sessions, creds)
  BY InvFacts
<1>2. UnlockOK(req[r])
  BY <1>1 DEF ReqOK, UnderSession
<1>3. req[r].station \in StationRows
  BY <1>2 DEF UnlockOK
<1>4. req[r].station.failed \in Nat /\ req[r].station.epoch \in Nat
  BY <1>3 DEF StationRows
<1>5. req[r].at = "held" => req[r].cred \in CredRows
  BY <1>2 DEF UnlockOK
<1>6. req[r].at = "held" => req[r].cred.failed \in Nat
  BY <1>5 DEF CredRows
<1>. QED
  BY <1>1, <1>2, <1>3, <1>4, <1>5, <1>6 DEF ReqOK, UnlockOK

\* Failures counted on the account leave its PIN.
LEMMA CredWrite ==
    ASSUME IInv, NEW u \in Users, NEW c \in CredRows, creds' = [creds EXCEPT ![u] = c],
           c.pin = creds[u].pin, c.version = creds[u].version
    PROVE  creds' \in [Users -> CredRows] /\ SamePins(creds, creds')
  BY InvFacts DEF SamePins

LEMMA StationWrite ==
    ASSUME IInv, NEW st \in Stations, NEW e \in StationRows, stations' = [stations EXCEPT ![st] = e]
    PROVE  stations' \in [Stations -> StationRows]
  BY InvFacts

LEMMA Seen ==
    ASSUME IInv, NEW s, s \in DOMAIN sessions, sessions' = [sessions EXCEPT ![s].seen = now]
    PROVE  SessionsKept(sessions, sessions')
<1>1. now \in Nat /\ sessions[s] \in SessionRows
  BY InvFacts, KnownSession
<1>2. [sessions[s] EXCEPT !.seen = now] \in SessionRows /\ SameSession(sessions[s], [sessions[s] EXCEPT !.seen = now])
  BY <1>1 DEF SessionRows, SameSession, SameOwner
<1>. DEFINE e == [sessions[s] EXCEPT !.seen = now]
<1>3. sessions' = [sessions EXCEPT ![s] = e] /\ e \in SessionRows /\ SameSession(sessions[s], e)
  BY <1>2
<1>. HIDE DEF e
<1>4. sessions' \in [1..Len(sessions) -> SessionRows]
  BY <1>3, InvFacts
<1>5. sessions' \in Seq(SessionRows) /\ Len(sessions') = Len(sessions)
  BY <1>4, InvFacts, FunctionsAreSequences
<1>6. \A t \in 1..Len(sessions) : SameSession(sessions[t], sessions'[t])
  BY <1>3, InvFacts DEF SameSession, SameOwner
<1>. QED
  BY <1>5, <1>6 DEF SessionsKept

LEMMA SameCreds ==
    ASSUME NEW cs
    PROVE  SamePins(cs, cs)
  BY DEF SamePins

LEMMA UnlockInv ==
    ASSUME IInv, NEW r \in Requests, NEW st \in Stations, NEW u \in Users, NEW pin \in 0..pins, Unlock(r, st, u, pin)
    PROVE  IInv'
<1>. DEFINE e == stations[st]
            v == [Idle EXCEPT !.op = "unlock", !.at = "read", !.st = st, !.u = u, !.pin = pin, !.station = e]
<1>1. e \in StationRows /\ pin \in Nat
  BY InvFacts
<1>2. req' = [req EXCEPT ![r] = v] /\ UNCHANGED <<world, now, rows, log, adm>>
  BY DEF Unlock
<1>. HIDE DEF e
<1>3. ReqOK(v, sessions, creds)
  <2>1. /\ DOMAIN v = ReqFields /\ v.op = "unlock" /\ v.at = "read" /\ v.st = st /\ v.u = u /\ v.pin = pin
        /\ v.station = e
    BY IdleFields DEF ReqFields
  <2>. HIDE DEF v
  <2>. QED
    BY <1>1, <2>1 DEF ReqOK, UnlockOK
<1>. HIDE DEF v
<1>. QED
  BY <1>2, <1>3, RowsRest, QuietRequest

LEMMA HoldRowsInv ==
    ASSUME IInv, NEW r \in Requests, HoldRows(r)
    PROVE  IInv'
<1>. DEFINE q == req[r]
            c == IF Eligible(q.u) THEN creds[q.u] ELSE NoCred
            v == [q EXCEPT !.at = "held", !.cred = c]
<1>1. req' = [req EXCEPT ![r] = v] /\ UNCHANGED <<world, now, rows, log, adm>> /\ q.op = "unlock"
  BY DEF HoldRows
<1>2. DOMAIN q = ReqFields /\ UnlockOK(q) /\ q.u \in Users
  BY <1>1, UnlockFacts
<1>3. c \in CredRows /\ (c.pin # 0 => Behind(c.pin, c.version, creds[q.u]))
  <2>1. NoCred \in CredRows /\ NoCred.pin = 0
    BY DEF NoCred, CredRows
  <2>2. creds[q.u] \in CredRows
    BY <1>2, InvFacts
  <2>3. creds[q.u].version \in Nat
    BY <2>2 DEF CredRows
  <2>. QED
    BY <2>1, <2>2, <2>3 DEF Behind
<1>. HIDE DEF c
<1>4. /\ DOMAIN v = ReqFields /\ v.op = "unlock" /\ v.at = "held" /\ v.st = q.st /\ v.u = q.u /\ v.pin = q.pin
      /\ v.station = q.station /\ v.cred = c
  BY <1>1, <1>2 DEF ReqFields
<1>5. ReqOK(v, sessions, creds)
  <2>. HIDE DEF v, q
  <2>. QED
    BY <1>2, <1>3, <1>4 DEF ReqOK, UnlockOK
<1>. HIDE DEF v
<1>. QED
  BY <1>1, <1>5, RowsRest, QuietRequest

LEMMA RejectUnlockInv ==
    ASSUME IInv, NEW r \in Requests, RejectUnlock(r)
    PROVE  IInv'
<1>. DEFINE q == req[r]
<1>1. /\ q.op = "unlock" /\ q.at = "held" /\ Done(r)
      /\ world' = world /\ now' = now /\ users' = users /\ sessions' = sessions /\ pins' = pins /\ grants' = grants
      /\ uses' = uses /\ adm' = adm
  BY DEF RejectUnlock, log
<1>2. /\ q.st \in Stations /\ q.u \in Users /\ q.station.failed \in Nat /\ q.cred \in CredRows /\ q.cred.failed \in Nat
  BY <1>1, UnlockFacts
<1>3. stations' = stations \/ stations' = [stations EXCEPT ![q.st] = Failed(@, q.station)]
  BY DEF RejectUnlock
<1>4. creds' = creds \/ creds' = [creds EXCEPT ![q.u] = Failed(@, q.cred)]
  BY DEF RejectUnlock
<1>. HIDE DEF q
<1>5. stations' \in [Stations -> StationRows]
  BY <1>2, <1>3, InvFacts, RowWrites, StationWrite
<1>6. creds' \in [Users -> CredRows] /\ SamePins(creds, creds')
  <2>1. CASE creds' = creds
    BY <2>1, InvFacts, SameCreds
  <2>2. CASE creds' = [creds EXCEPT ![q.u] = Failed(@, q.cred)]
    <3>1. creds[q.u] \in CredRows
      BY <1>2, InvFacts
    <3>. QED
      BY <1>2, <2>2, <3>1, RowWrites, CredWrite
  <2>. QED
    BY <1>4, <2>1, <2>2
<1>7. RowTypes' /\ SessionsKept(sessions, sessions')
  BY <1>1, <1>5, <1>6, InvFacts, NoMove DEF RowTypes
<1>. QED
  BY <1>1, <1>6, <1>7, QuietDone

LEMMA GateInv ==
    ASSUME IInv, NEW r \in Requests, NEW op, NEW s \in DOMAIN sessions, NEW g \in 0..Len(grants), Gate(r, op, s, g)
    PROVE  IInv'
<1>1. /\ world' = world /\ now' = now /\ stations' = stations /\ users' = users /\ creds' = creds
      /\ pins' = pins /\ grants' = grants /\ uses' = uses /\ adm' = adm
      /\ op \in {"override", "reauth", "lock", "touch"} /\ g \in Nat /\ (op = "override" => g # 0)
  BY InvFacts DEF Gate, log
<1>2. ASSUME SessionsKept(sessions, sessions')
      PROVE  RowTypes' /\ SamePins(creds, creds')
  <2>1. sessions' \in Seq(SessionRows)
    BY <1>2 DEF SessionsKept
  <2>. QED
    BY <1>1, <2>1, InvFacts, SameCreds DEF RowTypes
<1>3. ASSUME NEW q, DOMAIN q = ReqFields, q.op \in UnderSession, q.g \in Nat, q.pin = 0,
             q.at = "admitted" \/ (q.at = "ready" /\ q.op = "refuse"), q.op = "override" => q.g # 0
      PROVE  ReqOK(Reading(q, s), sessions, creds)
  <2>. DEFINE p == Reading(q, s)
  <2>1. /\ DOMAIN p = ReqFields /\ p.op = q.op /\ p.at = q.at /\ p.g = q.g /\ p.pin = 0 /\ p.s = s
        /\ p.st = sessions[s].station /\ p.u = sessions[s].user
        /\ p.station \in EpochRows /\ p.cred = creds[sessions[s].user] /\ p.session = sessions[s]
    BY <1>3, ReadingFields
  <2>. HIDE DEF p
  <2>2. ReqOK(p, sessions, creds)
    BY <1>3, <2>1, KnownSession DEF ReqOK, UnderOK, UnderSession
  <2>. QED
    BY <2>2 DEF p
<1>4. CASE /\ sessions' = [sessions EXCEPT ![s].seen = now]
           /\ req' = [req EXCEPT ![r] = Reading([Idle EXCEPT !.op = op, !.at = "admitted", !.g = g], s)]
  <2>1. SessionsKept(sessions, sessions')
    BY <1>4, Seen
  <2>2. ReqOK(Reading([Idle EXCEPT !.op = op, !.at = "admitted", !.g = g], s), sessions, creds)
    <3>. DEFINE q == [Idle EXCEPT !.op = op, !.at = "admitted", !.g = g]
    <3>1. DOMAIN q = ReqFields /\ q.op = op /\ q.at = "admitted" /\ q.g = g /\ q.pin = 0
      BY IdleFields DEF ReqFields
    <3>. HIDE DEF q
    <3>2. ReqOK(Reading(q, s), sessions, creds)
      BY <1>1, <1>3, <3>1 DEF UnderSession
    <3>. QED
      BY <3>2 DEF q
  <2>. DEFINE v == Reading([Idle EXCEPT !.op = op, !.at = "admitted", !.g = g], s)
  <2>3. ReqOK(v, sessions, creds) /\ req' = [req EXCEPT ![r] = v]
    BY <1>4, <2>2
  <2>. HIDE DEF v
  <2>. QED
    BY <1>1, <1>2, <2>1, <2>3, QuietRequest
<1>5. CASE /\ UNCHANGED sessions
           /\ req' = [req EXCEPT ![r] = Reading([Idle EXCEPT !.op = "refuse", !.at = "ready"], s)]
  <2>1. SessionsKept(sessions, sessions')
    BY <1>5, InvFacts, NoMove
  <2>2. ReqOK(Reading([Idle EXCEPT !.op = "refuse", !.at = "ready"], s), sessions, creds)
    <3>. DEFINE q == [Idle EXCEPT !.op = "refuse", !.at = "ready"]
    <3>1. DOMAIN q = ReqFields /\ q.op = "refuse" /\ q.at = "ready" /\ q.g = 0 /\ q.pin = 0
      BY IdleFields DEF ReqFields
    <3>. HIDE DEF q
    <3>2. ReqOK(Reading(q, s), sessions, creds)
      BY <1>3, <3>1 DEF UnderSession
    <3>. QED
      BY <3>2 DEF q
  <2>. DEFINE v == Reading([Idle EXCEPT !.op = "refuse", !.at = "ready"], s)
  <2>3. ReqOK(v, sessions, creds) /\ req' = [req EXCEPT ![r] = v]
    BY <1>5, <2>2
  <2>. HIDE DEF v
  <2>. QED
    BY <1>1, <1>2, <2>1, <2>3, QuietRequest
<1>. QED
  BY <1>4, <1>5 DEF Gate

LEMMA DependInv ==
    ASSUME IInv, NEW r \in Requests, NEW pin \in 0..pins, Depend(r, pin)
    PROVE  IInv'
<1>. DEFINE q == req[r]
            p == Reading(q, q.s)
<1>1. q.at = "admitted" /\ UNCHANGED <<world, now, rows, log, adm>> /\ pin \in Nat
  BY InvFacts DEF Depend
<1>2. /\ q.op \in UnderSession /\ DOMAIN q = ReqFields /\ q.s \in DOMAIN sessions /\ q.g \in Nat
      /\ q.u = sessions[q.s].user /\ (q.op = "override" => q.g # 0) /\ q.pin \in Nat
  BY <1>1, UnderFacts
<1>3. /\ DOMAIN p = ReqFields /\ p.op = q.op /\ p.at = q.at /\ p.g = q.g /\ p.pin = q.pin /\ p.s = q.s
      /\ p.st = sessions[q.s].station /\ p.u = sessions[q.s].user
      /\ p.station \in EpochRows /\ p.cred = creds[sessions[q.s].user] /\ p.session = sessions[q.s]
  BY <1>2, ReadingFields
<1>4. /\ q.s \in 1..Len(sessions) /\ q.s \in Nat /\ sessions[q.s] \in SessionRows
      /\ creds[sessions[q.s].user] \in CredRows
  BY <1>2, KnownSession
<1>5. \/ InForce(q.s) /\ (q.op = "override" => pin = creds[q.u].pin)
         /\ req' = [req EXCEPT ![r] = [p EXCEPT !.at = "ready", !.pin = pin]]
      \/ req' = [req EXCEPT ![r] = [p EXCEPT !.op = "refuse", !.at = "ready"]]
      \/ Done(r)
  BY DEF Depend
<1>. HIDE DEF p, q
<1>6. CASE /\ InForce(q.s) /\ (q.op = "override" => pin = creds[q.u].pin)
           /\ req' = [req EXCEPT ![r] = [p EXCEPT !.at = "ready", !.pin = pin]]
  <2>1. creds[sessions[q.s].user].pin = sessions[q.s].pin
    BY <1>2, <1>6, OwnPin
  <2>. DEFINE v == [p EXCEPT !.at = "ready", !.pin = pin]
  <2>2. /\ DOMAIN v = ReqFields /\ v.op = q.op /\ v.at = "ready" /\ v.g = q.g /\ v.pin = pin /\ v.s = q.s
        /\ v.st = sessions[q.s].station /\ v.u = sessions[q.s].user
        /\ v.station \in EpochRows /\ v.cred = creds[sessions[q.s].user] /\ v.session = sessions[q.s]
    BY <1>3 DEF ReqFields
  <2>3. req' = [req EXCEPT ![r] = v]
    BY <1>6
  <2>. HIDE DEF v
  <2>4. ReqOK(v, sessions, creds)
    BY <1>1, <1>2, <1>4, <1>6, <2>1, <2>2 DEF ReqOK, UnderOK, UnderSession
  <2>. QED
    BY <1>1, <2>3, <2>4, RowsRest, QuietRequest
<1>7. CASE req' = [req EXCEPT ![r] = [p EXCEPT !.op = "refuse", !.at = "ready"]]
  <2>. DEFINE v == [p EXCEPT !.op = "refuse", !.at = "ready"]
  <2>2. /\ DOMAIN v = ReqFields /\ v.op = "refuse" /\ v.at = "ready" /\ v.g = q.g /\ v.pin = q.pin /\ v.s = q.s
        /\ v.st = sessions[q.s].station /\ v.u = sessions[q.s].user
        /\ v.station \in EpochRows /\ v.cred = creds[sessions[q.s].user] /\ v.session = sessions[q.s]
    BY <1>3 DEF ReqFields
  <2>3. req' = [req EXCEPT ![r] = v]
    BY <1>7
  <2>. HIDE DEF v
  <2>4. ReqOK(v, sessions, creds)
    BY <1>1, <1>2, <1>4, <2>2 DEF ReqOK, UnderOK, UnderSession
  <2>. QED
    BY <1>1, <2>3, <2>4, RowsRest, QuietRequest
<1>8. CASE Done(r)
  BY <1>1, <1>8, RowsRest, QuietDone
<1>. QED
  BY <1>5, <1>6, <1>7, <1>8

LEMMA ForgetInv ==
    ASSUME IInv, NEW r \in Requests, NEW s \in DOMAIN sessions, Forget(r, s)
    PROVE  IInv'
<1>. DEFINE q == [Idle EXCEPT !.op = "forget", !.at = "ready"]
            v == Reading(q, s)
<1>1. req' = [req EXCEPT ![r] = v] /\ UNCHANGED <<world, now, rows, log, adm>>
  BY DEF Forget
<1>2. DOMAIN q = ReqFields /\ q.op = "forget" /\ q.at = "ready" /\ q.g = 0 /\ q.pin = 0
  BY IdleFields DEF ReqFields
<1>. HIDE DEF q
<1>3. /\ DOMAIN v = ReqFields /\ v.op = "forget" /\ v.at = "ready" /\ v.g = 0 /\ v.pin = 0 /\ v.s = s
      /\ v.st = sessions[s].station /\ v.u = sessions[s].user
      /\ v.station \in EpochRows /\ v.cred = creds[sessions[s].user] /\ v.session = sessions[s]
  BY <1>2, ReadingFields
<1>. HIDE DEF v
<1>4. ReqOK(v, sessions, creds)
  BY <1>3, KnownSession DEF ReqOK, UnderOK, UnderSession
<1>. QED
  BY <1>1, <1>4, RowsRest, QuietRequest

LEMMA LockSessionInv ==
    ASSUME IInv, NEW r \in Requests, LockSession(r)
    PROVE  IInv'
<1>. DEFINE q == req[r]
<1>1. /\ q.at = "ready" /\ Done(r)
      /\ world' = world /\ now' = now /\ users' = users /\ creds' = creds /\ pins' = pins /\ grants' = grants
      /\ uses' = uses /\ adm' = adm
      /\ (LockSessions({q.s}) /\ stations' = Advanced({q.s}, q.station)) \/ (sessions' = sessions /\ stations' = stations)
  BY DEF LockSession, log
<1>2. q.station \in EpochRows
  BY <1>1, UnderFacts
<1>. HIDE DEF q
<1>3. SessionsKept(sessions, sessions')
  BY <1>1, InvFacts, LockMove, NoMove
<1>4. stations' \in [Stations -> StationRows]
  BY <1>1, <1>2, InvFacts, AdvancedType
<1>5. sessions' \in Seq(SessionRows)
  BY <1>3 DEF SessionsKept
<1>6. RowTypes' /\ SamePins(creds, creds')
  BY <1>1, <1>4, <1>5, InvFacts, SameCreds DEF RowTypes
<1>. QED
  BY <1>1, <1>3, <1>6, QuietDone

LEMMA TouchInv ==
    ASSUME IInv, NEW r \in Requests, Touch(r)
    PROVE  IInv'
<1>1. /\ req[r].at = "ready" /\ Done(r)
      /\ world' = world /\ now' = now /\ stations' = stations /\ users' = users /\ creds' = creds /\ pins' = pins
      /\ grants' = grants /\ uses' = uses /\ adm' = adm
      /\ sessions' = [sessions EXCEPT ![req[r].s].seen = now] \/ sessions' = sessions
  BY DEF Touch, log
<1>2. req[r].s \in DOMAIN sessions
  BY <1>1, UnderFacts
<1>3. SessionsKept(sessions, sessions')
  BY <1>1, <1>2, InvFacts, Seen, NoMove
<1>4. sessions' \in Seq(SessionRows)
  BY <1>3 DEF SessionsKept
<1>5. RowTypes' /\ SamePins(creds, creds')
  BY <1>1, <1>4, InvFacts, SameCreds DEF RowTypes
<1>. QED
  BY <1>1, <1>3, <1>5, QuietDone

LEMMA RejectInv ==
    ASSUME IInv, NEW r \in Requests, Reject(r)
    PROVE  IInv'
<1>. DEFINE q == req[r]
<1>1. /\ q.at = "ready" /\ Done(r)
      /\ world' = world /\ now' = now /\ users' = users /\ sessions' = sessions /\ pins' = pins /\ grants' = grants
      /\ uses' = uses /\ adm' = adm
  BY DEF Reject, CanReauth, log
<1>2. q.st \in Stations /\ q.u \in Users /\ q.cred.failed \in Nat
  BY <1>1, UnderFacts
<1>3. \/ stations' = stations /\ creds' = creds
      \/ stations' = [stations EXCEPT ![q.st] = Failed(@, @)] /\ creds' = [creds EXCEPT ![q.u] = Failed(@, q.cred)]
  BY DEF Reject
<1>. HIDE DEF q
<1>4. stations[q.st] \in StationRows /\ creds[q.u] \in CredRows
  BY <1>2, InvFacts
<1>5. stations[q.st].failed \in Nat
  BY <1>4 DEF StationRows
<1>6. stations' \in [Stations -> StationRows]
  BY <1>2, <1>3, <1>4, <1>5, InvFacts, RowWrites, StationWrite
<1>7. creds' \in [Users -> CredRows] /\ SamePins(creds, creds')
  BY <1>2, <1>3, <1>4, InvFacts, SameCreds, RowWrites, CredWrite
<1>8. RowTypes' /\ SessionsKept(sessions, sessions')
  BY <1>1, <1>6, <1>7, InvFacts, NoMove DEF RowTypes
<1>. QED
  BY <1>1, <1>7, <1>8, QuietDone

-----------------------------------------------------------------------------
(* The administrator and the clock.                                         *)

LEMMA AdmFacts ==
    ASSUME IInv, adm.op # "none"
    PROVE  /\ adm.st \in Stations /\ adm.u \in Users /\ adm.epochs \in EpochRows /\ adm.cred \in CredRows
           /\ adm.cred.pin = creds[adm.u].pin /\ adm.cred.version = creds[adm.u].version
           /\ adm.cred.version \in Nat /\ adm.found \subseteq 1..Len(sessions)
           /\ adm.op \in {"setPin", "revokePin"} /\ adm.cred.pin = 0
                => \A s \in 1..Len(sessions) : sessions[s].state = "open" /\ sessions[s].user = adm.u => s \in adm.found
<1>1. AdmOK(adm, sessions, creds)
  BY InvFacts
<1>2. adm.cred \in CredRows
  BY <1>1 DEF AdmOK
<1>3. adm.cred.version \in Nat
  BY <1>2 DEF CredRows
<1>. QED
  BY <1>1, <1>3 DEF AdmOK

LEMMA RestingOK ==
    ASSUME NEW ss, NEW cs
    PROVE  AdmOK(Resting, ss, cs)
  BY DEF Resting, AdmOK

\* The administrator writes what no PIN depends on.
LEMMA QuietAdm ==
    ASSUME IInv, RowTypes', SessionsKept(sessions, sessions'), SamePins(creds, creds'),
           grants' = grants, uses' = uses, req' = req, adm' = adm \/ AdmOK(adm', sessions, creds)
    PROVE  IInv'
<1>1. adm' = adm \/ AdmOK(adm', sessions', creds')
  BY KeptOwners, AdmStays DEF SessionsKept
<1>2. DOMAIN req' = Requests /\ \A r \in Requests : req'[r] = req[r]
  BY InvFacts
<1>. QED
  BY <1>1, <1>2, QuietStep

LEMMA BeginInv ==
    ASSUME IInv, NEW op, NEW st \in Stations, NEW u \in Users, Begin(op, st, u)
    PROVE  IInv'
<1>1. UNCHANGED <<world, now, rows, log, req>> /\ op \in Changes \ {"register"}
  BY DEF Begin
<1>. DEFINE f == Found(op, st, u)
            h == Epochs
            a == [op |-> op, st |-> st, u |-> u, found |-> f, epochs |-> h, cred |-> creds[u]]
<1>2. adm' = a
  BY DEF Begin
<1>3. f \subseteq 1..Len(sessions) /\ h \in EpochRows /\ creds[u] \in CredRows
  BY InvFacts, EpochsType DEF Found
<1>4. op \in {"setPin", "revokePin"}
        => \A s \in 1..Len(sessions) : sessions[s].state = "open" /\ sessions[s].user = u => s \in f
  BY InvFacts DEF Found
<1>. HIDE DEF f, h
<1>5. AdmOK(a, sessions, creds)
  BY <1>1, <1>3, <1>4 DEF AdmOK
<1>. QED
  BY <1>1, <1>2, <1>5, RowsRest, QuietAdm

LEMMA RegisterInv ==
    ASSUME IInv, NEW st \in Stations, Register(st)
    PROVE  IInv'
<1>1. [state |-> "active", epoch |-> 0, failed |-> 0, until |-> 0] \in StationRows
  BY DEF StationRows
<1>2. /\ world' = world /\ now' = now /\ users' = users /\ creds' = creds /\ sessions' = sessions /\ pins' = pins
      /\ grants' = grants /\ uses' = uses /\ req' = req /\ adm' = adm
      /\ stations' \in [Stations -> StationRows]
  BY <1>1, InvFacts DEF Register, log
<1>3. RowTypes' /\ SessionsKept(sessions, sessions') /\ SamePins(creds, creds')
  BY <1>2, InvFacts, NoMove, SameCreds DEF RowTypes
<1>. QED
  BY <1>2, <1>3, QuietAdm

LEMMA ChangeUserInv ==
    ASSUME IInv, NEW rights \in Rights, ChangeUser(rights)
    PROVE  IInv'
<1>1. /\ adm.op # "none" /\ adm' = Resting
      /\ world' = world /\ now' = now /\ creds' = creds /\ pins' = pins /\ grants' = grants /\ uses' = uses /\ req' = req
      /\ LockSessions(adm.found) /\ stations' = Advanced(adm.found, adm.epochs)
      /\ users' = [users EXCEPT ![adm.u] = rights]
  BY DEF ChangeUser, Finish, Revoke, log
<1>2. SessionsKept(sessions, sessions') /\ SamePins(creds, creds') /\ AdmOK(adm', sessions, creds)
  BY <1>1, LockMove, SameCreds, RestingOK
<1>3. sessions' \in Seq(SessionRows)
  BY <1>2 DEF SessionsKept
<1>4. stations' \in [Stations -> StationRows]
  BY <1>1, AdmFacts, AdvancedType
<1>5. users' \in [Users -> Rights \cup {Gone}]
  BY <1>1, InvFacts
<1>6. RowTypes'
  BY <1>1, <1>3, <1>4, <1>5, InvFacts DEF RowTypes
<1>. QED
  BY <1>1, <1>2, <1>6, QuietAdm

LEMMA RevokeStationInv ==
    ASSUME IInv, RevokeStation
    PROVE  IInv'
<1>1. /\ adm.op # "none" /\ adm' = Resting
      /\ world' = world /\ now' = now /\ creds' = creds /\ users' = users /\ pins' = pins /\ grants' = grants
      /\ uses' = uses /\ req' = req
      /\ LockSessions(adm.found) /\ stations' = [Advanced(adm.found, adm.epochs) EXCEPT ![adm.st].state = "off"]
  BY DEF RevokeStation, Finish, log
<1>2. SessionsKept(sessions, sessions') /\ SamePins(creds, creds') /\ AdmOK(adm', sessions, creds)
  BY <1>1, LockMove, SameCreds, RestingOK
<1>3. sessions' \in Seq(SessionRows)
  BY <1>2 DEF SessionsKept
<1>4. stations' \in [Stations -> StationRows]
  <2>. DEFINE A == Advanced(adm.found, adm.epochs)
  <2>1. A \in [Stations -> StationRows] /\ adm.st \in Stations
    BY <1>1, AdmFacts, AdvancedType
  <2>2. stations' = [A EXCEPT ![adm.st].state = "off"]
    BY <1>1
  <2>. HIDE DEF A
  <2>3. [A[adm.st] EXCEPT !.state = "off"] \in StationRows
    BY <2>1 DEF StationRows
  <2>. QED
    BY <2>1, <2>2, <2>3
<1>5. RowTypes'
  BY <1>1, <1>3, <1>4, InvFacts DEF RowTypes
<1>. QED
  BY <1>1, <1>2, <1>5, QuietAdm

LEMMA TickInv ==
    ASSUME IInv, Tick
    PROVE  IInv'
<1>1. /\ world' = world /\ stations' = stations /\ users' = users /\ creds' = creds /\ sessions' = sessions
      /\ pins' = pins /\ grants' = grants /\ uses' = uses /\ req' = req /\ adm' = adm /\ now' \in Nat
  BY InvFacts DEF Tick, rows, log
<1>2. RowTypes' /\ SessionsKept(sessions, sessions') /\ SamePins(creds, creds')
  BY <1>1, InvFacts, NoMove, SameCreds DEF RowTypes
<1>. QED
  BY <1>1, <1>2, QuietAdm

\* A PIN is given or taken away: nobody who saw the old one is left where the new one is of no higher version.
LEMMA PinChange ==
    ASSUME IInv, RowTypes', SessionsKept(sessions, sessions'), grants' = grants, uses' = uses, req' = req,
           adm' = Resting, NEW u \in Users, NEW c \in CredRows, creds' = [creds EXCEPT ![u] = c],
           \/ c.pin = 0
           \/ creds[u].pin # 0 /\ c.version > creds[u].version
           \/ /\ ~UserHeld(u)
              /\ \A s \in 1..Len(sessions) : sessions'[s].state = "open" => sessions'[s].user # u
    PROVE  IInv'
<1>1. OwnersKept(sessions, sessions') /\ Len(sessions') = Len(sessions)
  BY KeptOwners DEF SessionsKept
<1>2. creds'[u] = c /\ (\A v \in Users : v # u => creds'[v] = creds[v])
      /\ c.version \in Nat /\ creds[u].version \in Nat
  <2>1. c \in CredRows /\ creds[u] \in CredRows
    BY InvFacts
  <2>2. c.version \in Nat /\ creds[u].version \in Nat
    BY <2>1 DEF CredRows
  <2>. QED
    BY <2>2, InvFacts
<1>3. ASSUME NEW pin, NEW version \in Nat, NEW v \in Users, Behind(pin, version, creds[v]),
             v = u => c.pin = 0 \/ (creds[u].pin # 0 /\ c.version > creds[u].version)
      PROVE  Behind(pin, version, creds'[v])
  BY <1>2, <1>3 DEF Behind
<1>4. ASSUME NEW s \in 1..Len(sessions'), sessions'[s].state = "open"
      PROVE  Behind(sessions'[s].pin, sessions'[s].version, creds'[sessions'[s].user])
  <2>1. s \in 1..Len(sessions) /\ SameSession(sessions[s], sessions'[s]) /\ SessionOK(s, sessions, creds, grants, uses)
        /\ sessions[s] \in SessionRows
    BY <1>1, InvFacts DEF SessionsKept, SessionsOK
  <2>2. sessions[s].user \in Users /\ sessions[s].version \in Nat
    BY <2>1 DEF SessionRows
  <2>3. /\ sessions'[s].pin = sessions[s].pin /\ sessions'[s].version = sessions[s].version
        /\ sessions'[s].user = sessions[s].user /\ sessions[s].state = "open"
    BY <1>4, <2>1 DEF SameSession, SameOwner
  <2>4. Behind(sessions[s].pin, sessions[s].version, creds[sessions[s].user])
    BY <2>1, <2>3 DEF SessionOK
  <2>5. sessions[s].user = u => c.pin = 0 \/ (creds[u].pin # 0 /\ c.version > creds[u].version)
    BY <1>4, <2>1, <2>3
  <2>6. Behind(sessions[s].pin, sessions[s].version, creds'[sessions[s].user])
    BY <1>3, <2>2, <2>4, <2>5
  <2>. QED
    BY <2>3, <2>6
<1>5. SessionsOK(sessions', creds', grants, uses)
  BY <1>4, InvFacts, SessionsBehind
<1>6. ASSUME NEW r \in Requests
      PROVE  ReqOK(req[r], sessions', creds')
  <2>1. ReqOK(req[r], sessions, creds)
    BY InvFacts
  <2>2. ASSUME req[r].op = "unlock", req[r].at = "held", req[r].cred.pin # 0
        PROVE  Behind(req[r].cred.pin, req[r].cred.version, creds'[req[r].u])
    <3>1. /\ req[r].u \in Users /\ req[r].cred \in CredRows
          /\ Behind(req[r].cred.pin, req[r].cred.version, creds[req[r].u])
      BY <2>2, UnlockFacts
    <3>2. req[r].cred.version \in Nat
      BY <3>1 DEF CredRows
    <3>3. req[r].u = u => c.pin = 0 \/ (creds[u].pin # 0 /\ c.version > creds[u].version)
      BY <2>2 DEF UserHeld
    <3>. QED
      BY <1>3, <3>1, <3>2, <3>3
  <2>. QED
    BY <1>1, <2>1, <2>2, RequestBehind
<1>7. GrantsOK(grants, sessions') /\ UsesOK(uses, grants, sessions')
  BY <1>1, InvFacts, LogStays
<1>8. AdmOK(adm', sessions', creds')
  BY RestingOK
<1>9. DOMAIN req' = Requests
  BY InvFacts
<1>. QED
  BY <1>5, <1>6, <1>7, <1>8, <1>9 DEF IInv

LEMMA SetPinInv ==
    ASSUME IInv, SetPin
    PROVE  IInv'
<1>. DEFINE c == [pin |-> pins + 1, version |-> adm.cred.version + 1, failed |-> 0, until |-> 0]
<1>1. /\ adm.op = "setPin" /\ adm' = Resting /\ Free
      /\ world' = world /\ now' = now /\ users' = users /\ grants' = grants /\ uses' = uses /\ req' = req
      /\ LockSessions(adm.found) /\ stations' = Advanced(adm.found, adm.epochs)
      /\ creds' = [creds EXCEPT ![adm.u] = c] /\ pins' = pins + 1
  BY DEF SetPin, Finish, Revoke
<1>2. /\ adm.u \in Users /\ adm.epochs \in EpochRows /\ adm.cred.version = creds[adm.u].version
      /\ adm.cred.version \in Nat /\ adm.cred.pin = creds[adm.u].pin
      /\ adm.cred.pin = 0
           => \A s \in 1..Len(sessions) : sessions[s].state = "open" /\ sessions[s].user = adm.u => s \in adm.found
  BY <1>1, AdmFacts
<1>3. c \in CredRows /\ c.version > creds[adm.u].version
  BY <1>2, InvFacts, SMTT(30) DEF CredRows
<1>4. SessionsKept(sessions, sessions')
      /\ \A s \in adm.found : s \in 1..Len(sessions) => sessions'[s].state # "open"
  BY <1>1, LockMove
<1>. HIDE DEF c
<1>5. RowTypes'
  <2>1. sessions' \in Seq(SessionRows)
    BY <1>4 DEF SessionsKept
  <2>2. stations' \in [Stations -> StationRows]
    BY <1>1, <1>2, AdvancedType
  <2>3. creds' \in [Users -> CredRows]
    <3>1. creds \in [Users -> CredRows] /\ c \in CredRows /\ creds' = [creds EXCEPT ![adm.u] = c]
      BY <1>1, <1>3, InvFacts
    <3>. QED
      BY <3>1
  <2>4. pins' \in Nat
    BY <1>1, InvFacts
  <2>. QED
    BY <1>1, <2>1, <2>2, <2>3, <2>4, InvFacts DEF RowTypes
<1>6. ASSUME creds[adm.u].pin = 0
      PROVE  /\ ~UserHeld(adm.u)
             /\ \A s \in 1..Len(sessions) : sessions'[s].state = "open" => sessions'[s].user # adm.u
  <2>1. ~UserHeld(adm.u)
    BY <1>1, <1>2, <1>6 DEF Free
  <2>2. ASSUME NEW s \in 1..Len(sessions), sessions'[s].state = "open"
        PROVE  sessions'[s].user # adm.u
    <3>1. sessions[s].state = "open" /\ sessions'[s].user = sessions[s].user
      BY <1>4, <2>2 DEF SessionsKept, SameSession, SameOwner
    <3>. QED
      BY <1>2, <1>4, <1>6, <2>2, <3>1
  <2>. QED
    BY <2>1, <2>2
<1>. QED
  BY <1>1, <1>2, <1>3, <1>4, <1>5, <1>6, PinChange

LEMMA NoCredRow == NoCred \in CredRows /\ NoCred.pin = 0
  BY DEF NoCred, CredRows

LEMMA RevokePinInv ==
    ASSUME IInv, RevokePin
    PROVE  IInv'
<1>1. /\ adm.op # "none" /\ adm' = Resting
      /\ world' = world /\ now' = now /\ users' = users /\ pins' = pins /\ grants' = grants /\ uses' = uses /\ req' = req
      /\ LockSessions(adm.found) /\ stations' = Advanced(adm.found, adm.epochs)
      /\ creds' = [creds EXCEPT ![adm.u] = NoCred]
  BY DEF RevokePin, Finish, Revoke, log
<1>2. adm.u \in Users /\ adm.epochs \in EpochRows
  BY <1>1, AdmFacts
<1>3. SessionsKept(sessions, sessions')
  BY <1>1, LockMove
<1>4. RowTypes'
  <2>1. sessions' \in Seq(SessionRows)
    BY <1>3 DEF SessionsKept
  <2>2. stations' \in [Stations -> StationRows]
    BY <1>1, <1>2, AdvancedType
  <2>3. creds' \in [Users -> CredRows]
    BY <1>1, NoCredRow, InvFacts
  <2>. QED
    BY <1>1, <2>1, <2>2, <2>3, InvFacts DEF RowTypes
<1>. QED
  BY <1>1, <1>2, <1>3, <1>4, NoCredRow, PinChange

LEMMA DeleteUserInv ==
    ASSUME IInv, DeleteUser
    PROVE  IInv'
<1>1. /\ adm.op # "none" /\ adm' = Resting
      /\ world' = world /\ now' = now /\ stations' = stations /\ pins' = pins /\ grants' = grants /\ uses' = uses
      /\ req' = req
      /\ users' = [users EXCEPT ![adm.u] = Gone] /\ creds' = [creds EXCEPT ![adm.u] = NoCred]
      /\ sessions' = [s \in 1..Len(sessions) |->
            IF sessions[s].user = adm.u THEN [Locked(sessions[s]) EXCEPT !.state = "gone"] ELSE sessions[s]]
  BY InvFacts DEF DeleteUser, Finish, log
<1>2. adm.u \in Users
  BY <1>1, AdmFacts
<1>3. SessionsKept(sessions, sessions')
  <2>1. ASSUME NEW e \in SessionRows
        PROVE  /\ [Locked(e) EXCEPT !.state = "gone"] \in SessionRows
               /\ SameSession(e, [Locked(e) EXCEPT !.state = "gone"]) /\ SameSession(e, e)
    BY DEF Locked, SessionRows, SameSession, SameOwner
  <2>2. \A s \in 1..Len(sessions) : sessions'[s] \in SessionRows /\ SameSession(sessions[s], sessions'[s])
    BY <1>1, <2>1, InvFacts
  <2>3. sessions' \in [1..Len(sessions) -> SessionRows]
    BY <1>1, <2>2
  <2>4. sessions' \in Seq(SessionRows) /\ Len(sessions') = Len(sessions)
    BY <2>3, InvFacts, FunctionsAreSequences
  <2>. QED
    BY <2>2, <2>4 DEF SessionsKept
<1>4. RowTypes'
  <2>1. sessions' \in Seq(SessionRows)
    BY <1>3 DEF SessionsKept
  <2>2. users' \in [Users -> Rights \cup {Gone}]
    BY <1>1, InvFacts
  <2>3. creds' \in [Users -> CredRows]
    BY <1>1, NoCredRow, InvFacts
  <2>. QED
    BY <1>1, <2>1, <2>2, <2>3, InvFacts DEF RowTypes
<1>. QED
  BY <1>1, <1>2, <1>3, <1>4, NoCredRow, PinChange

-----------------------------------------------------------------------------
(* A session is opened, confirmed and used.                                 *)

\* The rows after an unlock: the sessions of the station are locked, the new one is its newest.
LEMMA AppendedSession ==
    ASSUME NEW ss \in Seq(SessionRows), NEW e \in SessionRows, NEW cs, NEW gs, NEW us,
           SessionsOK(ss, cs, gs, us), e.grant = 0, Behind(e.pin, e.version, cs[e.user]),
           \A s \in 1..Len(ss) : ss[s].state = "open" => ss[s].station # e.station
    PROVE  /\ SessionsOK(Append(ss, e), cs, gs, us) /\ OwnersKept(ss, Append(ss, e))
           /\ Append(ss, e) \in Seq(SessionRows) /\ Len(Append(ss, e)) = Len(ss) + 1
           /\ Append(ss, e)[Len(ss) + 1] = e /\ \A s \in 1..Len(ss) : Append(ss, e)[s] = ss[s]
<1>. DEFINE tt == Append(ss, e)
<1>1. /\ tt \in Seq(SessionRows) /\ Len(ss) \in Nat /\ Len(tt) = Len(ss) + 1
      /\ tt[Len(ss) + 1] = e /\ \A s \in 1..Len(ss) : tt[s] = ss[s]
  OBVIOUS
<1>. HIDE DEF tt
<1>2. OwnersKept(ss, tt)
  BY <1>1 DEF OwnersKept, SameOwner
<1>3. ASSUME NEW s \in 1..Len(tt)
      PROVE  SessionOK(s, tt, cs, gs, us)
  <2>1. CASE s = Len(ss) + 1
    BY <1>1, <2>1 DEF SessionOK
  <2>2. CASE s \in 1..Len(ss)
    <3>1. SessionOK(s, ss, cs, gs, us) /\ tt[s] = ss[s]
      BY <1>1, <2>2 DEF SessionsOK
    <3>2. ASSUME tt[s].state = "open", NEW t \in 1..Len(tt), t > s
          PROVE  tt[t].station # tt[s].station
      <4>1. CASE t = Len(ss) + 1
        BY <1>1, <2>2, <3>1, <3>2, <4>1
      <4>2. CASE t \in 1..Len(ss)
        BY <1>1, <3>1, <3>2, <4>2 DEF SessionOK
      <4>. QED
        BY <1>1, <4>1, <4>2
    <3>. QED
      BY <3>1, <3>2 DEF SessionOK
  <2>. QED
    BY <1>1, <2>1, <2>2
<1>4. SessionsOK(tt, cs, gs, us)
  BY <1>3 DEF SessionsOK
<1>. QED
  BY <1>1, <1>2, <1>4 DEF tt

LEMMA OwnersChain ==
    ASSUME NEW a, NEW b, NEW c, OwnersKept(a, b), OwnersKept(b, c)
    PROVE  OwnersKept(a, c)
  BY DEF OwnersKept, SameOwner

LEMMA CreateSessionInv ==
    ASSUME IInv, NEW r \in Requests, CreateSession(r)
    PROVE  IInv'
<1>. DEFINE q == req[r]
            mid == [s \in DOMAIN sessions |->
                      IF s \in Unlocked(q.st) THEN Locked(sessions[s]) ELSE sessions[s]]
            e == [state |-> "open", station |-> q.st, user |-> q.u, epoch |-> q.station.epoch + 1,
                  version |-> q.cred.version, rights |-> Host, pin |-> q.pin,
                  ends |-> now + SessionTicks, seen |-> now, grant |-> 0, grantEnds |-> 0]
            x == [Wiped(stations[q.st], q.station) EXCEPT !.epoch = q.station.epoch + 1]
            d == Wiped(creds[q.u], q.cred)
<1>1. /\ q.op = "unlock" /\ q.at = "held" /\ q.cred.pin # 0 /\ q.cred.pin = q.pin /\ creds[q.u].pin # 0
      /\ world' = world /\ now' = now /\ users' = users /\ pins' = pins /\ grants' = grants /\ uses' = uses
      /\ adm' = adm /\ req' = [req EXCEPT ![r] = Idle]
      /\ stations' = [stations EXCEPT ![q.st] = x] /\ creds' = [creds EXCEPT ![q.u] = d]
      /\ sessions' = Append(mid, e)
  BY DEF CreateSession, PinFits, HasPin, Done, log
<1>2. /\ q.st \in Stations /\ q.u \in Users /\ q.pin \in Nat /\ q.station \in StationRows /\ q.station.failed \in Nat
      /\ q.station.epoch \in Nat /\ q.cred \in CredRows /\ q.cred.failed \in Nat
      /\ Behind(q.cred.pin, q.cred.version, creds[q.u])
  BY <1>1, UnlockFacts
<1>3. q.cred.version \in Nat
  BY <1>2 DEF CredRows
<1>4. /\ mid \in Seq(SessionRows) /\ SessionsKept(sessions, mid)
      /\ \A s \in 1..Len(mid) : mid[s].state = "open" => mid[s].station # q.st
  <2>1. ASSUME NEW s \in 1..Len(sessions)
        PROVE  /\ mid[s] \in SessionRows /\ SameSession(sessions[s], mid[s])
               /\ mid[s].state = "open" => mid[s].station # q.st
    <3>1. sessions[s] \in SessionRows /\ s \in DOMAIN sessions
      BY InvFacts
    <3>2. CASE s \in Unlocked(q.st)
      <4>1. mid[s] = Locked(sessions[s])
        BY <3>1, <3>2
      <4>. HIDE DEF mid, q
      <4>. QED
        BY <3>1, <4>1, LockedRow
    <3>3. CASE s \notin Unlocked(q.st)
      <4>1. mid[s] = sessions[s]
        BY <3>1, <3>3
      <4>2. sessions[s].state = "open" => sessions[s].station # q.st
        BY <3>1, <3>3 DEF Unlocked
      <4>. HIDE DEF mid, q
      <4>. QED
        BY <3>1, <4>1, <4>2 DEF SameSession, SameOwner
    <3>. QED
      BY <3>2, <3>3
  <2>2. DOMAIN mid = 1..Len(sessions) /\ mid = [s \in 1..Len(sessions) |-> mid[s]]
    BY InvFacts
  <2>. HIDE DEF mid, q
  <2>3. mid \in [1..Len(sessions) -> SessionRows]
    BY <2>1, <2>2
  <2>4. mid \in Seq(SessionRows) /\ Len(mid) = Len(sessions)
    BY <2>3, InvFacts, FunctionsAreSequences
  <2>. QED
    BY <2>1, <2>4 DEF SessionsKept
<1>5. /\ e \in SessionRows /\ e.station = q.st /\ e.user = q.u /\ e.version = q.cred.version /\ e.pin = q.cred.pin
      /\ e.grant = 0
  <2>1. now \in Nat /\ now + SessionTicks \in Nat /\ q.station.epoch + 1 \in Nat
    BY <1>2, InvFacts, WorldFacts, SMTT(30)
  <2>. QED
    BY <1>1, <1>2, <1>3, <2>1 DEF SessionRows
<1>6. x \in StationRows
  <2>1. stations[q.st] \in StationRows
    BY <1>2, InvFacts
  <2>2. Wiped(stations[q.st], q.station) \in StationRows
    BY <1>2, <2>1, RowWrites
  <2>. DEFINE w == Wiped(stations[q.st], q.station)
              n == q.station.epoch + 1
  <2>3. w \in StationRows /\ n \in Nat /\ x = [w EXCEPT !.epoch = n]
    BY <1>2, <2>2
  <2>. HIDE DEF w, n, x
  <2>. QED
    BY <2>3 DEF StationRows
<1>7. d \in CredRows /\ d.pin = creds[q.u].pin /\ d.version = creds[q.u].version
  <2>1. creds[q.u] \in CredRows
    BY <1>2, InvFacts
  <2>. QED
    BY <1>2, <2>1, RowWrites
<1>. HIDE DEF q, mid, e, x, d
<1>8. stations' \in [Stations -> StationRows] /\ creds' \in [Users -> CredRows] /\ SamePins(creds, creds')
  BY <1>1, <1>2, <1>6, <1>7, StationWrite, CredWrite
<1>9. creds'[q.u].pin = creds[q.u].pin /\ creds'[q.u].version = creds[q.u].version
  BY <1>2, <1>8 DEF SamePins
<1>10. SessionsOK(mid, creds', grants, uses) /\ OwnersKept(sessions, mid) /\ Len(mid) = Len(sessions)
  BY <1>4, <1>8, InvFacts, SessionsStay, KeptOwners DEF SessionsKept
<1>11. Behind(e.pin, e.version, creds'[e.user])
  BY <1>2, <1>5, <1>9 DEF Behind
<1>12. /\ SessionsOK(sessions', creds', grants, uses) /\ OwnersKept(mid, sessions') /\ sessions' \in Seq(SessionRows)
       /\ Len(sessions') = Len(mid) + 1 /\ sessions'[Len(mid) + 1] = e /\ \A s \in 1..Len(mid) : sessions'[s] = mid[s]
  <2>1. /\ mid \in Seq(SessionRows) /\ e \in SessionRows /\ e.grant = 0 /\ sessions' = Append(mid, e)
        /\ \A s \in 1..Len(mid) : mid[s].state = "open" => mid[s].station # e.station
    BY <1>1, <1>4, <1>5
  <2>2. /\ SessionsOK(Append(mid, e), creds', grants, uses) /\ OwnersKept(mid, Append(mid, e))
        /\ Append(mid, e) \in Seq(SessionRows) /\ Len(Append(mid, e)) = Len(mid) + 1
        /\ Append(mid, e)[Len(mid) + 1] = e /\ \A s \in 1..Len(mid) : Append(mid, e)[s] = mid[s]
    BY <1>10, <1>11, <2>1, AppendedSession
  <2>. QED
    BY <2>1, <2>2
<1>13. OwnersKept(sessions, sessions')
  BY <1>10, <1>12, OwnersChain
<1>14. RowTypes'
  BY <1>1, <1>8, <1>12, InvFacts DEF RowTypes
<1>15. GrantsOK(grants, sessions') /\ UsesOK(uses, grants, sessions')
  BY <1>13, InvFacts, LogStays
<1>16. \A t \in Requests : ReqOK(req'[t], sessions', creds')
  <2>1. \A t \in Requests : req'[t] = req[t] \/ req'[t] = Idle
    BY <1>1, InvFacts
  <2>. QED
    BY <1>8, <1>13, <2>1, InvFacts, IdleOK, RequestStays
<1>17. AdmOK(adm', sessions', creds')
  <2>1. AdmOK(adm, mid, creds)
    BY <1>10, InvFacts, SameCreds, AdmStays
  <2>2. ASSUME adm.op # "none", adm.cred.pin = 0
        PROVE  e.user # adm.u
    BY <1>1, <1>5, <2>2, AdmFacts
  <2>3. Len(mid) \in Nat
    BY <1>10, InvFacts
  <2>4. ASSUME adm.op # "none"
        PROVE  adm.cred.pin = creds'[adm.u].pin /\ adm.cred.version = creds'[adm.u].version
    BY <1>8, <2>4, AdmFacts DEF SamePins
  <2>5. 1..Len(mid) \subseteq 1..Len(sessions')
        /\ \A s \in 1..Len(sessions') : s = Len(mid) + 1 \/ (s \in 1..Len(mid) /\ sessions'[s] = mid[s])
    BY <1>12, <2>3
  <2>. QED
    BY <1>1, <1>12, <2>1, <2>2, <2>4, <2>5 DEF AdmOK
<1>18. DOMAIN req' = Requests
  BY <1>1, InvFacts
<1>. QED
  BY <1>1, <1>12, <1>14, <1>15, <1>16, <1>17, <1>18 DEF IInv

\* A confirmation is the newest row of the log: nobody has spent it.
LEMMA IssueGrantInv ==
    ASSUME IInv, NEW r \in Requests, IssueGrant(r)
    PROVE  IInv'
<1>. DEFINE q == req[r]
            n == Len(grants) + 1
            w == [session |-> q.s, pin |-> q.pin, ends |-> now + GrantTicks]
            e == [sessions[q.s] EXCEPT !.grant = n, !.grantEnds = now + GrantTicks]
            x == Wiped(stations[q.st], stations[q.st])
            d == Wiped(creds[q.u], q.cred)
<1>1. /\ q.at = "ready" /\ q.op = "reauth" /\ q.pin = q.cred.pin /\ Done(r)
      /\ world' = world /\ now' = now /\ users' = users /\ pins' = pins /\ uses' = uses /\ adm' = adm
      /\ grants' = Append(grants, w) /\ sessions' = [sessions EXCEPT ![q.s] = e]
      /\ stations' = [stations EXCEPT ![q.st] = x] /\ creds' = [creds EXCEPT ![q.u] = d]
  BY DEF IssueGrant, CanReauth
<1>2. /\ q.s \in DOMAIN sessions /\ q.st \in Stations /\ q.u \in Users /\ q.cred.failed \in Nat /\ q.pin \in Nat
      /\ q.cred.pin = sessions[q.s].pin
  BY <1>1, UnderFacts
<1>3. /\ q.s \in 1..Len(sessions) /\ q.s \in Nat /\ sessions[q.s] \in SessionRows /\ Len(grants) \in Nat /\ n \in Nat
      /\ now + GrantTicks \in Nat
  BY <1>2, KnownSession, InvFacts, WorldFacts, SMTT(30)
<1>4. w \in GrantRows /\ w.session = q.s /\ w.pin = sessions[q.s].pin /\ w.ends = now + GrantTicks
  BY <1>1, <1>2, <1>3 DEF GrantRows
<1>5. e \in SessionRows /\ SameOwner(sessions[q.s], e) /\ e.grant = n /\ e.grantEnds = w.ends /\ n # 0
  <2>. DEFINE o == sessions[q.s]
              k == now + GrantTicks
  <2>1. o \in SessionRows /\ n \in Nat /\ k \in Nat /\ e = [o EXCEPT !.grant = n, !.grantEnds = k] /\ n # 0
    BY <1>3
  <2>2. w.ends = k
    OBVIOUS
  <2>. HIDE DEF e, n, o, k, w
  <2>3. e \in SessionRows /\ SameOwner(o, e) /\ e.grant = n /\ e.grantEnds = k
    BY <2>1 DEF SessionRows, SameOwner
  <2>. QED
    BY <2>1, <2>2, <2>3 DEF o
<1>6. x \in StationRows
  <2>1. stations[q.st] \in StationRows
    BY <1>2, InvFacts
  <2>2. stations[q.st].failed \in Nat
    BY <2>1 DEF StationRows
  <2>. QED
    BY <2>1, <2>2, RowWrites
<1>7. d \in CredRows /\ d.pin = creds[q.u].pin /\ d.version = creds[q.u].version
  <2>1. creds[q.u] \in CredRows
    BY <1>2, InvFacts
  <2>. QED
    BY <1>2, <2>1, RowWrites
<1>8. n = Len(grants) + 1
  OBVIOUS
<1>. HIDE DEF q, n, w, e, x, d
<1>9. stations' \in [Stations -> StationRows] /\ creds' \in [Users -> CredRows] /\ SamePins(creds, creds')
  BY <1>1, <1>2, <1>6, <1>7, StationWrite, CredWrite
<1>10. /\ sessions' \in Seq(SessionRows) /\ Len(sessions') = Len(sessions) /\ Len(sessions) \in Nat
       /\ sessions'[q.s] = e /\ \A s \in 1..Len(sessions) : s # q.s => sessions'[s] = sessions[s]
  <2>1. sessions' \in [1..Len(sessions) -> SessionRows]
    BY <1>1, <1>5, InvFacts
  <2>2. sessions' \in Seq(SessionRows) /\ Len(sessions') = Len(sessions)
    BY <2>1, InvFacts, FunctionsAreSequences
  <2>. QED
    BY <1>1, <1>3, <2>2, InvFacts
<1>11. OwnersKept(sessions, sessions')
  BY <1>3, <1>5, <1>10 DEF OwnersKept, SameOwner
<1>12. /\ grants' \in Seq(GrantRows) /\ Len(grants') = n /\ grants'[n] = w
       /\ \A g \in 1..Len(grants) : grants'[g] = grants[g]
  BY <1>1, <1>4, <1>8, InvFacts
<1>13. RowTypes'
  BY <1>1, <1>9, <1>10, <1>12, InvFacts DEF RowTypes
<1>14. 1..Len(grants) \subseteq 1..Len(grants') /\ n \in 1..Len(grants') /\ n \notin 1..Len(grants)
       /\ \A g \in 1..Len(grants') : g = n \/ g \in 1..Len(grants)
  BY <1>3, <1>8, <1>12
<1>15. GrantsOK(grants', sessions') /\ UsesOK(uses, grants', sessions')
  <2>1. GrantsOK(grants, sessions') /\ UsesOK(uses, grants, sessions')
    BY <1>11, InvFacts, LogStays
  <2>2. w.session \in 1..Len(sessions') /\ w.pin = sessions'[w.session].pin
    BY <1>3, <1>4, <1>5, <1>10 DEF SameOwner
  <2>3. GrantsOK(grants', sessions')
    BY <1>12, <1>14, <2>1, <2>2 DEF GrantsOK
  <2>4. UsesOK(uses, grants', sessions')
    BY <1>12, <1>14, <2>1 DEF UsesOK, UseOK
  <2>. QED
    BY <2>3, <2>4
<1>16. SessionsOK(sessions', creds', grants', uses)
  <2>1. SessionsKept(sessions, sessions)
    BY InvFacts, NoMove
  <2>2. SessionsOK(sessions, creds', grants, uses)
    BY <1>9, <2>1, InvFacts, SessionsStay
  <2>3. ASSUME NEW s \in 1..Len(sessions')
        PROVE  SessionOK(s, sessions', creds', grants', uses)
    <3>1. SessionOK(s, sessions, creds', grants, uses) /\ s \in 1..Len(sessions)
      BY <1>10, <2>2, <2>3 DEF SessionsOK
    <3>2. /\ \A t \in 1..Len(sessions) : SameOwner(sessions[t], sessions'[t])
          /\ Len(sessions') = Len(sessions)
      BY <1>10, <1>11 DEF OwnersKept
    <3>3. sessions'[s].state = "open" =>
            /\ Behind(sessions'[s].pin, sessions'[s].version, creds'[sessions'[s].user])
            /\ \A t \in 1..Len(sessions') : t > s => sessions'[t].station # sessions'[s].station
      BY <3>1, <3>2 DEF SessionOK, SameOwner
    <3>4. CASE s = q.s
      <4>1. sessions'[s].grant = n /\ sessions'[s].grantEnds = w.ends
        BY <1>5, <1>10, <3>4
      <4>2. \A i \in 1..Len(uses) : uses[i].grant # n
        BY <1>14, InvFacts DEF UsesOK, UseOK
      <4>. QED
        BY <1>4, <1>12, <1>14, <3>3, <3>4, <4>1, <4>2 DEF SessionOK
    <3>5. CASE s # q.s
      <4>1. sessions'[s] = sessions[s]
        BY <1>10, <3>1, <3>5
      <4>. QED
        BY <1>12, <1>14, <3>1, <3>3, <4>1 DEF SessionOK
    <3>. QED
      BY <3>4, <3>5
  <2>. QED
    BY <2>3 DEF SessionsOK
<1>17. DOMAIN req' = Requests /\ \A t \in Requests : ReqOK(req'[t], sessions', creds')
  <2>1. DOMAIN req' = Requests /\ \A t \in Requests : req'[t] = req[t] \/ req'[t] = Idle
    BY <1>1, InvFacts DEF Done
  <2>. QED
    BY <1>9, <1>11, <2>1, InvFacts, IdleOK, RequestStays
<1>18. AdmOK(adm', sessions', creds')
  <2>1. AdmOK(adm, sessions', creds')
    BY <1>9, <1>10, <1>11, InvFacts, AdmStays
  <2>. QED
    BY <1>1, <2>1
<1>. QED
  BY <1>1, <1>13, <1>15, <1>16, <1>17, <1>18 DEF IInv

\* The newest session of a station is the open one.
LEMMA NewestIsOpen ==
    ASSUME IInv, NEW s \in 1..Len(sessions), sessions[s].state = "open"
    PROVE  Max({t \in DOMAIN sessions : sessions[t].station = sessions[s].station}) = s
<1>. DEFINE S == {t \in DOMAIN sessions : sessions[t].station = sessions[s].station}
<1>1. SessionOK(s, sessions, creds, grants, uses) /\ DOMAIN sessions = 1..Len(sessions) /\ Len(sessions) \in Nat
  BY InvFacts DEF SessionsOK
<1>2. s \in S /\ s \in Nat /\ \A t \in S : t \in Nat /\ s >= t
  BY <1>1 DEF SessionOK
<1>. HIDE DEF S
<1>3. \A m \in S : (\A t \in S : m >= t) => m = s
  BY <1>2
<1>4. (CHOOSE m \in S : \A t \in S : m >= t) = s
  BY <1>2, <1>3
<1>. QED
  BY <1>4 DEF Max, S

LEMMA OverrideInv ==
    ASSUME IInv, NEW r \in Requests, Override(r)
    PROVE  IInv'
<1>. DEFINE q == req[r]
            m == Max({s \in DOMAIN sessions : sessions[s].station = q.st})
            u == [session |-> q.s, grant |-> q.g, pin |-> q.pin, at |-> now, newest |-> m]
            e == [sessions[q.s] EXCEPT !.grant = 0]
<1>1. /\ q.at = "ready" /\ q.op = "override" /\ Done(r)
      /\ world' = world /\ now' = now /\ stations' = stations /\ users' = users /\ creds' = creds /\ pins' = pins
      /\ grants' = grants /\ adm' = adm
      /\ \/ Consumable(q.s, q.g) /\ sessions' = [sessions EXCEPT ![q.s] = e] /\ uses' = Append(uses, u)
         \/ sessions' = sessions /\ uses' = uses
  BY DEF Override
<1>2. /\ q.s \in DOMAIN sessions /\ q.g \in Nat /\ q.g # 0 /\ q.pin \in Nat /\ q.pin = sessions[q.s].pin
      /\ q.st = sessions[q.s].station
  BY <1>1, UnderFacts
<1>3. q.s \in 1..Len(sessions) /\ q.s \in Nat /\ sessions[q.s] \in SessionRows /\ now \in Nat
  BY <1>2, KnownSession, InvFacts
<1>4. CASE sessions' = sessions /\ uses' = uses
  <2>1. RowTypes' /\ SessionsKept(sessions, sessions') /\ SamePins(creds, creds')
    BY <1>1, <1>4, InvFacts, NoMove, SameCreds DEF RowTypes
  <2>. QED
    BY <1>1, <1>4, <2>1, QuietDone
<1>5. CASE Consumable(q.s, q.g) /\ sessions' = [sessions EXCEPT ![q.s] = e] /\ uses' = Append(uses, u)
  <2>1. sessions[q.s].state = "open" /\ sessions[q.s].grant = q.g /\ now < sessions[q.s].grantEnds
    BY <1>5 DEF Consumable
  <2>2. m = q.s
    BY <1>2, <1>3, <2>1, NewestIsOpen
  <2>3. /\ u \in UseRows /\ u.session = q.s /\ u.grant = q.g /\ u.pin = sessions[q.s].pin /\ u.at = now
        /\ u.newest = q.s
    BY <1>2, <1>3, <2>2 DEF UseRows
  <2>4. e \in SessionRows /\ SameSession(sessions[q.s], e) /\ e.grant = 0
    BY <1>3 DEF SessionRows, SameSession, SameOwner
  <2>. HIDE DEF q, m, u, e
  <2>5. /\ q.g \in 1..Len(grants) /\ grants[q.g].session = q.s /\ grants[q.g].ends = sessions[q.s].grantEnds
        /\ \A i \in 1..Len(uses) : uses[i].grant # q.g
    <3>1. SessionOK(q.s, sessions, creds, grants, uses)
      BY <1>3, InvFacts DEF SessionsOK
    <3>. QED
      BY <1>2, <2>1, <3>1 DEF SessionOK
  <2>6. grants[q.g].pin = sessions[q.s].pin
    BY <2>5, InvFacts DEF GrantsOK
  <2>7. /\ sessions' \in Seq(SessionRows) /\ Len(sessions') = Len(sessions) /\ Len(sessions) \in Nat
        /\ sessions'[q.s] = e /\ \A s \in 1..Len(sessions) : s # q.s => sessions'[s] = sessions[s]
    <3>1. sessions' \in [1..Len(sessions) -> SessionRows]
      BY <1>5, <2>4, InvFacts
    <3>2. sessions' \in Seq(SessionRows) /\ Len(sessions') = Len(sessions)
      BY <3>1, InvFacts, FunctionsAreSequences
    <3>. QED
      BY <1>3, <1>5, <3>2, InvFacts
  <2>8. SessionsKept(sessions, sessions')
    <3>1. ASSUME NEW s \in 1..Len(sessions)
          PROVE  SameSession(sessions[s], sessions'[s])
      <4>1. CASE s = q.s
        BY <2>4, <2>7, <4>1
      <4>2. CASE s # q.s
        BY <2>7, <4>2 DEF SameSession, SameOwner
      <4>. QED
        BY <4>1, <4>2
    <3>. QED
      BY <2>7, <3>1 DEF SessionsKept
  <2>9. OwnersKept(sessions, sessions')
    BY <2>8, KeptOwners
  <2>10. /\ uses' \in Seq(UseRows) /\ Len(uses) \in Nat /\ Len(uses') = Len(uses) + 1 /\ uses'[Len(uses) + 1] = u
         /\ \A i \in 1..Len(uses) : uses'[i] = uses[i]
    BY <1>5, <2>3, InvFacts
  <2>11. \A i \in 1..Len(uses') : (i \in 1..Len(uses) /\ uses'[i] = uses[i]) \/ (i = Len(uses) + 1 /\ uses'[i] = u)
    BY <2>10
  <2>12. RowTypes'
    BY <1>1, <2>7, <2>10, InvFacts DEF RowTypes
  <2>13. GrantsOK(grants, sessions') /\ UsesOK(uses, grants, sessions')
    BY <2>9, InvFacts, LogStays
  <2>14. UseOK(u, grants, sessions')
    <3>1. q.s \in 1..Len(sessions') /\ sessions'[q.s].pin = sessions[q.s].pin
      BY <1>3, <2>7, <2>9 DEF OwnersKept, SameOwner
    <3>. QED
      BY <2>1, <2>3, <2>5, <2>6, <3>1 DEF UseOK
  <2>15. UsesOK(uses', grants, sessions')
    <3>1. \A i \in 1..Len(uses') : UseOK(uses'[i], grants, sessions')
      BY <2>11, <2>13, <2>14 DEF UsesOK
    <3>2. ASSUME NEW i \in 1..Len(uses'), NEW j \in 1..Len(uses'), i # j
          PROVE  uses'[i].grant # uses'[j].grant
      BY <2>3, <2>5, <2>11, <2>13, <3>2 DEF UsesOK
    <3>. QED
      BY <3>1, <3>2 DEF UsesOK
  <2>16. SessionsOK(sessions', creds, grants, uses)
    BY <2>8, InvFacts, SameCreds, SessionsStay
  <2>17. SessionsOK(sessions', creds, grants, uses')
    <3>1. ASSUME NEW s \in 1..Len(sessions')
          PROVE  SessionOK(s, sessions', creds, grants, uses')
      <4>1. SessionOK(s, sessions', creds, grants, uses)
        BY <2>16 DEF SessionsOK
      <4>2. sessions'[s].grant # 0 => sessions'[s].grant # q.g
        <5>1. CASE s = q.s
          BY <2>4, <2>7, <5>1
        <5>2. CASE s # q.s
          BY <2>5, <4>1, <5>2 DEF SessionOK
        <5>. QED
          BY <5>1, <5>2
      <4>3. sessions'[s].grant # 0 => \A i \in 1..Len(uses') : uses'[i].grant # sessions'[s].grant
        BY <2>3, <2>11, <4>1, <4>2 DEF SessionOK
      <4>. QED
        BY <4>1, <4>3 DEF SessionOK
    <3>. QED
      BY <3>1 DEF SessionsOK
  <2>18. DOMAIN req' = Requests /\ \A t \in Requests : ReqOK(req'[t], sessions', creds)
    <3>1. DOMAIN req' = Requests /\ \A t \in Requests : req'[t] = req[t] \/ req'[t] = Idle
      BY <1>1, InvFacts DEF Done
    <3>. QED
      BY <2>9, <3>1, InvFacts, SameCreds, IdleOK, RequestStays
  <2>19. AdmOK(adm, sessions', creds)
    BY <2>7, <2>9, InvFacts, SameCreds, AdmStays
  <2>. QED
    BY <1>1, <2>12, <2>13, <2>15, <2>17, <2>18, <2>19 DEF IInv
<1>. QED
  BY <1>1, <1>4, <1>5

-----------------------------------------------------------------------------
(* Theorems.                                                                *)

LEMMA NextInv == IInv /\ [Next]_vars => IInv'
<1>. SUFFICES ASSUME IInv, [Next]_vars
              PROVE  IInv'
  OBVIOUS
<1>1. CASE UNCHANGED vars
  <2>1. UNCHANGED <<world, now, rows, log>> /\ req' = req /\ adm' = adm
    BY <1>1 DEF vars
  <2>. QED
    BY <2>1, RowsRest, QuietAdm
<1>2. ASSUME NEW r \in world.requests,
             \/ \E st \in Stations, u \in world.users, pin \in 0 .. pins : Unlock(r, st, u, pin)
             \/ HoldRows(r) \/ RejectUnlock(r) \/ CreateSession(r)
             \/ \E op \in Reads, s \in DOMAIN sessions, g \in 0 .. Len(grants) : Gate(r, op, s, g)
             \/ \E pin \in 0 .. pins : Depend(r, pin)
             \/ \E s \in DOMAIN sessions : Forget(r, s)
             \/ LockSession(r) \/ Touch(r) \/ Reject(r) \/ IssueGrant(r) \/ Override(r)
      PROVE  IInv'
  <2>1. r \in Requests /\ world.users \subseteq Users
    BY WorldFacts
  <2>. QED
    BY <1>2, <2>1, UnlockInv, HoldRowsInv, RejectUnlockInv, CreateSessionInv, GateInv, DependInv, ForgetInv,
       LockSessionInv, TouchInv, RejectInv, IssueGrantInv, OverrideInv
<1>3. CASE \E op \in Changes, st \in Stations, u \in world.users : Begin(op, st, u)
  BY <1>3, WorldFacts, BeginInv
<1>4. CASE \E st \in Stations : Register(st)
  BY <1>4, RegisterInv
<1>5. CASE SetPin \/ RevokePin \/ DeleteUser \/ RevokeStation
  BY <1>5, SetPinInv, RevokePinInv, DeleteUserInv, RevokeStationInv
<1>6. CASE \E rights \in Rights : ChangeUser(rights)
  BY <1>6, ChangeUserInv
<1>7. CASE Tick
  BY <1>7, TickInv
<1>. QED
  BY <1>1, <1>2, <1>3, <1>4, <1>5, <1>6, <1>7 DEF Next

\* Every reachable state agrees: an open session is the newest of its station and never ahead of
\* the PIN of its operator, its confirmation is its own and unspent, and a request under way
\* remembers the PIN the session was opened with (unlock and admission in workstation_auth.py).
THEOREM InductiveInvariant == Spec => []IInv
  BY InitInv, NextInv, PTL DEF Spec

\* Every override committed under a PIN session spends a confirmation of its own, typed by the
\* operator of that very session with its PIN before it ran out, while no other operator had
\* taken the station over (issue_reauth_grant, consume_reauth_grant; workstation_auth.py).
THEOREM EveryOverrideIsConfirmed == Spec => []OverridesAreConfirmed
<1>1. IInv => OverridesAreConfirmed
  <2>. SUFFICES ASSUME IInv
                PROVE  OverridesAreConfirmed
    OBVIOUS
  <2>1. UsesOK(uses, grants, sessions) /\ DOMAIN uses = 1..Len(uses)
    BY InvFacts
  <2>. QED
    BY <2>1 DEF OverridesAreConfirmed, UsesOK, UseOK
<1>. QED
  BY <1>1, InductiveInvariant, PTL

=============================================================================
