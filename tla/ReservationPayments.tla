------------------------ MODULE ReservationPayments ------------------------
(***************************************************************************)
(* One Stripe payment of one reservation (reservation_payments.py,         *)
(* reservation_payment_worker.py, routers/platnosci.py): its commands,     *)
(* which workers claim under a lease, send to Stripe outside any           *)
(* transaction and record; the inbox of signed webhooks; the cancellation, *)
(* deletion, edit and retry of the reservation, which run in between.      *)
(*                                                                         *)
(* An action is one database transaction, one exchange with Stripe or one  *)
(* step of the outside world.  Amounts are full amounts, the only ones a   *)
(* refund may have.  There is no clock: a lease may lapse and a deadline   *)
(* may pass at any moment, a retry is due at any moment after its backoff. *)
(***************************************************************************)
EXTENDS Naturals, FiniteSets

CONSTANTS
    Workers,          \* worker threads, of one process or of several
    OperatorKeys,     \* idempotency keys of the operator's requests
    Events,           \* the signed events that may reach the endpoint
    Worlds,           \* what to look at, see the assumption
    MaxTries,         \* maks_prob of a command (5 in the code)
    MaxWebhookTries,  \* maks_prob of an event (8 in the code)
    None

EventTypes == {"completed", "async_succeeded", "async_failed", "expired",
               "intent", "intent_succeeded", "refund"}

\* The operation keys the code builds itself; the key of a command is unique
\* within its payment, and the provider key is derived from it.
SystemKeys == {"checkout", "cancel", "cancelMarker", "delete", "deleteMarker",
               "cancelRefund", "superseded", "supersededRefund"}
Keys == SystemKeys \cup OperatorKeys

ASSUME PaymentAssumption ==
    /\ Events \subseteq EventTypes
    /\ MaxTries \in Nat \ {0} /\ MaxWebhookTries \in Nat \ {0}
    /\ OperatorKeys \cap SystemKeys = {} /\ None \notin Keys
    /\ \A w \in Worlds :
        /\ w.workers \subseteq Workers /\ w.keys \subseteq OperatorKeys
        /\ w.events \subseteq Events /\ w.atMost \in Nat    \* the events that arrive, and how many
        /\ w.deadlines \subseteq Keys      \* the commands whose window may end before they are done
        /\ w.calls \subseteq {"cancel", "delete", "retry", "edit"}
        /\ w.policies \subseteq [manual : BOOLEAN, refundOnCancel : BOOLEAN, release : BOOLEAN]

VARIABLES
    world,    \* one of Worlds, for the whole run
    policy,   \* policy_snapshot, fixed when the payment is created
    rez,      \* the reservation termin_id points to: aktywna, odwolana, or brak
    pay,      \* Platnosc: status, refund_status, known Checkout and PaymentIntent
    cmd,      \* RezerwacjaPlatnoscPolecenie by operation key
    inbox,    \* RezerwacjaPlatnoscWebhook by event
    worker,   \* what each worker holds between its transactions
    stripe    \* the provider

vars == <<world, policy, rez, pay, cmd, inbox, worker, stripe>>

PENDING_STATES   == {"queued", "retry"}
ACTIVE_STATES    == PENDING_STATES \cup {"processing", "uncertain"}
Mutations        == {"capture", "cancel_authorization", "refund"}
Sources          == Mutations \cup {"create_checkout"}
CancellationKeys == {"cancel", "cancelMarker", "delete", "deleteMarker", "cancelRefund"}

\* A slip: captured money may still be reported as failed.
AllowedTransitionsFailingLate(s) ==
    CASE s \in {"oczekuje", "autoryzowana"} -> {"autoryzowana", "oplacona", "nieudana", "wygasla", "anulowana"} \ {s}
      [] s = "oplacona" -> {"zwrocona", "nieudana"}
      [] s = "zwrocona" -> {}
      [] OTHER          -> {"oplacona"}

AllowedTransitions(s) ==
    CASE s = "oczekuje"     -> {"autoryzowana", "oplacona", "nieudana", "wygasla", "anulowana"}
      [] s = "autoryzowana" -> {"oplacona", "nieudana", "wygasla", "anulowana"}
      [] s = "oplacona"     -> {"zwrocona"}
      [] s = "zwrocona"     -> {}
      [] OTHER              -> {"oplacona"}

RefundRank(r) == CASE r = "brak" -> 0 [] r = "oczekuje" -> 1 [] r = "nieudana" -> 2
                    [] r = "zwrocona" -> 3

DependencyOrder(typ) == CASE typ = "create_checkout" -> 0 [] typ = "capture" -> 1 [] OTHER -> 2

NoCommand == [typ |-> None, stan |-> "brak", tries |-> 0, late |-> FALSE,
              lease |-> None, lapsed |-> FALSE, object |-> None]
NoEvent   == [stan |-> "brak", tries |-> 0, lease |-> None, lapsed |-> FALSE, of |-> None]

\* A row that is finished: nobody reads its tries, its window or its lease.
Finished(row, stan) == [row EXCEPT !.stan = stan, !.tries = 0, !.late = FALSE,
                                   !.lease = None, !.lapsed = FALSE]

Idle      == [step |-> "idle", id |-> None, src |-> None, ref |-> None, object |-> None,
              cs |-> FALSE, pi |-> FALSE, left |-> FALSE, reply |-> None]

-----------------------------------------------------------------------------
(* What one transaction does to the payment.  D is the reservation, the     *)
(* payment and its commands as the transaction has changed them so far.     *)

Stored    == [rez |-> rez, pay |-> pay, cmd |-> cmd]
Commit(D) == rez' = D.rez /\ pay' = D.pay /\ cmd' = D.cmd

Exists(D, k) == D.cmd[k].stan # "brak"

\* queue_command: a key that is already there returns its command as it is.
QueueCommand(D, k, typ) ==
    IF Exists(D, k) THEN D
    ELSE [D EXCEPT !.cmd[k] = [NoCommand EXCEPT !.typ = typ, !.stan = "queued"]]

RequestRefund(D, k) == [QueueCommand(D, k, "refund") EXCEPT !.pay.refund = "oczekuje"]

EnsureCancellationRefund(D) ==
    IF /\ D.pay.status = "oplacona" /\ policy.refundOnCancel
       /\ D.rez = "odwolana" \/ \E k \in CancellationKeys : Exists(D, k)
       /\ ~Exists(D, "cancelRefund")
    THEN RequestRefund(D, "cancelRefund") ELSE D

\* A slip: only while the reservation is still linked to the payment.
EnsureSupersededRefundWhileLinked(D) ==
    IF /\ D.pay.status = "oplacona" /\ D.rez # "brak"
       /\ Exists(D, "superseded") /\ ~Exists(D, "supersededRefund")
    THEN RequestRefund(D, "supersededRefund") ELSE D

EnsureSupersededRefund(D) ==
    IF /\ D.pay.status = "oplacona"
       /\ Exists(D, "superseded") /\ ~Exists(D, "supersededRefund")
    THEN RequestRefund(D, "supersededRefund") ELSE D

\* The failure policy "zwolnij".
ReleaseReservation(D) ==
    IF D.pay.status \in {"nieudana", "wygasla"} /\ policy.release /\ D.rez = "aktywna"
    THEN [D EXCEPT !.rez = "odwolana"] ELSE D

ReconcilePaymentReservation(D) ==
    ReleaseReservation(EnsureSupersededRefund(EnsureCancellationRefund(D)))

\* A slip: every transition is copied to the state of the refund.
ApplyPaymentStatusToBoth(p, target) ==
    IF target \in AllowedTransitions(p.status)
    THEN [p EXCEPT !.status = target, !.refund = target] ELSE p

\* apply_payment_status, not strict: a transition that is not allowed is a no-op.
ApplyPaymentStatus(p, target) ==
    IF target \in AllowedTransitions(p.status)
    THEN [p EXCEPT !.status = target,
                   !.refund = IF target = "zwrocona" THEN "zwrocona" ELSE @]
    ELSE p

\* A refund may be seen before the capture it returns.
ProjectTarget(p, target) ==
    IF target = "zwrocona" THEN ApplyPaymentStatus(ApplyPaymentStatus(p, "oplacona"), target)
                           ELSE ApplyPaymentStatus(p, target)

ProjectRefund(p, r) ==
    IF /\ r # None /\ p.refund # "zwrocona"
       /\ r = "zwrocona" => p.status = "zwrocona"
       /\ RefundRank(r) >= RefundRank(p.refund)
    THEN [p EXCEPT !.refund = r] ELSE p

\* _validate_provider_contract: a refund must belong to the known PaymentIntent
\* and equal the balance, of which nothing is left after a full refund.
Conflict(D, r) == r.object = "re" /\ (~D.pay.pi \/ D.pay.status = "zwrocona")

ApplyProviderProjection(D, r) ==
    LET seen == [D.pay EXCEPT !.cs = @ \/ r.cs, !.pi = @ \/ r.pi]
    IN  ReconcilePaymentReservation(
            [D EXCEPT !.pay = ProjectRefund(ProjectTarget(seen, r.target), r.refund)])

-----------------------------------------------------------------------------
(* Stripe (external) and what the worker makes of its answers.              *)

\* The provider: a Checkout Session, its PaymentIntent, one possible refund
\* object for each refund command, the replies remembered by idempotency key
\* (the key of the command and the endpoint it was sent to), and the keys that
\* came again with other parameters.
NoProvider == [session |-> "none", intent |-> "none",
               refund |-> [k \in Keys |-> "none"], replies |-> {},
               refused |-> {}]

Plain(outcome) == [outcome |-> outcome, target |-> None, refund |-> None,
                   object |-> None, cs |-> FALSE, pi |-> FALSE]

\* _failure_result
Failure(typ) ==
    [Plain("failed") EXCEPT !.target = IF typ = "create_checkout" THEN "nieudana" ELSE None,
                            !.refund = IF typ = "refund" THEN "nieudana" ELSE None]

IntentTarget(s) ==
    CASE s.intent = "requires_capture" -> "autoryzowana"
      [] s.intent = "succeeded" ->
            IF \E k \in Keys : s.refund[k] = "succeeded" THEN "zwrocona" ELSE "oplacona"
      [] s.intent = "canceled" -> "anulowana"
      [] OTHER -> None

PaymentIntentResult(s) ==
    [Plain("succeeded") EXCEPT
        !.object = "pi", !.pi = TRUE, !.target = IntentTarget(s),
        !.refund = IF IntentTarget(s) = "zwrocona" THEN "zwrocona" ELSE None]

\* A slip: a complete session counts as paid, whatever the intent says.
CheckoutResultPaidWhenComplete(s, explicitCancel) ==
    [Plain("succeeded") EXCEPT
        !.object = "cs", !.cs = TRUE, !.pi = s.intent # "none",
        !.target = CASE s.session = "complete" -> "oplacona"
                     [] s.session = "expired" -> IF explicitCancel THEN "anulowana" ELSE "wygasla"
                     [] OTHER -> None]

CheckoutResult(s, explicitCancel) ==
    LET terminal == IntentTarget(s) \in {"autoryzowana", "oplacona", "zwrocona"}
    IN  [Plain("succeeded") EXCEPT
            !.object = "cs", !.cs = TRUE, !.pi = s.intent # "none",
            !.target = IF s.session # "expired" \/ terminal THEN IntentTarget(s)
                       ELSE IF explicitCancel THEN "anulowana" ELSE "wygasla"]

RefundResult(s, k) ==
    LET seen == [Plain("retry") EXCEPT !.object = "re", !.pi = TRUE]
    IN  CASE s.refund[k] = "succeeded" ->
                [seen EXCEPT !.outcome = "succeeded", !.target = "zwrocona", !.refund = "zwrocona"]
          [] s.refund[k] = "failed" -> [seen EXCEPT !.outcome = "failed", !.refund = "nieudana"]
          [] OTHER -> [seen EXCEPT !.refund = "oczekuje"]

\* _command_semantic_result: the state that proves this very mutation.
CommandSemanticResult(typ, r) ==
    LET proof == CASE typ = "capture" -> {"oplacona", "zwrocona"}
                   [] typ = "cancel_authorization" -> {"anulowana", "wygasla", "zwrocona"}
                   [] typ = "refund" -> {"zwrocona"}
        refuted == CASE typ = "capture" -> {"anulowana", "wygasla", "nieudana"}
                     [] typ = "cancel_authorization" -> {"oplacona"}
                     [] OTHER -> {}
    IN  IF typ \notin Mutations \/ r.outcome # "succeeded" \/ r.target \in proof THEN r
        ELSE [r EXCEPT !.outcome = IF r.target \in refuted THEN "failed" ELSE "retry"]

\* What Stripe can do with a request that it executes for the first time.
Effects(typ, k, byIntent) ==
    CASE typ = "create_checkout" -> {[stripe EXCEPT !.session = "open"]}
      [] typ = "capture" /\ stripe.intent = "requires_capture" ->
            {[stripe EXCEPT !.intent = "succeeded"]}
      [] typ = "cancel_authorization" /\ byIntent /\ stripe.intent = "requires_capture" ->
            {[stripe EXCEPT !.intent = "canceled"]}
      [] typ = "cancel_authorization" /\ ~byIntent /\ stripe.session = "open" ->
            {[stripe EXCEPT !.session = "expired"]}
      [] /\ typ = "refund" /\ stripe.intent = "succeeded"
         /\ \A o \in Keys : stripe.refund[o] \in {"none", "failed"} ->
            {[stripe EXCEPT !.refund[k] = x] : x \in {"pending", "succeeded"}}
      [] OTHER -> {}

Reply(s, typ, k, byIntent) ==
    CASE typ = "refund" -> RefundResult(s, k)
      [] typ = "create_checkout" \/ ~byIntent -> CheckoutResult(s, ~byIntent)
      [] OTHER -> PaymentIntentResult(s)

Remembered(s, k, byIntent, r) ==
    [s EXCEPT !.replies = @ \cup {[key |-> k, byIntent |-> byIntent, reply |-> r]}]

Exchange(s, r) == [stripe |-> s, reply |-> r]

\* The parameters of a new Checkout move with the clock: its expires_at is no
\* sooner than 31 minutes from the attempt.  Stripe turns a known key with other
\* parameters down (HTTP 400).
Moved(typ, k) ==
    IF typ = "create_checkout" THEN {Exchange([stripe EXCEPT !.refused = @ \cup {k}], Failure(typ))}
                               ELSE {}

\* A POST under the idempotency key of the command k: executed or refused
\* (HTTP 4xx) once, replayed ever after.
Post(typ, k, byIntent) ==
    LET before == {x \in stripe.replies : x.key = k /\ x.byIntent = byIntent}
    IN  IF before # {} THEN {Exchange(stripe, x.reply) : x \in before} \cup Moved(typ, k)
        ELSE {Exchange(Remembered(s, k, byIntent, Reply(s, typ, k, byIntent)),
                       Reply(s, typ, k, byIntent)) : s \in Effects(typ, k, byIntent)}
             \cup {Exchange(Remembered(stripe, k, byIntent, Failure(typ)), Failure(typ))}

Local(r) == {Exchange(stripe, r)}

\* Nothing is known yet that could be sent to Stripe; j is the claim.
NoReference(typ, j) ==
    /\ typ # "create_checkout" /\ ~j.pi
    /\ typ \in {"capture", "refund"} \/ (~j.cs /\ j.ref = None)

\* A refund asks for the whole balance: one that finds nothing left of it is
\* refused (PARTIAL_REFUND_UNSUPPORTED), as an unknown earlier try is repeated too.
Unsent(typ, j) == NoReference(typ, j) \/ (typ = "refund" /\ ~j.left)

\* execute_claim: a cancellation without a reference waits for the Checkout
\* that another worker may be creating.
Perform(typ, k, j) ==
    IF Unsent(typ, j)
    THEN Local(IF typ = "cancel_authorization" THEN Plain("retry") ELSE Failure(typ))
    ELSE CASE typ = "reconcile" /\ j.ref # None -> Local(RefundResult(stripe, j.ref))
           [] typ = "reconcile" /\ j.ref = None ->
                 Local(IF j.pi THEN PaymentIntentResult(stripe) ELSE CheckoutResult(stripe, FALSE))
           [] OTHER -> Post(typ, k, typ # "cancel_authorization" \/ j.pi)

\* _retrieve_reconcile_source: the live object the source is known by, instead
\* of a replayed reply.
Retrieve(typ, k, j) ==
    CASE j.object = "re" -> RefundResult(stripe, k)
      [] j.object = "pi" -> PaymentIntentResult(stripe)
      [] j.object = "cs" -> CheckoutResult(stripe, typ = "cancel_authorization")

\* A reconciliation repeats the uncertain operation it was claimed for.
Operation(j) == IF j.src = None THEN j.id ELSE j.src

Exchanges(j) ==
    LET k   == Operation(j)
        typ == cmd[k].typ
        raw == IF j.object # None THEN Local(Retrieve(typ, k, j)) ELSE Perform(typ, k, j)
    IN  {Exchange(x.stripe, CommandSemanticResult(typ, x.reply)) : x \in raw}

-----------------------------------------------------------------------------
(* Stripe acts by itself (external): the guest on the hosted page, the bank.*)

ProviderStep(s) == stripe' = s /\ UNCHANGED <<world, policy, rez, pay, cmd, inbox, worker>>

\* The link is published once the Checkout Session is recorded.
GuestPays ==
    /\ stripe.session = "open" /\ pay.cs
    /\ \E i \in IF policy.manual THEN {"requires_capture"} ELSE {"succeeded", "processing"} :
           ProviderStep([stripe EXCEPT !.session = "complete", !.intent = i])

AsyncSettles ==
    /\ stripe.intent = "processing"
    /\ \E i \in {"succeeded", "requires_payment_method"} :
           ProviderStep([stripe EXCEPT !.intent = i])

\* An asynchronous method may still succeed after it was reported as failed.
LateSuccess ==
    /\ stripe.intent = "requires_payment_method"
    /\ ProviderStep([stripe EXCEPT !.intent = "succeeded"])

SessionExpires ==
    stripe.session = "open" /\ ProviderStep([stripe EXCEPT !.session = "expired"])

AuthorizationExpires ==
    stripe.intent = "requires_capture" /\ ProviderStep([stripe EXCEPT !.intent = "canceled"])

RefundSettles(k) ==
    /\ stripe.refund[k] = "pending"
    /\ \E x \in {"succeeded", "failed"} : ProviderStep([stripe EXCEPT !.refund[k] = x])

\* Time passes: the window of a command, the lease of a command or an event.
DeadlinePasses(k) ==
    /\ k \in world.deadlines /\ cmd[k].stan \in PENDING_STATES \cup {"processing"} /\ ~cmd[k].late
    /\ cmd' = [cmd EXCEPT ![k].late = TRUE]
    /\ UNCHANGED <<world, policy, rez, pay, inbox, worker, stripe>>

LeaseLapses(k) ==
    /\ cmd[k].stan = "processing" /\ ~cmd[k].lapsed
    /\ cmd' = [cmd EXCEPT ![k].lapsed = TRUE]
    /\ UNCHANGED <<world, policy, rez, pay, inbox, worker, stripe>>

EventLeaseLapses(e) ==
    /\ inbox[e].stan = "processing" /\ ~inbox[e].lapsed
    /\ inbox' = [inbox EXCEPT ![e].lapsed = TRUE]
    /\ UNCHANGED <<world, policy, rez, pay, cmd, worker, stripe>>

-----------------------------------------------------------------------------
(* The reservation and the operator.                                        *)

\* request_reservation_cancellation_settlement under the operation key "base".
Settlement(D, base) ==
    CASE D.pay.status \in {"oczekuje", "autoryzowana"} ->
            QueueCommand(D, base, "cancel_authorization")
      [] D.pay.status = "oplacona" /\ policy.refundOnCancel -> RequestRefund(D, "cancelRefund")
      [] D.pay.status \in {"nieudana", "wygasla", "anulowana"} /\ policy.refundOnCancel ->
            QueueCommand(D, IF base = "cancel" THEN "cancelMarker" ELSE "deleteMarker", "reconcile")
      [] OTHER -> D

Transaction(D) == Commit(D) /\ UNCHANGED <<world, policy, inbox, worker, stripe>>

CancelReservation ==
    /\ "cancel" \in world.calls
    /\ rez = "aktywna"
    /\ Transaction(Settlement([Stored EXCEPT !.rez = "odwolana"], "cancel"))

DeleteReservation ==
    /\ "delete" \in world.calls
    /\ rez # "brak"
    /\ Transaction([Settlement(Stored, "delete") EXCEPT !.rez = "brak"])

\* retry_payment_for_reservation: another payment takes over.
RetryPayment ==
    /\ "retry" \in world.calls
    /\ rez = "aktywna" /\ pay.status \in {"nieudana", "wygasla"} /\ ~policy.release
    /\ Transaction(QueueCommand(Stored, "superseded", "reconcile"))

\* An edit that changes what is to be paid leaves the ended payment behind.
EditReservation ==
    /\ "edit" \in world.calls
    /\ rez = "aktywna" /\ pay.status \in {"nieudana", "wygasla", "anulowana", "zwrocona"}
    /\ LET D == [Stored EXCEPT !.rez = "brak"]
       IN  Transaction(IF pay.status = "zwrocona" THEN D
                       ELSE QueueCommand(D, "superseded", "reconcile"))

NoPendingMutation(states) ==
    \A k \in Keys : cmd[k].typ \in Mutations => cmd[k].stan \notin states

OperatorRequest(o) ==
    /\ cmd[o].stan = "brak" /\ NoPendingMutation(ACTIVE_STATES)
    /\ \/ pay.status = "autoryzowana" /\ Transaction(QueueCommand(Stored, o, "capture"))
       \/ /\ pay.status \in {"oczekuje", "autoryzowana"}
          /\ Transaction(QueueCommand(Stored, o, "cancel_authorization"))
       \/ pay.status = "oplacona" /\ Transaction(RequestRefund(Stored, o))

OperatorReconcile(o) ==
    /\ cmd[o].stan = "brak" /\ NoPendingMutation(ACTIVE_STATES \ {"uncertain"})
    /\ \E k \in Keys : cmd[k].stan = "uncertain"
    /\ Transaction(QueueCommand(Stored, o, "reconcile"))

-----------------------------------------------------------------------------
(* The worker: commands.                                                    *)

\* A slip: a command with no recorded answer counts as never sent.
FreshWithoutAnswer(row) == row.object = None

\* _expire_due: the command never left, so that its failure is certain.
Fresh(row) == row.tries = 0 /\ row.object = None

\* A slip: only rows with a try left are recovered.
RecoverLeasesWithTriesLeft(D) ==
    [D EXCEPT !.cmd = [k \in Keys |->
        LET row == D.cmd[k]
        IN  IF row.stan # "processing" \/ ~row.lapsed \/ row.tries >= MaxTries THEN row
            ELSE IF row.late THEN Finished(row, "uncertain")
            ELSE [row EXCEPT !.stan = "retry", !.lease = None, !.lapsed = FALSE]]]

\* _recover_expired_leases
RecoverExpiredLeases(D) ==
    [D EXCEPT !.cmd = [k \in Keys |->
        LET row == D.cmd[k]
        IN  IF row.stan # "processing" \/ ~row.lapsed THEN row
            ELSE IF row.late \/ row.tries >= MaxTries THEN Finished(row, "uncertain")
            ELSE [row EXCEPT !.stan = "retry", !.lease = None, !.lapsed = FALSE]]]

\* _settle_stale_command: what was asked for is the case, or can no longer be.
Satisfied(p, typ) ==
    \/ typ = "create_checkout" /\ p.cs
    \/ typ = "capture" /\ p.status \in {"oplacona", "zwrocona"}
    \/ typ = "cancel_authorization" /\ p.status \in {"anulowana", "wygasla"}
    \/ typ = "refund" /\ p.status = "zwrocona"

Relevant(p, typ) ==
    \/ typ = "create_checkout" /\ p.status = "oczekuje"
    \/ typ = "capture" /\ p.status = "autoryzowana"
    \/ typ = "cancel_authorization" /\ p.status \in {"oczekuje", "autoryzowana"}
    \/ typ = "refund" /\ p.status = "oplacona"
    \/ typ = "reconcile"

Settled(p, row, otherwise) ==
    IF Satisfied(p, row.typ) THEN "succeeded"
    ELSE IF ~Relevant(p, row.typ) THEN "cancelled" ELSE otherwise

\* _expire_due_commands_before_claim.  The command of the Checkout is the
\* oldest, hence the first: the others see the payment as it leaves it.
ExpireDueCommands(D) ==
    LET due   == {k \in Keys : D.cmd[k].stan \in PENDING_STATES /\ D.cmd[k].late}
        first == /\ "checkout" \in due /\ Fresh(D.cmd["checkout"])
                 /\ D.pay.status = "oczekuje" /\ ~D.pay.cs
        E     == IF first THEN ReconcilePaymentReservation([D EXCEPT !.pay.status = "wygasla"])
                          ELSE D
        fate(k) == Settled(IF k = "checkout" THEN D.pay ELSE E.pay, D.cmd[k],
                           IF Fresh(D.cmd[k]) THEN "failed" ELSE "uncertain")
        rows  == [k \in Keys |-> IF k \in due THEN Finished(E.cmd[k], fate(k))
                                              ELSE E.cmd[k]]
        unsent == /\ E.pay.refund = "oczekuje"
                  /\ \E k \in due : rows[k].typ = "refund" /\ rows[k].stan = "failed"
                  /\ \A k \in Keys : rows[k].typ = "refund" => rows[k].stan \notin ACTIVE_STATES
    IN  [E EXCEPT !.cmd = rows, !.pay.refund = IF unsent THEN "nieudana" ELSE @]

\* The claim loop settles the stale rows it meets before the one it claims.
StaleRows(D) == {k \in Keys : /\ D.cmd[k].stan \in PENDING_STATES
                              /\ \/ Settled(D.pay, D.cmd[k], "-") # "-"
                                 \/ D.cmd[k].tries >= MaxTries}
SettleRows(D, S) ==
    [D EXCEPT !.cmd = [k \in Keys |->
        IF k \in S THEN Finished(D.cmd[k], Settled(D.pay, D.cmd[k], "uncertain"))
                   ELSE D.cmd[k]]]

\* The uncertain commands a reconciliation may be claimed for: the first in
\* the order of dependency.  Rows of one level are ordered by age, here by chance.
ReconcileSources(D) ==
    LET open == {k \in Keys : D.cmd[k].typ \in Sources /\ D.cmd[k].stan = "uncertain"}
    IN  {k \in open : \A o \in open :
            DependencyOrder(D.cmd[k].typ) <= DependencyOrder(D.cmd[o].typ)}

RefundReferences(D) ==
    {k \in Keys : D.pay.refund = "oczekuje" /\ D.cmd[k].typ = "refund" /\ D.cmd[k].object = "re"}

OneOf(S) == IF S = {} THEN {None} ELSE S

\* The command k is claimed by w with what is known at that moment.
Claim(D, w, k) ==
    LET again == D.cmd[k].typ = "reconcile"
    IN  \E src \in IF again THEN OneOf(ReconcileSources(D)) ELSE {None},
           ref \in IF again THEN OneOf(RefundReferences(D)) ELSE {None} :
            /\ worker' = [worker EXCEPT ![w] =
                   [step |-> "claimed", id |-> k, src |-> src, ref |-> ref,
                    object |-> IF src = None THEN None ELSE D.cmd[src].object,
                    cs |-> D.pay.cs, pi |-> D.pay.pi, left |-> D.pay.status = "oplacona",
                    reply |-> None]]
            /\ Commit([D EXCEPT !.cmd[k].tries = @ + 1, !.cmd[k].stan = "processing",
                                !.cmd[k].lease = w, !.cmd[k].lapsed = FALSE])

Recovered == ExpireDueCommands(RecoverExpiredLeases(Stored))

Claimable == {k \in Keys : Recovered.cmd[k].stan \in PENDING_STATES} \ StaleRows(Recovered)

ClaimNext(w) ==
    /\ worker[w].step = "idle"
    /\ \E S \in SUBSET StaleRows(Recovered), k \in Claimable :
           Claim(SettleRows(Recovered, S), w, k)
    /\ UNCHANGED <<world, policy, inbox, stripe>>

\* Nothing is due: the transaction still commits what it recovered.
ClaimNothing(w) ==
    /\ worker[w].step = "idle"
    /\ \E S \in SUBSET StaleRows(Recovered) : Commit(SettleRows(Recovered, S))
    /\ UNCHANGED <<world, policy, inbox, worker, stripe>>

\* The provider is asked with no transaction open.  An answer that does not
\* arrive counts as a retry, whether Stripe executed the request or not.
ExecuteClaim(w) ==
    LET j == worker[w]
        answer(s, r) == /\ stripe' = s
                        /\ worker' = [worker EXCEPT ![w].step = "answered", ![w].reply = r]
    IN  /\ j.step = "claimed"
        /\ \/ \E x \in Exchanges(j) : answer(x.stripe, x.reply)
           \/ /\ j.object # None \/ ~Unsent(cmd[Operation(j)].typ, j)
              /\ \E s \in {x.stripe : x \in Exchanges(j)} \cup {stripe} : answer(s, Plain("retry"))
        /\ UNCHANGED <<world, policy, rez, pay, cmd, inbox>>

Held(w) == LET row == cmd[worker[w].id] IN row.stan = "processing" /\ row.lease = w

\* The state a command ends in: a retry needs another try before its deadline.
Outcomes(row, outcome) ==
    IF outcome # "retry" THEN {outcome}
    ELSE IF row.tries < MaxTries /\ ~row.late THEN {"retry", "uncertain"}
    ELSE {"uncertain"}

\* The answer contradicts the payment, or what another reconciliation has found
\* out about the source in the meantime.
ClaimConflict(j) ==
    \/ Conflict(Stored, j.reply)
    \/ /\ j.src # None /\ j.reply.object # None
       /\ cmd[j.src].object \notin {None, j.reply.object}

\* finalize_claim for a lease still held: projection, the row, the uncertain
\* command a reconciliation was about, and the next one of the chain.
Recorded(w, stan) ==
    LET j        == worker[w]
        conflict == ClaimConflict(j)
        D        == IF conflict THEN Stored ELSE ApplyProviderProjection(Stored, j.reply)
        found    == IF conflict THEN None ELSE j.reply.object
        resolved == j.src # None /\ stan \in {"succeeded", "failed"}
        chain    == /\ resolved /\ stan = "succeeded"
                    /\ \E k \in Keys \ {j.src} : /\ D.cmd[k].typ \in Sources
                                                 /\ D.cmd[k].stan = "uncertain"
        source(row) == [row EXCEPT !.object = IF @ = None THEN found ELSE @,
                                   !.stan = IF resolved /\ @ = "uncertain" THEN stan ELSE @]
        left(row) == IF chain THEN [row EXCEPT !.stan = "queued", !.tries = 0]
                     ELSE IF stan = "retry" THEN [row EXCEPT !.stan = stan]
                     ELSE Finished(row, stan)
        own(row) == [left(row) EXCEPT !.object = IF found = None THEN @ ELSE found,
                                      !.lease = None, !.lapsed = FALSE]
    IN  [D EXCEPT !.cmd = [k \in Keys |-> CASE k = j.id -> own(D.cmd[k])
                                            [] k = j.src -> source(D.cmd[k])
                                            [] OTHER -> D.cmd[k]]]

FinalizeClaim(w) ==
    LET j == worker[w]
        outcome == IF ClaimConflict(j) THEN "uncertain" ELSE j.reply.outcome
    IN  /\ j.step = "answered"
        /\ \/ ~Held(w) /\ Commit(Stored)
           \/ Held(w) /\ \E stan \in Outcomes(cmd[j.id], outcome) : Commit(Recorded(w, stan))
        /\ worker' = [worker EXCEPT ![w] = Idle]
        /\ UNCHANGED <<world, policy, inbox, stripe>>

-----------------------------------------------------------------------------
(* The worker: the webhook inbox.                                           *)

\* An event Stripe has had reason to sign; k is the refund it is about.
Signed(e, k) ==
    CASE e = "completed"        -> k = None /\ stripe.session = "complete"
      [] e = "expired"          -> k = None /\ stripe.session = "expired"
      [] e = "async_succeeded"  -> k = None /\ stripe.intent = "succeeded"
      [] e = "async_failed"     -> k = None /\ stripe.intent = "requires_payment_method"
      [] e = "intent"           -> k = None /\ stripe.intent \in {"requires_capture", "canceled"}
      [] e = "intent_succeeded" -> k = None /\ stripe.intent = "succeeded"
      [] e = "refund"           -> k # None /\ stripe.refund[k] # "none"

\* record_signed_event: only the first delivery leaves a row.
IngestWebhook(e, k) ==
    /\ inbox[e].stan = "brak" /\ Signed(e, k)
    /\ Cardinality({x \in Events : inbox[x].stan # "brak"}) < world.atMost
    /\ inbox' = [inbox EXCEPT ![e].stan = "queued", ![e].of = k]
    /\ UNCHANGED <<world, policy, rez, pay, cmd, worker, stripe>>

\* _recover_expired_webhook_leases
RecoveredInbox ==
    [e \in Events |->
        IF inbox[e].stan # "processing" \/ ~inbox[e].lapsed THEN inbox[e]
        ELSE [inbox[e] EXCEPT !.lease = None, !.lapsed = FALSE,
                              !.stan = IF inbox[e].tries < MaxWebhookTries THEN "queued" ELSE "failed"]]

ClaimNextWebhook(w, e) ==
    /\ worker[w].step = "idle" /\ RecoveredInbox[e].stan = "queued"
    /\ inbox' = [RecoveredInbox EXCEPT ![e].stan = "processing", ![e].lease = w,
                                        ![e].tries = @ + 1]
    /\ worker' = [worker EXCEPT ![w] = [Idle EXCEPT !.step = "event", !.id = e]]
    /\ UNCHANGED <<world, policy, rez, pay, cmd, stripe>>

ClaimNoWebhook(w) ==
    /\ worker[w].step = "idle" /\ inbox' = RecoveredInbox
    /\ UNCHANGED <<world, policy, rez, pay, cmd, worker, stripe>>

\* execute_webhook_claim: what the live object says, read in the light of the event.
WebhookProjection(e) ==
    LET session == CheckoutResult(stripe, FALSE)
        intent  == PaymentIntentResult(stripe)
        refund  == RefundResult(stripe, inbox[e].of)
    IN  CASE e = "completed" -> session
          [] e = "async_succeeded" ->
                IF session.target = "oplacona" THEN session ELSE Plain("retry")
          [] e = "async_failed" ->
                IF session.target = "oplacona" THEN session ELSE [session EXCEPT !.target = "nieudana"]
          [] e = "expired" ->
                IF session.target \in {"oplacona", "autoryzowana"} THEN session
                ELSE [session EXCEPT !.target = "wygasla"]
          [] e = "intent" -> intent
          [] e = "intent_succeeded" ->
                IF intent.target = "oplacona" THEN intent ELSE Plain("retry")
          [] e = "refund" ->
                IF refund.outcome = "retry" THEN refund ELSE [refund EXCEPT !.outcome = "succeeded"]

ExecuteWebhookClaim(w) ==
    /\ worker[w].step = "event"
    /\ \E r \in {WebhookProjection(worker[w].id), Plain("retry"), Plain("failed")} :
           worker' = [worker EXCEPT ![w].step = "eventAnswered", ![w].reply = r]
    /\ UNCHANGED <<world, policy, rez, pay, cmd, inbox, stripe>>

FinalizeWebhookClaim(w) ==
    LET e == worker[w].id
        r == worker[w].reply
        held == inbox[e].stan = "processing" /\ inbox[e].lease = w
        conflict == Conflict(Stored, r)
        stan == IF conflict THEN "failed"
                ELSE IF r.outcome = "succeeded" THEN "processed"
                ELSE IF r.outcome = "retry" /\ inbox[e].tries < MaxWebhookTries THEN "queued"
                ELSE "failed"
    IN  /\ worker[w].step = "eventAnswered"
        /\ Commit(IF held /\ ~conflict /\ r.object # None
                  THEN ApplyProviderProjection(Stored, r) ELSE Stored)
        /\ inbox' = IF ~held THEN inbox
                    ELSE IF stan # "queued" THEN [inbox EXCEPT ![e] = [NoEvent EXCEPT !.stan = stan, !.of = inbox[e].of]]
                    ELSE [inbox EXCEPT ![e].stan = stan, ![e].lease = None, ![e].lapsed = FALSE]
        /\ worker' = [worker EXCEPT ![w] = Idle]
        /\ UNCHANGED <<world, policy, stripe>>

\* The process dies: what its worker held is gone, what it committed is not.
Crash(w) ==
    /\ worker[w].step # "idle"
    /\ worker' = [worker EXCEPT ![w] = Idle]
    /\ UNCHANGED <<world, policy, rez, pay, cmd, inbox, stripe>>

-----------------------------------------------------------------------------

Init ==
    /\ world \in Worlds
    /\ policy \in world.policies
    /\ rez = "aktywna"
    /\ pay = [status |-> "oczekuje", refund |-> "brak", cs |-> FALSE, pi |-> FALSE]
    /\ cmd = [[k \in Keys |-> NoCommand] EXCEPT
                  !["checkout"] = [NoCommand EXCEPT !.typ = "create_checkout", !.stan = "queued"]]
    /\ inbox = [e \in Events |-> NoEvent]
    /\ worker = [w \in Workers |-> Idle]
    /\ stripe = NoProvider

Environment ==
    \/ GuestPays \/ AsyncSettles \/ LateSuccess \/ SessionExpires \/ AuthorizationExpires
    \/ \E k \in Keys : RefundSettles(k) \/ DeadlinePasses(k) \/ LeaseLapses(k)
    \/ \E e \in world.events : EventLeaseLapses(e) \/ \E k \in Keys \cup {None} : IngestWebhook(e, k)

Requests ==
    \/ CancelReservation \/ DeleteReservation \/ RetryPayment \/ EditReservation
    \/ \E o \in world.keys : OperatorRequest(o) \/ OperatorReconcile(o)

Work(w) ==
    \/ ClaimNext(w) \/ ExecuteClaim(w) \/ FinalizeClaim(w)
    \/ ExecuteWebhookClaim(w) \/ FinalizeWebhookClaim(w)
    \/ \E e \in world.events : ClaimNextWebhook(w, e)

Next ==
    \/ Environment \/ Requests
    \/ \E w \in world.workers : Work(w) \/ ClaimNothing(w) \/ ClaimNoWebhook(w) \/ Crash(w)

Spec == Init /\ [][Next]_vars

\* The thread of the worker runs for ever (_worker_loop) and every lease lapses
\* in the end; Stripe, the guest, the operator and crashes owe nothing.
Fairness ==
    /\ \A w \in Workers : WF_vars(w \in world.workers /\ (Work(w) \/ ClaimNothing(w)))
    /\ WF_vars(\E k \in Keys : LeaseLapses(k))

FairSpec == Spec /\ Fairness

-----------------------------------------------------------------------------
(* Properties.                                                              *)

Statuses == {"oczekuje", "autoryzowana", "oplacona", "nieudana", "wygasla", "anulowana", "zwrocona"}
Refunds  == {"brak", "oczekuje", "nieudana", "zwrocona"}
Types    == Sources \cup {"reconcile"}
Objects  == {"cs", "pi", "re", None}

ASSUME NoneAssumption == None \notin Statuses \cup Refunds \cup Types \cup {"cs", "pi", "re"}

Replies == [outcome : {"succeeded", "failed", "retry"}, target : Statuses \cup {None},
            refund : Refunds \cup {None}, object : Objects,
            cs : BOOLEAN, pi : BOOLEAN]

\* Every variable keeps to its type; a command has one of the states and
\* types of the tables in models.py, a worker holds one claim at most.
TypeOK ==
    /\ world \in Worlds
    /\ policy \in world.policies
    /\ rez \in {"aktywna", "odwolana", "brak"}
    /\ pay \in [status : Statuses, refund : Refunds, cs : BOOLEAN, pi : BOOLEAN]
    /\ cmd \in [Keys -> [typ : Types \cup {None},
                         stan : ACTIVE_STATES \cup {"brak", "succeeded", "failed", "cancelled"},
                         tries : 0 .. MaxTries, late : BOOLEAN, lease : Workers \cup {None},
                         lapsed : BOOLEAN, object : Objects]]
    /\ inbox \in [Events -> [stan : {"brak", "queued", "processing", "processed", "failed"},
                             tries : 0 .. MaxWebhookTries, lease : Workers \cup {None},
                             lapsed : BOOLEAN, of : Keys \cup {None}]]
    /\ worker \in [Workers -> [step : {"idle", "claimed", "answered", "event", "eventAnswered"},
                               id : Keys \cup Events \cup {None}, src : Keys \cup {None},
                               ref : Keys \cup {None}, object : Objects, cs : BOOLEAN,
                               pi : BOOLEAN, left : BOOLEAN, reply : Replies \cup {None}]]
    /\ stripe \in [session : {"none", "open", "complete", "expired"},
                   intent : {"none", "processing", "requires_payment_method",
                             "requires_capture", "succeeded", "canceled"},
                   refund : [Keys -> {"none", "pending", "succeeded", "failed"}],
                   replies : SUBSET [key : Keys, byIntent : BOOLEAN, reply : Replies],
                   refused : SUBSET Keys]

\* The books never claim money that Stripe does not hold: whatever the order
\* of replies, replays and events, a payment is paid only if it was captured
\* and refunded only if a refund went through.
BooksFollowProvider ==
    /\ pay.status \in {"oplacona", "zwrocona"} => stripe.intent = "succeeded"
    /\ pay.status = "zwrocona" => \E k \in Keys : stripe.refund[k] = "succeeded"
    /\ pay.refund = "zwrocona" <=> pay.status = "zwrocona"

\* ROADMAP-REZERWACJE.md:845: a late success after a cancellation leads to a
\* refund.  Once the books show money for a visit that was called off, or for
\* an attempt that another one replaced, its refund command exists, even after
\* the reservation is deleted.
LateMoneyIsReturned ==
    pay.status = "oplacona" =>
        /\ policy.refundOnCancel /\ (rez = "odwolana" \/ \E k \in CancellationKeys : Exists(Stored, k))
              => Exists(Stored, "cancelRefund")
        /\ Exists(Stored, "superseded") => Exists(Stored, "supersededRefund")

\* No deadline, lease or crash turns an unknown result into a failure: while
\* Stripe holds a Checkout the books have not seen, its command stays open and
\* the payment waits (no table is released), unless Stripe itself turned the
\* repeated request down; while a refund is on its way or done and the books
\* still miss it, its command is neither failed nor cancelled.
UnseenCheckout == stripe.session # "none" /\ ~pay.cs
CheckoutIsOpen == cmd["checkout"].stan \in ACTIVE_STATES /\ pay.status = "oczekuje"

AmbiguityIsKept ==
    /\ UnseenCheckout /\ "checkout" \notin stripe.refused => CheckoutIsOpen
    /\ \A k \in Keys : stripe.refund[k] \in {"pending", "succeeded"} /\ pay.status # "zwrocona"
           => cmd[k].stan \in ACTIVE_STATES \cup {"succeeded"}

\* Captured money is never forgotten: a paid payment can only become refunded,
\* and a refunded one stays so, however late or often Stripe repeats itself.
MoneyIsNotForgotten ==
    [][ /\ pay.status = "oplacona" => pay'.status \in {"oplacona", "zwrocona"}
        /\ pay.status = "zwrocona" => pay'.status = "zwrocona" ]_vars

\* However often workers die and answers get lost, the queue runs dry: every
\* command it ever accepted is settled, or left to a person as uncertain.
CommandsSettle ==
    <>[](\A k \in Keys : cmd[k].stan \notin {"queued", "retry", "processing"})

=============================================================================
