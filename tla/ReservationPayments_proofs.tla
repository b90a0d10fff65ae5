---------------------- MODULE ReservationPayments_proofs ----------------------
(***************************************************************************)
(* Proofs about ReservationPayments, for every set of workers, operator    *)
(* keys and events and every number of tries.                              *)
(*                                                                         *)
(* The inductive invariant has four parts.  ProviderOK is about Stripe     *)
(* alone.  A reply is Truthful when what it says of the money is the case, *)
(* and AnswersFor a command when its outcome may be recorded for it; the   *)
(* facts a reply rests on are never undone (Later), so that a reply stays  *)
(* truthful however late it is used.  Sound relates the payment and its    *)
(* commands to Stripe and to the set of commands that may have been sent;  *)
(* MoneyReturned is LateMoneyIsReturned for a transaction under way.       *)
(***************************************************************************)
EXTENDS ReservationPayments, TLAPS

-----------------------------------------------------------------------------
(* What is never undone at the provider.                                    *)

Captured(s)      == s.intent = "succeeded"
HasIntent(s)     == s.intent # "none"
HasRefund(s, k)  == s.refund[k] # "none"
MoneyBack(s)     == \E k \in Keys : s.refund[k] = "succeeded"
Answered(s, k)   == \E x \in s.replies : x.key = k /\ x.byIntent
NoCheckoutMade(s) == \E x \in s.replies : /\ x.key = "checkout" /\ x.byIntent
                                          /\ x.reply.outcome = "failed"
TurnedDown(s)    == "checkout" \in s.refused \/ NoCheckoutMade(s)
RefundDead(s, k) == s.refund[k] \in {"none", "failed"} /\ Answered(s, k)

Later(s, t) ==
    /\ HasIntent(s) => HasIntent(t)
    /\ Captured(s) => Captured(t)
    /\ MoneyBack(s) => MoneyBack(t)
    /\ TurnedDown(s) => TurnedDown(t)
    /\ \A k \in Keys : /\ HasRefund(s, k) => HasRefund(t, k)
                       /\ RefundDead(s, k) => RefundDead(t, k)

\* What a reply says of the payment is the case.
Truthful(r, s) ==
    /\ r.pi => HasIntent(s)
    /\ r.target \in {"oplacona", "zwrocona"} => Captured(s) /\ r.pi
    /\ r.target = "zwrocona" => MoneyBack(s)
    /\ r.refund = "zwrocona" => r.target = "zwrocona"
    /\ r.target # None => r.cs \/ r.pi \/ TurnedDown(s)
    /\ r.object = "pi" => r.pi

\* Its outcome and its object may be recorded for the command k of type typ.
AnswersFor(r, k, typ, s) ==
    /\ k = "checkout" /\ r.outcome = "succeeded" => r.cs \/ r.pi
    /\ k = "checkout" /\ r.outcome = "failed" => TurnedDown(s)
    /\ typ = "refund" /\ r.outcome = "failed" => RefundDead(s, k)
    /\ typ # "reconcile" /\ r.object = "re" => HasRefund(s, k)

Sessions == {"none", "open", "complete", "expired"}
Intents  == {"none", "processing", "requires_payment_method", "requires_capture", "succeeded", "canceled"}
RefundStates == {"none", "pending", "succeeded", "failed"}
ReplyRows == [key : Keys, byIntent : BOOLEAN, reply : Replies]
ProviderStates == [session : Sessions, intent : Intents, refund : [Keys -> RefundStates],
                   replies : SUBSET ReplyRows, refused : SUBSET Keys]

ProviderOK(s, C) ==
    /\ s.session \in {"none", "open"} => ~HasIntent(s)
    /\ s.session # "none" => Answered(s, "checkout") /\ ~NoCheckoutMade(s)
    /\ \A k \in Keys : HasRefund(s, k) => Captured(s) /\ Answered(s, k)
    /\ \A x \in s.replies : Truthful(x.reply, s) /\ AnswersFor(x.reply, x.key, C[x.key].typ, s)
                            /\ C[x.key].stan # "brak" 

-----------------------------------------------------------------------------
(* The payment and its commands.                                            *)

PayRows     == [status : Statuses, refund : Refunds, cs : BOOLEAN, pi : BOOLEAN]
CommandRows == [typ : Types \cup {None},
                stan : ACTIVE_STATES \cup {"brak", "succeeded", "failed", "cancelled"},
                tries : 0 .. MaxTries, late : BOOLEAN, lease : Workers \cup {None},
                lapsed : BOOLEAN, object : Objects]
Transactions == [rez : {"aktywna", "odwolana", "brak"}, pay : PayRows, cmd : [Keys -> CommandRows]]

Paid(p) == p.status \in {"oplacona", "zwrocona"}

\* A command that may have left: it exists and is not waiting for its first try.
Begun(row) ==
    row.stan # "brak" /\ (row.typ = "reconcile" \/ ~(row.stan \in PENDING_STATES /\ row.tries = 0))

BooksOK(p, s) ==
    /\ Paid(p) => Captured(s) /\ p.pi
    /\ p.status = "zwrocona" => MoneyBack(s)
    /\ p.refund = "zwrocona" <=> p.status = "zwrocona"
    /\ p.pi => HasIntent(s)
    /\ HasIntent(s) => p.cs

RowOK(row, k, s) ==
    /\ row.typ = "create_checkout" <=> k = "checkout"
    /\ row.stan = "brak" <=> row.typ = None
    /\ row.stan = "processing" => row.tries > 0
    /\ row.object = "pi" => HasIntent(s)
    /\ row.object = "re" /\ row.typ # "reconcile" => HasRefund(s, k)
    /\ HasRefund(s, k) => row.typ = "refund"

\* sent: the commands that some worker has claimed or Stripe has executed.
SentOK(row, k, p, s) ==
    /\ Begun(row)
    /\ row.typ = "refund" => \/ row.stan \in ACTIVE_STATES \cup {"succeeded"}
                             \/ RefundDead(s, k) \/ p.status = "zwrocona"
    /\ k = "checkout" /\ ~p.cs /\ ~TurnedDown(s) => row.stan \in ACTIVE_STATES

Sound(D, s, sent) ==
    /\ D \in Transactions
    /\ BooksOK(D.pay, s)
    /\ \A k \in Keys : RowOK(D.cmd[k], k, s) /\ (D.cmd[k].typ = "refund" => Paid(D.pay))
    /\ \A k \in sent : SentOK(D.cmd[k], k, D.pay, s)
    /\ D.cmd["checkout"].stan \in ACTIVE_STATES /\ ~D.pay.cs /\ ~TurnedDown(s)
           => D.pay.status = "oczekuje"

MoneyReturned(D) ==
    D.pay.status = "oplacona" =>
        /\ policy.refundOnCancel /\ (D.rez = "odwolana" \/ \E k \in CancellationKeys : Exists(D, k))
              => Exists(D, "cancelRefund")
        /\ Exists(D, "superseded") => Exists(D, "supersededRefund")

-----------------------------------------------------------------------------
(* The workers and the inbox.                                               *)

ClaimSteps == {"claimed", "answered"}
EventSteps == {"event", "eventAnswered"}
WorkerRows == [step : {"idle", "claimed", "answered", "event", "eventAnswered"},
               id : Keys \cup Events \cup {None}, src : Keys \cup {None},
               ref : Keys \cup {None}, object : Objects, cs : BOOLEAN,
               pi : BOOLEAN, left : BOOLEAN, reply : Replies \cup {None}]
EventRows  == [stan : {"brak", "queued", "processing", "processed", "failed"},
               tries : 0 .. MaxWebhookTries, lease : Workers \cup {None},
               lapsed : BOOLEAN, of : Keys \cup {None}]

ClaimOK(j, C, s) ==
    j.step \in ClaimSteps =>
        /\ j.id \in Keys
        /\ C[j.id].stan # "brak" /\ C[Operation(j)].stan # "brak"
        /\ j.src # None => C[j.id].typ = "reconcile" /\ C[j.src].typ \in Sources
        /\ C[Operation(j)].typ = "refund" => j.pi
        /\ j.pi => HasIntent(s)
        /\ j.ref # None => HasRefund(s, j.ref)
        /\ j.object = "re" => HasRefund(s, Operation(j))
        /\ j.object = "pi" => HasIntent(s)

\* A claim that found nothing left to refund met a payment that was refunded.
LeftOK(j, C, p) ==
    j.step \in ClaimSteps /\ C[Operation(j)].typ = "refund" /\ ~j.left => p.status = "zwrocona"

\* Its answer says nothing of Stripe.
NothingLeft(j, C) ==
    C[Operation(j)].typ = "refund" /\ ~j.left /\ j.reply = Failure("refund")

AnswerOK(j, C, s) ==
    /\ j.step \in {"answered", "eventAnswered"} => j.reply \in Replies /\ Truthful(j.reply, s)
    /\ j.step = "answered" => \/ AnswersFor(j.reply, Operation(j), C[Operation(j)].typ, s)
                              \/ NothingLeft(j, C)

EventOK(e, row, s) ==
    /\ row.stan = "brak" => row.tries = 0
    /\ row.stan = "queued" => row.tries < MaxWebhookTries
    /\ row.stan # "brak" =>
           /\ e \in {"intent", "intent_succeeded"} => HasIntent(s)
           /\ e = "refund" => row.of \in Keys /\ HasRefund(s, row.of)

InboxOK(j, I) == j.step \in EventSteps => j.id \in Events /\ I[j.id].stan # "brak"

SentBy(W, s) == {k \in Keys : \/ \E w \in Workers : W[w].step \in ClaimSteps /\ Operation(W[w]) = k
                              \/ HasRefund(s, k)
                              \/ k = "checkout" /\ s.session # "none"}
Sent == SentBy(worker, stripe)

IInv ==
    /\ TypeOK
    /\ ProviderOK(stripe, cmd)
    /\ Sound(Stored, stripe, Sent)
    /\ MoneyReturned(Stored)
    /\ \A w \in Workers : /\ ClaimOK(worker[w], cmd, stripe) /\ AnswerOK(worker[w], cmd, stripe)
                          /\ InboxOK(worker[w], inbox) /\ LeftOK(worker[w], cmd, pay)
    /\ \A e \in Events : EventOK(e, inbox[e], stripe)
-----------------------------------------------------------------------------
(* Replies.                                                                 *)

LEMMA PlainReply ==
    ASSUME NEW s, NEW k, NEW typ, NEW outcome \in {"failed", "retry"}
    PROVE  /\ Plain(outcome) \in Replies
           /\ Truthful(Plain(outcome), s)
           /\ outcome = "retry" => AnswersFor(Plain(outcome), k, typ, s)
BY NoneAssumption DEF Plain, Replies, Truthful, AnswersFor, Objects, Statuses, Refunds

LEMMA FailureReply ==
    ASSUME NEW s, NEW k, NEW typ,
           typ = "create_checkout" => TurnedDown(s)
    PROVE  /\ Failure(typ) \in Replies
           /\ Truthful(Failure(typ), s)
           /\ /\ k = "checkout" => typ = "create_checkout"
              /\ typ = "refund" => RefundDead(s, k)
              => AnswersFor(Failure(typ), k, typ, s)
           /\ Failure(typ).outcome = "failed"
<1>. DEFINE r == Failure(typ)
<1>1. /\ r.outcome = "failed" /\ r.object = None /\ r.cs = FALSE /\ r.pi = FALSE
      /\ r.target = IF typ = "create_checkout" THEN "nieudana" ELSE None
      /\ r.refund = IF typ = "refund" THEN "nieudana" ELSE None
  BY DEF Failure, Plain
<1>2. r \in Replies
  BY DEF Failure, Plain, Replies, Objects, Statuses, Refunds
<1>. QED
  BY <1>1, <1>2, NoneAssumption DEF Truthful, AnswersFor, Statuses, Refunds

LEMMA IntentTargetFacts ==
    ASSUME NEW s \in ProviderStates
    PROVE  /\ IntentTarget(s) \in {"autoryzowana", "oplacona", "zwrocona", "anulowana", None}
           /\ IntentTarget(s) \in {"oplacona", "zwrocona"} => Captured(s)
           /\ IntentTarget(s) = "zwrocona" => MoneyBack(s)
           /\ IntentTarget(s) # None => HasIntent(s)
BY NoneAssumption DEF IntentTarget, ProviderStates, Intents, Captured, MoneyBack, HasIntent, Statuses

LEMMA IntentReply ==
    ASSUME NEW s \in ProviderStates, HasIntent(s), NEW k, NEW typ
    PROVE  /\ PaymentIntentResult(s) \in Replies
           /\ Truthful(PaymentIntentResult(s), s)
           /\ AnswersFor(PaymentIntentResult(s), k, typ, s)
<1>. DEFINE r == PaymentIntentResult(s)
<1>1. /\ r.outcome = "succeeded" /\ r.object = "pi" /\ r.cs = FALSE /\ r.pi = TRUE
      /\ r.target = IntentTarget(s)
      /\ r.refund = IF IntentTarget(s) = "zwrocona" THEN "zwrocona" ELSE None
      /\ r \in [outcome : {"succeeded"}, target : {IntentTarget(s)}, refund : {"zwrocona", None},
                object : {"pi"}, cs : BOOLEAN, pi : BOOLEAN]
  BY DEF PaymentIntentResult, Plain
<1>2. r \in Replies
  BY <1>1, IntentTargetFacts DEF Replies, Objects, Statuses, Refunds
<1>. QED
  BY <1>1, <1>2, IntentTargetFacts, NoneAssumption DEF Truthful, AnswersFor, Statuses, Refunds

LEMMA CheckoutReply ==
    ASSUME NEW s \in ProviderStates, NEW k, NEW typ, NEW explicit \in BOOLEAN
    PROVE  /\ CheckoutResult(s, explicit) \in Replies
           /\ Truthful(CheckoutResult(s, explicit), s)
           /\ AnswersFor(CheckoutResult(s, explicit), k, typ, s)
           /\ CheckoutResult(s, explicit).outcome = "succeeded"
           /\ CheckoutResult(s, explicit).cs
           /\ CheckoutResult(s, explicit).refund = None
           /\ CheckoutResult(s, explicit).object = "cs"
<1>. DEFINE r == CheckoutResult(s, explicit)
            t == IF s.session # "expired" \/ IntentTarget(s) \in {"autoryzowana", "oplacona", "zwrocona"}
                 THEN IntentTarget(s)
                 ELSE IF explicit THEN "anulowana" ELSE "wygasla"
<1>1. /\ r.outcome = "succeeded" /\ r.object = "cs" /\ r.cs = TRUE /\ r.pi = HasIntent(s)
      /\ r.target = t /\ r.refund = None
      /\ r \in [outcome : {"succeeded"}, target : {t}, refund : {None},
                object : {"cs"}, cs : BOOLEAN, pi : BOOLEAN]
  BY DEF CheckoutResult, Plain, HasIntent
<1>2. /\ t \in Statuses \cup {None}
      /\ t \in {"oplacona", "zwrocona"} => t = IntentTarget(s)
  BY IntentTargetFacts DEF Statuses
<1>3. r \in Replies
  BY <1>1, <1>2 DEF Replies, Objects, Statuses, Refunds
<1>. QED
  BY <1>1, <1>2, <1>3, IntentTargetFacts, NoneAssumption DEF Truthful, AnswersFor, Statuses, Refunds

LEMMA RefundReply ==
    ASSUME NEW s \in ProviderStates, NEW k \in Keys,
           HasRefund(s, k), Captured(s), Answered(s, k)
    PROVE  /\ RefundResult(s, k) \in Replies
           /\ Truthful(RefundResult(s, k), s)
           /\ RefundResult(s, k).object = "re"
           /\ RefundResult(s, k).outcome = "succeeded" => RefundResult(s, k).target = "zwrocona"
           /\ RefundResult(s, k).outcome = "failed" => RefundDead(s, k)
<1>. DEFINE r == RefundResult(s, k)
<1>1. s.refund[k] \in {"pending", "succeeded", "failed"}
  BY DEF HasRefund, ProviderStates, RefundStates
<1>2. /\ r.object = "re" /\ r.cs = FALSE /\ r.pi = TRUE
      /\ r.outcome = IF s.refund[k] = "succeeded" THEN "succeeded"
                     ELSE IF s.refund[k] = "failed" THEN "failed" ELSE "retry"
      /\ r.target = IF s.refund[k] = "succeeded" THEN "zwrocona" ELSE None
      /\ r.refund = IF s.refund[k] = "succeeded" THEN "zwrocona"
                    ELSE IF s.refund[k] = "failed" THEN "nieudana" ELSE "oczekuje"
      /\ r \in Replies
  <2>1. CASE s.refund[k] = "succeeded"
    BY <2>1 DEF RefundResult, Plain, Replies, Objects, Statuses, Refunds
  <2>2. CASE s.refund[k] = "failed"
    BY <2>2 DEF RefundResult, Plain, Replies, Objects, Statuses, Refunds
  <2>3. CASE s.refund[k] \notin {"succeeded", "failed"}
    BY <2>3 DEF RefundResult, Plain, Replies, Objects, Statuses, Refunds
  <2>. QED
    BY <2>1, <2>2, <2>3
<1>. QED
  BY <1>1, <1>2, NoneAssumption
     DEF Truthful, Statuses, Refunds, RefundDead, Captured, HasIntent, MoneyBack

\* A reading of its own state keeps what the reply says of the payment.
LEMMA SemanticReply ==
    ASSUME NEW s, NEW k, NEW typ, NEW r \in Replies, Truthful(r, s), AnswersFor(r, k, typ, s),
           k = "checkout" => typ = "create_checkout"
    PROVE  /\ CommandSemanticResult(typ, r) \in Replies
           /\ Truthful(CommandSemanticResult(typ, r), s)
           /\ AnswersFor(CommandSemanticResult(typ, r), k, typ, s)
<1>. DEFINE q == CommandSemanticResult(typ, r)
<1>1. CASE q = r
  BY <1>1
<1>2. CASE q # r
  <2>1. typ \in Mutations /\ r.outcome = "succeeded"
    BY <1>2 DEF CommandSemanticResult
  <2>2. \E o \in {"failed", "retry"} : q = [r EXCEPT !.outcome = o] /\ (typ = "refund" => o = "retry")
    <3>1. CASE typ = "capture"
      BY <1>2, <3>1 DEF CommandSemanticResult
    <3>2. CASE typ = "cancel_authorization"
      BY <1>2, <3>2 DEF CommandSemanticResult
    <3>3. CASE typ = "refund"
      BY <1>2, <3>3 DEF CommandSemanticResult
    <3>. QED
      BY <2>1, <3>1, <3>2, <3>3 DEF Mutations
  <2>3. PICK o \in {"failed", "retry"} :
            q = [r EXCEPT !.outcome = o] /\ (typ = "refund" => o = "retry")
    BY <2>2
  <2>4. k # "checkout"
    BY <2>1 DEF Mutations
  <2>5. /\ q \in Replies
        /\ q.outcome = o /\ q.target = r.target /\ q.refund = r.refund /\ q.object = r.object
        /\ q.cs = r.cs /\ q.pi = r.pi
    BY <2>3 DEF Replies
  <2>. QED
    BY <2>3, <2>4, <2>5 DEF Truthful, AnswersFor
<1>. QED
  BY <1>1, <1>2

LEMMA LaterReply ==
    ASSUME NEW s, NEW t, Later(s, t), NEW r, NEW k \in Keys, NEW typ
    PROVE  /\ Truthful(r, s) => Truthful(r, t)
           /\ AnswersFor(r, k, typ, s) => AnswersFor(r, k, typ, t)
BY DEF Later, Truthful, AnswersFor

-----------------------------------------------------------------------------
(* What a transaction does: Sound is kept, and nothing is forgotten.        *)

MoneyKept(p, q) ==
    /\ p.status = "oplacona" => q.status \in {"oplacona", "zwrocona"}
    /\ p.status = "zwrocona" => q.status = "zwrocona"

Follows(D, E) ==
    /\ D.pay.cs => E.pay.cs
    /\ D.pay.pi => E.pay.pi
    /\ MoneyKept(D.pay, E.pay)
    /\ \A k \in Keys : Exists(D, k) => Exists(E, k) /\ E.cmd[k].typ = D.cmd[k].typ

\* New commands may appear, those that are there stay as they are.
Adds(D, E) == \A k \in Keys : Exists(D, k) => E.cmd[k] = D.cmd[k]

LEMMA FollowsChain ==
    ASSUME NEW D, NEW E, NEW F, Follows(D, E), Follows(E, F)
    PROVE  Follows(D, F) /\ (Adds(D, E) /\ Adds(E, F) => Adds(D, F))
BY DEF Follows, MoneyKept, Exists, Adds

LEMMA FollowsSelf == ASSUME NEW D PROVE Follows(D, D) /\ Adds(D, D)
BY DEF Follows, MoneyKept, Adds

LEMMA TriesAreNumbers == MaxTries \in Nat \ {0} /\ MaxWebhookTries \in Nat \ {0}
BY PaymentAssumption

LEMMA SystemKeysAreKeys ==
    /\ {"checkout", "cancel", "cancelMarker", "delete", "deleteMarker",
        "cancelRefund", "superseded", "supersededRefund"} \subseteq Keys
    /\ CancellationKeys \subseteq Keys
    /\ None \notin Keys
BY PaymentAssumption DEF Keys, SystemKeys, CancellationKeys

LEMMA QueueCommandSound ==
    ASSUME NEW D, NEW s, NEW sent \in SUBSET Keys, Sound(D, s, sent),
           NEW k \in Keys \ {"checkout"}, NEW typ \in Types \ {"create_checkout"},
           typ = "refund" => Paid(D.pay)
    PROVE  /\ Sound(QueueCommand(D, k, typ), s, sent)
           /\ Follows(D, QueueCommand(D, k, typ)) /\ Adds(D, QueueCommand(D, k, typ))
           /\ QueueCommand(D, k, typ).pay = D.pay
           /\ QueueCommand(D, k, typ).rez = D.rez
           /\ Exists(QueueCommand(D, k, typ), k)
           /\ \A o \in Keys \ {k} : QueueCommand(D, k, typ).cmd[o] = D.cmd[o]
<1>. DEFINE E == QueueCommand(D, k, typ)
            row == [NoCommand EXCEPT !.typ = typ, !.stan = "queued"]
<1>1. CASE Exists(D, k)
  BY <1>1, FollowsSelf DEF QueueCommand
<1>2. CASE ~Exists(D, k)
  <2>1. /\ row \in CommandRows /\ row.typ = typ /\ row.stan = "queued" /\ row.object = None
        /\ row.tries = 0
    <3>1. 0 \in 0 .. MaxTries
      BY TriesAreNumbers
    <3>. QED
      BY <3>1 DEF NoCommand, CommandRows, ACTIVE_STATES, PENDING_STATES, Objects
  <2>2. E = [D EXCEPT !.cmd[k] = row]
    BY <1>2 DEF QueueCommand
  <2>. HIDE DEF row
  <2>3. /\ D \in Transactions /\ E \in Transactions /\ E.pay = D.pay /\ E.rez = D.rez
        /\ E.cmd[k] = row /\ \A o \in Keys \ {k} : E.cmd[o] = D.cmd[o]
    BY <2>1, <2>2 DEF Sound, Transactions
  <2>4. ~HasRefund(s, k) /\ k \notin sent /\ D.cmd[k].typ # "refund"
    BY <1>2, NoneAssumption
       DEF Sound, RowOK, SentOK, Begun, Exists, Types, Sources, Mutations
  <2>. HIDE DEF E
  <2>5. RowOK(row, k, s)
    BY <2>1, <2>4, NoneAssumption DEF RowOK, Types
  <2>6. Sound(E, s, sent)
    BY <2>1, <2>3, <2>4, <2>5, SystemKeysAreKeys DEF Sound
  <2>7. Follows(D, E) /\ Adds(D, E)
    BY <1>2, <2>3 DEF Follows, Exists, MoneyKept, Adds
  <2>. QED
    BY <2>1, <2>3, <2>6, <2>7 DEF Exists, E
<1>. QED
  BY <1>1, <1>2

LEMMA RequestRefundSound ==
    ASSUME NEW D, NEW s, NEW sent \in SUBSET Keys, Sound(D, s, sent),
           NEW k \in Keys \ {"checkout"}, D.pay.status = "oplacona"
    PROVE  /\ Sound(RequestRefund(D, k), s, sent)
           /\ Follows(D, RequestRefund(D, k)) /\ Adds(D, RequestRefund(D, k))
           /\ RequestRefund(D, k).pay.status = D.pay.status
           /\ RequestRefund(D, k).rez = D.rez
           /\ Exists(RequestRefund(D, k), k)
           /\ \A o \in Keys \ {k} : RequestRefund(D, k).cmd[o] = D.cmd[o]
<1>. DEFINE Q == QueueCommand(D, k, "refund")
            E == RequestRefund(D, k)
<1>1. /\ Sound(Q, s, sent) /\ Follows(D, Q) /\ Adds(D, Q) /\ Q.pay = D.pay /\ Q.rez = D.rez /\ Exists(Q, k)
      /\ \A o \in Keys \ {k} : Q.cmd[o] = D.cmd[o]
  BY QueueCommandSound DEF Types, Sources, Mutations, Paid
<1>2. E = [Q EXCEPT !.pay.refund = "oczekuje"]
  BY DEF RequestRefund
<1>. HIDE DEF Q, E
<1>3. /\ E \in Transactions /\ E.rez = Q.rez /\ E.cmd = Q.cmd
      /\ E.pay.status = Q.pay.status /\ E.pay.cs = Q.pay.cs /\ E.pay.pi = Q.pay.pi
      /\ E.pay.refund = "oczekuje"
  BY <1>1, <1>2 DEF Sound, Transactions, PayRows, Refunds
<1>4. Sound(E, s, sent)
  BY <1>1, <1>3 DEF Sound, BooksOK, Paid, SentOK
<1>. QED
  BY <1>1, <1>3, <1>4 DEF Follows, MoneyKept, Exists, Adds, E

LEMMA CancellationRefundSound ==
    ASSUME NEW D, NEW s, NEW sent \in SUBSET Keys, Sound(D, s, sent)
    PROVE  LET E == EnsureCancellationRefund(D)
           IN  /\ Sound(E, s, sent) /\ Follows(D, E) /\ Adds(D, E)
               /\ E.pay.status = D.pay.status /\ E.rez = D.rez
               /\ /\ E.pay.status = "oplacona" /\ policy.refundOnCancel
                  /\ E.rez = "odwolana" \/ \E k \in CancellationKeys : Exists(E, k)
                  => Exists(E, "cancelRefund")
<1>. DEFINE guard == /\ D.pay.status = "oplacona" /\ policy.refundOnCancel
                     /\ D.rez = "odwolana" \/ \E k \in CancellationKeys : Exists(D, k)
                     /\ ~Exists(D, "cancelRefund")
<1>1. CASE guard
  BY <1>1, RequestRefundSound, SystemKeysAreKeys DEF EnsureCancellationRefund
<1>2. CASE ~guard
  <2>1. EnsureCancellationRefund(D) = D
    BY <1>2 DEF EnsureCancellationRefund
  <2>. QED
    BY <1>2, <2>1, FollowsSelf
<1>. QED
  BY <1>1, <1>2

LEMMA SupersededRefundSound ==
    ASSUME NEW D, NEW s, NEW sent \in SUBSET Keys, Sound(D, s, sent)
    PROVE  LET E == EnsureSupersededRefund(D)
           IN  /\ Sound(E, s, sent) /\ Follows(D, E) /\ Adds(D, E)
               /\ E.pay.status = D.pay.status /\ E.rez = D.rez
               /\ E.pay.status = "oplacona" /\ Exists(E, "superseded") => Exists(E, "supersededRefund")
               /\ \A k \in CancellationKeys : Exists(E, k) <=> Exists(D, k)
<1>. DEFINE guard == /\ D.pay.status = "oplacona"
                     /\ Exists(D, "superseded") /\ ~Exists(D, "supersededRefund")
<1>1. CASE guard
  <2>1. EnsureSupersededRefund(D) = RequestRefund(D, "supersededRefund")
    BY <1>1 DEF EnsureSupersededRefund
  <2>2. "supersededRefund" \in Keys \ {"checkout"}
    BY SystemKeysAreKeys
  <2>3. CancellationKeys \subseteq Keys \ {"supersededRefund"}
    BY SystemKeysAreKeys DEF CancellationKeys
  <2>. QED
    BY <1>1, <2>1, <2>2, <2>3, RequestRefundSound DEF Exists
<1>2. CASE ~guard
  <2>1. EnsureSupersededRefund(D) = D
    BY <1>2 DEF EnsureSupersededRefund
  <2>. QED
    BY <1>2, <2>1, FollowsSelf
<1>. QED
  BY <1>1, <1>2

LEMMA ReleaseSound ==
    ASSUME NEW D, NEW s, NEW sent \in SUBSET Keys, Sound(D, s, sent)
    PROVE  LET E == ReleaseReservation(D)
           IN  /\ Sound(E, s, sent) /\ Follows(D, E) /\ Adds(D, E)
               /\ E.pay = D.pay /\ E.cmd = D.cmd
               /\ D.pay.status = "oplacona" => E = D
<1>1. CASE D.pay.status \in {"nieudana", "wygasla"} /\ policy.release /\ D.rez = "aktywna"
  <2>1. ReleaseReservation(D) = [D EXCEPT !.rez = "odwolana"]
    BY <1>1 DEF ReleaseReservation
  <2>. QED
    BY <1>1, <2>1 DEF Sound, Transactions, Follows, MoneyKept, Exists, Adds
<1>2. CASE ~(D.pay.status \in {"nieudana", "wygasla"} /\ policy.release /\ D.rez = "aktywna")
  <2>1. ReleaseReservation(D) = D
    BY <1>2 DEF ReleaseReservation
  <2>. QED
    BY <2>1, FollowsSelf
<1>. QED
  BY <1>1, <1>2

\* The end of every transaction that changes the payment: late money is returned.
LEMMA ReconciledSound ==
    ASSUME NEW D, NEW s, NEW sent \in SUBSET Keys, Sound(D, s, sent)
    PROVE  LET E == ReconcilePaymentReservation(D)
           IN  /\ Sound(E, s, sent) /\ Follows(D, E) /\ Adds(D, E) /\ MoneyReturned(E)
               /\ E.pay.status = D.pay.status
<1>. DEFINE A == EnsureCancellationRefund(D)
            B == EnsureSupersededRefund(A)
            E == ReleaseReservation(B)
<1>1. /\ Sound(A, s, sent) /\ Follows(D, A) /\ Adds(D, A) /\ A.pay.status = D.pay.status
      /\ /\ A.pay.status = "oplacona" /\ policy.refundOnCancel
         /\ A.rez = "odwolana" \/ \E k \in CancellationKeys : Exists(A, k)
         => Exists(A, "cancelRefund")
  BY CancellationRefundSound
<1>2. /\ Sound(B, s, sent) /\ Follows(A, B) /\ Adds(A, B)
      /\ B.pay.status = A.pay.status /\ B.rez = A.rez
      /\ B.pay.status = "oplacona" /\ Exists(B, "superseded") => Exists(B, "supersededRefund")
      /\ \A k \in CancellationKeys : Exists(B, k) <=> Exists(A, k)
  BY <1>1, SupersededRefundSound
<1>3. /\ Sound(E, s, sent) /\ Follows(B, E) /\ Adds(B, E) /\ E.pay = B.pay /\ E.cmd = B.cmd
      /\ B.pay.status = "oplacona" => E = B
  BY <1>2, ReleaseSound
<1>. HIDE DEF A, B, E
<1>4. Follows(D, E) /\ Adds(D, E)
  <2>1. Follows(D, B) /\ Adds(D, B)
    BY <1>1, <1>2, FollowsChain
  <2>. QED
    BY <1>3, <2>1, FollowsChain
<1>5. MoneyReturned(E)
  <2>1. "cancelRefund" \in CancellationKeys
    BY DEF CancellationKeys
  <2>. QED
    BY <1>1, <1>2, <1>3, <2>1 DEF MoneyReturned
<1>6. ReconcilePaymentReservation(D) = E
  BY DEF ReconcilePaymentReservation, A, B, E
<1>. QED
  BY <1>1, <1>2, <1>3, <1>4, <1>5, <1>6

-----------------------------------------------------------------------------
(* The projection of a reply.                                               *)

LEMMA ApplyStatusFacts ==
    ASSUME NEW p \in PayRows, NEW target \in Statuses \cup {None},
           p.refund = "zwrocona" <=> p.status = "zwrocona"
    PROVE  LET q == ApplyPaymentStatus(p, target)
           IN  /\ q \in PayRows /\ q.cs = p.cs /\ q.pi = p.pi
               /\ q.refund = "zwrocona" <=> q.status = "zwrocona"
               /\ MoneyKept(p, q)
               /\ q.status \in {p.status, target}
               /\ target = "oplacona" => q.status \in {"oplacona", "zwrocona"}
               /\ target = "zwrocona" /\ p.status = "oplacona" => q.status = "zwrocona"
<1>. DEFINE q == ApplyPaymentStatus(p, target)
<1>1. CASE target \in AllowedTransitions(p.status)
  <2>1. q = [p EXCEPT !.status = target, !.refund = IF target = "zwrocona" THEN "zwrocona" ELSE @]
    BY <1>1 DEF ApplyPaymentStatus
  <2>2. /\ target \in Statuses /\ target # "oczekuje"
        /\ p.status # "zwrocona"
        /\ p.status = "oplacona" => target = "zwrocona"
    BY <1>1 DEF AllowedTransitions, PayRows, Statuses
  <2>3. /\ q \in PayRows /\ q.cs = p.cs /\ q.pi = p.pi /\ q.status = target
        /\ q.refund = IF target = "zwrocona" THEN "zwrocona" ELSE p.refund
    BY <2>1, <2>2 DEF PayRows, Refunds
  <2>. QED
    BY <2>2, <2>3 DEF MoneyKept
<1>2. CASE target \notin AllowedTransitions(p.status)
  <2>1. q = p
    BY <1>2 DEF ApplyPaymentStatus
  <2>2. target = "oplacona" => p.status \in {"oplacona", "zwrocona"}
    BY <1>2 DEF AllowedTransitions, PayRows, Statuses
  <2>3. ~(target = "zwrocona" /\ p.status = "oplacona")
    BY <1>2 DEF AllowedTransitions
  <2>. QED
    BY <2>1, <2>2, <2>3 DEF MoneyKept
<1>. QED
  BY <1>1, <1>2

LEMMA ProjectTargetFacts ==
    ASSUME NEW p \in PayRows, NEW target \in Statuses \cup {None},
           p.refund = "zwrocona" <=> p.status = "zwrocona"
    PROVE  LET q == ProjectTarget(p, target)
           IN  /\ q \in PayRows /\ q.cs = p.cs /\ q.pi = p.pi
               /\ q.refund = "zwrocona" <=> q.status = "zwrocona"
               /\ MoneyKept(p, q)
               /\ q.status # p.status => q.status = target
<1>1. CASE target = "zwrocona"
  <2>. DEFINE m == ApplyPaymentStatus(p, "oplacona")
  <2>1. /\ m \in PayRows /\ m.cs = p.cs /\ m.pi = p.pi
        /\ m.refund = "zwrocona" <=> m.status = "zwrocona"
        /\ MoneyKept(p, m) /\ m.status \in {p.status, "oplacona"}
        /\ m.status \in {"oplacona", "zwrocona"}
    <3>1. "oplacona" \in Statuses \cup {None}
      BY DEF Statuses
    <3>. QED
      BY <3>1, ApplyStatusFacts
  <2>. HIDE DEF m
  <2>2. LET q == ApplyPaymentStatus(m, target)
        IN  /\ q \in PayRows /\ q.cs = m.cs /\ q.pi = m.pi
            /\ q.refund = "zwrocona" <=> q.status = "zwrocona"
            /\ MoneyKept(m, q) /\ q.status \in {m.status, target}
            /\ m.status = "oplacona" => q.status = "zwrocona"
    BY <1>1, <2>1, ApplyStatusFacts
  <2>3. ProjectTarget(p, target) = ApplyPaymentStatus(m, target)
    BY <1>1 DEF ProjectTarget, m
  <2>. QED
    BY <1>1, <2>1, <2>2, <2>3 DEF MoneyKept
<1>2. CASE target # "zwrocona"
  <2>1. ProjectTarget(p, target) = ApplyPaymentStatus(p, target)
    BY <1>2 DEF ProjectTarget
  <2>. QED
    BY <2>1, ApplyStatusFacts
<1>. QED
  BY <1>1, <1>2

LEMMA ProjectRefundFacts ==
    ASSUME NEW p \in PayRows, NEW r \in Refunds \cup {None},
           p.refund = "zwrocona" <=> p.status = "zwrocona"
    PROVE  LET q == ProjectRefund(p, r)
           IN  /\ q \in PayRows /\ q.cs = p.cs /\ q.pi = p.pi /\ q.status = p.status
               /\ q.refund = "zwrocona" <=> q.status = "zwrocona"
BY NoneAssumption DEF ProjectRefund, PayRows, Refunds

LEMMA ProjectionSound ==
    ASSUME NEW D, NEW s, NEW sent \in SUBSET Keys, Sound(D, s, sent),
           NEW r \in Replies, Truthful(r, s)
    PROVE  LET E == ApplyProviderProjection(D, r)
           IN  /\ Sound(E, s, sent) /\ Follows(D, E) /\ Adds(D, E) /\ MoneyReturned(E)
               /\ r.cs \/ r.pi => E.pay.cs
<1>. DEFINE seen == [D.pay EXCEPT !.cs = @ \/ r.cs, !.pi = @ \/ r.pi]
            m == ProjectTarget(seen, r.target)
            q == ProjectRefund(m, r.refund)
            P == [D EXCEPT !.pay = q]
            E == ReconcilePaymentReservation(P)
<1>1. /\ r.target \in Statuses \cup {None} /\ r.refund \in Refunds \cup {None}
      /\ r.cs \in BOOLEAN /\ r.pi \in BOOLEAN
  BY DEF Replies
<1>2. /\ D \in Transactions /\ BooksOK(D.pay, s) /\ D.pay \in PayRows
  BY DEF Sound, Transactions
<1>3. /\ seen \in PayRows /\ seen.status = D.pay.status /\ seen.refund = D.pay.refund
      /\ seen.cs = (D.pay.cs \/ r.cs) /\ seen.pi = (D.pay.pi \/ r.pi)
  BY <1>1, <1>2 DEF PayRows
<1>. HIDE DEF seen
<1>4. /\ m \in PayRows /\ m.cs = seen.cs /\ m.pi = seen.pi
      /\ m.refund = "zwrocona" <=> m.status = "zwrocona"
      /\ MoneyKept(seen, m) /\ (m.status # seen.status => m.status = r.target)
  BY <1>1, <1>2, <1>3, ProjectTargetFacts DEF BooksOK
<1>. HIDE DEF m
<1>5. /\ q \in PayRows /\ q.cs = m.cs /\ q.pi = m.pi /\ q.status = m.status
      /\ q.refund = "zwrocona" <=> q.status = "zwrocona"
  BY <1>1, <1>4, ProjectRefundFacts
<1>. HIDE DEF q
<1>6. /\ P \in Transactions /\ P.pay = q /\ P.cmd = D.cmd /\ P.rez = D.rez
  BY <1>2, <1>5 DEF Transactions
<1>7. /\ q.cs = (D.pay.cs \/ r.cs) /\ q.pi = (D.pay.pi \/ r.pi)
      /\ q.status # D.pay.status => q.status = r.target
      /\ q.status \in Statuses
      /\ MoneyKept(D.pay, q)
  BY <1>3, <1>4, <1>5 DEF PayRows, MoneyKept
<1>8. BooksOK(q, s)
  BY <1>1, <1>2, <1>5, <1>7 DEF BooksOK, Truthful, Paid
<1>9. r.cs \/ r.pi => q.cs
  BY <1>2, <1>7 DEF BooksOK, Truthful
<1>. HIDE DEF P
<1>10. Sound(P, s, sent)
  <2>1. Paid(D.pay) => Paid(q)
    BY <1>7 DEF Paid, MoneyKept
  <2>2. ~q.cs => ~D.pay.cs
    BY <1>7
  <2>3. \A k \in sent : SentOK(P.cmd[k], k, P.pay, s)
    BY <1>6, <1>7, <2>2 DEF Sound, SentOK, MoneyKept
  <2>4. P.cmd["checkout"].stan \in ACTIVE_STATES /\ ~P.pay.cs /\ ~TurnedDown(s)
           => P.pay.status = "oczekuje"
    BY <1>6, <1>7, <1>9, <2>2, NoneAssumption DEF Sound, Truthful
  <2>. QED
    BY <1>6, <1>8, <2>1, <2>3, <2>4 DEF Sound
<1>11. Follows(D, P) /\ Adds(D, P)
  BY <1>6, <1>7 DEF Follows, Exists, Adds
<1>12. Sound(E, s, sent) /\ Follows(P, E) /\ Adds(P, E) /\ MoneyReturned(E)
  BY <1>10, ReconciledSound
<1>. HIDE DEF E
<1>13. Follows(D, E) /\ Adds(D, E) /\ (r.cs \/ r.pi => E.pay.cs)
  BY <1>6, <1>9, <1>11, <1>12, FollowsChain DEF Follows
<1>14. ApplyProviderProjection(D, r) = E
  BY DEF ApplyProviderProjection, E, P, q, m, seen
<1>. QED
  BY <1>12, <1>13, <1>14

-----------------------------------------------------------------------------
(* The rows of the commands.                                                *)

KeepsRow(a, b) ==
    /\ b.typ = a.typ /\ b.object = a.object
    /\ b.stan = "brak" <=> a.stan = "brak"
    /\ b.stan = "processing" => b.tries > 0

SameMoney(D, E) == E.rez = D.rez /\ \A k \in Keys : Exists(E, k) <=> Exists(D, k)

LEMMA RowsSound ==
    ASSUME NEW D, NEW s, NEW sent \in SUBSET Keys, Sound(D, s, sent),
           NEW E \in Transactions, E.rez = D.rez, E.pay = D.pay,
           \A k \in Keys : KeepsRow(D.cmd[k], E.cmd[k]),
           \A k \in sent : SentOK(E.cmd[k], k, E.pay, s),
           E.cmd["checkout"].stan \in ACTIVE_STATES => D.cmd["checkout"].stan \in ACTIVE_STATES
    PROVE  Sound(E, s, sent) /\ Follows(D, E) /\ (MoneyReturned(D) => MoneyReturned(E))
<1>1. Follows(D, E)
  BY DEF Follows, KeepsRow, MoneyKept, Exists
<1>2. \A k \in Keys : RowOK(E.cmd[k], k, s) /\ (E.cmd[k].typ = "refund" => Paid(E.pay))
  BY DEF Sound, RowOK, KeepsRow
<1>3. Sound(E, s, sent)
  BY <1>2 DEF Sound
<1>4. MoneyReturned(D) => MoneyReturned(E)
  BY SystemKeysAreKeys DEF MoneyReturned, KeepsRow, Exists
<1>. QED
  BY <1>1, <1>3, <1>4

LEMMA FinishedRow ==
    ASSUME NEW row \in CommandRows, NEW stan \in {"succeeded", "failed", "cancelled", "uncertain"}
    PROVE  /\ Finished(row, stan) \in CommandRows
           /\ Finished(row, stan).typ = row.typ /\ Finished(row, stan).object = row.object
           /\ Finished(row, stan).stan = stan
<1>1. 0 \in 0 .. MaxTries
  BY TriesAreNumbers
<1>2. Finished(row, stan) \in CommandRows
  BY <1>1 DEF Finished, CommandRows, ACTIVE_STATES, PENDING_STATES
<1>. QED
  BY <1>2 DEF Finished, CommandRows

LEMMA RecoverSound ==
    ASSUME NEW D, NEW s, NEW sent \in SUBSET Keys, Sound(D, s, sent)
    PROVE  LET E == RecoverExpiredLeases(D)
           IN  /\ Sound(E, s, sent) /\ Follows(D, E) /\ (MoneyReturned(D) => MoneyReturned(E))
<1>. DEFINE E == RecoverExpiredLeases(D)
            new(row) == IF row.stan # "processing" \/ ~row.lapsed THEN row
                        ELSE IF row.late \/ row.tries >= MaxTries THEN Finished(row, "uncertain")
                        ELSE [row EXCEPT !.stan = "retry", !.lease = None, !.lapsed = FALSE]
<1>1. E = [D EXCEPT !.cmd = [k \in Keys |-> new(D.cmd[k])]]
  BY DEF RecoverExpiredLeases
<1>2. ASSUME NEW k \in Keys
      PROVE  LET row == D.cmd[k]
             IN  /\ new(row) \in CommandRows /\ KeepsRow(row, new(row))
                 /\ Begun(row) => Begun(new(row))
                 /\ row.stan \in ACTIVE_STATES <=> new(row).stan \in ACTIVE_STATES
                 /\ row.stan = "succeeded" <=> new(row).stan = "succeeded"
  <2>. DEFINE row == D.cmd[k]
  <2>1. row \in CommandRows /\ row.tries \in Nat /\ (row.stan = "processing" => row.tries > 0)
    BY TriesAreNumbers DEF Sound, Transactions, RowOK, CommandRows
  <2>2. CASE row.stan # "processing" \/ ~row.lapsed
    BY <2>1, <2>2 DEF KeepsRow
  <2>3. CASE ~(row.stan # "processing" \/ ~row.lapsed) /\ (row.late \/ row.tries >= MaxTries)
    <3>1. new(row) = Finished(row, "uncertain")
      BY <2>3
    <3>. HIDE DEF new
    <3>. QED
      BY <2>1, <2>3, <3>1, FinishedRow DEF KeepsRow, Begun, ACTIVE_STATES, PENDING_STATES
  <2>4. CASE ~(row.stan # "processing" \/ ~row.lapsed) /\ ~(row.late \/ row.tries >= MaxTries)
    <3>1. new(row) = [row EXCEPT !.stan = "retry", !.lease = None, !.lapsed = FALSE]
      BY <2>4
    <3>2. /\ new(row) \in CommandRows /\ new(row).stan = "retry" /\ new(row).tries = row.tries
          /\ new(row).typ = row.typ /\ new(row).object = row.object
      BY <2>1, <3>1 DEF CommandRows, ACTIVE_STATES, PENDING_STATES
    <3>. HIDE DEF new
    <3>. QED
      BY <2>1, <2>4, <3>2 DEF KeepsRow, Begun, ACTIVE_STATES, PENDING_STATES
  <2>. QED
    BY <2>2, <2>3, <2>4
<1>. HIDE DEF new, E
<1>3. /\ E \in Transactions /\ E.rez = D.rez /\ E.pay = D.pay
      /\ \A k \in Keys : E.cmd[k] = new(D.cmd[k])
  BY <1>1, <1>2 DEF Sound, Transactions
<1>4. \A k \in sent : SentOK(E.cmd[k], k, E.pay, s)
  BY <1>2, <1>3 DEF Sound, SentOK, KeepsRow
<1>5. Sound(E, s, sent) /\ Follows(D, E) /\ (MoneyReturned(D) => MoneyReturned(E))
  BY <1>2, <1>3, <1>4, SystemKeysAreKeys, RowsSound
<1>. QED
  BY <1>5 DEF E

LEMMA SettledFacts ==
    ASSUME NEW p \in PayRows, NEW row \in CommandRows, NEW otherwise
    PROVE  /\ Settled(p, row, otherwise) \in {"succeeded", "cancelled", otherwise}
           /\ row.typ = "refund" /\ Paid(p) => Settled(p, row, otherwise) \in {"succeeded", otherwise}
           /\ row.typ = "create_checkout" /\ ~p.cs /\ p.status = "oczekuje"
                 => Settled(p, row, otherwise) = otherwise
BY DEF Settled, Satisfied, Relevant, Paid

LEMMA SettleSound ==
    ASSUME NEW D, NEW s, NEW sent \in SUBSET Keys, Sound(D, s, sent),
           NEW S \in SUBSET StaleRows(D)
    PROVE  LET E == SettleRows(D, S)
           IN  /\ Sound(E, s, sent) /\ Follows(D, E) /\ (MoneyReturned(D) => MoneyReturned(E))
               /\ E.pay = D.pay /\ \A k \in Keys \ S : E.cmd[k] = D.cmd[k]
<1>. DEFINE E == SettleRows(D, S)
            fate(k) == Settled(D.pay, D.cmd[k], "uncertain")
<1>1. E = [D EXCEPT !.cmd = [k \in Keys |-> IF k \in S THEN Finished(D.cmd[k], fate(k)) ELSE D.cmd[k]]]
  BY DEF SettleRows
<1>2. /\ D \in Transactions /\ D.pay \in PayRows /\ \A k \in Keys : D.cmd[k] \in CommandRows
      /\ \A k \in S : k \in Keys /\ D.cmd[k].stan \in PENDING_STATES
  BY DEF Sound, Transactions, StaleRows
<1>3. \A k \in S : fate(k) \in {"succeeded", "cancelled", "uncertain"}
  BY <1>2, SettledFacts
<1>4. ASSUME NEW k \in Keys
      PROVE  E.cmd[k] \in CommandRows /\ KeepsRow(D.cmd[k], E.cmd[k])
  <2>1. E.cmd[k] = IF k \in S THEN Finished(D.cmd[k], fate(k)) ELSE D.cmd[k]
    BY <1>1, <1>2 DEF Transactions
  <2>. HIDE DEF E, fate
  <2>. QED
    BY <1>2, <1>3, <2>1, FinishedRow DEF KeepsRow, PENDING_STATES, Sound, RowOK
<1>5. /\ E \in Transactions /\ E.rez = D.rez /\ E.pay = D.pay
      /\ \A k \in Keys : E.cmd[k] = IF k \in S THEN Finished(D.cmd[k], fate(k)) ELSE D.cmd[k]
  BY <1>1, <1>2, <1>4 DEF Transactions
<1>. HIDE DEF E
<1>6. ASSUME NEW k \in sent, k \in S
      PROVE  SentOK(E.cmd[k], k, E.pay, s)
  <2>1. /\ E.cmd[k].typ = D.cmd[k].typ /\ E.cmd[k].stan = fate(k)
        /\ k \in Keys /\ fate(k) \in {"succeeded", "cancelled", "uncertain"}
    BY <1>2, <1>3, <1>5, <1>6, FinishedRow
  <2>2. Begun(E.cmd[k])
    BY <2>1 DEF Begun, PENDING_STATES
  <2>3. E.cmd[k].typ = "refund" => fate(k) \in {"succeeded", "uncertain"}
    BY <1>2, <2>1, SettledFacts DEF Sound
  <2>4. k = "checkout" /\ ~E.pay.cs /\ ~TurnedDown(s) => fate(k) = "uncertain"
    <3>1. k = "checkout" => D.cmd[k].typ = "create_checkout"
      BY <2>1 DEF Sound, RowOK
    <3>2. k = "checkout" /\ ~E.pay.cs /\ ~TurnedDown(s) => D.pay.status = "oczekuje"
      BY <1>5 DEF Sound, SentOK
    <3>. QED
      BY <1>2, <1>5, <2>1, <3>1, <3>2, SettledFacts
  <2>. HIDE DEF fate
  <2>. QED
    BY <2>1, <2>2, <2>3, <2>4 DEF SentOK, ACTIVE_STATES
<1>7. \A k \in sent : SentOK(E.cmd[k], k, E.pay, s)
  BY <1>5, <1>6 DEF Sound
<1>8. E.cmd["checkout"].stan \in ACTIVE_STATES => D.cmd["checkout"].stan \in ACTIVE_STATES
  BY <1>2, <1>5, SystemKeysAreKeys DEF ACTIVE_STATES
<1>9. Sound(E, s, sent) /\ Follows(D, E) /\ (MoneyReturned(D) => MoneyReturned(E))
  BY <1>4, <1>5, <1>7, <1>8, RowsSound
<1>. QED
  BY <1>5, <1>9 DEF E

\* Without money in the books there is nothing to return.
LEMMA ReconciledUnpaid ==
    ASSUME NEW D \in Transactions, D.pay.status # "oplacona"
    PROVE  LET E == ReconcilePaymentReservation(D)
           IN  E \in Transactions /\ E.pay = D.pay /\ E.cmd = D.cmd
<1>1. EnsureCancellationRefund(D) = D
  BY DEF EnsureCancellationRefund
<1>2. EnsureSupersededRefund(D) = D
  BY DEF EnsureSupersededRefund
<1>3. ReconcilePaymentReservation(D) = ReleaseReservation(D)
  BY <1>1, <1>2 DEF ReconcilePaymentReservation
<1>. QED
  BY <1>3 DEF ReleaseReservation, Transactions

LEMMA ExpireSound ==
    ASSUME NEW D, NEW s, NEW sent \in SUBSET Keys, Sound(D, s, sent)
    PROVE  LET G == ExpireDueCommands(D)
           IN  /\ Sound(G, s, sent) /\ Follows(D, G) /\ (MoneyReturned(D) => MoneyReturned(G))
<1>. DEFINE due   == {k \in Keys : D.cmd[k].stan \in PENDING_STATES /\ D.cmd[k].late}
            first == /\ "checkout" \in due /\ Fresh(D.cmd["checkout"])
                     /\ D.pay.status = "oczekuje" /\ ~D.pay.cs
            F     == [D EXCEPT !.pay.status = "wygasla"]
            E     == IF first THEN ReconcilePaymentReservation(F) ELSE D
            fate(k) == Settled(IF k = "checkout" THEN D.pay ELSE E.pay, D.cmd[k],
                               IF Fresh(D.cmd[k]) THEN "failed" ELSE "uncertain")
            rows  == [k \in Keys |-> IF k \in due THEN Finished(E.cmd[k], fate(k)) ELSE E.cmd[k]]
            unsent == /\ E.pay.refund = "oczekuje"
                      /\ \E k \in due : rows[k].typ = "refund" /\ rows[k].stan = "failed"
                      /\ \A k \in Keys : rows[k].typ = "refund" => rows[k].stan \notin ACTIVE_STATES
            G     == [E EXCEPT !.cmd = rows, !.pay.refund = IF unsent THEN "nieudana" ELSE @]
<1>1. /\ D \in Transactions /\ D.pay \in PayRows /\ \A k \in Keys : D.cmd[k] \in CommandRows
      /\ BooksOK(D.pay, s) /\ \A k \in Keys : RowOK(D.cmd[k], k, s)
      /\ \A k \in Keys : D.cmd[k].typ = "refund" => Paid(D.pay)
      /\ "checkout" \in Keys
  BY SystemKeysAreKeys DEF Sound, Transactions
\* A command that was sent is not fresh.
<1>2. \A k \in sent \cap due : D.cmd[k].typ = "reconcile" \/ ~Fresh(D.cmd[k])
  BY DEF Sound, SentOK, Begun, Fresh
<1>3. /\ E \in Transactions /\ E.cmd = D.cmd /\ E.pay \in PayRows /\ BooksOK(E.pay, s)
      /\ E.pay.cs = D.pay.cs /\ E.pay.pi = D.pay.pi /\ MoneyKept(D.pay, E.pay)
      /\ \A k \in Keys : D.cmd[k].typ = "refund" => Paid(E.pay) /\ E.pay = D.pay
      /\ first => E.pay.status = "wygasla"
      /\ ~first => E = D
  <2>1. CASE first
    <3>1. /\ F \in Transactions /\ F.cmd = D.cmd /\ F.pay \in PayRows
          /\ F.pay.status = "wygasla" /\ F.pay.refund = D.pay.refund
          /\ F.pay.cs = D.pay.cs /\ F.pay.pi = D.pay.pi
      BY <1>1 DEF Transactions, PayRows, Statuses
    <3>. HIDE DEF F
    <3>2. E \in Transactions /\ E.pay = F.pay /\ E.cmd = F.cmd
      BY <2>1, <3>1, ReconciledUnpaid
    <3>3. BooksOK(F.pay, s)
      BY <1>1, <2>1, <3>1 DEF BooksOK, Paid
    <3>4. \A k \in Keys : D.cmd[k].typ # "refund"
      BY <1>1, <2>1 DEF Paid
    <3>. HIDE DEF E
    <3>. QED
      BY <2>1, <3>1, <3>2, <3>3, <3>4 DEF MoneyKept
  <2>2. CASE ~first
    BY <1>1, <2>2 DEF MoneyKept
  <2>. QED
    BY <2>1, <2>2
<1>. HIDE DEF E
<1>4. \A k \in due : fate(k) \in {"succeeded", "cancelled", "failed", "uncertain"}
  BY <1>1, <1>3, SettledFacts
<1>5. \A k \in due : D.cmd[k].typ = "refund" /\ k \in sent => fate(k) \in {"succeeded", "uncertain"}
  BY <1>1, <1>2, <1>3, SettledFacts
<1>6. ASSUME "checkout" \in due, "checkout" \in sent, ~D.pay.cs, ~TurnedDown(s)
      PROVE  fate("checkout") = "uncertain"
  <2>1. D.cmd["checkout"].typ = "create_checkout"
    BY <1>1 DEF RowOK
  <2>2. D.pay.status = "oczekuje" /\ ~Fresh(D.cmd["checkout"])
    BY <1>2, <1>6, <2>1 DEF Sound, ACTIVE_STATES
  <2>. QED
    BY <1>1, <1>6, <2>1, <2>2, SettledFacts
<1>7. first => fate("checkout") = "failed" /\ "checkout" \notin sent
  <2>1. D.cmd["checkout"].typ = "create_checkout"
    BY <1>1 DEF RowOK
  <2>. QED
    BY <1>1, <1>2, <2>1, SettledFacts
<1>8. \A k \in Keys : rows[k] = IF k \in due THEN Finished(D.cmd[k], fate(k)) ELSE D.cmd[k]
  BY <1>3
<1>. HIDE DEF rows, fate
<1>9. ASSUME NEW k \in Keys
      PROVE  /\ rows[k] \in CommandRows /\ KeepsRow(D.cmd[k], rows[k])
             /\ k \in due => rows[k].stan = fate(k)
             /\ k \notin due => rows[k] = D.cmd[k]
  BY <1>1, <1>4, <1>8, FinishedRow DEF KeepsRow, PENDING_STATES, RowOK
<1>10. /\ G \in Transactions /\ G.cmd = rows /\ G.rez = E.rez
       /\ G.pay.status = E.pay.status /\ G.pay.cs = E.pay.cs /\ G.pay.pi = E.pay.pi
       /\ G.pay.refund # E.pay.refund => E.pay.refund = "oczekuje" /\ G.pay.refund = "nieudana"
  <2>. DEFINE refund == IF unsent THEN "nieudana" ELSE E.pay.refund
              money == [E.pay EXCEPT !.refund = refund]
  <2>1. rows \in [Keys -> CommandRows]
    BY <1>9 DEF rows
  <2>2. /\ refund \in Refunds
        /\ refund # E.pay.refund => E.pay.refund = "oczekuje" /\ refund = "nieudana"
    BY <1>3 DEF PayRows, Refunds
  <2>3. G = [E EXCEPT !.cmd = rows, !.pay = money]
    BY <1>3 DEF Transactions, PayRows
  <2>. HIDE DEF refund, G
  <2>4. /\ money \in PayRows /\ money.status = E.pay.status /\ money.cs = E.pay.cs
        /\ money.pi = E.pay.pi /\ money.refund = refund
    BY <1>3, <2>2 DEF PayRows
  <2>. HIDE DEF money
  <2>5. G \in Transactions /\ G.cmd = rows /\ G.rez = E.rez /\ G.pay = money
    BY <1>3, <2>1, <2>3, <2>4 DEF Transactions
  <2>. QED
    BY <2>2, <2>4, <2>5
<1>. HIDE DEF G
<1>11. BooksOK(G.pay, s)
  BY <1>3, <1>10 DEF BooksOK, Paid
<1>12. \A k \in Keys : RowOK(G.cmd[k], k, s) /\ (G.cmd[k].typ = "refund" => Paid(G.pay))
  BY <1>1, <1>3, <1>9, <1>10 DEF RowOK, KeepsRow, Paid
<1>13. ASSUME NEW k \in sent
       PROVE  SentOK(G.cmd[k], k, G.pay, s)
  <2>1. /\ SentOK(D.cmd[k], k, D.pay, s) /\ G.cmd[k] = rows[k] /\ G.pay.cs = D.pay.cs
        /\ D.pay.status = "zwrocona" => G.pay.status = "zwrocona"
    BY <1>3, <1>10 DEF Sound, MoneyKept
  <2>2. CASE k \in due
    <3>1. Begun(rows[k])
      BY <1>4, <1>9, <2>2 DEF Begun, PENDING_STATES
    <3>2. rows[k].typ = D.cmd[k].typ
      BY <1>9 DEF KeepsRow
    <3>. QED
      BY <1>5, <1>6, <1>9, <2>1, <2>2, <3>1, <3>2 DEF SentOK, ACTIVE_STATES
  <2>3. CASE k \notin due
    BY <1>9, <2>1, <2>3 DEF SentOK
  <2>. QED
    BY <2>2, <2>3
<1>14. G.cmd["checkout"].stan \in ACTIVE_STATES /\ ~G.pay.cs /\ ~TurnedDown(s)
           => G.pay.status = "oczekuje"
  <2>1. CASE first
    BY <1>7, <1>9, <1>10, <2>1 DEF ACTIVE_STATES, PENDING_STATES
  <2>2. CASE ~first
    BY <1>1, <1>3, <1>9, <1>10, <2>2 DEF Sound, ACTIVE_STATES
  <2>. QED
    BY <2>1, <2>2
<1>15. Sound(G, s, sent)
  BY <1>10, <1>11, <1>12, <1>13, <1>14 DEF Sound
<1>16. Follows(D, G)
  BY <1>3, <1>9, <1>10 DEF Follows, MoneyKept, Exists, KeepsRow
<1>17. MoneyReturned(D) => MoneyReturned(G)
  <2>1. \A k \in Keys : Exists(G, k) <=> Exists(D, k)
    BY <1>9, <1>10 DEF Exists, KeepsRow
  <2>2. CASE first
    BY <1>3, <1>10, <2>2 DEF MoneyReturned
  <2>3. CASE ~first
    BY <1>3, <1>10, <2>1, <2>3, SystemKeysAreKeys DEF MoneyReturned
  <2>. QED
    BY <2>2, <2>3
<1>18. ExpireDueCommands(D) = G
  BY DEF ExpireDueCommands, G, rows, fate, E
<1>. QED
  BY <1>15, <1>16, <1>17, <1>18

LEMMA RecoveredSound ==
    ASSUME NEW sent \in SUBSET Keys, NEW s, Sound(Stored, s, sent), MoneyReturned(Stored)
    PROVE  Sound(Recovered, s, sent) /\ Follows(Stored, Recovered) /\ MoneyReturned(Recovered)
BY RecoverSound, ExpireSound, FollowsChain DEF Recovered

-----------------------------------------------------------------------------
(* A command is claimed, and its answer recorded.                           *)

LEMMA ClaimSound ==
    ASSUME NEW D, NEW s, NEW sent \in SUBSET Keys, Sound(D, s, sent),
           NEW k \in Keys, D.cmd[k].stan \in PENDING_STATES, ~(D.cmd[k].tries >= MaxTries),
           NEW w \in Workers, NEW src, NEW ref,
           src \in IF D.cmd[k].typ = "reconcile" THEN OneOf(ReconcileSources(D)) ELSE {None},
           ref \in IF D.cmd[k].typ = "reconcile" THEN OneOf(RefundReferences(D)) ELSE {None}
    PROVE  LET E == [D EXCEPT !.cmd[k].tries = @ + 1, !.cmd[k].stan = "processing",
                              !.cmd[k].lease = w, !.cmd[k].lapsed = FALSE]
               j == [step |-> "claimed", id |-> k, src |-> src, ref |-> ref,
                     object |-> IF src = None THEN None ELSE D.cmd[src].object,
                     cs |-> D.pay.cs, pi |-> D.pay.pi, left |-> D.pay.status = "oplacona", reply |-> None]
           IN  /\ Sound(E, s, sent \cup {Operation(j)}) /\ Follows(D, E)
               /\ MoneyReturned(D) => MoneyReturned(E)
               /\ ClaimOK(j, E.cmd, s) /\ j \in WorkerRows /\ Operation(j) \in Keys
               /\ LeftOK(j, E.cmd, E.pay)
<1>. DEFINE E == [D EXCEPT !.cmd[k].tries = @ + 1, !.cmd[k].stan = "processing",
                           !.cmd[k].lease = w, !.cmd[k].lapsed = FALSE]
            j == [step |-> "claimed", id |-> k, src |-> src, ref |-> ref,
                  object |-> IF src = None THEN None ELSE D.cmd[src].object,
                  cs |-> D.pay.cs, pi |-> D.pay.pi, left |-> D.pay.status = "oplacona", reply |-> None]
            row == [D.cmd[k] EXCEPT !.tries = @ + 1, !.stan = "processing", !.lease = w, !.lapsed = FALSE]
<1>1. /\ D \in Transactions /\ D.pay \in PayRows /\ \A o \in Keys : D.cmd[o] \in CommandRows
      /\ BooksOK(D.pay, s) /\ \A o \in Keys : RowOK(D.cmd[o], o, s)
      /\ \A o \in Keys : D.cmd[o].typ = "refund" => Paid(D.pay)
      /\ None \notin Keys
  BY SystemKeysAreKeys DEF Sound, Transactions
<1>2. /\ row \in CommandRows /\ row.stan = "processing" /\ row.tries > 0
      /\ row.typ = D.cmd[k].typ /\ row.object = D.cmd[k].object
  <2>1. D.cmd[k].tries + 1 \in 0 .. MaxTries /\ D.cmd[k].tries + 1 > 0
    BY <1>1, TriesAreNumbers DEF CommandRows
  <2>. QED
    BY <1>1, <2>1, ZenonT(60) DEF CommandRows, ACTIVE_STATES, PENDING_STATES
<1>3. E = [D EXCEPT !.cmd = [D.cmd EXCEPT ![k] = row]]
  BY <1>1, ZenonT(60) DEF Transactions, CommandRows
<1>. HIDE DEF row, E
<1>4. /\ E \in Transactions /\ E.rez = D.rez /\ E.pay = D.pay /\ E.cmd[k] = row
      /\ \A o \in Keys \ {k} : E.cmd[o] = D.cmd[o]
  BY <1>1, <1>2, <1>3 DEF Transactions
<1>5. /\ j.id = k /\ j.src = src /\ j.ref = ref /\ j.step = "claimed" /\ j.pi = D.pay.pi
      /\ j.left = (D.pay.status = "oplacona")
      /\ j.object = IF src = None THEN None ELSE D.cmd[src].object
      /\ Operation(j) = IF src = None THEN k ELSE src
  BY DEF Operation
<1>. HIDE DEF j
<1>6. src # None => /\ src \in Keys /\ D.cmd[src].typ \in Sources /\ D.cmd[src].stan = "uncertain"
                    /\ src # k /\ D.cmd[k].typ = "reconcile"
  BY DEF OneOf, ReconcileSources, PENDING_STATES
<1>7. ref # None => ref \in Keys /\ HasRefund(s, ref)
  BY <1>1 DEF OneOf, RefundReferences, RowOK
<1>8. /\ Operation(j) \in Keys
      /\ Operation(j) = k \/ (src # None /\ Operation(j) = src)
  BY <1>5, <1>6
<1>9. \A o \in Keys : KeepsRow(D.cmd[o], E.cmd[o])
  BY <1>1, <1>2, <1>4 DEF KeepsRow, RowOK, PENDING_STATES
<1>10. SentOK(row, k, E.pay, s)
  BY <1>2 DEF SentOK, Begun, ACTIVE_STATES, PENDING_STATES
<1>11. ASSUME NEW o \in sent \cup {Operation(j)}
       PROVE  SentOK(E.cmd[o], o, E.pay, s)
  <2>1. CASE o = k
    BY <1>4, <1>10, <2>1
  <2>2. CASE o # k /\ o \in sent
    BY <1>4, <2>2 DEF Sound
  <2>3. CASE src # None /\ o = src
    BY <1>4, <1>6, <2>3 DEF SentOK, Begun, ACTIVE_STATES, PENDING_STATES
  <2>. QED
    BY <1>8, <2>1, <2>2, <2>3
<1>12. Sound(D, s, sent) /\ E.cmd["checkout"].stan \in ACTIVE_STATES
          => D.cmd["checkout"].stan \in ACTIVE_STATES
  BY <1>4, SystemKeysAreKeys DEF ACTIVE_STATES
<1>13. /\ Sound(E, s, sent \cup {Operation(j)}) /\ Follows(D, E)
       /\ MoneyReturned(D) => MoneyReturned(E)
  <2>1. \A o \in sent : SentOK(E.cmd[o], o, E.pay, s)
    BY <1>11
  <2>2. Sound(E, s, sent) /\ Follows(D, E) /\ (MoneyReturned(D) => MoneyReturned(E))
    BY <1>4, <1>9, <1>12, <2>1, RowsSound
  <2>. QED
    BY <1>11, <2>2 DEF Sound
<1>14. ClaimOK(j, E.cmd, s)
  <2>1. Operation(j) \in Keys /\ E.cmd[Operation(j)].typ = D.cmd[Operation(j)].typ
    BY <1>8, <1>9 DEF KeepsRow
  <2>2. E.cmd[k].stan # "brak" /\ E.cmd[Operation(j)].stan # "brak"
    BY <1>2, <1>4, <1>6, <1>8
  <2>3. E.cmd[Operation(j)].typ = "refund" => j.pi
    BY <1>1, <1>5, <2>1 DEF BooksOK
  <2>4. j.pi => HasIntent(s)
    BY <1>1, <1>5 DEF BooksOK
  <2>5. src # None => E.cmd[k].typ = "reconcile" /\ E.cmd[src].typ \in Sources
    BY <1>6, <1>9 DEF KeepsRow
  <2>6. /\ j.object = "re" => HasRefund(s, Operation(j))
        /\ j.object = "pi" => HasIntent(s)
    <3>1. CASE src = None
      BY <1>5, <3>1, NoneAssumption
    <3>2. CASE src # None
      <4>1. D.cmd[src].typ # "reconcile"
        BY <1>6, <3>2 DEF Sources, Mutations
      <4>. QED
        BY <1>1, <1>5, <1>6, <3>2, <4>1 DEF RowOK
    <3>. QED
      BY <3>1, <3>2
  <2>. QED
    BY <1>5, <1>7, <2>1, <2>2, <2>3, <2>4, <2>5, <2>6 DEF ClaimOK
<1>15. j \in WorkerRows
  <2>1. /\ src \in Keys \cup {None} /\ ref \in Keys \cup {None}
        /\ (IF src = None THEN None ELSE D.cmd[src].object) \in Objects
    BY <1>1, <1>6, <1>7 DEF CommandRows, Objects
  <2>. QED
    BY <1>1, <2>1 DEF j, WorkerRows, ClaimSteps, PayRows
<1>16. LeftOK(j, E.cmd, E.pay)
  <2>1. Operation(j) \in Keys /\ E.cmd[Operation(j)].typ = D.cmd[Operation(j)].typ
    BY <1>8, <1>9 DEF KeepsRow
  <2>. QED
    BY <1>1, <1>4, <1>5, <2>1 DEF LeftOK, Paid
<1>. QED
  BY <1>8, <1>13, <1>14, <1>15, <1>16 DEF E, j

LEMMA RecordedSound ==
    ASSUME NEW w \in Workers, NEW s, NEW sent \in SUBSET Keys, Sound(Stored, s, sent),
           MoneyReturned(Stored), worker[w] \in WorkerRows, worker[w].step = "answered",
           ClaimOK(worker[w], cmd, s), AnswerOK(worker[w], cmd, s), Held(w),
           LeftOK(worker[w], cmd, pay),
           NEW stan \in Outcomes(cmd[worker[w].id], IF ClaimConflict(worker[w]) THEN "uncertain"
                                                    ELSE worker[w].reply.outcome)
    PROVE  LET E == Recorded(w, stan)
           IN  Sound(E, s, sent) /\ Follows(Stored, E) /\ MoneyReturned(E)
<1>. DEFINE j        == worker[w]
            conflict == ClaimConflict(j)
            D        == IF conflict THEN Stored ELSE ApplyProviderProjection(Stored, j.reply)
            found    == IF conflict THEN None ELSE j.reply.object
            resolved == j.src # None /\ stan \in {"succeeded", "failed"}
            chain    == /\ resolved /\ stan = "succeeded"
                        /\ \E k \in Keys \ {j.src} : /\ D.cmd[k].typ \in Sources
                                                     /\ D.cmd[k].stan = "uncertain"
            source(row) == [row EXCEPT !.object = IF @ = None THEN found ELSE @,
                                       !.stan = IF resolved /\ @ = "uncertain" THEN stan ELSE @]
            left(row) == IF chain THEN [row EXCEPT !.stan = "queued", !.tries = 0]
                         ELSE IF stan = "retry" THEN [row EXCEPT !.stan = stan]
                         ELSE Finished(row, stan)
            own(row) == [left(row) EXCEPT !.object = IF found = None THEN @ ELSE found,
                                          !.lease = None, !.lapsed = FALSE]
            E == [D EXCEPT !.cmd = [k \in Keys |-> CASE k = j.id -> own(D.cmd[k])
                                                     [] k = j.src -> source(D.cmd[k])
                                                     [] OTHER -> D.cmd[k]]]
            op == Operation(j)
<1>1. /\ j.reply \in Replies /\ Truthful(j.reply, s)
      /\ AnswersFor(j.reply, op, cmd[op].typ, s) \/ NothingLeft(j, cmd)
      /\ j.id \in Keys /\ op \in Keys /\ j.src \in Keys \cup {None}
      /\ None \notin Keys
  BY SystemKeysAreKeys DEF AnswerOK, ClaimOK, ClaimSteps, WorkerRows, Operation
<1>2. /\ Sound(D, s, sent) /\ Follows(Stored, D) /\ Adds(Stored, D) /\ MoneyReturned(D)
      /\ ~conflict /\ (j.reply.cs \/ j.reply.pi) => D.pay.cs
  BY <1>1, ProjectionSound, FollowsSelf
<1>3. /\ D.cmd[j.id] = cmd[j.id] /\ cmd[j.id].stan = "processing"
      /\ D.cmd[op].typ = cmd[op].typ
      /\ j.src # None => /\ j.src # j.id /\ op = j.src /\ D.cmd[j.id].typ = "reconcile"
                         /\ D.cmd[j.src].typ \in Sources
                         /\ D.cmd[j.src] = cmd[j.src]
      /\ j.src = None => op = j.id
  <2>1. Stored.cmd = cmd
    BY DEF Stored
  <2>2. cmd[j.id].stan = "processing" /\ cmd[j.id].stan # "brak" /\ cmd[op].stan # "brak"
    BY DEF Held, ClaimOK, ClaimSteps
  <2>3. D.cmd[j.id] = cmd[j.id] /\ D.cmd[op] = cmd[op]
    BY <1>1, <1>2, <2>1, <2>2 DEF Adds, Exists
  <2>4. j.src # None => cmd[j.id].typ = "reconcile" /\ cmd[j.src].typ \in Sources /\ op = j.src
    BY DEF ClaimOK, ClaimSteps, Operation
  <2>5. j.src = None => op = j.id
    BY DEF Operation
  <2>6. "reconcile" \notin Sources
    BY DEF Sources, Mutations
  <2>. QED
    BY <2>2, <2>3, <2>4, <2>5, <2>6
<1>. HIDE DEF D
<1>4. /\ D \in Transactions /\ D.pay \in PayRows /\ \A k \in Keys : D.cmd[k] \in CommandRows
      /\ \A k \in Keys : RowOK(D.cmd[k], k, s) /\ (D.cmd[k].typ = "refund" => Paid(D.pay))
      /\ BooksOK(D.pay, s)
  BY <1>2 DEF Sound, Transactions
<1>5. /\ stan \in {"succeeded", "failed", "retry", "uncertain"}
      /\ stan \in {"succeeded", "failed"} => ~conflict /\ j.reply.outcome = stan
  BY <1>1 DEF Outcomes, Replies
<1>6. /\ found \in Objects
      /\ found = "pi" => HasIntent(s)
      /\ found = "re" /\ D.cmd[op].typ # "reconcile" => HasRefund(s, op)
      /\ stan = "failed" /\ D.cmd[op].typ = "refund" => RefundDead(s, op) \/ D.pay.status = "zwrocona"
      /\ op = "checkout" /\ stan = "succeeded" => D.pay.cs
      /\ op = "checkout" /\ stan = "failed" => TurnedDown(s)
  <2>1. found \in Objects
    BY <1>1 DEF Replies, Objects
  <2>2. found = "pi" => HasIntent(s)
    BY <1>1, NoneAssumption DEF Truthful
  <2>3. CASE AnswersFor(j.reply, op, cmd[op].typ, s)
    <3>1. found = "re" /\ D.cmd[op].typ # "reconcile" => HasRefund(s, op)
      BY <1>3, <2>3, NoneAssumption DEF AnswersFor
    <3>. QED
      BY <1>2, <1>3, <1>5, <2>1, <2>2, <2>3, <3>1 DEF AnswersFor
  <2>4. CASE NothingLeft(j, cmd)
    <3>1. cmd[op].typ = "refund" /\ ~j.left /\ j.reply = Failure("refund")
      BY <2>4 DEF NothingLeft
    <3>2. j.reply.object = None
      BY <3>1 DEF Failure, Plain
    <3>3. op # "checkout"
      BY <1>1, <1>3, <1>4, <3>1 DEF RowOK
    <3>4. pay.status = "zwrocona"
      BY <3>1 DEF LeftOK, ClaimSteps
    <3>5. D.pay.status = "zwrocona"
      BY <1>2, <3>4 DEF Follows, MoneyKept, Stored
    <3>. QED
      BY <2>1, <2>2, <3>2, <3>3, <3>5, NoneAssumption
  <2>. QED
    BY <1>1, <2>3, <2>4
<1>. HIDE DEF found, resolved, chain
<1>7. chain => j.src # None
  BY DEF chain, resolved
<1>8. LET a == D.cmd[j.id]
          b == own(D.cmd[j.id])
      IN  /\ b \in CommandRows /\ b.typ = a.typ /\ b.object \in {a.object, found}
          /\ chain => b.stan = "queued"
          /\ ~chain => b.stan = stan
          /\ ~chain /\ stan = "retry" => b.tries = a.tries
  <2>. DEFINE a == D.cmd[j.id]
              c == left(a)
  <2>1. a \in CommandRows
    BY <1>1, <1>4
  <2>2. /\ c \in CommandRows /\ c.typ = a.typ /\ c.object = a.object
        /\ chain => c.stan = "queued"
        /\ ~chain => c.stan = stan
        /\ ~chain /\ stan = "retry" => c.tries = a.tries
    <3>1. CASE chain
      <4>1. 0 \in 0 .. MaxTries
        BY TriesAreNumbers
      <4>. QED
        BY <2>1, <3>1, <4>1 DEF CommandRows, ACTIVE_STATES, PENDING_STATES
    <3>2. CASE ~chain /\ stan = "retry"
      BY <2>1, <3>2 DEF CommandRows, ACTIVE_STATES, PENDING_STATES
    <3>3. CASE ~chain /\ stan # "retry"
      BY <1>5, <2>1, <3>3, FinishedRow
    <3>. QED
      BY <3>1, <3>2, <3>3
  <2>. HIDE DEF a, c
  <2>3. own(a) = [c EXCEPT !.object = IF found = None THEN @ ELSE found,
                           !.lease = None, !.lapsed = FALSE]
    BY DEF c
  <2>. HIDE DEF own
  <2>4. /\ own(a) \in CommandRows /\ own(a).typ = a.typ /\ own(a).object \in {a.object, found}
        /\ own(a).stan = c.stan /\ own(a).tries = c.tries
    BY <1>6, <2>2, <2>3 DEF CommandRows
  <2>. QED
    BY <2>2, <2>4 DEF a
<1>9. ASSUME j.src # None
      PROVE  LET a == D.cmd[j.src]
                 b == source(D.cmd[j.src])
             IN  /\ b \in CommandRows /\ b.typ = a.typ /\ b.object \in {a.object, found}
                 /\ b.tries = a.tries
                 /\ b.stan = a.stan \/ (a.stan = "uncertain" /\ b.stan = stan /\ stan \in {"succeeded", "failed"})
  <2>. DEFINE a == D.cmd[j.src]
  <2>1. a \in CommandRows
    BY <1>1, <1>4, <1>9
  <2>. HIDE DEF a
  <2>2. source(a) = [a EXCEPT !.object = IF @ = None THEN found ELSE @,
                              !.stan = IF resolved /\ @ = "uncertain" THEN stan ELSE @]
    OBVIOUS
  <2>. HIDE DEF source
  <2>3. resolved => stan \in {"succeeded", "failed"}
    BY DEF resolved
  <2>. QED
    BY <1>6, <2>1, <2>2, <2>3 DEF a, CommandRows
<1>. HIDE DEF own, source
<1>10. \A k \in Keys : E.cmd[k] = IF k = j.id THEN own(D.cmd[k])
                                  ELSE IF k = j.src THEN source(D.cmd[k]) ELSE D.cmd[k]
  <2>1. j.id # j.src
    BY <1>1, <1>3
  <2>2. ASSUME NEW k \in Keys
        PROVE  E.cmd[k] = CASE k = j.id -> own(D.cmd[k])
                            [] k = j.src -> source(D.cmd[k])
                            [] OTHER -> D.cmd[k]
    BY <1>4 DEF Transactions
  <2>. HIDE DEF E, j
  <2>. QED
    BY <2>1, <2>2
<1>11. \A k \in Keys : (IF k = j.id THEN own(D.cmd[k])
                        ELSE IF k = j.src THEN source(D.cmd[k]) ELSE D.cmd[k]) \in CommandRows
  BY <1>1, <1>4, <1>8, <1>9
<1>12. E \in Transactions /\ E.rez = D.rez /\ E.pay = D.pay
  BY <1>4, <1>10, <1>11 DEF Transactions
<1>. HIDE DEF E, j, op, conflict
<1>13. ASSUME NEW k \in Keys
       PROVE  /\ E.cmd[k].typ = D.cmd[k].typ
              /\ E.cmd[k].stan = "brak" <=> D.cmd[k].stan = "brak"
              /\ RowOK(E.cmd[k], k, s)
              /\ SentOK(D.cmd[k], k, D.pay, s) => SentOK(E.cmd[k], k, E.pay, s)
              /\ k = "checkout" /\ E.cmd[k].stan \in ACTIVE_STATES => D.cmd[k].stan \in ACTIVE_STATES
  <2>0. RowOK(D.cmd[k], k, s)
    BY <1>4
  <2>1. CASE k = j.id /\ j.src = None
    <3>1. /\ ~chain /\ op = k /\ E.cmd[k] = own(D.cmd[k]) /\ D.cmd[k].stan = "processing"
      BY <1>3, <1>7, <1>10, <2>1
    <3>2. /\ E.cmd[k].typ = D.cmd[k].typ /\ E.cmd[k].object \in {D.cmd[k].object, found}
          /\ E.cmd[k].stan = stan /\ (stan = "retry" => E.cmd[k].tries = D.cmd[k].tries)
          /\ D.cmd[k].tries \in Nat
      BY <1>4, <1>8, <2>1, <3>1 DEF CommandRows
    <3>3. RowOK(E.cmd[k], k, s)
      BY <1>5, <1>6, <2>0, <3>1, <3>2 DEF RowOK
    <3>4. Begun(E.cmd[k])
      BY <1>5, <2>0, <3>1, <3>2 DEF RowOK, Begun, PENDING_STATES
    <3>5. SentOK(E.cmd[k], k, E.pay, s)
      BY <1>5, <1>6, <1>12, <3>1, <3>2, <3>4 DEF SentOK, ACTIVE_STATES, PENDING_STATES
    <3>. QED
      BY <1>5, <3>1, <3>2, <3>3, <3>5 DEF ACTIVE_STATES, PENDING_STATES
  <2>2. CASE k = j.id /\ j.src # None
    <3>1. /\ D.cmd[k].typ = "reconcile" /\ E.cmd[k] = own(D.cmd[k]) /\ D.cmd[k].stan = "processing"
          /\ k # "checkout"
      BY <1>3, <1>10, <2>0, <2>2 DEF RowOK
    <3>2. /\ E.cmd[k].typ = "reconcile" /\ E.cmd[k].object \in {D.cmd[k].object, found}
          /\ E.cmd[k].stan \in {stan, "queued"}
      BY <1>8, <2>2, <3>1
    <3>3. E.cmd[k].stan \notin {"brak", "processing"}
      BY <1>5, <3>2
    <3>. QED
      BY <1>6, <2>0, <3>1, <3>2, <3>3 DEF RowOK, SentOK, Begun
  <2>3. CASE k # j.id /\ k = j.src
    <3>1. /\ j.src # None /\ op = k /\ E.cmd[k] = source(D.cmd[k]) /\ D.cmd[k].typ \in Sources
      BY <1>1, <1>3, <1>10, <2>3
    <3>2. /\ E.cmd[k].typ = D.cmd[k].typ /\ E.cmd[k].object \in {D.cmd[k].object, found}
          /\ E.cmd[k].tries = D.cmd[k].tries
          /\ \/ E.cmd[k].stan = D.cmd[k].stan
             \/ /\ D.cmd[k].stan = "uncertain" /\ E.cmd[k].stan = stan /\ stan \in {"succeeded", "failed"}
      BY <1>9, <2>3, <3>1
    <3>3. RowOK(E.cmd[k], k, s)
      BY <1>6, <2>0, <3>1, <3>2 DEF RowOK
    <3>4. SentOK(D.cmd[k], k, D.pay, s) => SentOK(E.cmd[k], k, E.pay, s)
      BY <1>6, <1>12, <3>1, <3>2 DEF SentOK, Begun, ACTIVE_STATES, PENDING_STATES
    <3>. QED
      BY <3>2, <3>3, <3>4 DEF ACTIVE_STATES
  <2>4. CASE k # j.id /\ k # j.src
    BY <1>10, <1>12, <2>0, <2>4
  <2>. QED
    BY <2>1, <2>2, <2>3, <2>4
<1>14. Sound(E, s, sent)
  <2>1. \A k \in sent : SentOK(E.cmd[k], k, E.pay, s)
    BY <1>2, <1>13 DEF Sound
  <2>2. E.cmd["checkout"].stan \in ACTIVE_STATES => D.cmd["checkout"].stan \in ACTIVE_STATES
    BY <1>13, SystemKeysAreKeys
  <2>. QED
    BY <1>2, <1>4, <1>12, <1>13, <2>1, <2>2 DEF Sound
<1>15. \A k \in Keys : Exists(E, k) <=> Exists(D, k)
  BY <1>13 DEF Exists
<1>16. Follows(Stored, E)
  <2>1. Follows(D, E)
    BY <1>12, <1>13 DEF Follows, Exists, MoneyKept
  <2>. QED
    BY <1>2, <2>1, FollowsChain
<1>17. MoneyReturned(E)
  BY <1>2, <1>12, <1>15, SystemKeysAreKeys DEF MoneyReturned
<1>18. Recorded(w, stan) = E
  BY DEF Recorded, E, own, source, found, resolved, chain, D, j, conflict
<1>. QED
  BY <1>14, <1>16, <1>17, <1>18

-----------------------------------------------------------------------------
(* An exchange with the provider.                                           *)

LEMMA LaterSelf == ASSUME NEW s PROVE Later(s, s)
BY DEF Later

\* The results depend on the objects alone, not on the replies remembered.
LEMMA SameResults ==
    ASSUME NEW s, NEW t, t.session = s.session, t.intent = s.intent, t.refund = s.refund,
           NEW k, NEW explicit
    PROVE  /\ RefundResult(t, k) = RefundResult(s, k)
           /\ CheckoutResult(t, explicit) = CheckoutResult(s, explicit)
           /\ PaymentIntentResult(t) = PaymentIntentResult(s)
BY DEF RefundResult, CheckoutResult, PaymentIntentResult, IntentTarget

\* An exchange x about the command k leaves the provider and its reply in order.
ExchangeOK(x, k, s, C) ==
    /\ x.stripe \in ProviderStates /\ ProviderOK(x.stripe, C) /\ Later(s, x.stripe)
    /\ x.reply \in Replies /\ Truthful(x.reply, x.stripe)
    /\ AnswersFor(x.reply, k, C[k].typ, x.stripe)
    /\ \A o \in Keys : HasRefund(x.stripe, o) => HasRefund(s, o) \/ (o = k /\ C[k].typ = "refund")
    /\ x.stripe.session # "none" => s.session # "none" \/ k = "checkout"
    /\ HasIntent(x.stripe) => HasIntent(s)

\* A reply without an effect.
LEMMA LocalExchange ==
    ASSUME NEW s \in ProviderStates, NEW C, ProviderOK(s, C), NEW k \in Keys,
           NEW r \in Replies, Truthful(r, s), AnswersFor(r, k, C[k].typ, s)
    PROVE  ExchangeOK(Exchange(s, r), k, s, C)
BY LaterSelf DEF ExchangeOK, Exchange

\* A reply that is remembered together with what was done for it.
LEMMA RememberedExchange ==
    ASSUME NEW s \in ProviderStates, NEW C, ProviderOK(s, C), NEW k \in Keys, C[k].stan # "brak",
           NEW byIntent \in BOOLEAN, NEW m \in ProviderStates, NEW r \in Replies,
           NEW t, t = Remembered(m, k, byIntent, r),
           m.replies = s.replies, m.refused = s.refused,
           HasIntent(m) <=> HasIntent(s),
           Captured(s) => Captured(m), MoneyBack(s) => MoneyBack(m),
           m.session \in {"none", "open"} => ~HasIntent(m),
           m.session # s.session /\ s.session = "none"
               => k = "checkout" /\ byIntent /\ ~Answered(s, k) /\ r.outcome # "failed",
           k = "checkout" /\ byIntent /\ r.outcome = "failed" => m.session = "none",
           \A o \in Keys \ {k} : m.refund[o] = s.refund[o],
           m.refund[k] # s.refund[k] => C[k].typ = "refund" /\ byIntent /\ ~Answered(s, k),
           HasRefund(m, k) => Captured(m),
           Truthful(r, t), AnswersFor(r, k, C[k].typ, t)
    PROVE  ExchangeOK(Exchange(t, r), k, s, C)
<1>. DEFINE row == [key |-> k, byIntent |-> byIntent, reply |-> r]
<1>1. row \in ReplyRows
  BY DEF ReplyRows
<1>2. /\ t \in ProviderStates /\ t.session = m.session /\ t.intent = m.intent
      /\ t.refund = m.refund /\ t.refused = m.refused /\ t.replies = m.replies \cup {row}
  BY <1>1 DEF Remembered, ProviderStates
<1>3. row.key = k /\ row.byIntent = byIntent /\ row.reply = r
  OBVIOUS
<1>. HIDE DEF row
<1>4. /\ \A o \in Keys : Answered(s, o) => Answered(t, o)
      /\ byIntent => Answered(t, k)
      /\ NoCheckoutMade(s) => NoCheckoutMade(t)
      /\ NoCheckoutMade(t) => NoCheckoutMade(s) \/ (k = "checkout" /\ byIntent /\ r.outcome = "failed")
  BY <1>2, <1>3 DEF Answered, NoCheckoutMade
<1>5. Later(s, t)
  <2>1. \A o \in Keys : HasRefund(s, o) => HasRefund(t, o)
    <3>1. HasRefund(s, k) => Answered(s, k)
      BY DEF ProviderOK
    <3>. QED
      BY <1>2, <3>1 DEF HasRefund
  <2>2. \A o \in Keys : RefundDead(s, o) => RefundDead(t, o)
    BY <1>2, <1>4 DEF RefundDead
  <2>3. MoneyBack(m) => MoneyBack(t)
    BY <1>2 DEF MoneyBack
  <2>. QED
    BY <1>2, <1>4, <2>1, <2>2, <2>3 DEF Later, HasIntent, Captured, TurnedDown
<1>6. ProviderOK(t, C)
  <2>1. t.session \in {"none", "open"} => ~HasIntent(t)
    BY <1>2 DEF HasIntent
  <2>2. t.session # "none" => Answered(t, "checkout") /\ ~NoCheckoutMade(t)
    <3>1. CASE s.session = "none" /\ m.session # "none"
      <4>1. ~NoCheckoutMade(s)
        BY <3>1 DEF NoCheckoutMade, Answered
      <4>. QED
        BY <1>2, <1>4, <3>1, <4>1
    <3>2. CASE s.session # "none" /\ m.session # "none"
      <4>1. Answered(s, "checkout") /\ ~NoCheckoutMade(s)
        BY <3>2 DEF ProviderOK
      <4>. QED
        BY <1>2, <1>4, <3>2, <4>1, SystemKeysAreKeys
    <3>. QED
      BY <1>2, <3>1, <3>2
  <2>3. ASSUME NEW o \in Keys, HasRefund(t, o)
        PROVE  Captured(t) /\ Answered(t, o)
    <3>1. HasRefund(s, o) => Captured(s) /\ Answered(s, o)
      BY DEF ProviderOK
    <3>2. CASE t.refund[o] = s.refund[o]
      BY <1>2, <1>4, <2>3, <3>1, <3>2 DEF HasRefund, Captured
    <3>3. CASE t.refund[o] # s.refund[o]
      BY <1>2, <1>4, <2>3, <3>3 DEF HasRefund, Captured
    <3>. QED
      BY <3>2, <3>3
  <2>4. ASSUME NEW x \in t.replies
        PROVE  /\ Truthful(x.reply, t) /\ AnswersFor(x.reply, x.key, C[x.key].typ, t)
               /\ C[x.key].stan # "brak"
    <3>1. CASE x \in s.replies
      <4>1. /\ Truthful(x.reply, s) /\ AnswersFor(x.reply, x.key, C[x.key].typ, s)
            /\ C[x.key].stan # "brak" /\ x.key \in Keys
        BY <3>1 DEF ProviderOK, ProviderStates, ReplyRows
      <4>. QED
        BY <1>5, <4>1, LaterReply
    <3>2. CASE x = row
      BY <1>3, <3>2
    <3>. QED
      BY <1>2, <3>1, <3>2
  <2>. QED
    BY <2>1, <2>2, <2>3, <2>4 DEF ProviderOK
<1>7. /\ \A o \in Keys : HasRefund(t, o) => HasRefund(s, o) \/ (o = k /\ C[k].typ = "refund")
      /\ t.session # "none" => s.session # "none" \/ k = "checkout"
      /\ HasIntent(t) => HasIntent(s)
  BY <1>2 DEF HasRefund, HasIntent
<1>. QED
  BY <1>2, <1>5, <1>6, <1>7 DEF ExchangeOK, Exchange

\* What the command of an exchange is known to be.
Addressed(k, typ, C) ==
    /\ k \in Keys /\ C[k].stan # "brak" /\ C[k].typ = typ /\ typ \in Types
    /\ typ = "create_checkout" <=> k = "checkout"

LEMMA PostExchange ==
    ASSUME stripe \in ProviderStates, ProviderOK(stripe, cmd),
           NEW k, NEW typ, Addressed(k, typ, cmd), typ # "reconcile",
           NEW byIntent \in BOOLEAN, typ # "cancel_authorization" => byIntent,
           NEW x \in Post(typ, k, byIntent)
    PROVE  ExchangeOK(x, k, stripe, cmd)
<1>. DEFINE before == {y \in stripe.replies : y.key = k /\ y.byIntent = byIntent}
<1>1. /\ k \in Keys /\ cmd[k].stan # "brak" /\ cmd[k].typ = typ /\ typ \in Types
      /\ typ = "create_checkout" <=> k = "checkout"
  BY DEF Addressed
<1>2. CASE before # {} /\ \E y \in before : x = Exchange(stripe, y.reply)
  <2>1. PICK y \in before : x = Exchange(stripe, y.reply)
    BY <1>2
  <2>2. y.reply \in Replies /\ Truthful(y.reply, stripe) /\ AnswersFor(y.reply, k, cmd[k].typ, stripe)
    BY DEF ProviderOK, ProviderStates, ReplyRows
  <2>. QED
    BY <1>1, <2>1, <2>2, LocalExchange
<1>3. CASE x \in Moved(typ, k)
  <2>. DEFINE t == [stripe EXCEPT !.refused = @ \cup {k}]
  <2>1. typ = "create_checkout" /\ x = Exchange(t, Failure(typ)) /\ k = "checkout"
    BY <1>1, <1>3 DEF Moved
  <2>2. /\ t \in ProviderStates /\ t.session = stripe.session /\ t.intent = stripe.intent
        /\ t.refund = stripe.refund /\ t.replies = stripe.replies /\ "checkout" \in t.refused
    BY <1>1, <2>1 DEF ProviderStates
  <2>. HIDE DEF t
  <2>3. Later(stripe, t) /\ TurnedDown(t)
    BY <2>2 DEF Later, HasIntent, Captured, MoneyBack, TurnedDown, HasRefund, RefundDead, Answered
  <2>4. ASSUME NEW y \in t.replies
        PROVE  /\ Truthful(y.reply, t) /\ AnswersFor(y.reply, y.key, cmd[y.key].typ, t)
               /\ cmd[y.key].stan # "brak"
    <3>1. /\ Truthful(y.reply, stripe) /\ AnswersFor(y.reply, y.key, cmd[y.key].typ, stripe)
          /\ cmd[y.key].stan # "brak" /\ y.key \in Keys
      BY <2>2 DEF ProviderOK, ProviderStates, ReplyRows
    <3>. QED
      BY <2>3, <3>1, LaterReply
  <2>5. ProviderOK(t, cmd)
    BY <2>2, <2>4 DEF ProviderOK, HasIntent, Captured, HasRefund, Answered, NoCheckoutMade
  <2>6. /\ Failure(typ) \in Replies /\ Truthful(Failure(typ), t)
        /\ AnswersFor(Failure(typ), k, typ, t)
    BY <2>1, <2>3, FailureReply
  <2>7. /\ \A o \in Keys : HasRefund(t, o) => HasRefund(stripe, o)
        /\ HasIntent(t) => HasIntent(stripe)
    BY <2>2 DEF HasRefund, HasIntent
  <2>. QED
    BY <1>1, <2>1, <2>2, <2>3, <2>5, <2>6, <2>7 DEF ExchangeOK, Exchange
<1>4. CASE before = {} /\ x = Exchange(Remembered(stripe, k, byIntent, Failure(typ)), Failure(typ))
  <2>. DEFINE r == Failure(typ)
              t == Remembered(stripe, k, byIntent, r)
  <2>1. byIntent => ~Answered(stripe, k)
    BY <1>4 DEF Answered
  <2>2. r \in Replies /\ r.outcome = "failed"
    BY DEF Failure, Plain, Replies, Objects, Statuses, Refunds
  <2>3. /\ t.refund = stripe.refund /\ t.refused = stripe.refused
        /\ [key |-> k, byIntent |-> byIntent, reply |-> r] \in t.replies
    BY DEF Remembered, ProviderStates
  <2>4. byIntent => Answered(t, k)
    BY <2>3 DEF Answered
  <2>5. typ = "create_checkout" => TurnedDown(t) /\ byIntent
    BY <1>1, <2>2, <2>3 DEF TurnedDown, NoCheckoutMade
  <2>6. typ = "refund" => RefundDead(t, k)
    <3>1. typ = "refund" => byIntent /\ stripe.refund[k] = "none"
      BY <1>1, <2>1 DEF ProviderOK, HasRefund
    <3>. QED
      BY <2>3, <2>4, <3>1 DEF RefundDead
  <2>. HIDE DEF t, r
  <2>7. Truthful(r, t) /\ AnswersFor(r, k, typ, t)
    BY <1>1, <2>5, <2>6, FailureReply DEF r
  <2>8. k = "checkout" => stripe.session = "none"
    BY <1>1, <2>1, <2>5 DEF ProviderOK
  <2>9. /\ stripe.session \in {"none", "open"} => ~HasIntent(stripe)
        /\ HasRefund(stripe, k) => Captured(stripe)
    BY <1>1 DEF ProviderOK
  <2>10. t = Remembered(stripe, k, byIntent, r)
    BY DEF t
  <2>11. ExchangeOK(Exchange(t, r), k, stripe, cmd)
    BY <1>1, <2>2, <2>7, <2>8, <2>9, <2>10, RememberedExchange
  <2>. QED
    BY <1>4, <2>11 DEF t, r
<1>5. CASE /\ before = {}
           /\ \E m \in Effects(typ, k, byIntent) :
                  x = Exchange(Remembered(m, k, byIntent, Reply(m, typ, k, byIntent)),
                               Reply(m, typ, k, byIntent))
  <2>1. PICK m \in Effects(typ, k, byIntent) :
                  x = Exchange(Remembered(m, k, byIntent, Reply(m, typ, k, byIntent)),
                               Reply(m, typ, k, byIntent))
    BY <1>5
  <2>. DEFINE r == Reply(m, typ, k, byIntent)
              t == Remembered(m, k, byIntent, r)
  <2>2. byIntent => ~Answered(stripe, k)
    BY <1>5 DEF Answered
  <2>3. /\ stripe.session \in {"none", "open"} => ~HasIntent(stripe)
        /\ stripe.session # "none" => Answered(stripe, "checkout")
        /\ HasRefund(stripe, k) => Captured(stripe) /\ Answered(stripe, k)
    BY <1>1 DEF ProviderOK
  <2>4. MoneyBack(stripe) => Captured(stripe)
    BY DEF ProviderOK, MoneyBack, HasRefund
  <2>5. CASE typ = "create_checkout"
    <3>1. /\ m = [stripe EXCEPT !.session = "open"] /\ r = CheckoutResult(m, FALSE)
          /\ byIntent = TRUE /\ k = "checkout"
      BY <1>1, <2>5 DEF Effects, Reply
    <3>2. /\ m \in ProviderStates /\ m.session = "open" /\ m.intent = stripe.intent
          /\ m.refund = stripe.refund /\ m.replies = stripe.replies /\ m.refused = stripe.refused
      BY <3>1 DEF ProviderStates, Sessions
    <3>3. stripe.session = "none" /\ ~HasIntent(m)
      BY <2>2, <2>3, <3>1, <3>2 DEF HasIntent
    <3>. HIDE DEF t, r
    <3>4. t.session = m.session /\ t.intent = m.intent /\ t.refund = m.refund /\ t \in ProviderStates
      <4>1. r \in Replies
        BY <3>1, <3>2, CheckoutReply
      <4>. QED
        BY <1>1, <3>2, <4>1 DEF t, Remembered, ProviderStates, ReplyRows
    <3>5. r = CheckoutResult(t, FALSE)
      BY <3>1, <3>4, SameResults
    <3>6. r \in Replies /\ Truthful(r, t) /\ AnswersFor(r, k, typ, t) /\ r.outcome = "succeeded"
      BY <3>4, <3>5, CheckoutReply
    <3>7. /\ HasIntent(m) <=> HasIntent(stripe)
          /\ Captured(stripe) => Captured(m)
          /\ MoneyBack(stripe) => MoneyBack(m)
          /\ HasRefund(m, k) => Captured(m)
      BY <2>3, <3>2 DEF HasIntent, Captured, MoneyBack, HasRefund
    <3>8. t = Remembered(m, k, byIntent, r)
      BY DEF t
    <3>9. ExchangeOK(Exchange(t, r), k, stripe, cmd)
      BY <1>1, <2>2, <3>1, <3>2, <3>3, <3>6, <3>7, <3>8, RememberedExchange
    <3>. QED
      BY <2>1, <3>9 DEF t, r
  <2>6. CASE typ = "cancel_authorization" /\ ~byIntent
    <3>1. /\ m = [stripe EXCEPT !.session = "expired"] /\ r = CheckoutResult(m, TRUE)
          /\ stripe.session = "open" /\ k # "checkout" /\ byIntent = FALSE
      BY <1>1, <2>6 DEF Effects, Reply
    <3>2. /\ m \in ProviderStates /\ m.session = "expired" /\ m.intent = stripe.intent
          /\ m.refund = stripe.refund /\ m.replies = stripe.replies /\ m.refused = stripe.refused
      BY <3>1 DEF ProviderStates, Sessions
    <3>. HIDE DEF t, r
    <3>4. t.session = m.session /\ t.intent = m.intent /\ t.refund = m.refund /\ t \in ProviderStates
      <4>1. r \in Replies
        BY <3>1, <3>2, CheckoutReply
      <4>. QED
        BY <1>1, <3>2, <4>1 DEF t, Remembered, ProviderStates, ReplyRows
    <3>5. r = CheckoutResult(t, TRUE)
      BY <3>1, <3>4, SameResults
    <3>6. r \in Replies /\ Truthful(r, t) /\ AnswersFor(r, k, typ, t)
      BY <3>4, <3>5, CheckoutReply
    <3>7. /\ HasIntent(m) <=> HasIntent(stripe)
          /\ Captured(stripe) => Captured(m)
          /\ MoneyBack(stripe) => MoneyBack(m)
          /\ HasRefund(m, k) => Captured(m)
      BY <2>3, <3>2 DEF HasIntent, Captured, MoneyBack, HasRefund
    <3>8. t = Remembered(m, k, byIntent, r)
      BY DEF t
    <3>9. ExchangeOK(Exchange(t, r), k, stripe, cmd)
      BY <1>1, <3>1, <3>2, <3>6, <3>7, <3>8, RememberedExchange
    <3>. QED
      BY <2>1, <3>9 DEF t, r
  <2>7. CASE typ = "capture" \/ (typ = "cancel_authorization" /\ byIntent)
    <3>1. /\ m = [stripe EXCEPT !.intent = IF typ = "capture" THEN "succeeded" ELSE "canceled"]
          /\ r = PaymentIntentResult(m)
          /\ stripe.intent = "requires_capture" /\ k # "checkout"
      BY <1>1, <2>7 DEF Effects, Reply
    <3>2. /\ m \in ProviderStates /\ m.session = stripe.session /\ m.intent \in {"succeeded", "canceled"}
          /\ m.refund = stripe.refund /\ m.replies = stripe.replies /\ m.refused = stripe.refused
      BY <3>1 DEF ProviderStates, Intents
    <3>3. HasIntent(stripe) /\ HasIntent(m) /\ ~Captured(stripe)
      BY <3>1, <3>2 DEF HasIntent, Captured
    <3>. HIDE DEF t, r
    <3>4. t.session = m.session /\ t.intent = m.intent /\ t.refund = m.refund /\ t \in ProviderStates
      <4>1. r \in Replies
        BY <3>1, <3>2, <3>3, IntentReply
      <4>. QED
        BY <1>1, <3>2, <4>1 DEF t, Remembered, ProviderStates, ReplyRows
    <3>5. r = PaymentIntentResult(t) /\ HasIntent(t)
      BY <3>1, <3>3, <3>4, SameResults DEF HasIntent
    <3>6. r \in Replies /\ Truthful(r, t) /\ AnswersFor(r, k, typ, t)
      BY <3>4, <3>5, IntentReply
    <3>7. ~HasRefund(m, k) /\ ~MoneyBack(stripe)
      BY <2>3, <2>4, <3>2, <3>3 DEF HasRefund
    <3>8. t = Remembered(m, k, byIntent, r)
      BY DEF t
    <3>9. ExchangeOK(Exchange(t, r), k, stripe, cmd)
      BY <1>1, <2>3, <3>1, <3>2, <3>3, <3>6, <3>7, <3>8, RememberedExchange
    <3>. QED
      BY <2>1, <3>9 DEF t, r
  <2>8. CASE typ = "refund"
    <3>1. PICK z \in {"pending", "succeeded"} : m = [stripe EXCEPT !.refund[k] = z]
      BY <2>8 DEF Effects
    <3>2. /\ stripe.intent = "succeeded" /\ \A o \in Keys : stripe.refund[o] \in {"none", "failed"}
          /\ r = RefundResult(m, k) /\ k # "checkout" /\ byIntent = TRUE
      BY <1>1, <2>8 DEF Effects, Reply
    <3>3. /\ m \in ProviderStates /\ m.session = stripe.session /\ m.intent = stripe.intent
          /\ m.replies = stripe.replies /\ m.refused = stripe.refused
          /\ m.refund[k] = z /\ \A o \in Keys \ {k} : m.refund[o] = stripe.refund[o]
      BY <1>1, <3>1 DEF ProviderStates, RefundStates
    <3>4. HasRefund(m, k) /\ Captured(m) /\ ~MoneyBack(stripe) /\ (HasIntent(m) <=> HasIntent(stripe))
      BY <3>2, <3>3 DEF HasRefund, Captured, MoneyBack, HasIntent
    <3>. HIDE DEF t, r
    <3>5. r \in Replies /\ r.outcome # "failed"
      BY <3>2, <3>3 DEF RefundResult, Plain, Replies, Objects, Statuses, Refunds
    <3>6. /\ t \in ProviderStates /\ t.session = m.session /\ t.intent = m.intent
          /\ t.refund = m.refund /\ Answered(t, k)
      <4>1. /\ t \in ProviderStates /\ t.session = m.session /\ t.intent = m.intent
            /\ t.refund = m.refund /\ [key |-> k, byIntent |-> byIntent, reply |-> r] \in t.replies
        BY <1>1, <3>3, <3>5 DEF t, Remembered, ProviderStates, ReplyRows
      <4>. QED
        BY <3>2, <4>1 DEF Answered
    <3>7. /\ r = RefundResult(t, k) /\ HasRefund(t, k) /\ Captured(t)
      BY <3>2, <3>4, <3>6, SameResults DEF HasRefund, Captured
    <3>8. Truthful(r, t) /\ AnswersFor(r, k, typ, t)
      BY <3>2, <3>5, <3>6, <3>7, <1>1, RefundReply DEF AnswersFor
    <3>9. t = Remembered(m, k, byIntent, r)
      BY DEF t
    <3>10. ExchangeOK(Exchange(t, r), k, stripe, cmd)
      BY <1>1, <2>2, <2>3, <2>8, <3>2, <3>3, <3>4, <3>5, <3>8, <3>9, RememberedExchange
    <3>. QED
      BY <2>1, <3>10 DEF t, r
  <2>9. typ \in {"create_checkout", "capture", "cancel_authorization", "refund"}
    BY <1>1 DEF Types, Sources, Mutations
  <2>. QED
    BY <2>5, <2>6, <2>7, <2>8, <2>9
<1>. QED
  BY <1>2, <1>3, <1>4, <1>5 DEF Post

\* Whatever the claim j asks Stripe, and whatever comes back.
LEMMA ClaimExchange ==
    ASSUME stripe \in ProviderStates, ProviderOK(stripe, cmd),
           NEW j \in WorkerRows, j.step = "claimed", ClaimOK(j, cmd, stripe),
           NEW typ, Addressed(Operation(j), typ, cmd),
           HasRefund(stripe, Operation(j)) => typ = "refund",
           NEW x \in Exchanges(j)
    PROVE  \/ ExchangeOK(x, Operation(j), stripe, cmd)
           \/ typ = "refund" /\ ~j.left /\ x = Exchange(stripe, Failure("refund"))
<1>. DEFINE k == Operation(j)
            raw == IF j.object # None THEN Local(Retrieve(typ, k, j)) ELSE Perform(typ, k, j)
<1>1. /\ k \in Keys /\ cmd[k].stan # "brak" /\ cmd[k].typ = typ /\ typ \in Types
      /\ typ = "create_checkout" <=> k = "checkout"
      /\ j.src # None => typ \in Sources
      /\ typ = "refund" => j.pi
      /\ j.pi => HasIntent(stripe)
      /\ j.ref \in Keys \cup {None}
      /\ j.ref # None => HasRefund(stripe, j.ref)
      /\ j.object = "re" => HasRefund(stripe, k)
      /\ j.object = "pi" => HasIntent(stripe)
      /\ j.object \in Objects /\ j.pi \in BOOLEAN
  BY DEF Addressed, ClaimOK, ClaimSteps, WorkerRows, Operation
<1>2. \A o \in Keys : HasRefund(stripe, o) => Captured(stripe) /\ Answered(stripe, o)
  BY DEF ProviderOK
<1>3. ASSUME NEW y \in raw
      PROVE  \/ ExchangeOK(y, k, stripe, cmd)
             \/ typ = "refund" /\ ~j.left /\ y = Exchange(stripe, Failure("refund"))
  <2>1. CASE j.object # None
    <3>1. y = Exchange(stripe, Retrieve(typ, k, j))
      BY <1>3, <2>1 DEF Local
    <3>. DEFINE r == Retrieve(typ, k, j)
    <3>2. r \in Replies /\ Truthful(r, stripe) /\ AnswersFor(r, k, typ, stripe)
      <4>1. CASE j.object = "re"
        <5>1. r = RefundResult(stripe, k) /\ typ = "refund" /\ k # "checkout"
          BY <1>1, <4>1 DEF Retrieve
        <5>. QED
          BY <1>1, <1>2, <4>1, <5>1, RefundReply DEF AnswersFor
      <4>2. CASE j.object = "pi"
        <5>1. r = PaymentIntentResult(stripe)
          BY <4>2 DEF Retrieve
        <5>. QED
          BY <1>1, <4>2, <5>1, IntentReply
      <4>3. CASE j.object = "cs"
        <5>1. r = CheckoutResult(stripe, typ = "cancel_authorization")
          BY <4>3 DEF Retrieve
        <5>. QED
          BY <5>1, CheckoutReply
      <4>. QED
        BY <1>1, <2>1, <4>1, <4>2, <4>3 DEF Objects
    <3>. QED
      BY <1>1, <3>1, <3>2, LocalExchange
  <2>2. CASE j.object = None /\ NoReference(typ, j)
    <3>. DEFINE r == IF typ = "cancel_authorization" THEN Plain("retry") ELSE Failure(typ)
    <3>1. y = Exchange(stripe, r)
      BY <1>3, <2>2 DEF Perform, Unsent, Local
    <3>2. typ \notin {"create_checkout", "refund"} /\ k # "checkout"
      BY <1>1, <2>2 DEF NoReference
    <3>3. r \in Replies /\ Truthful(r, stripe) /\ AnswersFor(r, k, typ, stripe)
      BY <3>2, PlainReply, FailureReply
    <3>. QED
      BY <1>1, <3>1, <3>3, LocalExchange
  <2>3. CASE j.object = None /\ ~NoReference(typ, j) /\ typ = "reconcile" /\ j.ref # None
    <3>1. y = Exchange(stripe, RefundResult(stripe, j.ref))
      BY <1>3, <2>3 DEF Perform, Unsent, Local
    <3>2. k # "checkout" /\ typ = "reconcile" /\ j.ref \in Keys
      BY <1>1, <2>3
    <3>3. /\ RefundResult(stripe, j.ref) \in Replies /\ Truthful(RefundResult(stripe, j.ref), stripe)
          /\ AnswersFor(RefundResult(stripe, j.ref), k, typ, stripe)
      BY <1>1, <1>2, <2>3, <3>2, RefundReply DEF AnswersFor
    <3>. QED
      BY <1>1, <3>1, <3>3, LocalExchange
  <2>4. CASE j.object = None /\ ~NoReference(typ, j) /\ typ = "reconcile" /\ j.ref = None
    <3>. DEFINE r == IF j.pi THEN PaymentIntentResult(stripe) ELSE CheckoutResult(stripe, FALSE)
    <3>1. y = Exchange(stripe, r)
      BY <1>3, <2>4 DEF Perform, Unsent, Local
    <3>2. r \in Replies /\ Truthful(r, stripe) /\ AnswersFor(r, k, typ, stripe)
      BY <1>1, CheckoutReply, IntentReply
    <3>. QED
      BY <1>1, <3>1, <3>2, LocalExchange
  <2>5. CASE j.object = None /\ ~Unsent(typ, j) /\ typ # "reconcile"
    <3>1. y \in Post(typ, k, typ # "cancel_authorization" \/ j.pi)
      BY <1>3, <2>5 DEF Perform
    <3>2. (typ # "cancel_authorization" \/ j.pi) \in BOOLEAN
      BY <1>1
    <3>. QED
      BY <2>5, <3>1, <3>2, PostExchange
  <2>6. CASE j.object = None /\ ~NoReference(typ, j) /\ typ = "refund" /\ ~j.left
    BY <1>3, <2>6 DEF Perform, Unsent, Local
  <2>. QED
    BY <2>1, <2>2, <2>3, <2>4, <2>5, <2>6 DEF Unsent
<1>4. PICK y \in raw : x = Exchange(y.stripe, CommandSemanticResult(typ, y.reply))
  BY <1>1 DEF Exchanges
<1>5. CASE ExchangeOK(y, k, stripe, cmd)
  <2>. DEFINE q == CommandSemanticResult(typ, y.reply)
  <2>1. q \in Replies /\ Truthful(q, y.stripe) /\ AnswersFor(q, k, typ, y.stripe)
    BY <1>1, <1>5, SemanticReply DEF ExchangeOK
  <2>. HIDE DEF q
  <2>2. x.stripe = y.stripe /\ x.reply = q
    BY <1>4 DEF Exchange, q
  <2>. QED
    BY <1>1, <1>5, <2>1, <2>2 DEF ExchangeOK
<1>6. CASE typ = "refund" /\ ~j.left /\ y = Exchange(stripe, Failure("refund"))
  <2>1. y.stripe = stripe /\ y.reply = Failure("refund") /\ y.reply.outcome = "failed"
    BY <1>6 DEF Exchange, Failure, Plain
  <2>2. CommandSemanticResult(typ, y.reply) = Failure("refund")
    BY <2>1 DEF CommandSemanticResult
  <2>. QED
    BY <1>4, <1>6, <2>1, <2>2
<1>. QED
  BY <1>3, <1>5, <1>6

-----------------------------------------------------------------------------
(* Steps.                                                                   *)

TypeParts ==
    /\ world \in Worlds /\ policy \in world.policies
    /\ Stored \in Transactions
    /\ inbox \in [Events -> EventRows]
    /\ worker \in [Workers -> WorkerRows]
    /\ stripe \in ProviderStates

LEMMA TypeIsParts == TypeOK <=> TypeParts
BY DEF TypeOK, TypeParts, Stored, Transactions, PayRows, CommandRows, EventRows, WorkerRows,
       ProviderStates, Sessions, Intents, RefundStates, ReplyRows

LEMMA TypeIsPartsNext == TypeOK' <=> TypeParts'
BY TypeIsParts, PTL

LEMMA IdleIsFine ==
    /\ Idle \in WorkerRows
    /\ \A C, s, I, p : /\ ClaimOK(Idle, C, s) /\ AnswerOK(Idle, C, s) /\ InboxOK(Idle, I)
                       /\ LeftOK(Idle, C, p)
BY DEF Idle, WorkerRows, Objects, ClaimOK, AnswerOK, InboxOK, LeftOK, ClaimSteps, EventSteps

LEMMA SoundForFewer ==
    ASSUME NEW D, NEW s, NEW sent, Sound(D, s, sent), NEW less \in SUBSET sent
    PROVE  Sound(D, s, less)
BY DEF Sound

\* A worker holds an event, and perhaps what Stripe says of it.
EventStep(j) == /\ j.step \in EventSteps /\ InboxOK(j, inbox')
                /\ j.step = "eventAnswered" => j.reply \in Replies /\ Truthful(j.reply, stripe)

\* A transaction that leaves the provider alone.
LEMMA TransactionInv ==
    ASSUME IInv, NEW E, Commit(E), UNCHANGED <<world, policy, stripe>>,
           Sound(E, stripe, SentBy(worker', stripe)), MoneyReturned(E), Follows(Stored, E),
           worker' \in [Workers -> WorkerRows],
           \A w \in Workers : \/ worker'[w] \in {worker[w], Idle}
                              \/ /\ worker'[w].step = "claimed" /\ ClaimOK(worker'[w], E.cmd, stripe)
                                 /\ LeftOK(worker'[w], E.cmd, E.pay)
                              \/ EventStep(worker'[w]),
           inbox' \in [Events -> EventRows],
           \A e \in Events : EventOK(e, inbox'[e], stripe),
           \A e \in Events : inbox[e].stan # "brak" => inbox'[e].stan # "brak"
    PROVE  IInv' /\ Follows(Stored, Stored')
<1>1. TypeParts
  BY TypeIsParts DEF IInv
<1>2. E \in Transactions
  BY DEF Sound
<1>3. rez' = E.rez /\ pay' = E.pay /\ cmd' = E.cmd
  BY DEF Commit
<1>4. Stored' = E
  BY <1>2, <1>3 DEF Stored, Transactions
<1>5. TypeParts'
  BY <1>1, <1>2, <1>4 DEF TypeParts
<1>6. \A k \in Keys : cmd[k].stan # "brak" => cmd'[k].stan # "brak" /\ cmd'[k].typ = cmd[k].typ
  BY <1>3 DEF Follows, Exists, Stored
<1>7. ProviderOK(stripe, cmd')
  <2>1. \A x \in stripe.replies : x.key \in Keys
    BY <1>1 DEF TypeParts, ProviderStates, ReplyRows
  <2>2. \A x \in stripe.replies : cmd[x.key].stan # "brak"
    BY DEF IInv, ProviderOK
  <2>3. \A x \in stripe.replies : cmd'[x.key].stan # "brak" /\ cmd'[x.key].typ = cmd[x.key].typ
    BY <1>6, <2>1, <2>2
  <2>. QED
    BY <2>3 DEF IInv, ProviderOK
<1>8. ASSUME NEW w \in Workers
      PROVE  ClaimOK(worker'[w], cmd', stripe) /\ AnswerOK(worker'[w], cmd', stripe)
             /\ InboxOK(worker'[w], inbox') /\ LeftOK(worker'[w], cmd', pay')
  <2>1. CASE worker'[w] = worker[w]
    <3>1. /\ ClaimOK(worker[w], cmd, stripe) /\ AnswerOK(worker[w], cmd, stripe)
          /\ InboxOK(worker[w], inbox) /\ LeftOK(worker[w], cmd, pay)
      BY DEF IInv
    <3>2. worker[w] \in WorkerRows
      BY <1>1 DEF TypeParts
    <3>3. worker[w].step \in ClaimSteps => /\ worker[w].id \in Keys /\ Operation(worker[w]) \in Keys
                                           /\ cmd[worker[w].id].stan # "brak"
                                           /\ cmd[Operation(worker[w])].stan # "brak"
                                           /\ (worker[w].src # None => worker[w].src = Operation(worker[w]))
      BY <3>1, <3>2 DEF ClaimOK, WorkerRows, Operation
    <3>4. ClaimOK(worker[w], cmd', stripe)
      BY <1>6, <3>1, <3>3 DEF ClaimOK
    <3>5. AnswerOK(worker[w], cmd', stripe)
      BY <1>6, <3>1, <3>3 DEF AnswerOK, NothingLeft, ClaimSteps
    <3>6. InboxOK(worker[w], inbox')
      BY <3>1 DEF InboxOK
    <3>7. LeftOK(worker[w], cmd', pay')
      BY <1>3, <1>6, <3>1, <3>3 DEF LeftOK, Follows, MoneyKept, Stored
    <3>. QED
      BY <2>1, <3>4, <3>5, <3>6, <3>7
  <2>2. CASE worker'[w] = Idle
    BY <2>2, IdleIsFine
  <2>3. CASE /\ worker'[w].step = "claimed" /\ ClaimOK(worker'[w], E.cmd, stripe)
             /\ LeftOK(worker'[w], E.cmd, E.pay)
    BY <1>3, <2>3 DEF AnswerOK, InboxOK, EventSteps
  <2>4. CASE EventStep(worker'[w])
    BY <2>4 DEF EventStep, EventSteps, AnswerOK, ClaimOK, LeftOK, ClaimSteps
  <2>. QED
    BY <2>1, <2>2, <2>3, <2>4
<1>9. MoneyReturned(Stored)'
  BY <1>4 DEF MoneyReturned, Exists
<1>10. Sound(Stored, stripe, Sent)'
  <2>1. Sent' = SentBy(worker', stripe)
    BY DEF Sent
  <2>2. Sound(Stored', stripe', Sent')
    BY <1>4, <2>1
  <2>. QED
    BY <2>2
<1>11. TypeOK'
  BY <1>5, TypeIsPartsNext
<1>. QED
  BY <1>4, <1>7, <1>8, <1>9, <1>10, <1>11 DEF IInv

\* The same for a transaction of which the workers know nothing yet.
LEMMA RequestInv ==
    ASSUME IInv, NEW E, Transaction(E), Sound(E, stripe, Sent), MoneyReturned(E), Follows(Stored, E)
    PROVE  IInv' /\ Follows(Stored, Stored')
<1>1. /\ worker \in [Workers -> WorkerRows] /\ inbox \in [Events -> EventRows]
      /\ \A e \in Events : EventOK(e, inbox[e], stripe)
  BY TypeIsParts DEF IInv, TypeParts
<1>2. Commit(E) /\ UNCHANGED <<world, policy, stripe, inbox, worker>>
  BY DEF Transaction
<1>3. Sound(E, stripe, SentBy(worker', stripe))
  BY <1>2 DEF Sent
<1>. QED
  BY <1>1, <1>2, <1>3, TransactionInv

\* Only the workers change, and only some of them let go of what they hold.
LEMMA SentByFewer ==
    ASSUME NEW s, \A w \in Workers : worker'[w] \in {worker[w], Idle}
                                     \/ worker'[w].step \in EventSteps
    PROVE  SentBy(worker', s) \subseteq SentBy(worker, s)
<1>1. \A w \in Workers : worker'[w].step \in ClaimSteps => worker'[w] = worker[w]
  BY DEF Idle, ClaimSteps, EventSteps
<1>. QED
  BY <1>1 DEF SentBy

\* The provider acts: nothing it has done is undone.
LEMMA ProviderInv ==
    ASSUME IInv, UNCHANGED <<world, policy, rez, pay, cmd, inbox>>,
           stripe' \in ProviderStates, ProviderOK(stripe', cmd), Later(stripe, stripe'),
           worker' \in [Workers -> WorkerRows],
           HasIntent(stripe') => pay.cs,
           \A k \in Keys : HasRefund(stripe', k) => k \in Sent /\ cmd[k].typ = "refund",
           stripe'.session # "none" => "checkout" \in Sent,
           \A w \in Workers :
               \/ worker'[w] = worker[w]
               \/ /\ worker[w].step = "claimed"
                  /\ worker'[w] = [worker[w] EXCEPT !.step = "answered", !.reply = worker'[w].reply]
                  /\ worker'[w].reply \in Replies /\ Truthful(worker'[w].reply, stripe')
                  /\ \/ AnswersFor(worker'[w].reply, Operation(worker[w]), cmd[Operation(worker[w])].typ, stripe')
                     \/ NothingLeft(worker'[w], cmd)
    PROVE  IInv' /\ Follows(Stored, Stored')
<1>1. TypeParts
  BY TypeIsParts DEF IInv
<1>2. Stored' = Stored
  BY DEF Stored
<1>3. TypeOK'
  BY <1>1, <1>2, TypeIsPartsNext DEF TypeParts
<1>4. ASSUME NEW w \in Workers
      PROVE  /\ ClaimOK(worker'[w], cmd, stripe') /\ AnswerOK(worker'[w], cmd, stripe')
             /\ InboxOK(worker'[w], inbox) /\ LeftOK(worker'[w], cmd, pay)
             /\ worker'[w].step \in ClaimSteps => worker[w].step \in ClaimSteps
                                                  /\ Operation(worker'[w]) = Operation(worker[w])
  <2>1. /\ ClaimOK(worker[w], cmd, stripe) /\ AnswerOK(worker[w], cmd, stripe)
        /\ InboxOK(worker[w], inbox) /\ LeftOK(worker[w], cmd, pay) /\ worker[w] \in WorkerRows
    BY <1>1 DEF IInv, TypeParts
  <2>2. worker[w].step \in ClaimSteps => Operation(worker[w]) \in Keys
    BY <2>1 DEF ClaimOK, Operation, WorkerRows
  <2>3. ClaimOK(worker[w], cmd, stripe')
    <3>1. worker[w].ref \in Keys \cup {None}
      BY <2>1 DEF WorkerRows
    <3>. QED
      BY <2>1, <2>2, <3>1 DEF ClaimOK, Later
  <2>4. CASE worker'[w] = worker[w]
    <3>1. AnswerOK(worker[w], cmd, stripe')
      <4>1. worker[w].step = "answered" => Operation(worker[w]) \in Keys
        BY <2>2 DEF ClaimSteps
      <4>. QED
        BY <2>1, <4>1, LaterReply, SystemKeysAreKeys DEF AnswerOK
    <3>. QED
      BY <2>1, <2>3, <2>4, <3>1
  <2>5. CASE worker'[w] # worker[w]
    <3>. DEFINE j == worker[w]
                q == worker'[w]
    <3>1. /\ j.step = "claimed" /\ q.reply \in Replies /\ Truthful(q.reply, stripe')
          /\ \/ AnswersFor(q.reply, Operation(j), cmd[Operation(j)].typ, stripe')
             \/ NothingLeft(q, cmd)
          /\ q = [j EXCEPT !.step = "answered", !.reply = q.reply]
      BY <2>5
    <3>2. /\ q.step = "answered" /\ q.id = j.id /\ q.src = j.src /\ q.ref = j.ref
          /\ q.object = j.object /\ q.pi = j.pi /\ q.left = j.left
      BY <2>1, <3>1 DEF WorkerRows
    <3>3. Operation(q) = Operation(j)
      BY <3>2 DEF Operation
    <3>. HIDE DEF q, j
    <3>4. ClaimOK(q, cmd, stripe')
      BY <2>3, <3>1, <3>2, <3>3 DEF ClaimOK, ClaimSteps, j
    <3>5. AnswerOK(q, cmd, stripe') /\ InboxOK(q, inbox)
      BY <3>1, <3>2, <3>3 DEF AnswerOK, InboxOK, EventSteps
    <3>6. LeftOK(q, cmd, pay)
      BY <2>1, <3>1, <3>2, <3>3 DEF LeftOK, ClaimSteps, j
    <3>. QED
      BY <3>1, <3>2, <3>3, <3>4, <3>5, <3>6 DEF q, j, ClaimSteps
  <2>. QED
    BY <2>4, <2>5
<1>5. \A e \in Events : EventOK(e, inbox[e], stripe')
  BY DEF IInv, EventOK, Later
<1>6. SentBy(worker', stripe') \subseteq Sent
  BY <1>4 DEF Sent, SentBy
<1>7. Sound(Stored, stripe', SentBy(worker', stripe'))
  <2>1. Sound(Stored, stripe, SentBy(worker', stripe'))
    BY <1>6, SoundForFewer DEF IInv
  <2>2. /\ Stored.pay = pay /\ Stored.cmd = cmd /\ SentBy(worker', stripe') \subseteq Keys
    BY DEF Stored, SentBy
  <2>3. BooksOK(pay, stripe')
    BY <2>1, <2>2 DEF Sound, BooksOK, Later
  <2>4. \A k \in Keys : RowOK(cmd[k], k, stripe')
    BY <2>1, <2>2 DEF Sound, RowOK, Later
  <2>5. \A k \in SentBy(worker', stripe') : SentOK(cmd[k], k, pay, stripe')
    BY <2>1, <2>2 DEF Sound, SentOK, Later
  <2>6. ~TurnedDown(stripe') => ~TurnedDown(stripe)
    BY DEF Later
  <2>. QED
    BY <2>1, <2>2, <2>3, <2>4, <2>5, <2>6 DEF Sound
<1>8. Sound(Stored, stripe, Sent)'
  <2>1. Sent' = SentBy(worker', stripe')
    BY DEF Sent
  <2>2. Sound(Stored', stripe', Sent')
    BY <1>2, <1>7, <2>1
  <2>. QED
    BY <2>2
<1>9. MoneyReturned(Stored)'
  <2>1. MoneyReturned(Stored)
    BY DEF IInv
  <2>. QED
    BY <1>2, <2>1 DEF MoneyReturned, Exists
<1>. QED
  BY <1>2, <1>3, <1>4, <1>5, <1>8, <1>9, FollowsSelf DEF IInv

LEMMA SentMembers ==
    ASSUME NEW k \in Keys
    PROVE  /\ HasRefund(stripe, k) => k \in Sent
           /\ k = "checkout" /\ stripe.session # "none" => k \in Sent
           /\ \A w \in Workers : worker[w].step \in ClaimSteps /\ Operation(worker[w]) = k => k \in Sent
<1>1. k \in Sent <=> \/ \E w \in Workers : worker[w].step \in ClaimSteps /\ Operation(worker[w]) = k
                     \/ HasRefund(stripe, k)
                     \/ k = "checkout" /\ stripe.session # "none"
  BY DEF Sent, SentBy
<1>. QED
  BY <1>1

\* What the invariant says of the pieces a step works with.
LEMMA Pieces ==
    ASSUME IInv
    PROVE  /\ TypeParts /\ ProviderOK(stripe, cmd) /\ Sound(Stored, stripe, Sent)
           /\ MoneyReturned(Stored) /\ Sent \in SUBSET Keys
           /\ Stored.rez = rez /\ Stored.pay = pay /\ Stored.cmd = cmd
           /\ pay \in PayRows /\ \A k \in Keys : cmd[k] \in CommandRows
           /\ BooksOK(pay, stripe) /\ \A k \in Keys : RowOK(cmd[k], k, stripe)
           /\ \A w \in Workers : /\ worker[w] \in WorkerRows
                                 /\ ClaimOK(worker[w], cmd, stripe) /\ AnswerOK(worker[w], cmd, stripe)
                                 /\ InboxOK(worker[w], inbox) /\ LeftOK(worker[w], cmd, pay)
           /\ \A e \in Events : inbox[e] \in EventRows /\ EventOK(e, inbox[e], stripe)
           /\ HasIntent(stripe) => pay.cs
           /\ \A k \in Keys : HasRefund(stripe, k) => k \in Sent /\ cmd[k].typ = "refund"
           /\ stripe.session # "none" => "checkout" \in Sent
<1>1. TypeParts
  BY TypeIsParts DEF IInv
<1>2. Stored.rez = rez /\ Stored.pay = pay /\ Stored.cmd = cmd
  BY DEF Stored
<1>3. Sent \in SUBSET Keys
  BY DEF Sent, SentBy
<1>4. pay \in PayRows /\ \A k \in Keys : cmd[k] \in CommandRows
  BY <1>1, <1>2 DEF TypeParts, Transactions
<1>5. BooksOK(pay, stripe) /\ \A k \in Keys : RowOK(cmd[k], k, stripe)
  BY <1>2 DEF IInv, Sound
<1>6. /\ HasIntent(stripe) => pay.cs
      /\ \A k \in Keys : HasRefund(stripe, k) => k \in Sent /\ cmd[k].typ = "refund"
      /\ stripe.session # "none" => "checkout" \in Sent
  BY <1>5, SentMembers, SystemKeysAreKeys DEF BooksOK, RowOK
<1>. QED
  BY <1>1, <1>2, <1>3, <1>4, <1>5, <1>6 DEF IInv, TypeParts

\* Stripe acts by itself.
LEMMA StripeInv ==
    ASSUME IInv, NEW t, ProviderStep(t), t \in ProviderStates,
           t.replies = stripe.replies, t.refused = stripe.refused,
           t.session # "none" => stripe.session # "none",
           t.session \in {"none", "open"} => ~HasIntent(t),
           HasIntent(stripe) => HasIntent(t), HasIntent(t) => pay.cs,
           Captured(stripe) => Captured(t),
           \A k \in Keys : \/ t.refund[k] = stripe.refund[k]
                           \/ stripe.refund[k] = "pending" /\ HasRefund(t, k)
    PROVE  IInv' /\ Follows(Stored, Stored')
<1>1. /\ TypeParts /\ ProviderOK(stripe, cmd)
      /\ \A k \in Keys : HasRefund(stripe, k) => k \in Sent /\ cmd[k].typ = "refund"
      /\ stripe.session # "none" => "checkout" \in Sent
  BY Pieces
<1>2. Later(stripe, t)
  BY DEF Later, MoneyBack, TurnedDown, NoCheckoutMade, HasRefund, RefundDead, Answered
<1>3. \A k \in Keys : HasRefund(t, k) => HasRefund(stripe, k)
  BY DEF HasRefund
<1>4. ASSUME NEW x \in t.replies
      PROVE  /\ Truthful(x.reply, t) /\ AnswersFor(x.reply, x.key, cmd[x.key].typ, t)
             /\ cmd[x.key].stan # "brak"
  <2>1. /\ Truthful(x.reply, stripe) /\ AnswersFor(x.reply, x.key, cmd[x.key].typ, stripe)
        /\ cmd[x.key].stan # "brak" /\ x.key \in Keys
    BY <1>1 DEF ProviderOK, TypeParts, ProviderStates, ReplyRows
  <2>. QED
    BY <1>2, <2>1, LaterReply
<1>5. ProviderOK(t, cmd)
  BY <1>1, <1>3, <1>4 DEF ProviderOK, Answered, NoCheckoutMade
<1>6. /\ stripe' = t /\ UNCHANGED <<world, policy, rez, pay, cmd, inbox, worker>>
      /\ worker \in [Workers -> WorkerRows]
  BY <1>1 DEF ProviderStep, TypeParts
<1>. QED
  BY <1>1, <1>2, <1>3, <1>5, <1>6, ProviderInv

LEMMA OutsideSteps ==
    ASSUME IInv, GuestPays \/ AsyncSettles \/ LateSuccess \/ SessionExpires
                 \/ AuthorizationExpires \/ \E k \in Keys : RefundSettles(k)
    PROVE  IInv' /\ Follows(Stored, Stored')
<1>1. /\ stripe \in ProviderStates
      /\ stripe.session \in {"none", "open"} => ~HasIntent(stripe)
      /\ HasIntent(stripe) => pay.cs
      /\ \A k \in Keys : HasRefund(stripe, k) => Captured(stripe)
  BY Pieces DEF TypeParts, ProviderOK
<1>2. CASE GuestPays
  <2>1. PICK i \in {"requires_capture", "succeeded", "processing"} :
            ProviderStep([stripe EXCEPT !.session = "complete", !.intent = i])
    BY <1>2 DEF GuestPays
  <2>. DEFINE t == [stripe EXCEPT !.session = "complete", !.intent = i]
  <2>2. /\ t \in ProviderStates /\ t.session = "complete" /\ t.intent = i /\ t.refund = stripe.refund
        /\ t.replies = stripe.replies /\ t.refused = stripe.refused
    BY <1>1 DEF ProviderStates, Sessions, Intents
  <2>. HIDE DEF t
  <2>3. stripe.session = "open" /\ pay.cs
    BY <1>2 DEF GuestPays
  <2>4. ~HasIntent(stripe) /\ ~Captured(stripe)
    BY <1>1, <2>3 DEF HasIntent, Captured
  <2>5. ProviderStep(t) /\ HasIntent(t)
    BY <2>1, <2>2 DEF t, HasIntent
  <2>. QED
    BY <2>2, <2>3, <2>4, <2>5, StripeInv
<1>3. CASE AsyncSettles \/ LateSuccess \/ AuthorizationExpires
  <2>1. PICK i \in {"succeeded", "requires_payment_method", "canceled"} :
            ProviderStep([stripe EXCEPT !.intent = i])
    BY <1>3 DEF AsyncSettles, LateSuccess, AuthorizationExpires
  <2>. DEFINE t == [stripe EXCEPT !.intent = i]
  <2>2. /\ t \in ProviderStates /\ t.session = stripe.session /\ t.intent = i /\ t.refund = stripe.refund
        /\ t.replies = stripe.replies /\ t.refused = stripe.refused
    BY <1>1 DEF ProviderStates, Sessions, Intents
  <2>. HIDE DEF t
  <2>3. stripe.intent \in {"processing", "requires_payment_method", "requires_capture"}
    BY <1>3 DEF AsyncSettles, LateSuccess, AuthorizationExpires
  <2>4. HasIntent(stripe) /\ ~Captured(stripe) /\ HasIntent(t)
    BY <2>2, <2>3 DEF HasIntent, Captured
  <2>5. ProviderStep(t)
    BY <2>1 DEF t
  <2>. QED
    BY <1>1, <2>2, <2>4, <2>5, StripeInv
<1>4. CASE SessionExpires
  <2>. DEFINE t == [stripe EXCEPT !.session = "expired"]
  <2>1. stripe.session = "open" /\ ProviderStep(t)
    BY <1>4 DEF SessionExpires
  <2>2. /\ t \in ProviderStates /\ t.session = "expired" /\ t.intent = stripe.intent
        /\ t.refund = stripe.refund
        /\ t.replies = stripe.replies /\ t.refused = stripe.refused
    BY <1>1 DEF ProviderStates, Sessions
  <2>. HIDE DEF t
  <2>. QED
    BY <1>1, <2>1, <2>2, StripeInv DEF HasIntent, Captured
<1>5. CASE \E k \in Keys : RefundSettles(k)
  <2>1. PICK k \in Keys : RefundSettles(k)
    BY <1>5
  <2>2. PICK x \in {"succeeded", "failed"} : ProviderStep([stripe EXCEPT !.refund[k] = x])
    BY <2>1 DEF RefundSettles
  <2>. DEFINE t == [stripe EXCEPT !.refund[k] = x]
  <2>3. /\ t \in ProviderStates /\ t.session = stripe.session /\ t.intent = stripe.intent
        /\ t.replies = stripe.replies /\ t.refused = stripe.refused
        /\ t.refund[k] = x /\ \A o \in Keys \ {k} : t.refund[o] = stripe.refund[o]
    BY <1>1 DEF ProviderStates, RefundStates
  <2>. HIDE DEF t
  <2>4. stripe.refund[k] = "pending" /\ HasRefund(t, k)
    BY <2>1, <2>3 DEF RefundSettles, HasRefund
  <2>5. ProviderStep(t)
    BY <2>2 DEF t
  <2>. QED
    BY <1>1, <2>3, <2>4, <2>5, StripeInv DEF HasIntent, Captured
<1>. QED
  BY <1>2, <1>3, <1>4, <1>5

LEMMA ExecuteInv ==
    ASSUME IInv, NEW w \in Workers, ExecuteClaim(w)
    PROVE  IInv' /\ Follows(Stored, Stored')
<1>. DEFINE j == worker[w]
            k == Operation(j)
            typ == cmd[k].typ
<1>1. /\ TypeParts /\ ProviderOK(stripe, cmd) /\ j \in WorkerRows /\ j.step = "claimed"
      /\ ClaimOK(j, cmd, stripe) /\ stripe \in ProviderStates /\ worker \in [Workers -> WorkerRows]
  BY Pieces DEF ExecuteClaim, TypeParts
<1>2. k \in Keys /\ cmd[k].stan # "brak" /\ cmd[k] \in CommandRows /\ RowOK(cmd[k], k, stripe)
  <2>1. k \in Keys /\ cmd[k].stan # "brak"
    BY <1>1 DEF ClaimOK, ClaimSteps, Operation, WorkerRows
  <2>. QED
    BY <2>1, Pieces
<1>3. Addressed(k, typ, cmd) /\ (HasRefund(stripe, k) => typ = "refund")
  BY <1>2 DEF Addressed, RowOK, CommandRows
<1>4. \A x \in Exchanges(j) :
          \/ ExchangeOK(x, k, stripe, cmd)
          \/ typ = "refund" /\ ~j.left /\ x = Exchange(stripe, Failure("refund"))
  BY <1>1, <1>3, ClaimExchange
<1>. DEFINE Good(t, r) == /\ t \in ProviderStates /\ ProviderOK(t, cmd) /\ Later(stripe, t)
                          /\ r \in Replies /\ Truthful(r, t)
                          /\ \/ AnswersFor(r, k, typ, t)
                             \/ typ = "refund" /\ ~j.left /\ r = Failure("refund")
                          /\ \A o \in Keys : HasRefund(t, o) => HasRefund(stripe, o) \/ (o = k /\ typ = "refund")
                          /\ t.session # "none" => stripe.session # "none" \/ k = "checkout"
                          /\ HasIntent(t) => HasIntent(stripe)
<1>5. \E t, r : /\ Good(t, r) /\ stripe' = t
                /\ worker' = [worker EXCEPT ![w].step = "answered", ![w].reply = r]
  <2>1. CASE \E x \in Exchanges(j) :
               /\ stripe' = x.stripe
               /\ worker' = [worker EXCEPT ![w].step = "answered", ![w].reply = x.reply]
    <3>1. PICK x \in Exchanges(j) :
               /\ stripe' = x.stripe
               /\ worker' = [worker EXCEPT ![w].step = "answered", ![w].reply = x.reply]
      BY <2>1
    <3>2. CASE ExchangeOK(x, k, stripe, cmd)
      <4>1. Good(x.stripe, x.reply)
        BY <3>2 DEF ExchangeOK
      <4>. HIDE DEF Good
      <4>. QED
        BY <3>1, <4>1
    <3>3. CASE typ = "refund" /\ ~j.left /\ x = Exchange(stripe, Failure("refund"))
      <4>1. x.stripe = stripe /\ x.reply = Failure("refund")
        BY <3>3 DEF Exchange
      <4>2. Failure("refund") \in Replies /\ Truthful(Failure("refund"), stripe)
        BY FailureReply
      <4>3. Good(x.stripe, x.reply)
        BY <1>1, <3>3, <4>1, <4>2, LaterSelf
      <4>. HIDE DEF Good
      <4>. QED
        BY <3>1, <4>3
    <3>. QED
      BY <1>4, <3>2, <3>3
  <2>2. CASE \E t \in {x.stripe : x \in Exchanges(j)} \cup {stripe} :
               /\ stripe' = t
               /\ worker' = [worker EXCEPT ![w].step = "answered", ![w].reply = Plain("retry")]
    <3>1. PICK t \in {x.stripe : x \in Exchanges(j)} \cup {stripe} :
               /\ stripe' = t
               /\ worker' = [worker EXCEPT ![w].step = "answered", ![w].reply = Plain("retry")]
      BY <2>2
    <3>2. Plain("retry") \in Replies /\ Truthful(Plain("retry"), t) /\ AnswersFor(Plain("retry"), k, typ, t)
      BY PlainReply
    <3>3. Good(t, Plain("retry"))
      <4>1. CASE t = stripe
        BY <1>1, <3>2, <4>1, LaterSelf
      <4>2. CASE t # stripe
        <5>1. PICK x \in Exchanges(j) : t = x.stripe
          BY <3>1, <4>2
        <5>2. ExchangeOK(x, k, stripe, cmd)
          BY <1>4, <4>2, <5>1 DEF Exchange
        <5>. QED
          BY <3>2, <5>1, <5>2 DEF ExchangeOK
      <4>. QED
        BY <4>1, <4>2
    <3>. QED
      BY <3>1, <3>3
  <2>. QED
    BY <2>1, <2>2 DEF ExecuteClaim
<1>6. PICK t, r : /\ Good(t, r) /\ stripe' = t
                  /\ worker' = [worker EXCEPT ![w].step = "answered", ![w].reply = r]
  BY <1>5
<1>7. /\ worker' \in [Workers -> WorkerRows] /\ worker'[w].reply = r
      /\ worker'[w] = [j EXCEPT !.step = "answered", !.reply = r]
      /\ \A v \in Workers \ {w} : worker'[v] = worker[v]
  BY <1>1, <1>6 DEF WorkerRows
<1>8. k \in Sent
  BY <1>1, <1>2, SentMembers DEF ClaimSteps
<1>9. UNCHANGED <<world, policy, rez, pay, cmd, inbox>>
  BY DEF ExecuteClaim
<1>10. /\ HasIntent(stripe') => pay.cs
       /\ \A o \in Keys : HasRefund(stripe', o) => o \in Sent /\ cmd[o].typ = "refund"
       /\ stripe'.session # "none" => "checkout" \in Sent
  BY <1>6, <1>8, Pieces
<1>. HIDE DEF j, k, typ
<1>11. \A v \in Workers :
           \/ worker'[v] = worker[v]
           \/ /\ worker[v].step = "claimed"
              /\ worker'[v] = [worker[v] EXCEPT !.step = "answered", !.reply = worker'[v].reply]
              /\ worker'[v].reply \in Replies /\ Truthful(worker'[v].reply, stripe')
              /\ \/ AnswersFor(worker'[v].reply, Operation(worker[v]), cmd[Operation(worker[v])].typ, stripe')
                 \/ NothingLeft(worker'[v], cmd)
  <2>1. worker'[w].left = worker[w].left /\ Operation(worker'[w]) = Operation(worker[w])
    BY <1>1, <1>7 DEF WorkerRows, Operation, j
  <2>. QED
    BY <1>1, <1>6, <1>7, <2>1 DEF NothingLeft, j, k, typ
<1>. QED
  BY <1>1, <1>6, <1>7, <1>9, <1>10, <1>11, ProviderInv

-----------------------------------------------------------------------------
(* The requests.                                                            *)

LEMMA RezIrrelevant ==
    ASSUME NEW D, NEW s, NEW sent, Sound(D, s, sent), NEW r \in {"aktywna", "odwolana", "brak"}
    PROVE  LET E == [D EXCEPT !.rez = r]
           IN  Sound(E, s, sent) /\ Follows(D, E) /\ E.pay = D.pay /\ E.cmd = D.cmd /\ E.rez = r
<1>. DEFINE E == [D EXCEPT !.rez = r]
<1>1. E \in Transactions /\ E.pay = D.pay /\ E.cmd = D.cmd /\ E.rez = r
  BY DEF Sound, Transactions
<1>. HIDE DEF E
<1>2. Sound(E, s, sent) /\ Follows(D, E)
  BY <1>1 DEF Sound, Follows, MoneyKept, Exists
<1>. QED
  BY <1>1, <1>2 DEF E

\* Whatever the reservation becomes, its captured money is asked back.
LEMMA SettlementSound ==
    ASSUME NEW D, NEW s, NEW sent \in SUBSET Keys, Sound(D, s, sent), NEW base \in {"cancel", "delete"},
           D.pay.status = "oplacona" /\ Exists(D, "superseded") => Exists(D, "supersededRefund")
    PROVE  LET E == Settlement(D, base)
           IN  /\ Sound(E, s, sent) /\ Follows(D, E) /\ E.rez = D.rez
               /\ E.pay.status = "oplacona" /\ policy.refundOnCancel => Exists(E, "cancelRefund")
               /\ E.pay.status = "oplacona" /\ Exists(E, "superseded") => Exists(E, "supersededRefund")
<1>. DEFINE E == Settlement(D, base)
<1>1. D.pay.status \in Statuses
  BY DEF Sound, Transactions, PayRows
<1>2. CASE D.pay.status \in {"oczekuje", "autoryzowana"}
  <2>1. E = QueueCommand(D, base, "cancel_authorization")
    BY <1>2 DEF Settlement
  <2>2. base \in Keys \ {"checkout"} /\ "cancel_authorization" \in Types \ {"create_checkout"}
    BY SystemKeysAreKeys DEF Types, Sources, Mutations
  <2>3. Sound(E, s, sent) /\ Follows(D, E) /\ E.rez = D.rez /\ E.pay = D.pay
    BY <2>1, <2>2, QueueCommandSound
  <2>. QED
    BY <1>2, <2>3
<1>3. CASE D.pay.status = "oplacona" /\ policy.refundOnCancel
  <2>1. E = RequestRefund(D, "cancelRefund")
    BY <1>3 DEF Settlement
  <2>2. {"cancelRefund", "superseded", "supersededRefund"} \subseteq Keys \ {"checkout"}
    BY SystemKeysAreKeys
  <2>3. /\ Sound(E, s, sent) /\ Follows(D, E) /\ E.rez = D.rez /\ Exists(E, "cancelRefund")
        /\ \A o \in Keys \ {"cancelRefund"} : E.cmd[o] = D.cmd[o]
    BY <1>3, <2>1, <2>2, RequestRefundSound
  <2>. QED
    BY <1>3, <2>2, <2>3 DEF Exists
<1>4. CASE D.pay.status \in {"nieudana", "wygasla", "anulowana"} /\ policy.refundOnCancel
  <2>. DEFINE k == IF base = "cancel" THEN "cancelMarker" ELSE "deleteMarker"
  <2>1. E = QueueCommand(D, k, "reconcile")
    BY <1>4 DEF Settlement
  <2>2. k \in Keys \ {"checkout"} /\ "reconcile" \in Types \ {"create_checkout"}
    BY SystemKeysAreKeys DEF Types, Sources, Mutations
  <2>3. Sound(E, s, sent) /\ Follows(D, E) /\ E.rez = D.rez /\ E.pay = D.pay
    BY <2>1, <2>2, QueueCommandSound
  <2>. QED
    BY <1>4, <2>3
<1>5. CASE /\ D.pay.status \notin {"oczekuje", "autoryzowana"}
           /\ ~(D.pay.status = "oplacona" /\ policy.refundOnCancel)
           /\ ~(D.pay.status \in {"nieudana", "wygasla", "anulowana"} /\ policy.refundOnCancel)
  <2>1. E = D
    BY <1>5 DEF Settlement
  <2>. QED
    BY <1>5, <2>1, FollowsSelf
<1>. QED
  BY <1>2, <1>3, <1>4, <1>5

LEMMA CancelInv == IInv /\ CancelReservation => IInv' /\ Follows(Stored, Stored')
<1>. SUFFICES ASSUME IInv, CancelReservation PROVE IInv' /\ Follows(Stored, Stored')
  OBVIOUS
<1>. DEFINE D == [Stored EXCEPT !.rez = "odwolana"]
            E == Settlement(D, "cancel")
<1>1. /\ Sound(Stored, stripe, Sent) /\ MoneyReturned(Stored) /\ Sent \in SUBSET Keys
  BY Pieces
<1>2. /\ Sound(D, stripe, Sent) /\ Follows(Stored, D) /\ D.pay = Stored.pay /\ D.cmd = Stored.cmd
      /\ D.rez = "odwolana"
  BY <1>1, RezIrrelevant
<1>. HIDE DEF D
<1>3. D.pay.status = "oplacona" /\ Exists(D, "superseded") => Exists(D, "supersededRefund")
  BY <1>1, <1>2 DEF MoneyReturned, Exists
<1>4. /\ Sound(E, stripe, Sent) /\ Follows(D, E)
      /\ E.pay.status = "oplacona" /\ policy.refundOnCancel => Exists(E, "cancelRefund")
      /\ E.pay.status = "oplacona" /\ Exists(E, "superseded") => Exists(E, "supersededRefund")
  BY <1>1, <1>2, <1>3, SettlementSound
<1>5. Transaction(E)
  BY DEF CancelReservation, D
<1>. HIDE DEF E
<1>6. MoneyReturned(E) /\ Follows(Stored, E)
  BY <1>2, <1>4, FollowsChain DEF MoneyReturned
<1>. QED
  BY <1>4, <1>5, <1>6, RequestInv

LEMMA DeleteInv == IInv /\ DeleteReservation => IInv' /\ Follows(Stored, Stored')
<1>. SUFFICES ASSUME IInv, DeleteReservation PROVE IInv' /\ Follows(Stored, Stored')
  OBVIOUS
<1>. DEFINE D == Settlement(Stored, "delete")
            E == [D EXCEPT !.rez = "brak"]
<1>1. Sound(Stored, stripe, Sent) /\ MoneyReturned(Stored) /\ Sent \in SUBSET Keys
  BY Pieces
<1>2. /\ Sound(D, stripe, Sent) /\ Follows(Stored, D)
      /\ D.pay.status = "oplacona" /\ policy.refundOnCancel => Exists(D, "cancelRefund")
      /\ D.pay.status = "oplacona" /\ Exists(D, "superseded") => Exists(D, "supersededRefund")
  BY <1>1, SettlementSound DEF MoneyReturned
<1>. HIDE DEF D
<1>3. Sound(E, stripe, Sent) /\ Follows(D, E) /\ E.pay = D.pay /\ E.cmd = D.cmd
  BY <1>2, RezIrrelevant
<1>4. Transaction(E)
  BY DEF DeleteReservation, D
<1>. HIDE DEF E
<1>5. MoneyReturned(E) /\ Follows(Stored, E)
  BY <1>2, <1>3, FollowsChain DEF MoneyReturned, Exists
<1>. QED
  BY <1>3, <1>4, <1>5, RequestInv

LEMMA RetryInv == IInv /\ RetryPayment => IInv' /\ Follows(Stored, Stored')
<1>. SUFFICES ASSUME IInv, RetryPayment PROVE IInv' /\ Follows(Stored, Stored')
  OBVIOUS
<1>. DEFINE E == QueueCommand(Stored, "superseded", "reconcile")
<1>1. Sound(Stored, stripe, Sent) /\ Sent \in SUBSET Keys /\ Stored.pay = pay
  BY Pieces
<1>2. "superseded" \in Keys \ {"checkout"} /\ "reconcile" \in Types \ {"create_checkout"}
  BY SystemKeysAreKeys DEF Types, Sources, Mutations
<1>3. Sound(E, stripe, Sent) /\ Follows(Stored, E) /\ E.pay = pay
  BY <1>1, <1>2, QueueCommandSound
<1>4. Transaction(E) /\ pay.status # "oplacona"
  BY DEF RetryPayment
<1>5. MoneyReturned(E)
  BY <1>3, <1>4 DEF MoneyReturned
<1>. QED
  BY <1>3, <1>4, <1>5, RequestInv

LEMMA EditInv == IInv /\ EditReservation => IInv' /\ Follows(Stored, Stored')
<1>. SUFFICES ASSUME IInv, EditReservation PROVE IInv' /\ Follows(Stored, Stored')
  OBVIOUS
<1>. DEFINE D == [Stored EXCEPT !.rez = "brak"]
            E == IF pay.status = "zwrocona" THEN D ELSE QueueCommand(D, "superseded", "reconcile")
<1>1. Sound(Stored, stripe, Sent) /\ Sent \in SUBSET Keys /\ Stored.pay = pay
  BY Pieces
<1>2. "superseded" \in Keys \ {"checkout"} /\ "reconcile" \in Types \ {"create_checkout"}
  BY SystemKeysAreKeys DEF Types, Sources, Mutations
<1>3. Sound(D, stripe, Sent) /\ Follows(Stored, D) /\ D.pay = pay
  BY <1>1, RezIrrelevant
<1>. HIDE DEF D
<1>4. Sound(E, stripe, Sent) /\ Follows(D, E) /\ E.pay = pay
  BY <1>1, <1>2, <1>3, QueueCommandSound, FollowsSelf
<1>5. Transaction(E) /\ pay.status # "oplacona"
  BY DEF EditReservation, D
<1>6. MoneyReturned(E) /\ Follows(Stored, E)
  BY <1>3, <1>4, <1>5, FollowsChain DEF MoneyReturned
<1>. QED
  BY <1>4, <1>5, <1>6, RequestInv

\* A command under a key of the operator changes nothing about late money.
LEMMA OperatorMoney ==
    ASSUME NEW D, MoneyReturned(D), NEW E, NEW o \in OperatorKeys,
           E.rez = D.rez, E.pay.status = D.pay.status, \A k \in Keys \ {o} : E.cmd[k] = D.cmd[k]
    PROVE  MoneyReturned(E)
<1>1. SystemKeys \subseteq Keys \ {o}
  BY PaymentAssumption DEF Keys
<1>2. CancellationKeys \cup {"superseded", "supersededRefund"} \subseteq Keys \ {o}
  BY <1>1 DEF CancellationKeys, SystemKeys
<1>3. \A k \in CancellationKeys \cup {"superseded", "supersededRefund"} : Exists(E, k) <=> Exists(D, k)
  BY <1>2 DEF Exists
<1>. QED
  BY <1>3 DEF MoneyReturned, CancellationKeys

LEMMA OperatorInv ==
    ASSUME IInv, NEW o \in world.keys, OperatorRequest(o) \/ OperatorReconcile(o)
    PROVE  IInv' /\ Follows(Stored, Stored')
<1>1. /\ Sound(Stored, stripe, Sent) /\ Sent \in SUBSET Keys /\ Stored.pay = pay
      /\ MoneyReturned(Stored) /\ world \in Worlds
  BY Pieces DEF TypeParts
<1>2. o \in OperatorKeys /\ o \in Keys \ {"checkout"}
  <2>1. o \in OperatorKeys
    BY <1>1, PaymentAssumption
  <2>2. "checkout" \in SystemKeys
    BY DEF SystemKeys
  <2>. QED
    BY <2>1, <2>2, PaymentAssumption DEF Keys
<1>3. ASSUME NEW typ \in {"capture", "cancel_authorization", "reconcile"},
             Transaction(QueueCommand(Stored, o, typ))
      PROVE  IInv' /\ Follows(Stored, Stored')
  <2>. DEFINE E == QueueCommand(Stored, o, typ)
  <2>1. typ \in Types \ {"create_checkout"} /\ typ # "refund"
    BY DEF Types, Sources, Mutations
  <2>2. /\ Sound(E, stripe, Sent) /\ Follows(Stored, E) /\ E.pay = Stored.pay /\ E.rez = Stored.rez
        /\ \A k \in Keys \ {o} : E.cmd[k] = Stored.cmd[k]
    BY <1>1, <1>2, <2>1, QueueCommandSound
  <2>. HIDE DEF E
  <2>3. MoneyReturned(E)
    BY <1>1, <1>2, <2>2, OperatorMoney
  <2>. QED
    BY <1>3, <2>2, <2>3, RequestInv DEF E
<1>4. ASSUME pay.status = "oplacona", Transaction(RequestRefund(Stored, o))
      PROVE  IInv' /\ Follows(Stored, Stored')
  <2>. DEFINE E == RequestRefund(Stored, o)
  <2>1. /\ Sound(E, stripe, Sent) /\ Follows(Stored, E) /\ E.pay.status = Stored.pay.status
        /\ E.rez = Stored.rez /\ \A k \in Keys \ {o} : E.cmd[k] = Stored.cmd[k]
    BY <1>1, <1>2, <1>4, RequestRefundSound
  <2>. HIDE DEF E
  <2>2. MoneyReturned(E)
    BY <1>1, <1>2, <2>1, OperatorMoney
  <2>. QED
    BY <1>4, <2>1, <2>2, RequestInv DEF E
<1>. QED
  BY <1>3, <1>4 DEF OperatorRequest, OperatorReconcile

-----------------------------------------------------------------------------
(* Time, and the worker's transactions.                                     *)

LEMMA TimeInv ==
    ASSUME IInv, NEW k \in Keys, DeadlinePasses(k) \/ LeaseLapses(k)
    PROVE  IInv' /\ Follows(Stored, Stored')
<1>. DEFINE E == [Stored EXCEPT !.cmd = cmd']
<1>1. /\ Sound(Stored, stripe, Sent) /\ Sent \in SUBSET Keys /\ MoneyReturned(Stored)
      /\ Stored.rez = rez /\ Stored.pay = pay /\ Stored.cmd = cmd /\ Stored \in Transactions
      /\ \A o \in Keys : cmd[o] \in CommandRows /\ RowOK(cmd[o], o, stripe)
  BY Pieces DEF TypeParts
<1>2. /\ cmd' \in [Keys -> CommandRows] /\ \A o \in Keys \ {k} : cmd'[o] = cmd[o]
      /\ cmd'[k].typ = cmd[k].typ /\ cmd'[k].stan = cmd[k].stan /\ cmd'[k].tries = cmd[k].tries
      /\ cmd'[k].object = cmd[k].object
  <2>1. cmd \in [Keys -> CommandRows]
    BY <1>1 DEF Transactions
  <2>2. PICK row : /\ cmd' = [cmd EXCEPT ![k] = row]
                   /\ row = [cmd[k] EXCEPT !.late = TRUE] \/ row = [cmd[k] EXCEPT !.lapsed = TRUE]
    BY DEF DeadlinePasses, LeaseLapses
  <2>3. /\ row \in CommandRows /\ row.typ = cmd[k].typ /\ row.stan = cmd[k].stan
        /\ row.tries = cmd[k].tries /\ row.object = cmd[k].object
    BY <2>1, <2>2 DEF CommandRows
  <2>. QED
    BY <2>1, <2>2, <2>3
<1>3. E \in Transactions /\ E.rez = rez /\ E.pay = pay /\ E.cmd = cmd'
  BY <1>1, <1>2 DEF Transactions
<1>. HIDE DEF E
<1>4. \A o \in Keys : KeepsRow(Stored.cmd[o], E.cmd[o])
  BY <1>1, <1>2, <1>3 DEF KeepsRow, RowOK
<1>5. \A o \in Sent : SentOK(E.cmd[o], o, E.pay, stripe)
  BY <1>1, <1>2, <1>3 DEF Sound, SentOK, Begun
<1>6. Sound(E, stripe, Sent) /\ Follows(Stored, E) /\ MoneyReturned(E)
  <2>1. E.cmd["checkout"].stan \in ACTIVE_STATES => Stored.cmd["checkout"].stan \in ACTIVE_STATES
    BY <1>1, <1>2, <1>3, SystemKeysAreKeys
  <2>. QED
    BY <1>1, <1>3, <1>4, <1>5, <2>1, RowsSound
<1>7. Transaction(E)
  BY <1>3 DEF Transaction, Commit, DeadlinePasses, LeaseLapses
<1>. QED
  BY <1>6, <1>7, RequestInv

\* A transaction in which the worker w lets go of what it held.
LEMMA LetGoInv ==
    ASSUME IInv, NEW E, Commit(E), UNCHANGED <<world, policy, stripe>>,
           Sound(E, stripe, Sent), MoneyReturned(E), Follows(Stored, E),
           NEW w \in Workers, worker' \in {worker, [worker EXCEPT ![w] = Idle]},
           inbox' \in [Events -> EventRows],
           \A e \in Events : EventOK(e, inbox'[e], stripe),
           \A e \in Events : inbox[e].stan # "brak" => inbox'[e].stan # "brak"
    PROVE  IInv' /\ Follows(Stored, Stored')
<1>1. worker \in [Workers -> WorkerRows]
  BY Pieces DEF TypeParts
<1>2. worker' \in [Workers -> WorkerRows] /\ \A v \in Workers : worker'[v] \in {worker[v], Idle}
  BY <1>1, IdleIsFine
<1>3. SentBy(worker', stripe) \subseteq Sent
  BY <1>2, SentByFewer DEF Sent
<1>4. Sound(E, stripe, SentBy(worker', stripe))
  BY <1>3, SoundForFewer
<1>. QED
  BY <1>2, <1>4, TransactionInv

LEMMA ClaimNextInv ==
    ASSUME IInv, NEW w \in Workers, ClaimNext(w)
    PROVE  IInv' /\ Follows(Stored, Stored')
<1>1. /\ Sound(Stored, stripe, Sent) /\ Sent \in SUBSET Keys /\ MoneyReturned(Stored)
      /\ worker \in [Workers -> WorkerRows] /\ inbox \in [Events -> EventRows]
      /\ \A e \in Events : EventOK(e, inbox[e], stripe)
  BY Pieces DEF TypeParts
<1>2. Sound(Recovered, stripe, Sent) /\ Follows(Stored, Recovered) /\ MoneyReturned(Recovered)
  BY <1>1, RecoveredSound
<1>3. PICK S \in SUBSET StaleRows(Recovered), k \in Claimable : Claim(SettleRows(Recovered, S), w, k)
  BY DEF ClaimNext
<1>. DEFINE D == SettleRows(Recovered, S)
<1>4. /\ Sound(D, stripe, Sent) /\ Follows(Recovered, D) /\ MoneyReturned(D)
      /\ \A o \in Keys \ S : D.cmd[o] = Recovered.cmd[o]
  BY <1>1, <1>2, SettleSound
<1>5. /\ k \in Keys /\ k \notin S /\ Recovered.cmd[k].stan \in PENDING_STATES
      /\ ~(Recovered.cmd[k].tries >= MaxTries)
  BY DEF Claimable, StaleRows
<1>6. Claim(D, w, k)
  BY <1>3
<1>. HIDE DEF D
<1>7. PICK src \in (IF D.cmd[k].typ = "reconcile" THEN OneOf(ReconcileSources(D)) ELSE {None}),
           ref \in (IF D.cmd[k].typ = "reconcile" THEN OneOf(RefundReferences(D)) ELSE {None}) :
            /\ worker' = [worker EXCEPT ![w] =
                   [step |-> "claimed", id |-> k, src |-> src, ref |-> ref,
                    object |-> IF src = None THEN None ELSE D.cmd[src].object,
                    cs |-> D.pay.cs, pi |-> D.pay.pi, left |-> D.pay.status = "oplacona", reply |-> None]]
            /\ Commit([D EXCEPT !.cmd[k].tries = @ + 1, !.cmd[k].stan = "processing",
                                !.cmd[k].lease = w, !.cmd[k].lapsed = FALSE])
  BY <1>6 DEF Claim
<1>. DEFINE E == [D EXCEPT !.cmd[k].tries = @ + 1, !.cmd[k].stan = "processing",
                           !.cmd[k].lease = w, !.cmd[k].lapsed = FALSE]
            j == [step |-> "claimed", id |-> k, src |-> src, ref |-> ref,
                  object |-> IF src = None THEN None ELSE D.cmd[src].object,
                  cs |-> D.pay.cs, pi |-> D.pay.pi, left |-> D.pay.status = "oplacona", reply |-> None]
<1>8. /\ Sound(E, stripe, Sent \cup {Operation(j)}) /\ Follows(D, E)
      /\ MoneyReturned(D) => MoneyReturned(E)
      /\ ClaimOK(j, E.cmd, stripe) /\ j \in WorkerRows /\ Operation(j) \in Keys
      /\ LeftOK(j, E.cmd, E.pay)
  BY <1>1, <1>4, <1>5, <1>7, ClaimSound
<1>9. j.step = "claimed" /\ worker' = [worker EXCEPT ![w] = j] /\ Commit(E)
  BY <1>7
<1>. HIDE DEF E, j
<1>10. /\ worker' \in [Workers -> WorkerRows] /\ worker'[w] = j
       /\ \A v \in Workers \ {w} : worker'[v] = worker[v]
  BY <1>1, <1>8, <1>9
<1>11. SentBy(worker', stripe) \subseteq Sent \cup {Operation(j)}
  BY <1>10 DEF Sent, SentBy
<1>12. Sound(E, stripe, SentBy(worker', stripe))
  BY <1>8, <1>11, SoundForFewer
<1>13. Follows(Stored, E)
  <2>1. Follows(Stored, D)
    BY <1>2, <1>4, FollowsChain
  <2>. QED
    BY <1>8, <2>1, FollowsChain
<1>14. \A v \in Workers : \/ worker'[v] \in {worker[v], Idle}
                          \/ /\ worker'[v].step = "claimed" /\ ClaimOK(worker'[v], E.cmd, stripe)
                             /\ LeftOK(worker'[v], E.cmd, E.pay)
  BY <1>8, <1>9, <1>10
<1>15. UNCHANGED <<world, policy, inbox, stripe>>
  BY DEF ClaimNext
<1>. QED
  BY <1>1, <1>4, <1>8, <1>9, <1>10, <1>12, <1>13, <1>14, <1>15, TransactionInv

LEMMA ClaimNothingInv ==
    ASSUME IInv, NEW w \in Workers, ClaimNothing(w)
    PROVE  IInv' /\ Follows(Stored, Stored')
<1>1. /\ Sound(Stored, stripe, Sent) /\ Sent \in SUBSET Keys /\ MoneyReturned(Stored)
  BY Pieces
<1>2. Sound(Recovered, stripe, Sent) /\ Follows(Stored, Recovered) /\ MoneyReturned(Recovered)
  BY <1>1, RecoveredSound
<1>3. PICK S \in SUBSET StaleRows(Recovered) : Commit(SettleRows(Recovered, S))
  BY DEF ClaimNothing
<1>. DEFINE D == SettleRows(Recovered, S)
<1>4. /\ Sound(D, stripe, Sent) /\ Follows(Recovered, D) /\ MoneyReturned(D)
  BY <1>1, <1>2, SettleSound
<1>5. Transaction(D)
  BY <1>3 DEF ClaimNothing, Transaction
<1>. HIDE DEF D
<1>6. Follows(Stored, D)
  BY <1>2, <1>4, FollowsChain
<1>. QED
  BY <1>4, <1>5, <1>6, RequestInv

LEMMA FinalizeInv ==
    ASSUME IInv, NEW w \in Workers, FinalizeClaim(w)
    PROVE  IInv' /\ Follows(Stored, Stored')
<1>1. /\ Sound(Stored, stripe, Sent) /\ Sent \in SUBSET Keys /\ MoneyReturned(Stored)
      /\ worker[w] \in WorkerRows /\ ClaimOK(worker[w], cmd, stripe) /\ AnswerOK(worker[w], cmd, stripe)
      /\ LeftOK(worker[w], cmd, pay)
      /\ inbox \in [Events -> EventRows] /\ \A e \in Events : EventOK(e, inbox[e], stripe)
  BY Pieces DEF TypeParts
<1>2. \E E : Commit(E) /\ Sound(E, stripe, Sent) /\ Follows(Stored, E) /\ MoneyReturned(E)
  <2>1. CASE ~Held(w) /\ Commit(Stored)
    BY <1>1, <2>1, FollowsSelf
  <2>2. CASE Held(w) /\ \E stan \in Outcomes(cmd[worker[w].id],
                                             IF ClaimConflict(worker[w]) THEN "uncertain"
                                             ELSE worker[w].reply.outcome) : Commit(Recorded(w, stan))
    <3>1. PICK stan \in Outcomes(cmd[worker[w].id], IF ClaimConflict(worker[w]) THEN "uncertain"
                                                    ELSE worker[w].reply.outcome) :
              Commit(Recorded(w, stan))
      BY <2>2
    <3>2. worker[w].step = "answered"
      BY DEF FinalizeClaim
    <3>3. /\ Sound(Recorded(w, stan), stripe, Sent) /\ Follows(Stored, Recorded(w, stan))
          /\ MoneyReturned(Recorded(w, stan))
      BY <1>1, <2>2, <3>2, RecordedSound
    <3>. QED
      BY <3>1, <3>3
  <2>. QED
    BY <2>1, <2>2 DEF FinalizeClaim
<1>3. PICK E : Commit(E) /\ Sound(E, stripe, Sent) /\ Follows(Stored, E) /\ MoneyReturned(E)
  BY <1>2
<1>4. worker' = [worker EXCEPT ![w] = Idle] /\ UNCHANGED <<world, policy, inbox, stripe>>
  BY DEF FinalizeClaim
<1>. QED
  BY <1>1, <1>3, <1>4, LetGoInv

-----------------------------------------------------------------------------
(* The inbox.                                                               *)

\* A step that touches nothing but the inbox and lets go of claims.
LEMMA InboxInv ==
    ASSUME IInv, UNCHANGED <<world, policy, rez, pay, cmd, stripe>>,
           worker' \in [Workers -> WorkerRows],
           \A w \in Workers : \/ worker'[w] \in {worker[w], Idle}
                              \/ EventStep(worker'[w]),
           inbox' \in [Events -> EventRows],
           \A e \in Events : EventOK(e, inbox'[e], stripe),
           \A e \in Events : inbox[e].stan # "brak" => inbox'[e].stan # "brak"
    PROVE  IInv' /\ Follows(Stored, Stored')
<1>1. Sound(Stored, stripe, Sent) /\ MoneyReturned(Stored)
  BY Pieces
<1>2. SentBy(worker', stripe) \subseteq Sent
  <2>1. \A w \in Workers : worker'[w] \in {worker[w], Idle} \/ worker'[w].step \in EventSteps
    BY DEF EventStep
  <2>. QED
    BY <2>1, SentByFewer DEF Sent
<1>3. Sound(Stored, stripe, SentBy(worker', stripe))
  BY <1>1, <1>2, SoundForFewer
<1>4. Commit(Stored)
  BY DEF Commit, Stored
<1>. QED
  BY <1>1, <1>3, <1>4, FollowsSelf, TransactionInv

LEMMA EventLapseInv ==
    ASSUME IInv, NEW e \in Events, EventLeaseLapses(e)
    PROVE  IInv' /\ Follows(Stored, Stored')
<1>1. /\ inbox \in [Events -> EventRows] /\ \A x \in Events : EventOK(x, inbox[x], stripe)
      /\ worker \in [Workers -> WorkerRows]
  BY Pieces DEF TypeParts
<1>. DEFINE row == [inbox[e] EXCEPT !.lapsed = TRUE]
<1>2. /\ row \in EventRows /\ row.stan = inbox[e].stan /\ row.tries = inbox[e].tries
      /\ row.of = inbox[e].of
  BY <1>1 DEF EventRows
<1>3. inbox' = [inbox EXCEPT ![e] = row]
  BY DEF EventLeaseLapses
<1>. HIDE DEF row
<1>4. /\ inbox' \in [Events -> EventRows] /\ inbox'[e] = row
      /\ \A x \in Events \ {e} : inbox'[x] = inbox[x]
  BY <1>1, <1>2, <1>3
<1>5. EventOK(e, row, stripe)
  BY <1>1, <1>2 DEF EventOK
<1>6. \A x \in Events : EventOK(x, inbox'[x], stripe) /\ (inbox[x].stan # "brak" => inbox'[x].stan # "brak")
  BY <1>1, <1>2, <1>4, <1>5
<1>7. worker' = worker /\ UNCHANGED <<world, policy, rez, pay, cmd, stripe>>
  BY DEF EventLeaseLapses
<1>. QED
  BY <1>1, <1>4, <1>6, <1>7, InboxInv

LEMMA IngestInv ==
    ASSUME IInv, NEW e \in Events, NEW k \in Keys \cup {None}, IngestWebhook(e, k)
    PROVE  IInv' /\ Follows(Stored, Stored')
<1>1. /\ inbox \in [Events -> EventRows] /\ \A x \in Events : EventOK(x, inbox[x], stripe)
      /\ worker \in [Workers -> WorkerRows]
  BY Pieces DEF TypeParts
<1>. DEFINE row == [[inbox[e] EXCEPT !.stan = "queued"] EXCEPT !.of = k]
<1>2. /\ row \in EventRows /\ row.stan = "queued" /\ row.tries = inbox[e].tries /\ row.of = k
  BY <1>1 DEF EventRows
<1>3. inbox' = [inbox EXCEPT ![e] = row]
  BY <1>1 DEF IngestWebhook
<1>. HIDE DEF row
<1>4. /\ inbox' \in [Events -> EventRows] /\ inbox'[e] = row
      /\ \A x \in Events \ {e} : inbox'[x] = inbox[x]
  BY <1>1, <1>2, <1>3
<1>5. EventOK(e, row, stripe)
  <2>1. inbox[e].tries = 0
    BY <1>1 DEF IngestWebhook, EventOK
  <2>2. 0 < MaxWebhookTries
    BY TriesAreNumbers
  <2>3. e \in {"intent", "intent_succeeded"} => HasIntent(stripe)
    BY DEF IngestWebhook, Signed, HasIntent
  <2>4. e = "refund" => k \in Keys /\ HasRefund(stripe, k)
    BY DEF IngestWebhook, Signed, HasRefund
  <2>. QED
    BY <1>2, <2>1, <2>2, <2>3, <2>4 DEF EventOK
<1>6. \A x \in Events : EventOK(x, inbox'[x], stripe) /\ (inbox[x].stan # "brak" => inbox'[x].stan # "brak")
  BY <1>1, <1>2, <1>4, <1>5
<1>7. worker' = worker /\ UNCHANGED <<world, policy, rez, pay, cmd, stripe>>
  BY DEF IngestWebhook
<1>. QED
  BY <1>1, <1>4, <1>6, <1>7, InboxInv

LEMMA RecoveredInboxOK ==
    ASSUME IInv
    PROVE  /\ RecoveredInbox \in [Events -> EventRows]
           /\ \A e \in Events : /\ EventOK(e, RecoveredInbox[e], stripe)
                                /\ inbox[e].stan # "brak" => RecoveredInbox[e].stan # "brak"
<1>1. ASSUME NEW e \in Events
      PROVE  /\ RecoveredInbox[e] \in EventRows /\ EventOK(e, RecoveredInbox[e], stripe)
             /\ inbox[e].stan # "brak" => RecoveredInbox[e].stan # "brak"
  <2>. DEFINE old == inbox[e]
              new == [old EXCEPT !.lease = None, !.lapsed = FALSE,
                                 !.stan = IF old.tries < MaxWebhookTries THEN "queued" ELSE "failed"]
  <2>1. old \in EventRows /\ EventOK(e, old, stripe)
    BY Pieces
  <2>2. \/ RecoveredInbox[e] = old
        \/ RecoveredInbox[e] = new /\ old.stan = "processing"
    BY DEF RecoveredInbox
  <2>3. CASE RecoveredInbox[e] = old
    BY <2>1, <2>3
  <2>4. CASE RecoveredInbox[e] = new /\ old.stan = "processing"
    <3>1. /\ new \in EventRows /\ new.tries = old.tries /\ new.of = old.of
          /\ new.stan = IF old.tries < MaxWebhookTries THEN "queued" ELSE "failed"
      BY <2>1 DEF EventRows
    <3>. HIDE DEF new
    <3>2. EventOK(e, new, stripe)
      BY <2>1, <2>4, <3>1 DEF EventOK
    <3>. QED
      BY <2>4, <3>1, <3>2
  <2>. QED
    BY <2>2, <2>3, <2>4
<1>2. RecoveredInbox = [e \in Events |-> RecoveredInbox[e]]
  BY DEF RecoveredInbox
<1>. QED
  BY <1>1, <1>2

LEMMA ClaimWebhookInv ==
    ASSUME IInv, NEW w \in Workers, NEW e \in Events, ClaimNextWebhook(w, e)
    PROVE  IInv' /\ Follows(Stored, Stored')
<1>1. worker \in [Workers -> WorkerRows]
  BY Pieces DEF TypeParts
<1>. DEFINE old == RecoveredInbox[e]
            row == [old EXCEPT !.stan = "processing", !.lease = w, !.tries = @ + 1]
            j == [Idle EXCEPT !.step = "event", !.id = e]
<1>2. /\ RecoveredInbox \in [Events -> EventRows]
      /\ \A x \in Events : /\ EventOK(x, RecoveredInbox[x], stripe)
                           /\ inbox[x].stan # "brak" => RecoveredInbox[x].stan # "brak"
      /\ old \in EventRows /\ EventOK(e, old, stripe) /\ old.stan = "queued"
  BY RecoveredInboxOK DEF ClaimNextWebhook
<1>3. /\ row \in EventRows /\ row.stan = "processing" /\ row.of = old.of
  <2>1. old.tries + 1 \in 0 .. MaxWebhookTries
    BY <1>2, TriesAreNumbers DEF EventOK, EventRows
  <2>. QED
    BY <1>2, <2>1 DEF EventRows
<1>4. inbox' = [RecoveredInbox EXCEPT ![e] = row] /\ worker' = [worker EXCEPT ![w] = j]
  BY <1>2 DEF ClaimNextWebhook
<1>5. j \in WorkerRows /\ j.step = "event" /\ j.id = e
  BY IdleIsFine DEF Idle, WorkerRows, Objects
<1>6. EventOK(e, row, stripe)
  BY <1>2, <1>3 DEF EventOK
<1>. HIDE DEF row, j, old
<1>7. /\ inbox' \in [Events -> EventRows] /\ inbox'[e] = row
      /\ \A x \in Events \ {e} : inbox'[x] = RecoveredInbox[x]
  BY <1>2, <1>3, <1>4
<1>8. /\ worker' \in [Workers -> WorkerRows] /\ worker'[w] = j
      /\ \A v \in Workers \ {w} : worker'[v] = worker[v]
  BY <1>1, <1>4, <1>5
<1>9. \A x \in Events : EventOK(x, inbox'[x], stripe) /\ (inbox[x].stan # "brak" => inbox'[x].stan # "brak")
  BY <1>2, <1>3, <1>6, <1>7
<1>10. InboxOK(j, inbox')
  BY <1>3, <1>5, <1>7 DEF InboxOK
<1>11. \A v \in Workers : worker'[v] \in {worker[v], Idle} \/ EventStep(worker'[v])
  BY <1>5, <1>8, <1>10 DEF EventStep, EventSteps
<1>12. UNCHANGED <<world, policy, rez, pay, cmd, stripe>>
  BY DEF ClaimNextWebhook
<1>. QED
  BY <1>7, <1>8, <1>9, <1>11, <1>12, InboxInv

LEMMA ClaimNoWebhookInv ==
    ASSUME IInv, NEW w \in Workers, ClaimNoWebhook(w)
    PROVE  IInv' /\ Follows(Stored, Stored')
<1>1. worker \in [Workers -> WorkerRows]
  BY Pieces DEF TypeParts
<1>2. inbox' = RecoveredInbox /\ worker' = worker /\ UNCHANGED <<world, policy, rez, pay, cmd, stripe>>
  BY DEF ClaimNoWebhook
<1>. QED
  BY <1>1, <1>2, RecoveredInboxOK, InboxInv

LEMMA CrashInv ==
    ASSUME IInv, NEW w \in Workers, Crash(w)
    PROVE  IInv' /\ Follows(Stored, Stored')
<1>1. /\ worker \in [Workers -> WorkerRows] /\ inbox \in [Events -> EventRows]
      /\ \A x \in Events : EventOK(x, inbox[x], stripe)
  BY Pieces DEF TypeParts
<1>2. /\ worker' = [worker EXCEPT ![w] = Idle] /\ inbox' = inbox
      /\ UNCHANGED <<world, policy, rez, pay, cmd, stripe>>
  BY DEF Crash
<1>3. worker' \in [Workers -> WorkerRows] /\ \A v \in Workers : worker'[v] \in {worker[v], Idle}
  BY <1>1, <1>2, IdleIsFine
<1>. QED
  BY <1>1, <1>2, <1>3, InboxInv

\* What the live object says of an event is the case.
LEMMA WebhookReply ==
    ASSUME IInv, NEW e \in Events, inbox[e].stan # "brak"
    PROVE  WebhookProjection(e) \in Replies /\ Truthful(WebhookProjection(e), stripe)
<1>. DEFINE Good(r) == r \in Replies /\ Truthful(r, stripe)
            session == CheckoutResult(stripe, FALSE)
<1>1. /\ stripe \in ProviderStates /\ ProviderOK(stripe, cmd) /\ EventOK(e, inbox[e], stripe)
      /\ e \in EventTypes
  BY Pieces, PaymentAssumption DEF TypeParts
<1>2. Good(Plain("retry"))
  BY PlainReply
<1>3. Good(session) /\ session.cs
  BY <1>1, CheckoutReply
<1>4. ASSUME NEW t \in {"nieudana", "wygasla"}
      PROVE  Good([session EXCEPT !.target = t])
  <2>. DEFINE r == [session EXCEPT !.target = t]
  <2>1. r \in Replies
    BY <1>3 DEF Replies, Statuses
  <2>2. /\ r.target = t /\ r.refund = session.refund /\ r.cs = session.cs /\ r.pi = session.pi
        /\ r.object = session.object
    BY <1>3 DEF Replies
  <2>3. session.refund = None
    BY <1>1, CheckoutReply
  <2>. HIDE DEF r, session
  <2>4. Truthful(r, stripe)
    BY <1>3, <2>2, <2>3, NoneAssumption DEF Truthful, Refunds
  <2>. QED
    BY <2>1, <2>4 DEF r
<1>5. HasIntent(stripe) => Good(PaymentIntentResult(stripe))
  BY <1>1, IntentReply
<1>6. ASSUME e = "refund"
      PROVE  /\ Good(RefundResult(stripe, inbox[e].of))
             /\ Good([RefundResult(stripe, inbox[e].of) EXCEPT !.outcome = "succeeded"])
  <2>. DEFINE r == RefundResult(stripe, inbox[e].of)
              q == [r EXCEPT !.outcome = "succeeded"]
  <2>1. inbox[e].of \in Keys /\ HasRefund(stripe, inbox[e].of)
    BY <1>1, <1>6 DEF EventOK
  <2>2. Captured(stripe) /\ Answered(stripe, inbox[e].of)
    BY <1>1, <2>1 DEF ProviderOK
  <2>3. Good(r)
    BY <1>1, <2>1, <2>2, RefundReply
  <2>4. q \in Replies /\ q.target = r.target /\ q.refund = r.refund /\ q.cs = r.cs /\ q.pi = r.pi
        /\ q.object = r.object
    BY <2>3 DEF Replies
  <2>. HIDE DEF q, r
  <2>5. Truthful(q, stripe)
    BY <2>3, <2>4 DEF Truthful
  <2>. QED
    BY <2>3, <2>4, <2>5 DEF q, r
<1>. HIDE DEF Good
<1>7. Good(WebhookProjection(e))
  <2>1. CASE e = "completed"
    BY <1>3, <2>1 DEF WebhookProjection
  <2>2. CASE e = "async_succeeded"
    BY <1>2, <1>3, <2>2 DEF WebhookProjection
  <2>3. CASE e = "async_failed"
    BY <1>3, <1>4, <2>3 DEF WebhookProjection
  <2>4. CASE e = "expired"
    BY <1>3, <1>4, <2>4 DEF WebhookProjection
  <2>5. CASE e = "intent"
    BY <1>1, <1>5, <2>5 DEF WebhookProjection, EventOK
  <2>6. CASE e = "intent_succeeded"
    BY <1>1, <1>2, <1>5, <2>6 DEF WebhookProjection, EventOK
  <2>7. CASE e = "refund"
    BY <1>6, <2>7 DEF WebhookProjection
  <2>. QED
    BY <1>1, <2>1, <2>2, <2>3, <2>4, <2>5, <2>6, <2>7 DEF EventTypes
<1>. QED
  BY <1>7 DEF Good

LEMMA ExecuteWebhookInv ==
    ASSUME IInv, NEW w \in Workers, ExecuteWebhookClaim(w)
    PROVE  IInv' /\ Follows(Stored, Stored')
<1>. DEFINE j == worker[w]
<1>1. /\ inbox \in [Events -> EventRows] /\ \A x \in Events : EventOK(x, inbox[x], stripe)
      /\ worker \in [Workers -> WorkerRows] /\ j \in WorkerRows
      /\ InboxOK(j, inbox) /\ j.step = "event"
  BY Pieces DEF TypeParts, ExecuteWebhookClaim
<1>2. j.id \in Events /\ inbox[j.id].stan # "brak"
  BY <1>1 DEF InboxOK, EventSteps
<1>3. PICK r \in {WebhookProjection(j.id), Plain("retry"), Plain("failed")} :
          worker' = [worker EXCEPT ![w].step = "eventAnswered", ![w].reply = r]
  BY DEF ExecuteWebhookClaim
<1>4. r \in Replies /\ Truthful(r, stripe)
  BY <1>2, <1>3, WebhookReply, PlainReply
<1>. DEFINE q == [j EXCEPT !.step = "eventAnswered", !.reply = r]
<1>5. q \in WorkerRows /\ q.step = "eventAnswered" /\ q.id = j.id /\ q.reply = r
  BY <1>1, <1>4 DEF WorkerRows
<1>6. worker' = [worker EXCEPT ![w] = q]
  BY <1>1, <1>3
<1>7. inbox' = inbox /\ UNCHANGED <<world, policy, rez, pay, cmd, stripe>>
  BY DEF ExecuteWebhookClaim
<1>. HIDE DEF q, j
<1>8. EventStep(q)
  BY <1>2, <1>4, <1>5, <1>7 DEF EventStep, EventSteps, InboxOK
<1>9. /\ worker' \in [Workers -> WorkerRows]
      /\ \A v \in Workers : worker'[v] \in {worker[v], Idle} \/ EventStep(worker'[v])
  BY <1>1, <1>5, <1>6, <1>8
<1>. QED
  BY <1>1, <1>7, <1>9, InboxInv

LEMMA FinalizeWebhookInv ==
    ASSUME IInv, NEW w \in Workers, FinalizeWebhookClaim(w)
    PROVE  IInv' /\ Follows(Stored, Stored')
<1>. DEFINE e == worker[w].id
            r == worker[w].reply
<1>1. /\ inbox \in [Events -> EventRows] /\ \A x \in Events : EventOK(x, inbox[x], stripe)
      /\ worker \in [Workers -> WorkerRows]
      /\ InboxOK(worker[w], inbox) /\ AnswerOK(worker[w], cmd, stripe)
      /\ worker[w].step = "eventAnswered"
      /\ Sound(Stored, stripe, Sent) /\ Sent \in SUBSET Keys /\ MoneyReturned(Stored)
  BY Pieces DEF TypeParts, FinalizeWebhookClaim
<1>2. e \in Events /\ inbox[e].stan # "brak" /\ r \in Replies /\ Truthful(r, stripe)
  BY <1>1 DEF InboxOK, AnswerOK, EventSteps
<1>3. PICK E \in {ApplyProviderProjection(Stored, r), Stored} : Commit(E)
  BY DEF FinalizeWebhookClaim
<1>4. Sound(E, stripe, Sent) /\ MoneyReturned(E) /\ Follows(Stored, E)
  BY <1>1, <1>2, <1>3, ProjectionSound, FollowsSelf
<1>5. PICK row \in EventRows :
          /\ inbox' = [inbox EXCEPT ![e] = row] /\ row.stan # "brak"
          /\ row.of = inbox[e].of /\ (row.stan = "queued" => row.tries < MaxWebhookTries)
  <2>. DEFINE old == inbox[e]
              done(stan) == [NoEvent EXCEPT !.stan = stan, !.of = old.of]
              again == [old EXCEPT !.stan = "queued", !.lease = None, !.lapsed = FALSE]
  <2>1. old \in EventRows /\ EventOK(e, old, stripe) /\ old.stan # "brak"
    BY <1>1, <1>2
  <2>2. \/ inbox' = inbox
        \/ \E stan \in {"processed", "failed"} : inbox' = [inbox EXCEPT ![e] = done(stan)]
        \/ inbox' = [inbox EXCEPT ![e] = again] /\ old.tries < MaxWebhookTries
    <3>. DEFINE conflict == Conflict(Stored, r)
                stan == IF conflict THEN "failed"
                        ELSE IF r.outcome = "succeeded" THEN "processed"
                        ELSE IF r.outcome = "retry" /\ old.tries < MaxWebhookTries THEN "queued"
                        ELSE "failed"
    <3>1. /\ stan \in {"failed", "processed", "queued"}
          /\ stan = "queued" => old.tries < MaxWebhookTries
      OBVIOUS
    <3>2. inbox' = IF ~(old.stan = "processing" /\ old.lease = w) THEN inbox
                   ELSE IF stan # "queued" THEN [inbox EXCEPT ![e] = done(stan)]
                   ELSE [inbox EXCEPT ![e].stan = stan, ![e].lease = None, ![e].lapsed = FALSE]
      BY DEF FinalizeWebhookClaim
    <3>. HIDE DEF stan, conflict
    <3>3. stan = "queued" => [inbox EXCEPT ![e].stan = stan, ![e].lease = None, ![e].lapsed = FALSE]
                              = [inbox EXCEPT ![e] = again]
      BY <1>1, <1>2
    <3>. HIDE DEF done, again, old
    <3>. QED
      BY <3>1, <3>2, <3>3
  <2>3. CASE inbox' = inbox
    <3>1. inbox' = [inbox EXCEPT ![e] = old]
      BY <1>1, <2>3
    <3>. QED
      BY <2>1, <3>1 DEF EventOK
  <2>4. CASE \E stan \in {"processed", "failed"} : inbox' = [inbox EXCEPT ![e] = done(stan)]
    <3>1. PICK stan \in {"processed", "failed"} : inbox' = [inbox EXCEPT ![e] = done(stan)]
      BY <2>4
    <3>2. 0 \in 0 .. MaxWebhookTries
      BY TriesAreNumbers
    <3>3. done(stan) \in EventRows /\ done(stan).stan = stan /\ done(stan).of = old.of
      BY <2>1, <3>2 DEF EventRows, NoEvent
    <3>. HIDE DEF done
    <3>. QED
      BY <3>1, <3>3
  <2>5. CASE inbox' = [inbox EXCEPT ![e] = again] /\ old.tries < MaxWebhookTries
    <3>1. again \in EventRows /\ again.stan = "queued" /\ again.of = old.of /\ again.tries = old.tries
      BY <2>1 DEF EventRows
    <3>. HIDE DEF again
    <3>. QED
      BY <2>5, <3>1
  <2>. QED
    BY <2>2, <2>3, <2>4, <2>5
<1>6. /\ inbox' \in [Events -> EventRows] /\ inbox'[e] = row
      /\ \A x \in Events \ {e} : inbox'[x] = inbox[x]
  BY <1>1, <1>2, <1>5
<1>7. EventOK(e, row, stripe)
  BY <1>1, <1>2, <1>5 DEF EventOK
<1>8. \A x \in Events : EventOK(x, inbox'[x], stripe) /\ (inbox[x].stan # "brak" => inbox'[x].stan # "brak")
  BY <1>1, <1>5, <1>6, <1>7
<1>9. worker' = [worker EXCEPT ![w] = Idle] /\ UNCHANGED <<world, policy, stripe>>
  BY DEF FinalizeWebhookClaim
<1>. QED
  BY <1>3, <1>4, <1>6, <1>8, <1>9, LetGoInv

-----------------------------------------------------------------------------
(* The invariant is inductive.                                              *)

LEMMA InitInv == Init => IInv
<1>. SUFFICES ASSUME Init PROVE IInv
  OBVIOUS
<1>1. /\ world \in Worlds /\ policy \in world.policies /\ rez = "aktywna"
      /\ pay = [status |-> "oczekuje", refund |-> "brak", cs |-> FALSE, pi |-> FALSE]
      /\ inbox = [e \in Events |-> NoEvent] /\ worker = [w \in Workers |-> Idle]
      /\ stripe = NoProvider
  BY DEF Init
<1>2. 0 \in 0 .. MaxTries /\ 0 \in 0 .. MaxWebhookTries /\ 0 < MaxWebhookTries
  BY TriesAreNumbers
<1>. DEFINE first == [NoCommand EXCEPT !.typ = "create_checkout", !.stan = "queued"]
<1>3. /\ NoCommand \in CommandRows /\ NoCommand.stan = "brak" /\ NoCommand.typ = None
      /\ NoCommand.object = None
  BY <1>2 DEF NoCommand, CommandRows, Objects
<1>4. /\ first \in CommandRows /\ first.stan = "queued" /\ first.typ = "create_checkout"
      /\ first.object = None
  BY <1>2 DEF NoCommand, CommandRows, Objects, ACTIVE_STATES, PENDING_STATES, Types, Sources
<1>5. cmd = [[k \in Keys |-> NoCommand] EXCEPT !["checkout"] = first]
  BY DEF Init
<1>. HIDE DEF first
<1>6. /\ cmd \in [Keys -> CommandRows] /\ cmd["checkout"] = first
      /\ \A k \in Keys \ {"checkout"} : cmd[k] = NoCommand
  BY <1>3, <1>4, <1>5, SystemKeysAreKeys
<1>7. /\ stripe \in ProviderStates /\ stripe.session = "none" /\ ~HasIntent(stripe)
      /\ stripe.replies = {} /\ \A k \in Keys : ~HasRefund(stripe, k)
  BY <1>1 DEF NoProvider, ProviderStates, Sessions, Intents, RefundStates, HasIntent, HasRefund
<1>8. pay \in PayRows /\ Stored \in Transactions
  <2>1. pay \in PayRows
    BY <1>1 DEF PayRows, Statuses, Refunds
  <2>. QED
    BY <1>1, <1>6, <2>1 DEF Stored, Transactions
<1>9. /\ inbox \in [Events -> EventRows] /\ \A e \in Events : EventOK(e, inbox[e], stripe)
      /\ worker \in [Workers -> WorkerRows] /\ \A w \in Workers : worker[w] = Idle
  <2>1. NoEvent \in EventRows /\ NoEvent.stan = "brak" /\ NoEvent.tries = 0
    BY <1>2 DEF NoEvent, EventRows
  <2>. QED
    BY <1>1, <2>1, IdleIsFine DEF EventOK
<1>10. TypeOK
  BY <1>1, <1>7, <1>8, <1>9, TypeIsParts DEF TypeParts
<1>11. ProviderOK(stripe, cmd)
  BY <1>7 DEF ProviderOK
<1>12. Sent = {}
  BY <1>7, <1>9 DEF Sent, SentBy, Idle, ClaimSteps
<1>13. Sound(Stored, stripe, Sent)
  <2>1. BooksOK(pay, stripe)
    BY <1>1, <1>7 DEF BooksOK, Paid
  <2>2. ASSUME NEW k \in Keys
        PROVE  RowOK(cmd[k], k, stripe) /\ cmd[k].typ # "refund"
    <3>1. CASE k = "checkout"
      BY <1>4, <1>6, <1>7, <3>1, NoneAssumption DEF RowOK, Types, Sources
    <3>2. CASE k # "checkout"
      BY <1>3, <1>6, <1>7, <3>2, NoneAssumption DEF RowOK, Types, Sources, Mutations
    <3>. QED
      BY <3>1, <3>2
  <2>3. Stored.pay = pay /\ Stored.cmd = cmd /\ pay.status = "oczekuje"
    BY <1>1 DEF Stored
  <2>. QED
    BY <1>8, <1>12, <2>1, <2>2, <2>3 DEF Sound
<1>14. MoneyReturned(Stored)
  BY <1>1 DEF MoneyReturned, Stored
<1>. QED
  BY <1>9, <1>10, <1>11, <1>13, <1>14, IdleIsFine DEF IInv

LEMMA NextInv ==
    IInv /\ [Next]_vars => IInv' /\ MoneyKept(pay, pay')
<1>. SUFFICES ASSUME IInv, [Next]_vars
              PROVE  IInv' /\ MoneyKept(pay, pay')
  OBVIOUS
<1>1. /\ world.workers \subseteq Workers /\ world.events \subseteq Events
      /\ world.keys \subseteq OperatorKeys
  <2>1. world \in Worlds
    BY Pieces DEF TypeParts
  <2>. QED
    BY <2>1, PaymentAssumption
<1>2. IInv' /\ Follows(Stored, Stored')
  <2>1. CASE GuestPays \/ AsyncSettles \/ LateSuccess \/ SessionExpires \/ AuthorizationExpires
             \/ \E k \in Keys : RefundSettles(k)
    BY <2>1, OutsideSteps
  <2>2. ASSUME NEW k \in Keys, DeadlinePasses(k) \/ LeaseLapses(k)
        PROVE  IInv' /\ Follows(Stored, Stored')
    BY <2>2, TimeInv
  <2>3. ASSUME NEW e \in world.events, EventLeaseLapses(e)
        PROVE  IInv' /\ Follows(Stored, Stored')
    BY <1>1, <2>3, EventLapseInv
  <2>4. ASSUME NEW e \in world.events, NEW k \in Keys \cup {None}, IngestWebhook(e, k)
        PROVE  IInv' /\ Follows(Stored, Stored')
    BY <1>1, <2>4, IngestInv
  <2>5. CASE Environment
    BY <2>1, <2>2, <2>3, <2>4, <2>5 DEF Environment
  <2>6. CASE CancelReservation \/ DeleteReservation \/ RetryPayment \/ EditReservation
    BY <2>6, CancelInv, DeleteInv, RetryInv, EditInv
  <2>7. ASSUME NEW o \in world.keys, OperatorRequest(o) \/ OperatorReconcile(o)
        PROVE  IInv' /\ Follows(Stored, Stored')
    BY <1>1, <2>7, OperatorInv
  <2>8. CASE Requests
    BY <2>6, <2>7, <2>8 DEF Requests
  <2>9. ASSUME NEW w \in world.workers, Work(w)
        PROVE  IInv' /\ Follows(Stored, Stored')
    <3>1. w \in Workers
      BY <1>1
    <3>2. CASE ClaimNext(w)
      BY <3>1, <3>2, ClaimNextInv
    <3>3. CASE ExecuteClaim(w)
      BY <3>1, <3>3, ExecuteInv
    <3>4. CASE FinalizeClaim(w)
      BY <3>1, <3>4, FinalizeInv
    <3>5. CASE ExecuteWebhookClaim(w)
      BY <3>1, <3>5, ExecuteWebhookInv
    <3>6. CASE FinalizeWebhookClaim(w)
      BY <3>1, <3>6, FinalizeWebhookInv
    <3>7. ASSUME NEW e \in world.events, ClaimNextWebhook(w, e)
          PROVE  IInv' /\ Follows(Stored, Stored')
      BY <1>1, <3>1, <3>7, ClaimWebhookInv
    <3>. QED
      BY <2>9, <3>2, <3>3, <3>4, <3>5, <3>6, <3>7 DEF Work
  <2>10. ASSUME NEW w \in world.workers, ClaimNothing(w) \/ ClaimNoWebhook(w) \/ Crash(w)
         PROVE  IInv' /\ Follows(Stored, Stored')
    BY <1>1, <2>10, ClaimNothingInv, ClaimNoWebhookInv, CrashInv
  <2>11. CASE UNCHANGED vars
    <3>1. Transaction(Stored)
      BY <2>11 DEF vars, Transaction, Commit, Stored
    <3>. QED
      BY <3>1, Pieces, FollowsSelf, RequestInv
  <2>. QED
    BY <2>5, <2>8, <2>9, <2>10, <2>11 DEF Next
<1>3. Stored.pay = pay /\ Stored'.pay = pay'
  BY DEF Stored
<1>. QED
  BY <1>2, <1>3 DEF Follows

-----------------------------------------------------------------------------

\* What the code relies on: the books and the queue of commands agree with the
\* provider, the replies under way are true of it, and money that came late has
\* its refund, in every reachable state.
THEOREM InductiveInvariant == Spec => []IInv
<1>1. Init => IInv
  BY InitInv
<1>2. IInv /\ [Next]_vars => IInv'
  BY NextInv
<1>. QED
  BY <1>1, <1>2, PTL DEF Spec

\* Every variable keeps to its type, with any number of workers, keys and tries.
THEOREM PaymentTypes == Spec => []TypeOK
<1>1. IInv => TypeOK
  BY DEF IInv
<1>. QED
  BY <1>1, InductiveInvariant, PTL

\* The books never claim money that Stripe does not hold, and call a refund
\* done exactly when the payment is refunded.
THEOREM BooksNeverOverstate == Spec => []BooksFollowProvider
<1>1. IInv => BooksFollowProvider
  BY DEF IInv, Sound, BooksOK, Stored, BooksFollowProvider, Paid, Captured, MoneyBack
<1>. QED
  BY <1>1, InductiveInvariant, PTL

\* Money recorded for a visit that was called off, or for an attempt that was
\* replaced, has a refund command: every path that records it queues one.
THEOREM CalledOffMoneyHasItsRefund == Spec => []LateMoneyIsReturned
<1>1. IInv => LateMoneyIsReturned
  BY DEF IInv, MoneyReturned, Stored, LateMoneyIsReturned
<1>. QED
  BY <1>1, InductiveInvariant, PTL

\* No lease, deadline, crash or lost answer turns an unknown result into a
\* failure of the command; of a refund, as long as the books do not show it.
THEOREM UnknownStaysOpen == Spec => []AmbiguityIsKept
<1>1. ASSUME IInv PROVE AmbiguityIsKept
  <2>1. /\ Sound(Stored, stripe, Sent) /\ ProviderOK(stripe, cmd)
        /\ Stored.pay = pay /\ Stored.cmd = cmd
        /\ stripe.session # "none" => "checkout" \in Sent
        /\ \A k \in Keys : HasRefund(stripe, k) => k \in Sent /\ cmd[k].typ = "refund"
    BY <1>1, Pieces
  <2>2. UnseenCheckout /\ "checkout" \notin stripe.refused => CheckoutIsOpen
    <3>. SUFFICES ASSUME UnseenCheckout, "checkout" \notin stripe.refused PROVE CheckoutIsOpen
      OBVIOUS
    <3>1. stripe.session # "none" /\ ~pay.cs /\ ~TurnedDown(stripe)
      BY <2>1 DEF UnseenCheckout, ProviderOK, TurnedDown
    <3>2. SentOK(cmd["checkout"], "checkout", pay, stripe)
      BY <2>1, <3>1 DEF Sound
    <3>3. cmd["checkout"].stan \in ACTIVE_STATES
      BY <3>1, <3>2 DEF SentOK
    <3>. QED
      BY <2>1, <3>1, <3>3 DEF Sound, CheckoutIsOpen
  <2>3. ASSUME NEW k \in Keys, stripe.refund[k] \in {"pending", "succeeded"}, pay.status # "zwrocona"
        PROVE  cmd[k].stan \in ACTIVE_STATES \cup {"succeeded"}
    <3>1. HasRefund(stripe, k) /\ ~RefundDead(stripe, k)
      BY <2>3 DEF HasRefund, RefundDead
    <3>2. SentOK(cmd[k], k, pay, stripe) /\ cmd[k].typ = "refund"
      BY <2>1, <3>1 DEF Sound
    <3>. QED
      BY <2>3, <3>1, <3>2 DEF SentOK
  <2>. QED
    BY <2>2, <2>3 DEF AmbiguityIsKept
<1>. QED
  BY <1>1, InductiveInvariant, PTL

\* Captured money is never forgotten, whatever comes late or twice.
THEOREM CapturedStaysCaptured == Spec => MoneyIsNotForgotten
<1>1. IInv /\ [Next]_vars =>
          [ /\ pay.status = "oplacona" => pay'.status \in {"oplacona", "zwrocona"}
            /\ pay.status = "zwrocona" => pay'.status = "zwrocona" ]_vars
  BY NextInv DEF MoneyKept
<1>. QED
  BY <1>1, InductiveInvariant, PTL DEF Spec, MoneyIsNotForgotten

=============================================================================
