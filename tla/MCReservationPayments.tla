----------------------- MODULE MCReservationPayments -----------------------
(***************************************************************************)
(* Small instances of ReservationPayments: what one run looks at in turn.  *)
(***************************************************************************)
EXTENDS ReservationPayments, TLC

CONSTANT o1    \* the one key where a world needs no more

\* A deposit captured at once, a hold captured by the operator, and a deposit
\* whose failure gives the table back.
Deposit == [manual |-> FALSE, refundOnCancel |-> TRUE, release |-> FALSE]
Hold    == [manual |-> TRUE,  refundOnCancel |-> TRUE, release |-> FALSE]
Strict  == [manual |-> FALSE, refundOnCancel |-> TRUE, release |-> TRUE]

World(workers, keys, events, atMost, deadlines, calls, policies) ==
    [workers |-> workers, keys |-> keys, events |-> events, atMost |-> atMost,
     deadlines |-> deadlines, calls |-> calls, policies |-> policies]

\* Whatever the guest and the reservation do, with any single event.  Either worker
\* may be the one, so that the workers are interchangeable.
CallsWorld == {World({w}, {}, EventTypes, 1, {"checkout", "cancelRefund"}, {"cancel", "retry", "edit"},
                     {Deposit, Hold, Strict}) : w \in Workers}
\* The reservation is deleted.
DeleteWorld == {World({w}, {}, {"completed", "refund"}, 1, {}, {"delete"}, {Deposit}) : w \in Workers}
\* Two workers and an operator.
TeamWorld == {World(Workers, {o1}, {"async_failed", "completed"}, 2, {}, {}, {Deposit, Hold})}
\* An operator refunds, the answer is lost, and he reconciles the refund before or after an event has booked it.
RefundWorld == {World({w}, OperatorKeys, {"completed", "refund"}, 2, {}, {}, {Deposit}) : w \in Workers}
SafetyWorlds == CallsWorld \cup DeleteWorld \cup TeamWorld \cup RefundWorld

EveryEvent == EventTypes
WorkerSymmetry == Permutations(Workers)
=============================================================================
