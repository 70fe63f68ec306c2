---------------------------- MODULE RefundChannels ----------------------------
(***************************************************************************)
(* The two ways an order's customer gets money back, and the row that      *)
(* keeps them apart (app/services/paymentOperations/refunds.server.js and  *)
(* directCustomerRefund.server.js).                                        *)
(*                                                                         *)
(* Shopify reports refunds made through the payment provider; each has an  *)
(* operation row, and some need a person to confirm that the provider has  *)
(* paid before the ledger is touched.  Or the operator transfers the whole *)
(* amount to the customer, in two steps: prepare and complete.  The guard  *)
(* row of the order belongs to the channel that came first.                *)
(*                                                                         *)
(* Webhooks, confirmations and cancellations are jobs whose statements     *)
(* commit one by one.  The direct refund's transactions are serializable   *)
(* and meet the webhooks on the guard's row, so each is one step.          *)
(* OrderSettlements has the detail of the settlement itself.  The order is *)
(* paid through KOMOJU, as the direct refund asks, and has a marketplace   *)
(* order from the start.                                                   *)
(***************************************************************************)
EXTENDS Integers

CONSTANTS
  Jobs,         \* handler runs that can be under way at the same time
  Refunds,      \* refunds made at the provider
  Amount,       \* what each of them asks for
  Manual,       \* those whose payment method needs a person's confirmation
  Succeeded,    \* those whose payload holds a successful transaction
  Strict,       \* PAYMENT_REFUND_CONFIRMATION_ENFORCED
  Paid,         \* what the order paid to the seller, its full amount
  MaxHandlings  \* bound: jobs started

ASSUME ChannelAssumption ==
  /\ Refunds # {}
  /\ Amount \in [Refunds -> Nat]
  /\ Manual \subseteq Refunds /\ Succeeded \subseteq Refunds
  /\ Strict \in BOOLEAN
  /\ Paid \in Nat \ {0} /\ MaxHandlings \in Nat

VARIABLES
  guard,      \* the OrderRefundGuard of the order
  op,         \* the PaymentRefundOperation of each refund
  ledger,     \* entries of each refund; sums refunded, direct, cancelled
  direct,     \* the DirectCustomerRefund row exists
  job,
  handlings   \* jobs started so far

vars == <<guard, op, ledger, direct, job, handlings>>

Guards ==
  [channel: {"PROVIDER", "DIRECT"},
   status: {"RESERVED", "COMPLETED", "CONFLICT"}]
NoGuard == [channel |-> "none", status |-> "none"]

OperationStatuses ==
  {"none", "OBSERVED", "AWAITING_PROVIDER", "REVIEW_REQUIRED",
   "PROVIDER_CONFIRMED", "APPLYING_LEDGER", "LEDGER_APPLIED", "FAILED"}
Operations ==
  [status: OperationStatuses, applied: BOOLEAN, confirmed: BOOLEAN,
   reviewed: BOOLEAN]
NoOperation ==
  [status |-> "none", applied |-> FALSE, confirmed |-> FALSE,
   reviewed |-> FALSE]

Phases == {"idle", "guard", "conflict", "observe", "upsert", "claim",
           "check", "summary", "book", "mark", "complete"}
Kinds == {"webhook", "confirm", "cancel"}
JobRecord ==
  [phase: Phases, kind: Kinds, refund: Refunds, conflict: BOOLEAN,
   amount: Nat]

AnyRefund == CHOOSE f \in Refunds : TRUE
NewJob == [phase |-> "idle", kind |-> "webhook", refund |-> AnyRefund,
           conflict |-> FALSE, amount |-> 0]

Init ==
  /\ guard = NoGuard
  /\ op = [f \in Refunds |-> NoOperation]
  /\ ledger = [entries |-> [f \in Refunds |-> 0],
               refunded |-> 0, direct |-> 0, cancelled |-> 0]
  /\ direct = FALSE
  /\ job = [j \in Jobs |-> NewJob]
  /\ handlings = 0

Reversed == ledger.refunded + ledger.direct + ledger.cancelled
Remaining == IF Reversed < Paid THEN Paid - Reversed ELSE 0

\* The balance a payout run may pay: the signs of the entry types, among
\* which the direct refund has none.
PayoutBalance == Paid - ledger.refunded - ledger.cancelled

-----------------------------------------------------------------------------
(* A refund webhook, up to its settlement.                                 *)

At(j, kind, phase) == job[j].kind = kind /\ job[j].phase = phase
Goto(j, phase) == job' = [job EXCEPT ![j].phase = phase]

Start(j, kind, f, phase) ==
  /\ job[j].phase = "idle"
  /\ handlings < MaxHandlings
  /\ handlings' = handlings + 1
  /\ job' = [job EXCEPT ![j] = [phase |-> phase, kind |-> kind, refund |-> f,
                                conflict |-> FALSE, amount |-> 0]]
  /\ UNCHANGED <<guard, op, ledger, direct>>

ReceiveRefund(j, f) == Start(j, "webhook", f, "guard")

\* Mutant: a status the row does not know.
OpenGuard == [channel |-> "PROVIDER", status |-> "OPEN"]

ProviderGuard == [channel |-> "PROVIDER", status |-> "RESERVED"]

\* Mutant: the reservation of the other channel is not looked at.
ReserveAnyGuard(j) ==
  /\ At(j, "webhook", "guard")
  /\ guard' = IF guard = NoGuard THEN ProviderGuard ELSE guard
  /\ Goto(j, "observe")
  /\ UNCHANGED <<op, ledger, direct, handlings>>

\* The guard is found or created; a create that meets another one reads it.
ReserveGuard(j) ==
  /\ At(j, "webhook", "guard")
  /\ guard' = IF guard = NoGuard THEN ProviderGuard ELSE guard
  /\ Goto(j, IF guard.channel = "DIRECT" THEN "conflict" ELSE "observe")
  /\ UNCHANGED <<op, ledger, direct, handlings>>

MarkConflict(j) ==
  /\ At(j, "webhook", "conflict")
  /\ guard' = [guard EXCEPT !.status = "CONFLICT"]
  /\ job' = [job EXCEPT ![j].phase = "observe", ![j].conflict = TRUE]
  /\ UNCHANGED <<op, ledger, direct, handlings>>

\* An operation whose ledger entry is booked is left as it is.
FindOperation(j) ==
  /\ At(j, "webhook", "observe")
  /\ Goto(j, IF op[job[j].refund].applied
                \/ op[job[j].refund].status = "LEDGER_APPLIED"
             THEN "idle" ELSE "upsert")
  /\ UNCHANGED <<guard, op, ledger, direct, handlings>>

ObservedStatus(f, conflict) ==
  CASE conflict \/ f \in Manual -> "REVIEW_REQUIRED"
    [] Strict /\ f \notin Succeeded -> "AWAITING_PROVIDER"
    [] f \in Succeeded -> "PROVIDER_CONFIRMED"
    [] OTHER -> "OBSERVED"

AllowLedger(f, conflict) ==
  /\ ~conflict
  /\ f \notin Manual
  /\ ~Strict \/ f \in Succeeded

\* The row is written over whatever it has become since it was read.
UpsertOperation(j) ==
  /\ At(j, "webhook", "upsert")
  /\ LET f == job[j].refund
         conflict == job[j].conflict
     IN /\ op' = [op EXCEPT ![f].status = ObservedStatus(f, conflict),
                            ![f].confirmed = @ \/ f \in Succeeded]
        /\ Goto(j, IF AllowLedger(f, conflict) THEN "check" ELSE "idle")
  /\ UNCHANGED <<guard, ledger, direct, handlings>>

-----------------------------------------------------------------------------
(* A person confirms a manual refund.                                      *)

BeginConfirm(j, f) ==
  /\ f \in Manual
  /\ op[f].status # "none"
  /\ ~op[f].applied
  /\ Start(j, "confirm", f, "claim")

ClaimOperation(j) ==
  /\ At(j, "confirm", "claim")
  /\ LET f == job[j].refund IN
       IF ~op[f].applied /\ op[f].status # "APPLYING_LEDGER"
       THEN /\ op' = [op EXCEPT ![f].status = "APPLYING_LEDGER",
                                ![f].confirmed = TRUE, ![f].reviewed = TRUE]
            /\ Goto(j, "check")
       ELSE /\ Goto(j, "idle")
            /\ UNCHANGED op
  /\ UNCHANGED <<guard, ledger, direct, handlings>>

-----------------------------------------------------------------------------
(* The settlement of a refund, and of the order's cancellation.            *)

ReceiveCancellation(j, f) == Start(j, "cancel", f, "check")

\* Mutant: a settlement that could not be made is marked as made.
SettlementFailsUnnoticed(j) ==
  /\ job[j].phase = "check" /\ job[j].kind # "cancel"
  /\ op' = [op EXCEPT ![job[j].refund].status = "LEDGER_APPLIED",
                      ![job[j].refund].applied = TRUE]
  /\ Goto(j, "idle")
  /\ UNCHANGED <<guard, ledger, direct, handlings>>

\* Products or seller of the refund are not found.
SettlementFails(j) ==
  /\ job[j].phase = "check" /\ job[j].kind # "cancel"
  /\ op' = [op EXCEPT ![job[j].refund].status = "FAILED"]
  /\ Goto(j, "idle")
  /\ UNCHANGED <<guard, ledger, direct, handlings>>

CheckBooked(j) ==
  /\ job[j].phase = "check"
  /\ LET booked == IF job[j].kind = "cancel" THEN ledger.cancelled > 0
                   ELSE ledger.entries[job[j].refund] > 0
     IN Goto(j, IF ~booked THEN "summary"
                ELSE IF job[j].kind = "cancel" THEN "idle" ELSE "mark")
  /\ UNCHANGED <<guard, op, ledger, direct, handlings>>

ToReverse(j) ==
  IF job[j].kind = "cancel" \/ Remaining < Amount[job[j].refund]
  THEN Remaining ELSE Amount[job[j].refund]

Summarise(j) ==
  /\ job[j].phase = "summary"
  /\ job' = [job EXCEPT ![j].amount = ToReverse(j),
       ![j].phase = IF ToReverse(j) > 0 THEN "book"
                    ELSE IF job[j].kind = "cancel" THEN "idle" ELSE "mark"]
  /\ UNCHANGED <<guard, op, ledger, direct, handlings>>

Book(j) ==
  /\ job[j].phase = "book"
  /\ LET amount == job[j].amount IN
       IF job[j].kind = "cancel"
       THEN /\ ledger' = [ledger EXCEPT !.cancelled = @ + amount]
            /\ Goto(j, "idle")
       ELSE /\ ledger' = [ledger EXCEPT !.entries[job[j].refund] = @ + 1,
                                        !.refunded = @ + amount]
            /\ Goto(j, "mark")
  /\ UNCHANGED <<guard, op, direct, handlings>>

MarkApplied(j) ==
  /\ job[j].phase = "mark"
  /\ op' = [op EXCEPT ![job[j].refund].status = "LEDGER_APPLIED",
                      ![job[j].refund].applied = TRUE]
  /\ Goto(j, "complete")
  /\ UNCHANGED <<guard, ledger, direct, handlings>>

CompleteGuard(j) ==
  /\ job[j].phase = "complete"
  /\ guard' = IF guard.channel = "PROVIDER"
              THEN [guard EXCEPT !.status = "COMPLETED"] ELSE guard
  /\ Goto(j, "idle")
  /\ UNCHANGED <<op, ledger, direct, handlings>>

-----------------------------------------------------------------------------
(* The direct refund.                                                      *)

ProviderRefundExists ==
  \E f \in Refunds :
    \/ op[f].applied \/ op[f].confirmed
    \/ op[f].status \in {"PROVIDER_CONFIRMED", "LEDGER_APPLIED"}

\* Nothing of the order is reversed, and the provider pays nothing back.
DirectRefundAllowed == ~ProviderRefundExists /\ Remaining = Paid

PrepareDirectRefund ==
  /\ \/ /\ guard.channel = "PROVIDER" /\ ~direct
        /\ guard' = [guard EXCEPT !.status = "CONFLICT"]
     \/ /\ guard = NoGuard /\ ~direct
        /\ DirectRefundAllowed
        /\ guard' = [channel |-> "DIRECT", status |-> "RESERVED"]
  /\ UNCHANGED <<op, ledger, direct, job, handlings>>

CompleteDirectRefund ==
  /\ guard = [channel |-> "DIRECT", status |-> "RESERVED"] /\ ~direct
  /\ DirectRefundAllowed
  /\ ledger' = [ledger EXCEPT !.direct = Remaining]
  /\ direct' = TRUE
  /\ guard' = [guard EXCEPT !.status = "COMPLETED"]
  /\ UNCHANGED <<op, job, handlings>>

-----------------------------------------------------------------------------
\* The process dies, or a statement fails, between two of a job's statements.
Abort(j) ==
  /\ job[j].phase # "idle"
  /\ Goto(j, "idle")
  /\ UNCHANGED <<guard, op, ledger, direct, handlings>>

Step(j) ==
  \/ ReserveGuard(j) \/ MarkConflict(j) \/ FindOperation(j)
  \/ UpsertOperation(j) \/ ClaimOperation(j)
  \/ SettlementFails(j) \/ CheckBooked(j) \/ Summarise(j) \/ Book(j)
  \/ MarkApplied(j) \/ CompleteGuard(j)
  \/ Abort(j)

Next ==
  \/ \E j \in Jobs, f \in Refunds :
       ReceiveRefund(j, f) \/ BeginConfirm(j, f) \/ ReceiveCancellation(j, f)
  \/ \E j \in Jobs : Step(j)
  \/ PrepareDirectRefund
  \/ CompleteDirectRefund

Spec == Init /\ [][Next]_vars

-----------------------------------------------------------------------------
(* Properties.                                                             *)

TypeOK ==
  /\ guard \in Guards \cup {NoGuard}
  /\ op \in [Refunds -> Operations]
  /\ ledger \in [entries: [Refunds -> Nat], refunded: Nat, direct: Nat,
                 cancelled: Nat]
  /\ direct \in BOOLEAN
  /\ job \in [Jobs -> JobRecord]
  /\ handlings \in 0..MaxHandlings

\* A customer is not paid by both channels: an order with a direct refund has
\* no provider refund in the ledger, however webhooks, confirmations and the
\* operator's two steps interleave and wherever one of them dies.
OneChannelPays == ledger.direct > 0 => ledger.refunded = 0

\* A direct refund returns the whole order, once, and its guard says that the
\* channel was taken for it.
DirectRefundIsWhole ==
  direct <=> /\ ledger.direct = Paid
             /\ guard.channel = "DIRECT" /\ guard.status # "RESERVED"

\* An operation is marked as applied only when its refund is booked, or when
\* nothing was asked for or nothing of the payment is left to reverse.
AppliedIsBooked ==
  \A f \in Refunds :
    op[f].applied => ledger.entries[f] > 0 \/ Remaining = 0 \/ Amount[f] = 0

\* A refund that the provider does not confirm by itself reaches the ledger
\* only after a person has confirmed it, whatever webhooks are repeated.
ManualRefundIsReviewed ==
  \A f \in Manual : ledger.entries[f] > 0 => op[f].reviewed

\* A guard says COMPLETED only when its channel has refunded.
CompletedGuardHasRefund ==
  guard.status = "COMPLETED" =>
    IF guard.channel = "DIRECT" THEN direct
    ELSE \E f \in Refunds : op[f].applied

\* What can be paid out to the seller is no more than what refunds have left
\* of the order (docs/wise-payout-design.md:10).
PayoutsFollowRefunds == PayoutBalance <= Remaining
=============================================================================
