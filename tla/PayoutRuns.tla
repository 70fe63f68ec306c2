----------------------------- MODULE PayoutRuns -----------------------------
(***************************************************************************)
(* Seller payout runs: creation, approval, the claim for execution, the    *)
(* manual two-step transfer, the Wise transfer and its polling.            *)
(* Code: app/services/sellerPayments/payouts/{runs,common,wise}.server.js. *)
(*                                                                         *)
(* One seller.  Every query of the code filters by sellerId, so the runs   *)
(* of different sellers share nothing.  A Serializable transaction of the  *)
(* code is one action; a call that awaits the Wise API between database    *)
(* writes is a slot of `call` that takes one action per write or request,  *)
(* so that calls interleave between them.                                  *)
(***************************************************************************)
EXTENDS Integers, FiniteSets, FiniteSetsExt

CONSTANTS
    Runs,          \* rows the table payout_runs may come to hold
    Operators,     \* actor keys of finance operators
    Calls,         \* requests that can be in flight at one time
    Amounts,       \* amounts, in yen, of one run or one ledger change
    TransferIds,   \* references a bank gives to a manual transfer
    None,          \* the null of a column
    MaxCredited,   \* bound: total of the ledger credits of sales
    MaxVersion     \* bound: edits of the seller's payout recipient

ASSUME RunsAreFinite == IsFiniteSet(Runs)
ASSUME AmountsAssumption == Amounts \subseteq (Nat \ {0})
ASSUME BoundsAssumption == MaxCredited \in Nat /\ MaxVersion \in Nat
ASSUME NoneAssumption ==
    None \notin (Runs \cup Operators \cup Calls \cup TransferIds \cup Nat)

VARIABLES
    run,       \* the row of each payout run
    ledger,    \* sums and counts of the seller's ledger entries
    seller,    \* standing, withheld amount and payout recipient
    call,      \* requests in flight
    wise       \* the transfers as Wise knows them (external)

vars == <<run, ledger, seller, call, wise>>

-----------------------------------------------------------------------------
(* The values of the columns. *)

Methods == {"manual_bank_transfer", "wise_api"}

\* Mutant: a run that needs reconciliation gives its amount back.
ReservingUntilReconciliation == {"draft", "approved", "processing"}

\* Open runs whose amount is held back from the balance.
Reserving == {"draft", "approved", "processing", "reconciliation_required"}

Statuses == {"none"} \cup Reserving \cup {"executed", "returned"}

Row == [status             : Statuses,
        method             : Methods,
        amount             : Nat,
        createdBy          : Operators \cup {None},
        approvedBy         : Operators \cup {None},
        processingBy       : Operators \cup {None},
        approvedRecipient  : Nat \cup {None},
        wiseTransferId     : BOOLEAN,
        externalTransferId : TransferIds \cup {None}]

NoRow == [status |-> "none", method |-> "manual_bank_transfer", amount |-> 0,
          createdBy |-> None, approvedBy |-> None, processingBy |-> None,
          approvedRecipient |-> None, wiseTransferId |-> FALSE,
          externalTransferId |-> None]

\* The row payoutRun.create writes.
Draft(op, amount, method) ==
    [NoRow EXCEPT !.status = "draft", !.method = method, !.amount = amount,
                  !.createdBy = op]

\* The seller's ledger: sums of what sales credit and reversals debit, and for
\* each run the number of its payout_paid and payout_returned entries.
Ledger == [credited : Nat, reversed : Nat,
           paid : [Runs -> Nat], returned : [Runs -> Nat]]

\* withheld is reserveAmount plus directInvoiceBalance; recipient counts the
\* edits of the payout recipient.
Seller == [eligible : BOOLEAN, withheld : Nat, recipient : Nat,
           recipientActive : BOOLEAN]

\* What Wise answers about a transfer; "processing" stands for every status
\* the code has no case for.
Reconciling == {"bounced_back", "cancelled", "charged_back"}

WiseStates == {"incoming_payment_waiting", "processing",
               "outgoing_payment_sent", "funds_refunded"} \cup Reconciling

TransferStates == WiseStates \cup {"none"}

Transfer == [state     : TransferStates,
             funded    : BOOLEAN,
             transfers : Nat,
             to        : Nat \cup {None}]

NoTransfer == [state |-> "none", funded |-> FALSE, transfers |-> 0,
               to |-> None]

\* A request in flight: where it stands in executeWisePayoutRun, or that it
\* holds an answer of Wise it has still to apply.
Phases == {"claimed", "created", "recorded", "funded", "failing", "answered"}

InFlight == [phase  : Phases,
             run    : Runs,
             to     : Nat \cup {None},
             answer : TransferStates \cup {None}]

Idle == [phase |-> "idle"]

-----------------------------------------------------------------------------
(* The balance and the reservations. *)

AmountOf(r) == run[r].amount

\* getSellerPayoutableLedgerBalance: signed sum of the ledger entries.
LedgerBalance ==
    ledger.credited - ledger.reversed
      - MapThenSumSet(LAMBDA r : ledger.paid[r] * AmountOf(r), Runs)
      + MapThenSumSet(LAMBDA r : ledger.returned[r] * AmountOf(r), Runs)

\* getReservedPayoutRunAmount: open runs, except the one being decided.
ReservedExcept(r) ==
    MapThenSumSet(AmountOf, {q \in Runs \ {r} : run[q].status \in Reserving})

\* getSellerPayoutAvailability >= amount.  The code cuts each subtraction off
\* at 0; for a positive amount the comparison is the same without the cuts.
Covers(r, amount) ==
    LedgerBalance - ReservedExcept(r) - seller.withheld >= amount

\* assertPayoutEligibleSeller: `eligible` stands for the seller's status,
\* hold, country, readiness and verification; an active recipient is one of
\* its conditions and one of each handler's own.
Eligible == seller.eligible /\ seller.recipientActive

-----------------------------------------------------------------------------
\* Some drafts may date from before creators were recorded: no one may
\* approve those.
Init ==
    /\ run \in [Runs -> {NoRow} \cup
                        {Draft(None, a, "manual_bank_transfer") : a \in Amounts}]
    /\ ledger = [credited |-> 0, reversed |-> 0,
                 paid     |-> [r \in Runs |-> 0],
                 returned |-> [r \in Runs |-> 0]]
    /\ seller = [eligible |-> TRUE, withheld |-> 0, recipient |-> 0,
                 recipientActive |-> TRUE]
    /\ call = [c \in Calls |-> Idle]
    /\ wise = [r \in Runs |-> NoTransfer]

-----------------------------------------------------------------------------
(* Requests that are one Serializable transaction. *)

\* createPayoutRun, by a finance preparer.
CreatePayoutRun(r, op, amount, method) ==
    /\ run[r].status = "none"
    /\ Eligible
    /\ Covers(r, amount)
    /\ run' = [run EXCEPT ![r] = Draft(op, amount, method)]
    /\ UNCHANGED <<ledger, seller, call, wise>>

\* approvePayoutRun: the recipient's version is the snapshot hash that the
\* claim compares.
ApprovePayoutRun(r, op) ==
    /\ run[r].status = "draft"
    /\ run[r].createdBy # None
    /\ run[r].createdBy # op
    /\ Eligible
    /\ Covers(r, run[r].amount)
    /\ run' = [run EXCEPT ![r] = [@ EXCEPT !.status = "approved",
                   !.approvedBy = op, !.approvedRecipient = seller.recipient]]
    /\ UNCHANGED <<ledger, seller, call, wise>>

\* Mutants of the claim: without the comparison of the approval snapshot, of
\* the creator with the executor, and claiming a run again.
MayClaimAnyRecipient(r, op, method) ==
    /\ run[r].status = "approved"
    /\ run[r].createdBy # op /\ run[r].method = method
    /\ Eligible /\ Covers(r, run[r].amount)

MayClaimAgain(r, op, method) ==
    /\ run[r].status \in {"approved", "processing", "reconciliation_required"}
    /\ run[r].createdBy # op /\ run[r].method = method
    /\ run[r].approvedRecipient = seller.recipient
    /\ Eligible /\ Covers(r, run[r].amount)

\* claimPayoutRunForExecution, the transaction both transfer methods run
\* before any money moves.
MayClaim(r, op, method) ==
    /\ run[r].status = "approved"
    /\ run[r].createdBy # None /\ run[r].approvedBy # None
    /\ run[r].createdBy # run[r].approvedBy
    /\ run[r].createdBy # op
    /\ run[r].method = method
    /\ run[r].approvedRecipient = seller.recipient
    /\ Eligible
    /\ Covers(r, run[r].amount)

Claim(r, op) ==
    run' = [run EXCEPT ![r] = [@ EXCEPT !.status = "processing",
                                        !.processingBy = op]]

\* markPayoutRunManuallyPaid on an approved run only claims it.
StartManualTransfer(r, op) ==
    /\ MayClaim(r, op, "manual_bank_transfer")
    /\ Claim(r, op)
    /\ UNCHANGED <<ledger, seller, call, wise>>

\* markPayoutRunManuallyPaid on a processing run records the transfer.  The
\* two unique indexes (method and external id, run and payout_paid) refuse a
\* repeated reference and a second debit.
CompleteManualTransfer(r, op, id) ==
    /\ run[r].status = "processing"
    /\ run[r].method = "manual_bank_transfer"
    /\ run[r].processingBy = op
    /\ \A q \in Runs : run[q].method = "manual_bank_transfer"
                         => run[q].externalTransferId # id
    /\ ledger.paid[r] = 0
    /\ run' = [run EXCEPT ![r] = [@ EXCEPT !.status = "executed",
                                           !.externalTransferId = id]]
    /\ ledger' = [ledger EXCEPT !.paid[r] = @ + 1]
    /\ UNCHANGED <<seller, call, wise>>

-----------------------------------------------------------------------------
(* executeWisePayoutRun, one action per write or request. *)

InPhase(c, phase) == call[c].phase = phase

Step(c, phase) == call' = [call EXCEPT ![c].phase = phase]

\* The claim; the transfer will go to the recipient the claim read.
BeginExecuteWise(c, r, op) ==
    /\ InPhase(c, "idle")
    /\ MayClaim(r, op, "wise_api")
    /\ Claim(r, op)
    /\ call' = [call EXCEPT ![c] = [phase |-> "claimed", run |-> r,
                                    to |-> seller.recipient, answer |-> None]]
    /\ UNCHANGED <<ledger, seller, wise>>

\* createWiseTransfer.  Its answer reaches the caller, or is lost.
CreateWiseTransfer(c) ==
    /\ InPhase(c, "claimed")
    /\ LET r == call[c].run IN
       wise' = [wise EXCEPT ![r].state = "incoming_payment_waiting",
                            ![r].transfers = @ + 1, ![r].to = call[c].to]
    /\ \E phase \in {"created", "failing"} : Step(c, phase)
    /\ UNCHANGED <<run, ledger, seller>>

\* The update that stores the transfer id, without looking at the status.
RecordWiseTransfer(c) ==
    /\ InPhase(c, "created")
    /\ run' = [run EXCEPT ![call[c].run] = [@ EXCEPT !.status = "processing",
                                                     !.wiseTransferId = TRUE]]
    /\ Step(c, "recorded")
    /\ UNCHANGED <<ledger, seller, wise>>

\* fundWiseTransfer.  Its answer reaches the caller, or is lost.
FundWiseTransfer(c) ==
    /\ InPhase(c, "recorded")
    /\ wise[call[c].run].state = "incoming_payment_waiting"
    /\ wise' = [wise EXCEPT ![call[c].run].state = "processing",
                            ![call[c].run].funded = TRUE]
    /\ \E phase \in {"funded", "failing"} : Step(c, phase)
    /\ UNCHANGED <<run, ledger, seller>>

\* The update after funding, again whatever the status has become.
RecordWiseFunding(c) ==
    /\ InPhase(c, "funded")
    /\ run' = [run EXCEPT ![call[c].run].status = "processing"]
    /\ call' = [call EXCEPT ![c].phase = "answered", ![c].answer = "processing"]
    /\ UNCHANGED <<ledger, seller, wise>>

\* Mutant: a failed request is taken for a transfer that did not happen.
FailMeansReturned(c) ==
    /\ call[c].phase \in {"claimed", "created", "recorded", "funded", "failing"}
    /\ run' = [run EXCEPT ![call[c].run].status = "returned"]
    /\ call' = [call EXCEPT ![c] = Idle]
    /\ UNCHANGED <<ledger, seller, wise>>

\* The catch block: a request failed, with or without an effect at Wise.
FailWiseExecution(c) ==
    /\ call[c].phase \in {"claimed", "created", "recorded", "funded", "failing"}
    /\ run' = [run EXCEPT ![call[c].run].status = "reconciliation_required"]
    /\ call' = [call EXCEPT ![c] = Idle]
    /\ UNCHANGED <<ledger, seller, wise>>

-----------------------------------------------------------------------------
(* Polling, and the application of an answer of Wise. *)

\* syncWisePayoutRunStatus up to the answer of retrieveWiseTransfer.
BeginSyncWise(c, r) ==
    /\ InPhase(c, "idle")
    /\ run[r].wiseTransferId
    /\ call' = [call EXCEPT ![c] = [phase |-> "answered", run |-> r,
                                    to |-> None, answer |-> wise[r].state]]
    /\ UNCHANGED <<run, ledger, seller, wise>>

\* Mutants: a debit for every answer, and Wise's word stored as our status.
MarkCompletedEachTime(r) ==
    /\ run' = [run EXCEPT ![r].status = "executed"]
    /\ ledger' = [ledger EXCEPT !.paid[r] = @ + 1]

MarkReturnedByWiseName(r) ==
    /\ run' = [run EXCEPT ![r].status = "funds_refunded"]
    /\ UNCHANGED ledger

\* markWisePayoutRunCompleted: one transaction whose first statement locks
\* the row, so two of them are serial and the second finds the debit.
MarkCompleted(r) ==
    /\ run' = [run EXCEPT ![r].status = "executed"]
    /\ ledger' = IF ledger.paid[r] = 0
                   THEN [ledger EXCEPT !.paid[r] = @ + 1] ELSE ledger

\* markWisePayoutRunReturned: a Serializable transaction.
MarkReturned(r) ==
    /\ run' = [run EXCEPT ![r].status = "returned"]
    /\ ledger' = IF ledger.paid[r] > 0 /\ ledger.returned[r] = 0
                   THEN [ledger EXCEPT !.returned[r] = @ + 1] ELSE ledger

\* applyWiseTransferStatus.  No branch looks at the present status.
ApplyWiseStatus(c) ==
    /\ InPhase(c, "answered")
    /\ LET r == call[c].run
           answer == call[c].answer
       IN  \/ answer = "outgoing_payment_sent" /\ MarkCompleted(r)
           \/ answer = "funds_refunded" /\ MarkReturned(r)
           \/ /\ answer \in Reconciling
              /\ run' = [run EXCEPT ![r].status = "reconciliation_required"]
              /\ UNCHANGED ledger
           \/ /\ answer \in {"incoming_payment_waiting", "processing"}
              /\ run' = [run EXCEPT ![r].status = "processing"]
              /\ UNCHANGED ledger
    /\ call' = [call EXCEPT ![c] = Idle]
    /\ UNCHANGED <<seller, wise>>

\* The process dies, or the request throws where nothing catches it.
Crash(c) ==
    /\ ~InPhase(c, "idle")
    /\ call' = [call EXCEPT ![c] = Idle]
    /\ UNCHANGED <<run, ledger, seller, wise>>

-----------------------------------------------------------------------------
(* The rest of the system, as payouts see it. *)

\* An order is paid, a sale or an offset is restored.
CreditSale(amount) ==
    /\ ledger.credited + amount <= MaxCredited
    /\ ledger' = [ledger EXCEPT !.credited = @ + amount]
    /\ UNCHANGED <<run, seller, call, wise>>

\* A refund, a cancellation, a dispute or a case set-off.
ReverseSale(amount) ==
    /\ ledger.reversed + amount <= ledger.credited
    /\ ledger' = [ledger EXCEPT !.reversed = @ + amount]
    /\ UNCHANGED <<run, seller, call, wise>>

\* An operator changes the seller's standing, hold or withheld amount.
ReviewSeller(eligible, withheld) ==
    /\ <<eligible, withheld>> # <<seller.eligible, seller.withheld>>
    /\ seller' = [seller EXCEPT !.eligible = eligible, !.withheld = withheld]
    /\ UNCHANGED <<run, ledger, call, wise>>

\* upsertSellerWiseRecipient: every edit moves updatedAt, which the approval
\* snapshot hashes.
EditRecipient(active) ==
    /\ seller.recipient < MaxVersion
    /\ seller' = [seller EXCEPT !.recipient = @ + 1,
                                !.recipientActive = active]
    /\ UNCHANGED <<run, ledger, call, wise>>

\* Wise moves a transfer on by itself (external).
WiseStep(r) ==
    /\ \E next \in WiseStates :
         /\ <<wise[r].state, next>> \in
              {<<"incoming_payment_waiting", "cancelled">>,
               <<"processing", "outgoing_payment_sent">>,
               <<"processing", "cancelled">>,
               <<"outgoing_payment_sent", "bounced_back">>,
               <<"outgoing_payment_sent", "charged_back">>,
               <<"bounced_back", "funds_refunded">>}
              \cup (IF wise[r].funded
                      THEN {<<"cancelled", "funds_refunded">>} ELSE {})
         /\ wise' = [wise EXCEPT ![r].state = next]
    /\ UNCHANGED <<run, ledger, seller, call>>

-----------------------------------------------------------------------------
Payouts ==
    \/ \E r \in Runs, op \in Operators :
         \/ \E amount \in Amounts, method \in Methods :
              CreatePayoutRun(r, op, amount, method)
         \/ ApprovePayoutRun(r, op)
         \/ StartManualTransfer(r, op)
         \/ \E id \in TransferIds : CompleteManualTransfer(r, op, id)
         \/ \E c \in Calls : BeginExecuteWise(c, r, op)
    \/ \E c \in Calls :
         \/ CreateWiseTransfer(c)
         \/ RecordWiseTransfer(c)
         \/ FundWiseTransfer(c)
         \/ RecordWiseFunding(c)
         \/ FailWiseExecution(c)
         \/ ApplyWiseStatus(c)
         \/ Crash(c)
         \/ \E r \in Runs : BeginSyncWise(c, r)

Environment ==
    \/ \E amount \in Amounts : CreditSale(amount) \/ ReverseSale(amount)
    \/ \E eligible \in BOOLEAN, withheld \in Amounts \cup {0} :
         ReviewSeller(eligible, withheld)
    \/ \E active \in BOOLEAN : EditRecipient(active)
    \/ \E r \in Runs : WiseStep(r)

Next == Payouts \/ Environment

Spec == Init /\ [][Next]_vars

-----------------------------------------------------------------------------
(* Properties. *)

TypeOK ==
    /\ run \in [Runs -> Row]
    /\ ledger \in Ledger
    /\ seller \in Seller
    /\ call \in [Calls -> InFlight \cup {Idle}]
    /\ wise \in [Runs -> Transfer]

\* The seller's money has left the platform and has not come back.
MoneyOut(r) ==
    IF run[r].method = "manual_bank_transfer"
      THEN run[r].status = "executed"
      ELSE wise[r].funded /\ wise[r].state # "funds_refunded"

\* Money that is out is either still reserved by its run or debited to the
\* seller, so that it cannot be paid a second time: whatever order stale
\* answers, lost answers and crashes leave the unguarded updates of
\* executeWisePayoutRun and applyWiseTransferStatus in.
OutgoingMoneyIsBooked ==
    \A r \in Runs : MoneyOut(r) =>
        \/ run[r].status \in Reserving
        \/ ledger.paid[r] = 1 /\ ledger.returned[r] = 0

\* The seller is debited once, and only for money that was sent; the debit is
\* undone once, and only when Wise gave the money back.
DebitsFollowMoney ==
    \A r \in Runs :
        /\ ledger.returned[r] <= ledger.paid[r] /\ ledger.paid[r] <= 1
        /\ ledger.paid[r] = 1 =>
             \/ run[r].method = "manual_bank_transfer"
                   /\ run[r].status = "executed"
             \/ /\ run[r].method = "wise_api" /\ wise[r].funded
                /\ wise[r].state \in {"outgoing_payment_sent", "bounced_back",
                                      "charged_back", "funds_refunded"}
        /\ ledger.returned[r] = 1 => wise[r].state = "funds_refunded"

\* A transfer at Wise goes to the recipient as the approver saw it, even when
\* the seller's recipient is edited between approval, claim and transfer.
ApprovedRecipientIsPaid ==
    \A r \in Runs : wise[r].to # None => wise[r].to = run[r].approvedRecipient

\* Nobody pays out a run alone: once a transfer exists or a manual payment is
\* booked, the run's creator neither approved it nor claimed it.
CreatorNeverPaysAlone ==
    \A r \in Runs : MoneyOut(r) \/ wise[r].state # "none" =>
        /\ None \notin {run[r].createdBy, run[r].approvedBy, run[r].processingBy}
        /\ run[r].createdBy \notin {run[r].approvedBy, run[r].processingBy}

\* One transfer at Wise per run, whatever is clicked, polled or retried.
OneTransferPerRun == \A r \in Runs : wise[r].transfers <= 1

\* All runs together never have more money out than sales ever credited:
\* open runs hold back their amounts, in every status they pass through.
NeverOverpays ==
    MapThenSumSet(AmountOf, {r \in Runs : MoneyOut(r)}) <= ledger.credited

-----------------------------------------------------------------------------
(* What payouts promise: PayoutPromise, by this mapping. *)

Approved == {r \in Runs : run[r].status \notin {"none", "draft"}}

MoneyOf(r) ==
    IF MoneyOut(r) THEN "out"
    ELSE IF wise[r].state = "funds_refunded" THEN "back" ELSE "held"

Money == [r \in Runs |-> MoneyOf(r)]

Promise == INSTANCE PayoutPromise WITH approved <- Approved, money <- Money

\* Every run's money leaves at most once, after an approval, and comes back
\* at most once.
KeepsPromise == Promise!Spec
=============================================================================
