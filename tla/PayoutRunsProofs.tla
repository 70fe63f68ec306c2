-------------------------- MODULE PayoutRunsProofs --------------------------
(* Theorems about PayoutRuns, for every value of its constants. *)
EXTENDS PayoutRuns, TLAPS, FiniteSetTheorems

-----------------------------------------------------------------------------
(* Type correctness. *)

\* What the writes of the code do to a row keeps it a row.
LEMMA DraftIsRow ==
    ASSUME NEW op \in Operators \cup {None}, NEW amount \in Nat,
           NEW method \in Methods
    PROVE  Draft(op, amount, method) \in Row
  BY DEF Draft, NoRow, Row, Statuses, Reserving, Methods

\* A write of a status alone.
LEMMA StatusKeepsRow ==
    ASSUME NEW row \in Row, NEW status \in Statuses
    PROVE  [row EXCEPT !.status = status] \in Row
  BY DEF Row

\* The writes of approvePayoutRun.
LEMMA ApprovalKeepsRow ==
    ASSUME NEW row \in Row, NEW op \in Operators, NEW recipient \in Nat
    PROVE  [row EXCEPT !.status = "approved", !.approvedBy = op,
                       !.approvedRecipient = recipient] \in Row
  BY DEF Row, Statuses, Reserving

\* The writes of claimPayoutRunForExecution.
LEMMA ClaimKeepsRow ==
    ASSUME NEW row \in Row, NEW op \in Operators
    PROVE  [row EXCEPT !.status = "processing", !.processingBy = op] \in Row
  BY DEF Row, Statuses, Reserving

\* The writes of a manual completion.
LEMMA CompletionKeepsRow ==
    ASSUME NEW row \in Row, NEW id \in TransferIds
    PROVE  [row EXCEPT !.status = "executed",
                       !.externalTransferId = id] \in Row
  BY DEF Row, Statuses, Reserving

\* The write that stores a transfer id.
LEMMA RecordKeepsRow ==
    ASSUME NEW row \in Row
    PROVE  [row EXCEPT !.status = "processing", !.wiseTransferId = TRUE] \in Row
  BY DEF Row, Statuses, Reserving

\* What an operator's review does to the seller.
LEMMA ReviewKeepsSeller ==
    ASSUME NEW s \in Seller, NEW eligible \in BOOLEAN, NEW withheld \in Nat
    PROVE  [s EXCEPT !.eligible = eligible, !.withheld = withheld] \in Seller
  BY DEF Seller

\* What an edit of the payout recipient does to the seller.
LEMMA EditKeepsSeller ==
    ASSUME NEW s \in Seller, NEW active \in BOOLEAN, NEW version \in Nat
    PROVE  [s EXCEPT !.recipient = version, !.recipientActive = active] \in Seller
  BY DEF Seller

\* The initial rows, legacy drafts included, are well typed.
LEMMA InitTypeOK == Init => TypeOK
  <1>. SUFFICES ASSUME Init PROVE TypeOK
    OBVIOUS
  <1>. USE AmountsAssumption DEF Init
  <1>1. NoRow \in Row
    BY DEF NoRow, Row, Statuses, Reserving, Methods
  <1>2. \A a \in Amounts : Draft(None, a, "manual_bank_transfer") \in Row
    BY DraftIsRow DEF Methods
  <1>3. run \in [Runs -> Row]
    BY <1>1, <1>2
  <1>4. wise \in [Runs -> Transfer]
    BY DEF NoTransfer, Transfer, TransferStates
  <1>5. ledger \in Ledger /\ seller \in Seller
    BY DEF Ledger, Seller
  <1> QED
    BY <1>3, <1>4, <1>5 DEF TypeOK

\* One step per action; the ones that leave the rows alone need only their own
\* variable.
LEMMA NextTypeOK == TypeOK /\ [Next]_vars => TypeOK'
  <1>. SUFFICES ASSUME TypeOK, [Next]_vars PROVE TypeOK'
    OBVIOUS
  <1>. USE AmountsAssumption DEF TypeOK
  <1>1. ASSUME NEW r \in Runs, NEW op \in Operators, NEW amount \in Amounts,
               NEW method \in Methods, CreatePayoutRun(r, op, amount, method)
        PROVE TypeOK'
    <2>1. run' \in [Runs -> Row]
      BY <1>1, DraftIsRow DEF CreatePayoutRun
    <2> QED
      BY <1>1, <2>1 DEF CreatePayoutRun
  <1>2. ASSUME NEW r \in Runs, NEW op \in Operators, ApprovePayoutRun(r, op)
        PROVE TypeOK'
    <2>1. run' \in [Runs -> Row]
      BY <1>2, ApprovalKeepsRow DEF ApprovePayoutRun, Seller
    <2> QED
      BY <1>2, <2>1 DEF ApprovePayoutRun
  <1>3. ASSUME NEW r \in Runs, NEW op \in Operators, StartManualTransfer(r, op)
        PROVE TypeOK'
    <2>1. run' \in [Runs -> Row]
      BY <1>3, ClaimKeepsRow DEF StartManualTransfer, Claim
    <2> QED
      BY <1>3, <2>1 DEF StartManualTransfer
  <1>4. ASSUME NEW r \in Runs, NEW op \in Operators, NEW id \in TransferIds,
               CompleteManualTransfer(r, op, id)
        PROVE TypeOK'
    <2>1. run' \in [Runs -> Row]
      BY <1>4, CompletionKeepsRow DEF CompleteManualTransfer
    <2>2. ledger' \in Ledger
      BY <1>4 DEF CompleteManualTransfer, Ledger
    <2> QED
      BY <1>4, <2>1, <2>2 DEF CompleteManualTransfer
  <1>5. ASSUME NEW r \in Runs, NEW op \in Operators, NEW c \in Calls,
               BeginExecuteWise(c, r, op)
        PROVE TypeOK'
    <2>1. run' \in [Runs -> Row]
      BY <1>5, ClaimKeepsRow DEF BeginExecuteWise, Claim
    <2>2. call' \in [Calls -> InFlight \cup {Idle}]
      BY <1>5 DEF BeginExecuteWise, InFlight, Phases, Seller
    <2> QED
      BY <1>5, <2>1, <2>2 DEF BeginExecuteWise
  <1>6. ASSUME NEW c \in Calls, CreateWiseTransfer(c)
        PROVE TypeOK'
    <2>1. call[c] \in InFlight
      BY <1>6 DEF CreateWiseTransfer, InPhase, Idle
    <2>2. wise' \in [Runs -> Transfer]
      BY <1>6, <2>1 DEF CreateWiseTransfer, InFlight, Transfer,
                              TransferStates, WiseStates
    <2>3. call' \in [Calls -> InFlight \cup {Idle}]
      BY <1>6, <2>1 DEF CreateWiseTransfer, Step, InFlight, Phases
    <2> QED
      BY <1>6, <2>2, <2>3 DEF CreateWiseTransfer
  <1>7. ASSUME NEW c \in Calls, RecordWiseTransfer(c)
        PROVE TypeOK'
    <2>1. call[c] \in InFlight
      BY <1>7 DEF RecordWiseTransfer, InPhase, Idle
    <2>2. run' \in [Runs -> Row]
      BY <1>7, <2>1, RecordKeepsRow DEF RecordWiseTransfer, InFlight
    <2>3. call' \in [Calls -> InFlight \cup {Idle}]
      BY <1>7, <2>1 DEF RecordWiseTransfer, Step, InFlight, Phases
    <2> QED
      BY <1>7, <2>2, <2>3 DEF RecordWiseTransfer
  <1>8. ASSUME NEW c \in Calls, FundWiseTransfer(c)
        PROVE TypeOK'
    <2>1. call[c] \in InFlight
      BY <1>8 DEF FundWiseTransfer, InPhase, Idle
    <2>2. wise' \in [Runs -> Transfer]
      BY <1>8, <2>1 DEF FundWiseTransfer, InFlight, Transfer,
                              TransferStates, WiseStates
    <2>3. call' \in [Calls -> InFlight \cup {Idle}]
      BY <1>8, <2>1 DEF FundWiseTransfer, Step, InFlight, Phases
    <2> QED
      BY <1>8, <2>2, <2>3 DEF FundWiseTransfer
  <1>9. ASSUME NEW c \in Calls, RecordWiseFunding(c)
        PROVE TypeOK'
    <2>1. call[c] \in InFlight
      BY <1>9 DEF RecordWiseFunding, InPhase, Idle
    <2>2. run' \in [Runs -> Row]
      BY <1>9, <2>1, StatusKeepsRow DEF RecordWiseFunding, InFlight, Statuses,
                                        Reserving
    <2>3. call' \in [Calls -> InFlight \cup {Idle}]
      BY <1>9, <2>1 DEF RecordWiseFunding, InFlight, Phases, TransferStates,
                        WiseStates
    <2> QED
      BY <1>9, <2>2, <2>3 DEF RecordWiseFunding
  <1>10. ASSUME NEW c \in Calls, FailWiseExecution(c)
         PROVE TypeOK'
    <2>1. call[c] \in InFlight
      BY <1>10 DEF FailWiseExecution, Idle
    <2>2. run' \in [Runs -> Row]
      BY <1>10, <2>1, StatusKeepsRow DEF FailWiseExecution, InFlight, Statuses,
                                         Reserving
    <2> QED
      BY <1>10, <2>2 DEF FailWiseExecution
  <1>11. ASSUME NEW c \in Calls, NEW r \in Runs, BeginSyncWise(c, r)
         PROVE TypeOK'
    <2>1. wise[r].state \in TransferStates
      BY DEF Transfer
    <2>2. call' \in [Calls -> InFlight \cup {Idle}]
      BY <1>11, <2>1 DEF BeginSyncWise, InFlight, Phases
    <2> QED
      BY <1>11, <2>2 DEF BeginSyncWise
  <1>12. ASSUME NEW c \in Calls, ApplyWiseStatus(c)
         PROVE TypeOK'
    <2>1. call[c] \in InFlight
      BY <1>12 DEF ApplyWiseStatus, InPhase, Idle
    <2>2. run' \in [Runs -> Row]
      BY <1>12, <2>1 DEF ApplyWiseStatus, MarkCompleted, MarkReturned,
                         InFlight, Row, Statuses, Reserving
    <2>3. ledger' \in Ledger
      BY <1>12, <2>1 DEF ApplyWiseStatus, MarkCompleted, MarkReturned, InFlight,
                         Ledger
    <2> QED
      BY <1>12, <2>2, <2>3 DEF ApplyWiseStatus
  <1>13. ASSUME NEW c \in Calls, Crash(c)
         PROVE TypeOK'
    BY <1>13 DEF Crash
  <1>14. ASSUME NEW amount \in Amounts, CreditSale(amount) \/ ReverseSale(amount)
         PROVE TypeOK'
    BY <1>14 DEF CreditSale, ReverseSale, Ledger
  <1>15. ASSUME NEW eligible \in BOOLEAN, NEW withheld \in Amounts \cup {0},
                ReviewSeller(eligible, withheld)
         PROVE TypeOK'
    BY <1>15, ReviewKeepsSeller DEF ReviewSeller
  <1>16. ASSUME NEW active \in BOOLEAN, EditRecipient(active)
         PROVE TypeOK'
    <2>1. seller.recipient + 1 \in Nat
      BY DEF Seller
    <2> QED
      BY <1>16, <2>1, EditKeepsSeller DEF EditRecipient
  <1>17. ASSUME NEW r \in Runs, WiseStep(r)
         PROVE TypeOK'
    BY <1>17 DEF WiseStep, Transfer, TransferStates
  <1>18. CASE UNCHANGED vars
    BY <1>18 DEF vars
  <1> QED
    BY <1>1, <1>2, <1>3, <1>4, <1>5, <1>6, <1>7, <1>8, <1>9, <1>10, <1>11,
       <1>12, <1>13, <1>14, <1>15, <1>16, <1>17, <1>18
    DEF Next, Payouts, Environment

\* Every column, count and request keeps its type.
THEOREM TypeCorrect == Spec => []TypeOK
  BY InitTypeOK, NextTypeOK, PTL DEF Spec

-----------------------------------------------------------------------------
(* The inductive invariant.  OutgoingMoneyIsBooked and the others are not    *)
(* inductive: a request in flight carries an answer of Wise, and a recipient *)
(* read at its claim, to a later step.  What such a request may hold, given  *)
(* the transfer as Wise now has it, is the heart of the strengthening.       *)

Unclaimed(r) == run[r].status \in {"none", "draft", "approved"}

AfterSent == {"outgoing_payment_sent", "bounced_back", "charged_back",
              "funds_refunded"}

\* No money has moved for a run that nobody has claimed.
NothingMoved(r) ==
    Unclaimed(r) => /\ wise[r] = NoTransfer
                    /\ ledger.paid[r] = 0 /\ ledger.returned[r] = 0
                    /\ ~run[r].wiseTransferId

\* A manual run never has a transfer at Wise; it is debited when executed.
ManualBooks(r) ==
    run[r].method = "manual_bank_transfer" =>
      /\ wise[r] = NoTransfer /\ ~run[r].wiseTransferId
      /\ Unclaimed(r) \/ run[r].status \in {"processing", "executed"}
      /\ ledger.paid[r] = IF run[r].status = "executed" THEN 1 ELSE 0
      /\ ledger.returned[r] = 0

\* What a Wise run's status and entries say of its transfer.
WiseBooks(r) ==
    run[r].method = "wise_api" =>
      /\ ledger.returned[r] <= ledger.paid[r] /\ ledger.paid[r] <= 1
      /\ ledger.paid[r] = 1 => wise[r].state \in AfterSent
      /\ ledger.returned[r] = 1 => wise[r].state = "funds_refunded"
      /\ run[r].status = "executed" => ledger.paid[r] = 1
      /\ run[r].status = "returned" => wise[r].state = "funds_refunded"

TransferIsSound(r) ==
    /\ wise[r].transfers <= 1
    /\ wise[r].state = "none" => wise[r] = NoTransfer
    /\ wise[r].state = "incoming_payment_waiting" => ~wise[r].funded
    /\ wise[r].state \in AfterSent \cup {"processing"} => wise[r].funded
    /\ wise[r].to # None => wise[r].to = run[r].approvedRecipient
    /\ run[r].wiseTransferId => wise[r].state # "none"

\* Who may have done what, by the run's status.
PeopleDiffer(r) ==
    /\ run[r].status \notin {"none", "draft"} =>
         /\ None \notin {run[r].createdBy, run[r].approvedBy}
         /\ run[r].createdBy # run[r].approvedBy
    /\ ~Unclaimed(r) =>
         /\ run[r].processingBy # None
         /\ run[r].createdBy # run[r].processingBy

RunInv(r) ==
    /\ NothingMoved(r) /\ ManualBooks(r) /\ WiseBooks(r)
    /\ TransferIsSound(r) /\ PeopleDiffer(r)

\* What a request in flight may hold.
CallInv(c) ==
    LET r == call[c].run IN
    call[c].phase # "idle" =>
      /\ run[r].method = "wise_api" /\ ~Unclaimed(r)
      /\ call[c].phase = "claimed" => /\ wise[r] = NoTransfer
                                      /\ call[c].to = run[r].approvedRecipient
      /\ call[c].phase \in {"created", "recorded", "funded", "answered"}
           => wise[r].state # "none"
      /\ call[c].phase = "answered" =>
           /\ call[c].answer = "outgoing_payment_sent"
                => wise[r].state \in AfterSent
           /\ call[c].answer = "funds_refunded"
                => wise[r].state = "funds_refunded"

\* One request at a time executes a run.
OneExecution ==
    \A c, d \in Calls :
        /\ call[c].phase \notin {"idle", "answered"}
        /\ call[d].phase \notin {"idle", "answered"}
        /\ call[c].run = call[d].run
        => c = d

IInv ==
    /\ TypeOK
    /\ \A r \in Runs : RunInv(r)
    /\ \A c \in Calls : CallInv(c)
    /\ OneExecution

-----------------------------------------------------------------------------
(* Frames: what an action leaves alone keeps its invariant.                  *)

SameBooks(r) ==
    /\ wise'[r] = wise[r]
    /\ ledger'.paid[r] = ledger.paid[r]
    /\ ledger'.returned[r] = ledger.returned[r]

\* A run that a step leaves alone keeps its invariant.
LEMMA RunFrame ==
    ASSUME NEW r \in Runs, RunInv(r), run'[r] = run[r], SameBooks(r)
    PROVE  RunInv(r)'
  BY DEF SameBooks, RunInv, NothingMoved, ManualBooks, WiseBooks,
         TransferIsSound, PeopleDiffer, Unclaimed

\* A claimed run stays claimed and keeps what requests rely on.
SameForCalls(r) ==
    /\ run'[r].method = run[r].method
    /\ run'[r].approvedRecipient = run[r].approvedRecipient
    /\ ~Unclaimed(r) => run'[r].status \notin {"none", "draft", "approved"}
    /\ wise'[r] = wise[r]

\* So does a request in flight whose run stays claimed.
LEMMA CallFrame ==
    ASSUME NEW c \in Calls, CallInv(c), call'[c] = call[c],
           ~Unclaimed(call[c].run) => SameForCalls(call[c].run)
    PROVE  CallInv(c)'
  BY DEF CallInv, SameForCalls, Unclaimed

\* Requests that stay as they are stay exclusive.
LEMMA OneExecutionFrame ==
    ASSUME OneExecution, call' = call
    PROVE  OneExecution'
  BY DEF OneExecution

\* No run is claimed and no request in flight at first.
LEMMA InitIInv == Init => IInv
  <1>. SUFFICES ASSUME Init PROVE IInv
    OBVIOUS
  <1>1. TypeOK
    BY InitTypeOK
  <1>2. ASSUME NEW r \in Runs PROVE RunInv(r)
    <2>1. /\ run[r].status \in {"none", "draft"}
          /\ run[r].method = "manual_bank_transfer"
          /\ run[r].wiseTransferId = FALSE
      <3>1. \/ run[r] = NoRow
            \/ \E a \in Amounts : run[r] = Draft(None, a, "manual_bank_transfer")
        BY DEF Init
      <3>2. CASE run[r] = NoRow
        BY <3>2 DEF NoRow
      <3>3. ASSUME NEW a \in Amounts,
                   run[r] = Draft(None, a, "manual_bank_transfer")
            PROVE  /\ run[r].status \in {"none", "draft"}
                   /\ run[r].method = "manual_bank_transfer"
                   /\ run[r].wiseTransferId = FALSE
        BY <3>3 DEF Draft, NoRow
      <3> QED
        BY <3>1, <3>2, <3>3
    <2>2. wise[r] = NoTransfer /\ ledger.paid[r] = 0 /\ ledger.returned[r] = 0
      BY DEF Init
    <2> QED
      BY <2>1, <2>2 DEF RunInv, NothingMoved, ManualBooks, WiseBooks,
           TransferIsSound, PeopleDiffer, Unclaimed, NoTransfer, AfterSent
  <1>3. \A c \in Calls : call[c].phase = "idle"
    BY DEF Init, Idle
  <1> QED
    BY <1>1, <1>2, <1>3 DEF IInv, CallInv, OneExecution

-----------------------------------------------------------------------------
(* Each action keeps the invariant.                                          *)

\* Actions on the row of an unclaimed run: no request is about it.
LEMMA RowActionsKeep ==
    ASSUME IInv, NEW r \in Runs, NEW op \in Operators,
           Unclaimed(r), UNCHANGED <<ledger, seller, call, wise>>,
           \A q \in Runs \ {r} : run'[q] = run[q], TypeOK', RunInv(r)'
    PROVE  IInv'
  <1>1. \A q \in Runs : RunInv(q)'
    BY RunFrame DEF IInv, SameBooks
  <1>2. ASSUME NEW c \in Calls PROVE CallInv(c)'
    <2>1. CASE call[c].phase = "idle"
      BY <2>1 DEF CallInv
    <2>2. CASE call[c].phase # "idle"
      <3>1. call[c].run \in Runs \ {r}
        BY <2>2 DEF IInv, TypeOK, CallInv, InFlight, Idle
      <3> QED
        BY <3>1, CallFrame DEF IInv, SameForCalls, Unclaimed
    <2> QED
      BY <2>1, <2>2
  <1>3. OneExecution'
    BY OneExecutionFrame DEF IInv
  <1> QED
    BY <1>1, <1>2, <1>3 DEF IInv

\* createPayoutRun.
LEMMA CreateKeeps ==
    ASSUME IInv, TypeOK', NEW r \in Runs, NEW op \in Operators,
           NEW amount \in Amounts, NEW method \in Methods,
           CreatePayoutRun(r, op, amount, method)
    PROVE  IInv'
  <1>1. Unclaimed(r) /\ NothingMoved(r)
    BY DEF CreatePayoutRun, Unclaimed, IInv, RunInv
  <1>2. run'[r] = Draft(op, amount, method)
    BY DEF CreatePayoutRun, IInv, TypeOK
  <1>3. run'[r].status = "draft" /\ run'[r].wiseTransferId = FALSE
    BY <1>2 DEF Draft, NoRow
  <1>4. RunInv(r)'
    BY <1>1, <1>3 DEF CreatePayoutRun, RunInv, NothingMoved, ManualBooks,
         WiseBooks, TransferIsSound, PeopleDiffer, Unclaimed, NoTransfer, AfterSent
  <1> QED
    BY <1>1, <1>4, RowActionsKeep DEF CreatePayoutRun, IInv, TypeOK

\* approvePayoutRun.
LEMMA ApproveKeeps ==
    ASSUME IInv, TypeOK', NEW r \in Runs, NEW op \in Operators,
           ApprovePayoutRun(r, op)
    PROVE  IInv'
  <1>1. Unclaimed(r) /\ NothingMoved(r)
    BY DEF ApprovePayoutRun, Unclaimed, IInv, RunInv
  <1>2. run[r] \in Row
    BY DEF IInv, TypeOK
  <1>3. /\ run'[r].status = "approved" /\ run'[r].approvedBy = op
        /\ run'[r].createdBy = run[r].createdBy
        /\ run'[r].wiseTransferId = run[r].wiseTransferId
    BY <1>2 DEF ApprovePayoutRun, IInv, TypeOK, Row
  <1>4. op # None
    BY NoneAssumption
  <1>5. RunInv(r)'
    BY <1>1, <1>3, <1>4 DEF ApprovePayoutRun, RunInv, NothingMoved, ManualBooks,
         WiseBooks, TransferIsSound, PeopleDiffer, Unclaimed, NoTransfer, AfterSent
  <1> QED
    BY <1>1, <1>5, RowActionsKeep DEF ApprovePayoutRun, IInv, TypeOK

\* What the claim does to the row, for both transfer methods.
LEMMA ClaimedRow ==
    ASSUME IInv, NEW r \in Runs, NEW op \in Operators, NEW method \in Methods,
           MayClaim(r, op, method), Claim(r, op), UNCHANGED <<ledger, wise>>
    PROVE  /\ Unclaimed(r) /\ ~Unclaimed(r)'
           /\ run'[r].method = method
           /\ run'[r].approvedRecipient = seller.recipient
           /\ \A q \in Runs \ {r} : run'[q] = run[q]
           /\ wise[r] = NoTransfer
           /\ RunInv(r)'
  <1>1. Unclaimed(r) /\ NothingMoved(r) /\ PeopleDiffer(r)
    BY DEF MayClaim, Unclaimed, IInv, RunInv
  <1>2. run[r] \in Row
    BY DEF IInv, TypeOK
  <1>3. /\ run'[r].status = "processing" /\ run'[r].processingBy = op
        /\ run'[r].method = method
        /\ run'[r].createdBy = run[r].createdBy
        /\ run'[r].approvedBy = run[r].approvedBy
        /\ run'[r].approvedRecipient = seller.recipient
        /\ run'[r].wiseTransferId = run[r].wiseTransferId
    BY <1>2 DEF MayClaim, Claim, IInv, TypeOK, Row
  <1>4. op # None
    BY NoneAssumption
  <1>5. RunInv(r)'
    BY <1>1, <1>3, <1>4 DEF MayClaim, RunInv, NothingMoved, ManualBooks,
         WiseBooks, TransferIsSound, PeopleDiffer, Unclaimed, NoTransfer, AfterSent
  <1> QED
    BY <1>1, <1>3, <1>5 DEF NothingMoved, Unclaimed, Claim, IInv, TypeOK

\* markPayoutRunManuallyPaid on an approved run.
LEMMA StartManualKeeps ==
    ASSUME IInv, TypeOK', NEW r \in Runs, NEW op \in Operators,
           StartManualTransfer(r, op)
    PROVE  IInv'
  <1>1. Unclaimed(r) /\ RunInv(r)' /\ \A q \in Runs \ {r} : run'[q] = run[q]
    BY ClaimedRow DEF StartManualTransfer, Methods
  <1> QED
    BY <1>1, RowActionsKeep DEF StartManualTransfer

\* No request is about a manual run, so its completion disturbs none.
LEMMA CompleteManualKeeps ==
    ASSUME IInv, TypeOK', NEW r \in Runs, NEW op \in Operators,
           NEW id \in TransferIds, CompleteManualTransfer(r, op, id)
    PROVE  IInv'
  <1>1. run[r] \in Row /\ ledger \in Ledger
    BY DEF IInv, TypeOK
  <1>2. /\ run'[r].status = "executed"
        /\ run'[r].method = run[r].method
        /\ run'[r].createdBy = run[r].createdBy
        /\ run'[r].approvedBy = run[r].approvedBy
        /\ run'[r].processingBy = run[r].processingBy
        /\ run'[r].approvedRecipient = run[r].approvedRecipient
        /\ run'[r].wiseTransferId = run[r].wiseTransferId
    BY <1>1 DEF CompleteManualTransfer, IInv, TypeOK, Row
  <1>3. ledger'.paid[r] = 1 /\ ledger'.returned[r] = ledger.returned[r]
    BY <1>1 DEF CompleteManualTransfer, Ledger
  <1>4. RunInv(r)'
    <2>1. wise' = wise /\ run[r].status = "processing"
          /\ run[r].method = "manual_bank_transfer"
      BY DEF CompleteManualTransfer
    <2>2. RunInv(r)
      BY DEF IInv
    <2>3. NothingMoved(r)' /\ WiseBooks(r)'
      BY <1>2, <2>1 DEF NothingMoved, WiseBooks, Unclaimed
    <2>4. ManualBooks(r)'
      BY <1>2, <1>3, <2>1, <2>2 DEF RunInv, ManualBooks, Unclaimed
    <2>5. TransferIsSound(r)' /\ PeopleDiffer(r)'
      BY <1>2, <2>1, <2>2 DEF RunInv, TransferIsSound, PeopleDiffer, Unclaimed
    <2> QED
      BY <2>3, <2>4, <2>5 DEF RunInv
  <1>5. ASSUME NEW q \in Runs \ {r} PROVE RunInv(q)'
    <2>1. run'[q] = run[q]
      BY DEF CompleteManualTransfer, IInv, TypeOK
    <2>2. SameBooks(q)
      BY <1>1 DEF CompleteManualTransfer, Ledger, SameBooks
    <2> QED
      BY <2>1, <2>2, RunFrame DEF IInv
  <1>6. ASSUME NEW c \in Calls PROVE CallInv(c)'
    <2>1. CASE call[c].phase = "idle"
      BY <2>1 DEF CallInv, CompleteManualTransfer
    <2>2. CASE call[c].phase # "idle"
      <3>1. call[c].run \in Runs \ {r}
        BY <2>2 DEF IInv, TypeOK, CallInv, InFlight, Idle, CompleteManualTransfer
      <3>2. SameForCalls(call[c].run)
        BY <3>1 DEF CompleteManualTransfer, IInv, TypeOK, SameForCalls, Unclaimed
      <3> QED
        BY <3>2, CallFrame DEF IInv, CompleteManualTransfer
    <2> QED
      BY <2>1, <2>2
  <1>7. OneExecution'
    BY OneExecutionFrame DEF IInv, CompleteManualTransfer
  <1> QED
    BY <1>4, <1>5, <1>6, <1>7 DEF IInv

-----------------------------------------------------------------------------
(* Actions of a request in flight, on the run it is about.                   *)

\* What holds of a request in flight and its run.
LEMMA InFlightFacts ==
    ASSUME IInv, NEW c \in Calls, call[c].phase # "idle"
    PROVE  /\ call[c] \in InFlight /\ call[c].run \in Runs
           /\ run[call[c].run] \in Row
           /\ run[call[c].run].method = "wise_api"
           /\ ~Unclaimed(call[c].run)
           /\ RunInv(call[c].run) /\ CallInv(c)
  <1>1. call[c] \in InFlight
    BY DEF IInv, TypeOK, Idle
  <1> QED
    BY <1>1 DEF IInv, TypeOK, InFlight, CallInv

\* An action of request c on its run r that leaves the other runs and the
\* other requests alone keeps the invariant if it keeps what is said of r, of
\* c, and of the other requests about r.
LEMMA CallActionsKeep ==
    ASSUME IInv, TypeOK', NEW c \in Calls, NEW r \in Runs,
           \A q \in Runs \ {r} : run'[q] = run[q] /\ SameBooks(q),
           \A d \in Calls \ {c} : call'[d] = call[d],
           RunInv(r)', CallInv(c)',
           \A d \in Calls \ {c} :
             call[d].phase # "idle" /\ call[d].run = r => CallInv(d)',
           call'[c].phase \in {"idle", "answered"} \/
             (call[c].phase \notin {"idle", "answered"}
                /\ call'[c].run = call[c].run)
    PROVE  IInv'
  <1>1. \A q \in Runs : RunInv(q)'
    BY RunFrame DEF IInv
  <1>2. ASSUME NEW d \in Calls PROVE CallInv(d)'
    <2>1. CASE d = c
      BY <2>1
    <2>2. CASE d # c /\ call[d].phase = "idle"
      BY <2>2 DEF CallInv
    <2>3. CASE d # c /\ call[d].phase # "idle" /\ call[d].run = r
      BY <2>3
    <2>4. CASE d # c /\ call[d].phase # "idle" /\ call[d].run # r
      <3>1. call[d].run \in Runs \ {r}
        BY <2>4, InFlightFacts
      <3>2. /\ run'[call[d].run] = run[call[d].run]
            /\ wise'[call[d].run] = wise[call[d].run]
        BY <3>1 DEF SameBooks
      <3>3. SameForCalls(call[d].run)
        BY <3>2 DEF SameForCalls, Unclaimed
      <3> QED
        BY <2>4, <3>3, CallFrame DEF IInv
    <2> QED
      BY <2>1, <2>2, <2>3, <2>4
  <1>3. OneExecution'
    BY DEF OneExecution, IInv
  <1> QED
    BY <1>1, <1>2, <1>3 DEF IInv

\* A claimed Wise run may take any status that its transfer justifies.
LEMMA StatusOfClaimedRun ==
    ASSUME IInv, NEW r \in Runs, NEW status \in Statuses,
           ~Unclaimed(r), run[r].method = "wise_api",
           status \in {"processing", "reconciliation_required"},
           run' = [run EXCEPT ![r].status = status],
           UNCHANGED <<ledger, wise>>
    PROVE  /\ RunInv(r)' /\ SameForCalls(r)
           /\ \A q \in Runs \ {r} : run'[q] = run[q] /\ SameBooks(q)
  <1>1. run[r] \in Row /\ RunInv(r)
    BY DEF IInv, TypeOK
  <1>2. /\ run'[r].status = status
        /\ run'[r].method = run[r].method
        /\ run'[r].createdBy = run[r].createdBy
        /\ run'[r].approvedBy = run[r].approvedBy
        /\ run'[r].processingBy = run[r].processingBy
        /\ run'[r].approvedRecipient = run[r].approvedRecipient
        /\ run'[r].wiseTransferId = run[r].wiseTransferId
    BY <1>1 DEF IInv, TypeOK, Row
  <1>3. RunInv(r)'
    BY <1>1, <1>2 DEF RunInv, NothingMoved, ManualBooks, WiseBooks,
         TransferIsSound, PeopleDiffer, Unclaimed
  <1>4. SameForCalls(r)
    BY <1>2 DEF SameForCalls, Unclaimed
  <1> QED
    BY <1>3, <1>4 DEF SameBooks, IInv, TypeOK

\* The claim of executeWisePayoutRun: no other request is about its run.
LEMMA BeginExecuteKeeps ==
    ASSUME IInv, TypeOK', NEW r \in Runs, NEW op \in Operators, NEW c \in Calls,
           BeginExecuteWise(c, r, op)
    PROVE  IInv'
  <1>1. /\ Unclaimed(r) /\ ~Unclaimed(r)' /\ RunInv(r)'
        /\ run'[r].method = "wise_api" /\ wise[r] = NoTransfer
        /\ run'[r].approvedRecipient = seller.recipient
        /\ \A q \in Runs \ {r} : run'[q] = run[q] /\ SameBooks(q)
    BY ClaimedRow DEF BeginExecuteWise, Methods, SameBooks
  <1>2. call'[c] = [phase |-> "claimed", run |-> r, to |-> seller.recipient,
                    answer |-> None]
    BY DEF BeginExecuteWise, IInv, TypeOK
  <1>3. CallInv(c)'
    BY <1>1, <1>2 DEF CallInv, BeginExecuteWise
  <1>4. \A d \in Calls : call[d].phase # "idle" => call[d].run # r
    BY <1>1, InFlightFacts
  <1>5. ASSUME NEW d \in Calls PROVE CallInv(d)'
    <2>1. CASE d = c
      BY <2>1, <1>3
    <2>2. CASE d # c /\ call[d].phase = "idle"
      BY <2>2 DEF CallInv, BeginExecuteWise
    <2>3. CASE d # c /\ call[d].phase # "idle"
      <3>1. call[d].run \in Runs \ {r} /\ call'[d] = call[d]
        BY <2>3, <1>4, InFlightFacts DEF BeginExecuteWise
      <3>2. SameForCalls(call[d].run)
        BY <3>1, <1>1 DEF SameForCalls, SameBooks, Unclaimed
      <3> QED
        BY <3>1, <3>2, CallFrame DEF IInv
    <2> QED
      BY <2>1, <2>2, <2>3
  <1>6. OneExecution'
    BY <1>2, <1>4 DEF OneExecution, IInv, BeginExecuteWise
  <1>7. \A q \in Runs : RunInv(q)'
    BY <1>1, RunFrame DEF IInv
  <1> QED
    BY <1>5, <1>6, <1>7 DEF IInv

\* A request that only ends, or reads an answer, changes no row or transfer.
LEMMA CallOnlyKeeps ==
    ASSUME IInv, TypeOK', NEW c \in Calls, CallInv(c)',
           UNCHANGED <<run, ledger, wise>>,
           \A d \in Calls \ {c} : call'[d] = call[d],
           call'[c].phase \in {"idle", "answered"}
    PROVE  IInv'
  <1>1. \A q \in Runs : RunInv(q)'
    BY RunFrame DEF IInv, SameBooks
  <1>2. ASSUME NEW d \in Calls \ {c} PROVE CallInv(d)'
    BY CallFrame DEF IInv, SameForCalls, Unclaimed
  <1>3. OneExecution'
    BY DEF OneExecution, IInv
  <1> QED
    BY <1>1, <1>2, <1>3 DEF IInv

\* syncWisePayoutRunStatus: the answer read is the transfer's present state.
LEMMA BeginSyncKeeps ==
    ASSUME IInv, TypeOK', NEW c \in Calls, NEW r \in Runs, BeginSyncWise(c, r)
    PROVE  IInv'
  <1>1. call'[c] = [phase |-> "answered", run |-> r, to |-> None,
                    answer |-> wise[r].state]
    BY DEF BeginSyncWise, IInv, TypeOK
  <1>2. run[r].wiseTransferId /\ RunInv(r) /\ run[r] \in Row
    BY DEF BeginSyncWise, IInv, TypeOK
  <1>3. run[r].method = "wise_api" /\ ~Unclaimed(r) /\ wise[r].state # "none"
    BY <1>2 DEF RunInv, NothingMoved, ManualBooks, TransferIsSound, Row, Methods
  <1>4. CallInv(c)'
    BY <1>1, <1>3 DEF BeginSyncWise, CallInv, Unclaimed, AfterSent
  <1> QED
    BY <1>1, <1>4, CallOnlyKeeps DEF BeginSyncWise

\* A request that dies leaves rows and transfers as they are.
LEMMA CrashKeeps ==
    ASSUME IInv, TypeOK', NEW c \in Calls, Crash(c)
    PROVE  IInv'
  <1>1. call'[c] = Idle
    BY DEF Crash, IInv, TypeOK
  <1> QED
    BY <1>1, CallOnlyKeeps DEF Crash, CallInv, Idle

\* The other requests about a run that one of them executes hold answers.
LEMMA OthersAreAnswers ==
    ASSUME IInv, NEW c \in Calls, NEW d \in Calls \ {c},
           call[c].phase \notin {"idle", "answered"},
           call[d].phase # "idle", call[d].run = call[c].run
    PROVE  call[d].phase = "answered"
  BY DEF IInv, OneExecution

\* The transfer id is stored after the transfer exists.
LEMMA RecordTransferKeeps ==
    ASSUME IInv, TypeOK', NEW c \in Calls, RecordWiseTransfer(c)
    PROVE  IInv'
  <1>. PICK r \in Runs : r = call[c].run
    BY InFlightFacts DEF RecordWiseTransfer, InPhase
  <1>1. /\ call[c] \in InFlight /\ r \in Runs /\ run[r] \in Row
        /\ run[r].method = "wise_api" /\ ~Unclaimed(r) /\ RunInv(r)
        /\ call[c].phase = "created" /\ wise[r].state # "none"
    BY InFlightFacts DEF RecordWiseTransfer, InPhase, CallInv
  <1>2. /\ run'[r].status = "processing"
        /\ run'[r].wiseTransferId = TRUE
        /\ run'[r].method = run[r].method
        /\ run'[r].createdBy = run[r].createdBy
        /\ run'[r].approvedBy = run[r].approvedBy
        /\ run'[r].processingBy = run[r].processingBy
        /\ run'[r].approvedRecipient = run[r].approvedRecipient
    BY <1>1 DEF RecordWiseTransfer, IInv, TypeOK, Row
  <1>3. RunInv(r)'
    BY <1>1, <1>2 DEF RecordWiseTransfer, RunInv, NothingMoved, ManualBooks,
         WiseBooks, TransferIsSound, PeopleDiffer, Unclaimed
  <1>4. SameForCalls(r)
    BY <1>2 DEF RecordWiseTransfer, SameForCalls, Unclaimed
  <1>5. /\ call'[c].phase = "recorded" /\ call'[c].run = r
        /\ \A d \in Calls \ {c} : call'[d] = call[d]
    BY <1>1 DEF RecordWiseTransfer, Step, IInv, TypeOK, InFlight
  <1>6. CallInv(c)'
    BY <1>1, <1>2, <1>5 DEF RecordWiseTransfer, CallInv, Unclaimed
  <1>7. \A q \in Runs \ {r} : run'[q] = run[q] /\ SameBooks(q)
    BY DEF RecordWiseTransfer, SameBooks, IInv, TypeOK
  <1>8. \A d \in Calls \ {c} : call[d].run = r => CallInv(d)'
    BY <1>4, <1>5, CallFrame DEF IInv
  <1> QED
    BY <1>1, <1>3, <1>5, <1>6, <1>7, <1>8, CallActionsKeep

\* The write after funding, and the answer it goes on with.
LEMMA RecordFundingKeeps ==
    ASSUME IInv, TypeOK', NEW c \in Calls, RecordWiseFunding(c)
    PROVE  IInv'
  <1>. PICK r \in Runs : r = call[c].run
    BY InFlightFacts DEF RecordWiseFunding, InPhase
  <1>1. /\ call[c] \in InFlight /\ r \in Runs
        /\ run[r].method = "wise_api" /\ ~Unclaimed(r)
        /\ call[c].phase = "funded" /\ wise[r].state # "none"
    BY InFlightFacts DEF RecordWiseFunding, InPhase, CallInv
  <1>2. /\ RunInv(r)' /\ SameForCalls(r)
        /\ \A q \in Runs \ {r} : run'[q] = run[q] /\ SameBooks(q)
    BY <1>1, StatusOfClaimedRun DEF RecordWiseFunding, Statuses, Reserving
  <1>3. /\ call'[c].phase = "answered" /\ call'[c].run = r
        /\ call'[c].answer = "processing"
        /\ \A d \in Calls \ {c} : call'[d] = call[d]
    BY <1>1 DEF RecordWiseFunding, IInv, TypeOK, InFlight
  <1>4. CallInv(c)'
    BY <1>1, <1>2, <1>3 DEF RecordWiseFunding, CallInv, SameForCalls,
         Unclaimed
  <1>5. \A d \in Calls \ {c} : call[d].run = r => CallInv(d)'
    BY <1>2, <1>3, CallFrame DEF IInv
  <1> QED
    BY <1>1, <1>2, <1>3, <1>4, <1>5, CallActionsKeep

\* The catch block keeps the run's amount reserved.
LEMMA FailKeeps ==
    ASSUME IInv, TypeOK', NEW c \in Calls, FailWiseExecution(c)
    PROVE  IInv'
  <1>. PICK r \in Runs : r = call[c].run
    BY InFlightFacts DEF FailWiseExecution, InPhase
  <1>1. /\ r \in Runs /\ run[r].method = "wise_api" /\ ~Unclaimed(r)
    BY InFlightFacts DEF FailWiseExecution
  <1>2. /\ RunInv(r)' /\ SameForCalls(r)
        /\ \A q \in Runs \ {r} : run'[q] = run[q] /\ SameBooks(q)
    BY <1>1, StatusOfClaimedRun DEF FailWiseExecution, Statuses, Reserving
  <1>3. /\ call'[c].phase = "idle"
        /\ \A d \in Calls \ {c} : call'[d] = call[d]
    BY DEF FailWiseExecution, IInv, TypeOK, Idle
  <1>4. CallInv(c)'
    BY <1>3 DEF CallInv
  <1>5. \A d \in Calls \ {c} : call[d].run = r => CallInv(d)'
    BY <1>2, <1>3, CallFrame DEF IInv
  <1> QED
    BY <1>1, <1>2, <1>3, <1>4, <1>5, CallActionsKeep

\* A transfer is created while its run has none: the claim was exclusive.
LEMMA CreateTransferKeeps ==
    ASSUME IInv, TypeOK', NEW c \in Calls, CreateWiseTransfer(c)
    PROVE  IInv'
  <1>. PICK r \in Runs : r = call[c].run
    BY InFlightFacts DEF CreateWiseTransfer, InPhase
  <1>1. /\ call[c] \in InFlight /\ run[r] \in Row
        /\ run[r].method = "wise_api" /\ ~Unclaimed(r) /\ RunInv(r)
        /\ call[c].phase = "claimed" /\ wise[r] = NoTransfer
        /\ call[c].to = run[r].approvedRecipient
    BY InFlightFacts DEF CreateWiseTransfer, InPhase, CallInv
  <1>2. /\ wise'[r].state = "incoming_payment_waiting"
        /\ wise'[r].funded = FALSE
        /\ wise'[r].transfers = 1
        /\ wise'[r].to = run[r].approvedRecipient
    BY <1>1 DEF CreateWiseTransfer, NoTransfer, IInv, TypeOK
  <1>3. ledger.paid[r] = 0 /\ ledger.returned[r] = 0
    <2>1. ledger.paid[r] \in Nat /\ ledger.returned[r] \in Nat
      BY DEF IInv, TypeOK, Ledger
    <2>2. wise[r].state \notin AfterSent
      BY <1>1 DEF NoTransfer, AfterSent
    <2> QED
      BY <1>1, <2>1, <2>2 DEF RunInv, WiseBooks
  <1>4. RunInv(r)'
    BY <1>1, <1>2, <1>3 DEF CreateWiseTransfer, RunInv, NothingMoved,
         ManualBooks, WiseBooks, TransferIsSound, PeopleDiffer, Unclaimed,
         NoTransfer, AfterSent
  <1>5. /\ call'[c].phase \in {"created", "failing"} /\ call'[c].run = r
        /\ \A d \in Calls \ {c} : call'[d] = call[d]
    BY <1>1 DEF CreateWiseTransfer, Step, IInv, TypeOK, InFlight
  <1>6. CallInv(c)'
    BY <1>1, <1>2, <1>5 DEF CreateWiseTransfer, CallInv, Unclaimed
  <1>7. \A q \in Runs \ {r} : run'[q] = run[q] /\ SameBooks(q)
    BY DEF CreateWiseTransfer, SameBooks, IInv, TypeOK
  <1>8. ASSUME NEW d \in Calls \ {c}, call[d].phase # "idle", call[d].run = r
        PROVE  CallInv(d)'
    <2>1. call[d].phase = "answered"
      BY <1>1, <1>8, OthersAreAnswers
    <2>2. CallInv(d) /\ wise[r].state # "none"
      BY <1>8, <2>1 DEF IInv, CallInv
    <2> QED
      BY <1>1, <2>2 DEF NoTransfer
  <1> QED
    BY <1>1, <1>4, <1>5, <1>6, <1>7, <1>8, CallActionsKeep

\* fundWiseTransfer: answers held by other requests stay true.
LEMMA FundTransferKeeps ==
    ASSUME IInv, TypeOK', NEW c \in Calls, FundWiseTransfer(c)
    PROVE  IInv'
  <1>. PICK r \in Runs : r = call[c].run
    BY InFlightFacts DEF FundWiseTransfer, InPhase
  <1>1. /\ call[c] \in InFlight /\ run[r] \in Row /\ wise[r] \in Transfer
        /\ run[r].method = "wise_api" /\ ~Unclaimed(r) /\ RunInv(r)
        /\ call[c].phase = "recorded"
        /\ wise[r].state = "incoming_payment_waiting"
    BY InFlightFacts DEF FundWiseTransfer, InPhase, IInv, TypeOK
  <1>2. /\ wise'[r].state = "processing" /\ wise'[r].funded = TRUE
        /\ wise'[r].transfers = wise[r].transfers
        /\ wise'[r].to = wise[r].to
    BY <1>1 DEF FundWiseTransfer, IInv, TypeOK, Transfer
  <1>3. ledger.paid[r] = 0 /\ ledger.returned[r] = 0
    <2>1. ledger.paid[r] \in Nat /\ ledger.returned[r] \in Nat
      BY DEF IInv, TypeOK, Ledger
    <2>2. wise[r].state \notin AfterSent
      BY <1>1 DEF AfterSent
    <2> QED
      BY <1>1, <2>1, <2>2 DEF RunInv, WiseBooks
  <1>4. RunInv(r)'
    BY <1>1, <1>2, <1>3 DEF FundWiseTransfer, RunInv, NothingMoved,
         ManualBooks, WiseBooks, TransferIsSound, PeopleDiffer, Unclaimed,
         NoTransfer, AfterSent
  <1>5. /\ call'[c].phase \in {"funded", "failing"} /\ call'[c].run = r
        /\ \A d \in Calls \ {c} : call'[d] = call[d]
    BY <1>1 DEF FundWiseTransfer, Step, IInv, TypeOK, InFlight
  <1>6. CallInv(c)'
    BY <1>1, <1>2, <1>5 DEF FundWiseTransfer, CallInv, Unclaimed
  <1>7. \A q \in Runs \ {r} : run'[q] = run[q] /\ SameBooks(q)
    BY DEF FundWiseTransfer, SameBooks, IInv, TypeOK
  <1>8. ASSUME NEW d \in Calls \ {c}, call[d].phase # "idle", call[d].run = r
        PROVE  CallInv(d)'
    <2>1. call[d].phase = "answered" /\ CallInv(d)
      BY <1>1, <1>8, OthersAreAnswers DEF IInv
    <2>2. call'[d] = call[d] /\ run' = run
      BY <1>5 DEF FundWiseTransfer
    <2> QED
      BY <1>1, <1>2, <1>8, <2>1, <2>2 DEF CallInv, Unclaimed, AfterSent
  <1> QED
    BY <1>1, <1>4, <1>5, <1>6, <1>7, <1>8, CallActionsKeep

\* The answer applied may be stale; it still says something of the transfer
\* that has stayed true.
LEMMA ApplyKeeps ==
    ASSUME IInv, TypeOK', NEW c \in Calls, ApplyWiseStatus(c)
    PROVE  IInv'
  <1>. PICK r \in Runs : r = call[c].run
    BY InFlightFacts DEF ApplyWiseStatus, InPhase
  <1>1. /\ call[c] \in InFlight /\ run[r] \in Row /\ ledger \in Ledger
        /\ run[r].method = "wise_api" /\ ~Unclaimed(r) /\ RunInv(r)
        /\ call[c].phase = "answered" /\ CallInv(c) /\ wise' = wise
    BY InFlightFacts DEF ApplyWiseStatus, InPhase, IInv, TypeOK
  <1>2. /\ call'[c].phase = "idle"
        /\ \A d \in Calls \ {c} : call'[d] = call[d]
    BY DEF ApplyWiseStatus, IInv, TypeOK, Idle
  <1>3. CallInv(c)'
    BY <1>2 DEF CallInv
  <1>4. SUFFICES /\ RunInv(r)' /\ SameForCalls(r)
                 /\ \A q \in Runs \ {r} : run'[q] = run[q] /\ SameBooks(q)
    <2>1. \A d \in Calls \ {c} : call[d].run = r => CallInv(d)'
      BY <1>2, <1>4, CallFrame DEF IInv
    <2> QED
      BY <1>2, <1>3, <1>4, <2>1, CallActionsKeep
  <1>5. ASSUME NEW status \in {"processing", "reconciliation_required"},
               run' = [run EXCEPT ![r].status = status], ledger' = ledger
        PROVE  /\ RunInv(r)' /\ SameForCalls(r)
               /\ \A q \in Runs \ {r} : run'[q] = run[q] /\ SameBooks(q)
    BY <1>1, <1>5, StatusOfClaimedRun DEF Statuses, Reserving
  <1>6. ASSUME NEW status \in {"executed", "returned"},
               run' = [run EXCEPT ![r].status = status], ledger' \in Ledger,
               ledger'.returned[r] <= ledger'.paid[r], ledger'.paid[r] <= 1,
               ledger'.paid[r] = 1 => wise[r].state \in AfterSent,
               ledger'.returned[r] = 1 => wise[r].state = "funds_refunded",
               status = "executed" => ledger'.paid[r] = 1,
               status = "returned" => wise[r].state = "funds_refunded",
               \A q \in Runs \ {r} : /\ ledger'.paid[q] = ledger.paid[q]
                                     /\ ledger'.returned[q] = ledger.returned[q]
        PROVE  /\ RunInv(r)' /\ SameForCalls(r)
               /\ \A q \in Runs \ {r} : run'[q] = run[q] /\ SameBooks(q)
    <2>1. /\ run'[r].status = status
          /\ run'[r].method = run[r].method
          /\ run'[r].createdBy = run[r].createdBy
          /\ run'[r].approvedBy = run[r].approvedBy
          /\ run'[r].processingBy = run[r].processingBy
          /\ run'[r].approvedRecipient = run[r].approvedRecipient
          /\ run'[r].wiseTransferId = run[r].wiseTransferId
      BY <1>1, <1>6 DEF IInv, TypeOK, Row
    <2>2. NothingMoved(r)' /\ ManualBooks(r)' /\ PeopleDiffer(r)'
      BY <1>1, <2>1 DEF RunInv, NothingMoved, ManualBooks, PeopleDiffer, Unclaimed
    <2>3. WiseBooks(r)'
      BY <1>1, <1>6, <2>1 DEF WiseBooks
    <2>4. TransferIsSound(r)'
      BY <1>1, <2>1 DEF RunInv, TransferIsSound
    <2>5. SameForCalls(r)
      BY <1>1, <2>1 DEF SameForCalls
    <2> QED
      BY <1>1, <1>6, <2>2, <2>3, <2>4, <2>5 DEF RunInv, SameBooks, IInv, TypeOK
  <1>7. CASE call[c].answer = "outgoing_payment_sent" /\ MarkCompleted(r)
    <2>1. wise[r].state \in AfterSent
      BY <1>1, <1>7 DEF CallInv
    <2>2. /\ ledger' \in Ledger /\ ledger'.paid[r] = 1
          /\ ledger'.returned[r] = ledger.returned[r]
          /\ \A q \in Runs \ {r} : /\ ledger'.paid[q] = ledger.paid[q]
                                   /\ ledger'.returned[q] = ledger.returned[q]
      BY <1>1, <1>7 DEF MarkCompleted, Ledger, RunInv, WiseBooks
    <2>3. /\ ledger.returned[r] <= ledger.paid[r] /\ ledger.paid[r] <= 1
          /\ ledger.returned[r] = 1 => wise[r].state = "funds_refunded"
      BY <1>1 DEF RunInv, WiseBooks
    <2>4. ledger.returned[r] <= 1
      BY <1>1, <2>3 DEF Ledger
    <2> QED
      BY <1>6, <1>7, <2>1, <2>2, <2>3, <2>4 DEF MarkCompleted
  <1>8. CASE call[c].answer = "funds_refunded" /\ MarkReturned(r)
    <2>1. wise[r].state = "funds_refunded"
      BY <1>1, <1>8 DEF CallInv
    <2>2. ledger.returned[r] <= ledger.paid[r] /\ ledger.paid[r] <= 1
      BY <1>1 DEF RunInv, WiseBooks
    <2>3. /\ ledger' \in Ledger /\ ledger'.paid[r] = ledger.paid[r]
          /\ ledger'.returned[r] <= ledger.paid[r]
          /\ \A q \in Runs \ {r} : /\ ledger'.paid[q] = ledger.paid[q]
                                   /\ ledger'.returned[q] = ledger.returned[q]
      BY <1>1, <1>8, <2>2 DEF MarkReturned, Ledger
    <2> QED
      BY <1>6, <1>8, <2>1, <2>2, <2>3 DEF MarkReturned, AfterSent
  <1> QED
    BY <1>5, <1>7, <1>8 DEF ApplyWiseStatus

\* The seller's other entries are not about any run.
LEMMA LedgerKeeps ==
    ASSUME IInv, TypeOK', NEW amount \in Amounts,
           CreditSale(amount) \/ ReverseSale(amount)
    PROVE  IInv'
  <1>1. ledger'.paid = ledger.paid /\ ledger'.returned = ledger.returned
    BY DEF CreditSale, ReverseSale, IInv, TypeOK, Ledger
  <1>2. UNCHANGED <<run, call, wise>>
    BY DEF CreditSale, ReverseSale
  <1>3. \A r \in Runs : RunInv(r)'
    BY <1>1, <1>2, RunFrame DEF IInv, SameBooks
  <1>4. \A c \in Calls : CallInv(c)'
    BY <1>2, CallFrame DEF IInv, SameForCalls, Unclaimed
  <1> QED
    BY <1>2, <1>3, <1>4, OneExecutionFrame DEF IInv

\* The seller's standing and recipient bear on no claimed run.
LEMMA SellerKeeps ==
    ASSUME IInv, TypeOK', UNCHANGED <<run, ledger, call, wise>>
    PROVE  IInv'
  <1>1. \A r \in Runs : RunInv(r)'
    BY RunFrame DEF IInv, SameBooks
  <1>2. \A c \in Calls : CallInv(c)'
    BY CallFrame DEF IInv, SameForCalls, Unclaimed
  <1> QED
    BY <1>1, <1>2, OneExecutionFrame DEF IInv

\* Wise moves a transfer on, but never back to before what it has answered.
LEMMA WiseStepKeeps ==
    ASSUME IInv, TypeOK', NEW r \in Runs, WiseStep(r)
    PROVE  IInv'
  <1>1. /\ wise[r] \in Transfer /\ run[r] \in Row /\ RunInv(r)
        /\ UNCHANGED <<run, ledger, call>>
    BY DEF WiseStep, IInv, TypeOK
  <1>2. /\ wise'[r].funded = wise[r].funded
        /\ wise'[r].transfers = wise[r].transfers
        /\ wise'[r].to = wise[r].to
        /\ wise[r].state \notin {"none", "funds_refunded"}
        /\ wise'[r].state \notin {"none", "incoming_payment_waiting", "processing"}
        /\ wise[r].state \in AfterSent => wise'[r].state \in AfterSent
        /\ wise'[r].state \in AfterSent => wise[r].funded
    BY <1>1 DEF WiseStep, IInv, TypeOK, Transfer, AfterSent, RunInv,
         TransferIsSound
  <1>3. RunInv(r)'
    <2>1. wise[r] # NoTransfer
      BY <1>2 DEF NoTransfer
    <2>2. NothingMoved(r)' /\ ManualBooks(r)' /\ PeopleDiffer(r)'
      BY <1>1, <2>1 DEF RunInv, NothingMoved, ManualBooks, PeopleDiffer, Unclaimed
    <2>3. WiseBooks(r)'
      BY <1>1, <1>2 DEF RunInv, WiseBooks
    <2>4. TransferIsSound(r)'
      BY <1>1, <1>2 DEF RunInv, TransferIsSound
    <2> QED
      BY <2>2, <2>3, <2>4 DEF RunInv
  <1>4. \A q \in Runs \ {r} : wise'[q] = wise[q]
    BY DEF WiseStep, IInv, TypeOK
  <1>5. \A q \in Runs : RunInv(q)'
    BY <1>1, <1>3, <1>4, RunFrame DEF IInv, SameBooks
  <1>6. ASSUME NEW c \in Calls PROVE CallInv(c)'
    <2>1. CASE call[c].phase = "idle"
      BY <1>1, <2>1 DEF CallInv
    <2>2. CASE call[c].phase # "idle" /\ call[c].run # r
      <3>1. call[c].run \in Runs \ {r}
        BY <2>2, InFlightFacts
      <3> QED
        BY <1>1, <1>4, <3>1, CallFrame DEF IInv, SameForCalls, Unclaimed
    <2>3. CASE call[c].phase # "idle" /\ call[c].run = r
      <3>1. wise[r] # NoTransfer
        BY <1>2 DEF NoTransfer
      <3>2. CallInv(c)
        BY DEF IInv
      <3> QED
        BY <1>1, <1>2, <2>3, <3>1, <3>2 DEF CallInv, Unclaimed
    <2> QED
      BY <2>1, <2>2, <2>3
  <1> QED
    BY <1>1, <1>5, <1>6, OneExecutionFrame DEF IInv

\* A stuttering step.
LEMMA StutterKeeps ==
    ASSUME IInv, TypeOK', UNCHANGED vars
    PROVE  IInv'
  BY SellerKeeps DEF vars

\* Every step of the specification keeps the inductive invariant.
LEMMA NextIInv == IInv /\ [Next]_vars => IInv'
  <1>. SUFFICES ASSUME IInv, [Next]_vars PROVE IInv'
    OBVIOUS
  <1>1. TypeOK'
    BY NextTypeOK DEF IInv
  <1>2. CASE Payouts
    BY <1>1, <1>2, CreateKeeps, ApproveKeeps, StartManualKeeps,
       CompleteManualKeeps, BeginExecuteKeeps, CreateTransferKeeps,
       RecordTransferKeeps, FundTransferKeeps, RecordFundingKeeps, FailKeeps,
       ApplyKeeps, CrashKeeps, BeginSyncKeeps DEF Payouts
  <1>3. CASE Environment
    BY <1>1, <1>3, LedgerKeeps, SellerKeeps, WiseStepKeeps
    DEF Environment, ReviewSeller, EditRecipient
  <1>4. CASE UNCHANGED vars
    BY <1>1, <1>4, StutterKeeps
  <1> QED
    BY <1>2, <1>3, <1>4 DEF Next

\* The strengthened invariant holds of every behaviour.
THEOREM Invariance == Spec => []IInv
  BY InitIInv, NextIInv, PTL DEF Spec

-----------------------------------------------------------------------------
(* The properties that follow.                                               *)

\* In a state of the inductive invariant, money that is out is booked.
LEMMA MoneyOutIsBooked ==
    ASSUME IInv, NEW r \in Runs, MoneyOut(r)
    PROVE  \/ run[r].status \in Reserving
           \/ ledger.paid[r] = 1 /\ ledger.returned[r] = 0
  <1>1. /\ run[r] \in Row /\ RunInv(r)
        /\ ledger.paid[r] \in Nat /\ ledger.returned[r] \in Nat
    BY DEF IInv, TypeOK, Ledger
  <1>2. CASE run[r].method = "manual_bank_transfer"
    BY <1>1, <1>2 DEF MoneyOut, RunInv, ManualBooks
  <1>3. CASE run[r].method = "wise_api"
    <2>1. wise[r].funded /\ wise[r].state # "funds_refunded"
      BY <1>3 DEF MoneyOut
    <2>2. run[r].status \in Reserving \cup {"executed"}
      <3>1. run[r].status # "none"
        BY <1>1, <2>1 DEF RunInv, NothingMoved, Unclaimed, NoTransfer
      <3> QED
        BY <1>1, <1>3, <2>1, <3>1 DEF RunInv, WiseBooks, Row, Statuses
    <2> QED
      BY <1>1, <1>3, <2>1, <2>2 DEF RunInv, WiseBooks
  <1> QED
    BY <1>1, <1>2, <1>3 DEF Row, Methods

\* Money that is out is reserved or debited, in every reachable state.
THEOREM OutgoingMoneyBooked == Spec => []OutgoingMoneyIsBooked
  <1>1. IInv => OutgoingMoneyIsBooked
    BY MoneyOutIsBooked DEF OutgoingMoneyIsBooked
  <1> QED
    BY <1>1, Invariance, PTL

\* Every debit and every credit back follows the money, once.
THEOREM DebitsAreFollowed == Spec => []DebitsFollowMoney
  <1>1. ASSUME IInv, NEW r \in Runs
        PROVE  /\ ledger.returned[r] <= ledger.paid[r] /\ ledger.paid[r] <= 1
               /\ ledger.paid[r] = 1 =>
                    \/ run[r].method = "manual_bank_transfer"
                          /\ run[r].status = "executed"
                    \/ /\ run[r].method = "wise_api" /\ wise[r].funded
                       /\ wise[r].state \in AfterSent
               /\ ledger.returned[r] = 1 => wise[r].state = "funds_refunded"
    <2>1. run[r] \in Row /\ RunInv(r)
      BY <1>1 DEF IInv, TypeOK
    <2>2. CASE run[r].method = "manual_bank_transfer"
      BY <2>1, <2>2 DEF RunInv, ManualBooks
    <2>3. CASE run[r].method = "wise_api"
      BY <2>1, <2>3 DEF RunInv, WiseBooks, TransferIsSound
    <2> QED
      BY <2>1, <2>2, <2>3 DEF Row, Methods
  <1>2. IInv => DebitsFollowMoney
    BY <1>1 DEF DebitsFollowMoney, AfterSent
  <1> QED
    BY <1>2, Invariance, PTL

\* No edit of the recipient redirects an approved run.
THEOREM RecipientIsApproved == Spec => []ApprovedRecipientIsPaid
  <1>1. IInv => ApprovedRecipientIsPaid
    BY DEF ApprovedRecipientIsPaid, IInv, RunInv, TransferIsSound
  <1> QED
    BY <1>1, Invariance, PTL

\* The creator of a run neither approved nor claimed it once money moves.
THEOREM TwoPeoplePay == Spec => []CreatorNeverPaysAlone
  <1>1. ASSUME IInv, NEW r \in Runs, MoneyOut(r) \/ wise[r].state # "none"
        PROVE  /\ None \notin {run[r].createdBy, run[r].approvedBy,
                               run[r].processingBy}
               /\ run[r].createdBy \notin {run[r].approvedBy, run[r].processingBy}
    <2>1. RunInv(r)
      BY <1>1 DEF IInv
    <2>2. ~Unclaimed(r)
      BY <1>1, <2>1 DEF MoneyOut, RunInv, NothingMoved, NoTransfer, Unclaimed
    <2> QED
      BY <2>1, <2>2 DEF RunInv, PeopleDiffer, Unclaimed
  <1>2. IInv => CreatorNeverPaysAlone
    BY <1>1 DEF CreatorNeverPaysAlone
  <1> QED
    BY <1>2, Invariance, PTL

\* However often a run is executed, polled or retried, one transfer exists.
THEOREM AtMostOneTransfer == Spec => []OneTransferPerRun
  <1>1. IInv => OneTransferPerRun
    BY DEF OneTransferPerRun, IInv, RunInv, TransferIsSound
  <1> QED
    BY <1>1, Invariance, PTL

-----------------------------------------------------------------------------
(* Payout runs keep the promise of PayoutPromise: the claim, the conversions *)
(* of statuses and the polling are stutters, one action each approves, pays  *)
(* out and gives back.                                                       *)

SameApproval(r) ==
    run'[r].status \in {"none", "draft"} <=> run[r].status \in {"none", "draft"}

\* The money of a run moves only with its transfer, or a manual completion.
LEMMA MoneyFrame ==
    ASSUME NEW r \in Runs, wise'[r] = wise[r],
           run'[r].method = run[r].method,
           run[r].method = "manual_bank_transfer" =>
             (run'[r].status = "executed" <=> run[r].status = "executed")
    PROVE  MoneyOf(r)' = MoneyOf(r)
  BY DEF MoneyOf, MoneyOut

\* What a step is to the promise when the money of one run may move.
LEMMA PromiseFrame ==
    ASSUME NEW r \in Runs, \A q \in Runs : SameApproval(q),
           \A q \in Runs \ {r} : MoneyOf(q)' = MoneyOf(q)
    PROVE  /\ Approved' = Approved
           /\ Money' = [Money EXCEPT ![r] = MoneyOf(r)']
  <1>1. Approved' = Approved
    BY DEF Approved, SameApproval
  <1>2. Money' = [Money EXCEPT ![r] = MoneyOf(r)']
    BY DEF Money
  <1> QED
    BY <1>1, <1>2

\* A step that moves no run's approval or money is a stutter.
LEMMA PromiseStutters ==
    ASSUME \A q \in Runs : SameApproval(q) /\ MoneyOf(q)' = MoneyOf(q)
    PROVE  UNCHANGED <<Approved, Money>>
  BY DEF Approved, SameApproval, Money

\* At first nothing is approved and all money is held.
LEMMA InitPromise == Init => Promise!Init
  <1>. SUFFICES ASSUME Init PROVE Promise!Init
    OBVIOUS
  <1>1. ASSUME NEW r \in Runs
        PROVE  run[r].status \in {"none", "draft"} /\ MoneyOf(r) = "held"
    <2>1. /\ run[r].status \in {"none", "draft"}
          /\ run[r].method = "manual_bank_transfer"
      <3>1. CASE run[r] = NoRow
        BY <3>1 DEF NoRow
      <3>2. ASSUME NEW a \in Amounts,
                   run[r] = Draft(None, a, "manual_bank_transfer")
            PROVE  /\ run[r].status \in {"none", "draft"}
                   /\ run[r].method = "manual_bank_transfer"
        BY <3>2 DEF Draft, NoRow
      <3> QED
        BY <3>1, <3>2 DEF Init
    <2>2. wise[r].state = "none"
      BY DEF Init, NoTransfer
    <2> QED
      BY <2>1, <2>2 DEF MoneyOf, MoneyOut
  <1> QED
    BY <1>1 DEF Promise!Init, Approved, Money

\* The approval of a draft approves its run.
LEMMA ApprovePromise ==
    ASSUME IInv, NEW r \in Runs, NEW op \in Operators, ApprovePayoutRun(r, op)
    PROVE  Promise!Approve(r)
  <1>1. run[r] \in Row /\ run[r].status = "draft"
    BY DEF ApprovePayoutRun, IInv, TypeOK
  <1>2. /\ run'[r].status = "approved" /\ run'[r].method = run[r].method
        /\ \A q \in Runs \ {r} : run'[q] = run[q]
        /\ wise' = wise
    BY <1>1 DEF ApprovePayoutRun, IInv, TypeOK, Row
  <1>3. \A q \in Runs : MoneyOf(q)' = MoneyOf(q)
    BY <1>1, <1>2, MoneyFrame
  <1> QED
    BY <1>1, <1>2, <1>3 DEF Promise!Approve, Approved, Money

\* Claims and drafts are not visible.
LEMMA CreatePromise ==
    ASSUME IInv, NEW r \in Runs, NEW op \in Operators, NEW amount \in Amounts,
           NEW method \in Methods, CreatePayoutRun(r, op, amount, method)
    PROVE  UNCHANGED <<Approved, Money>>
  <1>1. /\ run[r].status = "none" /\ NothingMoved(r) /\ wise' = wise
        /\ run' = [run EXCEPT ![r] = Draft(op, amount, method)]
    BY DEF CreatePayoutRun, IInv, RunInv
  <1>2. run'[r].status = "draft" /\ \A q \in Runs \ {r} : run'[q] = run[q]
    BY <1>1 DEF Draft, NoRow, IInv, TypeOK
  <1>3. MoneyOf(r)' = MoneyOf(r)
    BY <1>1, <1>2 DEF MoneyOf, MoneyOut, NothingMoved, Unclaimed, NoTransfer
  <1> QED
    BY <1>1, <1>2, <1>3, MoneyFrame, PromiseStutters DEF SameApproval

\* A claim, for either transfer method, is not visible.
LEMMA ClaimPromise ==
    ASSUME IInv, NEW r \in Runs, NEW op \in Operators, NEW method \in Methods,
           MayClaim(r, op, method), Claim(r, op), wise' = wise
    PROVE  UNCHANGED <<Approved, Money>>
  <1>1. run[r] \in Row /\ run[r].status = "approved"
    BY DEF MayClaim, IInv, TypeOK
  <1>2. /\ run'[r].status = "processing" /\ run'[r].method = run[r].method
        /\ \A q \in Runs \ {r} : run'[q] = run[q]
    BY <1>1 DEF Claim, IInv, TypeOK, Row
  <1>3. \A q \in Runs : SameApproval(q) /\ MoneyOf(q)' = MoneyOf(q)
    BY <1>1, <1>2, MoneyFrame DEF SameApproval
  <1> QED
    BY <1>3, PromiseStutters

\* Neither is what a request stores of a claimed Wise run.
LEMMA StatusPromise ==
    ASSUME IInv, NEW c \in Calls, call[c].phase # "idle", wise' = wise,
           \A q \in Runs \ {call[c].run} : run'[q] = run[q],
           run'[call[c].run].method = run[call[c].run].method,
           run'[call[c].run].status \notin {"none", "draft"}
    PROVE  UNCHANGED <<Approved, Money>>
  <1>. PICK r \in Runs : r = call[c].run
    BY InFlightFacts
  <1>1. run[r].method = "wise_api" /\ ~Unclaimed(r)
    BY InFlightFacts
  <1>2. \A q \in Runs : SameApproval(q) /\ MoneyOf(q)' = MoneyOf(q)
    BY <1>1, MoneyFrame DEF SameApproval, Unclaimed
  <1> QED
    BY <1>2, PromiseStutters

\* The writes of a request in flight are not visible.
LEMMA WritesPromise ==
    ASSUME IInv, NEW c \in Calls,
           \/ RecordWiseTransfer(c) \/ RecordWiseFunding(c)
           \/ FailWiseExecution(c) \/ ApplyWiseStatus(c)
    PROVE  UNCHANGED <<Approved, Money>>
  <1>1. call[c].phase # "idle" /\ wise' = wise
    BY DEF RecordWiseTransfer, RecordWiseFunding, FailWiseExecution,
           ApplyWiseStatus, InPhase
  <1>. PICK r \in Runs : r = call[c].run
    BY <1>1, InFlightFacts
  <1>2. run[r] \in Row /\ run \in [Runs -> Row]
    BY DEF IInv, TypeOK
  <1>3. /\ \A q \in Runs \ {r} : run'[q] = run[q]
        /\ run'[r].method = run[r].method
        /\ run'[r].status \notin {"none", "draft"}
    <2>1. \/ \E status \in {"processing", "reconciliation_required", "executed",
                            "returned"} :
               run' = [run EXCEPT ![r].status = status]
          \/ run' = [run EXCEPT ![r] = [@ EXCEPT !.status = "processing",
                                                 !.wiseTransferId = TRUE]]
      BY DEF RecordWiseTransfer, RecordWiseFunding, FailWiseExecution,
             ApplyWiseStatus, MarkCompleted, MarkReturned
    <2>2. \A q \in Runs \ {r} : run'[q] = run[q]
      BY <1>2, <2>1
    <2>3. ASSUME NEW status \in {"processing", "reconciliation_required",
                                 "executed", "returned"},
                 run' = [run EXCEPT ![r].status = status]
          PROVE  /\ run'[r].method = run[r].method
                 /\ run'[r].status \notin {"none", "draft"}
      <3>1. run'[r] = [run[r] EXCEPT !.status = status]
        BY <1>2, <2>3
      <3> QED
        BY <1>2, <3>1 DEF Row
    <2>4. ASSUME run' = [run EXCEPT ![r] = [@ EXCEPT !.status = "processing",
                                                     !.wiseTransferId = TRUE]]
          PROVE  /\ run'[r].method = run[r].method
                 /\ run'[r].status \notin {"none", "draft"}
      BY <1>2, <2>4 DEF Row
    <2> QED
      BY <2>1, <2>2, <2>3, <2>4
  <1> QED
    BY <1>1, <1>3, StatusPromise

\* The completion of a manual transfer pays out.
LEMMA CompletePromise ==
    ASSUME IInv, NEW r \in Runs, NEW op \in Operators, NEW id \in TransferIds,
           CompleteManualTransfer(r, op, id)
    PROVE  Promise!PayOut(r)
  <1>1. /\ run[r] \in Row /\ run[r].status = "processing" /\ wise' = wise
        /\ run[r].method = "manual_bank_transfer" /\ RunInv(r)
    BY DEF CompleteManualTransfer, IInv, TypeOK
  <1>2. /\ run'[r].status = "executed"
        /\ run'[r].method = "manual_bank_transfer"
        /\ \A q \in Runs \ {r} : run'[q] = run[q]
    BY <1>1 DEF CompleteManualTransfer, IInv, TypeOK, Row
  <1>3. MoneyOf(r) = "held" /\ MoneyOf(r)' = "out"
    BY <1>1, <1>2 DEF MoneyOf, MoneyOut, RunInv, ManualBooks, NoTransfer
  <1>4. Approved' = Approved /\ Money' = [Money EXCEPT ![r] = "out"]
    BY <1>1, <1>2, <1>3, MoneyFrame, PromiseFrame DEF SameApproval
  <1> QED
    BY <1>1, <1>3, <1>4 DEF Promise!PayOut, Approved, Money

\* A transfer created is not yet money; funding it pays out.
LEMMA CreateTransferPromise ==
    ASSUME IInv, NEW c \in Calls, CreateWiseTransfer(c)
    PROVE  UNCHANGED <<Approved, Money>>
  <1>. PICK r \in Runs : r = call[c].run
    BY InFlightFacts DEF CreateWiseTransfer, InPhase
  <1>1. run[r].method = "wise_api" /\ wise[r] = NoTransfer /\ run' = run
    BY InFlightFacts DEF CreateWiseTransfer, InPhase, CallInv
  <1>2. /\ wise'[r].state = "incoming_payment_waiting"
        /\ wise'[r].funded = FALSE
        /\ \A q \in Runs \ {r} : wise'[q] = wise[q]
    BY <1>1 DEF CreateWiseTransfer, NoTransfer, IInv, TypeOK
  <1>3. MoneyOf(r)' = MoneyOf(r)
    BY <1>1, <1>2 DEF MoneyOf, MoneyOut, NoTransfer
  <1> QED
    BY <1>1, <1>2, <1>3, MoneyFrame, PromiseStutters DEF SameApproval

\* Funding the transfer pays out.
LEMMA FundPromise ==
    ASSUME IInv, NEW c \in Calls, FundWiseTransfer(c)
    PROVE  Promise!PayOut(call[c].run)
  <1>. PICK r \in Runs : r = call[c].run
    BY InFlightFacts DEF FundWiseTransfer, InPhase
  <1>1. /\ run[r].method = "wise_api" /\ ~Unclaimed(r) /\ RunInv(r)
        /\ wise[r].state = "incoming_payment_waiting"
        /\ wise[r] \in Transfer /\ run' = run
    BY InFlightFacts DEF FundWiseTransfer, InPhase, IInv, TypeOK
  <1>2. /\ wise'[r].state = "processing" /\ wise'[r].funded = TRUE
        /\ \A q \in Runs \ {r} : wise'[q] = wise[q]
    BY <1>1 DEF FundWiseTransfer, IInv, TypeOK, Transfer
  <1>3. MoneyOf(r) = "held" /\ MoneyOf(r)' = "out"
    BY <1>1, <1>2 DEF MoneyOf, MoneyOut, RunInv, TransferIsSound
  <1>4. Approved' = Approved /\ Money' = [Money EXCEPT ![r] = "out"]
    BY <1>1, <1>2, <1>3, MoneyFrame, PromiseFrame DEF SameApproval
  <1> QED
    BY <1>1, <1>3, <1>4 DEF Promise!PayOut, Approved, Money, Unclaimed

\* Wise gives back only what was sent.
LEMMA WiseStepPromise ==
    ASSUME IInv, NEW r \in Runs, WiseStep(r)
    PROVE  Promise!GiveBack(r) \/ UNCHANGED <<Approved, Money>>
  <1>1. /\ run[r] \in Row /\ RunInv(r) /\ run' = run /\ wise[r] \in Transfer
        /\ \A q \in Runs \ {r} : wise'[q] = wise[q]
        /\ wise'[r].funded = wise[r].funded
        /\ wise[r].state \notin {"none", "funds_refunded"}
        /\ wise'[r].state = "funds_refunded" =>
             wise[r].state = "bounced_back" \/ wise[r].funded
    BY DEF WiseStep, IInv, TypeOK, Transfer
  <1>2. run[r].method = "wise_api"
    BY <1>1 DEF RunInv, ManualBooks, NoTransfer, Row, Methods
  <1>3. \A q \in Runs : SameApproval(q)
    BY <1>1 DEF SameApproval
  <1>4. CASE wise'[r].state = "funds_refunded"
    <2>1. wise[r].funded
      BY <1>1, <1>4 DEF RunInv, TransferIsSound, AfterSent
    <2>2. MoneyOf(r) = "out" /\ MoneyOf(r)' = "back"
      BY <1>1, <1>2, <1>4, <2>1 DEF MoneyOf, MoneyOut
    <2>3. Approved' = Approved /\ Money' = [Money EXCEPT ![r] = "back"]
      BY <1>1, <1>3, <2>2, MoneyFrame, PromiseFrame
    <2> QED
      BY <2>2, <2>3 DEF Promise!GiveBack, Money
  <1>5. CASE wise'[r].state # "funds_refunded"
    <2>1. MoneyOf(r)' = MoneyOf(r)
      BY <1>1, <1>2, <1>5 DEF MoneyOf, MoneyOut
    <2> QED
      BY <1>1, <1>3, <2>1, MoneyFrame, PromiseStutters
  <1> QED
    BY <1>4, <1>5

\* What leaves rows and transfers alone is not visible.
LEMMA FramePromise ==
    ASSUME UNCHANGED <<run, wise>>
    PROVE  UNCHANGED <<Approved, Money>>
  BY DEF Approved, Money, MoneyOf, MoneyOut

\* Every step is a step of the promise or a stutter.
LEMMA NextPromise ==
    IInv /\ [Next]_vars => [Promise!Next]_<<Approved, Money>>
  <1>. SUFFICES ASSUME IInv, [Next]_vars
                PROVE  Promise!Next \/ UNCHANGED <<Approved, Money>>
    OBVIOUS
  <1>1. ASSUME NEW r \in Runs, NEW op \in Operators,
               \/ \E amount \in Amounts, method \in Methods :
                    CreatePayoutRun(r, op, amount, method)
               \/ StartManualTransfer(r, op)
               \/ \E c \in Calls : BeginExecuteWise(c, r, op)
        PROVE  UNCHANGED <<Approved, Money>>
    BY <1>1, CreatePromise, ClaimPromise
    DEF StartManualTransfer, BeginExecuteWise, Methods
  <1>2. ASSUME NEW r \in Runs, NEW op \in Operators,
               \/ ApprovePayoutRun(r, op)
               \/ \E id \in TransferIds : CompleteManualTransfer(r, op, id)
        PROVE  Promise!Next
    BY <1>2, ApprovePromise, CompletePromise DEF Promise!Next
  <1>3. ASSUME NEW c \in Calls, FundWiseTransfer(c)
        PROVE  Promise!Next
    <2>1. call[c].run \in Runs
      BY <1>3, InFlightFacts DEF FundWiseTransfer, InPhase
    <2> QED
      BY <1>3, <2>1, FundPromise DEF Promise!Next
  <1>4. ASSUME NEW c \in Calls, Crash(c) \/ \E r \in Runs : BeginSyncWise(c, r)
        PROVE  UNCHANGED <<Approved, Money>>
    BY <1>4, FramePromise DEF Crash, BeginSyncWise
  <1>5. CASE Payouts
    BY <1>1, <1>2, <1>3, <1>4, <1>5, CreateTransferPromise, WritesPromise
    DEF Payouts
  <1>6. CASE Environment
    <2>1. ASSUME NEW r \in Runs, WiseStep(r)
          PROVE  Promise!Next \/ UNCHANGED <<Approved, Money>>
      BY <2>1, WiseStepPromise DEF Promise!Next
    <2>2. CASE UNCHANGED <<run, wise>>
      BY <2>2, FramePromise
    <2> QED
      BY <1>6, <2>1, <2>2
      DEF Environment, CreditSale, ReverseSale, ReviewSeller, EditRecipient
  <1>7. CASE UNCHANGED vars
    BY <1>7, FramePromise DEF vars
  <1> QED
    BY <1>5, <1>6, <1>7 DEF Next

\* Payout runs implement their promise: every run's money leaves at most once,
\* after an approval, and comes back at most once.
THEOREM PromiseKept == Spec => KeepsPromise
  <1>1. Init => Promise!Init
    BY InitPromise
  <1>2. IInv /\ [Next]_vars => [Promise!Next]_<<Approved, Money>>
    BY NextPromise
  <1> QED
    BY <1>1, <1>2, Invariance, PTL DEF Spec, KeepsPromise, Promise!Spec

-----------------------------------------------------------------------------
(* Sums over finite sets of integers.                                         *)

\* The sum over S of the values of g.
Total(g, S) == MapThenSumSet(LAMBDA x : g[x], S)

\* The equation MapThenSumSet solves: the sums over all subsets of S, by
\* taking one element out of each.
IsSum(iter, g, S) ==
    iter = [s \in SUBSET S |-> IF s = {} THEN 0
              ELSE g[CHOOSE x \in s : TRUE] + iter[s \ {CHOOSE x \in s : TRUE}]]

Sums(g, S) == CHOOSE iter : IsSum(iter, g, S)

\* Induction over the subsets of a finite set: of the bad ones, one is minimal.
LEMMA MinimalSubset ==
    ASSUME NEW S, IsFiniteSet(S), NEW Bad \in SUBSET (SUBSET S), Bad # {}
    PROVE  \E T \in Bad : IsFiniteSet(T) /\ \A U \in SUBSET T : U # T => U \notin Bad
  <1>1. IsWellFoundedOn(StrictSubsetOrdering(S), SUBSET S)
    BY FS_StrictSubsetOrderingWellFounded, FS_FiniteSubsetsOfFinite
  <1>2. PICK T \in Bad : \A U \in Bad : <<U, T>> \notin StrictSubsetOrdering(S)
    BY <1>1, WFMin
  <1>3. IsFiniteSet(T)
    BY FS_Subset
  <1>4. ASSUME NEW U \in SUBSET T, U # T, U \in Bad PROVE FALSE
    BY <1>2, <1>4 DEF StrictSubsetOrdering
  <1> QED
    BY <1>3, <1>4

\* A sum depends on the set and on the values there alone.
LEMMA SumsAgree ==
    ASSUME NEW S, IsFiniteSet(S), NEW A, NEW B, S \subseteq A, S \subseteq B,
           NEW f, NEW h, NEW u, NEW v, IsSum(u, f, A), IsSum(v, h, B),
           \A x \in S : f[x] = h[x]
    PROVE  u[S] = v[S]
  <1> DEFINE Bad == {T \in SUBSET S : u[T] # v[T]}
  <1>1. SUFFICES ASSUME Bad # {} PROVE FALSE
    OBVIOUS
  <1>2. PICK T \in Bad : \A U \in SUBSET T : U # T => U \notin Bad
    <2>1. Bad \in SUBSET (SUBSET S)
      OBVIOUS
    <2> HIDE DEF Bad
    <2> QED
      BY <1>1, <2>1, MinimalSubset
  <1> DEFINE c == CHOOSE x \in T : TRUE
  <1>3. T # {}
    BY DEF IsSum
  <1>4. c \in T /\ T \ {c} # T /\ T \ {c} \in SUBSET T
    BY <1>3
  <1>5. u[T \ {c}] = v[T \ {c}]
    BY <1>2, <1>4
  <1>6. T \in SUBSET A /\ T \in SUBSET B
    OBVIOUS
  <1>7. u[T] = f[c] + u[T \ {c}]
    BY <1>3, <1>6 DEF IsSum
  <1>8. v[T] = h[c] + v[T \ {c}]
    BY <1>3, <1>6 DEF IsSum
  <1> QED
    BY <1>4, <1>5, <1>7, <1>8

\* MapThenSumSet has a solution over a finite set.
LEMMA SumsExist ==
    ASSUME NEW S, IsFiniteSet(S), NEW g
    PROVE  IsSum(Sums(g, S), g, S)
  <1> DEFINE Bad == {T \in SUBSET S : ~IsSum(Sums(g, T), g, T)}
  <1>1. SUFFICES ASSUME Bad # {} PROVE FALSE
    OBVIOUS
  <1>2. PICK T \in Bad : IsFiniteSet(T) /\ \A U \in SUBSET T : U # T => U \notin Bad
    <2>1. Bad \in SUBSET (SUBSET S)
      OBVIOUS
    <2> HIDE DEF Bad
    <2> QED
      BY <1>1, <2>1, MinimalSubset
  <1> DEFINE c(s) == CHOOSE x \in s : TRUE
             part == [s \in SUBSET T |-> Sums(g, s)[s]]
             iter == [s \in SUBSET T |-> IF s = {} THEN 0 ELSE g[c(s)] + part[s \ {c(s)}]]
  <1>3. \A U \in SUBSET T : U # T => IsSum(Sums(g, U), g, U)
    BY <1>2
  <1>4. ASSUME NEW s \in SUBSET T, s # T, NEW r \in SUBSET s
        PROVE  Sums(g, s)[r] = part[r]
    <2>1. r # T /\ r \in SUBSET T /\ IsFiniteSet(r)
      BY <1>2, <1>4, FS_Subset
    <2>2. IsSum(Sums(g, s), g, s) /\ IsSum(Sums(g, r), g, r)
      BY <1>3, <1>4, <2>1
    <2> HIDE DEF IsSum, Sums
    <2> QED
      BY <2>1, <2>2, SumsAgree
  <1>5. ASSUME NEW s \in SUBSET T, s # T PROVE part[s] = iter[s]
    <2> DEFINE w == Sums(g, s)
    <2>1. IsSum(w, g, s)
      BY <1>3, <1>5
    <2> HIDE DEF w
    <2>2. w[s] = IF s = {} THEN 0 ELSE g[c(s)] + w[s \ {c(s)}]
      BY <2>1 DEF IsSum
    <2>3. w[s] = part[s] /\ w[s \ {c(s)}] = part[s \ {c(s)}]
      BY <1>4, <1>5 DEF w
    <2> QED
      BY <2>2, <2>3
  <1>6. iter = [s \in SUBSET T |-> IF s = {} THEN 0 ELSE g[c(s)] + iter[s \ {c(s)}]]
    <2>1. ASSUME NEW s \in SUBSET T, s # {} PROVE part[s \ {c(s)}] = iter[s \ {c(s)}]
      <3>1. c(s) \in s
        BY <2>1
      <3>2. s \ {c(s)} \in SUBSET T /\ s \ {c(s)} # T
        BY <3>1
      <3> QED
        BY <1>5, <3>2
    <2>2. iter = [s \in SUBSET T |-> IF s = {} THEN 0 ELSE g[c(s)] + part[s \ {c(s)}]]
      OBVIOUS
    <2> HIDE DEF part, iter, c
    <2> QED
      BY <2>1, <2>2
  <1>7. IsSum(iter, g, T)
    BY <1>6 DEF IsSum
  <1>8. IsSum(Sums(g, T), g, T)
    <2> HIDE DEF iter
    <2> QED BY <1>7 DEF Sums
  <1> QED
    BY <1>8

LEMMA TotalIsSums == ASSUME NEW g, NEW S PROVE Total(g, S) = Sums(g, S)[S]
  BY DEF Total, Sums, IsSum, MapThenSumSet, MapThenFoldSet

LEMMA TotalEmpty == ASSUME NEW g PROVE Total(g, {}) = 0
  <1>1. IsSum(Sums(g, {}), g, {})
    BY SumsExist, FS_EmptySet
  <1> QED
    BY <1>1, TotalIsSums DEF IsSum

LEMMA TotalAgrees ==
    ASSUME NEW S, IsFiniteSet(S), NEW f, NEW h, \A x \in S : f[x] = h[x]
    PROVE  Total(f, S) = Total(h, S)
  BY SumsExist, SumsAgree, TotalIsSums

LEMMA TotalStep ==
    ASSUME NEW S, IsFiniteSet(S), S # {}, NEW g
    PROVE  \E x \in S : Total(g, S) = g[x] + Total(g, S \ {x})
  <1> DEFINE c == CHOOSE x \in S : TRUE
  <1>1. c \in S
    OBVIOUS
  <1>2. IsFiniteSet(S \ {c})
    BY FS_Subset
  <1>3. IsSum(Sums(g, S), g, S) /\ IsSum(Sums(g, S \ {c}), g, S \ {c})
    BY <1>2, SumsExist
  <1>4. Sums(g, S)[S] = g[c] + Sums(g, S)[S \ {c}]
    BY <1>3 DEF IsSum
  <1>5. Sums(g, S)[S \ {c}] = Sums(g, S \ {c})[S \ {c}]
    BY <1>2, <1>3, SumsAgree
  <1> QED
    BY <1>1, <1>4, <1>5, TotalIsSums

LEMMA TotalIsInt ==
    ASSUME NEW S, IsFiniteSet(S), NEW g, \A x \in S : g[x] \in Int
    PROVE  Total(g, S) \in Int
  <1> DEFINE Bad == {T \in SUBSET S : Total(g, T) \notin Int}
  <1>1. SUFFICES ASSUME Bad # {} PROVE FALSE
    OBVIOUS
  <1>2. PICK T \in Bad : IsFiniteSet(T) /\ \A U \in SUBSET T : U # T => U \notin Bad
    <2>1. Bad \in SUBSET (SUBSET S)
      OBVIOUS
    <2> HIDE DEF Bad
    <2> QED
      BY <1>1, <2>1, MinimalSubset
  <1>3. T # {}
    BY TotalEmpty
  <1>4. PICK x \in T : Total(g, T) = g[x] + Total(g, T \ {x})
    BY <1>2, <1>3, TotalStep
  <1>5. Total(g, T \ {x}) \in Int
    BY <1>2
  <1> QED
    BY <1>4, <1>5

\* Any element can be taken out of a sum.
LEMMA TotalWithout ==
    ASSUME NEW S, IsFiniteSet(S), NEW g, \A x \in S : g[x] \in Int, NEW a \in S
    PROVE  Total(g, S) = g[a] + Total(g, S \ {a})
  <1> DEFINE Bad == {T \in SUBSET S : \E y \in T : Total(g, T) # g[y] + Total(g, T \ {y})}
  <1>1. SUFFICES ASSUME Bad # {} PROVE FALSE
    OBVIOUS
  <1>2. PICK T \in Bad : IsFiniteSet(T) /\ \A U \in SUBSET T : U # T => U \notin Bad
    <2>1. Bad \in SUBSET (SUBSET S)
      OBVIOUS
    <2> HIDE DEF Bad
    <2> QED
      BY <1>1, <2>1, MinimalSubset
  <1>3. PICK y \in T : Total(g, T) # g[y] + Total(g, T \ {y})
    OBVIOUS
  <1>4. PICK x \in T : Total(g, T) = g[x] + Total(g, T \ {x})
    BY <1>2, TotalStep
  <1>5. x # y
    BY <1>3, <1>4
  <1>6. Total(g, T \ {x}) = g[y] + Total(g, (T \ {x}) \ {y})
    BY <1>2, <1>5
  <1>7. (T \ {x}) \ {y} = (T \ {y}) \ {x}
    OBVIOUS
  <1>8. Total(g, T \ {y}) = g[x] + Total(g, (T \ {x}) \ {y})
    <2>1. Total(g, T \ {y}) = g[x] + Total(g, (T \ {y}) \ {x})
      BY <1>2, <1>5
    <2> QED
      BY <1>7, <2>1, Zenon
  <1>9. Total(g, (T \ {x}) \ {y}) \in Int
    BY <1>2, FS_Subset, TotalIsInt
  <1>10. g[x] \in Int /\ g[y] \in Int
    OBVIOUS
  <1> HIDE DEF Bad
  <1> QED
    BY <1>3, <1>4, <1>6, <1>8, <1>9, <1>10

\* Smaller values, smaller sum.
LEMMA TotalMonotonic ==
    ASSUME NEW S, IsFiniteSet(S), NEW f, NEW h,
           \A x \in S : f[x] \in Int /\ h[x] \in Int /\ f[x] <= h[x]
    PROVE  Total(f, S) <= Total(h, S)
  <1> DEFINE Bad == {T \in SUBSET S : ~(Total(f, T) <= Total(h, T))}
  <1>1. SUFFICES ASSUME Bad # {} PROVE FALSE
    OBVIOUS
  <1>2. PICK T \in Bad : IsFiniteSet(T) /\ \A U \in SUBSET T : U # T => U \notin Bad
    <2>1. Bad \in SUBSET (SUBSET S)
      OBVIOUS
    <2> HIDE DEF Bad
    <2> QED
      BY <1>1, <2>1, MinimalSubset
  <1>3. PICK x \in T : TRUE
    BY TotalEmpty
  <1>4. Total(f, T) = f[x] + Total(f, T \ {x}) /\ Total(h, T) = h[x] + Total(h, T \ {x})
    BY <1>2, TotalWithout
  <1>5. Total(f, T \ {x}) <= Total(h, T \ {x})
    BY <1>2
  <1>6. Total(f, T \ {x}) \in Int /\ Total(h, T \ {x}) \in Int
    BY <1>2, FS_Subset, TotalIsInt
  <1> QED
    BY <1>4, <1>5, <1>6

\* Sums add up.
LEMMA TotalPlus ==
    ASSUME NEW S, IsFiniteSet(S), NEW f, NEW h, NEW g,
           \A x \in S : f[x] \in Int /\ h[x] \in Int /\ g[x] = f[x] + h[x]
    PROVE  Total(g, S) = Total(f, S) + Total(h, S)
  <1> DEFINE Bad == {T \in SUBSET S : Total(g, T) # Total(f, T) + Total(h, T)}
  <1>1. SUFFICES ASSUME Bad # {} PROVE FALSE
    OBVIOUS
  <1>2. PICK T \in Bad : IsFiniteSet(T) /\ \A U \in SUBSET T : U # T => U \notin Bad
    <2>1. Bad \in SUBSET (SUBSET S)
      OBVIOUS
    <2> HIDE DEF Bad
    <2> QED
      BY <1>1, <2>1, MinimalSubset
  <1>3. PICK x \in T : TRUE
    <2>1. Total(f, {}) = 0 /\ Total(h, {}) = 0 /\ Total(g, {}) = 0
      BY TotalEmpty
    <2>2. Total(g, T) # Total(f, T) + Total(h, T)
      OBVIOUS
    <2> QED
      BY <2>1, <2>2
  <1>4. /\ Total(f, T) = f[x] + Total(f, T \ {x})
        /\ Total(h, T) = h[x] + Total(h, T \ {x})
        /\ Total(g, T) = g[x] + Total(g, T \ {x})
    BY <1>2, TotalWithout
  <1>5. Total(g, T \ {x}) = Total(f, T \ {x}) + Total(h, T \ {x})
    BY <1>2
  <1>6. Total(f, T \ {x}) \in Int /\ Total(h, T \ {x}) \in Int
    BY <1>2, FS_Subset, TotalIsInt
  <1> QED
    BY <1>4, <1>5, <1>6

\* Elements that count nothing can be left out.
LEMMA TotalOfPart ==
    ASSUME NEW S, IsFiniteSet(S), NEW R \in SUBSET S, NEW f,
           \A x \in S : f[x] \in Int, \A x \in S \ R : f[x] = 0
    PROVE  Total(f, S) = Total(f, R)
  <1> DEFINE Bad == {T \in SUBSET S : Total(f, T) # Total(f, T \cap R)}
  <1>1. SUFFICES ASSUME Bad # {} PROVE FALSE
    <2>1. S \cap R = R
      OBVIOUS
    <2> QED
      BY <2>1
  <1>2. PICK T \in Bad : IsFiniteSet(T) /\ \A U \in SUBSET T : U # T => U \notin Bad
    <2>1. Bad \in SUBSET (SUBSET S)
      OBVIOUS
    <2> HIDE DEF Bad
    <2> QED
      BY <1>1, <2>1, MinimalSubset
  <1>3. PICK x \in T : x \notin R
    <2>1. CASE T \subseteq R
      BY <2>1, T \cap R = T
    <2> QED
      BY <2>1
  <1>4. Total(f, T) = f[x] + Total(f, T \ {x})
    BY <1>2, TotalWithout
  <1>5. Total(f, T \ {x}) = Total(f, (T \ {x}) \cap R)
    BY <1>2
  <1>6. Total(f, (T \ {x}) \cap R) = Total(f, T \cap R)
    <2>1. (T \ {x}) \cap R = T \cap R
      BY <1>3
    <2> QED
      BY <2>1, Zenon
  <1>7. Total(f, T \ {x}) \in Int /\ f[x] = 0
    BY <1>2, <1>3, FS_Subset, TotalIsInt
  <1>8. Total(f, T) # Total(f, T \cap R)
    OBVIOUS
  <1> QED
    BY <1>4, <1>5, <1>6, <1>7, <1>8

\* A part of naturals sums to no more than the whole.
LEMMA TotalOfSubset ==
    ASSUME NEW S, IsFiniteSet(S), NEW R \in SUBSET S, NEW f, \A x \in S : f[x] \in Nat
    PROVE  Total(f, R) <= Total(f, S)
  <1> DEFINE h == [x \in S |-> IF x \in R THEN f[x] ELSE 0]
  <1>1. IsFiniteSet(R)
    BY FS_Subset
  <1>2. \A x \in S : h[x] \in Int /\ f[x] \in Int /\ h[x] <= f[x]
    OBVIOUS
  <1>3. \A x \in R : h[x] = f[x]
    OBVIOUS
  <1>4. \A x \in S \ R : h[x] = 0
    OBVIOUS
  <1> HIDE DEF h
  <1>5. Total(h, S) = Total(h, R)
    BY <1>2, <1>4, TotalOfPart
  <1>6. Total(h, R) = Total(f, R)
    BY <1>1, <1>3, TotalAgrees
  <1>7. Total(h, S) <= Total(f, S)
    BY <1>2, TotalMonotonic
  <1> QED
    BY <1>5, <1>6, <1>7

-----------------------------------------------------------------------------
(* No overpayment.  A claim is covered when it is made; what must last is    *)
(* that every claimed run whose money has not come back, reserved or         *)
(* debited, was counted when the later ones were claimed.                    *)

Exposed == {r \in Runs : ~Unclaimed(r) /\ wise[r].state # "funds_refunded"}

Yen == [r \in Runs |-> run[r].amount]
Paid == [r \in Runs |-> ledger.paid[r] * run[r].amount]
Returned == [r \in Runs |-> ledger.returned[r] * run[r].amount]

Covered == Total(Yen, Exposed) <= ledger.credited

\* The model's sums are totals of functions.
LEMMA ModelSums ==
    ASSUME NEW S \in SUBSET Runs
    PROVE  /\ MapThenSumSet(AmountOf, S) = Total(Yen, S)
           /\ MapThenSumSet(LAMBDA r : ledger.paid[r] * AmountOf(r), Runs)
                = Total(Paid, Runs)
           /\ MapThenSumSet(LAMBDA r : ledger.returned[r] * AmountOf(r), Runs)
                = Total(Returned, Runs)
  <1>1. MapThenSumSet(AmountOf, S) = Total(Yen, S)
    BY DEF MapThenSumSet, MapThenFoldSet, Total, Yen, AmountOf
  <1>2. MapThenSumSet(LAMBDA r : ledger.paid[r] * AmountOf(r), Runs) = Total(Paid, Runs)
    BY DEF MapThenSumSet, MapThenFoldSet, Total, Paid, AmountOf
  <1>3. MapThenSumSet(LAMBDA r : ledger.returned[r] * AmountOf(r), Runs)
          = Total(Returned, Runs)
    BY DEF MapThenSumSet, MapThenFoldSet, Total, Returned, AmountOf
  <1> QED
    BY <1>1, <1>2, <1>3

\* An exposed run holds its amount back, or is debited for it.
LEMMA ExposedIsBooked ==
    ASSUME IInv, NEW r \in Exposed
    PROVE  \/ run[r].status \in Reserving
           \/ ledger.paid[r] = 1 /\ ledger.returned[r] = 0
  <1>1. /\ run[r] \in Row /\ RunInv(r)
        /\ ledger.paid[r] \in Nat /\ ledger.returned[r] \in Nat
        /\ ~Unclaimed(r) /\ wise[r].state # "funds_refunded"
    BY DEF Exposed, IInv, TypeOK, Ledger
  <1>2. run[r].status \in Reserving \cup {"executed", "returned"}
    BY <1>1 DEF Row, Statuses, Unclaimed
  <1>3. CASE run[r].method = "manual_bank_transfer"
    BY <1>1, <1>3 DEF RunInv, ManualBooks, Unclaimed, Reserving
  <1>4. CASE run[r].method = "wise_api"
    BY <1>1, <1>2, <1>4 DEF RunInv, WiseBooks
  <1> QED
    BY <1>1, <1>3, <1>4 DEF Row, Methods

\* A run is debited at most once more than it is credited back.
LEMMA BooksAreBounded ==
    ASSUME IInv, NEW r \in Runs
    PROVE  /\ run[r].amount \in Nat
           /\ ledger.returned[r] \in {0, 1} /\ ledger.paid[r] \in {0, 1}
           /\ ledger.returned[r] <= ledger.paid[r]
  <1>1. /\ run[r] \in Row /\ RunInv(r)
        /\ ledger.paid[r] \in Nat /\ ledger.returned[r] \in Nat
    BY DEF IInv, TypeOK, Ledger
  <1>2. CASE run[r].method = "manual_bank_transfer"
    BY <1>1, <1>2 DEF RunInv, ManualBooks, Row
  <1>3. CASE run[r].method = "wise_api"
    BY <1>1, <1>3 DEF RunInv, WiseBooks, Row
  <1> QED
    BY <1>1, <1>2, <1>3 DEF Row, Methods

\* What a covered claim compares: the exposed runs and the one it claims are
\* within what sales credited.
LEMMA ClaimIsCovered ==
    ASSUME IInv, NEW r \in Runs, Unclaimed(r), Covers(r, run[r].amount)
    PROVE  Total(Yen, Exposed \cup {r}) <= ledger.credited
  <1> DEFINE R == {q \in Runs \ {r} : run[q].status \in Reserving}
             e == [q \in Runs |-> IF q \in Exposed THEN Yen[q] ELSE 0]
             h == [q \in Runs |-> IF q \in R THEN Yen[q] ELSE 0]
             et == [q \in Runs |-> e[q] + Returned[q]]
             hp == [q \in Runs |-> h[q] + Paid[q]]
  <1>1. /\ Exposed \in SUBSET Runs /\ R \in SUBSET Runs /\ r \notin Exposed
        /\ IsFiniteSet(Runs) /\ IsFiniteSet(Exposed) /\ IsFiniteSet(R)
        /\ Exposed \cup {r} \in SUBSET Runs /\ IsFiniteSet(Exposed \cup {r})
    <2>1. Exposed \in SUBSET Runs /\ R \in SUBSET Runs /\ r \notin Exposed
      BY DEF Exposed
    <2> HIDE DEF R
    <2> QED
      BY <2>1, RunsAreFinite, FS_Subset
  <1>2. ASSUME NEW q \in Runs
        PROVE  /\ Yen[q] \in Nat /\ Paid[q] \in Nat /\ Returned[q] \in Nat
               /\ Yen[q] = run[q].amount
               /\ Returned[q] <= Paid[q]
               /\ ledger.paid[q] = 1 /\ ledger.returned[q] = 0
                    => Paid[q] = Yen[q] /\ Returned[q] = 0
    BY BooksAreBounded DEF Yen, Paid, Returned
  <1>3. ASSUME NEW q \in Runs
        PROVE  e[q] \in Nat /\ h[q] \in Nat /\ et[q] \in Int /\ hp[q] \in Int
               /\ et[q] <= hp[q]
    <2>1. CASE q \notin Exposed
      BY <1>2, <2>1
    <2>2. CASE q \in Exposed /\ run[q].status \in Reserving
      <3>1. q \in R
        BY <1>1, <2>2
      <3> QED
        BY <1>2, <2>2, <3>1
    <2>3. CASE q \in Exposed /\ ledger.paid[q] = 1 /\ ledger.returned[q] = 0
      BY <1>2, <2>3
    <2> QED
      BY <2>1, <2>2, <2>3, ExposedIsBooked
  <1>4. Total(e, Runs) = Total(Yen, Exposed)
    <2>1. \A q \in Exposed : e[q] = Yen[q]
      BY <1>1
    <2>2. \A q \in Runs \ Exposed : e[q] = 0
      OBVIOUS
    <2> HIDE DEF e
    <2>3. Total(e, Runs) = Total(e, Exposed)
      BY <1>1, <1>3, <2>2, TotalOfPart
    <2> QED
      BY <1>1, <2>1, <2>3, TotalAgrees
  <1>5. Total(h, Runs) = Total(Yen, R)
    <2>1. \A q \in R : h[q] = Yen[q]
      BY <1>1
    <2>2. \A q \in Runs \ R : h[q] = 0
      OBVIOUS
    <2> HIDE DEF h, R
    <2>3. Total(h, Runs) = Total(h, R)
      BY <1>1, <1>3, <2>2, TotalOfPart
    <2> QED
      BY <1>1, <2>1, <2>3, TotalAgrees
  <1>6. Total(et, Runs) = Total(e, Runs) + Total(Returned, Runs)
    <2>1. \A q \in Runs : e[q] \in Int /\ Returned[q] \in Int /\ et[q] = e[q] + Returned[q]
      BY <1>2, <1>3
    <2> HIDE DEF e, et
    <2> QED
      BY <1>1, <2>1, TotalPlus
  <1>7. Total(hp, Runs) = Total(h, Runs) + Total(Paid, Runs)
    <2>1. \A q \in Runs : h[q] \in Int /\ Paid[q] \in Int /\ hp[q] = h[q] + Paid[q]
      BY <1>2, <1>3
    <2> HIDE DEF h, hp
    <2> QED
      BY <1>1, <2>1, TotalPlus
  <1>8. Total(et, Runs) <= Total(hp, Runs)
    <2> HIDE DEF et, hp
    <2> QED
      BY <1>1, <1>3, TotalMonotonic
  <1>9. /\ Total(Yen, Exposed) \in Int /\ Total(Yen, R) \in Int
         /\ Total(Paid, Runs) \in Int /\ Total(Returned, Runs) \in Int
         /\ Total(e, Runs) \in Int /\ Total(h, Runs) \in Int
    <2> HIDE DEF e, h, R
    <2> QED
      BY <1>1, <1>2, <1>3, TotalIsInt
  <1>10. /\ ledger.credited \in Nat /\ ledger.reversed \in Nat /\ seller.withheld \in Nat
         /\ run[r].amount = Yen[r] /\ Yen[r] \in Nat
    BY <1>2 DEF IInv, TypeOK, Ledger, Seller
  <1>11. ledger.credited - ledger.reversed - Total(Paid, Runs) + Total(Returned, Runs)
            - Total(Yen, R) - seller.withheld >= run[r].amount
    <2> HIDE DEF R
    <2>1. ReservedExcept(r) = Total(Yen, R)
      BY <1>1, ModelSums DEF R, ReservedExcept
    <2>2. LedgerBalance = ledger.credited - ledger.reversed - Total(Paid, Runs)
                            + Total(Returned, Runs)
      BY ModelSums DEF LedgerBalance
    <2>3. LedgerBalance - ReservedExcept(r) - seller.withheld >= run[r].amount
      BY DEF Covers
    <2>4. LedgerBalance - Total(Yen, R) - seller.withheld >= run[r].amount
      BY <2>1, <2>3
    <2> QED
      BY <1>9, <1>10, <2>2, <2>4
  <1>12. Total(Yen, Exposed \cup {r}) = Yen[r] + Total(Yen, Exposed)
    <2>1. Total(Yen, Exposed \cup {r})
            = Yen[r] + Total(Yen, (Exposed \cup {r}) \ {r})
      <3>1. \A q \in Exposed \cup {r} : Yen[q] \in Int
        BY <1>1, <1>2
      <3> QED
        BY <1>1, <3>1, TotalWithout
    <2>2. (Exposed \cup {r}) \ {r} = Exposed
      BY <1>1
    <2> QED
      BY <2>1, <2>2, Zenon
  <1> HIDE DEF e, h, et, hp, R
  <1> QED
    BY <1>4, <1>5, <1>6, <1>7, <1>8, <1>9, <1>10, <1>11, <1>12

\* A step that exposes no further run, whatever it does to the others.
Quiet(q) ==
    /\ ~Unclaimed(q)' => ~Unclaimed(q) /\ run'[q].amount = run[q].amount
    /\ wise[q].state = "funds_refunded" => wise'[q].state = "funds_refunded"

\* Such a step keeps what is exposed covered.
LEMMA QuietKeeps ==
    ASSUME IInv, Covered, \A q \in Runs : Quiet(q),
           ledger'.credited \in Nat, ledger'.credited >= ledger.credited
    PROVE  Covered'
  <1>1. Exposed' \subseteq Exposed /\ Exposed \subseteq Runs
    BY DEF Exposed, Quiet
  <1>2. \A q \in Exposed' : Yen'[q] = Yen[q]
    BY <1>1 DEF Exposed, Quiet, Yen
  <1>3. \A q \in Exposed : Yen[q] \in Nat
    BY <1>1, BooksAreBounded DEF Yen
  <1>4. IsFiniteSet(Exposed) /\ IsFiniteSet(Exposed')
    BY <1>1, RunsAreFinite, FS_Subset
  <1>5. Total(Yen', Exposed') = Total(Yen, Exposed')
    BY <1>2, <1>4, TotalAgrees
  <1>6. Total(Yen, Exposed') <= Total(Yen, Exposed)
    BY <1>1, <1>3, <1>4, TotalOfSubset
  <1>7. Total(Yen, Exposed') \in Int /\ Total(Yen, Exposed) \in Int
    BY <1>1, <1>3, <1>4, TotalIsInt
  <1>8. ledger.credited \in Nat
    BY DEF IInv, TypeOK, Ledger
  <1>9. Total(Yen', Exposed') <= ledger'.credited
    BY <1>5, <1>6, <1>7, <1>8 DEF Covered
  <1> QED
    BY <1>9 DEF Covered

\* The claim, of either method.
LEMMA ClaimKeepsCovered ==
    ASSUME IInv, NEW r \in Runs, NEW op \in Operators, NEW method \in Methods,
           MayClaim(r, op, method), Claim(r, op), UNCHANGED <<ledger, wise>>
    PROVE  Covered'
  <1>1. Unclaimed(r) /\ Covers(r, run[r].amount)
    BY DEF MayClaim, Unclaimed
  <1>2. \A q \in Runs \ {r} : run'[q] = run[q]
    BY ClaimedRow
  <1>3. run'[r].amount = run[r].amount /\ run[r] \in Row
    BY DEF Claim, IInv, TypeOK, Row
  <1>4. Exposed' \subseteq Exposed \cup {r}
    BY <1>2 DEF Exposed, Unclaimed
  <1>5. Exposed \cup {r} \subseteq Runs
    BY DEF Exposed
  <1>6. \A q \in Exposed' : Yen'[q] = Yen[q]
    BY <1>2, <1>3, <1>4, <1>5 DEF Yen
  <1>7. \A q \in Exposed \cup {r} : Yen[q] \in Nat
    BY <1>5, BooksAreBounded DEF Yen
  <1>8. IsFiniteSet(Exposed \cup {r}) /\ IsFiniteSet(Exposed')
    BY <1>4, <1>5, RunsAreFinite, FS_Subset
  <1>9. Total(Yen', Exposed') = Total(Yen, Exposed')
    BY <1>6, <1>8, TotalAgrees
  <1>10. Total(Yen, Exposed') <= Total(Yen, Exposed \cup {r})
    BY <1>4, <1>7, <1>8, TotalOfSubset
  <1>11. Total(Yen, Exposed \cup {r}) <= ledger.credited
    BY <1>1, ClaimIsCovered
  <1>12. Total(Yen, Exposed') \in Int /\ Total(Yen, Exposed \cup {r}) \in Int
    BY <1>4, <1>7, <1>8, TotalIsInt
  <1>13. ledger.credited \in Nat
    BY DEF IInv, TypeOK, Ledger
  <1>14. Total(Yen', Exposed') <= ledger'.credited
    BY <1>9, <1>10, <1>11, <1>12, <1>13
  <1> QED
    BY <1>14 DEF Covered

\* A write on the row of a claimed run, that keeps its amount, is quiet.
LEMMA ClaimedRowIsQuiet ==
    ASSUME NEW r \in Runs, ~Unclaimed(r), run'[r].amount = run[r].amount,
           \A q \in Runs \ {r} : run'[q] = run[q],
           \A q \in Runs : wise[q].state = "funds_refunded"
                             => wise'[q].state = "funds_refunded"
    PROVE  \A q \in Runs : Quiet(q)
  BY DEF Quiet, Unclaimed

\* Every step keeps what is exposed covered.
LEMMA NextCovered ==
    ASSUME IInv, IInv', Covered, [Next]_vars
    PROVE  Covered'
  <1>1. run \in [Runs -> Row] /\ ledger \in Ledger /\ wise \in [Runs -> Transfer]
    BY DEF IInv, TypeOK
  <1>2. ledger.credited \in Nat /\ ledger'.credited \in Nat
    BY DEF IInv, TypeOK, Ledger
  <1>3. ASSUME NEW r \in Runs, NEW op \in Operators, NEW amount \in Amounts,
               NEW method \in Methods, CreatePayoutRun(r, op, amount, method)
        PROVE  Covered'
    <2>1. run'[r].status = "draft"
      BY <1>1, <1>3 DEF CreatePayoutRun, Draft, NoRow
    <2>2. \A q \in Runs : Quiet(q)
      BY <1>1, <1>3, <2>1 DEF CreatePayoutRun, Quiet, Unclaimed
    <2> QED
      BY <1>2, <1>3, <2>2, QuietKeeps DEF CreatePayoutRun
  <1>4. ASSUME NEW r \in Runs, NEW op \in Operators, ApprovePayoutRun(r, op)
        PROVE  Covered'
    <2>1. run'[r].status = "approved"
      BY <1>1, <1>4 DEF ApprovePayoutRun, Row
    <2>2. \A q \in Runs : Quiet(q)
      BY <1>1, <1>4, <2>1 DEF ApprovePayoutRun, Quiet, Unclaimed
    <2> QED
      BY <1>2, <1>4, <2>2, QuietKeeps DEF ApprovePayoutRun
  <1>5. ASSUME NEW r \in Runs, NEW op \in Operators, StartManualTransfer(r, op)
        PROVE  Covered'
    BY <1>5, ClaimKeepsCovered DEF StartManualTransfer, Methods
  <1>6. ASSUME NEW r \in Runs, NEW op \in Operators, NEW c \in Calls,
               BeginExecuteWise(c, r, op)
        PROVE  Covered'
    BY <1>6, ClaimKeepsCovered DEF BeginExecuteWise, Methods
  <1>7. ASSUME NEW r \in Runs, NEW op \in Operators, NEW id \in TransferIds,
               CompleteManualTransfer(r, op, id)
        PROVE  Covered'
    <2>1. ~Unclaimed(r) /\ run'[r].amount = run[r].amount
      BY <1>1, <1>7 DEF CompleteManualTransfer, Unclaimed, Row
    <2>2. \A q \in Runs : Quiet(q)
      BY <1>1, <1>7, <2>1, ClaimedRowIsQuiet DEF CompleteManualTransfer
    <2>3. ledger'.credited = ledger.credited
      BY <1>1, <1>7 DEF CompleteManualTransfer, Ledger
    <2> QED
      BY <1>2, <2>2, <2>3, QuietKeeps
  <1>8. ASSUME NEW c \in Calls, CreateWiseTransfer(c) PROVE Covered'
    <2>1. call[c].run \in Runs /\ wise[call[c].run] = NoTransfer /\ run' = run
      BY <1>8, InFlightFacts DEF CreateWiseTransfer, InPhase, CallInv
    <2>2. \A q \in Runs : wise[q].state = "funds_refunded" => wise'[q] = wise[q]
      BY <1>1, <1>8, <2>1 DEF CreateWiseTransfer, NoTransfer
    <2>3. \A q \in Runs : Quiet(q)
      BY <2>1, <2>2 DEF Quiet, Unclaimed
    <2> QED
      BY <1>2, <1>8, <2>3, QuietKeeps DEF CreateWiseTransfer
  <1>9. ASSUME NEW c \in Calls, FundWiseTransfer(c) PROVE Covered'
    <2>1. call[c].run \in Runs /\ run' = run
      BY <1>9, InFlightFacts DEF FundWiseTransfer, InPhase
    <2>2. \A q \in Runs : wise[q].state = "funds_refunded" => wise'[q] = wise[q]
      BY <1>1, <1>9, <2>1 DEF FundWiseTransfer
    <2>3. \A q \in Runs : Quiet(q)
      BY <2>1, <2>2 DEF Quiet, Unclaimed
    <2> QED
      BY <1>2, <1>9, <2>3, QuietKeeps DEF FundWiseTransfer
  <1>10. ASSUME NEW c \in Calls,
                \/ RecordWiseTransfer(c) \/ RecordWiseFunding(c)
                \/ FailWiseExecution(c) \/ ApplyWiseStatus(c)
         PROVE  Covered'
    <2>1. call[c].run \in Runs /\ ~Unclaimed(call[c].run) /\ run[call[c].run] \in Row
      BY <1>10, InFlightFacts DEF RecordWiseTransfer, RecordWiseFunding,
           FailWiseExecution, ApplyWiseStatus, InPhase
    <2>2. /\ run'[call[c].run].amount = run[call[c].run].amount
          /\ \A q \in Runs \ {call[c].run} : run'[q] = run[q]
      <3>1. CASE RecordWiseTransfer(c)
        BY <1>1, <2>1, <3>1 DEF RecordWiseTransfer, Row
      <3>2. CASE RecordWiseFunding(c)
        BY <1>1, <2>1, <3>2 DEF RecordWiseFunding, Row
      <3>3. CASE FailWiseExecution(c)
        BY <1>1, <2>1, <3>3 DEF FailWiseExecution, Row
      <3>4. CASE ApplyWiseStatus(c)
        BY <1>1, <2>1, <3>4 DEF ApplyWiseStatus, MarkCompleted, MarkReturned, Row
      <3> QED
        BY <1>10, <3>1, <3>2, <3>3, <3>4
    <2>3. wise' = wise
      BY <1>10 DEF RecordWiseTransfer, RecordWiseFunding, FailWiseExecution,
           ApplyWiseStatus
    <2>4. ledger'.credited = ledger.credited
      BY <1>1, <1>10 DEF RecordWiseTransfer, RecordWiseFunding,
           FailWiseExecution, ApplyWiseStatus, MarkCompleted, MarkReturned, Ledger
    <2>5. \A q \in Runs : Quiet(q)
      BY <2>1, <2>2, <2>3, ClaimedRowIsQuiet
    <2> QED
      BY <1>2, <2>4, <2>5, QuietKeeps
  <1>11. ASSUME UNCHANGED <<run, wise>>, ledger'.credited >= ledger.credited
         PROVE  Covered'
    <2>1. \A q \in Runs : Quiet(q)
      BY <1>11 DEF Quiet, Unclaimed
    <2> QED
      BY <1>2, <1>11, <2>1, QuietKeeps
  <1>12. ASSUME NEW amount \in Amounts, CreditSale(amount) \/ ReverseSale(amount)
         PROVE  Covered'
    <2>1. ledger'.credited >= ledger.credited
      BY <1>1, <1>12, AmountsAssumption DEF CreditSale, ReverseSale, Ledger
    <2> QED
      BY <1>11, <1>12, <2>1 DEF CreditSale, ReverseSale
  <1>13. ASSUME NEW r \in Runs, WiseStep(r) PROVE Covered'
    <2>1. run' = run /\ \A q \in Runs : wise[q].state = "funds_refunded"
                                          => wise'[q].state = "funds_refunded"
      BY <1>1, <1>13 DEF WiseStep
    <2>2. \A q \in Runs : Quiet(q)
      BY <2>1 DEF Quiet, Unclaimed
    <2> QED
      BY <1>2, <1>13, <2>2, QuietKeeps DEF WiseStep
  <1>14. ASSUME UNCHANGED <<run, ledger, wise>> PROVE Covered'
    BY <1>2, <1>11, <1>14
  <1>15. CASE Payouts
    BY <1>3, <1>4, <1>5, <1>6, <1>7, <1>8, <1>9, <1>10, <1>14, <1>15
    DEF Payouts, Crash, BeginSyncWise
  <1>16. CASE Environment
    BY <1>12, <1>13, <1>14, <1>16 DEF Environment, ReviewSeller, EditRecipient
  <1> QED
    BY <1>14, <1>15, <1>16 DEF Next, vars

\* Money that is out is exposed.
LEMMA CoveredIsEnough == IInv /\ Covered => NeverOverpays
  <1>. SUFFICES ASSUME IInv, Covered PROVE NeverOverpays
    OBVIOUS
  <1> DEFINE Out == {r \in Runs : MoneyOut(r)}
  <1>1. ASSUME NEW r \in Runs, MoneyOut(r) PROVE r \in Exposed
    <2>1. run[r] \in Row /\ RunInv(r)
      BY DEF IInv, TypeOK
    <2>2. CASE run[r].method = "manual_bank_transfer"
      BY <1>1, <2>1, <2>2 DEF MoneyOut, Exposed, RunInv, ManualBooks, NoTransfer,
           Unclaimed
    <2>3. CASE run[r].method = "wise_api"
      BY <1>1, <2>1, <2>3 DEF MoneyOut, Exposed, RunInv, NothingMoved, NoTransfer
    <2> QED
      BY <2>1, <2>2, <2>3 DEF Row, Methods
  <1>2. Out \subseteq Exposed /\ Exposed \subseteq Runs
    BY <1>1 DEF Exposed
  <1>3. IsFiniteSet(Exposed) /\ IsFiniteSet(Out)
    BY <1>2, RunsAreFinite, FS_Subset
  <1>4. \A q \in Exposed : Yen[q] \in Nat
    BY <1>2, BooksAreBounded DEF Yen
  <1> HIDE DEF Out
  <1>5. Total(Yen, Out) <= Total(Yen, Exposed)
    BY <1>2, <1>3, <1>4, TotalOfSubset
  <1>6. Total(Yen, Out) \in Int /\ Total(Yen, Exposed) \in Int
    BY <1>2, <1>3, <1>4, TotalIsInt
  <1>7. MapThenSumSet(AmountOf, Out) = Total(Yen, Out)
    BY <1>2, ModelSums
  <1>8. ledger.credited \in Nat
    BY DEF IInv, TypeOK, Ledger
  <1>9. MapThenSumSet(AmountOf, Out) <= ledger.credited
    BY <1>5, <1>6, <1>7, <1>8 DEF Covered
  <1> QED
    BY <1>9 DEF NeverOverpays, Out

\* All runs together never have more money out than sales ever credited.
THEOREM NobodyIsOverpaid == Spec => []NeverOverpays
  <1>1. Init => Covered
    <2>. SUFFICES ASSUME Init PROVE Covered
      OBVIOUS
    <2>1. \A r \in Runs : run[r].status \in {"none", "draft"}
      <3>1. ASSUME NEW r \in Runs, NEW a \in Amounts
            PROVE  Draft(None, a, "manual_bank_transfer").status = "draft"
        BY DEF Draft, NoRow
      <3>2. NoRow.status = "none"
        BY DEF NoRow
      <3> QED
        BY <3>1, <3>2 DEF Init
    <2>2. Exposed = {} /\ ledger.credited = 0
      BY <2>1 DEF Init, Exposed, Unclaimed
    <2> QED
      BY <2>2, TotalEmpty DEF Covered
  <1>2. IInv /\ IInv' /\ Covered /\ [Next]_vars => Covered'
    BY NextCovered
  <1> QED
    BY <1>1, <1>2, Invariance, CoveredIsEnough, PTL DEF Spec

=============================================================================
