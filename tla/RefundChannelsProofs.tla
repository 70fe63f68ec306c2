------------------------ MODULE RefundChannelsProofs ------------------------
(* Theorems about RefundChannels, for every value of its constants.        *)
EXTENDS RefundChannels, TLAPS

-----------------------------------------------------------------------------
(* The inductive invariant.                                                *)

Settling == {"check", "summary", "book"}

\* A cancellation has no operation to mark.
CancellationHasNoOperation ==
  \A j \in Jobs : job[j].kind = "cancel" => job[j].phase \in {"idle"} \cup Settling

\* Nothing of a refund happens before the order has a guard.
GuardComesFirst ==
  guard = NoGuard =>
    /\ \A f \in Refunds : op[f].status = "none"
    /\ \A j \in Jobs :
         /\ job[j].kind = "webhook" => job[j].phase \in {"idle", "guard"}
         /\ job[j].kind = "confirm" => job[j].phase = "idle"

\* A webhook that meets the guard of a direct refund settles nothing.
WebhooksYield ==
  guard.channel = "DIRECT" =>
    \A j \in Jobs : job[j].kind = "webhook" =>
      /\ job[j].phase \notin Settling
      /\ job[j].phase \in {"observe", "upsert"} => job[j].conflict

\* A confirmation is on the operation's row before it settles anything.
ConfirmationIsRecorded ==
  \A j \in Jobs : job[j].kind = "confirm" /\ job[j].phase \in Settling =>
    op[job[j].refund].confirmed

\* A manual refund is settled by its confirmation only.
SettledAfterReview ==
  \A j \in Jobs :
    /\ job[j].kind # "cancel" /\ job[j].phase \in Settling
    /\ job[j].refund \in Manual
    => op[job[j].refund].reviewed

\* The direct refund is whole, and shuts the door behind it.
DirectRefundIsAlone ==
  /\ ledger.direct = IF direct THEN Paid ELSE 0
  /\ guard = [channel |-> "DIRECT", status |-> "COMPLETED"] => direct
  /\ direct => /\ guard.channel = "DIRECT" /\ guard.status # "RESERVED"
               /\ ledger.refunded = 0
               /\ \A j \in Jobs : job[j].kind # "cancel" =>
                    job[j].phase # "book"

\* A job marks an operation when its refund is booked, and completes the
\* guard when the operation is marked.
Accounted(f) == ledger.entries[f] > 0 \/ Remaining = 0 \/ Amount[f] = 0
MarksFollowBooks ==
  \A j \in Jobs :
    /\ job[j].phase = "mark" => Accounted(job[j].refund)
    /\ job[j].phase = "complete" => op[job[j].refund].applied

IInv ==
  /\ TypeOK
  /\ CancellationHasNoOperation
  /\ GuardComesFirst
  /\ WebhooksYield
  /\ ConfirmationIsRecorded
  /\ SettledAfterReview
  /\ ManualRefundIsReviewed
  /\ DirectRefundIsAlone
  /\ MarksFollowBooks
  /\ AppliedIsBooked
  /\ CompletedGuardHasRefund

-----------------------------------------------------------------------------
(* Type correctness.                                                       *)

\* A job that goes to another phase, or learns of a conflict, stays a job.
LEMMA GotoKeepsJobs ==
    ASSUME job \in [Jobs -> JobRecord], NEW j \in Jobs, NEW phase \in Phases,
           Goto(j, phase)
    PROVE  job' \in [Jobs -> JobRecord]
  BY DEF Goto, JobRecord

\* The settlement's arithmetic stays in the naturals.
LEMMA AmountsAreNat ==
    ASSUME TypeOK, NEW j \in Jobs
    PROVE  Reversed \in Nat /\ Remaining \in Nat /\ ToReverse(j) \in Nat
  BY ChannelAssumption DEF TypeOK, Reversed, Remaining, ToReverse, JobRecord

\* An operation row with a new status.
LEMMA StatusKeepsOperations ==
    ASSUME NEW row \in Operations, NEW status \in OperationStatuses
    PROVE  [row EXCEPT !.status = status] \in Operations
  BY DEF Operations

LEMMA InitTypeOK == Init => TypeOK
  <1>. SUFFICES ASSUME Init PROVE TypeOK
    OBVIOUS
  <1>. USE ChannelAssumption DEF Init
  <1>1. AnyRefund \in Refunds
    BY DEF AnyRefund
  <1>2. NewJob \in JobRecord
    BY <1>1 DEF NewJob, JobRecord, Phases, Kinds
  <1>3. op \in [Refunds -> Operations]
    BY DEF NoOperation, Operations, OperationStatuses
  <1>4. ledger \in [entries: [Refunds -> Nat], refunded: Nat, direct: Nat,
                   cancelled: Nat]
    OBVIOUS
  <1>5. job \in [Jobs -> JobRecord] /\ handlings \in 0..MaxHandlings
    BY <1>2
  <1>6. guard \in Guards \cup {NoGuard} /\ direct \in BOOLEAN
    OBVIOUS
  <1> QED
    BY <1>3, <1>4, <1>5, <1>6 DEF TypeOK

\* The steps that write the guard.
LEMMA GuardTypes ==
    ASSUME TypeOK, GuardComesFirst, NEW j \in Jobs,
           ReserveGuard(j) \/ MarkConflict(j) \/ CompleteGuard(j)
    PROVE  TypeOK'
  <1>. USE DEF TypeOK, Phases
  <1>1. CASE ReserveGuard(j)
    BY <1>1, GotoKeepsJobs DEF ReserveGuard, ProviderGuard, Guards
  <1>2. CASE MarkConflict(j)
    <2>1. job' \in [Jobs -> JobRecord]
      BY <1>2 DEF MarkConflict, JobRecord
    <2>2. guard \in Guards
      BY <1>2 DEF MarkConflict, GuardComesFirst, At
    <2>3. guard' \in Guards
      BY <1>2, <2>2 DEF MarkConflict, Guards
    <2> QED
      BY <1>2, <2>1, <2>3 DEF MarkConflict
  <1>3. CASE CompleteGuard(j)
    <2>1. guard' \in Guards \cup {NoGuard}
      BY <1>3 DEF CompleteGuard, Guards, NoGuard
    <2> QED
      BY <1>3, <2>1, GotoKeepsJobs DEF CompleteGuard
  <1> QED
    BY <1>1, <1>2, <1>3

\* The steps that read and write operations.
LEMMA OperationTypes ==
    ASSUME TypeOK, NEW j \in Jobs,
           \/ FindOperation(j) \/ UpsertOperation(j) \/ ClaimOperation(j)
           \/ SettlementFails(j) \/ MarkApplied(j)
    PROVE  TypeOK'
  <1>. USE DEF TypeOK, Phases
  <1>1. CASE FindOperation(j)
    BY <1>1, GotoKeepsJobs DEF FindOperation
  <1>2. job[j].refund \in Refunds /\ job[j].conflict \in BOOLEAN
    BY DEF JobRecord
  <1>. DEFINE row == op[job[j].refund]
  <1>3. row \in Operations
    BY <1>2
  <1>4. CASE UpsertOperation(j)
    <2>1. ObservedStatus(job[j].refund, job[j].conflict) \in OperationStatuses
      BY DEF ObservedStatus, OperationStatuses
    <2>2. op' \in [Refunds -> Operations]
      BY <1>2, <1>3, <1>4, <2>1 DEF UpsertOperation, Operations
    <2> QED
      BY <1>4, <2>2, GotoKeepsJobs DEF UpsertOperation
  <1>5. CASE ClaimOperation(j)
    <2>1. op' \in [Refunds -> Operations]
      BY <1>2, <1>3, <1>5 DEF ClaimOperation, Operations, OperationStatuses
    <2> QED
      BY <1>5, <2>1, GotoKeepsJobs DEF ClaimOperation
  <1>6. CASE SettlementFails(j) \/ MarkApplied(j)
    <2>1. op' \in [Refunds -> Operations]
      BY <1>2, <1>3, <1>6
      DEF SettlementFails, MarkApplied, Operations, OperationStatuses
    <2> QED
      BY <1>6, <2>1, GotoKeepsJobs DEF SettlementFails, MarkApplied
  <1> QED
    BY <1>1, <1>4, <1>5, <1>6

\* The steps of a settlement, and the death of a job.
LEMMA SettlementTypes ==
    ASSUME TypeOK, NEW j \in Jobs,
           CheckBooked(j) \/ Summarise(j) \/ Book(j) \/ Abort(j)
    PROVE  TypeOK'
  <1>. USE DEF TypeOK, Phases
  <1>1. CASE CheckBooked(j) \/ Abort(j)
    BY <1>1, GotoKeepsJobs DEF CheckBooked, Abort
  <1>2. CASE Summarise(j)
    <2>1. ToReverse(j) \in Nat
      BY AmountsAreNat
    <2>2. job' \in [Jobs -> JobRecord]
      BY <1>2, <2>1 DEF Summarise, JobRecord
    <2> QED
      BY <1>2, <2>2 DEF Summarise
  <1>3. CASE Book(j)
    <2>1. job[j].amount \in Nat /\ job[j].refund \in Refunds
      BY DEF JobRecord
    <2>2. ledger' \in [entries: [Refunds -> Nat], refunded: Nat, direct: Nat,
                       cancelled: Nat]
      <3>1. CASE job[j].kind = "cancel"
        BY <1>3, <2>1, <3>1 DEF Book
      <3>2. CASE job[j].kind # "cancel"
        <4>. DEFINE entries == [ledger.entries EXCEPT ![job[j].refund] = @ + 1]
        <4>1. entries \in [Refunds -> Nat]
          BY <2>1
        <4>2. ledger' = [entries |-> entries,
                         refunded |-> ledger.refunded + job[j].amount,
                         direct |-> ledger.direct,
                         cancelled |-> ledger.cancelled]
          BY <1>3, <2>1, <3>2 DEF Book
        <4>. HIDE DEF entries
        <4> QED
          BY <2>1, <4>1, <4>2
      <3> QED
        BY <3>1, <3>2
    <2>3. job' \in [Jobs -> JobRecord]
      BY <1>3, GotoKeepsJobs DEF Book
    <2> QED
      BY <1>3, <2>2, <2>3 DEF Book
  <1> QED
    BY <1>1, <1>2, <1>3

\* A job that starts is a job.
LEMMA StartTypes ==
    ASSUME TypeOK, NEW j \in Jobs, NEW kind \in Kinds, NEW f \in Refunds,
           NEW phase \in Phases, Start(j, kind, f, phase)
    PROVE  TypeOK'
  <1>1. job' \in [Jobs -> JobRecord]
    BY DEF TypeOK, Start, JobRecord
  <1>2. handlings' \in 0..MaxHandlings
    BY ChannelAssumption DEF TypeOK, Start
  <1> QED
    BY <1>1, <1>2 DEF TypeOK, Start

\* The direct refund's two steps.
LEMMA DirectTypes ==
    ASSUME TypeOK, PrepareDirectRefund \/ CompleteDirectRefund
    PROVE  TypeOK'
  <1>1. CASE PrepareDirectRefund
    BY <1>1 DEF PrepareDirectRefund, TypeOK, Guards, NoGuard
  <1>2. CASE CompleteDirectRefund
    <2>1. Remaining \in Nat
      BY ChannelAssumption DEF TypeOK, Reversed, Remaining
    <2> QED
      BY <1>2, <2>1 DEF CompleteDirectRefund, TypeOK, Guards
  <1> QED
    BY <1>1, <1>2

\* Every step keeps the variables well typed.
LEMMA NextTypeOK == TypeOK /\ GuardComesFirst /\ [Next]_vars => TypeOK'
  <1>. SUFFICES ASSUME TypeOK, GuardComesFirst, [Next]_vars PROVE TypeOK'
    OBVIOUS
  <1>1. ASSUME NEW j \in Jobs, NEW f \in Refunds,
               \/ ReceiveRefund(j, f) \/ BeginConfirm(j, f)
               \/ ReceiveCancellation(j, f)
        PROVE  TypeOK'
    BY <1>1, StartTypes
    DEF ReceiveRefund, BeginConfirm, ReceiveCancellation, Kinds, Phases
  <1>2. ASSUME NEW j \in Jobs, Step(j)
        PROVE  TypeOK'
    BY <1>2, GuardTypes, OperationTypes, SettlementTypes DEF Step
  <1>3. CASE UNCHANGED vars
    BY <1>3 DEF vars, TypeOK
  <1> QED
    BY <1>1, <1>2, <1>3, DirectTypes DEF Next

-----------------------------------------------------------------------------
(* What a step may not disturb.                                            *)

\* The steps of jobs, by what they write.
Starts(j, f) ==
  ReceiveRefund(j, f) \/ BeginConfirm(j, f) \/ ReceiveCancellation(j, f)

\* A job that starts is in its first phase; the others stay where they are.
LEMMA StartFacts ==
    ASSUME TypeOK, NEW j \in Jobs, NEW f \in Refunds, Starts(j, f)
    PROVE  /\ UNCHANGED <<guard, op, ledger, direct>>
           /\ \A i \in Jobs \ {j} : job'[i] = job[i]
           /\ job'[j].refund = f
           /\ \/ job'[j].kind = "webhook" /\ job'[j].phase = "guard"
              \/ /\ job'[j].kind = "confirm" /\ job'[j].phase = "claim"
                 /\ op[f].status # "none"
              \/ job'[j].kind = "cancel" /\ job'[j].phase = "check"
  BY DEF TypeOK, Starts, Start, ReceiveRefund, BeginConfirm,
         ReceiveCancellation

\* A step of a job leaves the other jobs, and its own kind and refund, alone,
\* and it does not touch the direct refund.
LEMMA StepFacts ==
    ASSUME TypeOK, NEW j \in Jobs, Step(j)
    PROVE  /\ \A i \in Jobs \ {j} : job'[i] = job[i]
           /\ job'[j].kind = job[j].kind /\ job'[j].refund = job[j].refund
           /\ direct' = direct /\ ledger'.direct = ledger.direct
  <1>. USE DEF TypeOK, JobRecord, Goto
  <1>1. CASE ReserveGuard(j) \/ MarkConflict(j) \/ CompleteGuard(j)
    BY <1>1 DEF ReserveGuard, MarkConflict, CompleteGuard
  <1>2. CASE \/ FindOperation(j) \/ UpsertOperation(j) \/ ClaimOperation(j)
             \/ SettlementFails(j) \/ MarkApplied(j)
    BY <1>2 DEF FindOperation, UpsertOperation, ClaimOperation,
                SettlementFails, MarkApplied
  <1>3. CASE CheckBooked(j) \/ Summarise(j) \/ Abort(j)
    BY <1>3 DEF CheckBooked, Summarise, Abort
  <1>4. CASE Book(j)
    <2>1. CASE job[j].kind = "cancel"
      BY <1>4, <2>1 DEF Book
    <2>2. CASE job[j].kind # "cancel"
      BY <1>4, <2>2 DEF Book
    <2> QED
      BY <2>1, <2>2
  <1> QED
    BY <1>1, <1>2, <1>3, <1>4 DEF Step

\* What an operation has been through is not forgotten.
LEMMA OperationsRemember ==
    ASSUME TypeOK, [Next]_vars, NEW f \in Refunds
    PROVE  /\ op[f].applied => op'[f].applied
           /\ op[f].confirmed => op'[f].confirmed
           /\ op[f].reviewed => op'[f].reviewed
  <1>. USE DEF TypeOK
  <1>1. CASE UNCHANGED op
    BY <1>1
  <1>2. ASSUME NEW j \in Jobs,
               \/ UpsertOperation(j) \/ ClaimOperation(j)
               \/ SettlementFails(j) \/ MarkApplied(j)
        PROVE  /\ op[f].applied => op'[f].applied
               /\ op[f].confirmed => op'[f].confirmed
               /\ op[f].reviewed => op'[f].reviewed
    BY <1>2 DEF Operations, UpsertOperation, ClaimOperation,
                SettlementFails, MarkApplied
  <1> QED
    BY <1>1, <1>2
    DEF Next, Step, Start, ReceiveRefund, BeginConfirm, ReceiveCancellation,
        ReserveGuard, MarkConflict, FindOperation, CheckBooked, Summarise,
        Book, CompleteGuard, Abort, PrepareDirectRefund,
        CompleteDirectRefund, vars

\* The ledger only grows; once nothing is left, nothing is left for good.
LEMMA LedgerGrows ==
    ASSUME IInv, [Next]_vars
    PROVE  /\ \A f \in Refunds : ledger'.entries[f] >= ledger.entries[f]
           /\ Remaining = 0 => Remaining' = 0
  <1>. USE ChannelAssumption
  <1>1. CASE UNCHANGED ledger
    BY <1>1 DEF IInv, TypeOK, Remaining, Reversed
  <1>2. ASSUME NEW j \in Jobs, Book(j)
        PROVE  /\ \A f \in Refunds : ledger'.entries[f] >= ledger.entries[f]
               /\ Remaining = 0 => Remaining' = 0
    <2>1. job[j].amount \in Nat /\ job[j].refund \in Refunds
      BY DEF IInv, TypeOK, JobRecord
    <2>2. CASE job[j].kind = "cancel"
      BY <1>2, <2>1, <2>2 DEF IInv, TypeOK, Book, Remaining, Reversed
    <2>3. CASE job[j].kind # "cancel"
      <3>1. ledger' = [ledger EXCEPT !.entries[job[j].refund] = @ + 1,
                                     !.refunded = @ + job[j].amount]
        BY <1>2, <2>3 DEF Book
      <3>2. /\ ledger'.refunded = ledger.refunded + job[j].amount
            /\ ledger'.direct = ledger.direct
            /\ ledger'.cancelled = ledger.cancelled
        BY <3>1 DEF IInv, TypeOK
      <3>3. ledger'.entries = [ledger.entries EXCEPT ![job[j].refund] = @ + 1]
        BY <3>1 DEF IInv, TypeOK
      <3>4. Remaining = 0 => Remaining' = 0
        BY <2>1, <3>2 DEF IInv, TypeOK, Remaining, Reversed
      <3> QED
        BY <2>1, <3>3, <3>4 DEF IInv, TypeOK
    <2> QED
      BY <2>2, <2>3
  <1>3. CASE CompleteDirectRefund
    <2>1. ledger.direct = 0 /\ Remaining \in Nat
      BY <1>3, <1>1, ChannelAssumption
      DEF IInv, DirectRefundIsAlone, CompleteDirectRefund, TypeOK, Remaining,
          Reversed
    <2> QED
      BY <1>3, <2>1
      DEF IInv, TypeOK, CompleteDirectRefund, Remaining, Reversed
  <1> QED
    BY <1>1, <1>2, <1>3
    DEF Next, Step, Start, ReceiveRefund, BeginConfirm, ReceiveCancellation,
        ReserveGuard, MarkConflict, FindOperation, UpsertOperation,
        ClaimOperation, SettlementFails, CheckBooked, Summarise,
        MarkApplied, CompleteGuard, Abort, PrepareDirectRefund, vars

-----------------------------------------------------------------------------
(* The invariant is inductive: one lemma per conjunct.                     *)

LEMMA CancellationStep ==
    ASSUME IInv, [Next]_vars PROVE CancellationHasNoOperation'
  <1>. USE DEF IInv, CancellationHasNoOperation, Settling
  <1>1. ASSUME NEW j \in Jobs, NEW f \in Refunds, Starts(j, f)
        PROVE  CancellationHasNoOperation'
    BY <1>1, StartFacts
  <1>2. ASSUME NEW j \in Jobs, Step(j)
        PROVE  CancellationHasNoOperation'
    <2>1. job[j].kind = "cancel" => job'[j].phase \in {"idle"} \cup Settling
      BY <1>2
      DEF TypeOK, JobRecord, Goto, At, Step, ReserveGuard, MarkConflict,
          FindOperation, UpsertOperation, ClaimOperation, SettlementFails,
          CheckBooked, Summarise, Book, MarkApplied, CompleteGuard, Abort
    <2> QED
      BY <1>2, <2>1, StepFacts
  <1>3. CASE UNCHANGED job
    BY <1>3
  <1> QED
    BY <1>1, <1>2, <1>3
    DEF Next, Starts, PrepareDirectRefund, CompleteDirectRefund, vars

LEMMA GuardComesFirstStep ==
    ASSUME IInv, [Next]_vars PROVE GuardComesFirst'
  <1>. USE DEF IInv, GuardComesFirst
  <1>1. ASSUME NEW j \in Jobs, NEW f \in Refunds, Starts(j, f)
        PROVE  GuardComesFirst'
    BY <1>1, StartFacts
  <1>2. ASSUME NEW j \in Jobs, Step(j), guard' = NoGuard
        PROVE  /\ \A f \in Refunds : op'[f].status = "none"
               /\ \A i \in Jobs :
                    /\ job'[i].kind = "webhook" =>
                         job'[i].phase \in {"idle", "guard"}
                    /\ job'[i].kind = "confirm" => job'[i].phase = "idle"
    <2>1. guard = NoGuard
      BY <1>2
      DEF Step, ReserveGuard, ProviderGuard, MarkConflict, FindOperation,
          UpsertOperation, ClaimOperation, SettlementFails, CheckBooked,
          Summarise, Book, MarkApplied, CompleteGuard, Abort, NoGuard,
          TypeOK, Guards
    <2>2. ~ReserveGuard(j)
      BY <1>2 DEF ReserveGuard, ProviderGuard, NoGuard
    <2>3. /\ job'[j].kind = "webhook" => job'[j].phase \in {"idle", "guard"}
          /\ job'[j].kind = "confirm" => job'[j].phase = "idle"
          /\ UNCHANGED op
      BY <1>2, <2>1, <2>2
      DEF TypeOK, JobRecord, Goto, At, Step, MarkConflict, FindOperation,
          UpsertOperation, ClaimOperation, SettlementFails, CheckBooked,
          Summarise, Book, MarkApplied, CompleteGuard, Abort,
          CancellationHasNoOperation, Settling, Kinds
    <2> QED
      BY <1>2, <2>1, <2>3, StepFacts
  <1>3. CASE PrepareDirectRefund \/ CompleteDirectRefund \/ UNCHANGED vars
    BY <1>3
    DEF PrepareDirectRefund, CompleteDirectRefund, NoGuard, TypeOK, Guards,
        vars
  <1> QED
    BY <1>1, <1>2, <1>3 DEF Next, Starts

LEMMA WebhooksYieldStep ==
    ASSUME IInv, [Next]_vars PROVE WebhooksYield'
  <1>. USE DEF IInv, WebhooksYield, Settling
  <1>1. ASSUME NEW j \in Jobs, NEW f \in Refunds, Starts(j, f)
        PROVE  WebhooksYield'
    BY <1>1, StartFacts
  <1>2. ASSUME NEW j \in Jobs, Step(j), guard'.channel = "DIRECT"
        PROVE  \A i \in Jobs : job'[i].kind = "webhook" =>
                 /\ job'[i].phase \notin Settling
                 /\ job'[i].phase \in {"observe", "upsert"} =>
                      job'[i].conflict
    <2>1. guard.channel = "DIRECT"
      BY <1>2
      DEF Step, ReserveGuard, ProviderGuard, MarkConflict, FindOperation,
          UpsertOperation, ClaimOperation, SettlementFails, CheckBooked,
          Summarise, Book, MarkApplied, CompleteGuard, Abort, NoGuard,
          TypeOK, Guards
    <2>2. job[j].kind = "webhook" =>
            /\ job'[j].phase \notin Settling
            /\ job'[j].phase \in {"observe", "upsert"} => job'[j].conflict
      BY <1>2, <2>1
      DEF TypeOK, JobRecord, Goto, At, AllowLedger, Step, ReserveGuard,
          MarkConflict, FindOperation, UpsertOperation, ClaimOperation,
          SettlementFails, CheckBooked, Summarise, Book, MarkApplied,
          CompleteGuard, Abort
    <2> QED
      BY <1>2, <2>1, <2>2, StepFacts
  <1>3. CASE PrepareDirectRefund
    BY <1>3
    DEF PrepareDirectRefund, GuardComesFirst, NoGuard, TypeOK, Guards
  <1>4. CASE CompleteDirectRefund \/ UNCHANGED vars
    BY <1>4 DEF CompleteDirectRefund, vars
  <1> QED
    BY <1>1, <1>2, <1>3, <1>4 DEF Next, Starts

LEMMA ConfirmationStep ==
    ASSUME IInv, [Next]_vars PROVE ConfirmationIsRecorded'
  <1>. USE DEF IInv, ConfirmationIsRecorded, Settling
  <1>1. ASSUME NEW j \in Jobs, NEW f \in Refunds, Starts(j, f)
        PROVE  ConfirmationIsRecorded'
    BY <1>1, StartFacts
  <1>2. ASSUME NEW j \in Jobs, Step(j)
        PROVE  ConfirmationIsRecorded'
    <2>. DEFINE f == job[j].refund
    <2>0. f \in Refunds
      BY DEF TypeOK, JobRecord
    <2>1. job[j].kind = "confirm" /\ job'[j].phase \in Settling =>
            op'[f].confirmed
      <3>1. CASE ClaimOperation(j)
        BY <1>2, <2>0, <3>1 DEF ClaimOperation, TypeOK, Operations, Goto,
                                JobRecord
      <3>2. CASE ~ClaimOperation(j)
        <4>1. job[j].kind = "confirm" /\ job'[j].phase \in Settling =>
                job[j].phase \in Settling
          BY <1>2, <3>2
          DEF TypeOK, JobRecord, Goto, At, Step, ReserveGuard, MarkConflict,
              FindOperation, UpsertOperation, SettlementFails, CheckBooked,
              Summarise, Book, MarkApplied, CompleteGuard, Abort
        <4> QED
          BY <2>0, <4>1, OperationsRemember
      <3> QED
        BY <3>1, <3>2
    <2>2. \A i \in Jobs \ {j} : job[i].refund \in Refunds
      BY DEF TypeOK, JobRecord
    <2> QED
      BY <1>2, <2>1, <2>2, StepFacts, OperationsRemember
  <1>3. CASE UNCHANGED <<job, op>>
    BY <1>3
  <1> QED
    BY <1>1, <1>2, <1>3
    DEF Next, Starts, PrepareDirectRefund, CompleteDirectRefund, vars

\* A manual refund: neither its settlement nor its entries come before the
\* review.
LEMMA ReviewStep ==
    ASSUME IInv, [Next]_vars
    PROVE  SettledAfterReview' /\ ManualRefundIsReviewed'
  <1>. USE DEF IInv, SettledAfterReview, ManualRefundIsReviewed, Settling
  <1>0. Manual \subseteq Refunds
    BY ChannelAssumption
  <1>1. ASSUME NEW j \in Jobs, NEW f \in Refunds, Starts(j, f)
        PROVE  SettledAfterReview' /\ ManualRefundIsReviewed'
    BY <1>1, StartFacts
  <1>2. ASSUME NEW j \in Jobs, Step(j)
        PROVE  SettledAfterReview' /\ ManualRefundIsReviewed'
    <2>. DEFINE f == job[j].refund
    <2>0. f \in Refunds
      BY DEF TypeOK, JobRecord
    <2>1. /\ job[j].kind # "cancel" /\ job'[j].phase \in Settling
          /\ f \in Manual
          => op'[f].reviewed
      <3>1. CASE ClaimOperation(j)
        BY <1>2, <2>0, <3>1 DEF ClaimOperation, TypeOK, Operations, Goto,
                                JobRecord
      <3>2. CASE ~ClaimOperation(j)
        <4>1. /\ job[j].kind # "cancel" /\ job'[j].phase \in Settling
              /\ f \in Manual
              => job[j].phase \in Settling
          BY <1>2, <3>2
          DEF TypeOK, JobRecord, Goto, At, AllowLedger, Step, ReserveGuard,
              MarkConflict, FindOperation, UpsertOperation,
              SettlementFails, CheckBooked, Summarise, Book, MarkApplied,
              CompleteGuard, Abort
        <4> QED
          BY <2>0, <4>1, OperationsRemember
      <3> QED
        BY <3>1, <3>2
    <2>2. \A i \in Jobs \ {j} : job[i].refund \in Refunds
      BY DEF TypeOK, JobRecord
    <2>3. SettledAfterReview'
      BY <1>2, <2>1, <2>2, StepFacts, OperationsRemember
    <2>4. ManualRefundIsReviewed'
      <3>1. CASE Book(j) /\ job[j].kind # "cancel"
        <4>1. ledger'.entries = [ledger.entries EXCEPT ![f] = @ + 1]
          BY <3>1 DEF Book, TypeOK
        <4>2. f \in Manual => op[f].reviewed
          BY <3>1 DEF Book
        <4> QED
          BY <1>0, <2>0, <4>1, <4>2, OperationsRemember DEF TypeOK
      <3>2. CASE ~(Book(j) /\ job[j].kind # "cancel")
        <4>1. ledger'.entries = ledger.entries
          BY <1>2, <3>2
          DEF TypeOK, Step, ReserveGuard, MarkConflict, FindOperation,
              UpsertOperation, ClaimOperation, SettlementFails, CheckBooked,
              Summarise, Book, MarkApplied, CompleteGuard, Abort
        <4> QED
          BY <1>0, <4>1, OperationsRemember
      <3> QED
        BY <3>1, <3>2
    <2> QED
      BY <2>3, <2>4
  <1>3. CASE PrepareDirectRefund \/ CompleteDirectRefund \/ UNCHANGED vars
    BY <1>3 DEF PrepareDirectRefund, CompleteDirectRefund, vars, TypeOK
  <1> QED
    BY <1>1, <1>2, <1>3 DEF Next, Starts

\* The guard of a direct refund that is made is never written back.
LEMMA DirectGuardStays ==
    ASSUME IInv, NEW j \in Jobs, Step(j)
    PROVE  /\ guard'.channel = "DIRECT" /\ guard'.status = "COMPLETED" =>
                guard.channel = "DIRECT" /\ guard.status = "COMPLETED"
           /\ guard.channel = "DIRECT" /\ guard.status # "RESERVED" =>
                guard'.channel = "DIRECT" /\ guard'.status # "RESERVED"
  BY DEF IInv, GuardComesFirst, TypeOK, Guards, NoGuard, At, Step,
         ReserveGuard, ProviderGuard, MarkConflict, FindOperation,
         UpsertOperation, ClaimOperation, SettlementFails, CheckBooked,
         Summarise, Book, MarkApplied, CompleteGuard, Abort

\* After a direct refund nothing is left to reverse.
LEMMA NothingIsLeft ==
    ASSUME IInv, direct, NEW j \in Jobs
    PROVE  Remaining = 0 /\ ToReverse(j) = 0
  <1>1. Reversed \in Nat /\ Reversed >= Paid
    BY ChannelAssumption DEF IInv, TypeOK, DirectRefundIsAlone, Reversed
  <1>2. Remaining = 0
    BY <1>1, ChannelAssumption DEF Remaining
  <1>3. Amount[job[j].refund] \in Nat
    BY ChannelAssumption DEF IInv, TypeOK, JobRecord
  <1> QED
    BY <1>2, <1>3 DEF ToReverse

LEMMA DirectRefundIsAloneStep ==
    ASSUME IInv, [Next]_vars PROVE DirectRefundIsAlone'
  <1>. USE DEF IInv
  <1>1. ASSUME NEW j \in Jobs, NEW f \in Refunds, Starts(j, f)
        PROVE  DirectRefundIsAlone'
    BY <1>1, StartFacts DEF DirectRefundIsAlone
  <1>2. ASSUME NEW j \in Jobs, Step(j)
        PROVE  DirectRefundIsAlone'
    <2>1. ledger'.direct = IF direct' THEN Paid ELSE 0
      BY <1>2, StepFacts DEF DirectRefundIsAlone
    <2>2. guard' \in Guards \cup {NoGuard}
      BY <1>2, NextTypeOK DEF TypeOK, Next
    <2>3. guard' = [channel |-> "DIRECT", status |-> "COMPLETED"] => direct'
      BY <1>2, DirectGuardStays, StepFacts
      DEF DirectRefundIsAlone, TypeOK, Guards, NoGuard
    <2>4. direct' => guard'.channel = "DIRECT" /\ guard'.status # "RESERVED"
      BY <1>2, DirectGuardStays, StepFacts DEF DirectRefundIsAlone
    <2>5. ASSUME direct
          PROVE  /\ ledger'.refunded = 0
                 /\ job[j].kind # "cancel" => job'[j].phase # "book"
      <3>1. ToReverse(j) = 0
        BY <2>5, NothingIsLeft
      <3>2. job[j].kind # "cancel" => ~Book(j)
        BY <2>5 DEF DirectRefundIsAlone, Book
      <3>3. ledger'.refunded = 0
        BY <1>2, <2>5, <3>2
        DEF DirectRefundIsAlone, TypeOK, Step, ReserveGuard, MarkConflict,
            FindOperation, UpsertOperation, ClaimOperation, SettlementFails,
            CheckBooked, Summarise, Book, MarkApplied, CompleteGuard, Abort
      <3>4. job[j].kind # "cancel" => job'[j].phase # "book"
        BY <1>2, <3>1, <3>2
        DEF TypeOK, JobRecord, Goto, At, Step, ReserveGuard, MarkConflict,
            FindOperation, UpsertOperation, ClaimOperation, SettlementFails,
            CheckBooked, Summarise, MarkApplied, CompleteGuard, Abort, Book
      <3> QED
        BY <3>3, <3>4
    <2> QED
      BY <1>2, <2>1, <2>3, <2>4, <2>5, StepFacts DEF DirectRefundIsAlone
  <1>3. CASE PrepareDirectRefund
    BY <1>3 DEF PrepareDirectRefund, DirectRefundIsAlone
  <1>4. CASE CompleteDirectRefund
    <2>1. Reversed = 0 /\ Remaining = Paid /\ ledger.refunded = 0
      BY <1>4, ChannelAssumption
      DEF CompleteDirectRefund, DirectRefundAllowed, Remaining, Reversed,
          TypeOK
    <2>2. ASSUME NEW j \in Jobs, job[j].kind # "cancel"
          PROVE  job[j].phase # "book"
      <3>1. ~op[job[j].refund].confirmed
        BY <1>4
        DEF CompleteDirectRefund, DirectRefundAllowed, ProviderRefundExists,
            TypeOK, JobRecord
      <3>2. job[j].kind \in {"webhook", "confirm"}
        BY <2>2 DEF TypeOK, JobRecord, Kinds
      <3> QED
        BY <1>4, <3>1, <3>2
        DEF CompleteDirectRefund, WebhooksYield, ConfirmationIsRecorded,
            Settling
    <2> QED
      BY <1>4, <2>1, <2>2
      DEF CompleteDirectRefund, DirectRefundIsAlone, TypeOK
  <1>5. CASE UNCHANGED vars
    BY <1>5 DEF vars, DirectRefundIsAlone
  <1> QED
    BY <1>1, <1>2, <1>3, <1>4, <1>5 DEF Next, Starts

LEMMA MarksFollowBooksStep ==
    ASSUME IInv, [Next]_vars
    PROVE  MarksFollowBooks' /\ AppliedIsBooked'
  <1>. USE DEF IInv, MarksFollowBooks, AppliedIsBooked
  <1>0. \A f \in Refunds : Accounted(f) => Accounted(f)'
    BY LedgerGrows, NextTypeOK DEF Accounted, TypeOK
  <1>1. ASSUME NEW j \in Jobs, NEW f \in Refunds, Starts(j, f)
        PROVE  MarksFollowBooks' /\ AppliedIsBooked'
    <2>1. \A i \in Jobs : job[i].refund \in Refunds
      BY DEF TypeOK, JobRecord
    <2> QED
      BY <1>0, <1>1, <2>1, StartFacts DEF Accounted
  <1>2. ASSUME NEW j \in Jobs, Step(j)
        PROVE  MarksFollowBooks' /\ AppliedIsBooked'
    <2>. DEFINE f == job[j].refund
    <2>0. f \in Refunds /\ \A i \in Jobs : job[i].refund \in Refunds
      BY DEF TypeOK, JobRecord
    <2>1. ASSUME NEW g \in Refunds, g = f, job'[j].phase = "mark"
          PROVE  Accounted(g)'
      <3>1. CASE Book(j)
        <4>1. job[j].kind # "cancel" =>
                ledger'.entries = [ledger.entries EXCEPT ![g] = @ + 1]
          BY <2>1, <3>1 DEF Book, TypeOK
        <4>2. job[j].kind = "cancel" => job'[j].phase = "idle"
          BY <3>1 DEF Book, Goto, TypeOK, JobRecord
        <4> QED
          BY <2>1, <4>1, <4>2 DEF Accounted, TypeOK
      <3>2. CASE Summarise(j)
        <4>1. ToReverse(j) = 0
          BY <2>1, <3>2, AmountsAreNat DEF Summarise, TypeOK, JobRecord
        <4>2. Accounted(g)
          BY <2>1, <4>1 DEF ToReverse, Accounted
        <4> QED
          BY <1>0, <4>2
      <3>3. CASE CheckBooked(j)
        <4>1. Accounted(g)
          BY <2>1, <3>3 DEF CheckBooked, Goto, TypeOK, JobRecord, Accounted
        <4> QED
          BY <1>0, <4>1
      <3>4. CASE ~Book(j) /\ ~Summarise(j) /\ ~CheckBooked(j)
        BY <1>2, <2>1, <3>4
        DEF TypeOK, JobRecord, Goto, Step, ReserveGuard, MarkConflict,
            FindOperation, UpsertOperation, ClaimOperation,
            SettlementFails, MarkApplied, CompleteGuard, Abort
      <3> QED
        BY <3>1, <3>2, <3>3, <3>4
    <2>2. job'[j].phase = "complete" => op'[f].applied
      BY <1>2, <2>0
      DEF TypeOK, JobRecord, Operations, Goto, Step, ReserveGuard,
          MarkConflict, FindOperation, UpsertOperation, ClaimOperation,
          SettlementFails, CheckBooked, Summarise, Book, MarkApplied,
          CompleteGuard, Abort
    <2>3. MarksFollowBooks'
      BY <1>0, <1>2, <2>0, <2>1, <2>2, StepFacts, OperationsRemember
      DEF Accounted
    <2>4. ASSUME NEW g \in Refunds, op'[g].applied
          PROVE  Accounted(g)'
      <3>1. CASE op[g].applied
        BY <1>0, <3>1 DEF Accounted
      <3>2. CASE ~op[g].applied
        <4>1. g = f /\ job[j].phase = "mark"
          BY <1>2, <2>0, <2>4, <3>2
          DEF TypeOK, Operations, Step, ReserveGuard, MarkConflict,
              FindOperation, UpsertOperation, ClaimOperation,
              SettlementFails, CheckBooked, Summarise, Book, MarkApplied,
              CompleteGuard, Abort
        <4> QED
          BY <1>0, <2>0, <4>1
      <3> QED
        BY <3>1, <3>2
    <2> QED
      BY <2>3, <2>4 DEF Accounted
  <1>3. CASE PrepareDirectRefund \/ CompleteDirectRefund \/ UNCHANGED vars
    <2>1. UNCHANGED <<job, op>>
      BY <1>3 DEF PrepareDirectRefund, CompleteDirectRefund, vars
    <2>2. \A i \in Jobs : job[i].refund \in Refunds
      BY DEF TypeOK, JobRecord
    <2> QED
      BY <1>0, <2>1, <2>2 DEF Accounted
  <1> QED
    BY <1>1, <1>2, <1>3 DEF Next, Starts

LEMMA CompletedGuardStep ==
    ASSUME IInv, [Next]_vars PROVE CompletedGuardHasRefund'
  <1>. USE DEF IInv, CompletedGuardHasRefund
  <1>0. (\E f \in Refunds : op[f].applied) => \E f \in Refunds : op'[f].applied
    BY OperationsRemember
  <1>1. CASE UNCHANGED <<guard, direct>>
    BY <1>0, <1>1
  <1>2. ASSUME NEW j \in Jobs, CompleteGuard(j)
        PROVE  CompletedGuardHasRefund'
    <2>1. job[j].refund \in Refunds /\ op[job[j].refund].applied
      BY <1>2 DEF CompleteGuard, MarksFollowBooks, TypeOK, JobRecord
    <2> QED
      BY <1>2, <2>1 DEF CompleteGuard, TypeOK, Guards, NoGuard
  <1>3. ASSUME NEW j \in Jobs, ReserveGuard(j) \/ MarkConflict(j)
        PROVE  CompletedGuardHasRefund'
    <2>1. guard'.status = "COMPLETED" => guard' = guard
      BY <1>3
      DEF ReserveGuard, MarkConflict, ProviderGuard, TypeOK, Guards,
          GuardComesFirst, NoGuard, At
    <2> QED
      BY <1>0, <1>3, <2>1 DEF ReserveGuard, MarkConflict
  <1>4. CASE PrepareDirectRefund \/ CompleteDirectRefund
    BY <1>4
    DEF PrepareDirectRefund, CompleteDirectRefund, TypeOK, Guards, NoGuard
  <1> QED
    BY <1>1, <1>2, <1>3, <1>4
    DEF Next, Step, Start, ReceiveRefund, BeginConfirm, ReceiveCancellation,
        FindOperation, UpsertOperation, ClaimOperation, SettlementFails,
        CheckBooked, Summarise, Book, MarkApplied, Abort, vars

-----------------------------------------------------------------------------
(* The theorems.                                                           *)

LEMMA InitIInv == Init => IInv
  <1>1. Init => TypeOK
    BY InitTypeOK
  <1>2. ASSUME Init
        PROVE  /\ CancellationHasNoOperation /\ GuardComesFirst
               /\ WebhooksYield /\ ConfirmationIsRecorded
               /\ SettledAfterReview /\ MarksFollowBooks
    BY <1>2
    DEF Init, NewJob, NoOperation, CancellationHasNoOperation,
        GuardComesFirst, WebhooksYield, ConfirmationIsRecorded,
        SettledAfterReview, MarksFollowBooks, Settling
  <1>3. ASSUME Init
        PROVE  /\ ManualRefundIsReviewed /\ DirectRefundIsAlone
               /\ AppliedIsBooked /\ CompletedGuardHasRefund
    BY <1>3, ChannelAssumption
    DEF Init, NoOperation, NoGuard, ManualRefundIsReviewed,
        DirectRefundIsAlone, AppliedIsBooked, CompletedGuardHasRefund
  <1> QED
    BY <1>1, <1>2, <1>3 DEF IInv

\* The invariant holds in every state, for any number of handlers, refunds
\* and amounts.
THEOREM Invariance == Spec => []IInv
  <1>1. IInv /\ [Next]_vars => IInv'
    <2>. SUFFICES ASSUME IInv, [Next]_vars PROVE IInv'
      OBVIOUS
    <2>1. TypeOK'
      BY NextTypeOK DEF IInv
    <2> QED
      BY <2>1, CancellationStep, GuardComesFirstStep, WebhooksYieldStep,
         ConfirmationStep, ReviewStep, DirectRefundIsAloneStep,
         MarksFollowBooksStep, CompletedGuardStep
      DEF IInv
  <1> QED
    BY <1>1, InitIInv, PTL DEF Spec

\* The variables keep their types.
THEOREM TypeCorrect == Spec => []TypeOK
  <1>1. IInv => TypeOK
    BY DEF IInv
  <1> QED
    BY <1>1, Invariance, PTL

\* No customer is refunded by the provider and by the operator: the guard row
\* keeps webhooks out, and what a confirmation has claimed keeps the
\* operator's completion out.
THEOREM CustomerIsRefundedOnce == Spec => []OneChannelPays
  <1>1. IInv => OneChannelPays
    BY DEF IInv, DirectRefundIsAlone, OneChannelPays
  <1> QED
    BY <1>1, Invariance, PTL

\* A direct refund is the whole order's amount, under a guard of its channel.
THEOREM DirectRefundReturnsAll == Spec => []DirectRefundIsWhole
  <1>1. IInv => DirectRefundIsWhole
    BY ChannelAssumption
    DEF IInv, TypeOK, DirectRefundIsAlone, DirectRefundIsWhole
  <1> QED
    BY <1>1, Invariance, PTL

\* Operations that are marked as applied have their entry.
THEOREM MarkedAfterBooking == Spec => []AppliedIsBooked
  <1>1. IInv => AppliedIsBooked
    BY DEF IInv
  <1> QED
    BY <1>1, Invariance, PTL

\* A manual refund reaches the ledger only through its review.
THEOREM ReviewComesFirst == Spec => []ManualRefundIsReviewed
  <1>1. IInv => ManualRefundIsReviewed
    BY DEF IInv
  <1> QED
    BY <1>1, Invariance, PTL

\* A guard is completed by a refund of its channel.
THEOREM GuardCompletedByRefund == Spec => []CompletedGuardHasRefund
  <1>1. IInv => CompletedGuardHasRefund
    BY DEF IInv
  <1> QED
    BY <1>1, Invariance, PTL
=============================================================================
