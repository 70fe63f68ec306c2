----------------------- MODULE OrderSettlementsProofs -----------------------
(* Theorems about OrderSettlements, for every value of its constants.      *)
EXTENDS OrderSettlements, FiniteSetTheorems, TLAPS

-----------------------------------------------------------------------------
(* The inductive invariant.                                                *)

\* A job under way has an event.
JobsHaveEvents ==
  \A j \in Jobs : job[j].phase # "idle" => job[j].event \in Events

\* A job whose transaction has written the row of the offset, and only that
\* job, holds the row's lock until the transaction ends.
HasWritten(j) == job[j].phase \in {"shadow", "commit"} /\ job[j].target # "none"
LockIsHeld == \A j \in Jobs : offsetLock = j <=> HasWritten(j)

\* A job knows where to move the offset once it has read its row, and creates
\* an entry only with the row written.
TargetsFollowReads ==
  \A j \in Jobs :
    /\ job[j].phase \in {"check", "summary", "offset"} =>
         job[j].target = "none" /\ ~job[j].creates
    /\ job[j].phase = "lock" =>
         job[j].target \in {"captured", "expired", "refunded"}
    /\ job[j].phase \in {"shadow", "commit"} /\ job[j].target = "none" =>
         ~job[j].creates

\* The credit is returned only after it was captured.
ReturnsFollowCapture ==
  \A j \in Jobs :
    /\ job[j].phase \in {"lock", "shadow", "commit"}
    /\ job[j].target = "refunded"
    => ledger.captured = 1

\* A job that is to create an entry is the first one to.
CreatesFirstEntry ==
  \A j \in Jobs : HasWritten(j) /\ job[j].creates =>
    /\ job[j].target \in {"captured", "refunded"}
    /\ OffsetEntry(job[j].target) = 0

\* A job that captures without creating the entry has found it.
CaptureIsBooked ==
  /\ \A j \in Jobs :
       HasWritten(j) /\ job[j].target = "captured" /\ ~job[j].creates =>
         ledger.captured = 1
  /\ offset = "captured" => ledger.captured = 1

\* A payment is committed with its credit captured, before or with it.
PaymentCaptures ==
  /\ offset = "none" => Credit = 0
  /\ \A j \in Jobs :
       /\ At(j, {"paid"}, "commit") /\ ~job[j].duplicate
       /\ job[j].target # "expired" /\ Credit > 0
       => \/ ledger.captured = 1
          \/ job[j].creates /\ job[j].target = "captured"
  /\ \A j \in Jobs : At(j, {"paid"}, "lock") =>
       job[j].target \in {"captured", "expired"}

IInv ==
  /\ TypeOK
  /\ JobsHaveEvents
  /\ LockIsHeld
  /\ TargetsFollowReads
  /\ ReturnsFollowCapture
  /\ CreatesFirstEntry
  /\ CaptureIsBooked
  /\ PaymentCaptures
  /\ CreditMovesOnce
  /\ HoldPutsSellerUnderReview

-----------------------------------------------------------------------------
(* Type correctness.                                                       *)

\* What an event refers to.
LEMMA EventRefs ==
    ASSUME NEW e \in Events
    PROVE  /\ e.type \in {"paid", "cancelled", "refund", "dispute_open",
                          "dispute_won"}
           /\ e.type = "refund" => e.ref \in Refunds
           /\ e.type \in {"dispute_open", "dispute_won"} => e.ref \in Disputes
  BY DEF Events

\* The amounts of the summaries are naturals.
LEMMA AmountsAreNat ==
    ASSUME ledger \in Ledgers
    PROVE  /\ Reversed \in Nat /\ Remaining \in Nat
           /\ HeldAmount \in Nat /\ Holdable \in Nat
           /\ \A f \in Refunds : Refunded(f) \in Nat
           /\ \A limit \in Nat : Asked(limit) \in Nat
  <1>. USE SettlementAssumption
  <1>1. /\ ledger.refunded \in Nat /\ ledger.cancelled.sum \in Nat
        /\ ledger.paid.sum \in Nat
        /\ ledger.held \in Nat /\ ledger.reinstated \in Nat
    BY DEF Ledgers, Booking
  <1>2. \A a, b \in Nat : Monus(a, b) \in Nat /\ Minimum(a, b) \in Nat
    BY DEF Monus, Minimum
  <1>3. Reversed \in Nat
    BY <1>1 DEF Reversed
  <1>4. Remaining \in Nat
    BY <1>1, <1>2, <1>3 DEF Remaining
  <1>5. HeldAmount \in Nat
    BY <1>1, <1>2 DEF HeldAmount
  <1>6. Holdable \in Nat
    BY <1>2, <1>4, <1>5 DEF Holdable
  <1>7. ASSUME NEW f \in Refunds PROVE Refunded(f) \in Nat
    <2>1. RefundAmount[f] + Credit \in Nat /\ RefundAmount[f] + 0 \in Nat
      OBVIOUS
    <2>2. RefundAmount[f] + (IF ReversesCredit(f) THEN Credit ELSE 0) \in Nat
      BY <2>1
    <2> QED
      BY <1>2, <1>4, <2>2 DEF Refunded
  <1>8. ASSUME NEW limit \in Nat PROVE Asked(limit) \in Nat
    BY <1>2 DEF Asked
  <1> QED
    BY <1>3, <1>4, <1>5, <1>6, <1>7, <1>8

\* Entries that a step books leave the ledger a ledger.
LEMMA BookingKeepsLedger ==
    ASSUME NEW l \in Ledgers, NEW amount \in Nat
    PROVE  /\ [l EXCEPT !.paid = Book(@, amount)] \in Ledgers
           /\ [l EXCEPT !.cancelled = Book(@, amount)] \in Ledgers
           /\ [l EXCEPT !.captured = @ + 1] \in Ledgers
           /\ [l EXCEPT !.returned = @ + 1] \in Ledgers
  BY DEF Ledgers, Booking, Book

LEMMA RefundKeepsLedger ==
    ASSUME ledger \in Ledgers, NEW f \in Refunds, NEW amount \in Nat
    PROVE  RefundBooked(f, amount) \in Ledgers
  <1>. DEFINE counts == [ledger.refunds EXCEPT ![f] = @ + 1]
  <1>1. counts \in [Refunds -> Nat]
    BY DEF Ledgers
  <1>2. ledger.refunded + amount \in Nat
    BY DEF Ledgers
  <1>3. RefundBooked(f, amount) =
          [[ledger EXCEPT !.refunds = counts]
             EXCEPT !.refunded = ledger.refunded + amount]
    BY DEF RefundBooked, Ledgers
  <1>. HIDE DEF counts
  <1> QED
    BY <1>1, <1>2, <1>3 DEF Ledgers

LEMMA HoldKeepsLedger ==
    ASSUME ledger \in Ledgers, NEW d \in Disputes, NEW amount \in Nat
    PROVE  /\ [ledger EXCEPT !.holds[d] = @ + 1, !.held = @ + amount]
                \in Ledgers
           /\ [ledger EXCEPT !.wins[d] = @ + 1, !.reinstated = @ + amount]
                \in Ledgers
  <1>. DEFINE holds == [ledger.holds EXCEPT ![d] = @ + 1]
  <1>. DEFINE wins == [ledger.wins EXCEPT ![d] = @ + 1]
  <1>1. holds \in [Disputes -> Nat] /\ wins \in [Disputes -> Nat]
    BY DEF Ledgers
  <1>2. ledger.held + amount \in Nat /\ ledger.reinstated + amount \in Nat
    BY DEF Ledgers
  <1>3. [ledger EXCEPT !.holds[d] = @ + 1, !.held = @ + amount] =
          [[ledger EXCEPT !.holds = holds]
             EXCEPT !.held = ledger.held + amount]
    BY DEF Ledgers
  <1>4. [ledger EXCEPT !.wins[d] = @ + 1, !.reinstated = @ + amount] =
          [[ledger EXCEPT !.wins = wins]
             EXCEPT !.reinstated = ledger.reinstated + amount]
    BY DEF Ledgers
  <1>. HIDE DEF holds, wins
  <1> QED
    BY <1>1, <1>2, <1>3, <1>4 DEF Ledgers

LEMMA InitTypeOK == Init => TypeOK
  <1>. SUFFICES ASSUME Init PROVE TypeOK
    OBVIOUS
  <1>. USE SettlementAssumption
  <1>1. ledger \in Ledgers
    BY DEF Init, Ledgers, Unbooked, Booking
  <1>2. IdleJob \in JobRecord
    BY DEF IdleJob, JobRecord, Phases, Offsets
  <1>3. job \in [Jobs -> JobRecord]
    BY <1>2 DEF Init
  <1>4. shadow \in [refund: Nat, status: PaymentStatuses, disputed: BOOLEAN]
    BY DEF Init, PaymentStatuses
  <1>5. offset \in Offsets /\ handlings \in 0..MaxHandlings
    BY DEF Init, Offsets
  <1>6. /\ offsetLock \in Jobs \cup {None} /\ underReview \in BOOLEAN
        /\ handled \subseteq Events /\ paidLate \in BOOLEAN
        /\ overlapped \in BOOLEAN
    BY DEF Init
  <1> QED
    BY <1>1, <1>3, <1>4, <1>5, <1>6 DEF TypeOK

\* A job that goes on or ends is a job.
LEMMA MoveKeepsJobs ==
    ASSUME job \in [Jobs -> JobRecord], NEW j \in Jobs,
           \/ \E phase \in Phases : Move(j, phase)
           \/ \E ok \in BOOLEAN : End(j, ok)
    PROVE  job' \in [Jobs -> JobRecord]
  BY DEF Move, End, JobRecord, Phases

\* What the reads and computations of a job write into it.
LEMMA KnowledgeKeepsJob ==
    ASSUME NEW r \in JobRecord, NEW phase \in Phases, NEW b \in BOOLEAN,
           NEW n \in Nat, NEW target \in Offsets
    PROVE  /\ [r EXCEPT !.phase = phase, !.duplicate = b] \in JobRecord
           /\ [r EXCEPT !.phase = phase, !.amount = n, !.moves = b]
                \in JobRecord
           /\ [r EXCEPT !.phase = phase, !.target = target] \in JobRecord
           /\ [r EXCEPT !.phase = phase, !.creates = b] \in JobRecord
           /\ [r EXCEPT !.phase = phase, !.seen = n] \in JobRecord
           /\ [r EXCEPT !.phase = phase, !.amount = n] \in JobRecord
  BY DEF JobRecord

\* What a job under way knows.
LEMMA JobFacts ==
    ASSUME TypeOK, JobsHaveEvents, NEW j \in Jobs, job[j].phase # "idle"
    PROVE  /\ job[j] \in JobRecord /\ job[j].event \in Events
           /\ job[j].amount \in Nat /\ job[j].seen \in Nat
           /\ job[j].target \in Offsets
           /\ job[j].event.type = "refund" => job[j].event.ref \in Refunds
           /\ job[j].event.type \in {"dispute_open", "dispute_won"} =>
                job[j].event.ref \in Disputes
  BY EventRefs DEF TypeOK, JobsHaveEvents, JobRecord

\* The steps before the transaction's end.
LEMMA ReadTypes ==
    ASSUME TypeOK, JobsHaveEvents, NEW j \in Jobs,
           \/ CheckBooked(j) \/ RefusePaid(j)
           \/ SummariseRefund(j) \/ SummariseCancelled(j)
           \/ ReadOffsetToCapture(j) \/ ReadOffsetToReverse(j)
           \/ WriteOffset(j) \/ ReadShadow(j)
    PROVE  TypeOK'
  <1>. USE DEF TypeOK
  <1>1. CASE RefusePaid(j)
    BY <1>1, MoveKeepsJobs DEF RefusePaid, order, received
  <1>2. CASE CheckBooked(j)
    <2>. DEFINE found == ledger.paid.n > 0
    <2>1. job[j].event.type = "paid" => Booked(job[j].event) = found
      BY DEF Booked, PaidBooked
    <2>2. job' \in [Jobs -> JobRecord]
      <3>1. CASE job[j].event.type = "paid"
        <4>1. job' = [job EXCEPT ![j] = [job[j] EXCEPT !.phase = "offset",
                                                      !.duplicate = found]]
          BY <1>2, <2>1, <3>1 DEF CheckBooked
        <4>2. found \in BOOLEAN
          OBVIOUS
        <4>. HIDE DEF found
        <4> QED
          BY <4>1, <4>2, KnowledgeKeepsJob DEF Phases
      <3>2. CASE job[j].event.type # "paid"
        BY <1>2, <3>2, MoveKeepsJobs DEF CheckBooked, Phases
      <3> QED
        BY <3>1, <3>2
    <2> QED
      BY <1>2, <2>2 DEF CheckBooked, order, received
  <1>3. CASE SummariseRefund(j)
    <2>1. Refunded(job[j].event.ref) \in Nat
      BY <1>3, JobFacts, AmountsAreNat DEF SummariseRefund, At
    <2>. DEFINE f == job[j].event.ref
    <2>. DEFINE phase == IF ReversesCredit(f) THEN "offset" ELSE "shadow"
    <2>2. ReversesCredit(f) \in BOOLEAN /\ phase \in Phases
      BY DEF ReversesCredit, Phases
    <2>3. job' \in [Jobs -> JobRecord]
      <3>1. CASE Refunded(f) = 0
        <4>0. ~(Refunded(f) > 0)
          BY <3>1
        <4>1. End(j, TRUE)
          BY <1>3, <4>0 DEF SummariseRefund
        <4> QED
          BY <4>1, MoveKeepsJobs
      <3>2. CASE Refunded(f) # 0
        <4>1. job' = [job EXCEPT ![j] =
                        [job[j] EXCEPT !.phase = phase,
                                       !.amount = Refunded(f),
                                       !.moves = ReversesCredit(f)]]
          BY <1>3, <3>2 DEF SummariseRefund
        <4>. HIDE DEF phase
        <4> QED
          BY <2>1, <2>2, <4>1, KnowledgeKeepsJob
      <3> QED
        BY <3>1, <3>2
    <2> QED
      BY <1>3, <2>3 DEF SummariseRefund, order, received
  <1>4. CASE SummariseCancelled(j)
    <2>1. Remaining \in Nat /\ HasOffset \in BOOLEAN
      BY AmountsAreNat DEF HasOffset
    <2>. DEFINE phase == IF HasOffset THEN "offset" ELSE "shadow"
    <2>2. job' \in [Jobs -> JobRecord]
      <3>1. CASE Remaining = 0
        <4>0. ~(Remaining > 0)
          BY <3>1
        <4>1. End(j, TRUE)
          BY <1>4, <4>0 DEF SummariseCancelled
        <4> QED
          BY <4>1, MoveKeepsJobs
      <3>2. CASE Remaining # 0
        <4>1. job' = [job EXCEPT ![j] =
                        [job[j] EXCEPT !.phase = phase,
                                       !.amount = Remaining,
                                       !.moves = HasOffset]]
          BY <1>4, <3>2 DEF SummariseCancelled
        <4>2. phase \in Phases
          BY DEF Phases
        <4>. HIDE DEF phase
        <4> QED
          BY <2>1, <4>1, <4>2, KnowledgeKeepsJob
      <3> QED
        BY <3>1, <3>2
    <2> QED
      BY <1>4, <2>2 DEF SummariseCancelled, order, received
  <1>5. CASE ReadOffsetToCapture(j)
    <2>. DEFINE target == IF paidLate /\ ~job[j].duplicate
                          THEN "expired" ELSE "captured"
    <2>1. job' \in [Jobs -> JobRecord]
      <3>1. CASE offset = "authorized"
        <4>1. job' = [job EXCEPT ![j] = [job[j] EXCEPT !.phase = "lock",
                                                      !.target = target]]
          BY <1>5, <3>1 DEF ReadOffsetToCapture
        <4>2. target \in Offsets
          BY DEF Offsets
        <4>. HIDE DEF target
        <4> QED
          BY <4>1, <4>2, KnowledgeKeepsJob DEF Phases
      <3>2. CASE offset # "authorized"
        BY <1>5, <3>2, MoveKeepsJobs DEF ReadOffsetToCapture, Phases
      <3> QED
        BY <3>1, <3>2
    <2> QED
      BY <1>5, <2>1 DEF ReadOffsetToCapture, order, received
  <1>6. CASE ReadOffsetToReverse(j)
    <2>. DEFINE phase == IF offset = "captured" THEN "lock" ELSE "shadow"
    <2>. DEFINE target == IF offset = "captured" THEN "refunded" ELSE "none"
    <2>0. job' = [job EXCEPT ![j] = [job[j] EXCEPT !.phase = phase,
                                                  !.target = target]]
      BY <1>6 DEF ReadOffsetToReverse
    <2>a. phase \in Phases /\ target \in Offsets
      BY DEF Phases, Offsets
    <2>1. job' \in [Jobs -> JobRecord]
      <3>. HIDE DEF phase, target
      <3> QED
        BY <2>0, <2>a, KnowledgeKeepsJob
    <2> QED
      BY <1>6, <2>1 DEF ReadOffsetToReverse, order, received
  <1>7. CASE WriteOffset(j)
    <2>. DEFINE phase == IF At(j, {"paid"}, "lock") THEN "commit" ELSE "shadow"
    <2>. DEFINE creates == /\ job[j].target # "expired"
                           /\ OffsetEntry(job[j].target) = 0
    <2>0. job' = [job EXCEPT ![j] = [job[j] EXCEPT !.phase = phase,
                                                  !.creates = creates]]
      BY <1>7 DEF WriteOffset
    <2>a. phase \in Phases /\ creates \in BOOLEAN
      BY DEF Phases
    <2>1. job' \in [Jobs -> JobRecord]
      <3>. HIDE DEF phase, creates
      <3> QED
        BY <2>0, <2>a, KnowledgeKeepsJob
    <2> QED
      BY <1>7, <2>1 DEF WriteOffset, order, received
  <1>8. CASE ReadShadow(j)
    <2>0. job' = [job EXCEPT ![j] = [job[j] EXCEPT !.phase = "commit",
                                                  !.seen = shadow.refund]]
      BY <1>8 DEF ReadShadow
    <2>1. job' \in [Jobs -> JobRecord]
      BY <2>0, KnowledgeKeepsJob DEF Phases
    <2> QED
      BY <1>8, <2>1 DEF ReadShadow, order, received
  <1> QED
    BY <1>1, <1>2, <1>3, <1>4, <1>5, <1>6, <1>7, <1>8

\* The commit of a job's transaction: what it does to the offset.
LEMMA OffsetTypes ==
    ASSUME TypeOK, JobsHaveEvents, NEW j \in Jobs, job[j].phase = "commit",
           NEW l \in Ledgers
    PROVE  /\ OffsetAfter(j) \in Offsets
           /\ Unlocked(j) \in Jobs \cup {None}
           /\ WithOffsetEntry(j, l) \in Ledgers
  BY JobFacts, BookingKeepsLedger
  DEF TypeOK, OffsetAfter, Unlocked, WithOffsetEntry

LEMMA CommitTypes ==
    ASSUME TypeOK, JobsHaveEvents, NEW j \in Jobs,
           CommitPaid(j) \/ CommitReversal(j)
    PROVE  TypeOK'
  <1>. USE DEF TypeOK
  <1>1. CASE CommitPaid(j)
    <2>1. [ledger EXCEPT !.paid = Book(@, Cash + Credit)] \in Ledgers
      <3>1. Cash + Credit \in Nat
        BY SettlementAssumption
      <3> QED
        BY <3>1, BookingKeepsLedger
    <2>2. ledger' \in Ledgers
      BY <1>1, <2>1, OffsetTypes DEF CommitPaid, At
    <2>3. job' \in [Jobs -> JobRecord]
      BY <1>1, MoveKeepsJobs DEF CommitPaid
    <2>4. offset' \in Offsets /\ offsetLock' \in Jobs \cup {None}
      BY <1>1, OffsetTypes DEF CommitPaid, At
    <2> QED
      BY <1>1, <2>2, <2>3, <2>4 DEF CommitPaid, received
  <1>2. CASE CommitReversal(j)
    <2>. DEFINE amount == job[j].amount
    <2>. DEFINE sum == job[j].seen + job[j].amount
    <2>1. amount \in Nat /\ sum \in Nat
      BY <1>2, JobFacts DEF CommitReversal, At
    <2>2. /\ [ledger EXCEPT !.cancelled = Book(@, amount)] \in Ledgers
          /\ job[j].event.type = "refund" =>
               RefundBooked(job[j].event.ref, amount) \in Ledgers
      BY <1>2, <2>1, JobFacts, BookingKeepsLedger, RefundKeepsLedger
      DEF CommitReversal, At
    <2>3. ledger' \in Ledgers
      BY <1>2, <2>2, OffsetTypes DEF CommitReversal, At
    <2>4. \A old \in PaymentStatuses :
            /\ StatusAfterRefund(sum, old) \in PaymentStatuses
            /\ StatusAfterCancellation(sum, old) \in PaymentStatuses
      BY DEF StatusAfterRefund, StatusAfterCancellation, PaymentStatuses
    <2>5. shadow' \in [refund: Nat, status: PaymentStatuses, disputed: BOOLEAN]
      BY <1>2, <2>1, <2>4 DEF CommitReversal
    <2>6. job' \in [Jobs -> JobRecord]
      BY <1>2, MoveKeepsJobs DEF CommitReversal
    <2>7. offset' \in Offsets /\ offsetLock' \in Jobs \cup {None}
      BY <1>2, OffsetTypes DEF CommitReversal, At
    <2> QED
      BY <1>2, <2>3, <2>5, <2>6, <2>7 DEF CommitReversal, received
  <1> QED
    BY <1>1, <1>2

LEMMA DisputeTypes ==
    ASSUME TypeOK, JobsHaveEvents, NEW j \in Jobs,
           \/ SummariseDispute(j) \/ LookForHold(j)
           \/ WriteHold(j) \/ MarkRisk(j)
    PROVE  TypeOK'
  <1>. USE DEF TypeOK
  <1>1. CASE SummariseDispute(j)
    <2>1. Asked(Holdable) \in Nat /\ Asked(HeldAmount) \in Nat
      BY AmountsAreNat
    <2>. DEFINE amount == IF job[j].event.type = "dispute_open"
                          THEN Asked(Holdable) ELSE Asked(HeldAmount)
    <2>2. job' \in [Jobs -> JobRecord]
      <3>1. CASE ~PaidBooked
        BY <1>1, <3>1, MoveKeepsJobs DEF SummariseDispute
      <3>2. CASE PaidBooked
        <4>1. job' = [job EXCEPT ![j] = [job[j] EXCEPT !.phase = "hold",
                                                      !.amount = amount]]
          BY <1>1, <3>2 DEF SummariseDispute
        <4>2. amount \in Nat
          BY <2>1
        <4>. HIDE DEF amount
        <4> QED
          BY <4>1, <4>2, KnowledgeKeepsJob DEF Phases
      <3> QED
        BY <3>1, <3>2
    <2> QED
      BY <1>1, <2>2 DEF SummariseDispute, order, received
  <1>2. CASE LookForHold(j)
    <2>1. job' \in [Jobs -> JobRecord]
      BY <1>2, MoveKeepsJobs DEF LookForHold, Phases
    <2> QED
      BY <1>2, <2>1 DEF LookForHold, received
  <1>3. CASE WriteHold(j)
    <2>1. ledger' \in Ledgers
      BY <1>3, JobFacts, HoldKeepsLedger DEF WriteHold, At
    <2>2. job' \in [Jobs -> JobRecord]
      BY <1>3, MoveKeepsJobs DEF WriteHold, Phases
    <2> QED
      BY <1>3, <2>1, <2>2 DEF WriteHold, received
  <1>4. CASE MarkRisk(j)
    <2>1. job' \in [Jobs -> JobRecord]
      BY <1>4, MoveKeepsJobs DEF MarkRisk
    <2> QED
      BY <1>4, <2>1 DEF MarkRisk, received
  <1> QED
    BY <1>1, <1>2, <1>3, <1>4

LEMMA EdgeTypes ==
    ASSUME TypeOK, JobsHaveEvents, NEW j \in Jobs,
           Finish(j) \/ Abort(j) \/ \E e \in Events : Receive(j, e)
    PROVE  TypeOK'
  <1>. USE DEF TypeOK
  <1>0. IdleJob \in JobRecord
    BY DEF IdleJob, JobRecord, Phases, Offsets
  <1>1. CASE Finish(j)
    <2>1. handled' \subseteq Events
      BY <1>1, JobFacts DEF Finish
    <2>2. job' \in [Jobs -> JobRecord]
      BY <1>0, <1>1 DEF Finish
    <2> QED
      BY <1>1, <2>1, <2>2 DEF Finish, order
  <1>2. CASE Abort(j)
    <2>1. job' \in [Jobs -> JobRecord]
      BY <1>0, <1>2 DEF Abort
    <2> QED
      BY <1>2, <2>1 DEF Abort, Unlocked, order, received
  <1>3. ASSUME NEW e \in Events, Receive(j, e)
        PROVE  TypeOK'
    <2>1. [IdleJob EXCEPT !.phase = "check", !.event = e] \in JobRecord
      BY <1>0 DEF JobRecord, Phases
    <2>2. job' \in [Jobs -> JobRecord]
      BY <1>3, <2>1 DEF Receive, Start
    <2>3. handlings' \in 0..MaxHandlings
      BY <1>3, SettlementAssumption DEF Receive
    <2>4. overlapped' \in BOOLEAN
      BY <1>3 DEF Receive
    <2> QED
      BY <1>3, <2>2, <2>3, <2>4 DEF Receive, order
  <1> QED
    BY <1>1, <1>2, <1>3

\* Every step keeps the variables well typed.
LEMMA NextTypeOK == TypeOK /\ JobsHaveEvents /\ [Next]_vars => TypeOK'
  <1>. SUFFICES ASSUME TypeOK, JobsHaveEvents, [Next]_vars PROVE TypeOK'
    OBVIOUS
  <1>1. CASE UNCHANGED vars
    BY <1>1 DEF vars, TypeOK
  <1> QED
    BY <1>1, ReadTypes, CommitTypes, DisputeTypes, EdgeTypes DEF Next, Step

-----------------------------------------------------------------------------
(* What the steps do to the offset.                                        *)

OffsetInv ==
  /\ LockIsHeld
  /\ TargetsFollowReads
  /\ ReturnsFollowCapture
  /\ CreatesFirstEntry
  /\ CaptureIsBooked
  /\ PaymentCaptures
  /\ CreditMovesOnce

\* The steps that have nothing to do with the offset.
Aside(j) ==
  \/ CheckBooked(j) \/ RefusePaid(j)
  \/ SummariseRefund(j) \/ SummariseCancelled(j)
  \/ SummariseDispute(j) \/ LookForHold(j) \/ WriteHold(j) \/ MarkRisk(j)

\* The steps that start or end a run of a handler.
Edge(j) == Finish(j) \/ Abort(j) \/ \E e \in Events : Receive(j, e)

\* A step of a job is no step of another one.
LEMMA OthersStay ==
    ASSUME TypeOK, NEW j \in Jobs, Step(j) \/ Edge(j)
    PROVE  \A i \in Jobs \ {j} : job'[i] = job[i]
  <1>. USE DEF TypeOK, Move, End
  <1>1. CASE CheckBooked(j) \/ RefusePaid(j)
    BY <1>1 DEF CheckBooked, RefusePaid
  <1>2. CASE SummariseRefund(j) \/ SummariseCancelled(j)
    BY <1>2 DEF SummariseRefund, SummariseCancelled
  <1>3. CASE ReadOffsetToCapture(j) \/ ReadOffsetToReverse(j)
    BY <1>3 DEF ReadOffsetToCapture, ReadOffsetToReverse
  <1>4. CASE WriteOffset(j) \/ ReadShadow(j)
    BY <1>4 DEF WriteOffset, ReadShadow
  <1>5. CASE CommitPaid(j) \/ CommitReversal(j)
    BY <1>5 DEF CommitPaid, CommitReversal
  <1>6. CASE SummariseDispute(j) \/ LookForHold(j) \/ WriteHold(j) \/ MarkRisk(j)
    BY <1>6 DEF SummariseDispute, LookForHold, WriteHold, MarkRisk
  <1>7. CASE Edge(j)
    BY <1>7 DEF Edge, Finish, Abort, Receive, Start
  <1> QED
    BY <1>1, <1>2, <1>3, <1>4, <1>5, <1>6, <1>7 DEF Step, Edge

\* Entries, offset and lock stay as they are in a step aside, or a job that
\* dies gives its lock back; the job has not read the offset afterwards.
LEMMA QuietSteps ==
    ASSUME TypeOK, OffsetInv, NEW j \in Jobs, Aside(j) \/ Edge(j)
    PROVE  /\ offset' = offset /\ offsetLock' = Unlocked(j)
           /\ ledger'.captured = ledger.captured
           /\ ledger'.returned = ledger.returned
           /\ ledger'.paid = ledger.paid
           /\ job'[j].phase \notin {"lock", "commit"}
           /\ job'[j].phase \in {"check", "summary", "offset", "shadow"} =>
                job'[j].target = "none" /\ ~job'[j].creates
  <1>. USE DEF TypeOK, OffsetInv
  <1>1. CASE CheckBooked(j) \/ RefusePaid(j)
    BY <1>1
    DEF CheckBooked, RefusePaid, Move, End, At, order, Unlocked, LockIsHeld,
        HasWritten, TargetsFollowReads, JobRecord
  <1>2. CASE SummariseRefund(j) \/ SummariseCancelled(j)
    BY <1>2
    DEF SummariseRefund, SummariseCancelled, End, At, order, Unlocked,
        LockIsHeld, HasWritten, TargetsFollowReads, JobRecord
  <1>3. CASE SummariseDispute(j) \/ LookForHold(j) \/ MarkRisk(j)
    BY <1>3
    DEF SummariseDispute, LookForHold, MarkRisk, Move, End, At, order,
        Unlocked, LockIsHeld, HasWritten, JobRecord
  <1>4. CASE WriteHold(j)
    <2>1. /\ ledger'.captured = ledger.captured
          /\ ledger'.returned = ledger.returned
          /\ ledger'.paid = ledger.paid
      BY <1>4 DEF WriteHold, Ledgers
    <2>2. job'[j].phase = "risk"
      BY <1>4 DEF WriteHold, Move, JobRecord
    <2> QED
      BY <1>4, <2>1, <2>2
      DEF WriteHold, At, Unlocked, LockIsHeld, HasWritten
  <1>5. CASE Finish(j) \/ Abort(j)
    BY <1>5
    DEF Finish, Abort, IdleJob, order, Unlocked, LockIsHeld, HasWritten
  <1>6. ASSUME NEW e \in Events, Receive(j, e)
        PROVE  /\ offset' = offset /\ offsetLock' = Unlocked(j)
               /\ ledger' = ledger
               /\ job'[j].phase = "check"
               /\ job'[j].target = "none" /\ ~job'[j].creates
    BY <1>6
    DEF Receive, Start, IdleJob, order, Unlocked, LockIsHeld, HasWritten
  <1> QED
    BY <1>1, <1>2, <1>3, <1>4, <1>5, <1>6 DEF Aside, Edge

LEMMA QuietKeepsOffset ==
    ASSUME TypeOK, OffsetInv, NEW j \in Jobs, Aside(j) \/ Edge(j)
    PROVE  OffsetInv'
  <1>. USE DEF OffsetInv
  <1>0. \A i \in Jobs \ {j} : job'[i] = job[i]
    BY OthersStay DEF Aside, Step
  <1>1. LockIsHeld'
    BY <1>0, QuietSteps, SettlementAssumption
    DEF LockIsHeld, HasWritten, Unlocked
  <1>2. TargetsFollowReads'
    BY <1>0, QuietSteps DEF TargetsFollowReads
  <1>3. ReturnsFollowCapture'
    BY <1>0, QuietSteps DEF ReturnsFollowCapture
  <1>4. CreatesFirstEntry'
    BY <1>0, QuietSteps DEF CreatesFirstEntry, HasWritten, OffsetEntry
  <1>5. CaptureIsBooked'
    BY <1>0, QuietSteps DEF CaptureIsBooked, HasWritten
  <1>6. PaymentCaptures'
    BY <1>0, QuietSteps DEF PaymentCaptures, At
  <1>7. CreditMovesOnce'
    BY QuietSteps DEF CreditMovesOnce
  <1> QED
    BY <1>1, <1>2, <1>3, <1>4, <1>5, <1>6, <1>7

\* The offset is read: the target is what the status asks for.
LEMMA ReadingKeepsOffset ==
    ASSUME TypeOK, OffsetInv, NEW j \in Jobs,
           ReadOffsetToCapture(j) \/ ReadOffsetToReverse(j)
    PROVE  OffsetInv'
  <1>. USE DEF OffsetInv, TypeOK
  <1>0. \A i \in Jobs \ {j} : job'[i] = job[i]
    BY OthersStay DEF Step
  <1>1. UNCHANGED <<offset, offsetLock, ledger>>
    BY DEF ReadOffsetToCapture, ReadOffsetToReverse, order
  <1>2. job[j].phase = "offset" /\ job[j].target = "none" /\ ~job[j].creates
    BY DEF ReadOffsetToCapture, ReadOffsetToReverse, At, TargetsFollowReads
  <1>3. /\ job'[j].event = job[j].event
        /\ job'[j].creates = job[j].creates
        /\ job'[j].duplicate = job[j].duplicate
    BY DEF ReadOffsetToCapture, ReadOffsetToReverse, Move, End, JobRecord
  <1>4. /\ job'[j].phase \in {"lock", "shadow", "commit", "done"}
        /\ job'[j].phase = "lock" =>
             /\ job'[j].target \in {"captured", "expired", "refunded"}
             /\ job'[j].target = "refunded" => offset = "captured"
        /\ job'[j].phase # "lock" => job'[j].target = "none"
    BY <1>2 DEF ReadOffsetToCapture, ReadOffsetToReverse, Move, End, JobRecord
  <1>5. At(j, {"paid"}, "offset") =>
          /\ job'[j].phase = "lock" => job'[j].target \in {"captured", "expired"}
          /\ job'[j].phase = "commit" /\ ~job[j].duplicate =>
               offset \in {"none", "captured"}
    BY DEF ReadOffsetToCapture, ReadOffsetToReverse, Move, End, At, JobRecord
  <1>6. ~HasWritten(j) /\ ~HasWritten(j)'
    BY <1>2, <1>4 DEF HasWritten
  <1>7. LockIsHeld'
    BY <1>0, <1>1, <1>6 DEF LockIsHeld, HasWritten
  <1>8. TargetsFollowReads'
    BY <1>0, <1>2, <1>3, <1>4 DEF TargetsFollowReads
  <1>9. ReturnsFollowCapture'
    BY <1>0, <1>1, <1>4 DEF ReturnsFollowCapture, CaptureIsBooked
  <1>10. CreatesFirstEntry' /\ CaptureIsBooked'
    BY <1>0, <1>1, <1>6
    DEF CreatesFirstEntry, CaptureIsBooked, HasWritten, OffsetEntry
  <1>11. PaymentCaptures'
    BY <1>0, <1>1, <1>2, <1>3, <1>4, <1>5
    DEF PaymentCaptures, CaptureIsBooked, At
  <1> QED
    BY <1>1, <1>7, <1>8, <1>9, <1>10, <1>11 DEF CreditMovesOnce

\* The row is written: the look for the entry comes after the wait.
LEMMA WritingKeepsOffset ==
    ASSUME TypeOK, OffsetInv, NEW j \in Jobs, WriteOffset(j)
    PROVE  OffsetInv'
  <1>. USE DEF OffsetInv, TypeOK
  <1>0. \A i \in Jobs \ {j} : job'[i] = job[i] /\ ~HasWritten(i)
    BY OthersStay, SettlementAssumption DEF Step, WriteOffset, LockIsHeld
  <1>1. UNCHANGED <<offset, ledger>> /\ offsetLock' = j
    BY DEF WriteOffset, order
  <1>2. /\ job[j].phase = "lock" /\ job'[j].target = job[j].target
        /\ job[j].target \in {"captured", "expired", "refunded"}
        /\ job'[j].event = job[j].event
        /\ job'[j].duplicate = job[j].duplicate
    BY DEF WriteOffset, TargetsFollowReads, JobRecord
  <1>3. /\ job'[j].phase \in {"shadow", "commit"}
        /\ job'[j].phase = "commit" => At(j, {"paid"}, "lock")
        /\ job'[j].creates <=> /\ job[j].target # "expired"
                               /\ OffsetEntry(job[j].target) = 0
    BY DEF WriteOffset, JobRecord
  <1>4. ledger.captured \in Nat /\ ledger.captured <= 1
    BY DEF CreditMovesOnce, Ledgers
  <1>5. LockIsHeld'
    BY <1>0, <1>1, <1>2, <1>3 DEF LockIsHeld, HasWritten
  <1>6. TargetsFollowReads'
    BY <1>0, <1>2, <1>3 DEF TargetsFollowReads
  <1>7. ReturnsFollowCapture'
    BY <1>0, <1>1, <1>2 DEF ReturnsFollowCapture
  <1>8. CreatesFirstEntry'
    BY <1>0, <1>1, <1>2, <1>3 DEF CreatesFirstEntry, HasWritten, OffsetEntry
  <1>9. CaptureIsBooked'
    BY <1>0, <1>1, <1>2, <1>3, <1>4
    DEF CaptureIsBooked, HasWritten, OffsetEntry
  <1>10. PaymentCaptures'
    BY <1>0, <1>1, <1>2, <1>3, <1>4 DEF PaymentCaptures, At, OffsetEntry
  <1> QED
    BY <1>1, <1>5, <1>6, <1>7, <1>8, <1>9, <1>10 DEF CreditMovesOnce

LEMMA ReadShadowKeepsOffset ==
    ASSUME TypeOK, OffsetInv, NEW j \in Jobs, ReadShadow(j)
    PROVE  OffsetInv'
  <1>. USE DEF OffsetInv, TypeOK
  <1>0. \A i \in Jobs \ {j} : job'[i] = job[i]
    BY OthersStay DEF Step
  <1>1. UNCHANGED <<offset, offsetLock, ledger>>
    BY DEF ReadShadow, order
  <1>2. /\ job[j].phase = "shadow" /\ job'[j].phase = "commit"
        /\ job'[j].target = job[j].target /\ job'[j].creates = job[j].creates
        /\ job'[j].event = job[j].event /\ job[j].event.type # "paid"
    BY DEF ReadShadow, At, JobRecord
  <1>3. LockIsHeld' /\ CreatesFirstEntry' /\ CaptureIsBooked'
    BY <1>0, <1>1, <1>2
    DEF LockIsHeld, CreatesFirstEntry, CaptureIsBooked, HasWritten, OffsetEntry
  <1>4. TargetsFollowReads' /\ ReturnsFollowCapture'
    BY <1>0, <1>1, <1>2 DEF TargetsFollowReads, ReturnsFollowCapture
  <1>5. PaymentCaptures'
    BY <1>0, <1>1, <1>2 DEF PaymentCaptures, At
  <1> QED
    BY <1>1, <1>3, <1>4, <1>5 DEF CreditMovesOnce

\* What the commit does to the entries of the offset and of the payment.
LEMMA CommitFacts ==
    ASSUME TypeOK, JobsHaveEvents, NEW j \in Jobs,
           CommitPaid(j) \/ CommitReversal(j)
    PROVE  /\ offset' = OffsetAfter(j) /\ offsetLock' = Unlocked(j)
           /\ job[j].phase = "commit" /\ job'[j].phase = "done"
           /\ ledger'.captured =
                IF job[j].creates /\ job[j].target = "captured"
                THEN ledger.captured + 1 ELSE ledger.captured
           /\ ledger'.returned =
                IF job[j].creates /\ job[j].target # "captured"
                THEN ledger.returned + 1 ELSE ledger.returned
           /\ ledger'.paid.n > 0 =>
                \/ ledger.paid.n > 0
                \/ /\ At(j, {"paid"}, "commit") /\ ~job[j].duplicate
                   /\ job[j].target # "expired"
  <1>. USE DEF TypeOK
  <1>1. CASE CommitPaid(j)
    <2>. DEFINE books == ~job[j].duplicate /\ job[j].target # "expired"
    <2>. DEFINE l == IF books
                     THEN [ledger EXCEPT !.paid = Book(@, Cash + Credit)]
                     ELSE ledger
    <2>1. ledger' = WithOffsetEntry(j, l)
      BY <1>1 DEF CommitPaid
    <2>2. /\ l.captured = ledger.captured /\ l.returned = ledger.returned
          /\ ~books => l.paid = ledger.paid
      BY DEF Ledgers
    <2>3. l \in Ledgers
      <3>1. Cash + Credit \in Nat
        BY SettlementAssumption
      <3> QED
        BY <3>1, BookingKeepsLedger
    <2>4. At(j, {"paid"}, "commit")
      BY <1>1 DEF CommitPaid
    <2>. HIDE DEF l
    <2>5. /\ ledger'.captured =
               IF job[j].creates /\ job[j].target = "captured"
               THEN ledger.captured + 1 ELSE ledger.captured
          /\ ledger'.returned =
               IF job[j].creates /\ job[j].target # "captured"
               THEN ledger.returned + 1 ELSE ledger.returned
          /\ ledger'.paid = l.paid
      BY <2>1, <2>2, <2>3 DEF WithOffsetEntry, Ledgers
    <2>6. job'[j].phase = "done"
      BY <1>1 DEF CommitPaid, End, JobRecord
    <2> QED
      BY <1>1, <2>2, <2>4, <2>5, <2>6 DEF CommitPaid, At
  <1>2. CASE CommitReversal(j)
    <2>. DEFINE amount == job[j].amount
    <2>. DEFINE l == IF job[j].event.type = "refund"
                     THEN RefundBooked(job[j].event.ref, amount)
                     ELSE [ledger EXCEPT !.cancelled = Book(@, amount)]
    <2>1. ledger' = WithOffsetEntry(j, l)
      BY <1>2 DEF CommitReversal
    <2>2. /\ l.captured = ledger.captured /\ l.returned = ledger.returned
          /\ l.paid = ledger.paid
      BY DEF RefundBooked, Ledgers
    <2>3. l \in Ledgers
      BY <1>2, JobFacts, BookingKeepsLedger, RefundKeepsLedger
      DEF CommitReversal, At
    <2>. HIDE DEF l
    <2>4. /\ ledger'.captured =
               IF job[j].creates /\ job[j].target = "captured"
               THEN ledger.captured + 1 ELSE ledger.captured
          /\ ledger'.returned =
               IF job[j].creates /\ job[j].target # "captured"
               THEN ledger.returned + 1 ELSE ledger.returned
          /\ ledger'.paid = l.paid
      BY <2>1, <2>2, <2>3 DEF WithOffsetEntry, Ledgers
    <2>5. job'[j].phase = "done"
      BY <1>2 DEF CommitReversal, End, JobRecord
    <2> QED
      BY <1>2, <2>2, <2>4, <2>5 DEF CommitReversal, At
  <1> QED
    BY <1>1, <1>2

\* The transaction ends: the entry is created once, and the lock given back.
LEMMA CommitKeepsOffset ==
    ASSUME TypeOK, JobsHaveEvents, OffsetInv, NEW j \in Jobs,
           CommitPaid(j) \/ CommitReversal(j)
    PROVE  OffsetInv'
  <1>. USE DEF OffsetInv
  <1>. DEFINE captures == job[j].creates /\ job[j].target = "captured"
  <1>. DEFINE returns == job[j].creates /\ job[j].target # "captured"
  <1>0. \A i \in Jobs \ {j} : job'[i] = job[i]
    BY OthersStay DEF Step
  <1>1. /\ ledger.captured \in Nat /\ ledger.returned \in Nat
        /\ ledger.captured <= 1 /\ ledger.returned <= ledger.captured
    BY DEF TypeOK, Ledgers, CreditMovesOnce
  <1>2. job[j].phase = "commit" /\ job'[j].phase = "done"
    BY CommitFacts
  <1>3. job[j].creates => HasWritten(j) /\ job[j].target \in {"captured", "refunded"}
    BY <1>2 DEF TargetsFollowReads, HasWritten, CreatesFirstEntry
  <1>4. captures => ledger.captured = 0 /\ ledger'.captured = 1
    BY <1>1, <1>3, CommitFacts DEF CreatesFirstEntry, OffsetEntry
  <1>5. returns => /\ ledger.returned = 0 /\ ledger'.returned = 1
                   /\ ledger.captured = 1
    BY <1>1, <1>2, <1>3, CommitFacts
    DEF CreatesFirstEntry, OffsetEntry, ReturnsFollowCapture
  <1>6. /\ ~captures => ledger'.captured = ledger.captured
        /\ ~returns => ledger'.returned = ledger.returned
    BY CommitFacts
  <1>7. /\ ledger'.captured <= 1 /\ ledger'.returned <= ledger'.captured
        /\ ledger.captured = 1 => ledger'.captured = 1
    BY <1>1, <1>4, <1>5, <1>6
  <1>8. offsetLock' = Unlocked(j) /\ offset' = OffsetAfter(j)
    BY CommitFacts
  <1>9. \A i \in Jobs \ {j} : ~(HasWritten(i) /\ HasWritten(j))
    BY DEF LockIsHeld
  <1>10. LockIsHeld'
    BY <1>0, <1>2, <1>8, SettlementAssumption
    DEF LockIsHeld, HasWritten, Unlocked
  <1>11. TargetsFollowReads' /\ ReturnsFollowCapture'
    BY <1>0, <1>2, <1>7 DEF TargetsFollowReads, ReturnsFollowCapture
  <1>12. CreatesFirstEntry'
    <2>1. ASSUME NEW i \in Jobs \ {j}, HasWritten(i), job[i].creates
          PROVE  /\ job[i].target \in {"captured", "refunded"}
                 /\ OffsetEntry(job[i].target) = 0
                 /\ ledger'.captured = ledger.captured
                 /\ ledger'.returned = ledger.returned
      BY <1>3, <1>6, <1>9, <2>1 DEF CreatesFirstEntry
    <2> QED
      BY <1>0, <1>2, <2>1 DEF CreatesFirstEntry, HasWritten, OffsetEntry
  <1>13. CaptureIsBooked'
    <2>1. \A i \in Jobs : HasWritten(i)' /\ job'[i].target = "captured"
                          /\ ~job'[i].creates => ledger'.captured = 1
      BY <1>0, <1>2, <1>7 DEF CaptureIsBooked, HasWritten
    <2>2. ASSUME offset' = "captured"
          PROVE  ledger'.captured = 1
      <3>1. CASE offsetLock = j
        BY <1>4, <1>7, <1>8, <2>2, <3>1
        DEF OffsetAfter, CaptureIsBooked, LockIsHeld
      <3>2. CASE offsetLock # j
        BY <1>7, <1>8, <2>2, <3>2 DEF OffsetAfter, CaptureIsBooked
      <3> QED
        BY <3>1, <3>2
    <2> QED
      BY <2>1, <2>2 DEF CaptureIsBooked
  <1>14. PaymentCaptures'
    <2>1. offset' = "none" => Credit = 0
      BY <1>8 DEF OffsetAfter, LockIsHeld, HasWritten, PaymentCaptures
    <2> QED
      BY <1>0, <1>2, <1>7, <2>1 DEF PaymentCaptures, At
  <1>15. CreditMovesOnce'
    <2>1. ASSUME ledger'.paid.n > 0, Credit > 0
          PROVE  ledger'.captured = 1
      <3>1. CASE ledger.paid.n > 0
        BY <1>7, <2>1, <3>1 DEF CreditMovesOnce
      <3>2. CASE ~(ledger.paid.n > 0)
        <4>1. ledger.captured = 1 \/ captures
          BY <2>1, <3>2, CommitFacts DEF PaymentCaptures
        <4> QED
          BY <1>4, <1>7, <4>1
      <3> QED
        BY <3>1, <3>2
    <2> QED
      BY <1>7, <2>1 DEF CreditMovesOnce
  <1> QED
    BY <1>10, <1>11, <1>12, <1>13, <1>14, <1>15

-----------------------------------------------------------------------------
(* Events and holds.                                                       *)

\* A run of a handler starts with an event and ends idle.
LEMMA EdgeFacts ==
    ASSUME TypeOK, NEW j \in Jobs, Edge(j)
    PROVE  /\ job'[j] = IdleJob \/ job'[j].event \in Events
           /\ job'[j].phase \in {"idle", "check"}
  <1>. USE DEF TypeOK
  <1>1. CASE Finish(j) \/ Abort(j)
    <2>1. job'[j] = IdleJob
      BY <1>1 DEF Finish, Abort
    <2>2. IdleJob.phase = "idle"
      BY DEF IdleJob
    <2> QED
      BY <2>1, <2>2
  <1>2. ASSUME NEW e \in Events, Receive(j, e)
        PROVE  job'[j].event = e /\ job'[j].phase = "check"
    <2>1. job'[j] = [IdleJob EXCEPT !.phase = "check", !.event = e]
      BY <1>2 DEF Receive, Start
    <2> QED
      BY <2>1 DEF IdleJob
  <1> QED
    BY <1>1, <1>2 DEF Edge

\* A job keeps its event until it is idle again.
LEMMA EventsStep ==
    ASSUME TypeOK, JobsHaveEvents, [Next]_vars PROVE JobsHaveEvents'
  <1>. USE DEF TypeOK, JobsHaveEvents
  <1>1. ASSUME NEW j \in Jobs, Step(j) \/ Edge(j)
        PROVE  JobsHaveEvents'
    <2>1. \/ job'[j] = IdleJob
          \/ job[j].phase # "idle" /\ job'[j].event = job[j].event
          \/ job'[j].event \in Events
      <3>1. CASE Edge(j)
        BY <3>1, EdgeFacts
      <3>2. CASE \/ CheckBooked(j) \/ RefusePaid(j)
                 \/ SummariseRefund(j) \/ SummariseCancelled(j)
        BY <3>2
        DEF CheckBooked, RefusePaid, SummariseRefund, SummariseCancelled,
            Move, End, At, JobRecord
      <3>3. CASE \/ ReadOffsetToCapture(j) \/ ReadOffsetToReverse(j)
                 \/ WriteOffset(j) \/ ReadShadow(j)
        BY <3>3
        DEF ReadOffsetToCapture, ReadOffsetToReverse, WriteOffset,
            ReadShadow, Move, End, At, JobRecord
      <3>4. CASE CommitPaid(j) \/ CommitReversal(j)
        BY <3>4 DEF CommitPaid, CommitReversal, End, At, JobRecord
      <3>5. CASE \/ SummariseDispute(j) \/ LookForHold(j)
                 \/ WriteHold(j) \/ MarkRisk(j)
        BY <3>5
        DEF SummariseDispute, LookForHold, WriteHold, MarkRisk, Move, End,
            At, JobRecord
      <3> QED
        BY <1>1, <3>1, <3>2, <3>3, <3>4, <3>5 DEF Step, Edge
    <2>2. IdleJob.phase = "idle"
      BY DEF IdleJob
    <2> QED
      BY <1>1, <2>1, <2>2, OthersStay
  <1>2. CASE UNCHANGED vars
    BY <1>2 DEF vars
  <1> QED
    BY <1>1, <1>2 DEF Next, Edge

\* The seller stays under review, and is under review before a hold is
\* written.
LEMMA HoldStep ==
    ASSUME TypeOK, JobsHaveEvents, HoldPutsSellerUnderReview, [Next]_vars
    PROVE  HoldPutsSellerUnderReview'
  <1>. USE DEF TypeOK, HoldPutsSellerUnderReview
  <1>1. ASSUME NEW j \in Jobs, LookForHold(j)
        PROVE  HoldPutsSellerUnderReview'
    <2>1. ledger' = ledger /\ (underReview => underReview')
      BY <1>1 DEF LookForHold
    <2>2. At(j, {"dispute_open"}, "holdWrite")' => underReview'
      BY <1>1 DEF LookForHold, Move, End, At, JobRecord
    <2> QED
      BY <1>1, <2>1, <2>2, OthersStay DEF At, Step
  <1>2. ASSUME NEW j \in Jobs, WriteHold(j)
        PROVE  HoldPutsSellerUnderReview'
    <2>1. job[j].event.ref \in Disputes
      BY <1>2, JobFacts DEF WriteHold, At
    <2>2. \A d \in Disputes : ledger'.holds[d] > 0 =>
            \/ ledger.holds[d] > 0
            \/ job[j].event.type = "dispute_open"
      BY <1>2, <2>1 DEF WriteHold, At, Ledgers
    <2>3. job'[j].phase = "risk" /\ underReview' = underReview
      BY <1>2 DEF WriteHold, Move, JobRecord
    <2> QED
      <3>1. job[j].event.type = "dispute_open" => underReview
        BY <1>2 DEF WriteHold, At
      <3>2. \A i \in Jobs : At(i, {"dispute_open"}, "holdWrite")' =>
              At(i, {"dispute_open"}, "holdWrite")
        BY <1>2, <2>3, OthersStay DEF At, Step
      <3> QED
        BY <2>2, <2>3, <3>1, <3>2
  <1>3. ASSUME NEW j \in Jobs,
               (Step(j) /\ ~LookForHold(j) /\ ~WriteHold(j)) \/ Edge(j)
        PROVE  HoldPutsSellerUnderReview'
    <2>1. underReview' = underReview
      BY <1>3
      DEF Step, Edge, CheckBooked, RefusePaid, SummariseRefund,
          SummariseCancelled, ReadOffsetToCapture, ReadOffsetToReverse,
          WriteOffset, ReadShadow, CommitPaid, CommitReversal,
          SummariseDispute, MarkRisk, Finish, Abort, Receive, order
    <2>2. ledger'.holds = ledger.holds
      <3>1. CASE CommitPaid(j)
        BY <3>1 DEF CommitPaid, WithOffsetEntry, Ledgers
      <3>2. CASE CommitReversal(j)
        BY <3>2 DEF CommitReversal, WithOffsetEntry, RefundBooked, Ledgers
      <3>3. CASE ~CommitPaid(j) /\ ~CommitReversal(j)
        BY <1>3, <3>3
        DEF Step, Edge, CheckBooked, RefusePaid, SummariseRefund,
            SummariseCancelled, ReadOffsetToCapture, ReadOffsetToReverse,
            WriteOffset, ReadShadow, SummariseDispute, MarkRisk, Finish,
            Abort, Receive, order
      <3> QED
        BY <3>1, <3>2, <3>3
    <2>3. job'[j].phase # "holdWrite"
      <3>1. CASE Edge(j)
        BY <3>1, EdgeFacts
      <3>2. CASE \/ CheckBooked(j) \/ RefusePaid(j)
                 \/ SummariseRefund(j) \/ SummariseCancelled(j)
        BY <3>2
        DEF CheckBooked, RefusePaid, SummariseRefund, SummariseCancelled,
            Move, End, At, JobRecord
      <3>3. CASE \/ ReadOffsetToCapture(j) \/ ReadOffsetToReverse(j)
                 \/ WriteOffset(j) \/ ReadShadow(j)
        BY <3>3
        DEF ReadOffsetToCapture, ReadOffsetToReverse, WriteOffset,
            ReadShadow, Move, End, At, JobRecord
      <3>4. CASE \/ CommitPaid(j) \/ CommitReversal(j)
                 \/ SummariseDispute(j) \/ MarkRisk(j)
        BY <3>4
        DEF CommitPaid, CommitReversal, SummariseDispute, MarkRisk, End, At,
            JobRecord
      <3> QED
        BY <1>3, <3>1, <3>2, <3>3, <3>4 DEF Step, Edge
    <2> QED
      BY <1>3, <2>1, <2>2, <2>3, OthersStay DEF At
  <1>4. CASE UNCHANGED vars
    BY <1>4 DEF vars, At
  <1> QED
    BY <1>1, <1>2, <1>3, <1>4 DEF Next, Edge

-----------------------------------------------------------------------------
(* Sums over finite sets of integers.                                      *)

\* The sum over S of the values of g.
Total(g, S) == MapThenSumSet(LAMBDA x : g[x], S)

\* The equation MapThenSumSet solves: the sums over all subsets of S, by
\* taking one element out of each.
IsSum(iter, g, S) ==
    iter = [s \in SUBSET S |-> IF s = {} THEN 0
              ELSE g[CHOOSE x \in s : TRUE] + iter[s \ {CHOOSE x \in s : TRUE}]]

Sums(g, S) == CHOOSE iter : IsSum(iter, g, S)

\* Induction over the subsets of a finite set: of the bad ones, one is minimal.
LEMMA MinimalSubset ==
    ASSUME NEW S, IsFiniteSet(S), NEW Bad \in SUBSET (SUBSET S), Bad # {}
    PROVE  \E T \in Bad : IsFiniteSet(T) /\ \A U \in SUBSET T : U # T => U \notin Bad
  <1>1. IsWellFoundedOn(StrictSubsetOrdering(S), SUBSET S)
    BY FS_StrictSubsetOrderingWellFounded, FS_FiniteSubsetsOfFinite
  <1>2. PICK T \in Bad : \A U \in Bad : <<U, T>> \notin StrictSubsetOrdering(S)
    BY <1>1, WFMin
  <1>3. IsFiniteSet(T)
    BY FS_Subset
  <1>4. ASSUME NEW U \in SUBSET T, U # T, U \in Bad PROVE FALSE
    BY <1>2, <1>4 DEF StrictSubsetOrdering
  <1> QED
    BY <1>3, <1>4

\* A sum depends on the set and on the values there alone.
LEMMA SumsAgree ==
    ASSUME NEW S, IsFiniteSet(S), NEW A, NEW B, S \subseteq A, S \subseteq B,
           NEW f, NEW h, NEW u, NEW v, IsSum(u, f, A), IsSum(v, h, B),
           \A x \in S : f[x] = h[x]
    PROVE  u[S] = v[S]
  <1> DEFINE Bad == {T \in SUBSET S : u[T] # v[T]}
  <1>1. SUFFICES ASSUME Bad # {} PROVE FALSE
    OBVIOUS
  <1>2. PICK T \in Bad : \A U \in SUBSET T : U # T => U \notin Bad
    <2>1. Bad \in SUBSET (SUBSET S)
      OBVIOUS
    <2> HIDE DEF Bad
    <2> QED
      BY <1>1, <2>1, MinimalSubset
  <1> DEFINE c == CHOOSE x \in T : TRUE
  <1>3. T # {}
    BY DEF IsSum
  <1>4. c \in T /\ T \ {c} # T /\ T \ {c} \in SUBSET T
    BY <1>3
  <1>5. u[T \ {c}] = v[T \ {c}]
    BY <1>2, <1>4
  <1>6. T \in SUBSET A /\ T \in SUBSET B
    OBVIOUS
  <1>7. u[T] = f[c] + u[T \ {c}]
    BY <1>3, <1>6 DEF IsSum
  <1>8. v[T] = h[c] + v[T \ {c}]
    BY <1>3, <1>6 DEF IsSum
  <1> QED
    BY <1>4, <1>5, <1>7, <1>8

\* MapThenSumSet has a solution over a finite set.
LEMMA SumsExist ==
    ASSUME NEW S, IsFiniteSet(S), NEW g
    PROVE  IsSum(Sums(g, S), g, S)
  <1> DEFINE Bad == {T \in SUBSET S : ~IsSum(Sums(g, T), g, T)}
  <1>1. SUFFICES ASSUME Bad # {} PROVE FALSE
    OBVIOUS
  <1>2. PICK T \in Bad : IsFiniteSet(T) /\ \A U \in SUBSET T : U # T => U \notin Bad
    <2>1. Bad \in SUBSET (SUBSET S)
      OBVIOUS
    <2> HIDE DEF Bad
    <2> QED
      BY <1>1, <2>1, MinimalSubset
  <1> DEFINE c(s) == CHOOSE x \in s : TRUE
             part == [s \in SUBSET T |-> Sums(g, s)[s]]
             iter == [s \in SUBSET T |-> IF s = {} THEN 0 ELSE g[c(s)] + part[s \ {c(s)}]]
  <1>3. \A U \in SUBSET T : U # T => IsSum(Sums(g, U), g, U)
    BY <1>2
  <1>4. ASSUME NEW s \in SUBSET T, s # T, NEW r \in SUBSET s
        PROVE  Sums(g, s)[r] = part[r]
    <2>1. r # T /\ r \in SUBSET T /\ IsFiniteSet(r)
      BY <1>2, <1>4, FS_Subset
    <2>2. IsSum(Sums(g, s), g, s) /\ IsSum(Sums(g, r), g, r)
      BY <1>3, <1>4, <2>1
    <2> HIDE DEF IsSum, Sums
    <2> QED
      BY <2>1, <2>2, SumsAgree
  <1>5. ASSUME NEW s \in SUBSET T, s # T PROVE part[s] = iter[s]
    <2> DEFINE w == Sums(g, s)
    <2>1. IsSum(w, g, s)
      BY <1>3, <1>5
    <2> HIDE DEF w
    <2>2. w[s] = IF s = {} THEN 0 ELSE g[c(s)] + w[s \ {c(s)}]
      BY <2>1 DEF IsSum
    <2>3. w[s] = part[s] /\ w[s \ {c(s)}] = part[s \ {c(s)}]
      BY <1>4, <1>5 DEF w
    <2> QED
      BY <2>2, <2>3
  <1>6. iter = [s \in SUBSET T |-> IF s = {} THEN 0 ELSE g[c(s)] + iter[s \ {c(s)}]]
    <2>1. ASSUME NEW s \in SUBSET T, s # {} PROVE part[s \ {c(s)}] = iter[s \ {c(s)}]
      <3>1. c(s) \in s
        BY <2>1
      <3>2. s \ {c(s)} \in SUBSET T /\ s \ {c(s)} # T
        BY <3>1
      <3> QED
        BY <1>5, <3>2
    <2>2. iter = [s \in SUBSET T |-> IF s = {} THEN 0 ELSE g[c(s)] + part[s \ {c(s)}]]
      OBVIOUS
    <2> HIDE DEF part, iter, c
    <2> QED
      BY <2>1, <2>2
  <1>7. IsSum(iter, g, T)
    BY <1>6 DEF IsSum
  <1>8. IsSum(Sums(g, T), g, T)
    <2> HIDE DEF iter
    <2> QED BY <1>7 DEF Sums
  <1> QED
    BY <1>8

LEMMA TotalIsSums == ASSUME NEW g, NEW S PROVE Total(g, S) = Sums(g, S)[S]
  BY DEF Total, Sums, IsSum, MapThenSumSet, MapThenFoldSet

LEMMA TotalEmpty == ASSUME NEW g PROVE Total(g, {}) = 0
  <1>1. IsSum(Sums(g, {}), g, {})
    BY SumsExist, FS_EmptySet
  <1> QED
    BY <1>1, TotalIsSums DEF IsSum

LEMMA TotalAgrees ==
    ASSUME NEW S, IsFiniteSet(S), NEW f, NEW h, \A x \in S : f[x] = h[x]
    PROVE  Total(f, S) = Total(h, S)
  BY SumsExist, SumsAgree, TotalIsSums

LEMMA TotalStep ==
    ASSUME NEW S, IsFiniteSet(S), S # {}, NEW g
    PROVE  \E x \in S : Total(g, S) = g[x] + Total(g, S \ {x})
  <1> DEFINE c == CHOOSE x \in S : TRUE
  <1>1. c \in S
    OBVIOUS
  <1>2. IsFiniteSet(S \ {c})
    BY FS_Subset
  <1>3. IsSum(Sums(g, S), g, S) /\ IsSum(Sums(g, S \ {c}), g, S \ {c})
    BY <1>2, SumsExist
  <1>4. Sums(g, S)[S] = g[c] + Sums(g, S)[S \ {c}]
    BY <1>3 DEF IsSum
  <1>5. Sums(g, S)[S \ {c}] = Sums(g, S \ {c})[S \ {c}]
    BY <1>2, <1>3, SumsAgree
  <1> QED
    BY <1>1, <1>4, <1>5, TotalIsSums

LEMMA TotalIsInt ==
    ASSUME NEW S, IsFiniteSet(S), NEW g, \A x \in S : g[x] \in Int
    PROVE  Total(g, S) \in Int
  <1> DEFINE Bad == {T \in SUBSET S : Total(g, T) \notin Int}
  <1>1. SUFFICES ASSUME Bad # {} PROVE FALSE
    OBVIOUS
  <1>2. PICK T \in Bad : IsFiniteSet(T) /\ \A U \in SUBSET T : U # T => U \notin Bad
    <2>1. Bad \in SUBSET (SUBSET S)
      OBVIOUS
    <2> HIDE DEF Bad
    <2> QED
      BY <1>1, <2>1, MinimalSubset
  <1>3. T # {}
    BY TotalEmpty
  <1>4. PICK x \in T : Total(g, T) = g[x] + Total(g, T \ {x})
    BY <1>2, <1>3, TotalStep
  <1>5. Total(g, T \ {x}) \in Int
    BY <1>2
  <1> QED
    BY <1>4, <1>5

\* Any element can be taken out of a sum.
LEMMA TotalWithout ==
    ASSUME NEW S, IsFiniteSet(S), NEW g, \A x \in S : g[x] \in Int, NEW a \in S
    PROVE  Total(g, S) = g[a] + Total(g, S \ {a})
  <1> DEFINE Bad == {T \in SUBSET S : \E y \in T : Total(g, T) # g[y] + Total(g, T \ {y})}
  <1>1. SUFFICES ASSUME Bad # {} PROVE FALSE
    OBVIOUS
  <1>2. PICK T \in Bad : IsFiniteSet(T) /\ \A U \in SUBSET T : U # T => U \notin Bad
    <2>1. Bad \in SUBSET (SUBSET S)
      OBVIOUS
    <2> HIDE DEF Bad
    <2> QED
      BY <1>1, <2>1, MinimalSubset
  <1>3. PICK y \in T : Total(g, T) # g[y] + Total(g, T \ {y})
    OBVIOUS
  <1>4. PICK x \in T : Total(g, T) = g[x] + Total(g, T \ {x})
    BY <1>2, TotalStep
  <1>5. x # y
    BY <1>3, <1>4
  <1>6. Total(g, T \ {x}) = g[y] + Total(g, (T \ {x}) \ {y})
    BY <1>2, <1>5
  <1>7. (T \ {x}) \ {y} = (T \ {y}) \ {x}
    OBVIOUS
  <1>8. Total(g, T \ {y}) = g[x] + Total(g, (T \ {x}) \ {y})
    <2>1. Total(g, T \ {y}) = g[x] + Total(g, (T \ {y}) \ {x})
      BY <1>2, <1>5
    <2> QED
      BY <1>7, <2>1, Zenon
  <1>9. Total(g, (T \ {x}) \ {y}) \in Int
    BY <1>2, FS_Subset, TotalIsInt
  <1>10. g[x] \in Int /\ g[y] \in Int
    OBVIOUS
  <1> HIDE DEF Bad
  <1> QED
    BY <1>3, <1>4, <1>6, <1>8, <1>9, <1>10

-----------------------------------------------------------------------------
(* The books while handlers run one by one.                                *)

Active(j) == job[j].phase # "idle"
Alone == \A i, j \in Jobs : Active(i) /\ Active(j) => i = j

\* The payment is booked once, and nothing is booked before it.
PaidOnce ==
  /\ ledger.paid.n <= 1
  /\ ledger.paid.sum = IF PaidBooked THEN Cash + Credit ELSE 0
  /\ ~PaidBooked =>
       /\ \A f \in Refunds : ledger.refunds[f] = 0
       /\ ledger.refunded = 0 /\ ledger.cancelled = Unbooked
       /\ ledger.held = 0 /\ ledger.reinstated = 0

\* So is everything else, within what was paid.
BookedOnce ==
  /\ ledger.cancelled.n <= 1
  /\ \A f \in Refunds : ledger.refunds[f] <= 1
  /\ \A d \in Disputes : ledger.holds[d] <= 1 /\ ledger.wins[d] <= 1
  /\ Reversed <= ledger.paid.sum
  /\ ledger.reinstated <= ledger.held
  /\ ledger.held <= ledger.paid.sum + ledger.reinstated

\* The seller order follows the ledger.
ShadowAgrees ==
  /\ shadow.refund = Reversed
  /\ shadow.status = "paid" <=> Reversed = 0
  /\ shadow.status \in {"refunded", "cancelled"} <=> PaidBooked /\ Remaining = 0

\* So does the sales credit.
OffsetAgrees ==
  IF Credit = 0 THEN offset = "none"
  ELSE IF ~PaidBooked
       THEN offset \in {"authorized", "released", "expired"} /\ ledger.returned = 0
  ELSE IF Remaining = 0 THEN offset = "refunded" /\ ledger.returned = 1
  ELSE offset = "captured" /\ ledger.returned = 0

\* Until the last of the payment is reversed, every refund took what it asked
\* for, and left more than the credit.
BookedRefunds == {f \in Refunds : ledger.refunds[f] > 0}
RefundsAsked ==
  /\ IsFiniteSet(BookedRefunds)
  /\ PaidBooked /\ Remaining > 0 =>
       /\ ledger.cancelled.sum = 0
       /\ ledger.refunded = Total(RefundAmount, BookedRefunds)
       /\ Remaining > Credit

BooksAgree ==
  PaidOnce /\ BookedOnce /\ ShadowAgrees /\ OffsetAgrees /\ RefundsAsked

\* What a reversal takes, and whether the credit goes back with it.
Due(j) ==
  IF job[j].event.type = "refund" THEN Refunded(job[j].event.ref) ELSE Remaining
GivesBack(j) ==
  IF job[j].event.type = "refund" THEN ReversesCredit(job[j].event.ref)
  ELSE HasOffset

\* What a job that runs alone knows is still so.
PaidKnows(j) ==
  /\ job[j].phase \in {"offset", "lock", "commit"} =>
       (job[j].duplicate <=> PaidBooked)
  /\ job[j].phase = "lock" =>
       offset = "authorized" /\ job[j].target \in {"captured", "expired"}
  /\ job[j].phase = "commit" =>
       IF job[j].target = "none" THEN PaidBooked \/ Credit = 0
       ELSE /\ job[j].target \in {"captured", "expired"}
            /\ ~PaidBooked /\ Credit > 0
ReversalKnows(j) ==
  /\ job[j].phase \in {"summary", "offset", "lock", "shadow", "commit"} =>
       ~Booked(job[j].event)
  /\ job[j].phase \in {"offset", "lock", "shadow", "commit"} =>
       PaidBooked /\ job[j].amount = Due(j) /\ Due(j) > 0
  /\ job[j].phase \in {"offset", "lock"} => GivesBack(j)
  /\ job[j].phase = "lock" => job[j].target = "refunded"
  /\ job[j].phase \in {"shadow", "commit"} =>
       /\ job[j].target = IF GivesBack(j) THEN "refunded" ELSE "none"
       /\ job[j].creates <=> GivesBack(j)
  /\ job[j].phase = "commit" => job[j].seen = shadow.refund
DisputeKnows(j) ==
  /\ job[j].phase \in {"hold", "holdWrite"} =>
       /\ PaidBooked
       /\ job[j].amount <= IF job[j].event.type = "dispute_open"
                           THEN Holdable ELSE HeldAmount
  /\ job[j].phase = "holdWrite" =>
       ~DisputeBooked(job[j].event) /\ job[j].amount > 0
JobKnows(j) ==
  /\ job[j].event.type = "paid" => PaidKnows(j)
  /\ job[j].event.type \in {"refund", "cancelled"} => ReversalKnows(j)
  /\ job[j].event.type \in {"dispute_open", "dispute_won"} => DisputeKnows(j)

OneByOne ==
  ~overlapped => Alone /\ BooksAgree /\ \A j \in Jobs : JobKnows(j)

\* What does not move as long as the books do not.
LEMMA SameBooks ==
    ASSUME UNCHANGED <<ledger, offset, shadow>>
    PROVE  /\ PaidBooked' <=> PaidBooked
           /\ HasOffset' <=> HasOffset
           /\ Reversed' = Reversed /\ Remaining' = Remaining
           /\ HeldAmount' = HeldAmount /\ Holdable' = Holdable
           /\ \A f \in Refunds : /\ Refunded(f)' = Refunded(f)
                                 /\ ReversesCredit(f)' <=> ReversesCredit(f)
           /\ \A e \in Events : /\ Booked(e)' <=> Booked(e)
                                /\ DisputeBooked(e)' <=> DisputeBooked(e)
           /\ BooksAgree => BooksAgree'
  <1>1. /\ PaidBooked' <=> PaidBooked
        /\ HasOffset' <=> HasOffset
        /\ Reversed' = Reversed /\ Remaining' = Remaining
        /\ HeldAmount' = HeldAmount /\ Holdable' = Holdable
    BY DEF PaidBooked, HasOffset, Reversed, Remaining, HeldAmount, Holdable
  <1>2. \A f \in Refunds : ReversesCredit(f)' <=> ReversesCredit(f)
    BY <1>1 DEF ReversesCredit
  <1>3. \A f \in Refunds : Refunded(f)' = Refunded(f)
    BY <1>1, <1>2 DEF Refunded
  <1>4. \A e \in Events : /\ Booked(e)' <=> Booked(e)
                          /\ DisputeBooked(e)' <=> DisputeBooked(e)
    BY <1>1 DEF Booked, DisputeBooked
  <1>5. PaidOnce => PaidOnce'
    BY <1>1 DEF PaidOnce
  <1>6. BookedOnce => BookedOnce'
    BY <1>1 DEF BookedOnce
  <1>7. ShadowAgrees => ShadowAgrees'
    BY <1>1 DEF ShadowAgrees
  <1>8. OffsetAgrees => OffsetAgrees'
    BY <1>1 DEF OffsetAgrees
  <1>9. BookedRefunds' = BookedRefunds
    BY DEF BookedRefunds
  <1>10. Total(RefundAmount, BookedRefunds') =
           Total(RefundAmount, BookedRefunds)
    BY <1>9, Zenon
  <1>11. RefundsAsked => RefundsAsked'
    BY <1>1, <1>9, <1>10 DEF RefundsAsked
  <1> QED
    BY <1>1, <1>2, <1>3, <1>4, <1>5, <1>6, <1>7, <1>8, <1>11 DEF BooksAgree

\* A job that has read nothing yet, or is through, knows nothing.
LEMMA Unknowing ==
    ASSUME NEW j \in Jobs
    PROVE  /\ job[j].phase \in {"idle", "check", "risk", "done"} =>
                JobKnows(j)
           /\ job'[j].phase \in {"idle", "check", "risk", "done"} =>
                JobKnows(j)'
  BY DEF JobKnows, PaidKnows, ReversalKnows, DisputeKnows

\* What a job is to reverse, as long as the books do not move.
LEMMA SameDue ==
    ASSUME UNCHANGED <<ledger, offset, shadow>>, NEW j \in Jobs,
           job[j].event \in Events, job'[j].event = job[j].event
    PROVE  /\ Due(j)' = Due(j)
           /\ GivesBack(j)' <=> GivesBack(j)
           /\ Booked(job[j].event)' <=> Booked(job[j].event)
  BY SameBooks, EventRefs DEF Due, GivesBack

\* Summaries in a payment that agrees.
LEMMA SummaryFacts ==
    ASSUME TypeOK, BooksAgree
    PROVE  /\ Reversed \in Nat /\ Remaining \in Nat
           /\ Remaining = ledger.paid.sum - Reversed
           /\ PaidBooked => ledger.paid.sum = Cash + Credit
           /\ Remaining > 0 => PaidBooked
           /\ \A f \in Refunds :
                /\ Refunded(f) \in Nat /\ Refunded(f) <= Remaining
                /\ PaidBooked /\ ReversesCredit(f) => Refunded(f) = Remaining
                /\ PaidBooked /\ ~ReversesCredit(f) =>
                     Refunded(f) = Minimum(RefundAmount[f], Remaining)
  <1>. USE SettlementAssumption
  <1>0. ledger \in Ledgers
    BY DEF TypeOK
  <1>1. /\ Reversed \in Nat /\ Remaining \in Nat
        /\ ledger.paid.sum \in Nat
        /\ \A f \in Refunds : Refunded(f) \in Nat
    BY <1>0, AmountsAreNat DEF Ledgers, Booking
  <1>2. Remaining = ledger.paid.sum - Reversed
    BY <1>1 DEF BooksAgree, BookedOnce, Remaining, Monus
  <1>3. PaidBooked => ledger.paid.sum = Cash + Credit
    BY DEF BooksAgree, PaidOnce
  <1>4. Remaining > 0 => PaidBooked
    BY <1>1, <1>2 DEF BooksAgree, PaidOnce
  <1>5. ASSUME NEW f \in Refunds
        PROVE  /\ Refunded(f) <= Remaining
               /\ PaidBooked /\ ReversesCredit(f) => Refunded(f) = Remaining
               /\ PaidBooked /\ ~ReversesCredit(f) =>
                    Refunded(f) = Minimum(RefundAmount[f], Remaining)
    <2>0. RefundAmount[f] \in Nat
      OBVIOUS
    <2>1. CASE ~PaidBooked
      BY <1>1, <2>1 DEF Refunded
    <2>2. CASE PaidBooked /\ ReversesCredit(f)
      <3>1. RefundAmount[f] + Credit >= Remaining
        BY <1>1, <2>0, <2>2 DEF ReversesCredit, Monus
      <3>2. Refunded(f) = Minimum(RefundAmount[f] + Credit, Remaining)
        BY <2>2 DEF Refunded
      <3> QED
        BY <1>1, <2>0, <2>2, <3>1, <3>2 DEF Minimum
    <2>3. CASE PaidBooked /\ ~ReversesCredit(f)
      <3>1. Refunded(f) = Minimum(RefundAmount[f] + 0, Remaining)
        BY <2>3 DEF Refunded
      <3>2. RefundAmount[f] + 0 = RefundAmount[f]
        BY <2>0
      <3> QED
        BY <1>1, <2>0, <2>3, <3>1, <3>2 DEF Minimum
    <2> QED
      BY <2>1, <2>2, <2>3
  <1> QED
    BY <1>1, <1>2, <1>3, <1>4, <1>5

\* A job that looks for its entry, or is turned away.
LEMMA CheckKnows ==
    ASSUME IInv, BooksAgree, NEW j \in Jobs, JobKnows(j),
           CheckBooked(j) \/ RefusePaid(j)
    PROVE  BooksAgree' /\ JobKnows(j)'
  <1>. USE DEF IInv, TypeOK
  <1>1. UNCHANGED <<ledger, offset, shadow>>
    BY DEF CheckBooked, RefusePaid, order
  <1>2. BooksAgree'
    BY <1>1, SameBooks
  <1>3. job[j].event \in Events
    BY JobFacts DEF CheckBooked, RefusePaid, At
  <1>4. /\ job'[j].event = job[j].event
        /\ \/ job'[j].phase = "done"
           \/ /\ job[j].event.type = "paid" /\ job'[j].phase = "offset"
              /\ job'[j].duplicate <=> PaidBooked
           \/ /\ job[j].event.type \in {"refund", "cancelled"}
              /\ job'[j].phase = "summary" /\ ~Booked(job[j].event)
    <2>1. CASE RefusePaid(j)
      BY <2>1 DEF RefusePaid, End, JobRecord
    <2>2. CASE CheckBooked(j) /\ job[j].event.type = "paid"
      <3>1. Booked(job[j].event) <=> PaidBooked
        BY <2>2 DEF Booked
      <3> QED
        BY <2>2, <3>1 DEF CheckBooked, At, JobRecord
    <2>3. CASE CheckBooked(j) /\ job[j].event.type # "paid"
      BY <2>3 DEF CheckBooked, At, Move, End, JobRecord
    <2> QED
      BY <2>1, <2>2, <2>3
  <1>5. /\ PaidBooked' <=> PaidBooked
        /\ Booked(job[j].event)' <=> Booked(job[j].event)
    BY <1>1, <1>3, <1>4, SameBooks, SameDue
  <1>6. JobKnows(j)'
    BY <1>4, <1>5 DEF JobKnows, PaidKnows, ReversalKnows, DisputeKnows
  <1> QED
    BY <1>2, <1>6

\* What a job finds to reverse.
LEMMA SummaryKnows ==
    ASSUME IInv, BooksAgree, NEW j \in Jobs, JobKnows(j),
           SummariseRefund(j) \/ SummariseCancelled(j)
    PROVE  BooksAgree' /\ JobKnows(j)'
  <1>. USE DEF IInv
  <1>1. UNCHANGED <<ledger, offset, shadow>>
    BY DEF SummariseRefund, SummariseCancelled, order
  <1>2. BooksAgree'
    BY <1>1, SameBooks
  <1>3. /\ job[j].event \in Events /\ job[j].phase = "summary"
        /\ job[j].event.type \in {"refund", "cancelled"}
        /\ job[j].event.type = "refund" => job[j].event.ref \in Refunds
    BY JobFacts DEF SummariseRefund, SummariseCancelled, At
  <1>4. Due(j) \in Nat /\ (Due(j) > 0 => PaidBooked)
    BY <1>3, SummaryFacts DEF Due, Refunded
  <1>5. ~Booked(job[j].event) /\ job[j].target = "none" /\ ~job[j].creates
    BY <1>3 DEF JobKnows, ReversalKnows, TargetsFollowReads
  <1>6. /\ job'[j].event = job[j].event
        /\ job'[j].target = job[j].target
        /\ job'[j].creates = job[j].creates
        /\ \/ job'[j].phase = "done"
           \/ /\ Due(j) > 0 /\ job'[j].amount = Due(j)
              /\ job'[j].phase = IF GivesBack(j) THEN "offset" ELSE "shadow"
    <2>1. CASE SummariseRefund(j)
      BY <2>1
      DEF SummariseRefund, At, End, TypeOK, JobRecord, Due, GivesBack
    <2>2. CASE SummariseCancelled(j)
      BY <2>2
      DEF SummariseCancelled, At, End, TypeOK, JobRecord, Due, GivesBack
    <2> QED
      BY <2>1, <2>2
  <1>7. /\ PaidBooked' <=> PaidBooked
        /\ Due(j)' = Due(j)
        /\ GivesBack(j)' <=> GivesBack(j)
        /\ Booked(job[j].event)' <=> Booked(job[j].event)
    BY <1>1, <1>3, <1>6, SameBooks, SameDue
  <1>8. JobKnows(j)'
    <2>1. ReversalKnows(j)'
      BY <1>4, <1>5, <1>6, <1>7 DEF ReversalKnows
    <2> QED
      BY <1>3, <1>6, <2>1 DEF JobKnows
  <1> QED
    BY <1>2, <1>8

\* The status of the offset tells whether there is something to capture or to
\* return.
LEMMA OffsetKnows ==
    ASSUME IInv, BooksAgree, NEW j \in Jobs, JobKnows(j),
           ReadOffsetToCapture(j) \/ ReadOffsetToReverse(j)
    PROVE  BooksAgree' /\ JobKnows(j)'
  <1>. USE DEF IInv
  <1>1. UNCHANGED <<ledger, offset, shadow>>
    BY DEF ReadOffsetToCapture, ReadOffsetToReverse, order
  <1>2. BooksAgree'
    BY <1>1, SameBooks
  <1>3. /\ job[j].event \in Events /\ job[j].phase = "offset"
        /\ job[j].event.type = "refund" => job[j].event.ref \in Refunds
        /\ job[j].target = "none" /\ ~job[j].creates
    BY JobFacts
    DEF ReadOffsetToCapture, ReadOffsetToReverse, At, TargetsFollowReads
  <1>4. Credit \in Nat /\ PaidBooked \in BOOLEAN
    BY SettlementAssumption DEF PaidBooked
  <1>5. CASE ReadOffsetToCapture(j)
    <2>1. /\ job[j].event.type = "paid"
          /\ job[j].duplicate <=> PaidBooked
      BY <1>5 DEF ReadOffsetToCapture, At, JobKnows, PaidKnows
    <2>2. /\ job'[j].event = job[j].event
          /\ job'[j].duplicate = job[j].duplicate
          /\ \/ job'[j].phase = "done"
             \/ /\ job'[j].phase = "lock" /\ offset = "authorized"
                /\ job'[j].target \in {"captured", "expired"}
             \/ /\ job'[j].phase = "commit" /\ job'[j].target = "none"
                /\ offset \in {"none", "captured"} \/ job[j].duplicate
      BY <1>3, <1>5
      DEF ReadOffsetToCapture, At, Move, End, TypeOK, JobRecord
    <2>3. offset \in {"none", "captured"} => PaidBooked \/ Credit = 0
      BY DEF BooksAgree, OffsetAgrees
    <2>4. PaidBooked' <=> PaidBooked
      BY <1>1, SameBooks
    <2>5. JobKnows(j)'
      BY <1>1, <2>1, <2>2, <2>3, <2>4
      DEF JobKnows, PaidKnows, ReversalKnows, DisputeKnows
    <2> QED
      BY <1>2, <2>5
  <1>6. CASE ReadOffsetToReverse(j)
    <2>1. /\ job[j].event.type \in {"refund", "cancelled"}
          /\ ~Booked(job[j].event) /\ PaidBooked
          /\ job[j].amount = Due(j) /\ Due(j) > 0 /\ GivesBack(j)
      BY <1>3, <1>6 DEF ReadOffsetToReverse, At, JobKnows, ReversalKnows
    <2>2. Remaining > 0 /\ Credit > 0
      <3>1. Due(j) \in Nat /\ Due(j) <= Remaining /\ Remaining \in Nat
        BY <1>3, SummaryFacts DEF Due
      <3>2. HasOffset
        BY <2>1 DEF GivesBack, ReversesCredit
      <3> QED
        BY <2>1, <3>1, <3>2 DEF HasOffset
    <2>3. offset = "captured"
      BY <1>4, <2>1, <2>2 DEF BooksAgree, OffsetAgrees
    <2>4. /\ job'[j].event = job[j].event
          /\ job'[j].amount = job[j].amount
          /\ job'[j].phase = "lock" /\ job'[j].target = "refunded"
      BY <1>6, <2>3 DEF ReadOffsetToReverse, TypeOK, JobRecord
    <2>5. /\ PaidBooked' <=> PaidBooked
          /\ Due(j)' = Due(j)
          /\ GivesBack(j)' <=> GivesBack(j)
          /\ Booked(job[j].event)' <=> Booked(job[j].event)
      BY <1>1, <1>3, <2>4, SameBooks, SameDue
    <2>6. JobKnows(j)'
      BY <2>1, <2>4, <2>5
      DEF JobKnows, PaidKnows, ReversalKnows, DisputeKnows
    <2> QED
      BY <1>2, <2>6
  <1> QED
    BY <1>5, <1>6

\* A job that returns the credit is the first one to.
LEMMA WriteKnows ==
    ASSUME IInv, BooksAgree, NEW j \in Jobs, JobKnows(j), WriteOffset(j)
    PROVE  BooksAgree' /\ JobKnows(j)'
  <1>. USE DEF IInv
  <1>1. UNCHANGED <<ledger, offset, shadow>>
    BY DEF WriteOffset, order
  <1>2. BooksAgree'
    BY <1>1, SameBooks
  <1>3. /\ job[j].event \in Events /\ job[j].phase = "lock"
        /\ job[j].event.type = "refund" => job[j].event.ref \in Refunds
    BY JobFacts DEF WriteOffset
  <1>4. /\ job'[j].event = job[j].event /\ job'[j].amount = job[j].amount
        /\ job'[j].duplicate = job[j].duplicate
        /\ job'[j].target = job[j].target
        /\ job'[j].phase = IF job[j].event.type = "paid"
                           THEN "commit" ELSE "shadow"
        /\ job'[j].creates <=> /\ job[j].target # "expired"
                               /\ OffsetEntry(job[j].target) = 0
    BY <1>3 DEF WriteOffset, At, TypeOK, JobRecord
  <1>5. /\ PaidBooked' <=> PaidBooked
        /\ Due(j)' = Due(j)
        /\ GivesBack(j)' <=> GivesBack(j)
        /\ Booked(job[j].event)' <=> Booked(job[j].event)
    BY <1>1, <1>3, <1>4, SameBooks, SameDue
  <1>6. CASE job[j].event.type = "paid"
    <2>1. /\ job[j].duplicate <=> PaidBooked
          /\ offset = "authorized" /\ job[j].target \in {"captured", "expired"}
      BY <1>3, <1>6 DEF JobKnows, PaidKnows
    <2>2. ~PaidBooked /\ Credit > 0
      BY <2>1, SettlementAssumption DEF BooksAgree, OffsetAgrees
    <2>3. JobKnows(j)'
      BY <1>4, <1>5, <1>6, <2>1, <2>2
      DEF JobKnows, PaidKnows, ReversalKnows, DisputeKnows
    <2> QED
      BY <1>2, <2>3
  <1>7. CASE job[j].event.type \in {"refund", "cancelled"}
    <2>1. /\ ~Booked(job[j].event) /\ PaidBooked
          /\ job[j].amount = Due(j) /\ Due(j) > 0 /\ GivesBack(j)
          /\ job[j].target = "refunded"
      BY <1>3, <1>7 DEF JobKnows, ReversalKnows
    <2>2. Remaining > 0 /\ Credit > 0
      <3>1. Due(j) \in Nat /\ Due(j) <= Remaining /\ Remaining \in Nat
        BY <1>3, <1>7, SummaryFacts DEF Due
      <3>2. HasOffset
        BY <2>1 DEF GivesBack, ReversesCredit
      <3> QED
        BY <2>1, <3>1, <3>2 DEF HasOffset
    <2>3. ledger.returned = 0
      BY <2>1, <2>2, SettlementAssumption DEF BooksAgree, OffsetAgrees
    <2>4. job'[j].creates
      BY <1>4, <2>1, <2>3 DEF OffsetEntry
    <2>5. JobKnows(j)'
      BY <1>4, <1>5, <1>7, <2>1, <2>4
      DEF JobKnows, PaidKnows, ReversalKnows, DisputeKnows
    <2> QED
      BY <1>2, <2>5
  <1>8. CASE job[j].event.type \notin {"paid", "refund", "cancelled"}
    BY <1>2, <1>4, <1>8
    DEF JobKnows, PaidKnows, ReversalKnows, DisputeKnows
  <1> QED
    BY <1>6, <1>7, <1>8

\* The shadow is read.
LEMMA ShadowKnows ==
    ASSUME IInv, BooksAgree, NEW j \in Jobs, JobKnows(j), ReadShadow(j)
    PROVE  BooksAgree' /\ JobKnows(j)'
  <1>. USE DEF IInv
  <1>1. UNCHANGED <<ledger, offset, shadow>>
    BY DEF ReadShadow, order
  <1>2. BooksAgree'
    BY <1>1, SameBooks
  <1>3. /\ job[j].event \in Events /\ job[j].phase = "shadow"
        /\ job[j].event.type \in {"refund", "cancelled"}
    BY JobFacts DEF ReadShadow, At
  <1>4. /\ job'[j].event = job[j].event /\ job'[j].amount = job[j].amount
        /\ job'[j].target = job[j].target
        /\ job'[j].creates = job[j].creates
        /\ job'[j].phase = "commit" /\ job'[j].seen = shadow.refund
    BY DEF ReadShadow, TypeOK, JobRecord
  <1>5. /\ PaidBooked' <=> PaidBooked
        /\ Due(j)' = Due(j)
        /\ GivesBack(j)' <=> GivesBack(j)
        /\ Booked(job[j].event)' <=> Booked(job[j].event)
    BY <1>1, <1>3, <1>4, SameBooks, SameDue
  <1>6. JobKnows(j)'
    <2>1. ReversalKnows(j)
      BY <1>3 DEF JobKnows
    <2>2. ReversalKnows(j)'
      BY <1>1, <1>3, <1>4, <1>5, <2>1 DEF ReversalKnows
    <2> QED
      BY <1>3, <1>4, <2>2 DEF JobKnows
  <1> QED
    BY <1>2, <1>6

\* A payment is booked with nothing before it.
LEMMA PaymentKnows ==
    ASSUME IInv, BooksAgree, NEW j \in Jobs, JobKnows(j), CommitPaid(j)
    PROVE  BooksAgree' /\ JobKnows(j)'
  <1>. USE DEF IInv
  <1>. USE SettlementAssumption
  <1>1. /\ job[j].event.type = "paid" /\ job[j].phase = "commit"
        /\ job'[j].phase = "done" /\ shadow' = shadow
    BY DEF CommitPaid, At, End, TypeOK, JobRecord
  <1>2. JobKnows(j)'
    BY <1>1, Unknowing
  <1>3. /\ job[j].duplicate <=> PaidBooked
        /\ IF job[j].target = "none" THEN PaidBooked \/ Credit = 0
           ELSE /\ job[j].target \in {"captured", "expired"}
                /\ ~PaidBooked /\ Credit > 0
    BY <1>1 DEF JobKnows, PaidKnows
  <1>4. offset' = IF job[j].target = "none" THEN offset ELSE job[j].target
    BY <1>1, CommitFacts DEF OffsetAfter, LockIsHeld, HasWritten
  <1>5. job[j].target \in {"none", "expired"} => ~job[j].creates
    BY <1>1 DEF TargetsFollowReads, CreatesFirstEntry, HasWritten
  <1>6. CASE PaidBooked \/ job[j].target = "expired"
    <2>1. ledger' = ledger
      BY <1>3, <1>5, <1>6 DEF CommitPaid, WithOffsetEntry
    <2>2. CASE offset' = offset
      BY <1>1, <1>2, <2>1, <2>2, SameBooks
    <2>3. CASE offset' # offset
      <3>1. ~PaidBooked /\ Credit > 0 /\ offset' = "expired"
        BY <1>3, <1>4, <1>6, <2>3
      <3>2. /\ PaidBooked' <=> PaidBooked
            /\ Reversed' = Reversed /\ Remaining' = Remaining
            /\ HasOffset' <=> HasOffset
        BY <2>1 DEF PaidBooked, Reversed, Remaining, HasOffset
      <3>3. PaidOnce' /\ BookedOnce' /\ ShadowAgrees'
        BY <1>1, <2>1, <3>2
        DEF BooksAgree, PaidOnce, BookedOnce, ShadowAgrees
      <3>4. OffsetAgrees'
        BY <2>1, <3>1, <3>2 DEF BooksAgree, OffsetAgrees
      <3>5. BookedRefunds' = BookedRefunds
        BY <2>1 DEF BookedRefunds
      <3>6. RefundsAsked'
        BY <3>1, <3>2, <3>5 DEF BooksAgree, RefundsAsked
      <3> QED
        BY <1>2, <3>3, <3>4, <3>6 DEF BooksAgree
    <2> QED
      BY <2>2, <2>3
  <1>7. CASE ~PaidBooked /\ job[j].target # "expired"
    <2>1. /\ ledger'.paid = Book(ledger.paid, Cash + Credit)
          /\ ledger'.cancelled = ledger.cancelled
          /\ ledger'.refunds = ledger.refunds
          /\ ledger'.refunded = ledger.refunded
          /\ ledger'.holds = ledger.holds /\ ledger'.held = ledger.held
          /\ ledger'.wins = ledger.wins
          /\ ledger'.reinstated = ledger.reinstated
          /\ ledger'.returned = ledger.returned
      <3>1. ledger' = WithOffsetEntry(j,
                        [ledger EXCEPT !.paid = Book(@, Cash + Credit)])
        BY <1>3, <1>7 DEF CommitPaid
      <3>2. job[j].creates => job[j].target = "captured"
        BY <1>3, <1>5, <1>7
      <3> QED
        BY <3>1, <3>2 DEF WithOffsetEntry, TypeOK, Ledgers
    <2>2. /\ ledger.paid.n \in Nat /\ ledger.paid.n = 0
          /\ ledger.paid.sum = 0
          /\ \A f \in Refunds : ledger.refunds[f] = 0
          /\ ledger.refunded = 0 /\ ledger.cancelled = Unbooked
          /\ ledger.held = 0 /\ ledger.reinstated = 0
      BY <1>7
      DEF BooksAgree, PaidOnce, PaidBooked, TypeOK, Ledgers, Booking
    <2>3. ledger'.paid.n = 1 /\ ledger'.paid.sum = Cash + Credit
      BY <2>1, <2>2 DEF Book
    <2>4. ledger.cancelled.n = 0 /\ ledger.cancelled.sum = 0
      BY <2>2 DEF Unbooked
    <2>5. Reversed' = 0 /\ Reversed = 0
      BY <2>1, <2>2, <2>4 DEF Reversed
    <2>6. PaidBooked' /\ Remaining' = Cash + Credit
      <3>1. PaidBooked'
        BY <2>3 DEF PaidBooked
      <3>2. Remaining' = Monus(Cash + Credit, 0)
        BY <2>3, <2>5 DEF Remaining
      <3> QED
        BY <3>1, <3>2 DEF Monus
    <2>7. PaidOnce'
      BY <2>3, <2>6 DEF PaidOnce
    <2>8. BookedOnce'
      BY <2>1, <2>2, <2>3, <2>4, <2>5 DEF BooksAgree, BookedOnce
    <2>9. ShadowAgrees'
      <3>1. Remaining = 0
        BY <2>2, <2>5 DEF Remaining, Monus
      <3>2. shadow.refund = 0 /\ shadow.status = "paid"
        BY <2>5 DEF BooksAgree, ShadowAgrees
      <3> QED
        BY <1>1, <2>5, <2>6, <3>2 DEF ShadowAgrees
    <2>10. OffsetAgrees'
      <3>1. CASE Credit = 0
        BY <1>3, <1>4, <3>1 DEF BooksAgree, OffsetAgrees
      <3>2. CASE Credit # 0
        <4>1. offset' = "captured"
          BY <1>3, <1>4, <1>7, <3>2
        <4>2. ledger'.returned = 0
          BY <1>7, <2>1, <3>2 DEF BooksAgree, OffsetAgrees
        <4> QED
          BY <2>6, <3>2, <4>1, <4>2 DEF OffsetAgrees
      <3> QED
        BY <3>1, <3>2
    <2>11. RefundsAsked'
      <3>1. BookedRefunds' = {}
        BY <2>1, <2>2 DEF BookedRefunds
      <3>2. Total(RefundAmount, BookedRefunds') = 0
        <4>1. Total(RefundAmount, BookedRefunds') = Total(RefundAmount, {})
          BY <3>1, Zenon
        <4> QED
          BY <4>1, TotalEmpty
      <3>3. IsFiniteSet(BookedRefunds')
        BY <3>1, FS_EmptySet
      <3> QED
        BY <2>1, <2>2, <2>4, <2>6, <3>2, <3>3 DEF RefundsAsked
    <2> QED
      BY <1>2, <2>7, <2>8, <2>9, <2>10, <2>11 DEF BooksAgree
  <1> QED
    BY <1>6, <1>7

\* What a refund or a cancellation that runs alone commits.
LEMMA ReversalFacts ==
    ASSUME IInv, BooksAgree, NEW j \in Jobs, JobKnows(j), CommitReversal(j)
    PROVE  /\ job[j].event \in Events
           /\ job[j].event.type \in {"refund", "cancelled"}
           /\ job[j].event.type = "refund" => job[j].event.ref \in Refunds
           /\ ~Booked(job[j].event) /\ PaidBooked
           /\ job[j].amount = Due(j) /\ Due(j) > 0 /\ Due(j) \in Nat
           /\ job[j].seen = Reversed
           /\ offset' = IF GivesBack(j) THEN "refunded" ELSE offset
           /\ ledger'.paid = ledger.paid
           /\ ledger'.cancelled =
                IF job[j].event.type = "refund" THEN ledger.cancelled
                ELSE Book(ledger.cancelled, Due(j))
           /\ ledger'.refunds =
                IF job[j].event.type = "refund"
                THEN [ledger.refunds EXCEPT ![job[j].event.ref] = @ + 1]
                ELSE ledger.refunds
           /\ ledger'.refunded =
                IF job[j].event.type = "refund"
                THEN ledger.refunded + Due(j) ELSE ledger.refunded
           /\ ledger'.holds = ledger.holds /\ ledger'.held = ledger.held
           /\ ledger'.wins = ledger.wins
           /\ ledger'.reinstated = ledger.reinstated
           /\ ledger'.returned =
                IF GivesBack(j) THEN ledger.returned + 1 ELSE ledger.returned
  <1>. USE DEF IInv
  <1>1. /\ job[j].event \in Events /\ job[j].phase = "commit"
        /\ job[j].event.type \in {"refund", "cancelled"}
        /\ job[j].event.type = "refund" => job[j].event.ref \in Refunds
    BY JobFacts DEF CommitReversal, At
  <1>2. /\ ~Booked(job[j].event) /\ PaidBooked
        /\ job[j].amount = Due(j) /\ Due(j) > 0
        /\ job[j].target = IF GivesBack(j) THEN "refunded" ELSE "none"
        /\ (job[j].creates <=> GivesBack(j))
        /\ job[j].seen = shadow.refund
    BY <1>1 DEF JobKnows, ReversalKnows
  <1>3. Due(j) \in Nat
    BY <1>1, SummaryFacts DEF Due
  <1>4. shadow.refund = Reversed
    BY DEF BooksAgree, ShadowAgrees
  <1>5. offset' = IF GivesBack(j) THEN "refunded" ELSE offset
    BY <1>1, <1>2, CommitFacts DEF OffsetAfter, LockIsHeld, HasWritten
  <1>6. ledger'.returned =
          IF GivesBack(j) THEN ledger.returned + 1 ELSE ledger.returned
    BY <1>2, CommitFacts
  <1>. DEFINE amount == job[j].amount
  <1>. DEFINE l == IF job[j].event.type = "refund"
                   THEN RefundBooked(job[j].event.ref, amount)
                   ELSE [ledger EXCEPT !.cancelled = Book(@, amount)]
  <1>7. ledger' = WithOffsetEntry(j, l)
    BY DEF CommitReversal
  <1>8. /\ l.paid = ledger.paid
        /\ l.holds = ledger.holds /\ l.held = ledger.held
        /\ l.wins = ledger.wins /\ l.reinstated = ledger.reinstated
        /\ l.cancelled = IF job[j].event.type = "refund" THEN ledger.cancelled
                         ELSE Book(ledger.cancelled, amount)
        /\ l.refunds = IF job[j].event.type = "refund"
                       THEN [ledger.refunds EXCEPT ![job[j].event.ref] = @ + 1]
                       ELSE ledger.refunds
        /\ l.refunded = IF job[j].event.type = "refund"
                        THEN ledger.refunded + amount ELSE ledger.refunded
    BY DEF RefundBooked, TypeOK, Ledgers
  <1>9. l \in Ledgers
    BY <1>1, <1>2, <1>3, BookingKeepsLedger, RefundKeepsLedger DEF TypeOK
  <1>. HIDE DEF l
  <1>10. /\ ledger'.paid = l.paid
         /\ ledger'.holds = l.holds /\ ledger'.held = l.held
         /\ ledger'.wins = l.wins /\ ledger'.reinstated = l.reinstated
         /\ ledger'.cancelled = l.cancelled
         /\ ledger'.refunds = l.refunds
         /\ ledger'.refunded = l.refunded
    BY <1>7, <1>9 DEF WithOffsetEntry, Ledgers
  <1> QED
    BY <1>1, <1>2, <1>3, <1>4, <1>5, <1>6, <1>8, <1>10

\* The last of the payment is reversed together with its credit; before that,
\* a refund takes what it asks for and leaves more than the credit.
LEMMA LastReversal ==
    ASSUME IInv, BooksAgree, NEW j \in Jobs, JobKnows(j), CommitReversal(j)
    PROVE  /\ Due(j) <= Remaining
           /\ GivesBack(j) => Due(j) = Remaining /\ Credit > 0
           /\ ~GivesBack(j) /\ Credit > 0 => Remaining - Due(j) > Credit
           /\ Remaining - Due(j) = 0
              \/ /\ job[j].event.type = "refund" /\ ~GivesBack(j)
                 /\ Due(j) = RefundAmount[job[j].event.ref]
                 /\ Remaining - Due(j) > Credit
  <1>. USE SettlementAssumption DEF IInv
  <1>0. Remaining \in Nat /\ PaidBooked
    BY SummaryFacts, ReversalFacts
  <1>1. CASE job[j].event.type = "cancelled"
    BY <1>0, <1>1 DEF Due, GivesBack, HasOffset
  <1>2. CASE job[j].event.type = "refund"
    <2>. DEFINE f == job[j].event.ref
    <2>1. f \in Refunds /\ RefundAmount[f] \in Nat
      BY <1>2, ReversalFacts
    <2>2. Due(j) = Refunded(f) /\ (GivesBack(j) <=> ReversesCredit(f))
      BY <1>2 DEF Due, GivesBack
    <2>3. CASE ReversesCredit(f)
      <3>1. Refunded(f) = Remaining
        BY <1>0, <2>1, <2>3, SummaryFacts
      <3>2. Credit > 0
        BY <2>3 DEF ReversesCredit, HasOffset
      <3> QED
        BY <1>0, <2>2, <2>3, <3>1, <3>2
    <2>4. CASE ~ReversesCredit(f)
      <3>1. Refunded(f) = Minimum(RefundAmount[f], Remaining)
        BY <1>0, <2>1, <2>4, SummaryFacts
      <3>2. Credit > 0 => Remaining > Credit /\ RefundAmount[f] < Remaining - Credit
        BY <1>0, <2>1, <2>4 DEF ReversesCredit, HasOffset, Monus
      <3>3. CASE Credit = 0
        BY <1>0, <1>2, <2>1, <2>2, <2>4, <3>1, <3>3 DEF Minimum
      <3>4. CASE Credit > 0
        <4>1. Refunded(f) = RefundAmount[f]
          BY <1>0, <2>1, <3>1, <3>2, <3>4 DEF Minimum
        <4> QED
          BY <1>0, <1>2, <2>1, <2>2, <2>4, <3>2, <3>4, <4>1
      <3> QED
        BY <3>3, <3>4
    <2> QED
      BY <2>3, <2>4
  <1> QED
    BY <1>1, <1>2, ReversalFacts

\* A refund or a cancellation keeps ledger, seller order and credit together.
LEMMA ReversalStep ==
    ASSUME IInv, BooksAgree, NEW j \in Jobs, JobKnows(j), CommitReversal(j)
    PROVE  BooksAgree' /\ JobKnows(j)'
  <1>. USE SettlementAssumption DEF IInv
  <1>. DEFINE e == job[j].event
  <1>. DEFINE f == job[j].event.ref
  <1>1. JobKnows(j)'
    <2>1. job'[j].phase = "done"
      BY CommitFacts
    <2> QED
      BY <2>1, Unknowing
  <1>2. /\ e \in Events /\ e.type \in {"refund", "cancelled"}
        /\ e.type = "refund" => f \in Refunds
        /\ ~Booked(e) /\ PaidBooked
        /\ Due(j) \in Nat /\ Due(j) > 0 /\ Due(j) <= Remaining
    BY ReversalFacts, LastReversal
  <1>3. /\ ledger.paid.sum = Cash + Credit
        /\ Remaining \in Nat /\ Reversed \in Nat
        /\ Remaining = Cash + Credit - Reversed
    BY <1>2, SummaryFacts
  <1>4. /\ ledger.refunded \in Nat /\ ledger.cancelled.sum \in Nat
        /\ ledger.cancelled.n \in Nat
        /\ ledger.refunds \in [Refunds -> Nat]
    BY DEF TypeOK, Ledgers, Booking
  <1>. DEFINE counts == [ledger.refunds EXCEPT ![f] = @ + 1]
  <1>a. e.type = "refund" =>
          /\ ledger'.cancelled = ledger.cancelled
          /\ ledger'.refunds = counts
          /\ ledger'.refunded = ledger.refunded + Due(j)
    BY ReversalFacts
  <1>b. e.type = "cancelled" =>
          /\ ledger'.cancelled = Book(ledger.cancelled, Due(j))
          /\ ledger'.refunds = ledger.refunds
          /\ ledger'.refunded = ledger.refunded
    BY ReversalFacts
  <1>c. e.type = "refund" => \A g \in Refunds :
          counts[g] = IF g = f THEN ledger.refunds[g] + 1 ELSE ledger.refunds[g]
    BY <1>2, <1>4
  <1>. HIDE DEF counts
  <1>5. Reversed' = Reversed + Due(j)
    <2>1. CASE e.type = "refund"
      BY <1>2, <1>4, <1>a, <2>1 DEF Reversed
    <2>2. CASE e.type = "cancelled"
      <3>1. ledger'.cancelled.sum = ledger.cancelled.sum + Due(j)
        BY <1>b, <2>2 DEF Book
      <3> QED
        BY <1>2, <1>4, <1>b, <2>2, <3>1 DEF Reversed
    <2> QED
      BY <1>2, <2>1, <2>2
  <1>6. PaidBooked' /\ ledger'.paid.sum = Cash + Credit
    BY <1>2, <1>3, ReversalFacts DEF PaidBooked
  <1>7. Remaining' = Remaining - Due(j)
    BY <1>2, <1>3, <1>5, <1>6 DEF Remaining, Monus
  <1>8. PaidOnce'
    BY <1>3, <1>6, ReversalFacts DEF BooksAgree, PaidOnce
  <1>9. BookedOnce'
    <2>1. ledger'.cancelled.n <= 1
      <3>1. CASE e.type = "refund"
        BY <3>1, ReversalFacts DEF BooksAgree, BookedOnce
      <3>2. CASE e.type = "cancelled"
        <4>1. ledger.cancelled.n = 0
          BY <1>2, <1>4, <3>2 DEF Booked
        <4> QED
          BY <1>b, <3>2, <4>1 DEF Book
      <3> QED
        BY <1>2, <3>1, <3>2
    <2>2. \A g \in Refunds : ledger'.refunds[g] <= 1
      <3>1. CASE e.type = "refund"
        <4>1. ledger.refunds[f] = 0
          BY <1>2, <1>4, <3>1 DEF Booked
        <4> QED
          BY <1>a, <1>c, <3>1, <4>1 DEF BooksAgree, BookedOnce
      <3>2. CASE e.type = "cancelled"
        BY <3>2, ReversalFacts DEF BooksAgree, BookedOnce
      <3> QED
        BY <1>2, <3>1, <3>2
    <2>3. Reversed' <= ledger'.paid.sum
      BY <1>2, <1>3, <1>5, <1>6
    <2> QED
      BY <1>3, <1>6, <2>1, <2>2, <2>3, ReversalFacts DEF BooksAgree, BookedOnce
  <1>10. ShadowAgrees'
    <2>. DEFINE refund == Reversed + Due(j)
    <2>0. job[j].seen + job[j].amount = refund
      BY ReversalFacts
    <2>1. shadow'.refund = refund
      BY <2>0 DEF CommitReversal, TypeOK
    <2>2. shadow'.status = IF e.type = "refund"
                           THEN StatusAfterRefund(refund, shadow.status)
                           ELSE StatusAfterCancellation(refund, shadow.status)
      BY <2>0 DEF CommitReversal, TypeOK
    <2>3. refund \in Nat /\ refund > 0
      BY <1>2, <1>3
    <2>. HIDE DEF refund
    <2>4. CASE refund >= Cash + Credit
      <3>1. shadow'.status \in {"refunded", "cancelled"}
        BY <1>2, <2>2, <2>4 DEF StatusAfterRefund, StatusAfterCancellation
      <3>2. Remaining' = 0 /\ Reversed' # 0
        BY <1>2, <1>3, <1>5, <1>7, <2>3, <2>4 DEF refund
      <3> QED
        BY <1>5, <1>6, <2>1, <3>1, <3>2 DEF ShadowAgrees, refund
    <2>5. CASE ~(refund >= Cash + Credit)
      <3>1. shadow'.status = "partially_refunded"
        BY <1>2, <2>2, <2>3, <2>5
        DEF StatusAfterRefund, StatusAfterCancellation
      <3>2. Remaining' # 0 /\ Reversed' # 0
        BY <1>2, <1>3, <1>5, <1>7, <2>3, <2>5 DEF refund
      <3> QED
        BY <1>5, <1>6, <2>1, <3>1, <3>2 DEF ShadowAgrees, refund
    <2> QED
      BY <2>4, <2>5
  <1>11. OffsetAgrees'
    <2>0. Remaining > 0
      BY <1>2, <1>3
    <2>1. CASE Credit = 0
      <3>1. offset = "none" /\ ~GivesBack(j)
        BY <2>1, LastReversal DEF BooksAgree, OffsetAgrees
      <3> QED
        BY <2>1, <3>1, ReversalFacts DEF OffsetAgrees
    <2>2. CASE Credit # 0
      <3>0. Credit > 0
        BY <2>2
      <3>1. offset = "captured" /\ ledger.returned = 0
        BY <1>2, <2>0, <2>2 DEF BooksAgree, OffsetAgrees
      <3>2. CASE GivesBack(j)
        <4>1. Remaining' = 0
          BY <1>3, <1>7, <3>2, LastReversal
        <4>2. offset' = "refunded" /\ ledger'.returned = 1
          <5>1. offset' = "refunded"
            BY <3>2, ReversalFacts
          <5>2. ledger'.returned = ledger.returned + 1
            BY <3>2, ReversalFacts
          <5> QED
            BY <3>1, <5>1, <5>2
        <4> QED
          BY <1>6, <2>2, <4>1, <4>2 DEF OffsetAgrees
      <3>3. CASE ~GivesBack(j)
        <4>1. Remaining' # 0
          BY <1>3, <1>7, <3>0, <3>3, LastReversal
        <4> QED
          BY <1>6, <2>2, <3>1, <3>3, <4>1, ReversalFacts DEF OffsetAgrees
      <3> QED
        BY <3>2, <3>3
    <2> QED
      BY <2>1, <2>2
  <1>12. RefundsAsked'
    <2>0. IsFiniteSet(BookedRefunds)
      BY DEF BooksAgree, RefundsAsked
    <2>1. CASE e.type = "refund"
      <3>1. f \in Refunds /\ f \notin BookedRefunds
        BY <1>2, <2>1 DEF Booked, BookedRefunds
      <3>2. BookedRefunds' = BookedRefunds \cup {f}
        <4>1. \A g \in Refunds :
                ledger'.refunds[g] = IF g = f THEN ledger.refunds[g] + 1
                                     ELSE ledger.refunds[g]
          BY <1>a, <1>c, <2>1
        <4> QED
          BY <1>4, <3>1, <4>1 DEF BookedRefunds
      <3>3. IsFiniteSet(BookedRefunds \cup {f})
        BY <2>0, FS_AddElement
      <3>4. Total(RefundAmount, BookedRefunds') =
              RefundAmount[f] + Total(RefundAmount, BookedRefunds)
        <4>. DEFINE S == BookedRefunds \cup {f}
        <4>1. \A g \in S : RefundAmount[g] \in Int
          BY <3>1 DEF BookedRefunds
        <4>2. Total(RefundAmount, S) =
                RefundAmount[f] + Total(RefundAmount, S \ {f})
          <5>. HIDE DEF S
          <5>1. f \in S /\ IsFiniteSet(S)
            BY <3>3 DEF S
          <5> QED
            BY <4>1, <5>1, TotalWithout
        <4>3. Total(RefundAmount, S \ {f}) = Total(RefundAmount, BookedRefunds)
          <5>1. S \ {f} = BookedRefunds
            BY <3>1
          <5> QED
            BY <5>1, Zenon
        <4>4. Total(RefundAmount, BookedRefunds') = Total(RefundAmount, S)
          BY <3>2, Zenon
        <4> QED
          BY <4>2, <4>3, <4>4
      <3>5. ASSUME Remaining' > 0
            PROVE  /\ ledger'.cancelled.sum = 0
                   /\ ledger'.refunded = Total(RefundAmount, BookedRefunds')
                   /\ Remaining' > Credit
        <4>1. Due(j) = RefundAmount[f] /\ Remaining' > Credit
          BY <1>2, <1>3, <1>7, <3>5, LastReversal
        <4>2. Remaining > 0
          BY <1>2, <1>3
        <4>3. /\ ledger.cancelled.sum = 0
              /\ ledger.refunded = Total(RefundAmount, BookedRefunds)
          BY <1>2, <4>2 DEF BooksAgree, RefundsAsked
        <4>4. ledger'.cancelled = ledger.cancelled
          BY <2>1, ReversalFacts
        <4>5. ledger'.refunded = ledger.refunded + Due(j)
          BY <2>1, ReversalFacts
        <4>6. ledger'.refunded = Total(RefundAmount, BookedRefunds')
          BY <1>2, <1>4, <3>4, <4>1, <4>3, <4>5
        <4> QED
          BY <4>1, <4>3, <4>4, <4>6
      <3>6. IsFiniteSet(BookedRefunds')
        BY <3>2, <3>3
      <3> QED
        BY <3>5, <3>6 DEF RefundsAsked
    <2>2. CASE e.type = "cancelled"
      <3>1. BookedRefunds' = BookedRefunds
        BY <2>2, ReversalFacts DEF BookedRefunds
      <3>2. Remaining' = 0
        BY <1>3, <1>7, <2>2, LastReversal
      <3> QED
        BY <2>0, <3>1, <3>2 DEF RefundsAsked
    <2> QED
      BY <1>2, <2>1, <2>2
  <1> QED
    BY <1>1, <1>8, <1>9, <1>10, <1>11, <1>12 DEF BooksAgree

\* What disputes hold and give back stays within the payment.
LEMMA DisputeStep ==
    ASSUME IInv, BooksAgree, NEW j \in Jobs, JobKnows(j),
           \/ SummariseDispute(j) \/ LookForHold(j)
           \/ WriteHold(j) \/ MarkRisk(j)
    PROVE  BooksAgree' /\ JobKnows(j)'
  <1>. USE DEF IInv, TypeOK
  <1>0. /\ job[j].event \in Events /\ job[j].phase # "idle"
        /\ job[j].event.type \in {"dispute_open", "dispute_won"}
        /\ job[j].event.ref \in Disputes /\ job[j].amount \in Nat
    BY JobFacts DEF SummariseDispute, LookForHold, WriteHold, MarkRisk, At
  <1>1. CASE SummariseDispute(j)
    <2>1. UNCHANGED <<ledger, offset, shadow>>
      BY <1>1 DEF SummariseDispute, order
    <2>2. \A limit \in Nat : Asked(limit) <= limit
      BY SettlementAssumption DEF Asked, Minimum
    <2>3. Asked(Holdable) <= Holdable /\ Asked(HeldAmount) <= HeldAmount
      BY <2>2, AmountsAreNat
    <2>4. /\ job'[j].event = job[j].event
          /\ \/ job'[j].phase = "done"
             \/ /\ job'[j].phase = "hold" /\ PaidBooked
                /\ job'[j].amount = IF job[j].event.type = "dispute_open"
                                    THEN Asked(Holdable) ELSE Asked(HeldAmount)
      BY <1>1 DEF SummariseDispute, End, JobRecord
    <2>5. /\ PaidBooked' <=> PaidBooked
          /\ Holdable' = Holdable /\ HeldAmount' = HeldAmount
      BY <2>1, SameBooks
    <2>6. JobKnows(j)'
      BY <1>0, <2>3, <2>4, <2>5
      DEF JobKnows, PaidKnows, ReversalKnows, DisputeKnows
    <2> QED
      BY <2>1, <2>6, SameBooks
  <1>2. CASE LookForHold(j)
    <2>1. UNCHANGED <<ledger, offset, shadow>>
      BY <1>2 DEF LookForHold
    <2>2. /\ job'[j].event = job[j].event /\ job'[j].amount = job[j].amount
          /\ \/ job'[j].phase = "done"
             \/ /\ job'[j].phase = "holdWrite" /\ job[j].phase = "hold"
                /\ ~DisputeBooked(job[j].event) /\ job[j].amount # 0
      BY <1>2 DEF LookForHold, At, Move, End, JobRecord
    <2>3. /\ PaidBooked' <=> PaidBooked
          /\ Holdable' = Holdable /\ HeldAmount' = HeldAmount
          /\ DisputeBooked(job[j].event)' <=> DisputeBooked(job[j].event)
      <3>1. DisputeBooked(job[j].event)' <=> DisputeBooked(job[j].event)
        BY <2>1, <2>2 DEF DisputeBooked
      <3> QED
        BY <2>1, <3>1, SameBooks
    <2>4. DisputeKnows(j)
      BY <1>0 DEF JobKnows
    <2>5. DisputeKnows(j)'
      BY <1>0, <2>2, <2>3, <2>4 DEF DisputeKnows
    <2> QED
      BY <1>0, <2>1, <2>2, <2>5, SameBooks DEF JobKnows
  <1>3. CASE WriteHold(j)
    <2>. DEFINE a == job[j].amount
    <2>. DEFINE d == job[j].event.ref
    <2>. DEFINE opens == job[j].event.type = "dispute_open"
    <2>. DEFINE holds == [ledger.holds EXCEPT ![d] = @ + 1]
    <2>. DEFINE wins == [ledger.wins EXCEPT ![d] = @ + 1]
    <2>1. /\ PaidBooked /\ ~DisputeBooked(job[j].event) /\ a > 0
          /\ a <= IF opens THEN Holdable ELSE HeldAmount
      BY <1>0, <1>3 DEF WriteHold, At, JobKnows, DisputeKnows
    <2>2. job'[j].phase = "risk" /\ UNCHANGED <<offset, shadow>>
      BY <1>3 DEF WriteHold, Move, JobRecord
    <2>3. /\ ledger'.paid = ledger.paid
          /\ ledger'.cancelled = ledger.cancelled
          /\ ledger'.refunds = ledger.refunds
          /\ ledger'.refunded = ledger.refunded
          /\ ledger'.returned = ledger.returned
      BY <1>3 DEF WriteHold, Ledgers
    <2>4. /\ opens => /\ ledger'.holds = holds /\ ledger'.wins = ledger.wins
                      /\ ledger'.held = ledger.held + a
                      /\ ledger'.reinstated = ledger.reinstated
          /\ ~opens => /\ ledger'.wins = wins /\ ledger'.holds = ledger.holds
                       /\ ledger'.held = ledger.held
                       /\ ledger'.reinstated = ledger.reinstated + a
      BY <1>3 DEF WriteHold, Ledgers
    <2>5. /\ \A c \in Disputes : holds[c] =
               IF c = d THEN ledger.holds[c] + 1 ELSE ledger.holds[c]
          /\ \A c \in Disputes : wins[c] =
               IF c = d THEN ledger.wins[c] + 1 ELSE ledger.wins[c]
      BY <1>0 DEF Ledgers
    <2>. HIDE DEF holds, wins
    <2>6. /\ PaidBooked' <=> PaidBooked
          /\ Reversed' = Reversed /\ Remaining' = Remaining
      BY <2>3 DEF PaidBooked, Reversed, Remaining
    <2>7. /\ ledger.held \in Nat /\ ledger.reinstated \in Nat
          /\ ledger.holds \in [Disputes -> Nat]
          /\ ledger.wins \in [Disputes -> Nat]
          /\ ledger.paid.sum \in Nat /\ Remaining \in Nat
          /\ Remaining <= ledger.paid.sum
      <3>1. Remaining = ledger.paid.sum - Reversed
        BY SummaryFacts
      <3> QED
        BY <3>1, AmountsAreNat DEF Ledgers, Booking
    <2>8. HeldAmount = ledger.held - ledger.reinstated
      BY <2>7 DEF BooksAgree, BookedOnce, HeldAmount, Monus
    <2>9. /\ ledger'.reinstated <= ledger'.held
          /\ ledger'.held <= ledger'.paid.sum + ledger'.reinstated
      <3>1. CASE opens
        <4>1. a <= Remaining - HeldAmount
          BY <1>0, <2>1, <2>7, <2>8, <3>1 DEF Holdable, Monus
        <4> QED
          BY <1>0, <2>3, <2>4, <2>7, <2>8, <3>1, <4>1
          DEF BooksAgree, BookedOnce
      <3>2. CASE ~opens
        BY <1>0, <2>1, <2>3, <2>4, <2>7, <2>8, <3>2
        DEF BooksAgree, BookedOnce
      <3> QED
        BY <3>1, <3>2
    <2>10. \A c \in Disputes : ledger'.holds[c] <= 1 /\ ledger'.wins[c] <= 1
      <3>1. CASE opens
        <4>1. ledger.holds[d] = 0
          BY <1>0, <2>1, <2>7, <3>1 DEF DisputeBooked
        <4> QED
          BY <2>4, <2>5, <3>1, <4>1 DEF BooksAgree, BookedOnce
      <3>2. CASE ~opens
        <4>1. ledger.wins[d] = 0
          BY <1>0, <2>1, <2>7, <3>2 DEF DisputeBooked
        <4> QED
          BY <2>4, <2>5, <3>2, <4>1 DEF BooksAgree, BookedOnce
      <3> QED
        BY <3>1, <3>2
    <2>11. PaidOnce'
      BY <2>1, <2>3, <2>6 DEF BooksAgree, PaidOnce
    <2>12. BookedOnce'
      BY <2>3, <2>6, <2>9, <2>10 DEF BooksAgree, BookedOnce
    <2>13. ShadowAgrees' /\ OffsetAgrees'
      BY <2>2, <2>3, <2>6 DEF BooksAgree, ShadowAgrees, OffsetAgrees
    <2>14. RefundsAsked'
      <3>1. BookedRefunds' = BookedRefunds
        BY <2>3 DEF BookedRefunds
      <3>2. Total(RefundAmount, BookedRefunds') =
              Total(RefundAmount, BookedRefunds)
        BY <3>1, Zenon
      <3> QED
        BY <2>3, <2>6, <3>1, <3>2 DEF BooksAgree, RefundsAsked
    <2> QED
      BY <2>2, <2>11, <2>12, <2>13, <2>14, Unknowing DEF BooksAgree
  <1>4. CASE MarkRisk(j)
    <2>1. /\ UNCHANGED <<ledger, offset>> /\ job'[j].phase = "done"
          /\ shadow'.refund = shadow.refund /\ shadow'.status = shadow.status
      BY <1>4 DEF MarkRisk, End, JobRecord
    <2>2. /\ PaidBooked' <=> PaidBooked
          /\ Reversed' = Reversed /\ Remaining' = Remaining
      BY <2>1 DEF PaidBooked, Reversed, Remaining
    <2>3. PaidOnce' /\ BookedOnce' /\ ShadowAgrees' /\ OffsetAgrees'
      BY <2>1, <2>2
      DEF BooksAgree, PaidOnce, BookedOnce, ShadowAgrees, OffsetAgrees
    <2>4. RefundsAsked'
      <3>1. BookedRefunds' = BookedRefunds
        BY <2>1 DEF BookedRefunds
      <3>2. Total(RefundAmount, BookedRefunds') =
              Total(RefundAmount, BookedRefunds)
        BY <3>1, Zenon
      <3> QED
        BY <2>1, <2>2, <3>1, <3>2 DEF BooksAgree, RefundsAsked
    <2> QED
      BY <2>1, <2>3, <2>4, Unknowing DEF BooksAgree
  <1> QED
    BY <1>1, <1>2, <1>3, <1>4

\* A run of a handler starts knowing nothing and ends, or dies, without a
\* trace outside its transaction.
LEMMA EdgeKnows ==
    ASSUME IInv, BooksAgree, NEW j \in Jobs, Edge(j)
    PROVE  BooksAgree' /\ JobKnows(j)'
  <1>. USE DEF IInv
  <1>1. UNCHANGED <<ledger, offset, shadow>>
    BY DEF Edge, Finish, Abort, Receive, order
  <1>2. job'[j].phase \in {"idle", "check"}
    BY EdgeFacts
  <1> QED
    BY <1>1, <1>2, SameBooks, Unknowing

\* While no two handlers overlap, the one that steps is the only one.
LEMMA OneByOneStep ==
    ASSUME IInv, OneByOne, [Next]_vars
    PROVE  OneByOne'
  <1>1. SUFFICES ASSUME ~overlapped'
                 PROVE  Alone' /\ BooksAgree' /\ \A j \in Jobs : JobKnows(j)'
    BY DEF OneByOne
  <1>2. CASE UNCHANGED vars
    <2>1. UNCHANGED <<ledger, offset, shadow>> /\ job' = job /\ ~overlapped
      BY <1>1, <1>2 DEF vars
    <2>2. Alone' /\ BooksAgree'
      BY <2>1, SameBooks DEF OneByOne, Alone, Active
    <2>3. ASSUME NEW j \in Jobs PROVE JobKnows(j)'
      <3>1. JobKnows(j)
        BY <2>1 DEF OneByOne
      <3>2. CASE job[j].phase = "idle"
        BY <2>1, <3>2, Unknowing
      <3>3. CASE job[j].phase # "idle"
        <4>1. job[j].event \in Events
          BY <3>3 DEF IInv, JobsHaveEvents
        <4>2. /\ PaidBooked' <=> PaidBooked
              /\ Due(j)' = Due(j)
              /\ GivesBack(j)' <=> GivesBack(j)
              /\ Booked(job[j].event)' <=> Booked(job[j].event)
              /\ Holdable' = Holdable /\ HeldAmount' = HeldAmount
          BY <2>1, <4>1, SameBooks, SameDue
        <4>3. DisputeBooked(job[j].event)' <=> DisputeBooked(job[j].event)
          BY <2>1 DEF DisputeBooked
        <4>4. PaidKnows(j) => PaidKnows(j)'
          BY <2>1, <4>2 DEF PaidKnows
        <4>5. ReversalKnows(j) => ReversalKnows(j)'
          BY <2>1, <4>2 DEF ReversalKnows
        <4>6. DisputeKnows(j) => DisputeKnows(j)'
          BY <2>1, <4>2, <4>3 DEF DisputeKnows
        <4> QED
          BY <2>1, <3>1, <4>4, <4>5, <4>6 DEF JobKnows
      <3> QED
        BY <3>2, <3>3
    <2> QED
      BY <2>2, <2>3
  <1>3. ASSUME NEW j \in Jobs, Step(j) \/ Edge(j)
        PROVE  Alone' /\ BooksAgree' /\ \A i \in Jobs : JobKnows(i)'
    <2>1. \A i \in Jobs \ {j} : job'[i] = job[i]
      BY <1>3, OthersStay DEF IInv
    <2>2. ~overlapped /\ \A i \in Jobs \ {j} : job[i].phase = "idle"
      <3>1. ASSUME NEW e \in Events, Receive(j, e)
            PROVE  ~overlapped /\ \A i \in Jobs : job[i].phase = "idle"
        BY <1>1, <3>1 DEF Receive
      <3>2. CASE Step(j) \/ Finish(j) \/ Abort(j)
        <4>1. overlapped' = overlapped
          BY <3>2
          DEF Step, CheckBooked, RefusePaid, SummariseRefund,
              SummariseCancelled, ReadOffsetToCapture, ReadOffsetToReverse,
              WriteOffset, ReadShadow, CommitPaid, CommitReversal,
              SummariseDispute, LookForHold, WriteHold, MarkRisk, Finish,
              Abort, received
        <4>2. job[j].phase # "idle"
          BY <3>2
          DEF Step, CheckBooked, RefusePaid, SummariseRefund,
              SummariseCancelled, ReadOffsetToCapture, ReadOffsetToReverse,
              WriteOffset, ReadShadow, CommitPaid, CommitReversal,
              SummariseDispute, LookForHold, WriteHold, MarkRisk, Finish,
              Abort, At
        <4> QED
          BY <1>1, <4>1, <4>2 DEF OneByOne, Alone, Active
      <3> QED
        BY <1>3, <3>1, <3>2 DEF Edge
    <2>3. Alone'
      BY <2>1, <2>2 DEF Alone, Active
    <2>4. BooksAgree /\ JobKnows(j)
      BY <2>2 DEF OneByOne
    <2>5. BooksAgree' /\ JobKnows(j)'
      BY <1>3, <2>4, CheckKnows, SummaryKnows, OffsetKnows, WriteKnows,
         ShadowKnows, PaymentKnows, ReversalStep, DisputeStep, EdgeKnows
      DEF Step, Edge
    <2>6. \A i \in Jobs \ {j} : JobKnows(i)'
      BY <2>1, <2>2, Unknowing
    <2> QED
      BY <2>3, <2>5, <2>6
  <1> QED
    BY <1>2, <1>3 DEF Next, Edge

LEMMA InitOneByOne == Init => OneByOne
  <1>. SUFFICES ASSUME Init PROVE OneByOne
    OBVIOUS
  <1>. USE SettlementAssumption
  <1>1. \A j \in Jobs : job[j].phase = "idle"
    BY DEF Init, IdleJob
  <1>2. ~PaidBooked /\ Reversed = 0 /\ Remaining = 0
    BY DEF Init, Unbooked, PaidBooked, Reversed, Remaining, Monus
  <1>3. PaidOnce /\ BookedOnce
    BY <1>2 DEF Init, Unbooked, PaidOnce, BookedOnce
  <1>4. ShadowAgrees /\ OffsetAgrees
    BY <1>2 DEF Init, ShadowAgrees, OffsetAgrees
  <1>5. RefundsAsked
    <2>1. BookedRefunds = {}
      BY DEF Init, BookedRefunds
    <2> QED
      BY <1>2, <2>1, FS_EmptySet DEF RefundsAsked
  <1> QED
    BY <1>1, <1>3, <1>4, <1>5, Unknowing
    DEF OneByOne, Alone, Active, BooksAgree

-----------------------------------------------------------------------------
(* The theorems.                                                           *)

LEMMA InitIInv == Init => IInv
  <1>. SUFFICES ASSUME Init PROVE IInv
    OBVIOUS
  <1>1. TypeOK
    BY InitTypeOK
  <1>2. \A j \in Jobs : /\ job[j].phase = "idle" /\ job[j].target = "none"
                        /\ offsetLock # j
    BY SettlementAssumption DEF Init, IdleJob
  <1>3. JobsHaveEvents /\ LockIsHeld /\ TargetsFollowReads
    BY <1>2 DEF JobsHaveEvents, LockIsHeld, TargetsFollowReads, HasWritten
  <1>4. ReturnsFollowCapture /\ CreatesFirstEntry
    BY <1>2 DEF ReturnsFollowCapture, CreatesFirstEntry, HasWritten
  <1>5. CaptureIsBooked /\ PaymentCaptures
    BY <1>2 DEF Init, CaptureIsBooked, PaymentCaptures, HasWritten, At
  <1>6. CreditMovesOnce /\ HoldPutsSellerUnderReview
    BY <1>2 DEF Init, Unbooked, CreditMovesOnce, HoldPutsSellerUnderReview, At
  <1> QED
    BY <1>1, <1>3, <1>4, <1>5, <1>6 DEF IInv

\* The invariant holds in every state, for any number of overlapping
\* handlers, refunds, disputes and amounts.
THEOREM Invariance == Spec => []IInv
  <1>1. IInv /\ [Next]_vars => IInv'
    <2>. SUFFICES ASSUME IInv, [Next]_vars PROVE IInv'
      OBVIOUS
    <2>. USE DEF IInv
    <2>1. OffsetInv
      BY DEF OffsetInv
    <2>2. OffsetInv'
      <3>1. CASE UNCHANGED vars
        <4>. USE <3>1 DEF vars
        <4>1. LockIsHeld' /\ TargetsFollowReads' /\ ReturnsFollowCapture'
          BY DEF LockIsHeld, TargetsFollowReads, ReturnsFollowCapture,
                 HasWritten
        <4>2. CreatesFirstEntry' /\ CaptureIsBooked'
          BY DEF CreatesFirstEntry, CaptureIsBooked, HasWritten, OffsetEntry
        <4>3. PaymentCaptures' /\ CreditMovesOnce'
          BY DEF PaymentCaptures, CreditMovesOnce, At
        <4> QED
          BY <4>1, <4>2, <4>3 DEF OffsetInv
      <3>2. CASE Next
        BY <2>1, <3>2, QuietKeepsOffset, ReadingKeepsOffset,
           WritingKeepsOffset, ReadShadowKeepsOffset, CommitKeepsOffset
        DEF Next, Step, Aside, Edge
      <3> QED
        BY <3>1, <3>2
    <2> QED
      BY <2>2, NextTypeOK, EventsStep, HoldStep DEF OffsetInv
  <1> QED
    BY <1>1, InitIInv, PTL DEF Spec

\* The variables keep their types.
THEOREM TypeCorrect == Spec => []TypeOK
  <1>1. IInv => TypeOK
    BY DEF IInv
  <1> QED
    BY <1>1, Invariance, PTL

\* The sales credit is captured and returned at most once each, in this
\* order, and no payment is booked without its credit.
THEOREM CreditIsNotMovedTwice == Spec => []CreditMovesOnce
  <1>1. IInv => CreditMovesOnce
    BY DEF IInv
  <1> QED
    BY <1>1, Invariance, PTL

\* No funds are held for a seller who can be paid out.
THEOREM HeldSellerIsReviewed == Spec => []HoldPutsSellerUnderReview
  <1>1. IInv => HoldPutsSellerUnderReview
    BY DEF IInv
  <1> QED
    BY <1>1, Invariance, PTL


\* While handlers run one by one, the books agree and each handler's reads
\* stay true until it commits.
THEOREM BooksAgreeOneByOne == Spec => []OneByOne
  <1>1. Init => OneByOne
    BY InitOneByOne
  <1>2. IInv /\ OneByOne /\ [Next]_vars => OneByOne'
    BY OneByOneStep
  <1> QED
    BY <1>1, <1>2, Invariance, PTL DEF Spec

\* Handled one by one, in any order and however often, an event books once.
THEOREM EventsBookOnce == Spec => []EachEventBooksOnce
  <1>1. OneByOne => EachEventBooksOnce
    BY DEF OneByOne, BooksAgree, PaidOnce, BookedOnce, EachEventBooksOnce
  <1> QED
    BY <1>1, BooksAgreeOneByOne, PTL

\* Handled one by one, refunds, cancellation and disputes stay within what
\* the order paid.
THEOREM NothingBeyondPayment == Spec => []ReversalsWithinPayment
  <1>1. IInv /\ OneByOne => ReversalsWithinPayment
    <2>. SUFFICES ASSUME IInv, OneByOne, ~overlapped
                  PROVE  /\ Reversed <= ledger.paid.sum
                         /\ HeldAmount <= ledger.paid.sum
                         /\ ledger.reinstated <= ledger.held
      BY DEF ReversalsWithinPayment
    <2>1. /\ ledger.held \in Nat /\ ledger.reinstated \in Nat
          /\ ledger.paid.sum \in Nat
      BY DEF IInv, TypeOK, Ledgers, Booking
    <2>2. BookedOnce
      BY DEF OneByOne, BooksAgree
    <2> QED
      BY <2>1, <2>2 DEF BookedOnce, HeldAmount, Monus
  <1> QED
    BY <1>1, Invariance, BooksAgreeOneByOne, PTL

\* Handled one by one, the seller order shows what the ledger says.
THEOREM SellerOrderAgrees == Spec => []ShadowFollowsLedger
  <1>1. OneByOne => ShadowFollowsLedger
    BY DEF OneByOne, BooksAgree, ShadowAgrees, ShadowFollowsLedger
  <1> QED
    BY <1>1, BooksAgreeOneByOne, PTL

\* Handled one by one, the sales credit goes back exactly with the last of
\* the payment, which is reversed once the refunds have asked for its cash.
THEOREM CreditComesBackAtTheEnd == Spec => []CreditReturnedWithLastYen
  <1>1. IInv /\ OneByOne => CreditReturnedWithLastYen
    <2>. SUFFICES ASSUME IInv, OneByOne, ~overlapped, PaidBooked, Credit > 0
                  PROVE  /\ offset = "refunded" <=> Remaining = 0
                         /\ ledger.returned = 1 <=> Remaining = 0
                         /\ Cash <= MapThenSumSet(LAMBDA f : RefundAmount[f],
                               {f \in Refunds : ledger.refunds[f] > 0})
                              => Remaining = 0
      BY DEF CreditReturnedWithLastYen
    <2>1. TypeOK /\ BooksAgree
      BY DEF IInv, OneByOne
    <2>2. /\ offset = "refunded" <=> Remaining = 0
          /\ ledger.returned = 1 <=> Remaining = 0
      BY <2>1, SettlementAssumption DEF BooksAgree, OffsetAgrees
    <2>3. MapThenSumSet(LAMBDA f : RefundAmount[f],
                        {f \in Refunds : ledger.refunds[f] > 0})
            = Total(RefundAmount, BookedRefunds)
      BY DEF Total, BookedRefunds
    <2>4. ASSUME Cash <= Total(RefundAmount, BookedRefunds)
          PROVE  Remaining = 0
      <3>1. /\ Remaining \in Nat /\ Reversed \in Nat
            /\ Remaining = Cash + Credit - Reversed
        <4>1. /\ Remaining \in Nat /\ Reversed \in Nat
              /\ Remaining = ledger.paid.sum - Reversed
          BY <2>1, SummaryFacts
        <4>2. ledger.paid.sum = Cash + Credit
          BY <2>1 DEF BooksAgree, PaidOnce
        <4> QED
          BY <4>1, <4>2, SettlementAssumption
      <3>2. SUFFICES ASSUME Remaining > 0 PROVE FALSE
        BY <3>1
      <3>3. /\ ledger.cancelled.sum = 0
            /\ ledger.refunded = Total(RefundAmount, BookedRefunds)
            /\ Remaining > Credit
        BY <2>1, <3>2 DEF BooksAgree, RefundsAsked
      <3>4. ledger.refunded \in Nat
        BY <2>1 DEF TypeOK, Ledgers
      <3>5. Reversed = Total(RefundAmount, BookedRefunds)
        BY <3>3, <3>4 DEF Reversed
      <3> QED
        BY <2>4, <3>1, <3>3, <3>5, SettlementAssumption
    <2> QED
      BY <2>2, <2>3, <2>4
  <1> QED
    BY <1>1, Invariance, BooksAgreeOneByOne, PTL
=============================================================================
