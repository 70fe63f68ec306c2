--------------------------- MODULE OrderSettlements ---------------------------
(***************************************************************************)
(* What the Shopify webhooks of one order do to the seller's ledger        *)
(* (app/services/sellerPayments/settlements): the order is paid, refunded  *)
(* in parts, cancelled, disputed, and a sales credit of another seller may *)
(* have paid for part of it.                                               *)
(*                                                                         *)
(* A job is one run of a handler.  Shopify sends the events of an order in *)
(* any order and more than once, so jobs start at any time with any event. *)
(* A job reads the ledger outside its transaction and writes inside it;    *)
(* the transactions are READ COMMITTED, so what others commit in between   *)
(* goes unnoticed except where an update waits for a row lock.             *)
(*                                                                         *)
(* One order, one seller: the settlement of several sellers is behind      *)
(* flags that are off.  Seller orders are written (their flag is on), so   *)
(* the shadow row exists from the payment on.                              *)
(***************************************************************************)
EXTENDS Integers, FiniteSetsExt

CONSTANTS
  Jobs,          \* handler runs that can be under way at the same time
  Refunds,       \* the refunds of the order
  RefundAmount,  \* what each of them asks for
  Disputes,      \* its disputes
  DisputeAmount, \* what a dispute asks for; 0 when the payload does not say
  Cash,          \* what the customer pays to the seller
  Credit,        \* what the sales credit adds; 0 without one
  MaxHandlings,  \* bound: jobs started
  None           \* no reference

ASSUME SettlementAssumption ==
  /\ RefundAmount \in [Refunds -> Nat]
  /\ DisputeAmount \in Nat
  /\ Cash \in Nat \ {0} /\ Credit \in Nat
  /\ MaxHandlings \in Nat
  /\ None \notin Jobs

VARIABLES
  ledger,       \* entries of the order: how many of each event, sums by type
  offset,       \* status of the sales credit offset
  offsetLock,   \* the job whose transaction has written the offset's row
  shadow,       \* the SellerOrder row that follows the ledger
  underReview,  \* the seller's status is review
  job,          \* the handler runs
  handled,      \* events whose handler ended with a final result
  paidLate,     \* the order was paid after the offset expired
  handlings,    \* jobs started so far
  overlapped    \* a job was started while another one was under way

vars == <<ledger, offset, offsetLock, shadow, underReview, job, handled,
          paidLate, handlings, overlapped>>
order == <<ledger, offset, shadow, underReview>>
received == <<handled, paidLate, handlings, overlapped>>

Events ==
  [type: {"paid", "cancelled"}, ref: {None}]
    \cup [type: {"refund"}, ref: Refunds]
    \cup [type: {"dispute_open", "dispute_won"}, ref: Disputes]
NoEvent == [type |-> "none", ref |-> None]

Booking == [n: Nat, sum: Nat]
Unbooked == [n |-> 0, sum |-> 0]
Ledgers ==
  [paid: Booking, cancelled: Booking,
   refunds: [Refunds -> Nat], refunded: Nat,
   holds: [Disputes -> Nat], held: Nat,
   wins: [Disputes -> Nat], reinstated: Nat,
   captured: Nat, returned: Nat]
Book(b, amount) == [n |-> b.n + 1, sum |-> b.sum + amount]

Offsets == {"none", "authorized", "captured", "refunded", "released",
            "expired"}
PaymentStatuses == {"paid", "partially_refunded", "refunded", "cancelled"}
Phases == {"idle", "check", "summary", "offset", "lock", "shadow", "commit",
           "hold", "holdWrite", "risk", "done"}

\* A job: its event, whether it only repeats a settled payment, the amount it
\* computed, whether it wants to move the offset and the status it gives it,
\* whether it has to create the offset's entry, the refund amount it read from
\* the shadow, and its result.
JobRecord ==
  [phase: Phases, event: Events \cup {NoEvent}, duplicate: BOOLEAN,
   amount: Nat, moves: BOOLEAN, target: Offsets, creates: BOOLEAN,
   seen: Nat, ok: BOOLEAN]
IdleJob ==
  [phase |-> "idle", event |-> NoEvent, duplicate |-> FALSE, amount |-> 0,
   moves |-> FALSE, target |-> "none", creates |-> FALSE, seen |-> 0,
   ok |-> TRUE]

Init ==
  /\ ledger = [paid |-> Unbooked, cancelled |-> Unbooked,
               refunds |-> [f \in Refunds |-> 0], refunded |-> 0,
               holds |-> [d \in Disputes |-> 0], held |-> 0,
               wins |-> [d \in Disputes |-> 0], reinstated |-> 0,
               captured |-> 0, returned |-> 0]
  /\ offset \in IF Credit = 0 THEN {"none"} ELSE {"authorized", "released"}
  /\ offsetLock = None
  /\ shadow = [refund |-> 0, status |-> "paid", disputed |-> FALSE]
  /\ underReview = FALSE
  /\ job = [j \in Jobs |-> IdleJob]
  /\ handled = {}
  /\ paidLate \in BOOLEAN
  /\ handlings = 0
  /\ overlapped = FALSE

-----------------------------------------------------------------------------
(* Summaries of the order's entries.                                       *)

\* Mutant: the difference is not kept from falling below zero.
PlainDifference(a, b) == a - b

Monus(a, b) == IF a > b THEN a - b ELSE 0
Minimum(a, b) == IF a < b THEN a ELSE b

Reversed == ledger.refunded + ledger.cancelled.sum
Remaining == Monus(ledger.paid.sum, Reversed)
HeldAmount == Monus(ledger.held, ledger.reinstated)
Holdable == Monus(Remaining, HeldAmount)

PaidBooked == ledger.paid.n > 0
HasOffset == PaidBooked /\ Credit > 0   \* read from the paid entry's metadata

\* Mutant: the cash left is taken for all that is left.
ReversesCreditAfterAll(f) == HasOffset /\ RefundAmount[f] >= Remaining

\* The sales credit goes back with the refund that takes the last cash.
ReversesCredit(f) ==
  HasOffset /\ RefundAmount[f] >= Monus(Remaining, Credit)

\* Mutant: the refund is not capped to what remains.
RefundedUncapped(f) ==
  IF ~PaidBooked THEN 0
  ELSE RefundAmount[f] + (IF ReversesCredit(f) THEN Credit ELSE 0)

Refunded(f) ==
  IF ~PaidBooked THEN 0
  ELSE Minimum(RefundAmount[f] + (IF ReversesCredit(f) THEN Credit ELSE 0),
               Remaining)

Asked(limit) ==
  IF DisputeAmount = 0 THEN limit ELSE Minimum(DisputeAmount, limit)

StatusAfterRefund(refund, fallback) ==
  IF refund >= Cash + Credit THEN "refunded"
  ELSE IF refund > 0 THEN "partially_refunded" ELSE fallback
StatusAfterCancellation(refund, fallback) ==
  IF refund >= Cash + Credit THEN "cancelled"
  ELSE StatusAfterRefund(refund, fallback)

-----------------------------------------------------------------------------
(* Steps of a job.                                                         *)

At(j, type, phase) == job[j].phase = phase /\ job[j].event.type \in type
Move(j, phase) == job' = [job EXCEPT ![j].phase = phase]
End(j, ok) == job' = [job EXCEPT ![j].phase = "done", ![j].ok = ok]

Start(j, e) ==
  /\ job[j].phase = "idle"
  /\ job' = [job EXCEPT ![j] = [IdleJob EXCEPT !.phase = "check", !.event = e]]

Receive(j, e) ==
  /\ handlings < MaxHandlings
  /\ handlings' = handlings + 1
  /\ Start(j, e)
  /\ overlapped' = (overlapped \/ \E i \in Jobs : job[i].phase # "idle")
  /\ UNCHANGED <<order, offsetLock, handled, paidLate>>

Booked(e) ==
  CASE e.type = "paid" -> PaidBooked
    [] e.type = "refund" -> ledger.refunds[e.ref] > 0
    [] e.type = "cancelled" -> ledger.cancelled.n > 0
    [] OTHER -> FALSE

\* Mutant: the look for an existing entry is left out.
CheckNothing(j) ==
  /\ At(j, {"paid", "refund", "cancelled"}, "check")
  /\ Move(j, IF job[j].event.type = "paid" THEN "offset" ELSE "summary")
  /\ UNCHANGED <<order, offsetLock, received>>

\* The look for an existing entry, outside any transaction.  A payment that
\* is already booked still captures the offset and writes a missing shadow.
CheckBooked(j) ==
  /\ At(j, {"paid", "refund", "cancelled"}, "check")
  /\ LET e == job[j].event IN
       \/ /\ e.type = "paid"
          /\ job' = [job EXCEPT ![j].phase = "offset",
                                ![j].duplicate = Booked(e)]
       \/ /\ e.type # "paid" /\ Booked(e)
          /\ End(j, TRUE)
       \/ /\ e.type # "paid" /\ ~Booked(e)
          /\ Move(j, "summary")
  /\ UNCHANGED <<order, offsetLock, received>>

\* A payment that is not booked can be turned away: governance or eligibility
\* quarantines the order (a final result), products or seller do not match
\* (to be tried again).
RefusePaid(j) ==
  /\ At(j, {"paid"}, "offset")
  /\ ~job[j].duplicate
  /\ \E quarantined \in BOOLEAN : End(j, quarantined)
  /\ UNCHANGED <<order, offsetLock, received>>

\* The ledger of the order is read and the amount computed, still outside
\* the transaction.
SummariseRefund(j) ==
  /\ At(j, {"refund"}, "summary")
  /\ LET f == job[j].event.ref IN
       \/ /\ Refunded(f) = 0
          /\ End(j, TRUE)
       \/ /\ Refunded(f) > 0
          /\ job' = [job EXCEPT
               ![j].phase = IF ReversesCredit(f) THEN "offset" ELSE "shadow",
               ![j].amount = Refunded(f),
               ![j].moves = ReversesCredit(f)]
  /\ UNCHANGED <<order, offsetLock, received>>

SummariseCancelled(j) ==
  /\ At(j, {"cancelled"}, "summary")
  /\ \/ /\ Remaining = 0
        /\ End(j, TRUE)
     \/ /\ Remaining > 0
        /\ job' = [job EXCEPT
             ![j].phase = IF HasOffset THEN "offset" ELSE "shadow",
             ![j].amount = Remaining,
             ![j].moves = HasOffset]
  /\ UNCHANGED <<order, offsetLock, received>>

-----------------------------------------------------------------------------
(* The sales credit offset, inside the job's transaction.                  *)

\* captureSalesCreditOffset reads the row.
ReadOffsetToCapture(j) ==
  /\ At(j, {"paid"}, "offset")
  /\ \/ /\ offset \in {"none", "captured"}
        /\ Move(j, "commit")
     \/ /\ offset = "authorized"
        /\ job' = [job EXCEPT ![j].phase = "lock",
             ![j].target = IF paidLate /\ ~job[j].duplicate
                           THEN "expired" ELSE "captured"]
     \/ /\ offset \notin {"none", "captured", "authorized"}
        /\ IF job[j].duplicate THEN Move(j, "commit") ELSE End(j, FALSE)
  /\ UNCHANGED <<order, offsetLock, received>>

\* reverseSalesCreditOffsetForRefund reads the row; the settlement goes on
\* whatever it answers.
ReadOffsetToReverse(j) ==
  /\ At(j, {"refund", "cancelled"}, "offset")
  /\ job' = [job EXCEPT
       ![j].phase = IF offset = "captured" THEN "lock" ELSE "shadow",
       ![j].target = IF offset = "captured" THEN "refunded" ELSE "none"]
  /\ UNCHANGED <<order, offsetLock, received>>

OffsetEntry(target) ==
  IF target = "captured" THEN ledger.captured ELSE ledger.returned

\* Mutant: the entry is created without looking for one.
WriteOffsetBlindly(j) ==
  /\ job[j].phase = "lock"
  /\ offsetLock = None
  /\ offsetLock' = j
  /\ job' = [job EXCEPT
       ![j].phase = IF At(j, {"paid"}, "lock") THEN "commit" ELSE "shadow",
       ![j].creates = TRUE]
  /\ UNCHANGED <<order, received>>

\* The row is updated, which waits for the transaction of another writer, and
\* then the offset's entry is looked for: what that writer committed is seen.
WriteOffset(j) ==
  /\ job[j].phase = "lock"
  /\ offsetLock = None
  /\ offsetLock' = j
  /\ job' = [job EXCEPT
       ![j].phase = IF At(j, {"paid"}, "lock") THEN "commit" ELSE "shadow",
       ![j].creates = job[j].target # "expired"
                        /\ OffsetEntry(job[j].target) = 0]
  /\ UNCHANGED <<order, received>>

ReadShadow(j) ==
  /\ At(j, {"refund", "cancelled"}, "shadow")
  /\ job' = [job EXCEPT ![j].phase = "commit", ![j].seen = shadow.refund]
  /\ UNCHANGED <<order, offsetLock, received>>

-----------------------------------------------------------------------------
(* The end of the transaction.                                             *)

\* What the commit does to the offset and to its entries.
OffsetAfter(j) ==
  IF offsetLock = j THEN job[j].target ELSE offset
WithOffsetEntry(j, entries) ==
  IF ~job[j].creates THEN entries
  ELSE IF job[j].target = "captured"
       THEN [entries EXCEPT !.captured = @ + 1]
       ELSE [entries EXCEPT !.returned = @ + 1]
Unlocked(j) == IF offsetLock = j THEN None ELSE offsetLock

\* A duplicate books nothing; a payment whose offset has expired books
\* nothing either, but marks the offset, and is to be tried again.
CommitPaid(j) ==
  /\ At(j, {"paid"}, "commit")
  /\ LET books == ~job[j].duplicate /\ job[j].target # "expired" IN
       /\ ledger' = WithOffsetEntry(j,
            IF books THEN [ledger EXCEPT !.paid = Book(@, Cash + Credit)]
            ELSE ledger)
       /\ End(j, job[j].target # "expired")
  /\ offset' = OffsetAfter(j)
  /\ offsetLock' = Unlocked(j)
  /\ UNCHANGED <<shadow, underReview, received>>

RefundBooked(f, amount) ==
  [ledger EXCEPT !.refunds[f] = @ + 1, !.refunded = @ + amount]

\* Mutant: the shadow's refund amount is replaced, not added to.
CommitReversalOverwriting(j) ==
  /\ At(j, {"refund", "cancelled"}, "commit")
  /\ LET e == job[j].event
         refund == job[j].amount IN
       /\ ledger' = WithOffsetEntry(j,
            IF e.type = "refund"
            THEN RefundBooked(e.ref, job[j].amount)
            ELSE [ledger EXCEPT !.cancelled = Book(@, job[j].amount)])
       /\ shadow' = [shadow EXCEPT !.refund = refund]
  /\ offset' = OffsetAfter(j)
  /\ offsetLock' = Unlocked(j)
  /\ End(j, TRUE)
  /\ UNCHANGED <<underReview, received>>

\* A refund or a cancellation adds to the refund amount it read.
CommitReversal(j) ==
  /\ At(j, {"refund", "cancelled"}, "commit")
  /\ LET e == job[j].event
         refund == job[j].seen + job[j].amount
     IN /\ ledger' = WithOffsetEntry(j,
             IF e.type = "refund"
             THEN RefundBooked(e.ref, job[j].amount)
             ELSE [ledger EXCEPT !.cancelled = Book(@, job[j].amount)])
        /\ shadow' =
             [shadow EXCEPT
                !.refund = refund,
                !.status = IF e.type = "refund"
                           THEN StatusAfterRefund(refund, @)
                           ELSE StatusAfterCancellation(refund, @)]
  /\ offset' = OffsetAfter(j)
  /\ offsetLock' = Unlocked(j)
  /\ End(j, TRUE)
  /\ UNCHANGED <<underReview, received>>

-----------------------------------------------------------------------------
(* Disputes: each statement commits by itself.                             *)

SummariseDispute(j) ==
  /\ At(j, {"dispute_open", "dispute_won"}, "check")
  /\ IF ~PaidBooked THEN End(j, TRUE)
     ELSE job' = [job EXCEPT
            ![j].phase = "hold",
            ![j].amount = IF job[j].event.type = "dispute_open"
                          THEN Asked(Holdable) ELSE Asked(HeldAmount)]
  /\ UNCHANGED <<order, offsetLock, received>>

DisputeBooked(e) ==
  IF e.type = "dispute_open" THEN ledger.holds[e.ref] > 0
  ELSE ledger.wins[e.ref] > 0

\* An opened dispute puts the seller under review before anything is looked
\* for.
LookForHold(j) ==
  /\ At(j, {"dispute_open", "dispute_won"}, "hold")
  /\ underReview' = (underReview \/ job[j].event.type = "dispute_open")
  /\ IF DisputeBooked(job[j].event) \/ job[j].amount = 0
     THEN End(j, TRUE) ELSE Move(j, "holdWrite")
  /\ UNCHANGED <<ledger, offset, shadow, offsetLock, received>>

WriteHold(j) ==
  /\ At(j, {"dispute_open", "dispute_won"}, "holdWrite")
  /\ LET e == job[j].event IN
       ledger' = IF e.type = "dispute_open"
                 THEN [ledger EXCEPT !.holds[e.ref] = @ + 1,
                                     !.held = @ + job[j].amount]
                 ELSE [ledger EXCEPT !.wins[e.ref] = @ + 1,
                                     !.reinstated = @ + job[j].amount]
  /\ Move(j, "risk")
  /\ UNCHANGED <<offset, shadow, underReview, offsetLock, received>>

MarkRisk(j) ==
  /\ At(j, {"dispute_open", "dispute_won"}, "risk")
  /\ shadow' = [shadow EXCEPT !.disputed =
                               (job[j].event.type = "dispute_open")]
  /\ End(j, TRUE)
  /\ UNCHANGED <<ledger, offset, underReview, offsetLock, received>>

-----------------------------------------------------------------------------
Finish(j) ==
  /\ job[j].phase = "done"
  /\ handled' = IF job[j].ok THEN handled \cup {job[j].event} ELSE handled
  /\ job' = [job EXCEPT ![j] = IdleJob]
  /\ UNCHANGED <<order, offsetLock, paidLate, handlings, overlapped>>

\* The process dies or a statement fails: an open transaction is undone.
Abort(j) ==
  /\ job[j].phase \notin {"idle", "done"}
  /\ job' = [job EXCEPT ![j] = IdleJob]
  /\ offsetLock' = Unlocked(j)
  /\ UNCHANGED <<order, received>>

Step(j) ==
  \/ CheckBooked(j) \/ RefusePaid(j)
  \/ SummariseRefund(j) \/ SummariseCancelled(j)
  \/ ReadOffsetToCapture(j) \/ ReadOffsetToReverse(j)
  \/ WriteOffset(j) \/ ReadShadow(j)
  \/ CommitPaid(j) \/ CommitReversal(j)
  \/ SummariseDispute(j) \/ LookForHold(j) \/ WriteHold(j) \/ MarkRisk(j)
  \/ Abort(j)

Next ==
  \E j \in Jobs :
    \/ \E e \in Events : Receive(j, e)
    \/ Step(j)
    \/ Finish(j)

Spec == Init /\ [][Next]_vars

-----------------------------------------------------------------------------
(* Properties.                                                             *)

TypeOK ==
  /\ ledger \in Ledgers
  /\ offset \in Offsets
  /\ offsetLock \in Jobs \cup {None}
  /\ shadow \in [refund: Nat, status: PaymentStatuses, disputed: BOOLEAN]
  /\ underReview \in BOOLEAN
  /\ job \in [Jobs -> JobRecord]
  /\ handled \subseteq Events
  /\ paidLate \in BOOLEAN
  /\ handlings \in 0..MaxHandlings
  /\ overlapped \in BOOLEAN

\* However handlers overlap and die, the sales credit is debited from the
\* seller it belongs to at most once and comes back at most once, never
\* without having been debited: the wait for the offset's row puts the look
\* for its entry after the other writer's commit.
CreditMovesOnce ==
  /\ ledger.captured <= 1
  /\ ledger.returned <= ledger.captured
  /\ ledger.paid.n > 0 /\ Credit > 0 => ledger.captured = 1

\* Funds are held, and wait to be written as held, only for a seller who is
\* under review, whatever dies on the way: no payout run goes out in between.
HoldPutsSellerUnderReview ==
  /\ \A d \in Disputes : ledger.holds[d] > 0 => underReview
  /\ \A j \in Jobs : At(j, {"dispute_open"}, "holdWrite") => underReview

\* While no two handlers overlap, whatever order the events come in, an event
\* books at most once.
EachEventBooksOnce ==
  ~overlapped =>
    /\ ledger.paid.n <= 1 /\ ledger.cancelled.n <= 1
    /\ \A f \in Refunds : ledger.refunds[f] <= 1
    /\ \A d \in Disputes : ledger.holds[d] <= 1 /\ ledger.wins[d] <= 1

\* While no two handlers overlap, refunds and the cancellation together take
\* no more from the seller than the order paid, and disputes hold no more
\* than that and give back no more than they hold.
ReversalsWithinPayment ==
  ~overlapped =>
    /\ Reversed <= ledger.paid.sum
    /\ HeldAmount <= ledger.paid.sum
    /\ ledger.reinstated <= ledger.held

\* While no two handlers overlap, the seller order tells the same story as
\* the ledger: the same amount reversed, and the order is shown as refunded
\* or cancelled exactly when all of it is.
ShadowFollowsLedger ==
  ~overlapped /\ PaidBooked =>
    /\ shadow.refund = Reversed
    /\ shadow.status \in {"refunded", "cancelled"} <=> Remaining = 0
    /\ shadow.status = "paid" <=> Reversed = 0

\* While no two handlers overlap, the sales credit goes back to the seller
\* who spent it exactly when the last of the payment is reversed, and that is
\* so once the refunds have asked for all the customer's cash.
CreditReturnedWithLastYen ==
  ~overlapped /\ PaidBooked /\ Credit > 0 =>
    /\ offset = "refunded" <=> Remaining = 0
    /\ ledger.returned = 1 <=> Remaining = 0
    /\ Cash <= MapThenSumSet(LAMBDA f : RefundAmount[f],
                             {f \in Refunds : ledger.refunds[f] > 0})
         => Remaining = 0
=============================================================================
