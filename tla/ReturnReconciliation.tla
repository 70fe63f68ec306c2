------------------------ MODULE ReturnReconciliation ------------------------
(***************************************************************************)
(* Withdrawals of one order line under the direct-return workflow: the     *)
(* units each request reserves, the decisions on its return group, and the *)
(* refunds and the cancellation of the order that webhooks report.         *)
(*                                                                         *)
(* src/app/services/withdrawalDirectReturns/: initialize.server.js         *)
(* reserves, review.server.js decides, instructions.js instructs,          *)
(* refundReconciliation.server.js takes in refunds and cancellations, and  *)
(* recomputeWithdrawalV2State of common.js, which each of them ends with,  *)
(* carries a group's state up to its request.                              *)
(*                                                                         *)
(* A reservation is one SERIALIZABLE transaction.  Everything else reads,  *)
(* and writes row by row later: other requests run between.                *)
(*                                                                         *)
(* An order here has one line, a request one group.  Money is left out,    *)
(* and with it the shipping part of a refund and the group's               *)
(* refundReconciliationStatus; so are addresses, packages and notes, and   *)
(* the position's refunded units: each reservation takes them afresh from  *)
(* the seller's order line, and nothing else reads them.                   *)
(***************************************************************************)
EXTENDS Integers, FiniteSets, FiniteSetsExt

CONSTANTS
    Requests,   \* withdrawal requests of the order, numbered as they came in
    Refunds,    \* Shopify's refunds of the order
    Procs,      \* web requests and webhook deliveries being handled
    Purchased,  \* units of the line
    MaxDecisions, \* bound: reviews, instructions and cancellations of the order in all
    None        \* SQL's NULL

ASSUME RequestsAreNumbers == Requests \subseteq Nat
ASSUME OrderIsFinite == IsFiniteSet(Requests) /\ IsFiniteSet(Refunds)
ASSUME PurchasedIsNat == Purchased \in Nat
ASSUME DecisionBoundIsNat == MaxDecisions \in Nat
ASSUME NoneIsNoRefund == None \notin Refunds \union Requests

VARIABLES
    quantity,   \* units each refund gives back, booked on the seller's order line; 0: no refund yet
    request,    \* rows of withdrawal requests, each with its requested line
    group,      \* the return group of each request
    cancelled,  \* cancelled units of the order line's position
    allocated,  \* units of a refund its event allocates to a request; 0: no event
    proc,       \* what each process is doing
    decisions,  \* reviews, instructions and cancellations so far
    faults      \* history: what the books do not survive

vars == <<quantity, request, group, cancelled, allocated, proc, decisions, faults>>

-----------------------------------------------------------------------------
(* Rows *)

\* PARTIAL_REFUND is decided like FULL_REFUND, NO_REFUND like CANCELLED.
Outcomes == {"UNDECIDED", "FULL_REFUND", "CANCELLED"}
Progress == {"READY_FOR_INSTRUCTIONS", "IN_PROGRESS", "COMPLETED"}

\* A request of the second workflow with no line reserved waits for review.
NoRequest == [v2 |-> FALSE, reserved |-> 0, outcome |-> "UNDECIDED"]
NewGroup == [outcome |-> "UNDECIDED", progress |-> "READY_FOR_INSTRUCTIONS", sent |-> FALSE]

Units == [Requests -> 0..Purchased]
NoUnits == [r \in Requests |-> 0]

\* job, refund: what is handled; units, base: what it read of the lines and of
\* the position; todo, done: requests still to go through, events it created;
\* at, stage, seen: the request it recomputes, how far, and the group it read.
Idle == [job |-> "idle", refund |-> None, units |-> NoUnits, base |-> 0, todo |-> {}, done |-> {},
         at |-> None, stage |-> "pick", seen |-> NewGroup]

Init ==
    /\ quantity = [f \in Refunds |-> 0]
    /\ request = [r \in Requests |-> NoRequest]
    /\ group = [r \in Requests |-> NewGroup]
    /\ cancelled = 0
    /\ allocated = [r \in Requests |-> [f \in Refunds |-> 0]]
    /\ proc = [p \in Procs |-> Idle]
    /\ decisions = 0
    /\ faults = {}

Sum(g, S) == MapThenSumSet(LAMBDA x : g[x], S)

HasLine(r) == request[r].reserved > 0

-----------------------------------------------------------------------------
(* recomputeWithdrawalV2State: read the group, correct it, write the request *)

\* What deriveReturnGroupState makes of a group.
DerivedProgress(g) ==
    IF g.outcome # "UNDECIDED" THEN "COMPLETED"
    ELSE IF g.sent THEN "IN_PROGRESS" ELSE "READY_FOR_INSTRUCTIONS"

ReadGroup(p) ==
    /\ proc[p].stage = "read"
    /\ proc' = [proc EXCEPT ![p].stage = "group", ![p].seen = group[proc[p].at]]
    /\ UNCHANGED <<quantity, request, group, cancelled, allocated, faults, decisions>>

\* A group decided after it was read gets the old outcome back with the
\* progress derived from it.
CorrectGroup(p) ==
    LET r == proc[p].at
        seen == proc[p].seen
    IN
    /\ proc[p].stage = "group"
    /\ IF DerivedProgress(seen) # seen.progress
       THEN /\ group' = [group EXCEPT ![r].progress = DerivedProgress(seen), ![r].outcome = seen.outcome]
            /\ faults' = IF group[r].outcome = "CANCELLED" /\ seen.outcome # "CANCELLED"
                         THEN faults \union {"reopened"} ELSE faults
       ELSE UNCHANGED <<group, faults>>
    /\ proc' = [proc EXCEPT ![p].stage = "request"]
    /\ UNCHANGED <<quantity, request, cancelled, allocated, decisions>>

WriteRequest(p) ==
    /\ proc[p].stage = "request"
    /\ request' = [request EXCEPT ![proc[p].at].outcome = proc[p].seen.outcome]
    /\ proc' = [proc EXCEPT ![p] = IF @.todo = {} THEN Idle
                                   ELSE [@ EXCEPT !.at = None, !.stage = "pick", !.seen = NewGroup]]
    /\ UNCHANGED <<quantity, group, cancelled, allocated, faults, decisions>>

-----------------------------------------------------------------------------
(* A request reserves units *)

\* Mutant of StillReserved: a decided request no longer holds its units.
StillReservedOpen(r) == {q \in Requests \ {r} : request[q].outcome = "UNDECIDED"}

\* Reservations that count against a new one.
StillReserved(r) == {q \in Requests \ {r} : request[q].outcome # "CANCELLED"}

Refunded == Sum(quantity, Refunds)

\* Refunded units of a line that stays reserved are deducted twice.
Available(r) ==
    LET left == Purchased - Refunded - cancelled
                - MapThenSumSet(LAMBDA q : request[q].reserved, StillReserved(r))
    IN IF left > 0 THEN left ELSE 0

\* The transaction of initializeV2Transaction.
Reserve(p, r, n) ==
    /\ proc[p] = Idle
    /\ ~HasLine(r)
    /\ n <= Available(r)
    /\ request' = [request EXCEPT ![r] = [v2 |-> TRUE, reserved |-> n, outcome |-> "UNDECIDED"]]
    /\ proc' = [proc EXCEPT ![p].job = "desk", ![p].at = r, ![p].stage = "read"]
    /\ UNCHANGED <<quantity, group, cancelled, allocated, faults, decisions>>

\* Too few units, or the order's lines are not known yet: the request is left
\* to an operator, who may try again.
ReserveFails(r) ==
    /\ ~HasLine(r)
    /\ request' = [request EXCEPT ![r].v2 = TRUE]
    /\ UNCHANGED <<quantity, group, cancelled, allocated, proc, faults, decisions>>

-----------------------------------------------------------------------------
(* Operators *)

\* updateWithdrawalGroupReview sets any outcome, whatever was decided before.
Review(p, r) ==
    /\ proc[p] = Idle
    /\ decisions < MaxDecisions
    /\ decisions' = decisions + 1
    /\ HasLine(r)
    /\ \E o \in Outcomes :
         /\ group' = [group EXCEPT ![r].outcome = o]
         /\ faults' = IF group[r].outcome = "CANCELLED" /\ o # "CANCELLED"
                      THEN faults \union {"reopened"} ELSE faults
    /\ proc' = [proc EXCEPT ![p].job = "desk", ![p].at = r, ![p].stage = "read"]
    /\ UNCHANGED <<quantity, request, cancelled, allocated>>

SendInstructions(p, r) ==
    /\ proc[p] = Idle
    /\ decisions < MaxDecisions
    /\ decisions' = decisions + 1
    /\ HasLine(r)
    /\ ~group[r].sent
    /\ group' = [group EXCEPT ![r].sent = TRUE]
    /\ proc' = [proc EXCEPT ![p].job = "desk", ![p].at = r, ![p].stage = "read"]
    /\ UNCHANGED <<quantity, request, cancelled, allocated, faults>>

-----------------------------------------------------------------------------
(* Refunds *)

\* An operator refunds at Shopify, and the settlement books the units on the
\* seller's order line before anything below runs.
Refund(f) ==
    /\ quantity[f] = 0
    /\ \E n \in 1..(Purchased - Refunded) : quantity' = [quantity EXCEPT ![f] = n]
    /\ UNCHANGED <<request, group, cancelled, allocated, proc, faults, decisions>>

InWorkflow == {r \in Requests : request[r].v2}
Recorded(f) == {r \in Requests : allocated[r][f] > 0}

\* Mutant of OpenUnits: what earlier refunds took of a line is not deducted.
OpenUnitsOfLine(r) == request[r].reserved

\* Reserved units of a line no refund has been allocated to.
OpenUnits(r) ==
    LET left == request[r].reserved - Sum(allocated[r], Refunds)
    IN IF left > 0 THEN left ELSE 0

\* Mutant of Share: what is left is given to a request that has no units open.
ShareOfRest(units, r, n) == IF n > Sum(units, Requests) THEN n - Sum(units, Requests) ELSE units[r]

\* A refund's units go to the lines that have units open, first come first
\* served, whether their request has the refund's event already or not.
Share(units, r, n) ==
    LET before == Sum(units, {q \in Requests : q < r})
        left == IF n > before THEN n - before ELSE 0
    IN IF units[r] < left THEN units[r] ELSE left

\* A delivery that finds its event at every request is a duplicate; one that
\* finds it at some goes on with the rest, and shares the units out afresh.
BeginReconcile(p, f) ==
    LET units == [r \in Requests |-> OpenUnits(r)]
        todo == {r \in InWorkflow \ Recorded(f) : Share(units, r, quantity[f]) > 0}
    IN
    /\ proc[p] = Idle
    /\ quantity[f] > 0
    /\ todo # {}
    /\ proc' = [proc EXCEPT ![p] = [Idle EXCEPT !.job = "refund", !.refund = f, !.units = units, !.todo = todo]]
    /\ UNCHANGED <<quantity, request, group, cancelled, allocated, faults, decisions>>

\* The upsert of the refund's event: one that is there keeps its allocations.
RecordRefund(p, r) ==
    LET f == proc[p].refund
        new == allocated[r][f] = 0
    IN
    /\ proc[p].job = "refund"
    /\ proc[p].stage = "pick"
    /\ r \in proc[p].todo
    /\ \A q \in proc[p].todo : r <= q
    /\ allocated' = IF new THEN [allocated EXCEPT ![r][f] = Share(proc[p].units, r, quantity[f])] ELSE allocated
    /\ faults' = faults \union (IF new /\ ~(Recorded(f) \subseteq proc[p].done) THEN {"again"} ELSE {})
                        \union (IF new /\ OpenUnits(r) # proc[p].units[r] THEN {"overlap"} ELSE {})
    /\ proc' = [proc EXCEPT ![p].todo = @ \ {r}, ![p].done = IF new THEN @ \union {r} ELSE @,
                            ![p].at = r, ![p].stage = "read"]
    /\ UNCHANGED <<quantity, request, group, cancelled, decisions>>

-----------------------------------------------------------------------------
(* The order is cancelled *)

BeginCancellation(p) ==
    /\ proc[p] = Idle
    /\ decisions < MaxDecisions
    /\ decisions' = decisions + 1
    /\ InWorkflow # {}
    /\ proc' = [proc EXCEPT ![p] = [Idle EXCEPT !.job = "cancel", !.todo = InWorkflow, !.base = cancelled,
                                                !.units = [r \in Requests |-> request[r].reserved]]]
    /\ UNCHANGED <<quantity, request, group, cancelled, allocated, faults>>

\* Each request has a transaction of its own; the position's cancelled units
\* are the largest of what was read and the request's line, not their sum.
\* Only a group that was sent instructions goes on.
CancelRequest(p, r) ==
    LET units == proc[p].units[r] IN
    /\ proc[p].job = "cancel"
    /\ proc[p].stage = "pick"
    /\ r \in proc[p].todo
    /\ cancelled' = IF units = 0 THEN cancelled
                    ELSE IF units > proc[p].base THEN units ELSE proc[p].base
    /\ group' = IF HasLine(r) /\ ~group[r].sent
                THEN [group EXCEPT ![r].outcome = "CANCELLED", ![r].progress = "COMPLETED"] ELSE group
    /\ proc' = [proc EXCEPT ![p].todo = @ \ {r}, ![p].at = r, ![p].stage = "read"]
    /\ UNCHANGED <<quantity, request, allocated, faults, decisions>>

\* The process dies, or a later step of the webhook's handler fails and the
\* event comes again.
Die(p) ==
    /\ proc[p] # Idle
    /\ proc' = [proc EXCEPT ![p] = Idle]
    /\ UNCHANGED <<quantity, request, group, cancelled, allocated, faults, decisions>>

-----------------------------------------------------------------------------

ProcStep(p) ==
    \/ ReadGroup(p) \/ CorrectGroup(p) \/ WriteRequest(p)
    \/ BeginCancellation(p) \/ Die(p)
    \/ \E f \in Refunds : BeginReconcile(p, f)
    \/ \E r \in Requests : \/ \E n \in 1..Purchased : Reserve(p, r, n)
                           \/ Review(p, r) \/ SendInstructions(p, r)
                           \/ RecordRefund(p, r) \/ CancelRequest(p, r)

Next ==
    \/ \E p \in Procs : ProcStep(p)
    \/ \E r \in Requests : ReserveFails(r)
    \/ \E f \in Refunds : Refund(f)

Spec == Init /\ [][Next]_vars

-----------------------------------------------------------------------------
(* Properties *)

\* The types of the variables; a refund is allocated only to requests with a
\* line, never more of it to one than there is; the position stays within what
\* was bought, and a completed group has an outcome.
TypeOK ==
    /\ quantity \in [Refunds -> 0..Purchased]
    /\ request \in [Requests -> [v2 : BOOLEAN, reserved : 0..Purchased, outcome : Outcomes]]
    /\ group \in [Requests -> [outcome : Outcomes, progress : Progress, sent : BOOLEAN]]
    /\ cancelled \in 0..Purchased
    /\ allocated \in [Requests -> [Refunds -> 0..Purchased]]
    /\ proc \in [Procs -> [job : {"idle", "desk", "refund", "cancel"},
                           refund : Refunds \union {None}, units : Units, base : 0..Purchased,
                           todo : SUBSET Requests, done : SUBSET Requests,
                           at : Requests \union {None}, stage : {"pick", "read", "group", "request"},
                           seen : [outcome : Outcomes, progress : Progress, sent : BOOLEAN]]]
    /\ decisions \in 0..MaxDecisions
    /\ faults \subseteq {"reopened", "again", "overlap"}
    /\ \A r \in Requests : ~HasLine(r) => group[r] = NewGroup
    /\ \A r \in Requests, f \in Refunds : allocated[r][f] > 0 => HasLine(r) /\ allocated[r][f] <= quantity[f]

\* No unit is reserved twice: the requests whose group is not cancelled hold
\* no more units than were bought, unless a cancelled group was opened again,
\* by a review or by a recomputation that read it before it was cancelled.
ReservationsWithinPurchase ==
    "reopened" \notin faults
        => MapThenSumSet(LAMBDA r : request[r].reserved, {r \in Requests : group[r].outcome # "CANCELLED"}) <= Purchased

\* A refund is shared out once: its events allocate no more units than it gave
\* back, unless a delivery recorded it that did not know of, or was not, the
\* one that recorded the others; and no line gets back more than it reserved,
\* unless a delivery recorded a share of units another refund took meanwhile.
AllocationsAreCovered ==
    /\ "again" \notin faults
         => \A f \in Refunds : MapThenSumSet(LAMBDA r : allocated[r][f], Requests) <= quantity[f]
    /\ "overlap" \notin faults
         => \A r \in Requests : Sum(allocated[r], Refunds) <= request[r].reserved
=============================================================================
