------------------------- MODULE ShopifyWebhookInbox -------------------------
(***************************************************************************)
(* The inbox every Shopify webhook handler runs in                         *)
(* (app/services/shopifyWebhookInbox.server.js): one receipt row per       *)
(* (shop, webhook id) says which delivery of the event does the work, and  *)
(* what the others are answered.  Receipts of different events share       *)
(* nothing, so the module is about the receipt of one event.               *)
(*                                                                         *)
(* A request is one delivery.  Each of its database calls is a step of its *)
(* own: two requests interleave between them, a request can die at any of  *)
(* them, and Shopify can stop listening to one that is still running.      *)
(***************************************************************************)
EXTENDS Naturals

CONSTANTS
  Requests,    \* deliveries that can be in flight at the same time
  Payloads,    \* bodies a delivery can carry, told apart by their hash
  Lease,       \* PROCESSING_LEASE_MS, in ticks of the clock
  MaxClock,    \* bound: the clock stops there
  MaxMishaps,  \* bound: requests that die or are given up by Shopify
  None         \* no payload

ASSUME InboxAssumption ==
  /\ Lease \in Nat \ {0}
  /\ MaxClock \in Nat
  /\ MaxMishaps \in Nat
  /\ None \notin Payloads

VARIABLES
  clock,     \* the servers' clock
  receipt,   \* the row of shopify_webhook_receipts
  req,       \* the deliveries in flight
  acked,     \* Shopify heard a 2xx answer and sends the event no more
  accepted,  \* history: some run of the handler ended with a final result
  lost,      \* history: a request died at work, or failed without being heard
  lateFail,  \* history: a request failed the receipt another one works under
  mishaps    \* deaths and given-up requests so far

vars == <<clock, receipt, req, acked, accepted, lost, lateFail, mishaps>>

Time == 0 .. MaxClock
Receipts ==
  [status: {"none", "PROCESSING", "PROCESSED", "FAILED"},
   hash: Payloads \cup {None},
   lastAttemptAt: Time]
NoReceipt == [status |-> "none", hash |-> None, lastAttemptAt |-> 0]

(* A handler's result: ok, or not; and if not, whether it says that trying *)
(* again is of no use (terminal, quarantined or retryable = false).        *)
HandlerResults == [ok: BOOLEAN, final: BOOLEAN]
Retryable(result) == ~result.ok /\ ~result.final

Phases == {"idle", "begin", "conflict", "claim", "handler", "complete", "fail"}
InFlight ==
  [phase: Phases, payload: Payloads \cup {None}, now: Time,
   existing: Receipts, heard: BOOLEAN]
Idle == [phase |-> "idle", payload |-> None, now |-> 0,
         existing |-> NoReceipt, heard |-> TRUE]

AtWork(q) == req[q].phase \in {"handler", "complete", "fail"}
LeaseExpired(at, now) == at + Lease <= now

Init ==
  /\ clock = 0
  /\ receipt = NoReceipt
  /\ req = [q \in Requests |-> Idle]
  /\ acked = FALSE
  /\ accepted = FALSE
  /\ lost = FALSE
  /\ lateFail = FALSE
  /\ mishaps = 0

-----------------------------------------------------------------------------
(* Steps of a request.                                                     *)

Goto(q, phase) == req' = [req EXCEPT ![q].phase = phase]

\* The request is over; Shopify, if it still listens, hears the answer.
Answer(q, success) ==
  /\ req' = [req EXCEPT ![q] = Idle]
  /\ acked' = (acked \/ (success /\ req[q].heard))

\* Shopify sends the event: it has not been acknowledged, and every earlier
\* delivery was answered, died, or was given up.
Deliver(q) ==
  /\ ~acked
  /\ req[q].phase = "idle"
  /\ \A p \in Requests : req[p].phase # "idle" => ~req[p].heard
  /\ \E payload \in Payloads :
       req' = [req EXCEPT ![q] =
                 [Idle EXCEPT !.phase = "begin", !.payload = payload,
                              !.now = clock]]
  /\ UNCHANGED <<clock, receipt, acked, accepted, lost, lateFail, mishaps>>

\* Mutant: the hash of the body is not stored.
BeginWithoutHash(q) ==
  /\ req[q].phase = "begin"
  /\ \/ /\ receipt.status = "none"
        /\ receipt' = [status |-> "PROCESSING", hash |-> None,
                       lastAttemptAt |-> req[q].now]
        /\ Goto(q, "handler")
     \/ /\ receipt.status # "none"
        /\ Goto(q, "conflict")
        /\ UNCHANGED receipt
  /\ UNCHANGED <<clock, acked, accepted, lost, lateFail, mishaps>>

\* The insert succeeds once; every other delivery meets the unique index.
Begin(q) ==
  /\ req[q].phase = "begin"
  /\ \/ /\ receipt.status = "none"
        /\ receipt' = [status |-> "PROCESSING", hash |-> req[q].payload,
                       lastAttemptAt |-> req[q].now]
        /\ Goto(q, "handler")
     \/ /\ receipt.status # "none"
        /\ Goto(q, "conflict")
        /\ UNCHANGED receipt
  /\ UNCHANGED <<clock, acked, accepted, lost, lateFail, mishaps>>

\* Mutant: a failed receipt is taken for one that is being worked on.
InProgressIfFresh(existing, now) ==
  ~LeaseExpired(existing.lastAttemptAt, now)

InProgress(existing, now) ==
  /\ existing.status = "PROCESSING"
  /\ ~LeaseExpired(existing.lastAttemptAt, now)

\* The existing row is read, and the decision is taken on what was read.
ReadExisting(q) ==
  /\ req[q].phase = "conflict"
  /\ \/ /\ receipt.hash # req[q].payload          \* payload_hash_conflict
        /\ Answer(q, FALSE)
     \/ /\ receipt.hash = req[q].payload
        /\ \/ receipt.status = "PROCESSED"        \* webhook_already_processed
           \/ InProgress(receipt, req[q].now)     \* processing_in_progress
        /\ Answer(q, TRUE)
     \/ /\ receipt.hash = req[q].payload
        /\ receipt.status # "PROCESSED"
        /\ ~InProgress(receipt, req[q].now)
        /\ req' = [req EXCEPT ![q].phase = "claim", ![q].existing = receipt]
        /\ UNCHANGED acked
  /\ UNCHANGED <<clock, receipt, accepted, lost, lateFail, mishaps>>

\* What the where clause of the claiming updateMany compares.
Unchanged(existing) ==
  /\ receipt.status = existing.status
  /\ receipt.lastAttemptAt = existing.lastAttemptAt

\* The retry is claimed if the row is still the one that was read; a request
\* that lost the claim answers like a duplicate.
Claim(q) ==
  /\ req[q].phase = "claim"
  /\ \/ /\ Unchanged(req[q].existing)
        /\ receipt' = [receipt EXCEPT !.status = "PROCESSING",
                                      !.lastAttemptAt = req[q].now]
        /\ Goto(q, "handler")
        /\ UNCHANGED acked
     \/ /\ ~Unchanged(req[q].existing)            \* webhook_retry_claim_lost
        /\ Answer(q, TRUE)
        /\ UNCHANGED receipt
  /\ UNCHANGED <<clock, accepted, lost, lateFail, mishaps>>

\* The handler returns; a retryable result is turned into an error.
HandlerReturns(q, result) ==
  /\ req[q].phase = "handler"
  /\ Goto(q, IF Retryable(result) THEN "fail" ELSE "complete")
  /\ accepted' = (accepted \/ result.ok \/ result.final)
  /\ UNCHANGED <<clock, receipt, acked, lost, lateFail, mishaps>>

HandlerThrows(q) ==
  /\ req[q].phase = "handler"
  /\ Goto(q, "fail")
  /\ UNCHANGED <<clock, receipt, acked, accepted, lost, lateFail, mishaps>>

\* Mutants: another spelling of the status, and a failure of any row.
CompletedUnderOtherName ==
  IF receipt.status = "PROCESSING"
  THEN [receipt EXCEPT !.status = "COMPLETED"] ELSE receipt
FailAnyRow ==
  [receipt EXCEPT !.status = "FAILED", !.lastAttemptAt = clock]

\* Both closing writes ask only that the row is still PROCESSING: not that
\* this request is the one working under it.
CompletedRow ==
  IF receipt.status = "PROCESSING"
  THEN [receipt EXCEPT !.status = "PROCESSED"] ELSE receipt
FailedRow ==
  IF receipt.status = "PROCESSING"
  THEN [receipt EXCEPT !.status = "FAILED", !.lastAttemptAt = clock]
  ELSE receipt

Complete(q) ==
  /\ req[q].phase = "complete"
  /\ receipt' = CompletedRow
  /\ Answer(q, TRUE)
  /\ UNCHANGED <<clock, accepted, lost, lateFail, mishaps>>

Fail(q) ==
  /\ req[q].phase = "fail"
  /\ receipt' = FailedRow
  /\ Answer(q, FALSE)
  /\ lost' = (lost \/ ~req[q].heard)
  /\ lateFail' = (lateFail \/ \E p \in Requests \ {q} : AtWork(p))
  /\ UNCHANGED <<clock, accepted, mishaps>>

\* The completing write itself fails: the catch block fails the receipt.
CompleteThrows(q) ==
  /\ req[q].phase = "complete"
  /\ mishaps < MaxMishaps
  /\ mishaps' = mishaps + 1
  /\ Goto(q, "fail")
  /\ UNCHANGED <<clock, receipt, acked, accepted, lost, lateFail>>

-----------------------------------------------------------------------------
(* The environment.                                                        *)

\* The process running the request dies; Shopify gets no 2xx.
Die(q) ==
  /\ req[q].phase # "idle"
  /\ mishaps < MaxMishaps
  /\ mishaps' = mishaps + 1
  /\ lost' = (lost \/ AtWork(q))
  /\ req' = [req EXCEPT ![q] = Idle]
  /\ UNCHANGED <<clock, receipt, acked, accepted, lateFail>>

\* Shopify gives up waiting for an answer; the request runs on.
GiveUp(q) ==
  /\ req[q].phase # "idle"
  /\ req[q].heard
  /\ mishaps < MaxMishaps
  /\ mishaps' = mishaps + 1
  /\ req' = [req EXCEPT ![q].heard = FALSE]
  /\ UNCHANGED <<clock, receipt, acked, accepted, lost, lateFail>>

Tick ==
  /\ clock < MaxClock
  /\ clock' = clock + 1
  /\ UNCHANGED <<receipt, req, acked, accepted, lost, lateFail, mishaps>>

Step(q) ==
  \/ Begin(q) \/ ReadExisting(q) \/ Claim(q)
  \/ \E result \in HandlerResults : HandlerReturns(q, result)
  \/ HandlerThrows(q)
  \/ Complete(q) \/ Fail(q)

Next ==
  \/ \E q \in Requests :
       Deliver(q) \/ Step(q) \/ CompleteThrows(q) \/ Die(q) \/ GiveUp(q)
  \/ Tick

Spec == Init /\ [][Next]_vars

(* A running request goes on, Shopify sends an unacknowledged event again, *)
(* and a handler that is run again and again returns ok in the end.        *)
Succeeds(q) == \E result \in HandlerResults :
                 result.ok /\ HandlerReturns(q, result)
Fairness ==
  /\ \A q \in Requests : WF_vars(Step(q))
  /\ WF_vars(\E q \in Requests : Deliver(q))
  /\ SF_vars(\E q \in Requests : Succeeds(q))
FairSpec == Spec /\ Fairness

-----------------------------------------------------------------------------
(* Types: the row, the requests and the histories stay in their sets.      *)
TypeOK ==
  /\ clock \in Time
  /\ receipt \in Receipts
  /\ req \in [Requests -> InFlight]
  /\ acked \in BOOLEAN /\ accepted \in BOOLEAN
  /\ lost \in BOOLEAN /\ lateFail \in BOOLEAN
  /\ mishaps \in 0 .. MaxMishaps

(* When Shopify was told to stop sending, the event has been handled, or a *)
(* request is still at work on it, or an earlier request died at work or   *)
(* failed after Shopify had stopped listening.  These two are the only     *)
(* ways an acknowledged event goes unhandled.                              *)
AcknowledgedIsAccountedFor ==
  acked => \/ accepted
           \/ \E q \in Requests : AtWork(q)
           \/ lost

(* PROCESSED is final: a slow request that fails after another one         *)
(* completed the receipt does not reopen it.                               *)
ProcessedIsFinal == [][receipt.status = "PROCESSED" => UNCHANGED receipt]_vars

(* Two requests run the handler within their leases only after a request   *)
(* failed the receipt that another one was working under: neither the      *)
(* insert nor the claim of a stale or failed receipt lets two in.          *)
WithinLease(q) == AtWork(q) /\ ~LeaseExpired(req[q].now, clock)
OverlapNeedsLateFailure ==
  \A p, q \in Requests :
    p # q /\ WithinLease(p) /\ WithinLease(q) => lateFail

(* Every event comes to an end: it is handled, or Shopify was told to stop *)
(* sending it and nobody works on it any more.  No delivery is answered    *)
(* with an error for ever because of the state of the receipt.             *)
Dropped == acked /\ ~accepted /\ \A q \in Requests : ~AtWork(q)
EventComesToAnEnd == <>(accepted \/ Dropped)

(* When no request dies and Shopify waits for each answer, the event is    *)
(* handled: nothing the inbox itself does loses it.                        *)
EventuallyHandled == [](mishaps = 0) => <>accepted
=============================================================================
