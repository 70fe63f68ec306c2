---------------------- MODULE ShopifyWebhookInboxProofs ----------------------
(***************************************************************************)
(* What ShopifyWebhookInbox promises for any number of deliveries, bodies  *)
(* and mishaps, and any lease and clock.                                   *)
(*                                                                         *)
(* The inductive invariant says who may be listened to (one delivery at a  *)
(* time, none once Shopify has its answer), what a delivery knows of the   *)
(* row it read, and whose attempt the row is of while a lease runs.        *)
(***************************************************************************)
EXTENDS ShopifyWebhookInbox, TLAPS

InFlightNow(q) == req[q].phase # "idle"

\* Somebody answers for the event: it is handled, being handled, or its loss
\* is on record.
AccountedFor == accepted \/ lost \/ \E q \in Requests : AtWork(q)

OneIsHeard ==
  /\ \A p, q \in Requests :
       p # q /\ InFlightNow(p) /\ InFlightNow(q) => ~req[p].heard \/ ~req[q].heard
  /\ acked => \A q \in Requests : InFlightNow(q) => ~req[q].heard

ClosedMeansHandled ==
  /\ receipt.status = "PROCESSED" => accepted
  /\ \A q \in Requests : req[q].phase = "complete" => accepted

RowIsAccountedFor ==
  /\ receipt.status = "PROCESSING" => AccountedFor
  /\ \A q \in Requests :
       req[q].phase = "claim" /\ req[q].heard /\ ~Unchanged(req[q].existing) => AccountedFor

\* What a delivery knows: it came in the past, and takes only a row that has
\* failed or is stale.
KnowsTheRow ==
  \A q \in Requests :
    /\ req[q].now <= clock
    /\ req[q].phase = "claim" =>
         \/ req[q].existing.status = "FAILED"
         \/ /\ req[q].existing.status = "PROCESSING"
            /\ LeaseExpired(req[q].existing.lastAttemptAt, req[q].now)
    /\ req[q].phase \in {"conflict", "claim"} => receipt.status # "none"

\* As long as nobody failed another one's row, a row being worked on within a
\* lease is of the attempt that holds the lease, or closed.
RowIsOfTheHolder ==
  ~lateFail => \A q \in Requests : WithinLease(q) =>
    \/ receipt.status = "PROCESSED"
    \/ receipt.status = "PROCESSING" /\ receipt.lastAttemptAt = req[q].now

IInv ==
  /\ TypeOK
  /\ OneIsHeard
  /\ ClosedMeansHandled
  /\ RowIsAccountedFor
  /\ AcknowledgedIsAccountedFor
  /\ KnowsTheRow
  /\ RowIsOfTheHolder
  /\ OverlapNeedsLateFailure

-----------------------------------------------------------------------------
(* Types, and what a step does to the deliveries.                          *)

LEMMA IdleIsInFlight == Idle \in InFlight
  BY InboxAssumption DEF Idle, InFlight, Phases, Time, Receipts, NoReceipt

\* A step that only moves a delivery on.
LEMMA GotoFacts ==
    ASSUME req \in [Requests -> InFlight], NEW q \in Requests, NEW phase \in Phases,
           Goto(q, phase)
    PROVE  /\ req' \in [Requests -> InFlight]
           /\ \A p \in Requests \ {q} : req'[p] = req[p]
           /\ req'[q].phase = phase /\ req'[q].payload = req[q].payload
           /\ req'[q].now = req[q].now /\ req'[q].existing = req[q].existing
           /\ req'[q].heard = req[q].heard
  BY DEF Goto, InFlight

\* A delivery that is answered is over; only a success Shopify hears counts.
LEMMA AnswerFacts ==
    ASSUME req \in [Requests -> InFlight], acked \in BOOLEAN, NEW q \in Requests,
           NEW success \in BOOLEAN, Answer(q, success)
    PROVE  /\ req' \in [Requests -> InFlight] /\ acked' \in BOOLEAN
           /\ \A p \in Requests \ {q} : req'[p] = req[p]
           /\ req'[q] = Idle /\ req'[q].phase = "idle"
           /\ acked' = (acked \/ (success /\ req[q].heard))
  <1>1. req' = [req EXCEPT ![q] = Idle] /\ acked' = (acked \/ (success /\ req[q].heard))
    BY DEF Answer
  <1>2. req' \in [Requests -> InFlight] /\ req'[q] = Idle /\ Idle.phase = "idle"
    BY <1>1, IdleIsInFlight DEF Idle
  <1>3. \A p \in Requests \ {q} : req'[p] = req[p]
    BY <1>1
  <1>4. acked' \in BOOLEAN
    BY <1>1
  <1> QED
    BY <1>1, <1>2, <1>3, <1>4

LEMMA InitTypeOK == Init => TypeOK
  <1>. SUFFICES ASSUME Init PROVE TypeOK
    OBVIOUS
  <1>. USE InboxAssumption DEF Init
  <1>1. receipt \in Receipts /\ clock \in Time
    BY DEF Receipts, NoReceipt, Time
  <1>2. req \in [Requests -> InFlight]
    BY IdleIsInFlight
  <1>3. mishaps \in 0 .. MaxMishaps
    OBVIOUS
  <1> QED
    BY <1>1, <1>2, <1>3 DEF TypeOK

\* The row with another status, or with another attempt.
LEMMA RowTypes ==
    ASSUME receipt \in Receipts, NEW at \in Time
    PROVE  /\ [receipt EXCEPT !.status = "PROCESSING", !.lastAttemptAt = at] \in Receipts
           /\ [receipt EXCEPT !.status = "FAILED", !.lastAttemptAt = at] \in Receipts
           /\ [receipt EXCEPT !.status = "PROCESSED"] \in Receipts
  BY DEF Receipts

LEMMA StepTypes ==
    ASSUME TypeOK, NEW q \in Requests, Step(q)
    PROVE  TypeOK'
  <1>. USE DEF TypeOK
  <1>0. /\ req[q].now \in Time /\ req[q].payload \in Payloads \cup {None}
        /\ req[q].existing \in Receipts
    BY DEF InFlight
  <1>1. CASE Begin(q)
    <2>1. receipt' \in Receipts
      BY <1>0, <1>1 DEF Begin, Receipts
    <2>2. Goto(q, "handler") \/ Goto(q, "conflict")
      BY <1>1 DEF Begin
    <2>3. req' \in [Requests -> InFlight]
      BY <2>2, GotoFacts DEF Phases
    <2> QED
      BY <1>1, <2>1, <2>3 DEF Begin
  <1>2. CASE ReadExisting(q)
    <2>1. CASE Answer(q, FALSE) \/ Answer(q, TRUE)
      BY <1>2, <2>1, AnswerFacts DEF ReadExisting
    <2>2. CASE req' = [req EXCEPT ![q].phase = "claim", ![q].existing = receipt] /\ UNCHANGED acked
      <3>1. req' \in [Requests -> InFlight]
        BY <2>2 DEF InFlight, Phases
      <3> QED
        BY <1>2, <2>2, <3>1 DEF ReadExisting
    <2> QED
      BY <1>2, <2>1, <2>2 DEF ReadExisting
  <1>3. CASE Claim(q)
    <2>1. receipt' \in Receipts
      BY <1>0, <1>3, RowTypes DEF Claim
    <2>2. req' \in [Requests -> InFlight] /\ acked' \in BOOLEAN
      BY <1>3, GotoFacts, AnswerFacts DEF Claim, Phases
    <2> QED
      BY <1>3, <2>1, <2>2 DEF Claim
  <1>4. CASE \E result \in HandlerResults : HandlerReturns(q, result)
    <2>1. PICK result \in HandlerResults : HandlerReturns(q, result)
      BY <1>4
    <2>2. Goto(q, "fail") \/ Goto(q, "complete")
      BY <2>1 DEF HandlerReturns
    <2>3. req' \in [Requests -> InFlight]
      BY <2>2, GotoFacts DEF Phases
    <2>4. accepted' \in BOOLEAN
      BY <2>1 DEF HandlerReturns, HandlerResults
    <2> QED
      BY <2>1, <2>3, <2>4 DEF HandlerReturns
  <1>5. CASE HandlerThrows(q)
    BY <1>5, GotoFacts DEF HandlerThrows, Phases
  <1>6. CASE Complete(q)
    <2>1. receipt' \in Receipts
      BY <1>6, RowTypes DEF Complete, CompletedRow
    <2> QED
      BY <1>6, <2>1, AnswerFacts DEF Complete
  <1>7. CASE Fail(q)
    <2>1. receipt' \in Receipts
      BY <1>7, RowTypes DEF Fail, FailedRow
    <2>2. req' \in [Requests -> InFlight] /\ acked' \in BOOLEAN
      BY <1>7, AnswerFacts DEF Fail
    <2>3. lost' \in BOOLEAN /\ lateFail' \in BOOLEAN
      BY <1>7 DEF Fail
    <2> QED
      BY <1>7, <2>1, <2>2, <2>3 DEF Fail
  <1> QED
    BY <1>1, <1>2, <1>3, <1>4, <1>5, <1>6, <1>7 DEF Step

LEMMA NextTypeOK == TypeOK /\ [Next]_vars => TypeOK'
  <1>. SUFFICES ASSUME TypeOK, [Next]_vars PROVE TypeOK'
    OBVIOUS
  <1>. USE InboxAssumption
  <1>1. CASE UNCHANGED vars
    BY <1>1 DEF vars, TypeOK
  <1>2. CASE Tick
    BY <1>2 DEF Tick, Time, TypeOK
  <1>3. ASSUME NEW q \in Requests, Deliver(q) PROVE TypeOK'
    <2>1. PICK payload \in Payloads :
            req' = [req EXCEPT ![q] = [Idle EXCEPT !.phase = "begin", !.payload = payload, !.now = clock]]
      BY <1>3 DEF Deliver
    <2>2. [Idle EXCEPT !.phase = "begin", !.payload = payload, !.now = clock] \in InFlight
      BY IdleIsInFlight DEF TypeOK, InFlight, Phases
    <2>3. req' \in [Requests -> InFlight]
      BY <2>1, <2>2 DEF TypeOK
    <2> QED
      BY <1>3, <2>3 DEF Deliver, TypeOK
  <1>4. ASSUME NEW q \in Requests, CompleteThrows(q) PROVE TypeOK'
    BY <1>4, GotoFacts DEF CompleteThrows, Phases, TypeOK
  <1>5. ASSUME NEW q \in Requests, Die(q) PROVE TypeOK'
    <2>1. req' \in [Requests -> InFlight] /\ lost' \in BOOLEAN /\ mishaps' \in 0 .. MaxMishaps
      BY <1>5, IdleIsInFlight DEF Die, TypeOK
    <2> QED
      BY <1>5, <2>1 DEF Die, TypeOK
  <1>6. ASSUME NEW q \in Requests, GiveUp(q) PROVE TypeOK'
    <2>1. req' \in [Requests -> InFlight]
      BY <1>6 DEF GiveUp, TypeOK, InFlight
    <2> QED
      BY <1>6, <2>1 DEF GiveUp, TypeOK
  <1> QED
    BY <1>1, <1>2, <1>3, <1>4, <1>5, <1>6, StepTypes DEF Next

-----------------------------------------------------------------------------
(* Who is listened to.                                                     *)

\* A step of a delivery, or a mishap that befalls it, leaves the others
\* alone, and only its end can tell Shopify anything.
LEMMA HearingFacts ==
    ASSUME TypeOK, NEW q \in Requests,
           Step(q) \/ CompleteThrows(q) \/ Die(q) \/ GiveUp(q)
    PROVE  /\ \A p \in Requests \ {q} : req'[p] = req[p]
           /\ InFlightNow(q)
           /\ InFlightNow(q)' => /\ req'[q].heard => req[q].heard
                                 /\ req'[q].now = req[q].now
           /\ \/ acked' = acked
              \/ acked' /\ req[q].heard /\ ~InFlightNow(q)'
           /\ accepted => accepted'
           /\ lost => lost'
           /\ lateFail => lateFail'
           /\ clock' = clock
  <1>. USE DEF TypeOK, InFlightNow
  <1>0. Idle.phase = "idle"
    BY DEF Idle
  <1>1. CASE Begin(q) \/ HandlerThrows(q) \/ CompleteThrows(q)
    BY <1>1, GotoFacts DEF Begin, HandlerThrows, CompleteThrows, Phases
  <1>2. CASE \E result \in HandlerResults : HandlerReturns(q, result)
    <2>1. PICK result \in HandlerResults : HandlerReturns(q, result)
      BY <1>2
    <2>2. Goto(q, "fail") \/ Goto(q, "complete")
      BY <2>1 DEF HandlerReturns
    <2> QED
      BY <2>1, <2>2, GotoFacts DEF HandlerReturns, Phases
  <1>3. CASE ReadExisting(q)
    <2>1. CASE Answer(q, FALSE) \/ Answer(q, TRUE)
      BY <1>0, <1>3, <2>1, AnswerFacts DEF ReadExisting
    <2>2. CASE req' = [req EXCEPT ![q].phase = "claim", ![q].existing = receipt] /\ UNCHANGED acked
      BY <1>3, <2>2 DEF ReadExisting, InFlight
    <2> QED
      BY <1>3, <2>1, <2>2 DEF ReadExisting
  <1>4. CASE Claim(q)
    BY <1>0, <1>4, GotoFacts, AnswerFacts DEF Claim, Phases
  <1>5. CASE Complete(q)
    BY <1>0, <1>5, AnswerFacts DEF Complete
  <1>6. CASE Fail(q)
    BY <1>0, <1>6, AnswerFacts DEF Fail
  <1>7. CASE Die(q)
    BY <1>0, <1>7 DEF Die
  <1>8. CASE GiveUp(q)
    BY <1>8 DEF GiveUp, InFlight
  <1> QED
    BY <1>1, <1>2, <1>3, <1>4, <1>5, <1>6, <1>7, <1>8 DEF Step

\* A delivery that arrives is the only one Shopify waits for.
LEMMA DeliverFacts ==
    ASSUME TypeOK, NEW q \in Requests, Deliver(q)
    PROVE  /\ \A p \in Requests \ {q} : req'[p] = req[p]
           /\ ~acked /\ ~InFlightNow(q)
           /\ \A p \in Requests : InFlightNow(p) => ~req[p].heard
           /\ req'[q].phase = "begin" /\ req'[q].now = clock
           /\ UNCHANGED <<clock, receipt, acked, accepted, lost, lateFail>>
  BY DEF Deliver, TypeOK, InFlightNow, InFlight, Idle

LEMMA HearingStep ==
    ASSUME IInv, [Next]_vars
    PROVE  OneIsHeard'
  <1>. USE DEF IInv, OneIsHeard, InFlightNow
  <1>1. CASE UNCHANGED vars \/ Tick
    BY <1>1 DEF vars, Tick
  <1>2. ASSUME NEW q \in Requests, Deliver(q) PROVE OneIsHeard'
    BY <1>2, DeliverFacts
  <1>3. ASSUME NEW q \in Requests, Step(q) \/ CompleteThrows(q) \/ Die(q) \/ GiveUp(q)
        PROVE  OneIsHeard'
    BY <1>3, HearingFacts
  <1> QED
    BY <1>1, <1>2, <1>3 DEF Next

-----------------------------------------------------------------------------
(* The row and those who answer for it.                                    *)

Own(q) == Step(q) \/ CompleteThrows(q) \/ Die(q) \/ GiveUp(q)

\* Who writes the row: its insert and its claim take a delivery to work, and
\* the closing writes end one.
LEMMA RowFacts ==
    ASSUME TypeOK, NEW q \in Requests, Own(q)
    PROVE  \/ receipt' = receipt /\ ~Fail(q) /\ ~Complete(q)
           \/ /\ Begin(q) \/ Claim(q)
              /\ receipt'.status = "PROCESSING" /\ receipt'.lastAttemptAt = req[q].now
              /\ req'[q].phase = "handler"
           \/ Complete(q) /\ req[q].phase = "complete" /\ receipt' = CompletedRow
           \/ Fail(q) /\ req[q].phase = "fail" /\ receipt' = FailedRow
  <1>. USE DEF TypeOK
  <1>1. CASE Begin(q)
    <2>1. CASE Goto(q, "handler") /\ receipt.status = "none"
      BY <1>1, <2>1, GotoFacts DEF Begin, Phases
    <2>2. CASE UNCHANGED receipt
      BY <1>1, <2>2 DEF Begin, Fail, Complete
    <2> QED
      BY <1>1, <2>1, <2>2 DEF Begin
  <1>2. CASE Claim(q)
    <2>1. CASE Goto(q, "handler") /\ Unchanged(req[q].existing)
      <3>1. receipt' = [receipt EXCEPT !.status = "PROCESSING", !.lastAttemptAt = req[q].now]
        BY <1>2, <2>1 DEF Claim
      <3>2. receipt'.status = "PROCESSING" /\ receipt'.lastAttemptAt = req[q].now
        BY <3>1 DEF Receipts
      <3> QED
        BY <1>2, <2>1, <3>2, GotoFacts DEF Phases
    <2>2. CASE UNCHANGED receipt
      BY <1>2, <2>2 DEF Claim, Fail, Complete
    <2> QED
      BY <1>2, <2>1, <2>2 DEF Claim
  <1>3. CASE Complete(q) \/ Fail(q)
    BY <1>3 DEF Complete, Fail
  <1>4. CASE ~Begin(q) /\ ~Claim(q) /\ ~Complete(q) /\ ~Fail(q)
    BY <1>4 DEF Own, Step, ReadExisting, HandlerReturns, HandlerThrows,
                CompleteThrows, Die, GiveUp
  <1> QED
    BY <1>1, <1>2, <1>3, <1>4

\* What the closing writes make of the row.
LEMMA ClosingFacts ==
    ASSUME TypeOK
    PROVE  /\ CompletedRow.status # "PROCESSING"
           /\ receipt.status = "PROCESSING" => CompletedRow.status = "PROCESSED"
           /\ receipt.status # "PROCESSING" => CompletedRow = receipt
           /\ FailedRow.status # "PROCESSING"
           /\ receipt.status = "PROCESSING" => FailedRow.status = "FAILED"
           /\ receipt.status # "PROCESSING" => FailedRow = receipt
           /\ receipt.status # "none" => CompletedRow.status # "none" /\ FailedRow.status # "none"
  BY DEF TypeOK, Receipts, CompletedRow, FailedRow

\* Where a delivery goes.
LEMMA PhaseFacts ==
    ASSUME TypeOK, NEW q \in Requests, Own(q)
    PROVE  /\ req'[q].phase = "complete" => accepted' 
                                            \/ (req[q].phase = "complete" /\ ~Complete(q))
           /\ req'[q].phase = "claim" =>
                \/ /\ receipt' = receipt /\ req'[q].existing = receipt /\ req'[q].now = req[q].now
                   /\ req[q].phase = "conflict" /\ receipt.status # "PROCESSED"
                   /\ ~InProgress(receipt, req[q].now)
                \/ req[q].phase = "claim" /\ ~req'[q].heard /\ receipt' = receipt
                   /\ req'[q].existing = req[q].existing /\ req'[q].now = req[q].now
           /\ req'[q].phase = "conflict" => /\ receipt' = receipt
                                            /\ req[q].phase = "conflict" \/ receipt.status # "none"
           /\ AtWork(q)' => AtWork(q) \/ Begin(q) \/ Claim(q)
           /\ AtWork(q) /\ ~AtWork(q)' => lost' \/ Complete(q) \/ (Fail(q) /\ req[q].heard)
  <1>. USE DEF TypeOK, AtWork
  <1>0. Idle.phase = "idle"
    BY DEF Idle
  <1>1. CASE Begin(q)
    BY <1>1, GotoFacts DEF Begin, Phases
  <1>2. CASE HandlerThrows(q) \/ CompleteThrows(q)
    BY <1>2, GotoFacts DEF HandlerThrows, CompleteThrows, Phases
  <1>3. CASE \E result \in HandlerResults : HandlerReturns(q, result)
    <2>1. PICK result \in HandlerResults : HandlerReturns(q, result)
      BY <1>3
    <2>2. \/ Goto(q, "fail") /\ req[q].phase = "handler"
          \/ Goto(q, "complete") /\ accepted' /\ req[q].phase = "handler"
      BY <2>1 DEF HandlerReturns, HandlerResults, Retryable
    <2> QED
      BY <2>2, GotoFacts DEF Phases
  <1>4. CASE ReadExisting(q)
    <2>1. CASE Answer(q, FALSE) \/ Answer(q, TRUE)
      BY <1>0, <1>4, <2>1, AnswerFacts DEF ReadExisting
    <2>2. CASE req' = [req EXCEPT ![q].phase = "claim", ![q].existing = receipt]
               /\ receipt.status # "PROCESSED" /\ ~InProgress(receipt, req[q].now)
      <3>1. req'[q].phase = "claim" /\ req'[q].existing = receipt /\ req'[q].now = req[q].now
        BY <2>2 DEF InFlight
      <3> QED
        BY <1>4, <2>2, <3>1 DEF ReadExisting
    <2> QED
      BY <1>4, <2>1, <2>2 DEF ReadExisting
  <1>5. CASE Claim(q)
    <2>1. req'[q].phase = "handler" \/ req'[q].phase = "idle"
      BY <1>0, <1>5, GotoFacts, AnswerFacts DEF Claim, Phases
    <2>2. req[q].phase = "claim"
      BY <1>5 DEF Claim
    <2> QED
      BY <1>5, <2>1, <2>2
  <1>6. CASE Complete(q)
    <2>1. req'[q].phase = "idle"
      BY <1>0, <1>6, AnswerFacts DEF Complete
    <2> QED
      BY <1>6, <2>1
  <1>7. CASE Fail(q)
    <2>1. req'[q].phase = "idle"
      BY <1>0, <1>7, AnswerFacts DEF Fail
    <2>2. lost' \/ req[q].heard
      BY <1>7 DEF Fail, InFlight
    <2> QED
      BY <1>7, <2>1, <2>2
  <1>8. CASE Die(q)
    BY <1>0, <1>8 DEF Die
  <1>9. CASE GiveUp(q)
    <2>1. /\ req'[q].phase = req[q].phase /\ req'[q].now = req[q].now
          /\ req'[q].existing = req[q].existing /\ ~req'[q].heard
      BY <1>9 DEF GiveUp, InFlight
    <2>2. ~Complete(q)
      BY <1>0, <1>9, <2>1, AnswerFacts DEF Complete, GiveUp
    <2> QED
      BY <1>9, <2>1, <2>2 DEF GiveUp
  <1> QED
    BY <1>1, <1>2, <1>3, <1>4, <1>5, <1>6, <1>7, <1>8, <1>9 DEF Own, Step

LEMMA ClosedStep ==
    ASSUME IInv, [Next]_vars
    PROVE  ClosedMeansHandled'
  <1>. USE DEF IInv, ClosedMeansHandled
  <1>1. CASE UNCHANGED vars \/ Tick
    BY <1>1 DEF vars, Tick
  <1>2. ASSUME NEW q \in Requests, Deliver(q) PROVE ClosedMeansHandled'
    BY <1>2, DeliverFacts
  <1>3. ASSUME NEW q \in Requests, Own(q) PROVE ClosedMeansHandled'
    <2>1. accepted => accepted'
      BY <1>3, HearingFacts DEF Own
    <2>2. receipt'.status = "PROCESSED" => accepted'
      BY <1>3, <2>1, RowFacts, ClosingFacts
    <2>3. \A p \in Requests : req'[p].phase = "complete" => accepted'
      BY <1>3, <2>1, PhaseFacts, HearingFacts DEF Own
    <2> QED
      BY <2>2, <2>3
  <1> QED
    BY <1>1, <1>2, <1>3 DEF Next, Own

\* Whoever answers for the event goes on to, unless it fails with Shopify
\* listening.
LEMMA AccountedStep ==
    ASSUME IInv, NEW q \in Requests, Own(q), AccountedFor
    PROVE  AccountedFor' \/ (Fail(q) /\ req[q].heard)
  <1>1. CASE accepted \/ lost
    BY <1>1, HearingFacts DEF Own, AccountedFor, IInv
  <1>2. ASSUME NEW p \in Requests, AtWork(p), p # q PROVE AccountedFor'
    BY <1>2, HearingFacts DEF Own, AccountedFor, AtWork, IInv
  <1>3. CASE AtWork(q)
    <2>1. Complete(q) => accepted'
      BY HearingFacts DEF Own, Complete, IInv, ClosedMeansHandled
    <2> QED
      BY <1>3, <2>1, PhaseFacts DEF AccountedFor, IInv
  <1> QED
    BY <1>1, <1>2, <1>3 DEF AccountedFor

LEMMA RowStep ==
    ASSUME IInv, [Next]_vars
    PROVE  RowIsAccountedFor'
  <1>. USE DEF IInv, RowIsAccountedFor
  <1>1. CASE UNCHANGED vars \/ Tick
    BY <1>1 DEF vars, Tick, AccountedFor, AtWork, Unchanged
  <1>2. ASSUME NEW q \in Requests, Deliver(q) PROVE RowIsAccountedFor'
    <2>1. AccountedFor => AccountedFor'
      BY <1>2, DeliverFacts DEF AccountedFor, AtWork, InFlightNow
    <2> QED
      BY <1>2, <2>1, DeliverFacts DEF Unchanged
  <1>3. ASSUME NEW q \in Requests, Own(q) PROVE RowIsAccountedFor'
    <2>1. AtWork(q)' \/ accepted' \/ lost' => AccountedFor'
      BY DEF AccountedFor
    <2>2. Complete(q) => accepted'
      BY HearingFacts, <1>3 DEF Own, Complete, ClosedMeansHandled
    <2>3. Fail(q) => lost' \/ req[q].heard
      BY DEF Fail, TypeOK, InFlight
    <2>4. receipt'.status = "PROCESSING" => AccountedFor'
      <3>1. CASE receipt' = receipt /\ ~Fail(q)
        BY <1>3, <3>1, AccountedStep
      <3>2. CASE req'[q].phase = "handler"
        BY <2>1, <3>2 DEF AtWork
      <3>3. CASE receipt' = CompletedRow \/ receipt' = FailedRow
        BY <3>3, ClosingFacts
      <3> QED
        BY <1>3, <3>1, <3>2, <3>3, RowFacts
    <2>5. ASSUME NEW p \in Requests, req'[p].phase = "claim", req'[p].heard,
                 ~Unchanged(req[p].existing)'
          PROVE  AccountedFor'
      <3>1. CASE p = q
        BY <1>3, <2>5, <3>1, PhaseFacts DEF Unchanged
      <3>2. CASE p # q
        <4>1. req'[p] = req[p]
          BY <1>3, <3>2, HearingFacts DEF Own
        <4>2. ~(Fail(q) /\ req[q].heard)
          BY <2>5, <3>2, <4>1 DEF Fail, OneIsHeard, InFlightNow
        <4>3. CASE ~Unchanged(req[p].existing)
          BY <1>3, <2>5, <4>1, <4>2, <4>3, AccountedStep
        <4>4. CASE receipt' # receipt
          <5>1. AtWork(q)' \/ Complete(q) \/ Fail(q)
            BY <1>3, <4>4, RowFacts DEF AtWork
          <5> QED
            BY <2>1, <2>2, <2>3, <4>2, <5>1
        <4> QED
          BY <2>5, <4>1, <4>3, <4>4 DEF Unchanged
      <3> QED
        BY <3>1, <3>2
    <2> QED
      BY <2>4, <2>5
  <1> QED
    BY <1>1, <1>2, <1>3 DEF Next, Own

LEMMA AcknowledgedStep ==
    ASSUME IInv, [Next]_vars
    PROVE  AcknowledgedIsAccountedFor'
  <1>. USE DEF IInv
  <1>0. /\ AcknowledgedIsAccountedFor <=> (acked => AccountedFor)
        /\ AcknowledgedIsAccountedFor' <=> (acked' => AccountedFor')
    BY DEF AcknowledgedIsAccountedFor, AccountedFor
  <1>1. CASE UNCHANGED vars \/ Tick
    BY <1>0, <1>1 DEF vars, Tick, AccountedFor, AtWork
  <1>2. ASSUME NEW q \in Requests, Deliver(q) PROVE AcknowledgedIsAccountedFor'
    BY <1>0, <1>2, DeliverFacts
  <1>3. ASSUME NEW q \in Requests, Own(q) PROVE AcknowledgedIsAccountedFor'
    <2>1. CASE acked
      <3>1. ~(Fail(q) /\ req[q].heard)
        BY <2>1 DEF Fail, OneIsHeard, InFlightNow
      <3> QED
        BY <1>0, <1>3, <2>1, <3>1, AccountedStep
    <2>2. CASE ~acked /\ acked'
      <3>1. req[q].heard
        BY <1>3, <2>2, HearingFacts DEF Own, TypeOK
      <3>2. Complete(q) \/ ReadExisting(q) \/ Claim(q)
        BY <1>3, <2>2
        DEF Own, Step, Begin, HandlerReturns, HandlerThrows, Fail, Answer,
            CompleteThrows, Die, GiveUp
      <3>3. CASE Complete(q)
        BY <1>0, <1>3, <3>3, HearingFacts DEF Own, Complete, ClosedMeansHandled, AccountedFor
      <3>4. CASE ReadExisting(q)
        <4>1. receipt.status = "PROCESSED" \/ InProgress(receipt, req[q].now)
          BY <2>2, <3>4 DEF ReadExisting, Answer
        <4>2. AccountedFor
          BY <4>1 DEF InProgress, ClosedMeansHandled, RowIsAccountedFor, AccountedFor
        <4>3. ~Fail(q)
          BY <3>4 DEF ReadExisting, Fail
        <4> QED
          BY <1>0, <1>3, <4>2, <4>3, AccountedStep
      <3>5. CASE Claim(q)
        <4>1. ~Unchanged(req[q].existing)
          BY <2>2, <3>5 DEF Claim
        <4>2. AccountedFor
          BY <3>1, <3>5, <4>1 DEF Claim, RowIsAccountedFor
        <4>3. ~Fail(q)
          BY <3>5 DEF Claim, Fail
        <4> QED
          BY <1>0, <1>3, <4>2, <4>3, AccountedStep
      <3> QED
        BY <3>2, <3>3, <3>4, <3>5
    <2> QED
      BY <1>0, <2>1, <2>2
  <1> QED
    BY <1>1, <1>2, <1>3 DEF Next, Own

-----------------------------------------------------------------------------
(* Leases.                                                                 *)

\* A delivery that is over is forgotten.
LEMMA EndedIsIdle ==
    ASSUME TypeOK, NEW q \in Requests, Own(q), ~InFlightNow(q)'
    PROVE  req'[q] = Idle
  <1>. USE DEF TypeOK
  <1>1. ASSUME NEW phase \in Phases \ {"idle"}, Goto(q, phase) PROVE FALSE
    BY <1>1, GotoFacts DEF InFlightNow
  <1>2. ASSUME NEW success \in BOOLEAN, Answer(q, success) PROVE req'[q] = Idle
    BY <1>2, AnswerFacts
  <1>3. CASE Begin(q)
    BY <1>1, <1>3 DEF Begin, Phases
  <1>4. CASE ReadExisting(q)
    <2>1. req' # [req EXCEPT ![q].phase = "claim", ![q].existing = receipt]
      BY DEF InFlightNow, InFlight
    <2> QED
      BY <1>2, <1>4, <2>1 DEF ReadExisting
  <1>5. CASE Claim(q)
    BY <1>1, <1>2, <1>5 DEF Claim, Phases
  <1>6. ASSUME NEW result \in HandlerResults, HandlerReturns(q, result) PROVE FALSE
    BY <1>1, <1>6 DEF HandlerReturns, Phases
  <1>7. CASE HandlerThrows(q) \/ CompleteThrows(q)
    BY <1>1, <1>7 DEF HandlerThrows, CompleteThrows, Phases
  <1>8. CASE Complete(q) \/ Fail(q)
    BY <1>2, <1>8 DEF Complete, Fail
  <1>9. CASE Die(q)
    BY <1>9 DEF Die
  <1>10. CASE GiveUp(q)
    BY <1>10 DEF GiveUp, InFlightNow, InFlight
  <1> QED
    BY <1>3, <1>4, <1>5, <1>6, <1>7, <1>8, <1>9, <1>10 DEF Own, Step

LEMMA KnowledgeStep ==
    ASSUME IInv, [Next]_vars
    PROVE  KnowsTheRow'
  <1>. USE DEF IInv, KnowsTheRow, LeaseExpired
  <1>1. CASE UNCHANGED vars
    BY <1>1 DEF vars
  <1>2. CASE Tick
    BY <1>2 DEF Tick, TypeOK, Time, InFlight
  <1>3. ASSUME NEW q \in Requests, Deliver(q) PROVE KnowsTheRow'
    BY <1>3, DeliverFacts DEF TypeOK, Time
  <1>4. ASSUME NEW q \in Requests, Own(q) PROVE KnowsTheRow'
    <2>1. receipt.status # "none" => receipt'.status # "none"
      BY <1>4, RowFacts, ClosingFacts
    <2>2. ASSUME NEW p \in Requests, p # q
          PROVE  /\ req'[p].now <= clock'
                 /\ req'[p].phase = "claim" =>
                      \/ req'[p].existing.status = "FAILED"
                      \/ /\ req'[p].existing.status = "PROCESSING"
                         /\ req'[p].existing.lastAttemptAt + Lease <= req'[p].now
                 /\ req'[p].phase \in {"conflict", "claim"} => receipt'.status # "none"
      BY <1>4, <2>1, <2>2, HearingFacts DEF Own
    <2>3. req'[q].now <= clock'
      <3>1. CASE InFlightNow(q)'
        BY <1>4, <3>1, HearingFacts DEF Own
      <3>2. CASE ~InFlightNow(q)'
        <4>1. req'[q] = Idle
          BY <1>4, <3>2, EndedIsIdle
        <4> QED
          BY <1>4, <4>1, HearingFacts, InboxAssumption DEF Own, Idle, TypeOK, Time
      <3> QED
        BY <3>1, <3>2
    <2>4. req'[q].phase \in {"conflict", "claim"} => receipt'.status # "none"
      BY <1>4, <2>1, PhaseFacts
    <2>5. req'[q].phase = "claim" =>
            \/ req'[q].existing.status = "FAILED"
            \/ /\ req'[q].existing.status = "PROCESSING"
               /\ req'[q].existing.lastAttemptAt + Lease <= req'[q].now
      <3>1. receipt.status \in {"none", "PROCESSING", "PROCESSED", "FAILED"}
        BY DEF TypeOK, Receipts
      <3> QED
        BY <1>4, <3>1, PhaseFacts DEF InProgress
    <2> QED
      BY <2>2, <2>3, <2>4, <2>5
  <1> QED
    BY <1>1, <1>2, <1>3, <1>4 DEF Next, Own

\* A claim is granted only on a row that has failed or whose lease is over.
LEMMA ClaimNeedsFreeRow ==
    ASSUME IInv, ~lateFail, NEW q \in Requests, NEW p \in Requests,
           Begin(q) \/ Claim(q), req'[q].phase = "handler", p # q
    PROVE  ~WithinLease(p)
  <1>. USE DEF IInv
  <1>1. CASE Begin(q)
    <2>1. receipt.status = "none"
      BY <1>1, GotoFacts DEF Begin, TypeOK, Phases
    <2> QED
      BY <2>1 DEF RowIsOfTheHolder
  <1>2. CASE Claim(q)
    <2>1. Unchanged(req[q].existing)
      BY <1>2, AnswerFacts DEF Claim, TypeOK
    <2>2. \/ receipt.status = "FAILED"
          \/ receipt.status = "PROCESSING" /\ LeaseExpired(receipt.lastAttemptAt, req[q].now)
      BY <1>2, <2>1 DEF Claim, Unchanged, KnowsTheRow
    <2>3. LeaseExpired(receipt.lastAttemptAt, req[q].now) => LeaseExpired(receipt.lastAttemptAt, clock)
      BY InboxAssumption DEF LeaseExpired, KnowsTheRow, TypeOK, InFlight, Receipts, Time
    <2> QED
      BY <2>2, <2>3 DEF RowIsOfTheHolder, WithinLease
  <1> QED
    BY <1>1, <1>2

LEMMA LeaseStep ==
    ASSUME IInv, [Next]_vars
    PROVE  RowIsOfTheHolder' /\ OverlapNeedsLateFailure'
  <1>. USE DEF IInv
  <1>1. CASE UNCHANGED vars
    BY <1>1 DEF vars, RowIsOfTheHolder, OverlapNeedsLateFailure, WithinLease, AtWork, LeaseExpired
  <1>2. CASE Tick
    <2>1. \A p \in Requests : WithinLease(p)' => WithinLease(p)
      BY <1>2, InboxAssumption DEF Tick, WithinLease, AtWork, LeaseExpired, TypeOK, InFlight, Time
    <2> QED
      BY <1>2, <2>1 DEF Tick, RowIsOfTheHolder, OverlapNeedsLateFailure
  <1>3. ASSUME NEW q \in Requests, Deliver(q)
        PROVE  RowIsOfTheHolder' /\ OverlapNeedsLateFailure'
    <2>1. \A p \in Requests : WithinLease(p)' => WithinLease(p) /\ req'[p] = req[p]
      BY <1>3, DeliverFacts DEF WithinLease, AtWork, LeaseExpired
    <2> QED
      BY <1>3, <2>1, DeliverFacts DEF RowIsOfTheHolder, OverlapNeedsLateFailure
  <1>4. ASSUME NEW q \in Requests, Own(q)
        PROVE  RowIsOfTheHolder' /\ OverlapNeedsLateFailure'
    <2>1. lateFail => lateFail' /\ clock' = clock
      BY <1>4, HearingFacts DEF Own
    <2>. SUFFICES ASSUME ~lateFail, ~lateFail'
                  PROVE  RowIsOfTheHolder' /\ OverlapNeedsLateFailure'
      BY <1>4, HearingFacts DEF Own, RowIsOfTheHolder, OverlapNeedsLateFailure
    <2>2. \A p \in Requests \ {q} : /\ req'[p] = req[p]
                                    /\ WithinLease(p)' => WithinLease(p)
      BY <1>4, HearingFacts DEF Own, WithinLease, AtWork, LeaseExpired
    <2>3. WithinLease(q)' => \/ WithinLease(q) /\ req'[q].now = req[q].now
                             \/ Begin(q) \/ Claim(q)
      BY <1>4, PhaseFacts, HearingFacts
      DEF Own, WithinLease, AtWork, LeaseExpired, InFlightNow
    <2>4. CASE Begin(q) \/ Claim(q)
      <3>1. CASE req'[q].phase = "handler"
        <4>1. \A p \in Requests \ {q} : ~WithinLease(p)'
          BY <2>2, <2>4, <3>1, ClaimNeedsFreeRow
        <4>2. receipt'.status = "PROCESSING" /\ receipt'.lastAttemptAt = req[q].now
          <5>1. CASE Begin(q)
            <6>1. receipt.status = "none"
              BY <3>1, <5>1, GotoFacts DEF Begin, TypeOK, Phases
            <6> QED
              BY <5>1, <6>1 DEF Begin
          <5>2. CASE Claim(q)
            <6>1. Unchanged(req[q].existing)
              BY <3>1, <5>2, AnswerFacts DEF Claim, TypeOK
            <6>2. receipt' = [receipt EXCEPT !.status = "PROCESSING", !.lastAttemptAt = req[q].now]
              BY <5>2, <6>1 DEF Claim
            <6> QED
              BY <6>2 DEF TypeOK, Receipts
          <5> QED
            BY <2>4, <5>1, <5>2
        <4>3. req'[q].now = req[q].now
          BY <1>4, <3>1, HearingFacts DEF Own, InFlightNow
        <4> QED
          BY <4>1, <4>2, <4>3 DEF RowIsOfTheHolder, OverlapNeedsLateFailure
      <3>2. CASE req'[q].phase # "handler"
        <4>1. receipt' = receipt
          BY <1>4, <2>4, <3>2, RowFacts DEF Begin, Claim, Complete, Fail
        <4>2. ~AtWork(q)'
          BY <2>4, <3>2, GotoFacts, AnswerFacts DEF Begin, Claim, TypeOK, Phases, AtWork
        <4> QED
          BY <2>2, <4>1, <4>2 DEF RowIsOfTheHolder, OverlapNeedsLateFailure, WithinLease
      <3> QED
        BY <3>1, <3>2
    <2>5. CASE Complete(q)
      <3>1. ~AtWork(q)'
        BY <2>5, AnswerFacts DEF Complete, TypeOK, AtWork
      <3>2. receipt'.status = "PROCESSED" \/ receipt' = receipt
        BY <2>5, ClosingFacts DEF Complete
      <3> QED
        BY <2>2, <3>1, <3>2 DEF RowIsOfTheHolder, OverlapNeedsLateFailure, WithinLease
    <2>6. CASE Fail(q)
      <3>1. \A p \in Requests : ~AtWork(p)'
        <4>1. ~AtWork(q)'
          BY <2>6, AnswerFacts DEF Fail, TypeOK, AtWork
        <4>2. \A p \in Requests \ {q} : ~AtWork(p)
          BY <2>6 DEF Fail
        <4> QED
          BY <2>2, <4>1, <4>2 DEF AtWork
      <3> QED
        BY <3>1 DEF RowIsOfTheHolder, OverlapNeedsLateFailure, WithinLease
    <2>7. CASE ~Begin(q) /\ ~Claim(q) /\ ~Complete(q) /\ ~Fail(q)
      <3>1. receipt' = receipt
        BY <1>4, <2>7, RowFacts
      <3> QED
        BY <2>2, <2>3, <2>7, <3>1 DEF RowIsOfTheHolder, OverlapNeedsLateFailure
    <2> QED
      BY <2>4, <2>5, <2>6, <2>7
  <1> QED
    BY <1>1, <1>2, <1>3, <1>4 DEF Next, Own

-----------------------------------------------------------------------------
(* Theorems.                                                               *)

LEMMA InitIInv == Init => IInv
  <1>. SUFFICES ASSUME Init PROVE IInv
    OBVIOUS
  <1>1. TypeOK
    BY InitTypeOK
  <1>2. \A q \in Requests : req[q].phase = "idle" /\ req[q].now = 0
    BY DEF Init, Idle
  <1>3. clock = 0 /\ receipt.status = "none" /\ ~acked
    BY DEF Init, NoReceipt
  <1> QED
    BY <1>1, <1>2, <1>3
    DEF IInv, OneIsHeard, ClosedMeansHandled, RowIsAccountedFor, KnowsTheRow, RowIsOfTheHolder,
        AcknowledgedIsAccountedFor, OverlapNeedsLateFailure, InFlightNow, WithinLease, AtWork

\* The invariant holds in every state, for any number of deliveries, bodies,
\* mishaps and ticks.
THEOREM Invariance == Spec => []IInv
  <1>1. IInv /\ [Next]_vars => IInv'
    <2>. SUFFICES ASSUME IInv, [Next]_vars PROVE IInv'
      OBVIOUS
    <2>1. TypeOK'
      BY NextTypeOK DEF IInv
    <2> QED
      BY <2>1, HearingStep, ClosedStep, RowStep, AcknowledgedStep, KnowledgeStep, LeaseStep DEF IInv
  <1> QED
    BY <1>1, InitIInv, PTL DEF Spec

\* The variables keep their types.
THEOREM TypeCorrect == Spec => []TypeOK
  <1>1. IInv => TypeOK
    BY DEF IInv
  <1> QED
    BY <1>1, Invariance, PTL

\* An event Shopify sends no more was handled, is being handled, or was lost
\* by a death at work or by a failure nobody heard.
THEOREM NoSilentLoss == Spec => []AcknowledgedIsAccountedFor
  <1>1. IInv => AcknowledgedIsAccountedFor
    BY DEF IInv
  <1> QED
    BY <1>1, Invariance, PTL

\* Two deliveries are at work within their leases only after a late failure.
THEOREM LeasesExclude == Spec => []OverlapNeedsLateFailure
  <1>1. IInv => OverlapNeedsLateFailure
    BY DEF IInv
  <1> QED
    BY <1>1, Invariance, PTL

\* No step writes a processed row again.
THEOREM ClosedForGood == Spec => ProcessedIsFinal
  <1>1. IInv /\ [Next]_vars => [receipt.status = "PROCESSED" => UNCHANGED receipt]_vars
    <2>. SUFFICES ASSUME IInv, [Next]_vars, receipt.status = "PROCESSED" PROVE receipt' = receipt
      OBVIOUS
    <2>1. ASSUME NEW q \in Requests, Own(q) PROVE receipt' = receipt
      <3>1. ~Begin(q) \/ receipt' = receipt
        BY DEF Begin
      <3>2. ~Claim(q) \/ receipt' = receipt
        BY DEF Claim, Unchanged, IInv, KnowsTheRow
      <3> QED
        BY <2>1, <3>1, <3>2, RowFacts, ClosingFacts DEF IInv
    <2> QED
      BY <2>1, DeliverFacts DEF Next, Own, Tick, vars, IInv
  <1> QED
    BY <1>1, Invariance, PTL DEF Spec, ProcessedIsFinal
=============================================================================
