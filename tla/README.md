# Verification of vendor-register

vendor-register is a Shopify marketplace application. Sellers list products in
one shop; the application keeps a ledger for each seller, follows the orders'
webhooks, keeps refund channels apart and pays the sellers out. This directory
holds TLA+ modules of the parts where money is counted and where processes
overlap, the TLC configurations that check them on small instances, and proofs
of the most important properties for instances of any size.

Contents

1. The system
2. The modules and how they correspond to the code
3. The runs
4. Fairness
5. What is proved
6. Disagreements between code and documents
7. What is not modelled

## 1. The system

The application is a Node server (React Router) on PostgreSQL through Prisma.
Several server processes may run; nothing is kept in memory between requests,
so every component's state is rows. Three facts shape all the concurrency:

- A plain Prisma call commits by itself. `$transaction` is READ COMMITTED
  unless the code asks for more. Only some operations ask for Serializable and
  retry on P2034 (payout claims and completions, the direct refund, governance).
  What is read before a transaction is not seen again inside it.
- An `update` with a condition (`updateMany` with a status in `where`) is a
  compare-and-set; an `update` by id alone is not.
- Shopify delivers a webhook at least once, in no particular order, and again
  when it hears no 2xx answer in time. Operators' forms can be sent twice.

### Inventory

The paths are below `src/app/services/` unless they say otherwise. "TLA+" names
the module that models the component; why the others have none is in section 7.

| Component | State | Operations | What is hard | TLA+ |
|---|---|---|---|---|
| Seller payout runs (`sellerPayments/payouts`) | `PayoutRun`, `LedgerEntry`, the seller's standing and recipient | create, approve, claim, manual transfer in two steps, Wise transfer in five requests, poll | lost answers, stale polls, death between writes, edits of the recipient between approval and transfer, runs sharing one balance | `PayoutRuns`, `PayoutPromise` |
| Shopify webhook inbox (`shopifyWebhookInbox`) | `ShopifyWebhookReceipt` | begin, claim a failed or stale receipt, complete, fail | redelivery while the first delivery runs, lease of ten minutes, late writes | `ShopifyWebhookInbox` |
| Order settlements (`sellerPayments/settlements`) | `LedgerEntry`, `SellerOrder`, `SalesCreditOffset`, seller status | paid, refund, cancelled, dispute opened and won | reads outside the transaction, events in any order, statements that commit one by one | `OrderSettlements` |
| Refund channels (`paymentOperations/refunds`, `directCustomerRefund`) | `OrderRefundGuard`, `PaymentRefundOperation`, `DirectCustomerRefund` | observe, confirm, mark applied, prepare and complete a direct refund | two channels for one order, repeated webhooks against confirmations | `RefundChannels` |
| Sales credit reservations (`sellerPayments/salesCredits`) | `SalesCreditOffset` | authorise, mark, release; expiry by time | sum and insert without a lock; release against capture | `CheckoutReservations`; reversal in `OrderSettlements` |
| Storefront checkout (`vendorStorefront`, `draftOrderCheckout`) | checkout evidence, offsets, pilot claim, draft orders at Shopify | prepare, create the draft order, record, release on failure | failure after the draft order exists, death in between | `CheckoutReservations` |
| Domestic pilot (`domesticMarketplacePilot`) | `DomesticMarketplacePilot` | prepare, activate, claim, order created, complete, block | block against claim; writes by id of what was checked before | `CheckoutReservations` |
| Withdrawal email outbox (`withdrawalEmailOutbox`) | `WithdrawalEmailOutbox`, mail log, events | claim, send, retry, hold, release | lock of five minutes, late results, a hold set meanwhile | `WithdrawalEmails` |
| Withdrawal requests (`withdrawals/`) | `WithdrawalRequest`, status history | submit, move status, record completion, decide refund | status checked before the transaction | status in `WithdrawalEmails` |
| Direct returns (`withdrawalDirectReturns/`) | requests, return groups, line positions, actual refund events | initialise, instruct, ship, review, reconcile refunds and cancellations | allocation of refunds outside a transaction, death between writes | `ReturnReconciliation` |
| Operational controls (`operationalControls`, `operationalReadiness`, `shopifyAppControlLoss`) | `OperationalControl`, `PlatformOperationalControl` | emergency stop, recovery by a second person, email holds, hold on loss of control | many external writes between the state changes, one metadata column for all holds | `PurchaseStop`; email holds also in `WithdrawalEmails` |
| Watchdog, launch guard (`saleEligibilityWatchdog`, `domesticAutonomousLaunchGuard`, `src/scripts/sale-eligibility-watchdog-agent.mjs`) | none of their own | check, stop purchases | take an answer "already stopped" for protection | callers in `PurchaseStop` |
| Sale eligibility, checkout gate (`saleEligibility*`, `marketplaceCheckoutGate`) | projections, metafields, publications | evaluate, project, compare, backfill | database and Shopify drift apart | shop control and policy in `PurchaseStop` |
| Checkout validation (`src/extensions/marketplace-purchase-control`) | none | pure function of cart and metafields | boundary cases | its verdict, `OnSale`, in `PurchaseStop` |
| Limited launch (`komojuLimitedLaunch*`) | `KomojuLimitedLaunchControl`, a metafield | record, evaluate, refresh | two refreshes, database and metafield apart | no |
| Governance (`marketplaceGovernance`) | settlement controls, batches, adjustments, incidents | review, prepare batch, adjust | serializable throughout | seller review in `PayoutRuns` |
| Seller accounts (`sellerPayments/sellerAccounts`) | `Seller`, recipients, Stripe accounts | apply, approve, edit recipient | recipient edits against payouts | recipient edits in `PayoutRuns` |
| Stripe webhook (`sellerPayments/stripeWebhook`) | `StripeEvent` | deduplicate, handle by type | the row stands before the handling | no |
| Shadow reports, ledger repair (`settlements/shadow`, `payouts/repair`) | reads the ledger; repair entries | compare, repair overage | repeated repair | no |
| Payment sync (`paymentOperations/sync`, `dashboard`) | `MarketplaceOrder`, payment attempts, bank settlements | sync, classify, match | repeated sync | no |
| Payout evidence, order quarantine and integrity, product sync | evidence rows, cases, products | import, tag and hold, upsert | partial failure at Shopify | the quarantine of an order in `CheckoutReservations` |
| Vendor pages and authentication (`vendorManagement/`, `vendorAuthentication`) | sessions, vendor rows | forms, codes | little: single rows | no |
| Shipping rates, quotes, pricing (`shipping*`, `carrierShippingRates`, `src/app/utils`) | none, configuration | pure computation | boundaries of bands and weights | no |
| Markets and compliance, readiness, release, monitor, probe, privacy | reports, attestations, heartbeats | inspect, record | run lock with a time to live | no |
| Routes and pages (`src/app/routes`, `src/app/components`) | none | authenticate, parse, call a service, render | the order of calls in the webhook routes | the calls, in the modules' start actions |

### How the components meet

A webhook route authenticates, takes the receipt of its event in the inbox and
runs its handler. The refund route first observes the refund (`RefundChannels`)
and, if that allows it, runs the settlement (`OrderSettlements`), then marks the
operation and the guard. The settlements write `LedgerEntry`; the payout runs
sum `LedgerEntry` under their own signs and reserve what open runs will take.
Disputes and operators put a seller under review, which keeps payout runs from
being created, approved and claimed. A checkout reserves, before its draft order
exists, what the paid order's settlement relies on later: the pilot's slot or a
sales credit. A withdrawal writes mails into the outbox and reserves units of
the order's lines, which refunds and cancellations reported by webhooks take
from. The operational controls reach into the others: a hold on e-mail stops the
outbox's worker, a stop of sales closes the shop at Shopify. The operators' pages
call the same services without an inbox, so confirmations, direct refunds,
executions and stops can be sent twice and overlap with webhooks.

### What makes each component correct

- *Payout runs.* Money that left the platform is booked or still reserved; a
  debit stands for money that was sent; the money goes where the approver saw it
  go; two persons are behind each payment; a run pays at most once; runs
  together never pay more than sales brought in.
- *Inbox.* An event is closed only when it was handled; an acknowledged event is
  accounted for; a closed one stays closed; two handlers overlap only in known
  circumstances; redelivery always ends.
- *Settlements.* An event books once; refunds, cancellation and holds stay
  within what was paid; the seller order tells the ledger's story; a sales
  credit moves once each way; a held seller is under review.
- *Refund channels.* The customer is paid by one channel; a direct refund is
  whole; marks follow bookings; manual refunds are reviewed by a person.
- *Checkout.* The pilot sells once; a buyer who has an invoice has the
  reservation behind it; captured credits and payouts stay within the sales.
- *Outbox.* A mail the provider took is recorded once and is not sent again once
  it is recorded as sent; a hold lets at most the mail through that was being
  sent; every mail is sent, held, cancelled or dead in the end, and a hold that
  was lifted lets its mails go.
- *Direct returns.* No unit is reserved by two withdrawals; a refund is allocated
  once, and to no request more than it reserved.
- *Purchase stop.* A stop reported as active closes every shop; rows and shops
  agree when nothing is under way; what it took off sale comes back; a watchdog
  that is told that sales are stopped finds them stopped; who stops, or holds
  e-mail, is not who resumes.

## 2. The modules and how they correspond to the code

Each module's header says which files it follows and what one step is. In all
of them a statement that commits by itself is a step, a serializable transaction
is one step, and a READ COMMITTED transaction is split where an other process
can commit in between with effect. `PROJECT.json` maps every definition to its
lines.

**`PayoutRuns`** (`payouts/runs`, `common`, `wise`). The state: `run`, a row per
payout run; `ledger`, the credited and reversed sums and for each run the number
of its `payout_paid` and `payout_returned` entries; `seller`, its standing,
withheld amounts and recipient version; `call`, the requests in flight; `wise`,
the transfers as Wise has them. `CreatePayoutRun`, `ApprovePayoutRun`,
`StartManualTransfer` and `CompleteManualTransfer` are the handlers, one
serializable transaction each. `executeWisePayoutRun` takes five steps:
`BeginExecuteWise` (the claim), `CreateWiseTransfer`, `RecordWiseTransfer`,
`FundWiseTransfer`, `RecordWiseFunding`; at each request the answer may be lost,
and then `FailWiseExecution` is the catch block. A poll reads at Wise
(`BeginSyncWise`) and applies what it read later (`ApplyWiseStatus`). `Crash`
drops a request at any point. `CreditSale`, `ReverseSale`, `ReviewSeller`,
`EditRecipient` and `WiseStep` are the surroundings. One seller: every query of
the code filters by seller.

**`PayoutPromise`** is the abstract specification: a run is approved, its money
goes out once, it may come back once. `PayoutRuns` implements it under the
mapping at the end of that module.

**`ShopifyWebhookInbox`** (`shopifyWebhookInbox`). The receipt of one event, the
deliveries in flight, a clock for the lease, and histories (`acked`, `accepted`,
`lost`, `lateFail`) that only the properties read. `Deliver` is Shopify;
`Begin`, `ReadExisting` and `Claim` are the statements of
`beginShopifyWebhookProcessing`; `HandlerReturns` and `HandlerThrows` are what
the handler does to the inbox; `Complete`, `Fail` and `CompleteThrows` the
closing writes. `Die` and `GiveUp` are mishaps: a process that dies, Shopify
that stops waiting. The code never deletes a receipt, so the branch for a row
that vanished after the insert's conflict is not modelled.

**`OrderSettlements`** (`settlements/paid`, `refund`, `cancelled`, `dispute`,
`common` and the offset functions of `shared`). One order of one seller. A job
is a run of a handler and goes through phases: look for an entry of the event,
summarise the ledger, read the offset, write its row, read the seller order,
commit. The offset's row lock is `offsetLock`: an update of a row that another
open transaction has written waits for it, and looks again after it. The
dispute's handler has no transaction; each of its statements is a step. `Abort`
ends a job anywhere, undoing an open transaction. The ledger is kept as the
number of entries of each event and the sum of each type, which is all the code
reads of it.

**`RefundChannels`** (`paymentOperations/refunds`, `directCustomerRefund`). The
guard of one order, an operation per provider refund, sums of the ledger, and
jobs: webhooks, confirmations, cancellations. The webhook reserves the guard,
marks a conflict, looks for an applied operation, upserts the operation, settles
and marks; a confirmation claims an operation and settles; `PrepareDirectRefund`
and `CompleteDirectRefund` are the two serializable steps of the other channel.
The settlement here is the short form of `OrderSettlements`' refund and
cancellation: check, summarise, book.

**`WithdrawalEmails`** (`withdrawalEmailOutbox`, `setEmailClassHold` of
`operationalReadiness`, `withdrawals/lifecycle` and `completion`). The outbox's
rows (`box`), what the provider has taken (`accepted`), the mail log (`logged`,
`direct`), the hold and its controls, the status of the one withdrawal request,
and a record per process. A run of a worker releases held mails (`Revalidate`,
`ApplyVerdict`), picks the oldest mail that is due (`SelectMail`), looks at the
hold (`ReadControl`), claims by compare-and-set (`ClaimMail`), sends (`SendMail`)
and records success in a transaction with the event, log and status
(`BeginRecord`, `RecordSent`) or a failure by id (`RecordFailed`). `SetHold`,
`RecordHold`, `LiftHold`, `RecordLift` are the request on the hold;
`ReadStatus`, `WriteStatus` an operator's move along `AllowedTransitions`;
`Notify` a mail sent past the outbox. Locks run out and retries come due at any
time. The bounds exercise acknowledgements and status mails; the branch of
completion mails is modelled and proved, but the instances have none.

**`CheckoutReservations`** (`vendorStorefront`, `draftOrderCheckout`,
`domesticMarketplacePilot`, `salesCredits`, and the part of `settlements/paid`
that settles against a reservation). With the pilot on, a checkout prepares
evidence, claims the slot, creates the draft order, marks the permit and
accepts; with it off it reads the credit available, authorises an offset,
creates the draft and accepts. `DraftFails` covers an answer lost after Shopify
made the draft; `UndoPilot`, `UndoEvidence`, `UndoCredit` and `ReleaseCredit` are
the release on failure, `Crash` a death. Operators prepare and activate with a
read and a later write by id, and block. Paid orders are settled, quarantined or
captured in two steps each. `faults` is a history of what a reservation does not
survive; a property that exempts some of them names which.

**`ReturnReconciliation`** (`withdrawalDirectReturns/`). One order line; each
request reserves units in one serializable transaction (`Reserve`), a review
decides its group, instructions are sent. A refund's webhook reads lines and
position (`BeginReconcile`) and records its share request by request
(`RecordRefund`), recomputing each group's state in three statements
(`ReadGroup`, `CorrectGroup`, `WriteRequest`); a cancellation goes the same way.
`faults` names a group that was opened again (`reopened`), a delivery that
shares out once more what another had begun (`again`), and a share of units
another refund took meanwhile (`overlap`). Each occurs, and without exempting it
the property it is named in fails.

**`PurchaseStop`** (`operationalReadiness`, with `saleEligibilityWatchdog`,
`marketplaceCheckoutGate`, `shopifyAppControlLoss`, the readiness page and the
agent script). `platform` is the platform's one row, `stops` the operational
controls, `shop` each shop at Shopify, `request` what each request is doing. A
stop goes `CreateStop`, `SetHold`, `MarkActivating`, `BlockShop` and
`UnpublishShop` for each shop, `FinishPlatform`, `FinishStop`; a recovery
`BeginRecovery`, `ClaimStop`, `StartRecovery`, `MarkRecovering`,
`InspectValidation`, `RestoreShop`, `AllowShop`, `ReleaseHold`, `CloseStop`,
`MarkIdle`, or `FailStop`, `FailPlatform`. Nothing runs in a transaction, so each
is a step, and each call to Shopify may fail before or after it took effect.
Beside them: `WatchdogRests` and `StopIsStanding` (a stop that is not made because
one stands), the holds on e-mail, the activation of the checkout validation,
`SyncCatalog`, `AgentStops`, `LoseControl`, `Die`. `events` is a history of what a
stop does not survive. The products of a shop move together and are all eligible;
the calls about the validation are folded into `BlockShop` and
`InspectValidation`; the agent's veto and its unpublishing are one step.

Whoever synchronises products (`syncMarketplaceCheckoutPolicyForProduct`) makes
them governed and unpublishes them while the platform's hold is on, and leaves
them where they are published while it is off (`Synced`); a call that fails has
done any part of it and may have unpublished what it could not verify (`Broken`).
The stop calls it, the recovery calls it as if the hold were off, and so do
others, who record nothing. The activation of the validation goes
`BackfillShop` (it ends there if a product fails), `ReadVisited`,
`SyncVisitedShop`: it synchronises, reads the row, and writes what it makes of the
copy to the shop. `SyncCatalog` stands for the synchronisation page, the
catalogue's regular synchronisation, the product webhooks, the pages that approve
or publish a product and the activation of the gate. Either may come between
`RestoreShop` and `ReleaseHold`, and take off sale what the recovery has put back
(event `undone`); or while the hold is on and no stop has recorded the products
yet, before `UnpublishShop` or after `LoseControl`, so that no recovery knows where
they were published (event `forestalled`). The model checker reaches both, in
`RowsAgree` and `RecoveryRepublishes`, once their exemption is taken out.

**`MC…`** modules give small values and symmetry; **`…Proofs`** modules hold the
theorems of the module they extend. Definitions whose comment says *Mutant* are
deliberately wrong variants of a definition next to them; no specification uses
them. They serve to show that each property notices a plausible mistake.

What the models take for granted:

- `OrderSettlements`: sellers' orders are written
  (`SELLER_ORDER_SHADOW_WRITE_ENABLED`), the flags for several sellers per order
  are off, and a payment is either accepted or refused (`RefusePaid`); the
  quarantine of a refused one happens at Shopify and is left out. So is the
  repair of reversal overage. The release of an offset at the same time as its
  capture is in `CheckoutReservations`.
- `RefundChannels`: the order was paid through KOMOJU, has its marketplace order
  row from the start and `KOMOJU_PAYMENT_OPERATIONS_ENABLED` is on; orders of
  Shopify Payments and of unknown providers take no part in it.
- `PayoutRuns`: the Stripe Connect transfer (`executePayoutRun`) validates a
  method that no new run can have, and is left out.
- `CheckoutReservations`: the pilot's switch does not change while the program
  runs; a capture's "now" is the time of the order.
- `PurchaseStop`: one platform row exists from the start; every request of the
  watchdogs passes the primary shop. Two synchronisations of one product do not
  overlap: each reads the hold and then writes, as one step (section 7).

## 3. The runs

| Run | Instance | States | What it shows |
|---|---|---|---|
| `payout_wise` | one run, two operators, three requests in flight, two edits of the recipient | 124,616 | Types; `OutgoingMoneyIsBooked`, `DebitsFollowMoney`, `ApprovedRecipientIsPaid`; `PayoutRuns` implements `PayoutPromise` |
| `payout_funds` | two runs of one or two yen, one request, three yen of sales | 702,504 | `NeverOverpays`: open runs hold back their amounts in every status |
| `inbox` | three deliveries, two bodies, lease of two ticks, four ticks, two mishaps | 354,817 | Types; `AcknowledgedIsAccountedFor`, `ProcessedIsFinal` |
| `inbox_ends` | two deliveries, one body, two mishaps, under fairness | 40,628 | `EventComesToAnEnd`, `EventuallyHandled` |
| `orders` | two jobs at a time, five in all, refunds of one and two yen, a dispute, a payment of two yen with a sales credit of one | 263,061 | Types; `CreditMovesOnce` for every overlap; `EachEventBooksOnce`, `ReversalsWithinPayment`, `ShadowFollowsLedger`, `CreditReturnedWithLastYen` as long as jobs do not overlap |
| `refunds` | two jobs at a time, five in all, a manual refund of half and another of all | 166,909 | Types; `OneChannelPays`, `AppliedIsBooked` |
| `refunds_payout` | two jobs | counterexample | see section 6 |
| `emails` | one acknowledgement, two workers, one hold, one operator, two attempts, one death | 1,466,344 | Types; `DeliveryRecordedOnce`, `HoldLetsOneThrough`, `SentIsFinal` |
| `emails_end` | two mails, one worker, one hold, two attempts, one death, under fairness | 364,611 | `QueuedMailComesToAnEnd`, `RecoveredHoldReleasesMail` |
| `checkout` | two checkouts, two keys of credits, two permits, two operators, a balance of one, six revisions | 2,248,297 | Types; `PilotSellsOnce`, `InvoiceIsReserved`, `CreditIsCovered` |
| `returns` | two requests, two refunds, two processes, two units, two decisions | 2,467,668 | Types; `ReservationsWithinPurchase`, `AllocationsAreCovered` |
| `stop` | two requests of two operators and a watchdog, one shop, two stops, two recoveries of each, two mishaps | 1,797,088 | Types; `ActiveMeansStopped`, `RowsAgree`, `RecoveryRepublishes`, `ToldProtectedIsStopped`, `OneStopIsResumedByAnother`, `EmailHoldIsLiftedByAnother` |

Some definitions are stated in the modules and proved (section 5), and stand in
no run, because a stronger property or a sibling of theirs does:
`CreatorNeverPaysAlone`, `OneTransferPerRun`, `OverlapNeedsLateFailure`,
`HoldPutsSellerUnderReview`, `DirectRefundIsWhole`, `ManualRefundIsReviewed`,
`CompletedGuardHasRefund`, `ClosedStaysClosed`, `RefusedStaysRefused`.

Why the bounds are enough to meet the interesting cases:

- *Payouts.* With three requests a run can be executed, polled and polled again
  with answers of different age; two edits of the recipient put one before and
  one after the claim. The second run exists to compete for the balance; three
  yen against amounts of one and two let both fit, or only one.
- *Inbox.* Three deliveries are the fewest with which one overruns its lease, a
  second takes over, and a third comes in after the first one's late failure.
  Four ticks are two leases. A second body exercises the hash conflict. The run
  for liveness has two deliveries, because it is without symmetry, and two
  mishaps, with which both the loss at work and the unheard failure occur.
- *Orders.* Five jobs are a payment, both refunds, the cancellation and one
  more: a replay or the dispute. Amounts of one and two out of two or three let
  a refund leave something, take the rest, and ask for more than there is. The
  dispute's amount of 0 is the payload without an amount, which the code reads
  as everything that can be held.
- *Refunds.* Five jobs are two webhooks, a replay, a confirmation and a second
  confirmation or the cancellation, while the direct refund takes its two steps
  at any time.
- *E-mails.* Two workers and a lock that runs out at any time give the late
  result of either kind; two attempts give a retry and then the dead letter; the
  request on the hold and a mail sent past the outbox run beside them. The run
  for liveness has a second mail, behind the first in the queue, and one worker.
- *Checkout.* Two checkouts compete for one slot, or for a balance that covers
  one of them; two permits give the second one that is prepared early; two
  operators overlap in their reads; six revisions let a permit be prepared,
  activated, claimed, given back and claimed again, and an operator act between.
- *Returns.* Two requests of one or two units out of two let both reserve or one
  take all; two refunds and two processes give a delivery that died, its repeat,
  and another refund between; two decisions are a cancellation and a reopening.
- *Stop.* Two requests let a recovery run against a stop, a second recovery, a
  hold on e-mail or a visit. Two stops are one after the other in one shop. Two
  mishaps are a failure and a death, a hold set and lifted, or a synchronisation
  and a visit. The same properties were checked with two shops and one stop
  (367,505 states); two stops of two shops are beyond five minutes, and are the
  case `twoStops` exempts (section 6).

`CHECK_DEADLOCK FALSE` stands in the configurations whose counters are bounded
and where everything may be done; the payout runs never stop and are checked for
deadlock.

## 4. Fairness

Safety runs assume none. `inbox_ends` uses `FairSpec` of `ShopifyWebhookInbox`:

- weak fairness of each request's next step: the server goes on with a request
  it has begun, unless it dies (a mishap, and there are finitely many);
- weak fairness of the next delivery: Shopify resends an event it has heard no
  2xx answer for. The code relies on nothing else for retries;
- strong fairness of the handler's success: a handler that is run again and
  again succeeds some time. Without it no inbox could promise anything.

Nothing is assumed of the clock. `EventuallyHandled` is conditional on there
being no mishap, because with one the code can lose an event: a redelivery
within the lease is acknowledged as in progress. `AcknowledgedIsAccountedFor`
says exactly when.

`emails_end` uses `FairSpec` of `WithdrawalEmails`: the worker is called again
and again (the scheduled route calls it), what a request has begun goes on while
its process lives, and time passes, so that locks run out and retries come due.
Nothing makes an operator act: a mail may be held for ever, and
`RecoveredHoldReleasesMail` speaks of holds that were lifted.

The other modules state no liveness. No operation of the code ends a draft,
resumes a run that is `processing`, takes an operation out of `APPLYING_LEDGER`
again, or takes up a stop that died; the people who do it are under no fairness.

## 5. What is proved

The theorems hold for every value of the constants that satisfies the modules'
assumptions: any number of runs, operators, requests, refunds, disputes and
jobs, and any amounts. The assumptions are types, non-emptiness and finiteness
(`AmountsAssumption`: amounts are positive; `NoneAssumption` and
`SettlementAssumption`: the null is no member of the sets it is compared with;
`ChannelAssumption`: there is a refund, amounts are natural, the payment is
positive; `RunsAreFinite` and `OrderIsFinite`: a seller has finitely many payout
runs, an order finitely many withdrawal requests and refunds, which every table
of the database has).

*Sums.* Three of the modules add up amounts over sets, with the community
modules' folds. Their values are functions over the subsets of a finite set, so
what the proofs need of them is shown without an induction rule: of the subsets
for which a claim fails one is minimal (strict inclusion on the finite subsets is
well founded), and taking one element out of it gives a smaller one. From this
come `SumWithout` (any element may be taken out first), `SumAgrees`,
`SumMonotonic`, `SumOfSubset` and `SumWithOne` of `ReturnReconciliationProofs`,
and their siblings in `PayoutRunsProofs`. They stand in each module that needs
them, next to the sums they speak of.

**`PayoutRunsProofs`**: `TypeCorrect`, `OutgoingMoneyBooked`, `DebitsAreFollowed`,
`RecipientIsApproved`, `TwoPeoplePay`, `AtMostOneTransfer`, `PromiseKept`. None of
these is inductive as it stands: a request in flight may hold an old answer. The
invariant `IInv` adds what a request may hold (`CallInv`: the answer
`outgoing_payment_sent` is evidence that the transfer got at least that far, an
answer never contradicts Wise's present state by more than later steps can
explain), that one request at a time executes a run (`OneExecution`), and what a
status tells of the transfer and the entries (`ManualBooks`, `WiseBooks`,
`TransferIsSound`, `PeopleDiffer`). The proof goes action by action, with frame
lemmas for the runs and requests an action leaves alone. The refinement follows
from `IInv` and one lemma per action that says which step of `PayoutPromise` it
is.

`NobodyIsOverpaid` (`NeverOverpays`) needs one more part. A claim is covered at
the moment it is made, but a reversal may come a moment later, so that a balance
above zero is not invariant. What lasts is `Covered`: the amounts of all runs that
were claimed and whose money has not come back are within what sales credited. A
claim adds its run, and finds it covered, because each run already exposed is
held back or debited in the balance the claim reads (`ExposedIsBooked`); every
other step exposes no further run, and credits never shrink.

**`OrderSettlementsProofs`**: `TypeCorrect`, `CreditIsNotMovedTwice`,
`HeldSellerIsReviewed`. The credit's entry is looked for only after the row of
the offset is written, so the argument is about the lock: exactly the job that
has written the row holds it (`LockIsHeld`), only a holder creates an entry, and
it creates the first one (`CreatesFirstEntry`); what it did not create it has
found (`CaptureIsBooked`).

`EventsBookOnce`, `NothingBeyondPayment`, `SellerOrderAgrees` and
`CreditComesBackAtTheEnd` are about handlers that run one at a time, deaths
included, and follow from one invariant, `OneByOne` (`BooksAgreeOneByOne`): one
job at most is at work (`Alone`); the books agree with one another, entry by
entry (`BooksAgree`); and the job at work knows where it stands (`JobKnows`): which
entries it has found missing, what it has booked so far of its event, and by how
much the seller order and the credit are behind the ledger until it has written
them. A job that dies leaves books that agree; the next one of the same event
finds what is booked and goes on from there.

**`RefundChannelsProofs`**: `TypeCorrect`, `CustomerIsRefundedOnce`,
`DirectRefundReturnsAll`, `MarkedAfterBooking`, `ReviewComesFirst`,
`GuardCompletedByRefund`. The argument: no operation and no settling job exists
before the guard (`GuardComesFirst`), so the direct refund, whose transaction
looks for operations and finds the guard absent or its own, meets none; a
webhook that finds the guard of a direct refund settles nothing
(`WebhooksYield`); and once the direct refund is booked nothing is left for a
confirmation to reverse (`DirectRefundIsAlone`). `ConfirmationIsRecorded`,
`SettledAfterReview` and `MarksFollowBooks` carry what a job has done over to
the statement that relies on it.

**`ShopifyWebhookInboxProofs`**: `TypeCorrect`, `NoSilentLoss`, `LeasesExclude`,
`ClosedForGood`, for any lease, bodies and number of deliveries. The argument:
Shopify listens to one delivery at a time; a row marked as being processed has
somebody who answers for it, a request still at work, a loss on record, or a
delivery that will be heard; and the claim is a compare-and-set on status and
time of the last attempt, so that a row within its lease belongs to the attempt
that holds the lease, unless a late failure took it away.

**`WithdrawalEmailsProofs`**: `TypeCorrect`, `DeliveriesAreRecordedOnce`,
`OneMailSlipsThrough`, `SentMailIsDone`, `ClosedRequestStays`. A delivery is
recorded only of a mail the provider has taken and while its unique event is
missing; a process that is about to send has seen the hold off before it picked
the mail, so it has sent none since the hold was set; a mail with one worker at
work on it is not recorded as sent, so only an overlap can take it back;
operators follow the table, which leads out of no closed status.

**`CheckoutReservationsProofs`**: `TypeCorrect`, `TheSlotSellsOnce`,
`InvoicesAreReserved`, `RefusalsStand`, `TheCreditIsCovered`. `IInv` adds to the
types which steps the switch allows (`StepsOfTheSwitch`), that a marked permit is
marked by the order of its claim (`MarkedByItsOrder`), that a checkout about to
create its draft holds its permit or credit (`HoldsReservation`), that a used
permit leaves no other live (`OnePermitIsUsed`), that each draft has a permit of
its own (`DraftsHaveTheirPermit`), and that debits, locks and payouts together
are covered (`LocksAreCovered`), which needs that keys are finitely many. Two
drafts would have two permits, both used, which cannot be.

**`PurchaseStopProofs`**: `TypeCorrect`, `ActiveStopsStop`, `ResumedByAnother`,
`LiftedByAnother`, for any number of shops, operators, requests and stops, and any
bounds. `IInv` adds that a control is in the hands of one request at a time, in
the state that request left it in (`ControlIsHeld`, `DecidedByOne`), that who
recovers a stop is not who made it (`RecovererIsAnother`), that one stop stands
unless `twoStops` happened (`OneStands`), what a stop has closed before each of
its steps (`StopsHold`), and who set the hold on e-mail (`EmailSetterIsKnown`).
So a recovery that opens something is alone (`OpeningIsAlone`) and undoes no stop
that holds; every other step keeps what is closed (`KeepingStops`) and leaves the
controls in the hands they are in (`GoingOnKeepsControl`) or moves the one its
request decides (`MovingKeepsControl`). With several shops two stops can stand at
once, which the `stop` run's one shop does not reach: the theorems cover it.

`RowAndShopsAgree`, `RecoveredIsPublished` and `ToldStoppedIsStopped` speak of
states in which nothing is under way, and so need to know of every request at
work what it will leave behind. `Agreement` says that of each: while a control
stands, the row and the shops follow it, or a request that is still deciding it
leads them there (`StandingShows`, `WorkShows`); when none stands all is open or
somebody is about to open it (`NothingShows`); a hold, and a state of the row,
stand only for a stop (`HoldStands`, `StateStands`); a failure in part is on record
(`FailuresShow`); what a stop withdrew its recovery has still to bring back
(`StopsWithdraw`, `SavedByAStop`); and who was told of a stop was told of one that
stands (`ToldTruly`). A synchronisation at any moment is one case of each part
(`SyncDoes`, `DoSync`): under the hold it puts nothing on sale, so that what stops
have closed stays closed without exemption; what it takes off sale was recorded
by a stop that stands and is not being recovered, or the event says otherwise. No
part exempts an event that a property resting on it does
not exempt.

**`ReturnReconciliationProofs`**: `TypeCorrect`, `UnitsAreReservedOnce`,
`RefundsAreSharedOutOnce`, for any number of requests, refunds, processes and
units. Even the types need an argument: a share is allocated only to a request
that has a line, because a delivery counts open units of lines alone (`AtWork`),
and a correction never writes a decision to a group without a line, because such
a group is read as new. A reservation subtracts the units of requests whose
*request* is not cancelled, while the property counts *groups* that are not;
`CancelledAgree` says that a request is cancelled, or about to be written so, only
while its group is, unless a group was opened again, so the reservation subtracts
no less than the property counts (`ReserveFits`). For the refunds, `SharesFit`
shows that shares handed out first come first served add up to the refund at
most, by taking the last request away; `SharesAreKnown` says that a delivery has
recorded exactly its shares at the requests it is done with. So if it knows all
events of the refund, their sum is at most that of the shares
(`RecordedWithinRefund`), and a share of units that are still open fits the line
(`RecordedWithinLine`).

The assumptions are those of the modules: the null differs from every key,
checkout, permit, mail and control; balances and bounds are natural; keys and
checkouts are finite; mails are numbered; the request on the hold and the one
that sends past the outbox are no workers; operators are no machines, and the
primary shop is a shop; a seller's runs, and an order's requests and refunds,
are finite.

Each `IInv` was checked as an invariant of TLC's instances before it was proved.

Every safety invariant, action property and refinement that a passing run checks
is stated by a theorem. Only model-checked are the liveness properties,
`EventComesToAnEnd`, `EventuallyHandled`, `QueuedMailComesToAnEnd` and
`RecoveredHoldReleasesMail`: fairness is stated with `WF_` and `SF_`, hence with
`ENABLED`, which is out of the prover's reach. The counterexample of section 6 is
TLC's by nature.

## 6. Disagreements between code and documents

One has a run that ends in a counterexample, and a finding in `PROJECT.json` with
the quoted line:

- *A direct refund does not reduce what is paid out* (`refunds_payout`). Its
  entry's type is a reversal to the settlements and has no sign in the payout
  balance.

The others were met as counterexamples while modelling. Their properties are not
kept as runs; the passing properties name their circumstances as exemptions
(`lateFail`, `overlapped`, `faults`, `events`), without which they fail.

- *Reconciliation without a transfer id.* When the first request to Wise fails
  the run is put into `reconciliation_required` without a transfer id
  (`wise.server.js:583`), while its page asks the operator to check the transfer
  of that id (`app.payout-runs.$id.jsx:311`, `docs/wise-payout-design.md:13`).
  The amount stays reserved, so no money is at risk.
- *A debit after a return.* Two polls overlap; the older answer, "sent", is
  applied after "refunded" (`wise.server.js:192`) and debits the seller for
  money that is back, until somebody polls again
  (`docs/wise-payout-design.md:15`).
- *An active lease is reclaimed.* A request that overran its lease fails the
  receipt under its successor (`shopifyWebhookInbox.server.js:226`), and a third
  delivery takes it at once, against the inbox's own test.
- *A refund and a cancellation both debit.* Both summarise the ledger before
  either has booked (`refund.server.js:409`). The code's test covers the two one
  after the other.
- *A refund handled before its payment is lost.* It finds nothing to reverse and
  ends as handled (`refund.server.js:138`); the payment is then credited in full
  (`docs/production-go-live-checklist.md:221`).
- *The pilot's slot goes back although the draft exists.* The checkout releases
  it whenever the draft order call throws (`vendorStorefront.server.js:2472`),
  also when Shopify had made the draft (`draftOrderCheckout.server.js:805-852`).
  `docs/domestic-marketplace-pilot.md:92-94` says that then "the slot remains
  reserved or order-created and must not be retried blindly". Fault `release`.
- *A second permit activated late.* Whether the pilot is used up is asked when a
  permit is prepared, not when it is activated, so that a permit prepared early
  sells a second time (`docs/domestic-marketplace-pilot.md:8-13`). Fault `permit`.
- *Protected by a stop that blocked nothing.* The watchdog takes
  `purchase_stop_already_active` for protection
  (`saleEligibilityWatchdog.server.js:203-216`), and a stop is answered so as soon
  as a control's row stands (`operationalReadiness.server.js:584-593`). If the
  request that made it died before it blocked a shop, every later pass reports
  that sales are protected while the shop sells;
  `docs/production-go-live-checklist.md:379-381` says that the watchdog writes the
  shop's control as `BLOCKED`. Event `death`.
- *Who set a hold is forgotten.* Each hold writes the row's whole metadata from
  the copy it read (`operationalReadiness.server.js:243-247`, `286-300`,
  `852-867`). A hold on e-mail set in between loses who set it, who then may lift
  it alone; `tests/services/operationalReadiness.server.test.js:1112` says "the
  operator who activates a hold cannot approve its release". Event `lostEmail`.
- *Two stops at once.* A stop of the whole platform takes its key from the first
  of the shops, or from the watchdog's primary one
  (`operationalReadiness.server.js:542-566`). Two stand under two keys; a recovery
  asks only who made the newest (`973-1001`), so that who made the older one
  recovers the newer and opens the sales he stopped, against
  `docs/marketplace-governance.md:44`. Event `twoStops`.

## 7. What is not modelled

- Reads that decide nothing, formatting, pages, mail texts, authentication.
- The readiness inspectors, reports, the monitor and the probe: long
  conjunctions of data checks whose result a person reads. Their run lock is the
  only concurrency in them.
- Sale eligibility and governance checks: whether one product may be sold is
  data; the models keep the outcome (a payment is refused, a product is
  eligible). Synchronisations of one product that overlap are left out with it.
  One that reads the projection superseded by another answers ok and leaves the
  policy as it was (`stale_projection_job`, `marketplaceCheckoutGate.server.js:1219-1243`),
  where a stop takes the product for withdrawn; one that loses the compare-and-set
  at Shopify fails (`1274-1292`); one that read the hold before it changed writes
  by what it read. Which of them wins is decided by revisions of the projection
  that the models do not carry.
- The launch guard's conditions and the launch control: sums over dates and
  amounts of all orders, written by a refresh without a guard.
- The checkout validation beyond `OnSale`, shipping rates, pricing, exchange
  rates: pure functions of data, for which a reference definition would be the
  code again.
- Vendor pages and vendor authentication: forms over single rows; access control
  is not a subject of this project.
- The Stripe webhook and Stripe Connect transfers: not on the path of Shopify
  orders or of new payout runs. The hazard of its event row is recorded.
- Payment synchronisation, payout evidence, product sync, ledger repair,
  shadow reports: each payload replaces its row, or one person works on one row.
- Of direct returns: shipments, addresses, the mails, the money of contracts and
  groups, the shipping part of refunds, and
  `releaseWithdrawalLineReservations`, which nothing calls.

Hazards that were met and that no property covers:

- A draft or approved payout run that nobody goes on with reserves its amount
  for ever, and an operation whose confirmation died stays `APPLYING_LEDGER`: no
  operation takes either up again.
- A dispute reported as won before it is reported as opened releases nothing,
  and the hold that follows is never released.
- A cancellation that runs while a direct refund is completed reverses what the
  direct refund has reversed.
- Refunded units are deducted from a line that still holds them reserved
  (`initialize.server.js:58`), so that a later request may find too few.
- A blocked permit keeps its claim; its order, paid later, fails to complete the
  pilot at every delivery. The payout of a seller takes no account of credits
  that are authorised and not captured (fault `payout`), and two discounted drafts
  may share one idempotency key and one debit.
- Completion mails of a request that was closed by hand stay held; mails held
  without a control leave only with a later lift; the oldest held mail keeps the
  newer ones waiting while its control is not recovered; a second successful delivery after a lock ran out can end as a dead
  letter (`docs/withdrawal-setup.md:60-64`).
- A stop that died in `ACTIVATING`, or a recovery that died or was refused, can be
  recovered by nobody and blocks every later stop under its key; a hold set on
  loss of control has no control to recover, and only a stop and its recovery
  lift it.

`PROJECT.json` lists every component with its status, and the hazards with the
properties that cover them.
