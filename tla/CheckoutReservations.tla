------------------------ MODULE CheckoutReservations ------------------------
(***************************************************************************)
(* What a storefront checkout reserves before it asks Shopify for a draft  *)
(* order, and what becomes of the reservation.                             *)
(*                                                                         *)
(* src/app/services/vendorStorefront.server.js (both checkout actions),    *)
(* draftOrderCheckout.server.js, domesticMarketplacePilot.server.js and    *)
(* sellerPayments/salesCredits.server.js, and the part of the paid order's *)
(* handler that settles against the reservation                            *)
(* (sellerPayments/settlements/paid.server.js).                            *)
(*                                                                         *)
(* With the pilot switched on a checkout claims the one slot of the one    *)
(* active pilot permit; with the pilot off it may authorise sales credit   *)
(* of the buyer, who is a seller here, and the draft order is discounted   *)
(* by it.  The two exclude each other (a pilot checkout with sales credit  *)
(* is refused), so the switch, read from the environment at each request,  *)
(* is chosen once, in Init.                                                *)
(*                                                                         *)
(* The claim and its release are guarded updates; preparing a permit and   *)
(* releasing or capturing a credit are a read followed by an update by id, *)
(* and other requests run between the two.  Prices, carts, terms, the      *)
(* permit's dates and the readiness checks are left out: they refuse a     *)
(* request and change nothing, so every request here may also not go on.   *)
(***************************************************************************)
EXTENDS Naturals, FiniteSets, FiniteSetsExt

CONSTANTS
    Checkouts,    \* requests to check out, each with a reference of its own
    Keys,         \* idempotency keys of sales credit requests
    Pilots,       \* pilot permits, one per third-party store and product
    Operators,    \* requests of the pilot's admin page
    Balance,      \* matured sales of the buying seller, in units of a credit
    MaxRevisions, \* bound: operators act while the permits' revisions sum to less
    None          \* SQL's NULL

ASSUME NoneIsNoKey == None \notin Keys
ASSUME BalanceIsNat == Balance \in Nat
ASSUME RevisionBoundIsNat == MaxRevisions \in Nat
ASSUME NoneIsNoCheckout == None \notin Checkouts
ASSUME NoneIsNoPilot == None \notin Pilots
ASSUME CheckoutsAreFinite == IsFiniteSet(Checkouts)
ASSUME KeysAreFinite == IsFiniteSet(Keys)

VARIABLES
    enabled,      \* the pilot's switch
    pilot,        \* rows of domestic_marketplace_pilots
    desk,         \* requests of the admin page, between their read and their write
    checkout,     \* requests to check out: next step, permit, credit's key, Shopify's answer
    evidence,     \* status of the checkout's evidence row
    draft,        \* draft orders at Shopify
    order,        \* the paid order's event: not handled, being handled, its result
    offset,       \* rows of sales_credit_offsets, by idempotency key
    debits,       \* sales_credit_offset_captured entries of each offset
    paidOut,      \* payouts of the buying seller
    faults        \* history: what has happened that a reservation does not survive

vars == <<enabled, pilot, desk, checkout, evidence, draft, order, offset, debits, paidOut, faults>>
pilotVars == <<pilot, desk>>
creditVars == <<offset, debits, paidOut>>

-----------------------------------------------------------------------------
(* Rows *)

\* DRAFT, the column's default, is never written; "NONE" is the missing row.
PilotStatuses == {"NONE", "PREPARED", "ACTIVE", "RESERVED", "ORDER_CREATED", "COMPLETED", "BLOCKED"}
Live == {"ACTIVE", "RESERVED", "ORDER_CREATED"}
NoPilot == [status |-> "NONE", claim |-> None, draft |-> None, order |-> None, revision |-> 0]

OffsetStatuses == {"none", "authorized", "released", "captured", "expired"}
NoOffset == [status |-> "none", late |-> FALSE]

Idle == [job |-> "idle", pilot |-> None, revision |-> 0]

Steps == {"idle", "claim", "authorize", "send", "mark", "accept", "done",
          "undo", "undoEvidence", "undoCredit", "ended"}
Begun == [step |-> "idle", pilot |-> None, key |-> None, created |-> FALSE]
Over == {"done", "ended"}

Init ==
    /\ enabled \in BOOLEAN
    /\ pilot = [p \in Pilots |-> NoPilot]
    /\ desk = [o \in Operators |-> Idle]
    /\ checkout = [c \in Checkouts |-> Begun]
    /\ evidence = [c \in Checkouts |-> "none"]
    /\ draft = [c \in Checkouts |-> "none"]
    /\ order = [c \in Checkouts |-> "none"]
    /\ offset = [k \in Keys |-> NoOffset]
    /\ debits = [k \in Keys |-> 0]
    /\ paidOut = 0
    /\ faults = {}

-----------------------------------------------------------------------------
(* The pilot's admin page *)

Revisions == MapThenSumSet(LAMBDA p : pilot[p].revision, Pilots)

Revised(row) == [row EXCEPT !.revision = @ + 1]

\* An order of any permit uses up the pilot.
Consumed(row) ==
    \/ row.status \in {"ORDER_CREATED", "COMPLETED"}
    \/ row.draft # None
    \/ row.order # None

Editable(row) == row.status \in {"NONE", "PREPARED", "BLOCKED"}

\* Mutant of Prepared: the old claim stays on the row.
PreparedKeepingClaim(row) == Revised([row EXCEPT !.status = "PREPARED"])

\* The write of a preparation: by id, whatever the row has become since.
Prepared(row) ==
    Revised([row EXCEPT !.status = "PREPARED", !.claim = None, !.draft = None])

BeginPrepare(o, p) ==
    /\ enabled
    /\ desk[o].job = "idle"
    /\ Revisions < MaxRevisions
    /\ \A q \in Pilots : ~Consumed(pilot[q])
    /\ Editable(pilot[p])
    /\ desk' = [desk EXCEPT ![o] = [job |-> "prepare", pilot |-> p, revision |-> pilot[p].revision]]
    /\ UNCHANGED <<enabled, pilot, checkout, evidence, draft, order, creditVars, faults>>

\* Where no row was found one is created, which a row created since refuses.
FinishPrepare(o) ==
    LET p == desk[o].pilot IN
    /\ desk[o].job = "prepare"
    /\ IF desk[o].revision = 0 /\ pilot[p].revision > 0
       THEN UNCHANGED <<pilot, faults>>
       ELSE /\ pilot' = [pilot EXCEPT ![p] = Prepared(@)]
            /\ faults' = IF Editable(pilot[p]) THEN faults ELSE faults \union {"prepare"}
    /\ desk' = [desk EXCEPT ![o] = Idle]
    /\ UNCHANGED <<enabled, checkout, evidence, draft, order, creditVars>>

BeginActivate(o, p) ==
    /\ enabled
    /\ desk[o].job = "idle"
    /\ pilot[p].status # "NONE"
    /\ Revisions < MaxRevisions
    /\ \A q \in Pilots \ {p} : pilot[q].status \notin Live
    /\ desk' = [desk EXCEPT ![o] = [job |-> "activate", pilot |-> p, revision |-> pilot[p].revision]]
    /\ UNCHANGED <<enabled, pilot, checkout, evidence, draft, order, creditVars, faults>>

\* The unique index domestic_marketplace_pilots_single_live_slot_key allows
\* one live row in all; the update asks for the status and the revision read.
Activatable(p, revision) ==
    /\ pilot[p].status = "PREPARED"
    /\ pilot[p].revision = revision
    /\ \A q \in Pilots \ {p} : pilot[q].status \notin Live

\* Whether another permit has had its order is asked only when preparing.
FinishActivate(o) ==
    LET p == desk[o].pilot IN
    /\ desk[o].job = "activate"
    /\ IF Activatable(p, desk[o].revision)
       THEN /\ pilot' = [pilot EXCEPT ![p] = Revised([@ EXCEPT !.status = "ACTIVE"])]
            /\ faults' = IF \E q \in Pilots : Consumed(pilot[q])
                         THEN faults \union {"permit"} ELSE faults
       ELSE UNCHANGED <<pilot, faults>>
    /\ desk' = [desk EXCEPT ![o] = Idle]
    /\ UNCHANGED <<enabled, checkout, evidence, draft, order, creditVars>>

\* Mutant of Blockable: a permit can be taken back after its order.
BlockableOrdered(row) == row.status \in {"PREPARED", "ACTIVE", "RESERVED", "ORDER_CREATED"}

Blockable(row) == row.status \in {"PREPARED", "ACTIVE", "RESERVED"}

BlockPilot(p) ==
    /\ enabled
    /\ Blockable(pilot[p])
    /\ Revisions < MaxRevisions
    /\ pilot' = [pilot EXCEPT ![p] = Revised([@ EXCEPT !.status = "BLOCKED"])]
    /\ faults' = IF pilot[p].status = "RESERVED" THEN faults \union {"block"} ELSE faults
    /\ UNCHANGED <<enabled, desk, checkout, evidence, draft, order, creditVars>>

-----------------------------------------------------------------------------
(* A checkout reserves *)

GoTo(c, s) == checkout' = [checkout EXCEPT ![c].step = s]

\* Evidence of other checkouts that is older than a day is expired on the way;
\* a request does not last that long, so only that of finished ones.
Stale == {d \in Checkouts : evidence[d] = "PREPARED" /\ checkout[d].step \in Over}

BeginPilotCheckout(c) ==
    /\ enabled
    /\ checkout[c].step = "idle"
    /\ \E p \in Pilots, old \in SUBSET Stale :
         /\ {q \in Pilots : pilot[q].status = "ACTIVE"} = {p}
         /\ checkout' = [checkout EXCEPT ![c].step = "claim", ![c].pilot = p]
         /\ evidence' = [d \in Checkouts |-> IF d \in old THEN "EXPIRED"
                                             ELSE IF d = c THEN "PREPARED"
                                             ELSE evidence[d]]
    /\ UNCHANGED <<enabled, pilotVars, draft, order, creditVars, faults>>

\* Mutant of Claimable: a reserved slot is claimed over.
ClaimableTaken(row) == row.status \in {"ACTIVE", "RESERVED"}

Claimable(row) == row.status = "ACTIVE" /\ row.claim = None

ClaimPilot(c) ==
    LET p == checkout[c].pilot IN
    /\ checkout[c].step = "claim"
    /\ Claimable(pilot[p])
    /\ pilot' = [pilot EXCEPT ![p] = Revised([@ EXCEPT !.status = "RESERVED", !.claim = c])]
    /\ GoTo(c, "send")
    /\ UNCHANGED <<enabled, desk, evidence, draft, order, creditVars, faults>>

\* Another checkout was first, the permit has been taken back, or its dates
\* are over.
PilotIsTaken(c) ==
    /\ checkout[c].step = "claim"
    /\ evidence' = [evidence EXCEPT ![c] = IF @ = "PREPARED" THEN "FAILED" ELSE @]
    /\ GoTo(c, "ended")
    /\ UNCHANGED <<enabled, pilotVars, draft, order, creditVars, faults>>

\* Credit of the seller that no offset, no capture and no payout has taken.
Debited == Cardinality({k \in Keys : debits[k] > 0})
Locked == Cardinality({k \in Keys : offset[k].status = "authorized" /\ ~offset[k].late})
\* Mutant of Available: credit other checkouts have locked is not deducted.
AvailableUnlocked(n) == Debited + paidOut + n <= Balance

Available(n) == Debited + Locked + paidOut + n <= Balance

\* The first half of authorizeSalesCreditOffset: the same key again while its
\* offset stands is a duplicate and shares the offset; a new one needs credit.
\* A key that has been used up, or too little credit, refuses the checkout.
ReadCredit(c, k) ==
    /\ ~enabled
    /\ checkout[c].step = "idle"
    /\ \/ offset[k].status = "authorized"
       \/ offset[k].status = "none" /\ Available(1)
    /\ checkout' = [checkout EXCEPT
         ![c].step = IF offset[k].status = "none" THEN "authorize" ELSE "send",
         ![c].key = k]
    /\ UNCHANGED <<enabled, pilotVars, evidence, draft, order, creditVars, faults>>

\* The second half, in the same READ COMMITTED transaction: the key is unique,
\* the sum is not looked at again.
AuthorizeCredit(c) ==
    LET k == checkout[c].key IN
    /\ checkout[c].step = "authorize"
    /\ IF offset[k].status = "none"
       THEN /\ offset' = [offset EXCEPT ![k].status = "authorized"]
            /\ GoTo(c, "send")
            /\ faults' = IF Available(1) THEN faults ELSE faults \union {"overlap"}
       ELSE /\ GoTo(c, "ended")
            /\ UNCHANGED <<offset, faults>>
    /\ UNCHANGED <<enabled, pilotVars, evidence, draft, order, debits, paidOut>>

-----------------------------------------------------------------------------
(* The draft order *)

\* Shopify creates the draft, whatever becomes of its answer.
CreateDraft(c) ==
    /\ checkout[c].step = "send"
    /\ draft[c] = "none"
    /\ draft' = [draft EXCEPT ![c] = "open"]
    /\ UNCHANGED <<enabled, pilotVars, checkout, evidence, order, creditVars, faults>>

\* draftOrderCheckout returns: the draft is created and prepared for the buyer.
DraftIsCreated(c) ==
    /\ checkout[c].step = "send"
    /\ draft[c] # "none"
    /\ checkout' = [checkout EXCEPT ![c].step = IF enabled THEN "mark" ELSE "accept",
                                    ![c].created = TRUE]
    /\ UNCHANGED <<enabled, pilotVars, evidence, draft, order, creditVars, faults>>

\* draftOrderCheckout throws: refused before the draft, or the answer of the
\* creation or of the preparation for the buyer is lost or an error.
DraftFails(c) ==
    /\ checkout[c].step = "send"
    /\ GoTo(c, "undo")
    /\ UNCHANGED <<enabled, pilotVars, evidence, draft, order, creditVars, faults>>

Claimed(row, c) == row.status = "RESERVED" /\ row.claim = c

\* A conflict, or every try failing, fails the checkout; a try that failed may
\* have been written.
MarkPilot(c) ==
    LET p == checkout[c].pilot IN
    /\ checkout[c].step = "mark"
    /\ \/ /\ Claimed(pilot[p], c)
          /\ pilot' = [pilot EXCEPT ![p] = Revised([@ EXCEPT !.status = "ORDER_CREATED", !.draft = c])]
          /\ GoTo(c, "accept") \/ GoTo(c, "undo")
       \/ GoTo(c, "undo") /\ UNCHANGED pilot
    /\ UNCHANGED <<enabled, desk, evidence, draft, order, creditVars, faults>>

\* The buyer's acceptance of import warnings is stored, and the invoice handed
\* out; or storing it fails and the checkout with it.
Accept(c) ==
    /\ checkout[c].step = "accept"
    /\ \/ GoTo(c, "done")
       \/ GoTo(c, "undo")
    /\ UNCHANGED <<enabled, pilotVars, evidence, draft, order, creditVars, faults>>

-----------------------------------------------------------------------------
(* A failed checkout gives back what it reserved *)

Released(row) == Revised([row EXCEPT !.status = "ACTIVE", !.claim = None])

Releasable(row, c) == Claimed(row, c) /\ row.draft = None

\* Nothing to release, or a release that fails and is passed over.
UndoPilot(c) ==
    LET p == checkout[c].pilot IN
    /\ enabled
    /\ checkout[c].step = "undo"
    /\ \/ /\ ~checkout[c].created
          /\ Releasable(pilot[p], c)
          /\ pilot' = [pilot EXCEPT ![p] = Released(@)]
          /\ faults' = IF draft[c] = "none" THEN faults ELSE faults \union {"release"}
       \/ UNCHANGED <<pilot, faults>>
    /\ GoTo(c, "undoEvidence")
    /\ UNCHANGED <<enabled, desk, evidence, draft, order, creditVars>>

UndoEvidence(c) ==
    /\ checkout[c].step = "undoEvidence"
    /\ evidence' = [evidence EXCEPT ![c] = IF @ = "PREPARED" THEN "FAILED" ELSE @]
    /\ GoTo(c, "ended")
    /\ UNCHANGED <<enabled, pilotVars, draft, order, creditVars, faults>>

\* releaseSalesCreditOffset reads the offset ...
UndoCredit(c) ==
    /\ ~enabled
    /\ checkout[c].step = "undo"
    /\ GoTo(c, IF offset[checkout[c].key].status = "authorized" THEN "undoCredit" ELSE "ended")
    /\ UNCHANGED <<enabled, pilotVars, evidence, draft, order, creditVars, faults>>

\* ... and releases it by id.
ReleaseCredit(c) ==
    /\ checkout[c].step = "undoCredit"
    /\ offset' = [offset EXCEPT ![checkout[c].key].status = "released"]
    /\ GoTo(c, "ended")
    /\ UNCHANGED <<enabled, pilotVars, evidence, draft, order, debits, paidOut, faults>>

\* The process dies: nothing is given back.
Crash(c) ==
    /\ checkout[c].step \notin {"idle"} \union Over
    /\ GoTo(c, "ended")
    /\ UNCHANGED <<enabled, pilotVars, evidence, draft, order, creditVars, faults>>

-----------------------------------------------------------------------------
(* The order, and the seller's credit, outside the checkout *)

\* The invoice of a draft is paid; staff can send one the checkout gave up.
PayDraft(c) ==
    /\ draft[c] = "open"
    /\ draft' = [draft EXCEPT ![c] =
                   IF ~enabled /\ offset[checkout[c].key].late THEN "paidLate" ELSE "paid"]
    /\ UNCHANGED <<enabled, pilotVars, checkout, evidence, order, creditVars, faults>>

\* The offset's thirty minutes are over: it no longer counts as locked.
LockExpires(k) ==
    /\ offset[k].status = "authorized"
    /\ ~offset[k].late
    /\ offset' = [offset EXCEPT ![k].late = TRUE]
    /\ UNCHANGED <<enabled, pilotVars, checkout, evidence, draft, order, debits, paidOut, faults>>

\* A payout run draws on the ledger's balance, which offsets do not reduce.
PayOut ==
    /\ ~enabled
    /\ Debited + paidOut < Balance
    /\ paidOut' = paidOut + 1
    /\ faults' = IF Available(1) THEN faults ELSE faults \union {"payout"}
    /\ UNCHANGED <<enabled, pilotVars, checkout, evidence, draft, order, offset, debits>>

-----------------------------------------------------------------------------
(* The paid order is settled against its reservation *)

IsPaid(c) == draft[c] \in {"paid", "paidLate"}

\* The receipt of the paid order's event is open: never handled, or failed.
\* A refused order is done with; refused for its credit it is sent again.
Unhandled(c) == IsPaid(c) /\ order[c] = "none"

EvidenceStands(c) == evidence[c] \in {"PREPARED", "ORDER_CAPTURED"}

\* completeDomesticMarketplacePilotForPaidOrder inside the settlement's
\* transaction: an order no permit names is settled without one, an order of
\* a permit that has not recorded its draft throws, and nothing is settled.
SettlePilotOrder(c) ==
    LET named == {p \in Pilots : pilot[p].claim = c} IN
    /\ enabled
    /\ Unhandled(c)
    /\ EvidenceStands(c)
    /\ \A p \in named : pilot[p].status = "ORDER_CREATED" /\ pilot[p].order = None
    /\ pilot' = [p \in Pilots |->
                   IF p \in named
                   THEN Revised([pilot[p] EXCEPT !.status = "COMPLETED", !.order = c])
                   ELSE pilot[p]]
    /\ evidence' = [evidence EXCEPT ![c] = "ORDER_CAPTURED"]
    /\ order' = [order EXCEPT ![c] = "settled"]
    /\ UNCHANGED <<enabled, desk, checkout, draft, creditVars, faults>>

\* Evidence that failed or expired: the order is quarantined.  On the way its
\* seller order is recorded, which marks the evidence as captured ...
BeginQuarantine(c) ==
    /\ enabled
    /\ Unhandled(c)
    /\ ~EvidenceStands(c)
    /\ evidence' = [evidence EXCEPT ![c] = "ORDER_CAPTURED"]
    /\ order' = [order EXCEPT ![c] = "quarantining"]
    /\ UNCHANGED <<enabled, pilotVars, checkout, draft, creditVars, faults>>

\* ... then the case is opened and the order held at Shopify, which may fail
\* half way: the event is failed and comes again.
FinishQuarantine(c) ==
    /\ order[c] = "quarantining"
    /\ order' = [order EXCEPT ![c] = "refused"]
    /\ UNCHANGED <<enabled, pilotVars, checkout, evidence, draft, creditVars, faults>>

QuarantineFails(c) ==
    /\ order[c] = "quarantining"
    /\ order' = [order EXCEPT ![c] = "none"]
    /\ faults' = faults \union {c}
    /\ UNCHANGED <<enabled, pilotVars, checkout, evidence, draft, creditVars>>

\* captureSalesCreditOffset reads the offset: one that is captured already is
\* a duplicate, whichever order captured it; one that is neither captured nor
\* authorized refuses the order for now.
BeginCapture(c) ==
    LET status == offset[checkout[c].key].status IN
    /\ ~enabled
    /\ Unhandled(c)
    /\ \/ status = "captured" /\ order' = [order EXCEPT ![c] = "settled"]
       \/ status = "authorized" /\ order' = [order EXCEPT ![c] = "capturing"]
    /\ UNCHANGED <<enabled, pilotVars, checkout, evidence, draft, creditVars, faults>>

\* Its writes, by id.  "Now" is the time the order was paid, not the time the
\* event is handled.
FinishCapture(c) ==
    LET k == checkout[c].key IN
    /\ order[c] = "capturing"
    /\ IF draft[c] = "paidLate"
       THEN /\ offset' = [offset EXCEPT ![k].status = "expired"]
            /\ order' = [order EXCEPT ![c] = "none"]
            /\ UNCHANGED <<debits, faults>>
       ELSE /\ offset' = [offset EXCEPT ![k].status = "captured"]
            /\ debits' = [debits EXCEPT ![k] = 1]
            /\ order' = [order EXCEPT ![c] = "settled"]
            /\ faults' = IF offset[k].status = "authorized" /\ ~offset[k].late
                         THEN faults ELSE faults \union {"capture"}
    /\ UNCHANGED <<enabled, pilotVars, checkout, evidence, draft, paidOut>>

-----------------------------------------------------------------------------

CheckoutStep(c) ==
    \/ BeginPilotCheckout(c) \/ ClaimPilot(c) \/ PilotIsTaken(c)
    \/ (\E k \in Keys : ReadCredit(c, k)) \/ AuthorizeCredit(c)
    \/ CreateDraft(c) \/ DraftIsCreated(c) \/ DraftFails(c)
    \/ MarkPilot(c) \/ Accept(c)
    \/ UndoPilot(c) \/ UndoEvidence(c) \/ UndoCredit(c) \/ ReleaseCredit(c)
    \/ Crash(c)

OrderStep(c) ==
    \/ PayDraft(c) \/ SettlePilotOrder(c)
    \/ BeginQuarantine(c) \/ FinishQuarantine(c) \/ QuarantineFails(c)
    \/ BeginCapture(c) \/ FinishCapture(c)

DeskStep(o) ==
    \/ \E p \in Pilots : BeginPrepare(o, p) \/ BeginActivate(o, p)
    \/ FinishPrepare(o) \/ FinishActivate(o)

Next ==
    \/ \E c \in Checkouts : CheckoutStep(c) \/ OrderStep(c)
    \/ \E o \in Operators : DeskStep(o)
    \/ \E p \in Pilots : BlockPilot(p)
    \/ \E k \in Keys : LockExpires(k)
    \/ PayOut

Spec == Init /\ [][Next]_vars

-----------------------------------------------------------------------------
(* Properties *)

\* A permit's claim and draft follow its status: an unclaimed permit names no
\* checkout, a reserved one names one and no draft, an ordered one names the
\* draft of the checkout it is claimed by.
RowIsCoherent(row) ==
    /\ row.status \in {"NONE", "PREPARED", "ACTIVE"} => row.claim = None
    /\ row.status = "RESERVED" => row.claim # None
    /\ row.status \in {"ORDER_CREATED", "COMPLETED"} => row.draft = row.claim /\ row.claim # None
    /\ row.status \in {"NONE", "PREPARED", "ACTIVE", "RESERVED"} => row.draft = None

\* The types of the variables, permits that make sense as rows, and no live
\* permit beside another (the database's unique index).
TypeOK ==
    /\ enabled \in BOOLEAN
    /\ pilot \in [Pilots -> [status : PilotStatuses, claim : Checkouts \union {None},
                             draft : Checkouts \union {None},
                             order : Checkouts \union {None}, revision : Nat]]
    /\ \A p \in Pilots : RowIsCoherent(pilot[p])
    /\ \A p, q \in Pilots : pilot[p].status \in Live /\ pilot[q].status \in Live => p = q
    /\ desk \in [Operators -> [job : {"idle", "prepare", "activate"},
                               pilot : Pilots \union {None}, revision : Nat]]
    /\ checkout \in [Checkouts -> [step : Steps, pilot : Pilots \union {None},
                                 key : Keys \union {None}, created : BOOLEAN]]
    /\ evidence \in [Checkouts -> {"none", "PREPARED", "FAILED", "EXPIRED", "ORDER_CAPTURED"}]
    /\ draft \in [Checkouts -> {"none", "open", "paid", "paidLate"}]
    /\ order \in [Checkouts -> {"none", "quarantining", "capturing", "settled", "refused"}]
    /\ offset \in [Keys -> [status : OffsetStatuses, late : BOOLEAN]]
    /\ debits \in [Keys -> 0..1]
    /\ paidOut \in Nat
    /\ faults \subseteq {"prepare", "block", "release", "permit", "overlap", "payout", "capture"} \union Checkouts

\* The pilot has one draft order at Shopify, ever, through all its permits,
\* unless a permit was blocked while a checkout held it, a preparation wrote
\* over a permit that had gone on, a checkout that could not tell whether its
\* draft exists gave the slot back, or a second permit was prepared before the
\* first had its order and activated after.  Nothing else makes a second one.
PilotSellsOnce ==
    enabled /\ faults \intersect {"prepare", "block", "release", "permit"} = {}
        => \A c, d \in Checkouts : draft[c] # "none" /\ draft[d] # "none" => c = d

\* A buyer who has the invoice has the reservation: the permit names that
\* draft, or an overlapping preparation has wiped it; the credit is locked,
\* captured or expired, or another checkout with the same key gave it back.
InvoiceIsReserved ==
    \A c \in Checkouts : checkout[c].step = "done" =>
        \/ enabled /\ \/ "prepare" \in faults
                      \/ \E p \in Pilots : /\ pilot[p].status \in {"ORDER_CREATED", "COMPLETED"}
                                           /\ pilot[p].draft = c
        \/ ~enabled /\ \/ offset[checkout[c].key].status \in {"authorized", "captured", "expired"}
                       \/ \E d \in Checkouts \ {c} : checkout[d].key = checkout[c].key /\ checkout[d].step = "ended"

\* An order whose checkout failed or went stale is not settled later, unless
\* its quarantine broke off after marking the evidence.
RefusedStaysRefused ==
    [][\A c \in Checkouts :
          /\ order[c] = "refused" => order'[c] = "refused"
          /\ (order[c] # "settled" /\ order'[c] = "settled" /\ enabled /\ c \notin faults
                => evidence[c] = "PREPARED")]_vars

\* Payouts and captured credits stay within the sales they are taken from,
\* unless two authorizations overlapped, a payout ignored a lock, or a capture
\* came after its lock.
CreditIsCovered ==
    faults \intersect {"overlap", "payout", "capture"} = {} => Debited + paidOut <= Balance
=============================================================================
