---------------------------- MODULE PurchaseStop ----------------------------
(***************************************************************************)
(* The emergency stop of all sales and its recovery by a second person.    *)
(*                                                                         *)
(* src/app/services/operationalReadiness.server.js: a stop inserts an      *)
(* operational control under a unique key, sets the hold on the platform's *)
(* one row, blocks every shop and takes its products out of sale           *)
(* (applyPlatformCheckoutEmergencyHold); a recovery claims the control by  *)
(* compare-and-set, puts the products back, allows the shops, and lifts    *)
(* the hold (recoverPlatformCheckoutEmergencyHold).                        *)
(*                                                                         *)
(* Each statement and each call to Shopify is a step of its own: nothing   *)
(* here runs in a transaction.  Others meet on the same rows: the          *)
(* watchdogs, which ask for a stop when their checks fail, the holds on    *)
(* e-mail, kept in the same row and metadata, the activation of the        *)
(* checkout validation, which brings a shop's products in line with the    *)
(* hold and then copies the row's state to it, the synchronisation of the  *)
(* catalogue, which does the first of these, the agent outside the         *)
(* application, which vetoes sales at Shopify itself, and the hold set     *)
(* when the app loses its control of the shop.                             *)
(*                                                                         *)
(* A shop's products move together and are all eligible, and synchronising *)
(* them with the hold is one step.  Which product is eligible is left out, *)
(* and so are synchronisations of one product that overlap: one that finds *)
(* itself superseded answers ok and leaves the policy (stale_projection_   *)
(* job), one that loses the compare-and-set fails.                         *)
(***************************************************************************)
EXTENDS Integers, FiniteSets

CONSTANTS
    Shops,        \* shop domains with products on sale
    Primary,      \* SHOPIFY_PRIMARY_SHOP_DOMAIN, which the watchdogs pass on
    Staff,        \* operators of the readiness page
    Machines,     \* watchdog and launch guard: actors who stop sales and recover nothing
    Requests,     \* requests being handled
    MaxStops,     \* bound: operational controls
    MaxRevision,  \* bound: revisions of a control, two to each recovery
    MaxMishaps,   \* bound: failures, deaths, e-mail holds, visits, syncs, vetoes, losses of control
    None          \* SQL's NULL

ASSUME PrimaryIsShop == Primary \in Shops
ASSUME ActorsApart == Staff \intersect Machines = {}
ASSUME NoneIsNobody == None \notin Staff \union Machines \union Shops \union (1..MaxStops)
ASSUME BoundsAreNat == {MaxStops, MaxRevision, MaxMishaps} \subseteq Nat

VARIABLES
    platform,  \* the row GLOBAL of platform_operational_controls
    stops,     \* operational controls of type PURCHASE_STOP, in the order of requestedAt
    shop,      \* each shop as Shopify has it: control, veto, policy and publication of its products
    request,   \* what each request is doing
    mishaps,   \* failures, deaths, e-mail holds, visits, syncs, vetoes and losses so far
    emailSetter, \* history: who set the e-mail hold that stands
    assured,   \* history: a watchdog was told that the stop stands, and no recovery was or got under way
    events     \* history: what a stop does not survive

history == <<emailSetter, assured>>
vars == <<platform, stops, shop, request, mishaps, history, events>>

-----------------------------------------------------------------------------
(* Rows *)

Actors == Staff \union Machines
Ids == 1..MaxStops

\* States a recovery may start from, and those the watchdog takes for a stop.
Recoverable == {"ACTIVE", "PARTIAL_FAILURE", "RECOVERY_FAILED"}
Protecting == Recoverable \union {"ACTIVATING", "RECOVERY_REQUESTED", "RECOVERING"}
States == Protecting \union {"NONE", "RECOVERED"}

\* holdBy, emailBy: activatedBy in the row's metadata.
NoHold == [hold |-> FALSE, email |-> FALSE, state |-> "IDLE", stop |-> None,
           changedBy |-> None, holdBy |-> None, emailBy |-> None]

\* key: the shop of activeKey; saved: shops whose publications it recorded.
NoStop == [state |-> "NONE", key |-> None, by |-> None, revision |-> 0, saved |-> {}]

OpenShop == [control |-> "ALLOWED", veto |-> "CLEARED", direct |-> TRUE, published |-> TRUE]

\* look: what it will need of the platform's row it read; todo: shops still to go through;
\* seen: the control's state and revision as they were read; ok: nothing failed.
Resting == [at |-> "rest", by |-> None, stop |-> None, look |-> NoHold, todo |-> {},
            seen |-> <<"NONE", 0>>, ok |-> TRUE]

Init ==
    /\ platform = NoHold
    /\ stops = [c \in Ids |-> NoStop]
    /\ shop = [s \in Shops |-> OpenShop]
    /\ request = [r \in Requests |-> Resting]
    /\ mishaps = 0
    /\ emailSetter = None
    /\ assured = FALSE
    /\ events = {}

Standing == {c \in Ids : stops[c].key # None}
OnSale(s) == shop[s].control = "ALLOWED" /\ shop[s].veto # "BLOCKED" /\ shop[s].direct

At(r, here) == request[r].at = here
Put(r, row) == request' = [request EXCEPT ![r] = row]
GoOn(r, there) == Put(r, [request[r] EXCEPT !.at = there])
End(r) == Put(r, Resting)
PutStop(c, row) == stops' = [stops EXCEPT ![c] = row]
Mishap ==
    /\ mishaps < MaxMishaps
    /\ mishaps' = mishaps + 1

\* A call that answers counts nothing; one that fails is counted and remembered.
Answered(r) == UNCHANGED <<mishaps, events>>
Failed(r) ==
    /\ Mishap
    /\ events' = events \union {"failure"}

-----------------------------------------------------------------------------
(* The hold on the platform's row: read, then written from what was read *)

Activator(row) ==
    IF row.holdBy # None THEN row.holdBy ELSE IF row.hold THEN row.changedBy ELSE None
\* Mutant: whoever changed the row last is taken for the one who set the hold.
LastToChange(row) == row.changedBy
EmailActivator(row) ==
    IF row.emailBy # None THEN row.emailBy ELSE IF row.email THEN row.changedBy ELSE None

\* The columns of the other hold stay; the metadata of both is the copy's.
HoldSet(row, look, a) ==
    [row EXCEPT !.hold = TRUE, !.changedBy = a, !.holdBy = a, !.emailBy = look.emailBy]
HoldReleased(row, look, a) ==
    [row EXCEPT !.hold = FALSE, !.changedBy = a, !.holdBy = look.holdBy, !.emailBy = look.emailBy]
EmailSet(row, look, a) ==
    [row EXCEPT !.email = TRUE, !.changedBy = a, !.emailBy = a, !.holdBy = look.holdBy]
EmailReleased(row, look, a) ==
    [row EXCEPT !.email = FALSE, !.changedBy = a, !.emailBy = look.emailBy, !.holdBy = look.holdBy]

\* What a write from an older copy undoes.
LostEmail(r) == IF platform.emailBy # request[r].look.emailBy THEN {"lostEmail"} ELSE {}

HoldsSeen == [platform EXCEPT !.state = "IDLE", !.stop = None]
ReadRow(r, here, there) ==
    /\ At(r, here)
    /\ Put(r, [request[r] EXCEPT !.at = there, !.look = HoldsSeen])
    /\ UNCHANGED <<platform, stops, shop, mishaps, history, events>>

-----------------------------------------------------------------------------
(* The stop *)

\* The first shop of the products, in no particular order; the watchdogs' own.
KeysOf(a) == IF a \in Machines THEN {Primary} ELSE Shops
Taken(s) == \E c \in Ids : stops[c].key = s
Unused == {c \in Ids : stops[c].state = "NONE"}
Newest(c) == \A d \in Unused : c <= d

\* Mutant: the control does not say who asked for it.
CreateUnsignedStop(r, a) ==
    /\ At(r, "rest")
    /\ \E s \in KeysOf(a), c \in Unused :
          /\ ~Taken(s)
          /\ Newest(c)
          /\ PutStop(c, [NoStop EXCEPT !.state = "ACTIVATING", !.key = s])
          /\ Put(r, [Resting EXCEPT !.at = "hold", !.by = a, !.stop = c])
    /\ events' = events \union (IF Standing = {} THEN {} ELSE {"twoStops"})
    /\ UNCHANGED <<platform, shop, mishaps, history>>

CreateStop(r, a) ==
    /\ At(r, "rest")
    /\ \E s \in KeysOf(a), c \in Unused :
          /\ ~Taken(s)
          /\ Newest(c)
          /\ PutStop(c, [NoStop EXCEPT !.state = "ACTIVATING", !.key = s, !.by = a])
          /\ Put(r, [Resting EXCEPT !.at = "hold", !.by = a, !.stop = c])
    /\ events' = events \union (IF Standing = {} THEN {} ELSE {"twoStops"})
    /\ UNCHANGED <<platform, shop, mishaps, history>>

\* A recovery that is under way opens what the answer promises to be closed:
\* what a watchdog is told meanwhile does not count.
UnderRecovery == {"begin", "resume", "inspect", "restore", "allow", "release", "release!",
                  "recovered", "idle", "failing", "failing!"}
Crossing == \E q \in Requests : request[q].at \in UnderRecovery
Told == assured' = (assured \/ ~Crossing)

\* purchase_stop_already_active, which watchdog and guard take for protection.
StopIsStanding(r, a) ==
    /\ At(r, "rest")
    /\ a \in Machines
    /\ Taken(Primary)
    /\ Told
    /\ UNCHANGED <<platform, stops, shop, request, mishaps, emailSetter, events>>

\* Mutant: a hold that somebody once set counts as one that stands.
ProtectedOnce == platform.holdBy # None

\* already_protected: the watchdog asks for no stop.
Protected == platform.hold \/ platform.state \in Protecting
WatchdogRests(r, a) ==
    /\ At(r, "rest")
    /\ a \in Machines
    /\ Protected
    /\ Told
    /\ UNCHANGED <<platform, stops, shop, request, mishaps, emailSetter, events>>

SetHold(r) ==
    /\ At(r, "hold!")
    /\ LET row == HoldSet(platform, request[r].look, request[r].by)
       IN  /\ platform' = row
           /\ Put(r, [request[r] EXCEPT
                          !.at = "mark",
                          !.look = [NoHold EXCEPT !.holdBy = row.holdBy, !.emailBy = row.emailBy]])
    /\ events' = events \union LostEmail(r)
    /\ UNCHANGED <<stops, shop, mishaps, history>>

MarkActivating(r) ==
    /\ At(r, "mark")
    /\ platform' = [platform EXCEPT !.state = "ACTIVATING", !.stop = request[r].stop]
    /\ Put(r, [request[r] EXCEPT !.at = "block", !.todo = Shops])
    /\ UNCHANGED <<stops, shop, mishaps, history, events>>

Worked(r, s, good) ==
    Put(r, [request[r] EXCEPT !.todo = @ \ {s}, !.ok = @ /\ good])
RoundIsOver(r, here, there) ==
    /\ At(r, here)
    /\ request[r].todo = {}
    /\ Put(r, [request[r] EXCEPT !.at = there, !.todo = Shops])
    /\ UNCHANGED <<platform, stops, shop, mishaps, history, events>>

\* Blocks the shop and makes sure of its validation; either call may fail.
BlockShop(r, s) ==
    /\ At(r, "block")
    /\ s \in request[r].todo
    /\ \/ /\ shop' = [shop EXCEPT ![s].control = "BLOCKED"]
          /\ Worked(r, s, TRUE)
          /\ Answered(r)
       \/ /\ shop' \in {shop, [shop EXCEPT ![s].control = "BLOCKED"]}
          /\ Worked(r, s, FALSE)
          /\ Failed(r)
    /\ UNCHANGED <<platform, stops, history>>

\* Synchronising a shop's products with the hold: under it the policy becomes
\* MARKETPLACE_GOVERNED and they are unpublished; without it they may be sold,
\* where they still are published.  One that fails may have done any part, and
\* unpublishes what it could not verify.
Governed(s) == [shop EXCEPT ![s].direct = FALSE]
Direct(s) == [shop EXCEPT ![s].direct = TRUE]
Withheld(s, all) == [all EXCEPT ![s].published = FALSE]
Synced(s) == IF platform.hold THEN Withheld(s, Governed(s)) ELSE Direct(s)
Broken(s, policy) == {shop, policy, Withheld(s, shop), Withheld(s, policy)}
PartlySynced(s) == Broken(s, IF platform.hold THEN Governed(s) ELSE Direct(s))

\* Mutant: what was published is looked up after it was unpublished.
UnpublishedSince(s) == {}

\* Where the products were published is kept with the control, if all went well.
Unpublished(s) == IF shop[s].published THEN {s} ELSE {}
UnpublishShop(r, s) ==
    LET c == request[r].stop
    IN  /\ At(r, "unpublish")
        /\ s \in request[r].todo
        /\ \/ /\ shop' = Synced(s)
              /\ PutStop(c, [stops[c] EXCEPT !.saved = @ \union Unpublished(s)])
              /\ Worked(r, s, TRUE)
              /\ Answered(r)
           \/ /\ shop' \in PartlySynced(s)
              /\ Worked(r, s, FALSE)
              /\ Failed(r)
              /\ UNCHANGED stops
        /\ UNCHANGED <<platform, history>>

\* Mutant: the failures of the shops are not looked at.
VerdictAnyway(r) == "ACTIVE"
Verdict(r) == IF request[r].ok THEN "ACTIVE" ELSE "PARTIAL_FAILURE"

\* The metadata goes back to what it was when the hold was set.
FinishPlatform(r) ==
    /\ At(r, "finish")
    /\ platform' = [platform EXCEPT !.state = Verdict(r), !.stop = request[r].stop,
                                    !.holdBy = request[r].look.holdBy,
                                    !.emailBy = request[r].look.emailBy]
    /\ Put(r, [request[r] EXCEPT !.at = "finish!", !.look = NoHold])
    /\ events' = events \union LostEmail(r)
    /\ UNCHANGED <<stops, shop, mishaps, history>>

FinishStop(r) ==
    /\ At(r, "finish!")
    /\ PutStop(request[r].stop, [stops[request[r].stop] EXCEPT !.state = Verdict(r)])
    /\ End(r)
    /\ UNCHANGED <<platform, shop, mishaps, history, events>>

StopStep(r) ==
    \/ ReadRow(r, "hold", "hold!")
    \/ SetHold(r)
    \/ MarkActivating(r)
    \/ \E s \in Shops : BlockShop(r, s) \/ UnpublishShop(r, s)
    \/ RoundIsOver(r, "block", "unpublish")
    \/ RoundIsOver(r, "unpublish", "finish")
    \/ FinishPlatform(r)
    \/ FinishStop(r)

-----------------------------------------------------------------------------
(* The recovery *)

\* The newest stop that may be recovered, by another person than its own.
MayRecover(c) == stops[c].key # None /\ stops[c].state \in Recoverable
\* Mutant: anybody may recover a stop.
AnybodyMay(c, a) == TRUE
Independent(c, a) == stops[c].by # a
BeginRecovery(r, a) ==
    /\ At(r, "rest")
    /\ a \in Staff
    /\ \E c \in Ids :
          /\ MayRecover(c)
          /\ \A d \in Ids : MayRecover(d) => d <= c
          /\ Independent(c, a)
          /\ Put(r, [Resting EXCEPT !.at = "claim", !.by = a, !.stop = c,
                                    !.seen = <<stops[c].state, stops[c].revision>>])
    /\ UNCHANGED <<platform, stops, shop, mishaps, history, events>>

Move(c, state) == PutStop(c, [stops[c] EXCEPT !.state = state, !.revision = @ + 1])

ClaimStop(r) ==
    LET c == request[r].stop
    IN  /\ At(r, "claim")
        /\ stops[c].revision + 1 < MaxRevision
        /\ IF request[r].seen = <<stops[c].state, stops[c].revision>>
           THEN /\ Move(c, "RECOVERY_REQUESTED")
                /\ Put(r, [request[r] EXCEPT !.at = "begin", !.seen = Resting.seen])
                /\ assured' = FALSE
           ELSE End(r) /\ UNCHANGED <<stops, assured>>
        /\ UNCHANGED <<platform, shop, mishaps, emailSetter, events>>

StartRecovery(r) ==
    /\ At(r, "begin")
    /\ stops[request[r].stop].state = "RECOVERY_REQUESTED"
    /\ Move(request[r].stop, "RECOVERING")
    /\ GoOn(r, "resume")
    /\ UNCHANGED <<platform, shop, mishaps, history, events>>

MarkRecovering(r) ==
    /\ At(r, "resume")
    /\ platform' = [platform EXCEPT !.state = "RECOVERING"]
    /\ GoOn(r, "inspect")
    /\ UNCHANGED <<stops, shop, mishaps, history, events>>

\* The checkout validation must be active before anything is put back.
InspectValidation(r) ==
    /\ At(r, "inspect")
    /\ \/ /\ Put(r, [request[r] EXCEPT !.at = "restore", !.todo = Shops])
          /\ Answered(r)
       \/ /\ GoOn(r, "failing")
          /\ Failed(r)
    /\ UNCHANGED <<platform, stops, shop, history>>

\* The policy is synchronised as if the hold were off, then what the stop
\* unpublished is published again.
RestoreShop(r, s) ==
    LET done == [Direct(s) EXCEPT ![s].published = @ \/ s \in stops[request[r].stop].saved]
    IN  /\ At(r, "restore")
        /\ s \in request[r].todo
        /\ \/ /\ shop' = done
              /\ Worked(r, s, TRUE)
              /\ Answered(r)
           \/ /\ shop' \in {done} \union Broken(s, Direct(s))
              /\ Worked(r, s, FALSE)
              /\ Failed(r)
        /\ UNCHANGED <<platform, stops, history>>

\* The shop is allowed and then the agent's veto cleared.
AllowShop(r, s) ==
    LET allowed == [shop EXCEPT ![s].control = "ALLOWED"]
        cleared == [allowed EXCEPT ![s].veto = "CLEARED"]
    IN  /\ At(r, "allow")
        /\ s \in request[r].todo
        /\ \/ /\ shop' = cleared
              /\ Worked(r, s, TRUE)
              /\ Answered(r)
           \/ /\ shop' \in {shop, allowed, cleared}
              /\ Worked(r, s, FALSE)
              /\ Failed(r)
        /\ UNCHANGED <<platform, stops, history>>

\* Goes on after a round without failures, and gives up after one with any.
ProceedIf(r, here, there) ==
    /\ At(r, here)
    /\ request[r].todo = {}
    /\ Put(r, [request[r] EXCEPT !.at = IF request[r].ok THEN there ELSE "failing", !.todo = Shops])
    /\ UNCHANGED <<platform, stops, shop, mishaps, history, events>>

\* independent_release_approval_required ends the recovery where it is.
ReleaseHold(r) ==
    LET look == request[r].look
    IN  /\ At(r, "release!")
        /\ IF look.hold /\ Activator(look) = request[r].by
           THEN /\ End(r)
                /\ events' = events \union {"refused"}
                /\ UNCHANGED platform
           ELSE /\ platform' = HoldReleased(platform, look, request[r].by)
                /\ Put(r, [request[r] EXCEPT !.at = "recovered", !.look = NoHold])
                /\ events' = events \union LostEmail(r)
        /\ UNCHANGED <<stops, shop, mishaps, history>>

\* Mutant: the key of a recovered stop stays taken.
CloseStopAndKeepKey(r) ==
    /\ At(r, "recovered")
    /\ PutStop(request[r].stop, [stops[request[r].stop] EXCEPT !.state = "RECOVERED"])
    /\ GoOn(r, "idle")
    /\ UNCHANGED <<platform, shop, mishaps, history, events>>

CloseStop(r) ==
    /\ At(r, "recovered")
    /\ PutStop(request[r].stop, [stops[request[r].stop] EXCEPT !.state = "RECOVERED", !.key = None])
    /\ GoOn(r, "idle")
    /\ UNCHANGED <<platform, shop, mishaps, history, events>>

MarkIdle(r) ==
    /\ At(r, "idle")
    /\ platform' = [platform EXCEPT !.state = "IDLE", !.stop = None]
    /\ End(r)
    /\ events' = events \union (IF Standing \subseteq {request[r].stop} THEN {} ELSE {"overtaken"})
    /\ UNCHANGED <<stops, shop, mishaps, history>>

FailStop(r) ==
    /\ At(r, "failing")
    /\ PutStop(request[r].stop, [stops[request[r].stop] EXCEPT !.state = "RECOVERY_FAILED"])
    /\ GoOn(r, "failing!")
    /\ UNCHANGED <<platform, shop, mishaps, history, events>>

FailPlatform(r) ==
    /\ At(r, "failing!")
    /\ platform' = [platform EXCEPT !.state = "RECOVERY_FAILED"]
    /\ End(r)
    /\ events' = events \union
          (IF stops[request[r].stop].state = "RECOVERY_FAILED" THEN {} ELSE {"overtaken"})
    /\ UNCHANGED <<stops, shop, mishaps, history>>

RecoveryStep(r) ==
    \/ ClaimStop(r) \/ StartRecovery(r) \/ MarkRecovering(r) \/ InspectValidation(r)
    \/ \E s \in Shops : RestoreShop(r, s) \/ AllowShop(r, s)
    \/ ProceedIf(r, "restore", "allow")
    \/ ProceedIf(r, "allow", "release")
    \/ ReadRow(r, "release", "release!")
    \/ ReleaseHold(r)
    \/ CloseStop(r) \/ MarkIdle(r)
    \/ FailStop(r) \/ FailPlatform(r)

-----------------------------------------------------------------------------
(* The others: e-mail holds, the activation of the validation, the agent *)

BeginEmail(r, a) ==
    /\ At(r, "rest")
    /\ a \in Staff
    /\ Mishap
    /\ \E there \in {"email!", "unemail!"} :
          Put(r, [Resting EXCEPT !.at = there, !.by = a, !.look = HoldsSeen])
    /\ UNCHANGED <<platform, stops, shop, history, events>>

SetEmailHold(r) ==
    /\ At(r, "email!")
    /\ platform' = EmailSet(platform, request[r].look, request[r].by)
    /\ emailSetter' = request[r].by
    /\ End(r)
    /\ UNCHANGED <<stops, shop, mishaps, assured, events>>

ReleaseEmailHold(r) ==
    LET look == request[r].look
    IN  /\ At(r, "unemail!")
        /\ IF look.email /\ EmailActivator(look) = request[r].by
           THEN UNCHANGED <<platform, emailSetter, events>>
           ELSE /\ platform' = EmailReleased(platform, look, request[r].by)
                /\ emailSetter' = None
                /\ events' = events \union LostEmail(r)
        /\ End(r)
        /\ UNCHANGED <<stops, shop, mishaps, assured>>

\* Under the hold a synchronisation takes out of sale what a recovery is putting
\* back, or what no stop has recorded yet.
Disturbed(s) ==
    LET row == shop[s]
        recorded == \E c \in Standing : s \in stops[c].saved
    IN  IF ~platform.hold THEN {}
        ELSE IF Crossing THEN IF row.direct \/ row.published THEN {"undone"} ELSE {}
        ELSE IF row.published /\ ~recorded THEN {"forestalled"} ELSE {}

\* The synchronisation page, the catalogue's regular one, the product webhooks
\* and the activation of the gate.
SyncCatalog(s) ==
    /\ Mishap
    /\ \/ /\ shop' = Synced(s)
          /\ events' = events \union Disturbed(s)
       \/ /\ shop' \in PartlySynced(s)
          /\ events' = events \union Disturbed(s) \union {"failure"}
    /\ UNCHANGED <<platform, stops, request, history>>

\* The activation of the validation, for the shop of the operator's session: it
\* synchronises the products, reads the row, and writes to the shop what it
\* makes of it.  A product that fails ends the visit, before it reads the row.
BackfillShop(r, s) ==
    /\ At(r, "rest")
    /\ Mishap
    /\ \/ /\ shop' = Synced(s)
          /\ Put(r, [Resting EXCEPT !.at = "visit", !.todo = {s}])
          /\ events' = events \union Disturbed(s)
       \/ /\ shop' \in PartlySynced(s)
          /\ events' = events \union Disturbed(s) \union {"failure"}
          /\ UNCHANGED request
    /\ UNCHANGED <<platform, stops, history>>

BeginVisit(r, a) ==
    /\ a \in Staff
    /\ \E s \in Shops : BackfillShop(r, s)

ReadVisited(r) ==
    /\ At(r, "visit")
    /\ Put(r, [request[r] EXCEPT !.at = "visit!",
                  !.look = [NoHold EXCEPT !.hold = platform.hold, !.state = platform.state]])
    /\ UNCHANGED <<platform, stops, shop, mishaps, history, events>>

ControlOf(row) == IF row.hold \/ row.state # "IDLE" THEN "BLOCKED" ELSE "ALLOWED"
SyncVisitedShop(r, s) ==
    /\ At(r, "visit!")
    /\ s \in request[r].todo
    /\ shop' = [shop EXCEPT ![s].control = ControlOf(request[r].look)]
    /\ End(r)
    /\ events' = events \union
          (IF ControlOf(request[r].look) = ControlOf(platform) /\ ~Crossing THEN {} ELSE {"staleVisit"})
    /\ UNCHANGED <<platform, stops, mishaps, history>>

\* The agent outside the application vetoes sales and unpublishes all there is.
AgentStops ==
    /\ Mishap
    /\ shop' = [shop EXCEPT ![Primary].veto = "BLOCKED", ![Primary].published = FALSE]
    /\ events' = events \union {"agent"}
    /\ UNCHANGED <<platform, stops, request, history>>

\* The app was uninstalled or lost a scope at Shopify: the row is held without
\* an operational control, and its metadata replaced.
LoseControl(a) ==
    /\ a \in Machines
    /\ Mishap
    /\ platform' = [platform EXCEPT !.hold = TRUE, !.state = "PARTIAL_FAILURE", !.changedBy = a,
                                    !.holdBy = None, !.emailBy = None]
    /\ events' = events \union {"controlLost"}
                \union (IF platform.emailBy = None THEN {} ELSE {"lostEmail"})
    /\ UNCHANGED <<stops, shop, request, history>>

\* The process dies, or the database throws: nothing takes the request up again.
Die(r) ==
    /\ ~At(r, "rest")
    /\ Mishap
    /\ End(r)
    /\ events' = events \union {"death"}
    /\ UNCHANGED <<platform, stops, shop, history>>

Begin(r, a) ==
    \/ CreateStop(r, a) \/ StopIsStanding(r, a) \/ WatchdogRests(r, a)
    \/ BeginRecovery(r, a) \/ BeginEmail(r, a) \/ BeginVisit(r, a)

Continue(r) ==
    \/ StopStep(r)
    \/ RecoveryStep(r)
    \/ SetEmailHold(r) \/ ReleaseEmailHold(r)
    \/ ReadVisited(r)
    \/ \E s \in Shops : SyncVisitedShop(r, s)

Next ==
    \/ \E r \in Requests : Continue(r) \/ Die(r)
    \/ \E r \in Requests, a \in Actors : Begin(r, a)
    \/ AgentStops
    \/ \E s \in Shops : SyncCatalog(s)
    \/ \E a \in Machines : LoseControl(a)

Spec == Init /\ [][Next]_vars

-----------------------------------------------------------------------------
(* Properties *)

Places == {"rest", "hold", "hold!", "mark", "block", "unpublish", "finish", "finish!",
           "claim", "begin", "resume", "inspect", "restore", "allow", "release", "release!",
           "recovered", "idle", "failing", "failing!", "email!", "unemail!",
           "visit", "visit!"}
Names == Actors \union {None}
Rows == [hold : BOOLEAN, email : BOOLEAN, state : Protecting \union {"IDLE"}, stop : Ids \union {None},
         changedBy : Names, holdBy : Names, emailBy : Names]
Events == {"twoStops", "lostEmail", "failure", "refused", "overtaken", "staleVisit", "undone",
           "forestalled", "agent", "controlLost", "death"}

\* Types.  Beyond them: whoever requested a stop that stands is known, and a
\* request that works on a stop names it.
TypeOK ==
    /\ platform \in Rows
    /\ stops \in [Ids -> [state : States, key : Shops \union {None}, by : Names,
                           revision : 0..MaxRevision, saved : SUBSET Shops]]
    /\ \A c \in Ids : stops[c].key # None => stops[c].by # None
    /\ shop \in [Shops -> [control : {"ALLOWED", "BLOCKED"}, veto : {"CLEARED", "BLOCKED"},
                            direct : BOOLEAN, published : BOOLEAN]]
    /\ request \in [Requests -> [at : Places, by : Names, stop : Ids \union {None}, look : Rows,
                                  todo : SUBSET Shops, seen : States \X (0..MaxRevision), ok : BOOLEAN]]
    /\ \A r \in Requests :
          request[r].stop = None =>
              request[r].at \in {"rest", "email!", "unemail!", "visit", "visit!"}
    /\ mishaps \in 0..MaxMishaps
    /\ emailSetter \in Names
    /\ assured \in BOOLEAN
    /\ events \subseteq Events

Without(some) == events \intersect some = {}
AtRest == \A r \in Requests : At(r, "rest")

\* A stop reported as active is one: the hold is on, every shop is blocked and
\* its products are out of sale, until somebody claims its recovery.
ActiveMeansStopped ==
    Without({"twoStops", "staleVisit"}) =>
        \A c \in Ids : stops[c].state = "ACTIVE" =>
            /\ platform.hold
            /\ \A s \in Shops : shop[s].control = "BLOCKED" /\ ~shop[s].direct /\ ~shop[s].published

\* Once nothing is under way, the platform's row and the shops say what the
\* controls say: a stop stands and everything is held, or none and all is open,
\* unless a synchronisation under the hold undid what a recovery had put back,
\* or another of the named mishaps came between.
RowsAgree ==
    AtRest /\ Without({"twoStops", "overtaken", "death", "staleVisit", "undone", "controlLost"}) =>
        /\ platform.hold <=> Standing # {}
        /\ \A c \in Standing : platform.state = stops[c].state /\ platform.stop = c
        /\ Standing = {} =>
              /\ platform.state = "IDLE"
              /\ \A s \in Shops : shop[s].control = "ALLOWED" /\ shop[s].direct

\* What a stop took off sale comes back with its recovery, unless a call failed,
\* the agent took it, or a synchronisation under the hold took it off sale while
\* it was being put back or before any stop had recorded where it was published.
RecoveryRepublishes ==
    Standing = {} /\ AtRest /\ Without({"failure", "agent", "undone", "forestalled"}) =>
        \A s \in Shops : shop[s].published

\* A watchdog that was told that a stop stands finds sales stopped until a
\* recovery begins, unless two stops stood, a recovery or a stop broke off or
\* failed in part, or it was told while a recovery was under way.
ToldProtectedIsStopped ==
    assured /\ AtRest /\ Without({"twoStops", "refused", "failure", "death", "controlLost"})
        => ~OnSale(Primary)

\* Lifts the hold on all sales.
Resumes(r) == At(r, "release!") /\ At(r, "recovered")' /\ platform.hold

\* Who stopped sales does not resume them: nobody lifts the hold while a stop of
\* his own stands, as long as there never were two stops at once.
OneStopIsResumedByAnother ==
    [][\A r \in Requests, c \in Standing :
         Resumes(r) /\ Without({"twoStops"}) => stops[c].by # request[r].by]_vars

\* Lifts a hold on e-mail.
Lifts(r) == At(r, "unemail!") /\ ~At(r, "unemail!")' /\ platform.email /\ ~platform'.email

\* Who saw a hold on e-mail standing and lifts it is not who set it, as long as
\* no write from an older copy has lost who that was.
EmailHoldIsLiftedByAnother ==
    [][\A r \in Requests : Lifts(r) /\ request[r].look.email /\ "lostEmail" \notin events' =>
         request[r].by # emailSetter]_vars

=============================================================================
