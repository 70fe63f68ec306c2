------------------------- MODULE PurchaseStopProofs -------------------------
(***************************************************************************)
(* What PurchaseStop promises for any number of shops, operators, requests *)
(* and stops, and any bounds.                                              *)
(*                                                                         *)
(* The inductive invariant says that a control is in the hands of one      *)
(* request at a time, in the state that request left it in; that who       *)
(* recovers a stop is not who made it; that what a stop has closed so far  *)
(* stays closed, as long as there never were two stops; and that the row   *)
(* knows who set the hold on e-mail, unless a write has lost it.           *)
(*                                                                         *)
(* Agreement, on top of it, relates the row, the controls and the shops    *)
(* through every step of a stop and its recovery: each request leaves the  *)
(* row as the next one expects it, a product out of sale is noted with a   *)
(* stop that has not yet put it back, and who was told that sales are      *)
(* stopped was told so while no recovery was under way.                    *)
(***************************************************************************)
EXTENDS PurchaseStop, TLAPS

-----------------------------------------------------------------------------
(* The inductive invariant *)

Visiting == {"visit", "visit!"}
Free == {"rest", "email!", "unemail!"} \union Visiting
Stopping == {"hold", "hold!", "mark", "block", "unpublish", "finish", "finish!"}
Opening == {"resume", "inspect", "restore", "allow", "release", "release!", "recovered", "failing"}
Deciding == Stopping \union {"begin"} \union Opening
Loose == Free \union {"idle", "failing!"}

\* A control that was made and not recovered has its key.
ControlsHaveKeys == \A c \in Ids : stops[c].state \notin {"NONE", "RECOVERED"} => stops[c].key # None

\* A request finds its control in the state it has left it in.
ControlIsHeld ==
    \A r \in Requests :
      /\ At(r, "claim") => stops[request[r].stop].state # "NONE"
      /\ request[r].at \in Stopping => stops[request[r].stop].state = "ACTIVATING"
      /\ At(r, "begin") =>
            /\ stops[request[r].stop].state = "RECOVERY_REQUESTED"
            /\ stops[request[r].stop].revision < MaxRevision
      /\ request[r].at \in Opening => stops[request[r].stop].state = "RECOVERING"

\* No two requests decide one control.
DecidedByOne ==
    \A r, q \in Requests :
      request[r].at \in Deciding /\ request[q].at \in Deciding /\ request[r].stop = request[q].stop => r = q

\* Who recovers a stop, from a state it may be recovered from, has not made it.
RecovererIsAnother ==
    \A r \in Requests :
      /\ At(r, "claim") => request[r].seen[1] \in Recoverable
      /\ request[r].at \in Opening \union {"claim", "begin"} => stops[request[r].stop].by # request[r].by

OneStands == "twoStops" \notin events => \A c, d \in Standing : c = d

Control == ControlsHaveKeys /\ ControlIsHeld /\ DecidedByOne /\ RecovererIsAnother /\ OneStands

\* Whoever is at work is known, but for a visit, of which nothing depends on it.
ActorsAreKnown ==
    \A r \in Requests : request[r].at \notin {"rest"} \union Visiting => request[r].by \in Actors

Sound == Without({"twoStops", "staleVisit"})
Closed(s) == shop[s].control = "BLOCKED"
Withdrawn(s) == ~shop[s].direct /\ ~shop[s].published

\* What a request has done of its stop so far holds, if nothing failed.
StopOfHolds(r) ==
    /\ request[r].at \in Stopping \ {"hold", "hold!"} => platform.hold
    /\ At(r, "block") /\ request[r].ok => \A s \in Shops \ request[r].todo : Closed(s)
    /\ At(r, "unpublish") /\ request[r].ok =>
          /\ \A s \in Shops : Closed(s)
          /\ \A s \in Shops \ request[r].todo : Withdrawn(s)
    /\ request[r].at \in {"finish", "finish!"} /\ request[r].ok => \A s \in Shops : Closed(s) /\ Withdrawn(s)
StopsHold == Sound => \A r \in Requests : StopOfHolds(r)

\* The row knows who set the hold on e-mail.
EmailSetterIsKnown ==
    "lostEmail" \notin events /\ platform.email => platform.emailBy = emailSetter /\ emailSetter # None

IInv ==
    /\ TypeOK
    /\ Control
    /\ ActorsAreKnown
    /\ StopsHold
    /\ ActiveMeansStopped
    /\ EmailSetterIsKnown

-----------------------------------------------------------------------------
(* Types *)

RequestRows == [at : Places, by : Names, stop : Ids \union {None}, look : Rows,
                todo : SUBSET Shops, seen : States \X (0..MaxRevision), ok : BOOLEAN]
StopRows == [state : States, key : Shops \union {None}, by : Names,
             revision : 0..MaxRevision, saved : SUBSET Shops]
ShopRows == [control : {"ALLOWED", "BLOCKED"}, veto : {"CLEARED", "BLOCKED"},
             direct : BOOLEAN, published : BOOLEAN]

\* A request that works on a stop names it.
Named(row) == row.stop = None => row.at \in Free
Signed(row) == row.key # None => row.by # None

RequestsFit == request \in [Requests -> RequestRows] /\ \A r \in Requests : Named(request[r])
StopsFit == stops \in [Ids -> StopRows] /\ \A c \in Ids : Signed(stops[c])
ShopsFit == shop \in [Shops -> ShopRows]
RestFits ==
    /\ mishaps \in 0..MaxMishaps
    /\ emailSetter \in Names
    /\ assured \in BOOLEAN
    /\ events \subseteq Events

LEMMA Parts == TypeOK <=> platform \in Rows /\ RequestsFit /\ StopsFit /\ ShopsFit /\ RestFits
  BY DEF TypeOK, RequestsFit, StopsFit, ShopsFit, RestFits, RequestRows, StopRows, ShopRows, Free, Named, Signed,
     Visiting

LEMMA PartsAfter == TypeOK' <=> platform' \in Rows /\ RequestsFit' /\ StopsFit' /\ ShopsFit' /\ RestFits'
  BY DEF TypeOK, RequestsFit, StopsFit, ShopsFit, RestFits, RequestRows, StopRows, ShopRows, Free, Named, Signed,
     Visiting

LEMMA Values ==
  /\ None \in Names
  /\ Actors \subseteq Names
  /\ None \notin Ids
  /\ None \notin Actors
  /\ None \notin Shops
  /\ Staff \subseteq Actors /\ Machines \subseteq Actors
  BY NoneIsNobody DEF Names, Actors, Ids

LEMMA Blanks ==
  /\ NoHold \in Rows
  /\ Resting \in RequestRows /\ Named(Resting)
  /\ NoStop \in StopRows /\ Signed(NoStop)
<1>1. NoHold \in Rows
  BY DEF NoHold, Rows, Names
<1>. QED
  BY <1>1, BoundsAreNat DEF NoStop, Resting, RequestRows, StopRows, Names, Places, States, Protecting,
     Recoverable,
     Named, Signed, Free, Visiting

\* A request, or a control, is rewritten with a row of its type.
LEMMA PutFits ==
  ASSUME RequestsFit, NEW r \in Requests, NEW x \in RequestRows, Named(x), Put(r, x)
  PROVE  RequestsFit'
  BY DEF RequestsFit, Put

LEMMA PutStopFits ==
  ASSUME StopsFit, NEW c \in Ids, NEW x \in StopRows, Signed(x), PutStop(c, x)
  PROVE  StopsFit'
  BY DEF StopsFit, PutStop

\* A request that goes on with its stop keeps a row of its type.
LEMMA RowsGoOn ==
  ASSUME RequestsFit, NEW r \in Requests, request[r].at \notin Free
  PROVE  /\ request[r].stop \in Ids
         /\ request[r] \in RequestRows
         /\ \A x \in RequestRows : x.stop = request[r].stop => Named(x)
         /\ \A here \in Places : [request[r] EXCEPT !.at = here] \in RequestRows
         /\ \A here \in Places : [request[r] EXCEPT !.at = here].stop = request[r].stop
  BY Values DEF RequestsFit, RequestRows, Named

\* What is written to the platform's row is of its type.
LEMMA HoldsFit ==
  ASSUME NEW row \in Rows, NEW look \in Rows, NEW a \in Names
  PROVE  /\ HoldSet(row, look, a) \in Rows
         /\ HoldReleased(row, look, a) \in Rows
         /\ EmailSet(row, look, a) \in Rows
         /\ EmailReleased(row, look, a) \in Rows
  BY DEF HoldSet, HoldReleased, EmailSet, EmailReleased, Rows

\* The rows of requests that begin, and of the control of a stop.
LEMMA CreatedRow ==
  ASSUME NEW a \in Actors, NEW c \in Ids
  PROVE  /\ [Resting EXCEPT !.at = "hold", !.by = a, !.stop = c] \in RequestRows
         /\ Named([Resting EXCEPT !.at = "hold", !.by = a, !.stop = c])
  BY Blanks, Values DEF RequestRows, Places, Named

LEMMA CreatedStop ==
  ASSUME NEW a \in Actors, NEW s \in Shops
  PROVE  /\ [NoStop EXCEPT !.state = "ACTIVATING", !.key = s, !.by = a] \in StopRows
         /\ Signed([NoStop EXCEPT !.state = "ACTIVATING", !.key = s, !.by = a])
  BY Blanks, Values DEF StopRows, States, Protecting, Signed

LEMMA RecoveringRow ==
  ASSUME NEW a \in Actors, NEW c \in Ids, stops[c] \in StopRows
  PROVE  /\ [Resting EXCEPT !.at = "claim", !.by = a, !.stop = c, !.seen = <<stops[c].state, stops[c].revision>>]
               \in RequestRows
         /\ Named([Resting EXCEPT !.at = "claim", !.by = a, !.stop = c, !.seen = <<stops[c].state,
            stops[c].revision>>])
  BY Blanks, Values DEF RequestRows, StopRows, Places, Named

\* What a request sees of the row, and what it makes of it, is of its type.
LEMMA HoldsSeenFits == platform \in Rows => HoldsSeen \in Rows
  BY Values DEF HoldsSeen, Rows

LEMMA BlankFits ==
  ASSUME NEW h \in Names, NEW e \in Names
  PROVE  [NoHold EXCEPT !.holdBy = h, !.emailBy = e] \in Rows
  BY Blanks DEF Rows

\* What the calls for a shop make of it is of its type.
LEMMA ShopsChange ==
  ASSUME NEW all \in [Shops -> ShopRows], NEW s \in Shops
  PROVE  /\ [all EXCEPT ![s].control = "BLOCKED"] \in [Shops -> ShopRows]
         /\ [all EXCEPT ![s].control = "ALLOWED"] \in [Shops -> ShopRows]
         /\ [all EXCEPT ![s].veto = "CLEARED"] \in [Shops -> ShopRows]
         /\ [all EXCEPT ![s].direct = TRUE] \in [Shops -> ShopRows]
         /\ [all EXCEPT ![s].direct = FALSE] \in [Shops -> ShopRows]
         /\ [all EXCEPT ![s].direct = FALSE, ![s].published = FALSE] \in [Shops -> ShopRows]
         /\ \A some : [all EXCEPT ![s].published = @ \/ s \in some] \in [Shops -> ShopRows]
  BY DEF ShopRows

LEMMA CallFits ==
  ASSUME RestFits, NEW r \in Requests, Answered(r) \/ Failed(r), UNCHANGED history
  PROVE  RestFits'
<1>1. emailSetter' = emailSetter /\ assured' = assured
  BY DEF history
<1>2. CASE Answered(r)
  BY <1>1, <1>2 DEF RestFits, Answered
<1>3. CASE Failed(r)
  BY <1>1, <1>3, BoundsAreNat DEF RestFits, Failed, Mishap, Events
<1>. QED
  BY <1>2, <1>3

LEMMA EmailRow ==
  ASSUME NEW a \in Actors, platform \in Rows, NEW there \in {"email!", "unemail!"}
  PROVE  /\ [Resting EXCEPT !.at = there, !.by = a, !.look = HoldsSeen] \in RequestRows
         /\ Named([Resting EXCEPT !.at = there, !.by = a, !.look = HoldsSeen])
  BY HoldsSeenFits, Blanks, Values DEF RequestRows, Places, Named, Free, Visiting

\* What a shop becomes under each call is of its type.
LEMMA BlockFits ==
  ASSUME ShopsFit, NEW r \in Requests, NEW s \in Shops, BlockShop(r, s)
  PROVE ShopsFit'
<1>1. shop' \in {shop, [shop EXCEPT ![s].control = "BLOCKED"]}
  BY DEF BlockShop
<1>2. [shop EXCEPT ![s].control = "BLOCKED"] \in [Shops -> ShopRows]
  BY ShopsChange DEF ShopsFit
<1>. QED
  BY <1>1, <1>2 DEF ShopsFit

LEMMA WithheldFits ==
  ASSUME NEW all \in [Shops -> ShopRows], NEW s \in Shops
  PROVE  /\ Withheld(s, all) \in [Shops -> ShopRows]
         /\ \A t \in Shops \ {s} : Withheld(s, all)[t] = all[t]
         /\ Withheld(s, all)[s].control = all[s].control
         /\ Withheld(s, all)[s].direct = all[s].direct
         /\ ~Withheld(s, all)[s].published
  BY DEF Withheld, ShopRows

\* A shop's products under each policy.
LEMMA PolicyFits ==
  ASSUME ShopsFit, NEW s \in Shops, NEW policy \in {Governed(s), Direct(s)}
  PROVE  /\ policy \in [Shops -> ShopRows]
         /\ \A t \in Shops \ {s} : policy[t] = shop[t]
         /\ policy[s].control = shop[s].control
         /\ policy[s].published = shop[s].published
<1>1. Governed(s) \in [Shops -> ShopRows] /\ Direct(s) \in [Shops -> ShopRows]
  BY DEF Governed, Direct, ShopsFit, ShopRows
<1>2. \A t \in Shops \ {s} : policy[t] = shop[t]
  BY DEF Governed, Direct, ShopsFit, ShopRows
<1>3. policy[s].control = shop[s].control /\ policy[s].published = shop[s].published
  BY DEF Governed, Direct, ShopsFit, ShopRows
<1>. QED
  BY <1>1, <1>2, <1>3

\* What a synchronisation that broke off has made of the shop.
LEMMA BrokenFits ==
  ASSUME ShopsFit, NEW s \in Shops, NEW policy \in {Governed(s), Direct(s)}, NEW all \in Broken(s, policy)
  PROVE  /\ all \in [Shops -> ShopRows]
         /\ \A t \in Shops \ {s} : all[t] = shop[t]
         /\ all[s].control = shop[s].control
         /\ all[s].direct \in {shop[s].direct, policy[s].direct}
         /\ all[s].published => shop[s].published
<1>1. all \in {shop, policy, Withheld(s, shop), Withheld(s, policy)}
  BY DEF Broken
<1>2. shop \in [Shops -> ShopRows]
  BY DEF ShopsFit
<1>3. all \in {shop, Withheld(s, shop)} => all[s].direct = shop[s].direct
  BY <1>2, WithheldFits
<1>4. all \in {policy, Withheld(s, policy)} => all[s].direct = policy[s].direct
  BY PolicyFits, WithheldFits
<1>. QED
  BY <1>1, <1>2, <1>3, <1>4, PolicyFits, WithheldFits

\* Under the hold a synchronisation puts nothing on sale, and without it takes
\* nothing off sale unless it breaks off.
LEMMA SyncDoes ==
  ASSUME ShopsFit, NEW s \in Shops, shop' = Synced(s) \/ shop' \in PartlySynced(s)
  PROVE  /\ shop' \in [Shops -> ShopRows]
         /\ \A t \in Shops \ {s} : shop'[t] = shop[t]
         /\ shop'[s].control = shop[s].control
         /\ shop'[s].published => shop[s].published
         /\ platform.hold => (shop'[s].direct => shop[s].direct)
         /\ ~platform.hold => (shop[s].direct => shop'[s].direct)
         /\ shop' = Synced(s) /\ platform.hold => ~shop'[s].direct /\ ~shop'[s].published
         /\ shop' = Synced(s) /\ ~platform.hold => shop'[s].published = shop[s].published
<1>. DEFINE policy == IF platform.hold THEN Governed(s) ELSE Direct(s)
<1>1. policy \in {Governed(s), Direct(s)}
  OBVIOUS
<1>2. /\ policy \in [Shops -> ShopRows]
      /\ \A t \in Shops \ {s} : policy[t] = shop[t]
      /\ policy[s].control = shop[s].control
      /\ policy[s].published = shop[s].published
  BY <1>1, PolicyFits
<1>3. policy[s].direct <=> ~platform.hold
  BY DEF Governed, Direct, ShopsFit, ShopRows
<1>4. shop' \in PartlySynced(s) => shop' \in Broken(s, policy)
  BY DEF PartlySynced
<1>5. shop' = Synced(s) => shop' = IF platform.hold THEN Withheld(s, policy) ELSE policy
  BY DEF Synced
<1>. HIDE DEF policy
<1>6. CASE shop' = Synced(s)
  BY <1>2, <1>3, <1>5, <1>6, WithheldFits DEF ShopsFit, ShopRows
<1>7. CASE shop' \in PartlySynced(s) /\ shop' # Synced(s)
  <2>1. /\ shop' \in [Shops -> ShopRows]
        /\ \A t \in Shops \ {s} : shop'[t] = shop[t]
        /\ shop'[s].control = shop[s].control
        /\ shop'[s].direct \in {shop[s].direct, policy[s].direct}
        /\ shop'[s].published => shop[s].published
    BY <1>1, <1>4, <1>7, BrokenFits
  <2>. QED
    BY <1>3, <1>7, <2>1
<1>. QED
  BY <1>6, <1>7

LEMMA SyncFits ==
  ASSUME ShopsFit, NEW s \in Shops, shop' = Synced(s) \/ shop' \in PartlySynced(s)
  PROVE ShopsFit'
  BY SyncDoes DEF ShopsFit

LEMMA UnpublishFits ==
  ASSUME ShopsFit, NEW r \in Requests, NEW s \in Shops, UnpublishShop(r, s)
  PROVE ShopsFit'
<1>1. shop' = Synced(s) \/ shop' \in PartlySynced(s)
  BY DEF UnpublishShop
<1>. QED
  BY <1>1, SyncFits

LEMMA RestoreFits ==
  ASSUME ShopsFit, NEW r \in Requests, NEW s \in Shops, RestoreShop(r, s)
  PROVE ShopsFit'
<1>. DEFINE direct == Direct(s)
            done == [direct EXCEPT ![s].published = @ \/ s \in stops[request[r].stop].saved]
<1>1. shop' \in {done} \union Broken(s, direct)
  BY DEF RestoreShop
<1>2. direct \in [Shops -> ShopRows] /\ Broken(s, direct) \subseteq [Shops -> ShopRows]
  BY PolicyFits, BrokenFits
<1>3. done \in [Shops -> ShopRows]
  <2>. HIDE DEF direct
  <2>. QED BY <1>2 DEF ShopRows
<1>. QED
  BY <1>1, <1>2, <1>3 DEF ShopsFit

LEMMA AllowFits ==
  ASSUME ShopsFit, NEW r \in Requests, NEW s \in Shops, AllowShop(r, s)
  PROVE ShopsFit'
<1>. DEFINE allowed == [shop EXCEPT ![s].control = "ALLOWED"]
            cleared == [allowed EXCEPT ![s].veto = "CLEARED"]
<1>1. shop' \in {shop, allowed, cleared}
  BY DEF AllowShop
<1>2. allowed \in [Shops -> ShopRows]
  BY ShopsChange DEF ShopsFit
<1>3. cleared \in [Shops -> ShopRows]
  <2>. HIDE DEF allowed
  <2>. QED BY <1>2, ShopsChange
<1>. QED
  BY <1>1, <1>2, <1>3 DEF ShopsFit

\* A control that moves on, and one that is made, are of their type.
LEMMA MoveFits ==
  ASSUME NEW row \in StopRows, Signed(row), row.revision < MaxRevision, NEW state \in States
  PROVE  /\ [row EXCEPT !.state = state, !.revision = @ + 1] \in StopRows
         /\ Signed([row EXCEPT !.state = state, !.revision = @ + 1])
<1>1. MaxRevision \in Nat
  BY BoundsAreNat
<1>2. row.revision + 1 \in 0..MaxRevision
  BY <1>1 DEF StopRows
<1>. QED
  BY <1>2 DEF StopRows, Signed

\* What the stop writes to the row.
LEMMA HoldSetKeeps ==
  ASSUME NEW row \in Rows, NEW look \in Rows, NEW a \in Names
  PROVE  HoldSet(row, look, a).holdBy = a /\ HoldSet(row, look, a).emailBy = look.emailBy
  BY DEF HoldSet, Rows

LEMMA CreateFits ==
  ASSUME RequestsFit, StopsFit, NEW r \in Requests, NEW a \in Actors, CreateStop(r, a)
  PROVE RequestsFit' /\ StopsFit'
<1>1. PICK s \in KeysOf(a), c \in Unused :
          /\ PutStop(c, [NoStop EXCEPT !.state = "ACTIVATING", !.key = s, !.by = a])
          /\ Put(r, [Resting EXCEPT !.at = "hold", !.by = a, !.stop = c])
  BY DEF CreateStop
<1>2. s \in Shops /\ c \in Ids
  BY PrimaryIsShop DEF KeysOf, Unused
<1>3. RequestsFit'
  BY <1>1, <1>2, CreatedRow, PutFits
<1>4. StopsFit'
  BY <1>1, <1>2, CreatedStop, PutStopFits
<1>. QED BY <1>3, <1>4

LEMMA ClaimFits ==
  ASSUME StopsFit, NEW r \in Requests, request[r].stop \in Ids, ClaimStop(r)
  PROVE  StopsFit'
<1>. DEFINE c == request[r].stop
<1>1. stops[c] \in StopRows /\ Signed(stops[c])
  BY DEF StopsFit
<1>2. CASE Move(c, "RECOVERY_REQUESTED")
  <2>1. stops[c].revision < MaxRevision
    BY <1>1, BoundsAreNat DEF ClaimStop, StopRows
  <2>2. "RECOVERY_REQUESTED" \in States
    BY DEF States, Protecting
  <2>. QED
    BY <1>1, <1>2, <2>1, <2>2, MoveFits, PutStopFits DEF Move
<1>3. CASE UNCHANGED stops
  BY <1>3 DEF StopsFit
<1>. QED
  BY <1>2, <1>3 DEF ClaimStop

LEMMA StartFits ==
  ASSUME StopsFit, ControlIsHeld, NEW r \in Requests, request[r].stop \in Ids, StartRecovery(r)
  PROVE  StopsFit'
<1>. DEFINE c == request[r].stop
<1>1. stops[c] \in StopRows /\ Signed(stops[c])
  BY DEF StopsFit
<1>2. stops[c].revision < MaxRevision
  BY DEF StartRecovery, ControlIsHeld
<1>3. "RECOVERING" \in States
  BY DEF States, Protecting
<1>. QED
  BY <1>1, <1>2, <1>3, MoveFits, PutStopFits DEF Move, StartRecovery

\* Every step keeps the types.
\* What a synchronisation may disturb is an event.
LEMMA DisturbedFits == \A s \in Shops : Disturbed(s) \union {"failure"} \subseteq Events
  BY DEF Disturbed, Events

LEMMA TypeStep ==
  ASSUME TypeOK, ControlIsHeld, ActorsAreKnown, Next
  PROVE  TypeOK'
<1>1. platform \in Rows /\ RequestsFit /\ StopsFit /\ ShopsFit /\ RestFits
  BY Parts
<1>2. \A r \in Requests : request[r].by \in Names /\ request[r].look \in Rows /\ request[r] \in RequestRows
  BY <1>1 DEF RequestsFit, RequestRows
<1>3. \A c \in Ids : stops[c] \in StopRows /\ Signed(stops[c])
  BY <1>1 DEF StopsFit
<1>4. ASSUME NEW r \in Requests, ReadRow(r, "hold", "hold!") PROVE TypeOK'
  <2>1. request[r].at \notin Free /\ request[r].at \in Places
    BY <1>4, <1>1, <1>2, <1>3 DEF ReadRow, HoldsSeen, At, Free, Places, Visiting
  <2>2. /\ request[r].stop \in Ids
       /\ \A x \in RequestRows : x.stop = request[r].stop => Named(x)
    BY <2>1, <1>1, RowsGoOn
  <2>3. "hold!" \in Places
    BY DEF Places
  <2>4. HoldsSeen \in Rows
    BY <1>4, <1>1, <1>2, <1>3, <2>1, <2>2, Blanks, HoldsSeenFits
  <2>5. [request[r] EXCEPT !.at = "hold!", !.look = HoldsSeen]
         \in RequestRows
    BY <1>2, <2>3, <2>4 DEF RequestRows
  <2>6. [request[r] EXCEPT !.at = "hold!", !.look = HoldsSeen].stop
         = request[r].stop
    BY <1>2 DEF RequestRows
  <2>7. RequestsFit'
    BY <1>4, <1>1, <2>5, <2>6, <2>2, Blanks, PutFits DEF ReadRow, HoldsSeen, At, End
  <2>8. platform' \in Rows /\ StopsFit' /\ ShopsFit' /\ RestFits'
    BY <1>4, <1>1 DEF ReadRow, StopsFit, ShopsFit, RestFits, history
  <2>. QED BY <2>7, <2>8, PartsAfter
<1>5. ASSUME NEW r \in Requests, ReadRow(r, "release", "release!") PROVE TypeOK'
  <2>1. request[r].at \notin Free /\ request[r].at \in Places
    BY <1>5, <1>1, <1>2, <1>3 DEF ReadRow, HoldsSeen, At, Free, Places, Visiting
  <2>2. /\ request[r].stop \in Ids
       /\ \A x \in RequestRows : x.stop = request[r].stop => Named(x)
    BY <2>1, <1>1, RowsGoOn
  <2>3. "release!" \in Places
    BY DEF Places
  <2>4. HoldsSeen \in Rows
    BY <1>5, <1>1, <1>2, <1>3, <2>1, <2>2, Blanks, HoldsSeenFits
  <2>5. [request[r] EXCEPT !.at = "release!", !.look = HoldsSeen]
         \in RequestRows
    BY <1>2, <2>3, <2>4 DEF RequestRows
  <2>6. [request[r] EXCEPT !.at = "release!", !.look = HoldsSeen].stop
         = request[r].stop
    BY <1>2 DEF RequestRows
  <2>7. RequestsFit'
    BY <1>5, <1>1, <2>5, <2>6, <2>2, Blanks, PutFits DEF ReadRow, HoldsSeen, At, End
  <2>8. platform' \in Rows /\ StopsFit' /\ ShopsFit' /\ RestFits'
    BY <1>5, <1>1 DEF ReadRow, StopsFit, ShopsFit, RestFits, history
  <2>. QED BY <2>7, <2>8, PartsAfter
<1>6. ASSUME NEW r \in Requests, SetHold(r) PROVE TypeOK'
  <2>1. request[r].at \notin Free /\ request[r].at \in Places
    BY <1>6, <1>1, <1>2, <1>3 DEF SetHold, LostEmail, At, Free, Places, Visiting
  <2>2. /\ request[r].stop \in Ids
       /\ \A x \in RequestRows : x.stop = request[r].stop => Named(x)
    BY <2>1, <1>1, RowsGoOn
  <2>3. "mark" \in Places
    BY DEF Places
  <2>4. [NoHold EXCEPT !.holdBy = request[r].by, !.emailBy = request[r].look.emailBy] \in Rows
    BY <1>6, <1>1, <1>2, <1>3, <2>1, <2>2, Values, BlankFits DEF RequestRows, Rows
  <2>5. [request[r] EXCEPT !.at = "mark",
                        !.look = [NoHold EXCEPT !.holdBy = request[r].by, !.emailBy = request[r].look.emailBy]]
         \in RequestRows
    BY <1>2, <2>3, <2>4 DEF RequestRows
  <2>6. [request[r] EXCEPT !.at = "mark",
                        !.look = [NoHold EXCEPT !.holdBy = request[r].by, !.emailBy = request[r].look.emailBy]].stop
         = request[r].stop
    BY <1>2 DEF RequestRows
  <2>7. /\ HoldSet(platform, request[r].look, request[r].by).holdBy = request[r].by
       /\ HoldSet(platform, request[r].look, request[r].by).emailBy = request[r].look.emailBy
    BY <1>1, <1>2, HoldSetKeeps
  <2>8. Put(r, [request[r] EXCEPT !.at = "mark",
                        !.look = [NoHold EXCEPT !.holdBy = request[r].by, !.emailBy = request[r].look.emailBy]])
    BY <1>6, <2>7 DEF SetHold
  <2>9. RequestsFit'
    BY <1>6, <1>1, <2>5, <2>6, <2>2, Blanks, PutFits, <2>8 DEF SetHold, LostEmail, At, End
  <2>10. HoldSet(platform, request[r].look, request[r].by) \in Rows
    BY <1>1, <1>2, HoldsFit
  <2>11. platform' \in Rows
    BY <1>6, <1>1, <2>10 DEF SetHold
  <2>12. RestFits'
    BY <1>6, <1>1, <1>2, <1>3, Values, BoundsAreNat DEF SetHold, LostEmail, history, RestFits, Events
  <2>13. StopsFit' /\ ShopsFit'
    BY <1>6, <1>1 DEF SetHold, StopsFit, ShopsFit
  <2>. QED BY <2>9, <2>11, <2>12, <2>13, PartsAfter
<1>7. ASSUME NEW r \in Requests, MarkActivating(r) PROVE TypeOK'
  <2>1. request[r].at \notin Free /\ request[r].at \in Places
    BY <1>7, <1>1, <1>2, <1>3 DEF MarkActivating, At, Free, Places, Visiting
  <2>2. /\ request[r].stop \in Ids
       /\ \A x \in RequestRows : x.stop = request[r].stop => Named(x)
    BY <2>1, <1>1, RowsGoOn
  <2>3. "block" \in Places
    BY DEF Places
  <2>4. [request[r] EXCEPT !.at = "block", !.todo = Shops]
         \in RequestRows
    BY <1>2, <2>3 DEF RequestRows
  <2>5. [request[r] EXCEPT !.at = "block", !.todo = Shops].stop
         = request[r].stop
    BY <1>2 DEF RequestRows
  <2>6. RequestsFit'
    BY <1>7, <1>1, <2>4, <2>5, <2>2, Blanks, PutFits DEF MarkActivating, At, End
  <2>7. [platform EXCEPT !.state = "ACTIVATING", !.stop = request[r].stop] \in Rows
    BY <1>7, <1>1, <1>2, <1>3, <2>1, <2>2, HoldsFit, Values DEF Rows, RequestRows, Protecting, Recoverable,
       Verdict
  <2>8. platform' \in Rows
    BY <1>7, <1>1, <2>7 DEF MarkActivating
  <2>9. StopsFit' /\ ShopsFit' /\ RestFits'
    BY <1>7, <1>1 DEF MarkActivating, StopsFit, ShopsFit, RestFits, history
  <2>. QED BY <2>6, <2>8, <2>9, PartsAfter
<1>8. ASSUME NEW r \in Requests, NEW s \in Shops, BlockShop(r, s) PROVE TypeOK'
  <2>1. request[r].at \notin Free /\ request[r].at \in Places
    BY <1>8, <1>1, <1>2, <1>3 DEF BlockShop, At, Free, Places, Visiting
  <2>2. /\ request[r].stop \in Ids
       /\ \A x \in RequestRows : x.stop = request[r].stop => Named(x)
    BY <2>1, <1>1, RowsGoOn
  <2>3. \A good \in BOOLEAN :
         /\ [request[r] EXCEPT !.todo = @ \ {s}, !.ok = @ /\ good] \in RequestRows
         /\ [request[r] EXCEPT !.todo = @ \ {s}, !.ok = @ /\ good].stop = request[r].stop
    BY <1>8, <1>1, <1>2, <1>3, <2>1, <2>2 DEF RequestRows
  <2>4. RequestsFit'
    BY <1>8, <1>1, <2>3, <2>2, Blanks, PutFits DEF BlockShop, At, End, Worked
  <2>5. ShopsFit'
    BY <1>8, <1>1, BlockFits
  <2>6. RestFits'
    BY <1>8, <1>1, CallFits DEF BlockShop
  <2>7. platform' \in Rows /\ StopsFit'
    BY <1>8, <1>1 DEF BlockShop, StopsFit
  <2>. QED BY <2>4, <2>5, <2>6, <2>7, PartsAfter
<1>9. ASSUME NEW r \in Requests, NEW s \in Shops, UnpublishShop(r, s) PROVE TypeOK'
  <2>1. request[r].at \notin Free /\ request[r].at \in Places
    BY <1>9, <1>1, <1>2, <1>3 DEF UnpublishShop, Unpublished, At, Free, Places, Visiting
  <2>2. /\ request[r].stop \in Ids
       /\ \A x \in RequestRows : x.stop = request[r].stop => Named(x)
    BY <2>1, <1>1, RowsGoOn
  <2>3. \A good \in BOOLEAN :
         /\ [request[r] EXCEPT !.todo = @ \ {s}, !.ok = @ /\ good] \in RequestRows
         /\ [request[r] EXCEPT !.todo = @ \ {s}, !.ok = @ /\ good].stop = request[r].stop
    BY <1>9, <1>1, <1>2, <1>3, <2>1, <2>2 DEF RequestRows
  <2>4. RequestsFit'
    BY <1>9, <1>1, <2>3, <2>2, Blanks, PutFits DEF UnpublishShop, Unpublished, At, End, Worked
  <2>5. /\ [stops[request[r].stop] EXCEPT !.saved = @ \union Unpublished(s)] \in StopRows
       /\ Signed([stops[request[r].stop] EXCEPT !.saved = @ \union Unpublished(s)])
    BY <1>3, <2>2 DEF StopRows, Signed, States, Protecting, Recoverable, Unpublished
  <2>6. StopsFit'
    BY <1>9, <1>1, <2>2, <2>5, PutStopFits DEF UnpublishShop, StopsFit
  <2>7. ShopsFit'
    BY <1>9, <1>1, UnpublishFits
  <2>8. RestFits'
    BY <1>9, <1>1, CallFits DEF UnpublishShop
  <2>9. platform' \in Rows
    BY <1>9, <1>1 DEF UnpublishShop
  <2>. QED BY <2>4, <2>6, <2>7, <2>8, <2>9, PartsAfter
<1>10. ASSUME NEW r \in Requests, RoundIsOver(r, "block", "unpublish") PROVE TypeOK'
  <2>1. request[r].at \notin Free /\ request[r].at \in Places
    BY <1>10, <1>1, <1>2, <1>3 DEF RoundIsOver, At, Free, Places, Visiting
  <2>2. /\ request[r].stop \in Ids
       /\ \A x \in RequestRows : x.stop = request[r].stop => Named(x)
    BY <2>1, <1>1, RowsGoOn
  <2>3. "unpublish" \in Places
    BY DEF Places
  <2>4. [request[r] EXCEPT !.at = "unpublish", !.todo = Shops]
         \in RequestRows
    BY <1>2, <2>3 DEF RequestRows
  <2>5. [request[r] EXCEPT !.at = "unpublish", !.todo = Shops].stop
         = request[r].stop
    BY <1>2 DEF RequestRows
  <2>6. RequestsFit'
    BY <1>10, <1>1, <2>4, <2>5, <2>2, Blanks, PutFits DEF RoundIsOver, At, End
  <2>7. platform' \in Rows /\ StopsFit' /\ ShopsFit' /\ RestFits'
    BY <1>10, <1>1 DEF RoundIsOver, StopsFit, ShopsFit, RestFits, history
  <2>. QED BY <2>6, <2>7, PartsAfter
<1>11. ASSUME NEW r \in Requests, RoundIsOver(r, "unpublish", "finish") PROVE TypeOK'
  <2>1. request[r].at \notin Free /\ request[r].at \in Places
    BY <1>11, <1>1, <1>2, <1>3 DEF RoundIsOver, At, Free, Places, Visiting
  <2>2. /\ request[r].stop \in Ids
       /\ \A x \in RequestRows : x.stop = request[r].stop => Named(x)
    BY <2>1, <1>1, RowsGoOn
  <2>3. "finish" \in Places
    BY DEF Places
  <2>4. [request[r] EXCEPT !.at = "finish", !.todo = Shops]
         \in RequestRows
    BY <1>2, <2>3 DEF RequestRows
  <2>5. [request[r] EXCEPT !.at = "finish", !.todo = Shops].stop
         = request[r].stop
    BY <1>2 DEF RequestRows
  <2>6. RequestsFit'
    BY <1>11, <1>1, <2>4, <2>5, <2>2, Blanks, PutFits DEF RoundIsOver, At, End
  <2>7. platform' \in Rows /\ StopsFit' /\ ShopsFit' /\ RestFits'
    BY <1>11, <1>1 DEF RoundIsOver, StopsFit, ShopsFit, RestFits, history
  <2>. QED BY <2>6, <2>7, PartsAfter
<1>12. ASSUME NEW r \in Requests, FinishPlatform(r) PROVE TypeOK'
  <2>1. request[r].at \notin Free /\ request[r].at \in Places
    BY <1>12, <1>1, <1>2, <1>3 DEF FinishPlatform, Verdict, LostEmail, At, Free, Places, Visiting
  <2>2. /\ request[r].stop \in Ids
       /\ \A x \in RequestRows : x.stop = request[r].stop => Named(x)
    BY <2>1, <1>1, RowsGoOn
  <2>3. "finish!" \in Places
    BY DEF Places
  <2>4. NoHold \in Rows
    BY <1>12, <1>1, <1>2, <1>3, <2>1, <2>2, Blanks, HoldsSeenFits
  <2>5. [request[r] EXCEPT !.at = "finish!", !.look = NoHold]
         \in RequestRows
    BY <1>2, <2>3, <2>4 DEF RequestRows
  <2>6. [request[r] EXCEPT !.at = "finish!", !.look = NoHold].stop
         = request[r].stop
    BY <1>2 DEF RequestRows
  <2>7. RequestsFit'
    BY <1>12, <1>1, <2>5, <2>6, <2>2, Blanks, PutFits DEF FinishPlatform, Verdict, LostEmail, At, End
  <2>8. [platform EXCEPT !.state = Verdict(r), !.stop = request[r].stop,
                            !.holdBy = request[r].look.holdBy, !.emailBy = request[r].look.emailBy] \in Rows
    BY <1>12, <1>1, <1>2, <1>3, <2>1, <2>2, HoldsFit, Values DEF Rows, RequestRows, Protecting, Recoverable,
       Verdict
  <2>9. platform' \in Rows
    BY <1>12, <1>1, <2>8 DEF FinishPlatform
  <2>10. RestFits'
    BY <1>12, <1>1, <1>2, <1>3, Values, BoundsAreNat DEF FinishPlatform, LostEmail, history, RestFits, Events
  <2>11. StopsFit' /\ ShopsFit'
    BY <1>12, <1>1 DEF FinishPlatform, StopsFit, ShopsFit
  <2>. QED BY <2>7, <2>9, <2>10, <2>11, PartsAfter
<1>13. ASSUME NEW r \in Requests, FinishStop(r) PROVE TypeOK'
  <2>1. request[r].at \notin Free /\ request[r].at \in Places
    BY <1>13, <1>1, <1>2, <1>3 DEF FinishStop, Verdict, At, Free, Places, Visiting
  <2>2. /\ request[r].stop \in Ids
       /\ \A x \in RequestRows : x.stop = request[r].stop => Named(x)
    BY <2>1, <1>1, RowsGoOn
  <2>3. RequestsFit'
    BY <1>13, <1>1, <2>2, Blanks, PutFits DEF FinishStop, Verdict, At, End
  <2>4. /\ [stops[request[r].stop] EXCEPT !.state = Verdict(r)] \in StopRows
       /\ Signed([stops[request[r].stop] EXCEPT !.state = Verdict(r)])
    BY <1>3, <2>2 DEF StopRows, Signed, States, Protecting, Recoverable, Verdict
  <2>5. StopsFit'
    BY <1>13, <1>1, <2>2, <2>4, PutStopFits DEF FinishStop
  <2>6. platform' \in Rows /\ ShopsFit' /\ RestFits'
    BY <1>13, <1>1 DEF FinishStop, ShopsFit, RestFits, history
  <2>. QED BY <2>3, <2>5, <2>6, PartsAfter
<1>14. ASSUME NEW r \in Requests, ClaimStop(r) PROVE TypeOK'
  <2>1. request[r].at \notin Free /\ request[r].at \in Places
    BY <1>14, <1>1, <1>2, <1>3 DEF ClaimStop, Move, At, Free, Places, Visiting
  <2>2. /\ request[r].stop \in Ids
       /\ \A x \in RequestRows : x.stop = request[r].stop => Named(x)
    BY <2>1, <1>1, RowsGoOn
  <2>3. "begin" \in Places
    BY DEF Places
  <2>4. Resting.seen \in States \X (0..MaxRevision)
    BY Blanks DEF RequestRows
  <2>5. [request[r] EXCEPT !.at = "begin", !.seen = Resting.seen]
         \in RequestRows
    BY <1>2, <2>3, <2>4 DEF RequestRows
  <2>6. [request[r] EXCEPT !.at = "begin", !.seen = Resting.seen].stop
         = request[r].stop
    BY <1>2 DEF RequestRows
  <2>7. RequestsFit'
    BY <1>14, <1>1, <2>5, <2>6, <2>2, Blanks, PutFits DEF ClaimStop, Move, At, End
  <2>8. StopsFit'
    BY <1>14, <1>1, <2>2, ClaimFits
  <2>9. RestFits'
    BY <1>14, <1>1, <1>2, <1>3, Values, BoundsAreNat DEF ClaimStop, RestFits, Events
  <2>10. platform' \in Rows /\ ShopsFit'
    BY <1>14, <1>1 DEF ClaimStop, ShopsFit
  <2>. QED BY <2>7, <2>8, <2>9, <2>10, PartsAfter
<1>15. ASSUME NEW r \in Requests, StartRecovery(r) PROVE TypeOK'
  <2>1. request[r].at \notin Free /\ request[r].at \in Places
    BY <1>15, <1>1, <1>2, <1>3 DEF StartRecovery, Move, GoOn, At, Free, Places, Visiting
  <2>2. /\ request[r].stop \in Ids
       /\ \A x \in RequestRows : x.stop = request[r].stop => Named(x)
    BY <2>1, <1>1, RowsGoOn
  <2>3. "resume" \in Places
    BY DEF Places
  <2>4. [request[r] EXCEPT !.at = "resume"]
         \in RequestRows
    BY <1>2, <2>3 DEF RequestRows
  <2>5. [request[r] EXCEPT !.at = "resume"].stop
         = request[r].stop
    BY <1>2 DEF RequestRows
  <2>6. RequestsFit'
    BY <1>15, <1>1, <2>4, <2>5, <2>2, Blanks, PutFits DEF StartRecovery, Move, GoOn, At, End
  <2>7. StopsFit'
    BY <1>15, <1>1, <2>2, StartFits
  <2>8. platform' \in Rows /\ ShopsFit' /\ RestFits'
    BY <1>15, <1>1 DEF StartRecovery, ShopsFit, RestFits, history
  <2>. QED BY <2>6, <2>7, <2>8, PartsAfter
<1>16. ASSUME NEW r \in Requests, MarkRecovering(r) PROVE TypeOK'
  <2>1. request[r].at \notin Free /\ request[r].at \in Places
    BY <1>16, <1>1, <1>2, <1>3 DEF MarkRecovering, GoOn, At, Free, Places, Visiting
  <2>2. /\ request[r].stop \in Ids
       /\ \A x \in RequestRows : x.stop = request[r].stop => Named(x)
    BY <2>1, <1>1, RowsGoOn
  <2>3. "inspect" \in Places
    BY DEF Places
  <2>4. [request[r] EXCEPT !.at = "inspect"]
         \in RequestRows
    BY <1>2, <2>3 DEF RequestRows
  <2>5. [request[r] EXCEPT !.at = "inspect"].stop
         = request[r].stop
    BY <1>2 DEF RequestRows
  <2>6. RequestsFit'
    BY <1>16, <1>1, <2>4, <2>5, <2>2, Blanks, PutFits DEF MarkRecovering, GoOn, At, End
  <2>7. [platform EXCEPT !.state = "RECOVERING"] \in Rows
    BY <1>16, <1>1, <1>2, <1>3, <2>1, <2>2, HoldsFit, Values DEF Rows, RequestRows, Protecting, Recoverable,
       Verdict
  <2>8. platform' \in Rows
    BY <1>16, <1>1, <2>7 DEF MarkRecovering
  <2>9. StopsFit' /\ ShopsFit' /\ RestFits'
    BY <1>16, <1>1 DEF MarkRecovering, StopsFit, ShopsFit, RestFits, history
  <2>. QED BY <2>6, <2>8, <2>9, PartsAfter
<1>17. ASSUME NEW r \in Requests, InspectValidation(r) PROVE TypeOK'
  <2>1. request[r].at \notin Free /\ request[r].at \in Places
    BY <1>17, <1>1, <1>2, <1>3 DEF InspectValidation, GoOn, At, Free, Places, Visiting
  <2>2. /\ request[r].stop \in Ids
       /\ \A x \in RequestRows : x.stop = request[r].stop => Named(x)
    BY <2>1, <1>1, RowsGoOn
  <2>3. "restore" \in Places
    BY DEF Places
  <2>4. [request[r] EXCEPT !.at = "restore", !.todo = Shops]
         \in RequestRows
    BY <1>2, <2>3 DEF RequestRows
  <2>5. [request[r] EXCEPT !.at = "restore", !.todo = Shops].stop
         = request[r].stop
    BY <1>2 DEF RequestRows
  <2>6. "failing" \in Places
    BY DEF Places
  <2>7. [request[r] EXCEPT !.at = "failing"]
         \in RequestRows
    BY <1>2, <2>6 DEF RequestRows
  <2>8. [request[r] EXCEPT !.at = "failing"].stop
         = request[r].stop
    BY <1>2 DEF RequestRows
  <2>9. RequestsFit'
    BY <1>17, <1>1, <2>4, <2>5, <2>7, <2>8, <2>2, Blanks, PutFits DEF InspectValidation, GoOn, At, End
  <2>10. RestFits'
    BY <1>17, <1>1, CallFits DEF InspectValidation
  <2>11. platform' \in Rows /\ StopsFit' /\ ShopsFit'
    BY <1>17, <1>1 DEF InspectValidation, StopsFit, ShopsFit
  <2>. QED BY <2>9, <2>10, <2>11, PartsAfter
<1>18. ASSUME NEW r \in Requests, NEW s \in Shops, RestoreShop(r, s) PROVE TypeOK'
  <2>1. request[r].at \notin Free /\ request[r].at \in Places
    BY <1>18, <1>1, <1>2, <1>3 DEF RestoreShop, At, Free, Places, Visiting
  <2>2. /\ request[r].stop \in Ids
       /\ \A x \in RequestRows : x.stop = request[r].stop => Named(x)
    BY <2>1, <1>1, RowsGoOn
  <2>3. \A good \in BOOLEAN :
         /\ [request[r] EXCEPT !.todo = @ \ {s}, !.ok = @ /\ good] \in RequestRows
         /\ [request[r] EXCEPT !.todo = @ \ {s}, !.ok = @ /\ good].stop = request[r].stop
    BY <1>18, <1>1, <1>2, <1>3, <2>1, <2>2 DEF RequestRows
  <2>4. RequestsFit'
    BY <1>18, <1>1, <2>3, <2>2, Blanks, PutFits DEF RestoreShop, At, End, Worked
  <2>5. ShopsFit'
    BY <1>18, <1>1, RestoreFits
  <2>6. RestFits'
    BY <1>18, <1>1, CallFits DEF RestoreShop
  <2>7. platform' \in Rows /\ StopsFit'
    BY <1>18, <1>1 DEF RestoreShop, StopsFit
  <2>. QED BY <2>4, <2>5, <2>6, <2>7, PartsAfter
<1>19. ASSUME NEW r \in Requests, NEW s \in Shops, AllowShop(r, s) PROVE TypeOK'
  <2>1. request[r].at \notin Free /\ request[r].at \in Places
    BY <1>19, <1>1, <1>2, <1>3 DEF AllowShop, At, Free, Places, Visiting
  <2>2. /\ request[r].stop \in Ids
       /\ \A x \in RequestRows : x.stop = request[r].stop => Named(x)
    BY <2>1, <1>1, RowsGoOn
  <2>3. \A good \in BOOLEAN :
         /\ [request[r] EXCEPT !.todo = @ \ {s}, !.ok = @ /\ good] \in RequestRows
         /\ [request[r] EXCEPT !.todo = @ \ {s}, !.ok = @ /\ good].stop = request[r].stop
    BY <1>19, <1>1, <1>2, <1>3, <2>1, <2>2 DEF RequestRows
  <2>4. RequestsFit'
    BY <1>19, <1>1, <2>3, <2>2, Blanks, PutFits DEF AllowShop, At, End, Worked
  <2>5. ShopsFit'
    BY <1>19, <1>1, AllowFits
  <2>6. RestFits'
    BY <1>19, <1>1, CallFits DEF AllowShop
  <2>7. platform' \in Rows /\ StopsFit'
    BY <1>19, <1>1 DEF AllowShop, StopsFit
  <2>. QED BY <2>4, <2>5, <2>6, <2>7, PartsAfter
<1>20. ASSUME NEW r \in Requests, ProceedIf(r, "restore", "allow") PROVE TypeOK'
  <2>1. request[r].at \notin Free /\ request[r].at \in Places
    BY <1>20, <1>1, <1>2, <1>3 DEF ProceedIf, At, Free, Places, Visiting
  <2>2. /\ request[r].stop \in Ids
       /\ \A x \in RequestRows : x.stop = request[r].stop => Named(x)
    BY <2>1, <1>1, RowsGoOn
  <2>3. (IF request[r].ok THEN "allow" ELSE "failing") \in Places
    BY DEF Places
  <2>4. [request[r] EXCEPT !.at = IF request[r].ok THEN "allow" ELSE "failing", !.todo = Shops]
         \in RequestRows
    BY <1>2, <2>3 DEF RequestRows
  <2>5. [request[r] EXCEPT !.at = IF request[r].ok THEN "allow" ELSE "failing", !.todo = Shops].stop
         = request[r].stop
    BY <1>2 DEF RequestRows
  <2>6. RequestsFit'
    BY <1>20, <1>1, <2>4, <2>5, <2>2, Blanks, PutFits DEF ProceedIf, At, End
  <2>7. platform' \in Rows /\ StopsFit' /\ ShopsFit' /\ RestFits'
    BY <1>20, <1>1 DEF ProceedIf, StopsFit, ShopsFit, RestFits, history
  <2>. QED BY <2>6, <2>7, PartsAfter
<1>21. ASSUME NEW r \in Requests, ProceedIf(r, "allow", "release") PROVE TypeOK'
  <2>1. request[r].at \notin Free /\ request[r].at \in Places
    BY <1>21, <1>1, <1>2, <1>3 DEF ProceedIf, At, Free, Places, Visiting
  <2>2. /\ request[r].stop \in Ids
       /\ \A x \in RequestRows : x.stop = request[r].stop => Named(x)
    BY <2>1, <1>1, RowsGoOn
  <2>3. (IF request[r].ok THEN "release" ELSE "failing") \in Places
    BY DEF Places
  <2>4. [request[r] EXCEPT !.at = IF request[r].ok THEN "release" ELSE "failing", !.todo = Shops]
         \in RequestRows
    BY <1>2, <2>3 DEF RequestRows
  <2>5. [request[r] EXCEPT !.at = IF request[r].ok THEN "release" ELSE "failing", !.todo = Shops].stop
         = request[r].stop
    BY <1>2 DEF RequestRows
  <2>6. RequestsFit'
    BY <1>21, <1>1, <2>4, <2>5, <2>2, Blanks, PutFits DEF ProceedIf, At, End
  <2>7. platform' \in Rows /\ StopsFit' /\ ShopsFit' /\ RestFits'
    BY <1>21, <1>1 DEF ProceedIf, StopsFit, ShopsFit, RestFits, history
  <2>. QED BY <2>6, <2>7, PartsAfter
<1>22. ASSUME NEW r \in Requests, ReleaseHold(r) PROVE TypeOK'
  <2>1. request[r].at \notin Free /\ request[r].at \in Places
    BY <1>22, <1>1, <1>2, <1>3 DEF ReleaseHold, LostEmail, At, Free, Places, Visiting
  <2>2. /\ request[r].stop \in Ids
       /\ \A x \in RequestRows : x.stop = request[r].stop => Named(x)
    BY <2>1, <1>1, RowsGoOn
  <2>3. "recovered" \in Places
    BY DEF Places
  <2>4. NoHold \in Rows
    BY <1>22, <1>1, <1>2, <1>3, <2>1, <2>2, Blanks, HoldsSeenFits
  <2>5. [request[r] EXCEPT !.at = "recovered", !.look = NoHold]
         \in RequestRows
    BY <1>2, <2>3, <2>4 DEF RequestRows
  <2>6. [request[r] EXCEPT !.at = "recovered", !.look = NoHold].stop
         = request[r].stop
    BY <1>2 DEF RequestRows
  <2>7. RequestsFit'
    BY <1>22, <1>1, <2>5, <2>6, <2>2, Blanks, PutFits DEF ReleaseHold, LostEmail, At, End
  <2>8. HoldReleased(platform, request[r].look, request[r].by) \in Rows
    BY <1>1, <1>2, HoldsFit
  <2>9. platform' \in Rows
    BY <1>22, <1>1, <2>8 DEF ReleaseHold
  <2>10. RestFits'
    BY <1>22, <1>1, <1>2, <1>3, Values, BoundsAreNat DEF ReleaseHold, LostEmail, history, RestFits, Events
  <2>11. StopsFit' /\ ShopsFit'
    BY <1>22, <1>1 DEF ReleaseHold, StopsFit, ShopsFit
  <2>. QED BY <2>7, <2>9, <2>10, <2>11, PartsAfter
<1>23. ASSUME NEW r \in Requests, CloseStop(r) PROVE TypeOK'
  <2>1. request[r].at \notin Free /\ request[r].at \in Places
    BY <1>23, <1>1, <1>2, <1>3 DEF CloseStop, GoOn, At, Free, Places, Visiting
  <2>2. /\ request[r].stop \in Ids
       /\ \A x \in RequestRows : x.stop = request[r].stop => Named(x)
    BY <2>1, <1>1, RowsGoOn
  <2>3. "idle" \in Places
    BY DEF Places
  <2>4. [request[r] EXCEPT !.at = "idle"]
         \in RequestRows
    BY <1>2, <2>3 DEF RequestRows
  <2>5. [request[r] EXCEPT !.at = "idle"].stop
         = request[r].stop
    BY <1>2 DEF RequestRows
  <2>6. RequestsFit'
    BY <1>23, <1>1, <2>4, <2>5, <2>2, Blanks, PutFits DEF CloseStop, GoOn, At, End
  <2>7. /\ [stops[request[r].stop] EXCEPT !.state = "RECOVERED", !.key = None] \in StopRows
       /\ Signed([stops[request[r].stop] EXCEPT !.state = "RECOVERED", !.key = None])
    BY <1>3, <2>2 DEF StopRows, Signed, States, Protecting, Recoverable
  <2>8. StopsFit'
    BY <1>23, <1>1, <2>2, <2>7, PutStopFits DEF CloseStop
  <2>9. platform' \in Rows /\ ShopsFit' /\ RestFits'
    BY <1>23, <1>1 DEF CloseStop, ShopsFit, RestFits, history
  <2>. QED BY <2>6, <2>8, <2>9, PartsAfter
<1>24. ASSUME NEW r \in Requests, MarkIdle(r) PROVE TypeOK'
  <2>1. RequestsFit'
    BY <1>24, <1>1, Blanks, PutFits DEF MarkIdle, At, End
  <2>2. [platform EXCEPT !.state = "IDLE", !.stop = None] \in Rows
    BY <1>24, <1>1, <1>2, <1>3, HoldsFit, Values DEF Rows, RequestRows, Protecting, Recoverable, Verdict
  <2>3. platform' \in Rows
    BY <1>24, <1>1, <2>2 DEF MarkIdle
  <2>4. RestFits'
    BY <1>24, <1>1, <1>2, <1>3, Values, BoundsAreNat DEF MarkIdle, history, RestFits, Events
  <2>5. StopsFit' /\ ShopsFit'
    BY <1>24, <1>1 DEF MarkIdle, StopsFit, ShopsFit
  <2>. QED BY <2>1, <2>3, <2>4, <2>5, PartsAfter
<1>25. ASSUME NEW r \in Requests, FailStop(r) PROVE TypeOK'
  <2>1. request[r].at \notin Free /\ request[r].at \in Places
    BY <1>25, <1>1, <1>2, <1>3 DEF FailStop, GoOn, At, Free, Places, Visiting
  <2>2. /\ request[r].stop \in Ids
       /\ \A x \in RequestRows : x.stop = request[r].stop => Named(x)
    BY <2>1, <1>1, RowsGoOn
  <2>3. "failing!" \in Places
    BY DEF Places
  <2>4. [request[r] EXCEPT !.at = "failing!"]
         \in RequestRows
    BY <1>2, <2>3 DEF RequestRows
  <2>5. [request[r] EXCEPT !.at = "failing!"].stop
         = request[r].stop
    BY <1>2 DEF RequestRows
  <2>6. RequestsFit'
    BY <1>25, <1>1, <2>4, <2>5, <2>2, Blanks, PutFits DEF FailStop, GoOn, At, End
  <2>7. /\ [stops[request[r].stop] EXCEPT !.state = "RECOVERY_FAILED"] \in StopRows
       /\ Signed([stops[request[r].stop] EXCEPT !.state = "RECOVERY_FAILED"])
    BY <1>3, <2>2 DEF StopRows, Signed, States, Protecting, Recoverable
  <2>8. StopsFit'
    BY <1>25, <1>1, <2>2, <2>7, PutStopFits DEF FailStop
  <2>9. platform' \in Rows /\ ShopsFit' /\ RestFits'
    BY <1>25, <1>1 DEF FailStop, ShopsFit, RestFits, history
  <2>. QED BY <2>6, <2>8, <2>9, PartsAfter
<1>26. ASSUME NEW r \in Requests, FailPlatform(r) PROVE TypeOK'
  <2>1. RequestsFit'
    BY <1>26, <1>1, Blanks, PutFits DEF FailPlatform, At, End
  <2>2. [platform EXCEPT !.state = "RECOVERY_FAILED"] \in Rows
    BY <1>26, <1>1, <1>2, <1>3, HoldsFit, Values DEF Rows, RequestRows, Protecting, Recoverable, Verdict
  <2>3. platform' \in Rows
    BY <1>26, <1>1, <2>2 DEF FailPlatform
  <2>4. RestFits'
    BY <1>26, <1>1, <1>2, <1>3, Values, BoundsAreNat DEF FailPlatform, history, RestFits, Events
  <2>5. StopsFit' /\ ShopsFit'
    BY <1>26, <1>1 DEF FailPlatform, StopsFit, ShopsFit
  <2>. QED BY <2>1, <2>3, <2>4, <2>5, PartsAfter
<1>27. ASSUME NEW r \in Requests, SetEmailHold(r) PROVE TypeOK'
  <2>1. RequestsFit'
    BY <1>27, <1>1, Blanks, PutFits DEF SetEmailHold, At, End
  <2>2. EmailSet(platform, request[r].look, request[r].by) \in Rows
    BY <1>1, <1>2, HoldsFit
  <2>3. platform' \in Rows
    BY <1>27, <1>1, <2>2 DEF SetEmailHold
  <2>4. RestFits'
    BY <1>27, <1>1, <1>2, <1>3, Values, BoundsAreNat DEF SetEmailHold, RestFits, Events
  <2>5. StopsFit' /\ ShopsFit'
    BY <1>27, <1>1 DEF SetEmailHold, StopsFit, ShopsFit
  <2>. QED BY <2>1, <2>3, <2>4, <2>5, PartsAfter
<1>28. ASSUME NEW r \in Requests, ReleaseEmailHold(r) PROVE TypeOK'
  <2>1. RequestsFit'
    BY <1>28, <1>1, Blanks, PutFits DEF ReleaseEmailHold, LostEmail, At, End
  <2>2. EmailReleased(platform, request[r].look, request[r].by) \in Rows
    BY <1>1, <1>2, HoldsFit
  <2>3. platform' \in Rows
    BY <1>28, <1>1, <2>2 DEF ReleaseEmailHold
  <2>4. RestFits'
    BY <1>28, <1>1, <1>2, <1>3, Values, BoundsAreNat DEF ReleaseEmailHold, LostEmail, RestFits, Events
  <2>5. StopsFit' /\ ShopsFit'
    BY <1>28, <1>1 DEF ReleaseEmailHold, StopsFit, ShopsFit
  <2>. QED BY <2>1, <2>3, <2>4, <2>5, PartsAfter
<1>29. ASSUME NEW r \in Requests, NEW s \in Shops, SyncVisitedShop(r, s) PROVE TypeOK'
  <2>1. RequestsFit'
    BY <1>29, <1>1, Blanks, PutFits DEF SyncVisitedShop, ControlOf, At, End
  <2>2. ShopsFit'
    BY <1>29, <1>1, <1>2, <1>3, PrimaryIsShop DEF SyncVisitedShop, ControlOf, At, ShopsFit, ShopRows
  <2>3. RestFits'
    BY <1>29, <1>1, <1>2, <1>3, Values, BoundsAreNat DEF SyncVisitedShop, history, RestFits, Events
  <2>4. platform' \in Rows /\ StopsFit'
    BY <1>29, <1>1 DEF SyncVisitedShop, StopsFit
  <2>. QED BY <2>1, <2>2, <2>3, <2>4, PartsAfter
<1>30. ASSUME NEW r \in Requests, Die(r) PROVE TypeOK'
  <2>1. RequestsFit'
    BY <1>30, <1>1, Blanks, PutFits DEF Die, At, End
  <2>2. RestFits'
    BY <1>30, <1>1, <1>2, <1>3, Values, BoundsAreNat DEF Die, Mishap, history, RestFits, Events
  <2>3. platform' \in Rows /\ StopsFit' /\ ShopsFit'
    BY <1>30, <1>1 DEF Die, StopsFit, ShopsFit
  <2>. QED BY <2>1, <2>2, <2>3, PartsAfter
<1>31. ASSUME NEW r \in Requests, NEW a \in Actors, CreateStop(r, a) PROVE TypeOK'
  <2>1. RequestsFit' /\ StopsFit'
    BY <1>31, <1>1, CreateFits
  <2>2. RestFits'
    BY <1>31, <1>1, <1>2, <1>3, Values, BoundsAreNat DEF CreateStop, history, RestFits, Events
  <2>3. platform' \in Rows /\ ShopsFit'
    BY <1>31, <1>1 DEF CreateStop, ShopsFit
  <2>. QED BY <2>1, <2>2, <2>3, PartsAfter
<1>32. ASSUME NEW r \in Requests, NEW a \in Actors, StopIsStanding(r, a) PROVE TypeOK'
  <2>1. RequestsFit'
    BY <1>32, <1>1, <1>2, <1>3 DEF StopIsStanding, Told, RequestsFit
  <2>2. RestFits'
    BY <1>32, <1>1, <1>2, <1>3, Values, BoundsAreNat DEF StopIsStanding, Told, RestFits, Events
  <2>3. platform' \in Rows /\ StopsFit' /\ ShopsFit'
    BY <1>32, <1>1 DEF StopIsStanding, StopsFit, ShopsFit
  <2>. QED BY <2>1, <2>2, <2>3, PartsAfter
<1>33. ASSUME NEW r \in Requests, NEW a \in Actors, WatchdogRests(r, a) PROVE TypeOK'
  <2>1. RequestsFit'
    BY <1>33, <1>1, <1>2, <1>3 DEF WatchdogRests, Told, RequestsFit
  <2>2. RestFits'
    BY <1>33, <1>1, <1>2, <1>3, Values, BoundsAreNat DEF WatchdogRests, Told, RestFits, Events
  <2>3. platform' \in Rows /\ StopsFit' /\ ShopsFit'
    BY <1>33, <1>1 DEF WatchdogRests, StopsFit, ShopsFit
  <2>. QED BY <2>1, <2>2, <2>3, PartsAfter
<1>34. ASSUME NEW r \in Requests, NEW a \in Actors, BeginRecovery(r, a) PROVE TypeOK'
  <2>1. RequestsFit'
    BY <1>34, <1>1, <1>2, <1>3, RecoveringRow, PutFits DEF BeginRecovery
  <2>2. platform' \in Rows /\ StopsFit' /\ ShopsFit' /\ RestFits'
    BY <1>34, <1>1 DEF BeginRecovery, StopsFit, ShopsFit, RestFits, history
  <2>. QED BY <2>1, <2>2, PartsAfter
<1>35. ASSUME NEW r \in Requests, NEW a \in Actors, BeginEmail(r, a) PROVE TypeOK'
  <2>1. RequestsFit'
    BY <1>35, <1>1, <1>2, <1>3, EmailRow, PutFits DEF BeginEmail, HoldsSeen
  <2>2. RestFits'
    BY <1>35, <1>1, <1>2, <1>3, Values, BoundsAreNat DEF BeginEmail, Mishap, history, RestFits, Events
  <2>3. platform' \in Rows /\ StopsFit' /\ ShopsFit'
    BY <1>35, <1>1 DEF BeginEmail, StopsFit, ShopsFit
  <2>. QED BY <2>1, <2>2, <2>3, PartsAfter
<1>37. ASSUME AgentStops PROVE TypeOK'
  <2>1. RequestsFit'
    BY <1>37, <1>1, <1>2, <1>3 DEF AgentStops, RequestsFit
  <2>2. ShopsFit'
    BY <1>37, <1>1, <1>2, <1>3, PrimaryIsShop DEF AgentStops, ShopsFit, ShopRows
  <2>3. RestFits'
    BY <1>37, <1>1, <1>2, <1>3, Values, BoundsAreNat DEF AgentStops, Mishap, history, RestFits, Events
  <2>4. platform' \in Rows /\ StopsFit'
    BY <1>37, <1>1 DEF AgentStops, StopsFit
  <2>. QED BY <2>1, <2>2, <2>3, <2>4, PartsAfter
<1>38. ASSUME NEW a \in Machines, LoseControl(a) PROVE TypeOK'
  <2>1. RequestsFit'
    BY <1>38, <1>1, <1>2, <1>3 DEF LoseControl, RequestsFit
  <2>2. [platform EXCEPT !.hold = TRUE, !.state = "PARTIAL_FAILURE", !.changedBy = a,
                            !.holdBy = None, !.emailBy = None] \in Rows
    BY <1>38, <1>1, <1>2, <1>3, HoldsFit, Values DEF Rows, RequestRows, Protecting, Recoverable, Verdict
  <2>3. platform' \in Rows
    BY <1>38, <1>1, <2>2 DEF LoseControl
  <2>4. RestFits'
    BY <1>38, <1>1, <1>2, <1>3, Values, BoundsAreNat DEF LoseControl, Mishap, history, RestFits, Events
  <2>5. StopsFit' /\ ShopsFit'
    BY <1>38, <1>1 DEF LoseControl, StopsFit, ShopsFit
  <2>. QED BY <2>1, <2>3, <2>4, <2>5, PartsAfter
<1>39. ASSUME NEW r \in Requests, ReadVisited(r) PROVE TypeOK'
  <2>1. [NoHold EXCEPT !.hold = platform.hold, !.state = platform.state] \in Rows
    BY <1>1, Blanks DEF Rows
  <2>. DEFINE look == [NoHold EXCEPT !.hold = platform.hold, !.state = platform.state]
              row == [request[r] EXCEPT !.at = "visit!", !.look = look]
  <2>. HIDE DEF look
  <2>2. row \in RequestRows /\ Named(row)
    BY <1>2, <2>1 DEF look, RequestRows, Places, Named, Free, Visiting
  <2>3. Put(r, row)
    BY <1>39 DEF ReadVisited, look
  <2>4. RequestsFit'
    BY <1>1, <2>2, <2>3, PutFits
  <2>5. platform' \in Rows /\ StopsFit' /\ ShopsFit' /\ RestFits'
    BY <1>39, <1>1 DEF ReadVisited, StopsFit, ShopsFit, RestFits, history
  <2>. QED BY <2>4, <2>5, PartsAfter
<1>40. ASSUME NEW s \in Shops, SyncCatalog(s) PROVE TypeOK'
  <2>1. ShopsFit'
    BY <1>40, <1>1, SyncFits DEF SyncCatalog
  <2>2. RestFits'
    BY <1>40, <1>1, DisturbedFits, BoundsAreNat DEF SyncCatalog, Mishap, history, RestFits
  <2>3. platform' \in Rows /\ StopsFit' /\ RequestsFit'
    BY <1>40, <1>1 DEF SyncCatalog, StopsFit, RequestsFit
  <2>. QED BY <2>1, <2>2, <2>3, PartsAfter
<1>41. ASSUME NEW r \in Requests, NEW s \in Shops, BackfillShop(r, s) PROVE TypeOK'
  <2>1. /\ [Resting EXCEPT !.at = "visit", !.todo = {s}] \in RequestRows
        /\ Named([Resting EXCEPT !.at = "visit", !.todo = {s}])
    BY Blanks DEF RequestRows, Places, Named, Free, Visiting
  <2>2. RequestsFit'
    BY <1>41, <1>1, <2>1, PutFits DEF BackfillShop, RequestsFit
  <2>3. ShopsFit'
    BY <1>41, <1>1, SyncFits DEF BackfillShop
  <2>4. RestFits'
    BY <1>41, <1>1, DisturbedFits, BoundsAreNat DEF BackfillShop, Mishap, history, RestFits
  <2>5. platform' \in Rows /\ StopsFit'
    BY <1>41, <1>1 DEF BackfillShop, StopsFit
  <2>. QED BY <2>2, <2>3, <2>4, <2>5, PartsAfter
<1>. QED
  BY <1>4, <1>5, <1>6, <1>7, <1>8, <1>9, <1>10, <1>11, <1>12, <1>13, <1>14, <1>15, <1>16, <1>17, <1>18, <1>19,
     <1>20, <1>21, <1>22, <1>23, <1>24, <1>25, <1>26, <1>27, <1>28, <1>29, <1>30, <1>31, <1>32, <1>33, <1>34,
     <1>35, <1>37, <1>38, <1>39, <1>40, <1>41
  DEF Next, Continue, StopStep, RecoveryStep, Begin, BeginVisit

-----------------------------------------------------------------------------
(* What a step may do to a request, the controls and what is stopped *)

\* A request goes on with its control, lets go of it, or begins something else.
Goes(q) ==
    /\ request'[q].at \in {"rest"} \union Visiting \/ request'[q].by \in Actors
    /\ \/ request'[q].at \in Loose
       \/ /\ request'[q].stop = request[q].stop
          /\ request'[q].by = request[q].by
          /\ \/ request[q].at \in Stopping /\ request'[q].at \in Stopping
             \/ request[q].at \in Opening /\ request'[q].at \in Opening
GoesOrStays == \A q \in Requests : request'[q] = request[q] \/ Goes(q)

SameControls ==
    \A c \in Ids :
      /\ stops'[c].state = stops[c].state
      /\ stops'[c].key = stops[c].key
      /\ stops'[c].by = stops[c].by
      /\ stops'[c].revision = stops[c].revision

EventsGrow == events \subseteq events'
NoneActivated == \A c \in Ids : stops'[c].state = "ACTIVE" => stops[c].state = "ACTIVE"

\* What is held, closed and withdrawn stays so.
Keeps ==
    Sound' /\ platform.hold =>
      /\ platform'.hold
      /\ \A s \in Shops : (Closed(s) => Closed(s)') /\ (Withdrawn(s) => Withdrawn(s)')
StopsGoOn == \A q \in Requests : request'[q] = request[q] \/ (Sound' => StopOfHolds(q)')

\* Who decides names its control.
LEMMA DecidersName ==
  ASSUME TypeOK
  PROVE  \A q \in Requests : request[q].at \in Deciding \union {"claim"} => request[q].stop \in Ids
<1>1. \A q \in Requests : request[q].stop = None => request[q].at \notin Deciding \union {"claim"}
  BY DEF TypeOK, Deciding, Stopping, Opening
<1>. QED
  BY <1>1 DEF TypeOK

\* A request that only goes on leaves the controls in the hands they are in.
LEMMA GoingOnKeepsControl ==
  ASSUME TypeOK, TypeOK', Control, ActorsAreKnown, GoesOrStays, SameControls, EventsGrow
  PROVE  Control' /\ ActorsAreKnown'
<1>2. \A q \in Requests : request[q].at \in Deciding \union {"claim"} => request[q].stop \in Ids
  BY DecidersName
<1>3. ActorsAreKnown'
  BY DEF ActorsAreKnown, GoesOrStays, Goes, At, Visiting
<1>4. ControlsHaveKeys'
  BY DEF Control, ControlsHaveKeys, SameControls
<1>5. ControlIsHeld'
  BY <1>2 DEF Control, ControlIsHeld, SameControls, GoesOrStays, Goes, At, Deciding, Stopping, Opening, Loose,
     Free, Visiting
<1>6. DecidedByOne'
  BY DEF Control, DecidedByOne, GoesOrStays, Goes, Deciding, Stopping, Opening, Loose, Free, Visiting
<1>7. RecovererIsAnother'
  BY <1>2 DEF Control, RecovererIsAnother, SameControls, GoesOrStays, Goes, At, Deciding, Stopping, Opening,
     Loose, Free, Visiting
<1>8. Standing' = Standing
  BY DEF Standing, SameControls
<1>9. OneStands'
  BY <1>8 DEF Control, OneStands, EventsGrow
<1>. QED
  BY <1>3, <1>4, <1>5, <1>6, <1>7, <1>9 DEF Control

\* A stop goes on holding while nothing is opened and no other becomes active.
LEMMA KeepingStops ==
  ASSUME StopsHold, ActiveMeansStopped, StopsGoOn, Keeps, EventsGrow, NoneActivated
  PROVE  StopsHold' /\ ActiveMeansStopped'
<1>1. Sound' => Sound
  BY DEF Sound, Without, EventsGrow
<1>2. ASSUME Sound', NEW q \in Requests PROVE StopOfHolds(q)'
  <2>1. CASE request'[q] = request[q]
    <3>1. StopOfHolds(q)
      BY <1>1, <1>2 DEF StopsHold
    <3>. QED
      BY <3>1, <2>1, <1>2 DEF StopOfHolds, Keeps, At, Stopping
  <2>2. CASE request'[q] # request[q]
    BY <2>2, <1>2 DEF StopsGoOn
  <2>. QED
    BY <2>1, <2>2
<1>3. StopsHold'
  BY <1>2 DEF StopsHold
<1>4. ActiveMeansStopped'
  BY <1>1 DEF ActiveMeansStopped, Keeps, NoneActivated, Sound, Closed, Withdrawn
<1>. QED
  BY <1>3, <1>4

\* While a stop is being undone, no other stands, unless there were two.
LEMMA OpeningIsAlone ==
  ASSUME TypeOK, Control, NEW r \in Requests, request[r].at \in Opening, "twoStops" \notin events
  PROVE  /\ request[r].stop \in Standing
         /\ \A c \in Standing : c = request[r].stop
         /\ \A q \in Requests : request[q].at \notin Stopping
         /\ \A c \in Ids : stops[c].state # "ACTIVE"
<1>1. \A q \in Requests : request[q].at \in Stopping \union Opening => request[q].stop \in Ids
  BY DecidersName DEF Deciding
<1>2. request[r].stop \in Standing
  BY <1>1 DEF Control, ControlIsHeld, ControlsHaveKeys, Standing
<1>3. \A c \in Standing : c = request[r].stop
  BY <1>2 DEF Control, OneStands
<1>4. \A c \in Ids : stops[c].state \in {"ACTIVE", "ACTIVATING"} => c = request[r].stop
  BY <1>3 DEF Control, ControlsHaveKeys, Standing
<1>5. stops[request[r].stop].state = "RECOVERING"
  BY DEF Control, ControlIsHeld
<1>6. ASSUME NEW q \in Requests, request[q].at \in Stopping PROVE FALSE
  BY <1>1, <1>4, <1>5, <1>6 DEF Control, ControlIsHeld
<1>. QED
  BY <1>2, <1>3, <1>4, <1>5, <1>6

\* So whatever it opens, no stop that holds is undone.
LEMMA OpeningKeepsStops ==
  ASSUME TypeOK, Control, NEW r \in Requests, request[r].at \in Opening, EventsGrow, NoneActivated,
         \A q \in Requests : request'[q] = request[q] \/ request'[q].at \notin Stopping
  PROVE  StopsHold' /\ ActiveMeansStopped'
<1>1. Sound' => "twoStops" \notin events
  BY DEF Sound, Without, EventsGrow
<1>2. StopsHold'
  BY <1>1, OpeningIsAlone DEF StopsHold, StopOfHolds, At, Stopping
<1>3. ActiveMeansStopped'
  BY <1>1, OpeningIsAlone DEF ActiveMeansStopped, NoneActivated, Sound
<1>. QED
  BY <1>2, <1>3

\* A request that decides its control alone moves it, and keeps or leaves it.
Deposes(r, c) ==
    /\ stops'[c].by = stops[c].by
    /\ stops'[c].state # "NONE"
    /\ stops'[c].key = stops[c].key \/ (stops'[c].state = "RECOVERED" /\ stops'[c].key = None)
    /\ \/ request'[r].at \in Loose /\ stops'[c].state \notin {"ACTIVATING", "RECOVERY_REQUESTED", "RECOVERING"}
       \/ /\ At(r, "begin")'
          /\ stops'[c].state = "RECOVERY_REQUESTED" /\ stops'[c].revision < MaxRevision
       \/ /\ request'[r].at \in Opening
          /\ stops'[c].state = "RECOVERING"
    /\ request'[r].at \in Loose \/ (request'[r].stop = c /\ request'[r].by = request[r].by /\ request[r].at \notin
       Stopping)

LEMMA MovingKeepsControl ==
  ASSUME TypeOK, TypeOK', Control, ActorsAreKnown, EventsGrow, NEW r \in Requests, NEW c \in Ids,
         request[r].stop = c, request[r].at \in Deciding \union {"claim"}, stops[c].key # None,
         \A q \in Requests : q # r => request'[q] = request[q],
         \A q \in Requests : q # r /\ request[q].at \in Deciding => request[q].stop # c,
         At(r, "rest")' \/ request'[r].by = request[r].by,
         \A d \in Ids : d # c => stops'[d] = stops[d],
         At(r, "claim") => request[r].by # stops[c].by,
         Deposes(r, c)
  PROVE  Control' /\ ActorsAreKnown'
<1>1. \A q \in Requests : request[q].at \in Deciding \union {"claim"} => request[q].stop \in Ids
  BY DecidersName
<1>2. ActorsAreKnown'
  BY DEF ActorsAreKnown, At, Deciding, Stopping, Opening, Visiting
<1>3. ControlsHaveKeys'
  BY DEF Control, ControlsHaveKeys, Deposes
<1>4. ControlIsHeld'
  BY <1>1 DEF Control, ControlIsHeld, Deposes, At, Deciding, Stopping, Opening, Loose, Free, Visiting
<1>5. DecidedByOne'
  BY DEF Control, DecidedByOne, Deposes, At, Deciding, Stopping, Opening, Loose, Free, Visiting
<1>6. RecovererIsAnother'
  <2>1. ASSUME NEW q \in Requests, q # r, request'[q].at \in Opening \union {"claim", "begin"}
        PROVE  stops'[request'[q].stop].by # request'[q].by
    BY <1>1, <2>1 DEF Control, RecovererIsAnother, Deposes, Deciding
  <2>2. ASSUME request'[r].at \in Opening \union {"claim", "begin"}
        PROVE  stops'[request'[r].stop].by # request'[r].by /\ ~At(r, "claim")'
    <3>1. request'[r].at \notin Loose /\ ~At(r, "claim")'
      BY <2>2 DEF Deposes, Opening, Loose, Free, At, Visiting
    <3>2. request[r].at \in Opening \union {"claim", "begin"}
      BY <3>1 DEF Deposes, Deciding
    <3>3. stops[c].by # request[r].by
      BY <3>2 DEF Control, RecovererIsAnother
    <3>. QED
      BY <3>1, <3>3 DEF Deposes
  <2>. QED
    BY <2>1, <2>2 DEF Control, RecovererIsAnother, At
<1>7. Standing' \subseteq Standing
  BY DEF Standing, Deposes
<1>8. OneStands'
  BY <1>7 DEF Control, OneStands, EventsGrow
<1>. QED
  BY <1>2, <1>3, <1>4, <1>5, <1>6, <1>8 DEF Control

-----------------------------------------------------------------------------
(* The steps *)

\* What a round does to its request.
LEMMA WorkedRow ==
  ASSUME NEW r \in Requests, NEW s \in Shops, NEW good \in BOOLEAN, Worked(r, s, good),
         request \in [Requests -> RequestRows]
  PROVE  /\ \A q \in Requests : q # r => request'[q] = request[q]
         /\ request'[r].at = request[r].at
         /\ request'[r].by = request[r].by
         /\ request'[r].stop = request[r].stop
         /\ request'[r].todo = request[r].todo \ {s}
         /\ request'[r].ok <=> request[r].ok /\ good
  BY DEF Worked, Put, RequestRows

\* A shop of the first round is blocked, or the request remembers a failure.
LEMMA BlockGood ==
  ASSUME IInv, TypeOK', NEW r \in Requests, NEW s \in Shops, BlockShop(r, s)
  PROVE  GoesOrStays /\ EventsGrow /\ Keeps /\ StopsGoOn
<1>1. /\ request \in [Requests -> RequestRows]
      /\ shop \in [Shops -> ShopRows]
  BY Parts DEF IInv, RequestsFit, ShopsFit
<1>2. shop' \in {shop, [shop EXCEPT ![s].control = "BLOCKED"]} /\ UNCHANGED platform
  BY DEF BlockShop
<1>3. EventsGrow
  BY DEF BlockShop, Answered, Failed, EventsGrow
<1>4. Keeps
  BY <1>1, <1>2 DEF Keeps, Closed, Withdrawn, ShopRows
<1>5. PICK good \in BOOLEAN : Worked(r, s, good) /\ (good => shop' = [shop EXCEPT ![s].control = "BLOCKED"])
  BY DEF BlockShop
<1>6. good => Closed(s)'
  BY <1>1, <1>5 DEF Closed, ShopRows
<1>7. request[r].at = "block"
  BY DEF BlockShop, At
<1>8. Sound' => StopOfHolds(r) /\ platform.hold
  BY <1>3, <1>7 DEF IInv, StopsHold, StopOfHolds, Sound, Without, EventsGrow, Stopping
<1>9. Sound' => StopOfHolds(r)'
  BY <1>1, <1>2, <1>4, <1>5, <1>6, <1>7, <1>8, WorkedRow DEF StopOfHolds, Keeps, At, Stopping
<1>10. GoesOrStays
  BY <1>1, <1>5, <1>7, WorkedRow DEF GoesOrStays, Goes, IInv, ActorsAreKnown, At, Stopping, Visiting
<1>11. StopsGoOn
  BY <1>1, <1>5, <1>9, WorkedRow DEF StopsGoOn
<1>. QED
  BY <1>3, <1>4, <1>10, <1>11

\* The same of the second round: the products are withdrawn, under the hold.
LEMMA UnpublishGood ==
  ASSUME IInv, TypeOK', NEW r \in Requests, NEW s \in Shops, UnpublishShop(r, s)
  PROVE  GoesOrStays /\ EventsGrow /\ Keeps /\ StopsGoOn
<1>1. /\ request \in [Requests -> RequestRows]
      /\ shop \in [Shops -> ShopRows]
  BY Parts DEF IInv, RequestsFit, ShopsFit
<1>2. shop' = Synced(s) \/ shop' \in PartlySynced(s)
  BY DEF UnpublishShop
<1>3. EventsGrow /\ UNCHANGED platform
  BY DEF UnpublishShop, Answered, Failed, EventsGrow
<1>4. Keeps
  BY <1>1, <1>2, <1>3, SyncDoes DEF Keeps, Closed, Withdrawn, ShopsFit
<1>5. PICK good \in BOOLEAN : Worked(r, s, good) /\ (good => shop' = Synced(s))
  BY DEF UnpublishShop
<1>6. good /\ platform.hold => Withdrawn(s)'
  BY <1>1, <1>2, <1>5, SyncDoes DEF Withdrawn, ShopsFit
<1>7. request[r].at = "unpublish"
  BY DEF UnpublishShop, At
<1>8. Sound' => StopOfHolds(r) /\ platform.hold
  BY <1>3, <1>7 DEF IInv, StopsHold, StopOfHolds, Sound, Without, EventsGrow, Stopping
<1>9. Sound' => StopOfHolds(r)'
  BY <1>1, <1>3, <1>4, <1>5, <1>6, <1>7, <1>8, WorkedRow DEF StopOfHolds, Keeps, At, Stopping
<1>10. GoesOrStays
  BY <1>1, <1>5, <1>7, WorkedRow DEF GoesOrStays, Goes, IInv, ActorsAreKnown, At, Stopping, Visiting
<1>11. StopsGoOn
  BY <1>1, <1>5, <1>9, WorkedRow DEF StopsGoOn
<1>. QED
  BY <1>3, <1>4, <1>10, <1>11

\* Nothing is recorded of a shop but what was published.
LEMMA UnpublishControls ==
  ASSUME IInv, NEW r \in Requests, NEW s \in Shops, UnpublishShop(r, s)
  PROVE  SameControls /\ NoneActivated
<1>1. stops \in [Ids -> StopRows]
  BY Parts DEF IInv, StopsFit
<1>2. \/ UNCHANGED stops
      \/ stops' = [stops EXCEPT ![request[r].stop].saved = @ \union Unpublished(s)]
  BY DEF UnpublishShop, PutStop
<1>3. SameControls
  BY <1>1, <1>2 DEF SameControls, StopRows
<1>. QED
  BY <1>3 DEF SameControls, NoneActivated

\* Before anything is put back nothing is opened.
LEMMA InspectGood ==
  ASSUME IInv, TypeOK', NEW r \in Requests, InspectValidation(r)
  PROVE  GoesOrStays /\ StopsGoOn
<1>1. request \in [Requests -> RequestRows]
  BY Parts DEF IInv, RequestsFit
<1>2. \/ Put(r, [request[r] EXCEPT !.at = "restore", !.todo = Shops])
      \/ Put(r, [request[r] EXCEPT !.at = "failing"])
  BY DEF InspectValidation, GoOn
<1>3. /\ \A q \in Requests : q # r => request'[q] = request[q]
      /\ request'[r].at \in {"restore", "failing"}
      /\ request'[r].by = request[r].by
      /\ request'[r].stop = request[r].stop
  <2>1. CASE Put(r, [request[r] EXCEPT !.at = "restore", !.todo = Shops])
    BY <1>1, <2>1 DEF Put, RequestRows
  <2>2. CASE Put(r, [request[r] EXCEPT !.at = "failing"])
    BY <1>1, <2>2 DEF Put, RequestRows
  <2>. QED
    BY <1>2, <2>1, <2>2
<1>4. request[r].at = "inspect"
  BY DEF InspectValidation, At
<1>5. GoesOrStays
  BY <1>3, <1>4 DEF GoesOrStays, Goes, IInv, ActorsAreKnown, At, Opening, Visiting
<1>6. StopsGoOn
  BY <1>3 DEF StopsGoOn, StopOfHolds, At, Stopping
<1>. QED
  BY <1>5, <1>6

\* A shop is written with what the row says, or the run is remembered.
LEMMA VisitKeeps ==
  ASSUME IInv, NEW r \in Requests, NEW s \in Shops, SyncVisitedShop(r, s)
  PROVE  Keeps
<1>1. shop \in [Shops -> ShopRows]
  BY Parts DEF IInv, ShopsFit
<1>. DEFINE v == ControlOf(request[r].look)
<1>2. shop' = [shop EXCEPT ![s].control = v] /\ UNCHANGED platform
  BY DEF SyncVisitedShop
<1>3. Sound' => v = ControlOf(platform)
  BY DEF SyncVisitedShop, Sound, Without
<1>4. Sound' /\ platform.hold => v = "BLOCKED"
  BY <1>3 DEF ControlOf
<1>. HIDE DEF v
<1>. QED
  BY <1>1, <1>2, <1>4 DEF Keeps, Closed, Withdrawn, ShopRows

\* A synchronisation under the hold opens nothing.
LEMMA SyncKeeps ==
  ASSUME IInv, NEW s \in Shops, shop' = Synced(s) \/ shop' \in PartlySynced(s), UNCHANGED platform
  PROVE  Keeps
<1>1. ShopsFit
  BY Parts DEF IInv
<1>. QED
  BY <1>1, SyncDoes DEF Keeps, Closed, Withdrawn

Good == Control /\ ActorsAreKnown /\ StopsHold /\ ActiveMeansStopped /\ EmailSetterIsKnown

\* What the row knows of the hold on e-mail stays as long as nobody writes it.
LEMMA EmailStays ==
  ASSUME IInv, EventsGrow, platform'.email = platform.email, platform'.emailBy = platform.emailBy,
         emailSetter' = emailSetter
  PROVE  EmailSetterIsKnown'
  BY DEF IInv, EmailSetterIsKnown, EventsGrow

\* The steps of a recovery that open something.
LEMMA OpenGood ==
  ASSUME IInv, TypeOK', NEW r \in Requests, request[r].at \in Opening,
         \A q \in Requests : q # r => request'[q] = request[q],
         \/ At(r, "rest")'
         \/ request'[r].at \in Opening /\ request'[r].stop = request[r].stop /\ request'[r].by = request[r].by,
         UNCHANGED stops, EventsGrow, EmailSetterIsKnown'
  PROVE  Good'
<1>1. GoesOrStays
  BY DEF GoesOrStays, Goes, IInv, ActorsAreKnown, At, Opening, Loose, Free, Visiting
<1>2. SameControls /\ NoneActivated
  BY DEF SameControls, NoneActivated
<1>3. \A q \in Requests : request'[q] = request[q] \/ request'[q].at \notin Stopping
  BY DEF At, Opening, Stopping
<1>. QED
  BY <1>1, <1>2, <1>3, GoingOnKeepsControl, OpeningKeepsStops DEF IInv, Good

LEMMA RestoreGood ==
  ASSUME IInv, TypeOK', NEW r \in Requests, NEW s \in Shops, RestoreShop(r, s)
  PROVE  Good'
<1>1. request \in [Requests -> RequestRows]
  BY Parts DEF IInv, RequestsFit
<1>2. PICK good \in BOOLEAN : Worked(r, s, good)
  BY DEF RestoreShop
<1>3. EventsGrow /\ UNCHANGED <<platform, stops, emailSetter>>
  BY DEF RestoreShop, Answered, Failed, EventsGrow, history
<1>4. request[r].at = "restore"
  BY DEF RestoreShop, At
<1>. QED
  BY <1>1, <1>2, <1>3, <1>4, WorkedRow, EmailStays, OpenGood DEF Opening

LEMMA AllowGood ==
  ASSUME IInv, TypeOK', NEW r \in Requests, NEW s \in Shops, AllowShop(r, s)
  PROVE  Good'
<1>1. request \in [Requests -> RequestRows]
  BY Parts DEF IInv, RequestsFit
<1>2. PICK good \in BOOLEAN : Worked(r, s, good)
  BY DEF AllowShop
<1>3. EventsGrow /\ UNCHANGED <<platform, stops, emailSetter>>
  BY DEF AllowShop, Answered, Failed, EventsGrow, history
<1>4. request[r].at = "allow"
  BY DEF AllowShop, At
<1>. QED
  BY <1>1, <1>2, <1>3, <1>4, WorkedRow, EmailStays, OpenGood DEF Opening

LEMMA ReleaseGood ==
  ASSUME IInv, TypeOK', NEW r \in Requests, ReleaseHold(r)
  PROVE  Good'
<1>1. request \in [Requests -> RequestRows] /\ platform \in Rows
  BY Parts DEF IInv, RequestsFit
<1>2. /\ \A q \in Requests : q # r => request'[q] = request[q]
      /\ \/ At(r, "rest")'
         \/ At(r, "recovered")' /\ request'[r].stop = request[r].stop /\ request'[r].by = request[r].by
  <2>1. End(r) \/ Put(r, [request[r] EXCEPT !.at = "recovered", !.look = NoHold])
    BY DEF ReleaseHold
  <2>2. CASE End(r)
    BY <1>1, <2>2 DEF Put, End, Resting, At
  <2>3. CASE Put(r, [request[r] EXCEPT !.at = "recovered", !.look = NoHold])
    BY <1>1, <2>3 DEF Put, At, RequestRows
  <2>. QED
    BY <2>1, <2>2, <2>3
<1>3. EventsGrow /\ UNCHANGED <<stops, emailSetter>>
  BY DEF ReleaseHold, EventsGrow, history
<1>4. EmailSetterIsKnown'
  BY <1>1, <1>3 DEF ReleaseHold, HoldReleased, LostEmail, IInv, EmailSetterIsKnown, EventsGrow, Rows
<1>5. request[r].at = "release!"
  BY DEF ReleaseHold, At
<1>. QED
  BY <1>2, <1>3, <1>4, <1>5, OpenGood DEF Opening, At

\* The steps that decide a control.
LEMMA DecideGood ==
  ASSUME IInv, TypeOK', NEW r \in Requests, request[r].at \in {"begin"} \union Opening,
         \A q \in Requests : q # r => request'[q] = request[q],
         request'[r].at \notin Stopping, request'[r].by = request[r].by,
         \A d \in Ids : d # request[r].stop => stops'[d] = stops[d],
         Deposes(r, request[r].stop), stops'[request[r].stop].state # "ACTIVE",
         UNCHANGED <<platform, shop, events, emailSetter>>
  PROVE  Good'
<1>1. request[r].stop \in Ids
  BY DecidersName DEF IInv, Deciding
<1>2. stops[request[r].stop].key # None
  BY <1>1 DEF IInv, Control, ControlIsHeld, ControlsHaveKeys, At
<1>3. \A q \in Requests : q # r /\ request[q].at \in Deciding => request[q].stop # request[r].stop
  BY DEF IInv, Control, DecidedByOne, Deciding
<1>4. EventsGrow /\ Keeps
  BY DEF EventsGrow, Keeps, Closed, Withdrawn
<1>5. request[r].at \in Deciding \union {"claim"} /\ ~At(r, "claim")
  BY DEF Deciding, Opening, At
<1>6. Control' /\ ActorsAreKnown'
  BY <1>1, <1>2, <1>3, <1>4, <1>5, MovingKeepsControl DEF IInv
<1>7. NoneActivated /\ StopsGoOn
  BY DEF NoneActivated, StopsGoOn, StopOfHolds, Stopping, At
<1>8. EmailSetterIsKnown'
  BY <1>4, EmailStays
<1>. QED
  BY <1>4, <1>6, <1>7, <1>8, KeepingStops DEF IInv, Good

LEMMA StartGood ==
  ASSUME IInv, TypeOK', NEW r \in Requests, StartRecovery(r)
  PROVE  Good'
<1>. DEFINE c == request[r].stop
<1>1. request \in [Requests -> RequestRows] /\ stops \in [Ids -> StopRows] /\ request[r].at = "begin"
  BY Parts DEF IInv, RequestsFit, StopsFit, StartRecovery, At
<1>2. c \in Ids
  BY <1>1, DecidersName DEF IInv, Deciding
<1>3. /\ \A q \in Requests : q # r => request'[q] = request[q]
      /\ request'[r].at = "resume" /\ request'[r].by = request[r].by /\ request'[r].stop = c
  BY <1>1 DEF StartRecovery, GoOn, Put, RequestRows
<1>4. /\ \A d \in Ids : d # c => stops'[d] = stops[d]
      /\ stops'[c].by = stops[c].by /\ stops'[c].state = "RECOVERING" /\ stops'[c].key = stops[c].key
  BY <1>1, <1>2 DEF StartRecovery, Move, PutStop, StopRows
<1>5. UNCHANGED <<platform, shop, events, emailSetter>>
  BY DEF StartRecovery, history
<1>6. Deposes(r, c)
  BY <1>1, <1>3, <1>4 DEF Deposes, Opening, Stopping
<1>. QED
  BY <1>1, <1>3, <1>4, <1>5, <1>6, DecideGood DEF Stopping

LEMMA CloseGood ==
  ASSUME IInv, TypeOK', NEW r \in Requests, CloseStop(r)
  PROVE  Good'
<1>. DEFINE c == request[r].stop
<1>1. request \in [Requests -> RequestRows] /\ stops \in [Ids -> StopRows] /\ request[r].at = "recovered"
  BY Parts DEF IInv, RequestsFit, StopsFit, CloseStop, At
<1>2. c \in Ids
  BY <1>1, DecidersName DEF IInv, Deciding, Opening
<1>3. /\ \A q \in Requests : q # r => request'[q] = request[q]
      /\ request'[r].at = "idle" /\ request'[r].by = request[r].by
  BY <1>1 DEF CloseStop, GoOn, Put, RequestRows
<1>4. /\ \A d \in Ids : d # c => stops'[d] = stops[d]
      /\ stops'[c].by = stops[c].by /\ stops'[c].state = "RECOVERED" /\ stops'[c].key = None
  BY <1>1, <1>2 DEF CloseStop, PutStop, StopRows
<1>5. UNCHANGED <<platform, shop, events, emailSetter>>
  BY DEF CloseStop, history
<1>6. Deposes(r, c)
  BY <1>3, <1>4 DEF Deposes, Loose
<1>. QED
  BY <1>1, <1>3, <1>4, <1>5, <1>6, DecideGood DEF Stopping, Opening

LEMMA FailGood ==
  ASSUME IInv, TypeOK', NEW r \in Requests, FailStop(r)
  PROVE  Good'
<1>. DEFINE c == request[r].stop
<1>1. request \in [Requests -> RequestRows] /\ stops \in [Ids -> StopRows] /\ request[r].at = "failing"
  BY Parts DEF IInv, RequestsFit, StopsFit, FailStop, At
<1>2. c \in Ids
  BY <1>1, DecidersName DEF IInv, Deciding, Opening
<1>3. /\ \A q \in Requests : q # r => request'[q] = request[q]
      /\ request'[r].at = "failing!" /\ request'[r].by = request[r].by
  BY <1>1 DEF FailStop, GoOn, Put, RequestRows
<1>4. /\ \A d \in Ids : d # c => stops'[d] = stops[d]
      /\ stops'[c].by = stops[c].by /\ stops'[c].state = "RECOVERY_FAILED" /\ stops'[c].key = stops[c].key
  BY <1>1, <1>2 DEF FailStop, PutStop, StopRows
<1>5. UNCHANGED <<platform, shop, events, emailSetter>>
  BY DEF FailStop, history
<1>6. Deposes(r, c)
  BY <1>3, <1>4 DEF Deposes, Loose
<1>. QED
  BY <1>1, <1>3, <1>4, <1>5, <1>6, DecideGood DEF Stopping, Opening

\* A stop that ends without a failure has closed everything.
LEMMA FinishGood ==
  ASSUME IInv, TypeOK', NEW r \in Requests, FinishStop(r)
  PROVE  Good'
<1>. DEFINE c == request[r].stop
<1>1. request \in [Requests -> RequestRows] /\ stops \in [Ids -> StopRows] /\ request[r].at = "finish!"
  BY Parts DEF IInv, RequestsFit, StopsFit, FinishStop, At
<1>2. c \in Ids
  BY <1>1, DecidersName DEF IInv, Deciding, Stopping
<1>3. /\ \A q \in Requests : q # r => request'[q] = request[q]
      /\ At(r, "rest")'
  BY <1>1 DEF FinishStop, End, Put, Resting, At
<1>4. /\ \A d \in Ids : d # c => stops'[d] = stops[d]
      /\ stops'[c].by = stops[c].by /\ stops'[c].state = Verdict(r) /\ stops'[c].key = stops[c].key
  BY <1>1, <1>2 DEF FinishStop, PutStop, StopRows
<1>5. UNCHANGED <<platform, shop, events, emailSetter>>
  BY DEF FinishStop, history
<1>6. Deposes(r, c)
  BY <1>3, <1>4 DEF Deposes, Loose, Free, Verdict, At, Visiting
<1>7. stops[c].key # None /\ \A q \in Requests : q # r /\ request[q].at \in Deciding => request[q].stop # c
  BY <1>1, <1>2 DEF IInv, Control, ControlIsHeld, ControlsHaveKeys, DecidedByOne, Deciding, Stopping
<1>8. EventsGrow /\ Keeps
  BY <1>5 DEF EventsGrow, Keeps, Closed, Withdrawn
<1>9. Control' /\ ActorsAreKnown'
  BY <1>1, <1>2, <1>3, <1>4, <1>6, <1>7, <1>8, MovingKeepsControl DEF IInv, Deciding, Stopping, At
<1>10. StopsHold'
  <2>1. ASSUME Sound', NEW q \in Requests PROVE StopOfHolds(q)'
    <3>1. CASE q = r
      BY <1>3, <3>1 DEF StopOfHolds, At, Stopping
    <3>2. CASE q # r
      <4>1. StopOfHolds(q)
        BY <1>5, <2>1 DEF IInv, StopsHold, Sound, Without
      <4>. QED
        BY <1>3, <1>5, <3>2, <4>1 DEF StopOfHolds, At, Closed, Withdrawn
    <3>. QED
      BY <3>1, <3>2
  <2>. QED
    BY <2>1 DEF StopsHold
<1>11. ActiveMeansStopped'
  <2>1. ASSUME Sound', NEW d \in Ids, stops'[d].state = "ACTIVE"
        PROVE  platform.hold /\ \A s \in Shops : Closed(s) /\ Withdrawn(s)
    <3>1. CASE d = c
      <4>1. request[r].ok
        BY <1>4, <2>1, <3>1 DEF Verdict
      <4>2. StopOfHolds(r)
        BY <1>5, <2>1 DEF IInv, StopsHold, Sound, Without
      <4>. QED
        BY <1>1, <4>1, <4>2 DEF StopOfHolds, Stopping
    <3>2. CASE d # c
      BY <1>4, <1>5, <2>1, <3>2 DEF IInv, ActiveMeansStopped, Sound, Without, Closed, Withdrawn
    <3>. QED
      BY <3>1, <3>2
  <2>. QED
    BY <1>5, <2>1 DEF ActiveMeansStopped, Sound, Closed, Withdrawn
<1>. QED
  BY <1>5, <1>8, <1>9, <1>10, <1>11, EmailStays DEF Good

\* A recovery takes the control over, or finds that it was moved meanwhile.
LEMMA ClaimGood ==
  ASSUME IInv, TypeOK', NEW r \in Requests, ClaimStop(r)
  PROVE  Good'
<1>. DEFINE c == request[r].stop
<1>1. request \in [Requests -> RequestRows] /\ stops \in [Ids -> StopRows] /\ request[r].at = "claim"
  BY Parts DEF IInv, RequestsFit, StopsFit, ClaimStop, At
<1>2. c \in Ids
  BY <1>1, DecidersName DEF IInv
<1>3. UNCHANGED <<platform, shop, events, emailSetter>>
  BY DEF ClaimStop
<1>4. EventsGrow /\ Keeps
  BY <1>3 DEF EventsGrow, Keeps, Closed, Withdrawn
<1>5. CASE End(r) /\ UNCHANGED stops
  <2>1. \A q \in Requests : request'[q] = request[q] \/ request'[q].at = "rest"
    BY <1>1, <1>5 DEF End, Put, Resting
  <2>2. GoesOrStays /\ StopsGoOn
    BY <2>1 DEF GoesOrStays, Goes, StopsGoOn, StopOfHolds, At, Stopping, Loose, Free, Visiting
  <2>3. SameControls /\ NoneActivated
    BY <1>5 DEF SameControls, NoneActivated
  <2>. QED
    BY <1>3, <1>4, <2>2, <2>3, GoingOnKeepsControl, KeepingStops, EmailStays DEF IInv, Good
<1>6. CASE /\ request[r].seen = <<stops[c].state, stops[c].revision>>
           /\ Move(c, "RECOVERY_REQUESTED")
           /\ Put(r, [request[r] EXCEPT !.at = "begin", !.seen = Resting.seen])
  <2>1. stops[c].state \in Recoverable
    BY <1>1, <1>6 DEF IInv, Control, RecovererIsAnother, At
  <2>2. /\ \A q \in Requests : q # r => request'[q] = request[q]
        /\ At(r, "begin")' /\ request'[r].by = request[r].by /\ request'[r].stop = c
    BY <1>1, <1>6 DEF Put, RequestRows, At
  <2>3. /\ \A d \in Ids : d # c => stops'[d] = stops[d]
        /\ stops'[c].by = stops[c].by /\ stops'[c].state = "RECOVERY_REQUESTED" /\ stops'[c].key = stops[c].key
        /\ stops'[c].revision = stops[c].revision + 1
    BY <1>1, <1>2, <1>6 DEF Move, PutStop, StopRows
  <2>4. Deposes(r, c)
    BY <1>1, <2>2, <2>3 DEF Deposes, ClaimStop, Stopping, At
  <2>5. \A q \in Requests : request[q].at \in Deciding => request[q].stop # c
    BY <2>1 DEF IInv, Control, ControlIsHeld, Deciding, Recoverable, At
  <2>6. stops[c].key # None /\ request[r].by # stops[c].by
    BY <1>1, <1>2, <2>1 DEF IInv, Control, ControlsHaveKeys, RecovererIsAnother, Recoverable
  <2>7. Control' /\ ActorsAreKnown'
    BY <1>1, <1>2, <1>4, <2>2, <2>3, <2>4, <2>5, <2>6, MovingKeepsControl DEF IInv
  <2>8. NoneActivated /\ StopsGoOn
    BY <2>2, <2>3 DEF NoneActivated, StopsGoOn, StopOfHolds, Stopping, At
  <2>. QED
    BY <1>3, <1>4, <2>7, <2>8, KeepingStops, EmailStays DEF IInv, Good
<1>. QED
  BY <1>5, <1>6 DEF ClaimStop

\* A new stop is the only one, or there are two.
LEMMA CreateGood ==
  ASSUME IInv, TypeOK', NEW r \in Requests, NEW a \in Actors, CreateStop(r, a)
  PROVE  Good'
<1>1. request \in [Requests -> RequestRows] /\ stops \in [Ids -> StopRows] /\ request[r].at = "rest"
  BY Parts DEF IInv, RequestsFit, StopsFit, CreateStop, At
<1>2. PICK s \in KeysOf(a), c \in Unused :
          /\ PutStop(c, [NoStop EXCEPT !.state = "ACTIVATING", !.key = s, !.by = a])
          /\ Put(r, [Resting EXCEPT !.at = "hold", !.by = a, !.stop = c])
  BY DEF CreateStop
<1>3. s # None /\ c \in Ids /\ stops[c].state = "NONE"
  BY PrimaryIsShop, Values DEF KeysOf, Unused
<1>4. /\ \A d \in Ids : d # c => stops'[d] = stops[d]
      /\ stops'[c].state = "ACTIVATING" /\ stops'[c].key = s
  BY <1>1, <1>2, <1>3 DEF PutStop, NoStop
<1>5. /\ \A q \in Requests : q # r => request'[q] = request[q]
      /\ request'[r].at = "hold" /\ request'[r].by = a /\ request'[r].stop = c
  BY <1>1, <1>2 DEF Put, Resting
<1>6. \A q \in Requests : request[q].at \in Deciding \union {"claim"} => request[q].stop \in Ids /\ request[q].stop
   # c
  BY <1>3, DecidersName DEF IInv, Control, ControlIsHeld, Deciding, At
<1>7. EventsGrow /\ Keeps
  BY DEF CreateStop, EventsGrow, Keeps, Closed, Withdrawn
<1>8. Control'
  <2>1. ControlsHaveKeys'
    BY <1>3, <1>4 DEF IInv, Control, ControlsHaveKeys
  <2>2. ControlIsHeld'
    BY <1>4, <1>5, <1>6 DEF IInv, Control, ControlIsHeld, Deciding, Stopping, Opening, At
  <2>3. DecidedByOne'
    BY <1>5, <1>6 DEF IInv, Control, DecidedByOne
  <2>4. RecovererIsAnother'
    BY <1>4, <1>5, <1>6 DEF IInv, Control, RecovererIsAnother, Deciding, Opening, At
  <2>5. Standing' \subseteq Standing \union {c}
    BY <1>4 DEF Standing
  <2>6. Standing = {} \/ "twoStops" \in events'
    BY DEF CreateStop
  <2>7. OneStands'
    BY <1>7, <2>5, <2>6 DEF IInv, Control, OneStands, EventsGrow
  <2>. QED
    BY <2>1, <2>2, <2>3, <2>4, <2>7 DEF Control
<1>9. ActorsAreKnown'
  BY <1>5 DEF IInv, ActorsAreKnown, At, Visiting
<1>10. NoneActivated /\ StopsGoOn
  BY <1>4, <1>5 DEF NoneActivated, StopsGoOn, StopOfHolds, Stopping, At
<1>11. EmailSetterIsKnown'
  BY <1>7, EmailStays DEF CreateStop, history
<1>. QED
  BY <1>7, <1>8, <1>9, <1>10, <1>11, KeepingStops DEF IInv, Good

\* Who begins a recovery is not who made the stop.
LEMMA RecoverGood ==
  ASSUME IInv, TypeOK', NEW r \in Requests, NEW a \in Actors, BeginRecovery(r, a)
  PROVE  Good'
<1>1. request \in [Requests -> RequestRows] /\ request[r].at = "rest"
  BY Parts DEF IInv, RequestsFit, BeginRecovery, At
<1>2. PICK c \in Ids :
          /\ MayRecover(c)
          /\ Independent(c, a)
          /\ Put(r, [Resting EXCEPT !.at = "claim", !.by = a, !.stop = c,
                                    !.seen = <<stops[c].state, stops[c].revision>>])
  BY DEF BeginRecovery
<1>3. /\ \A q \in Requests : q # r => request'[q] = request[q]
      /\ request'[r].at = "claim" /\ request'[r].by = a /\ request'[r].stop = c
      /\ request'[r].seen[1] = stops[c].state
  BY <1>1, <1>2 DEF Put, Resting
<1>4. UNCHANGED <<platform, stops, shop, events, emailSetter>>
  BY DEF BeginRecovery, history
<1>5. EventsGrow /\ Keeps
  BY <1>4 DEF EventsGrow, Keeps, Closed, Withdrawn
<1>6. Control'
  <2>1. ControlsHaveKeys' /\ OneStands'
    BY <1>4 DEF IInv, Control, ControlsHaveKeys, OneStands, Standing
  <2>2. ControlIsHeld'
    BY <1>2, <1>3, <1>4 DEF IInv, Control, ControlIsHeld, MayRecover, Recoverable, Stopping, Opening, At
  <2>3. DecidedByOne'
    BY <1>3 DEF IInv, Control, DecidedByOne, Deciding, Stopping, Opening
  <2>4. RecovererIsAnother'
    BY <1>2, <1>3, <1>4 DEF IInv, Control, RecovererIsAnother, MayRecover, Independent, At
  <2>. QED
    BY <2>1, <2>2, <2>3, <2>4 DEF Control
<1>7. ActorsAreKnown'
  BY <1>3 DEF IInv, ActorsAreKnown, At, Visiting
<1>8. NoneActivated /\ StopsGoOn
  BY <1>3, <1>4 DEF NoneActivated, StopsGoOn, StopOfHolds, Stopping, At
<1>9. EmailSetterIsKnown'
  BY <1>4, <1>5, EmailStays
<1>. QED
  BY <1>5, <1>6, <1>7, <1>8, <1>9, KeepingStops DEF IInv, Good

\* Every step keeps the rest of the invariant.
LEMMA GoodStep ==
  ASSUME IInv, TypeOK', Next
  PROVE  Good'
<1>1. /\ platform \in Rows
      /\ request \in [Requests -> RequestRows]
      /\ stops \in [Ids -> StopRows]
      /\ shop \in [Shops -> ShopRows]
  BY Parts DEF IInv, RequestsFit, StopsFit, ShopsFit
<1>2. TypeOK /\ Control /\ ActorsAreKnown /\ StopsHold /\ ActiveMeansStopped /\ EmailSetterIsKnown
  BY DEF IInv
<1>3. ASSUME NEW r \in Requests, ReadRow(r, "hold", "hold!") PROVE Good'
  <2>1. GoesOrStays
    BY <1>3, <1>1, <1>2 DEF ReadRow, Put, GoesOrStays, Goes, ActorsAreKnown, At, RequestRows, Deciding,
       Stopping, Opening, Loose, Free, Visiting
  <2>2. SameControls /\ EventsGrow /\ NoneActivated
    BY <1>3 DEF ReadRow, SameControls, NoneActivated, EventsGrow
  <2>3. Keeps
    BY <1>3 DEF ReadRow, Keeps, Closed, Withdrawn
  <2>4. StopsGoOn
    BY <1>3, <1>1, <1>2 DEF ReadRow, Put, StopsGoOn, StopOfHolds, StopsHold, Sound, Without, Closed, Withdrawn,
       At, RequestRows, Stopping
  <2>5. EmailSetterIsKnown'
    BY <1>3, <1>1, <1>2 DEF ReadRow, EmailSetterIsKnown, history
  <2>. QED
    BY <2>1, <2>2, <2>3, <2>4, <2>5, <1>2, GoingOnKeepsControl, KeepingStops DEF Good
<1>4. ASSUME NEW r \in Requests, ReadRow(r, "release", "release!") PROVE Good'
  <2>1. GoesOrStays
    BY <1>4, <1>1, <1>2 DEF ReadRow, Put, GoesOrStays, Goes, ActorsAreKnown, At, RequestRows, Deciding,
       Stopping, Opening, Loose, Free, Visiting
  <2>2. SameControls /\ EventsGrow /\ NoneActivated
    BY <1>4 DEF ReadRow, SameControls, NoneActivated, EventsGrow
  <2>3. Keeps
    BY <1>4 DEF ReadRow, Keeps, Closed, Withdrawn
  <2>4. StopsGoOn
    BY <1>4, <1>1, <1>2 DEF ReadRow, Put, StopsGoOn, StopOfHolds, StopsHold, Sound, Without, Closed, Withdrawn,
       At, RequestRows, Stopping
  <2>5. EmailSetterIsKnown'
    BY <1>4, <1>1, <1>2 DEF ReadRow, EmailSetterIsKnown, history
  <2>. QED
    BY <2>1, <2>2, <2>3, <2>4, <2>5, <1>2, GoingOnKeepsControl, KeepingStops DEF Good
<1>5. ASSUME NEW r \in Requests, SetHold(r) PROVE Good'
  <2>1. GoesOrStays
    BY <1>5, <1>1, <1>2 DEF SetHold, HoldSet, LostEmail, Put, GoesOrStays, Goes, ActorsAreKnown, At,
       RequestRows, Deciding, Stopping, Opening, Loose, Free, Visiting
  <2>2. SameControls /\ EventsGrow /\ NoneActivated
    BY <1>5 DEF SetHold, HoldSet, LostEmail, SameControls, NoneActivated, EventsGrow
  <2>3. Keeps
    BY <1>5, <1>1, <1>2 DEF SetHold, HoldSet, LostEmail, Keeps, Closed, Withdrawn, Rows
  <2>4. StopsGoOn
    BY <1>5, <1>1, <1>2 DEF SetHold, HoldSet, LostEmail, Put, StopsGoOn, StopOfHolds, StopsHold, Sound, Without,
       Closed, Withdrawn, At, RequestRows, Rows, Stopping
  <2>5. EmailSetterIsKnown'
    BY <1>5, <1>1, <1>2 DEF SetHold, HoldSet, LostEmail, EmailSetterIsKnown, history, Rows
  <2>. QED
    BY <2>1, <2>2, <2>3, <2>4, <2>5, <1>2, GoingOnKeepsControl, KeepingStops DEF Good
<1>6. ASSUME NEW r \in Requests, MarkActivating(r) PROVE Good'
  <2>1. GoesOrStays
    BY <1>6, <1>1, <1>2 DEF MarkActivating, Put, GoesOrStays, Goes, ActorsAreKnown, At, RequestRows, Deciding,
       Stopping, Opening, Loose, Free, Visiting
  <2>2. SameControls /\ EventsGrow /\ NoneActivated
    BY <1>6 DEF MarkActivating, SameControls, NoneActivated, EventsGrow
  <2>3. Keeps
    BY <1>6, <1>1, <1>2 DEF MarkActivating, Keeps, Closed, Withdrawn, Rows
  <2>4. StopsGoOn
    BY <1>6, <1>1, <1>2 DEF MarkActivating, Put, StopsGoOn, StopOfHolds, StopsHold, Sound, Without, Closed,
       Withdrawn, At, RequestRows, Rows, Stopping
  <2>5. EmailSetterIsKnown'
    BY <1>6, <1>1, <1>2 DEF MarkActivating, EmailSetterIsKnown, history, Rows
  <2>. QED
    BY <2>1, <2>2, <2>3, <2>4, <2>5, <1>2, GoingOnKeepsControl, KeepingStops DEF Good
<1>7. ASSUME NEW r \in Requests, NEW s \in Shops, BlockShop(r, s) PROVE Good'
  <2>1. SameControls /\ NoneActivated
    BY <1>7 DEF BlockShop, Answered, Failed, Worked, SameControls, NoneActivated
  <2>2. UNCHANGED <<platform, emailSetter>>
    BY <1>7 DEF BlockShop, history
  <2>3. EmailSetterIsKnown'
    BY <1>7, <2>2, BlockGood, EmailStays
  <2>. QED
    BY <2>1, <2>2, <2>3, <1>2, <1>7, BlockGood, GoingOnKeepsControl, KeepingStops DEF Good
<1>8. ASSUME NEW r \in Requests, NEW s \in Shops, UnpublishShop(r, s) PROVE Good'
  <2>1. UNCHANGED <<platform, emailSetter>>
    BY <1>8 DEF UnpublishShop, history
  <2>2. EmailSetterIsKnown'
    BY <1>8, <2>1, UnpublishGood, EmailStays
  <2>. QED
    BY <2>1, <2>2, <1>2, <1>8, UnpublishGood, UnpublishControls, GoingOnKeepsControl, KeepingStops DEF Good
<1>9. ASSUME NEW r \in Requests, RoundIsOver(r, "block", "unpublish") PROVE Good'
  <2>1. GoesOrStays
    BY <1>9, <1>1, <1>2 DEF RoundIsOver, Put, GoesOrStays, Goes, ActorsAreKnown, At, RequestRows, Deciding,
       Stopping, Opening, Loose, Free, Visiting
  <2>2. SameControls /\ EventsGrow /\ NoneActivated
    BY <1>9 DEF RoundIsOver, SameControls, NoneActivated, EventsGrow
  <2>3. Keeps
    BY <1>9 DEF RoundIsOver, Keeps, Closed, Withdrawn
  <2>4. StopsGoOn
    BY <1>9, <1>1, <1>2 DEF RoundIsOver, Put, StopsGoOn, StopOfHolds, StopsHold, Sound, Without, Closed,
       Withdrawn, At, RequestRows, Stopping
  <2>5. EmailSetterIsKnown'
    BY <1>9, <1>1, <1>2 DEF RoundIsOver, EmailSetterIsKnown, history
  <2>. QED
    BY <2>1, <2>2, <2>3, <2>4, <2>5, <1>2, GoingOnKeepsControl, KeepingStops DEF Good
<1>10. ASSUME NEW r \in Requests, RoundIsOver(r, "unpublish", "finish") PROVE Good'
  <2>1. GoesOrStays
    BY <1>10, <1>1, <1>2 DEF RoundIsOver, Put, GoesOrStays, Goes, ActorsAreKnown, At, RequestRows, Deciding,
       Stopping, Opening, Loose, Free, Visiting
  <2>2. SameControls /\ EventsGrow /\ NoneActivated
    BY <1>10 DEF RoundIsOver, SameControls, NoneActivated, EventsGrow
  <2>3. Keeps
    BY <1>10 DEF RoundIsOver, Keeps, Closed, Withdrawn
  <2>4. StopsGoOn
    BY <1>10, <1>1, <1>2 DEF RoundIsOver, Put, StopsGoOn, StopOfHolds, StopsHold, Sound, Without, Closed,
       Withdrawn, At, RequestRows, Stopping
  <2>5. EmailSetterIsKnown'
    BY <1>10, <1>1, <1>2 DEF RoundIsOver, EmailSetterIsKnown, history
  <2>. QED
    BY <2>1, <2>2, <2>3, <2>4, <2>5, <1>2, GoingOnKeepsControl, KeepingStops DEF Good
<1>11. ASSUME NEW r \in Requests, FinishPlatform(r) PROVE Good'
  <2>1. GoesOrStays
    BY <1>11, <1>1, <1>2 DEF FinishPlatform, LostEmail, Put, GoesOrStays, Goes, ActorsAreKnown, At, RequestRows,
       Deciding, Stopping, Opening, Loose, Free, Visiting
  <2>2. SameControls /\ EventsGrow /\ NoneActivated
    BY <1>11 DEF FinishPlatform, LostEmail, SameControls, NoneActivated, EventsGrow
  <2>3. Keeps
    BY <1>11, <1>1, <1>2 DEF FinishPlatform, LostEmail, Keeps, Closed, Withdrawn, Rows
  <2>4. StopsGoOn
    BY <1>11, <1>1, <1>2 DEF FinishPlatform, LostEmail, Put, StopsGoOn, StopOfHolds, StopsHold, Sound, Without,
       Closed, Withdrawn, At, RequestRows, Rows, Stopping
  <2>5. EmailSetterIsKnown'
    BY <1>11, <1>1, <1>2 DEF FinishPlatform, LostEmail, EmailSetterIsKnown, history, Rows
  <2>. QED
    BY <2>1, <2>2, <2>3, <2>4, <2>5, <1>2, GoingOnKeepsControl, KeepingStops DEF Good
<1>12. ASSUME NEW r \in Requests, FinishStop(r) PROVE Good'
  BY <1>12, FinishGood
<1>13. ASSUME NEW r \in Requests, ClaimStop(r) PROVE Good'
  BY <1>13, ClaimGood
<1>14. ASSUME NEW r \in Requests, StartRecovery(r) PROVE Good'
  BY <1>14, StartGood
<1>15. ASSUME NEW r \in Requests, MarkRecovering(r) PROVE Good'
  <2>1. GoesOrStays
    BY <1>15, <1>1, <1>2 DEF MarkRecovering, GoOn, Put, GoesOrStays, Goes, ActorsAreKnown, At, RequestRows,
       Deciding, Stopping, Opening, Loose, Free, Visiting
  <2>2. SameControls /\ EventsGrow /\ NoneActivated
    BY <1>15 DEF MarkRecovering, GoOn, SameControls, NoneActivated, EventsGrow
  <2>3. Keeps
    BY <1>15, <1>1, <1>2 DEF MarkRecovering, GoOn, Keeps, Closed, Withdrawn, Rows
  <2>4. StopsGoOn
    BY <1>15, <1>1, <1>2 DEF MarkRecovering, GoOn, Put, StopsGoOn, StopOfHolds, StopsHold, Sound, Without,
       Closed, Withdrawn, At, RequestRows, Rows, Stopping
  <2>5. EmailSetterIsKnown'
    BY <1>15, <1>1, <1>2 DEF MarkRecovering, GoOn, EmailSetterIsKnown, history, Rows
  <2>. QED
    BY <2>1, <2>2, <2>3, <2>4, <2>5, <1>2, GoingOnKeepsControl, KeepingStops DEF Good
<1>16. ASSUME NEW r \in Requests, InspectValidation(r) PROVE Good'
  <2>1. SameControls /\ EventsGrow /\ NoneActivated
    BY <1>16 DEF InspectValidation, GoOn, Answered, Failed, SameControls, NoneActivated, EventsGrow
  <2>2. Keeps
    BY <1>16 DEF InspectValidation, GoOn, Answered, Failed, Keeps, Closed, Withdrawn
  <2>3. EmailSetterIsKnown'
    BY <1>16, <1>1, <1>2 DEF InspectValidation, GoOn, Answered, Failed, EmailSetterIsKnown, history
  <2>. QED
    BY <2>1, <2>2, <2>3, <1>2, <1>16, InspectGood, GoingOnKeepsControl, KeepingStops DEF Good
<1>17. ASSUME NEW r \in Requests, NEW s \in Shops, RestoreShop(r, s) PROVE Good'
  BY <1>17, RestoreGood
<1>18. ASSUME NEW r \in Requests, NEW s \in Shops, AllowShop(r, s) PROVE Good'
  BY <1>18, AllowGood
<1>19. ASSUME NEW r \in Requests, ProceedIf(r, "restore", "allow") PROVE Good'
  <2>1. GoesOrStays
    BY <1>19, <1>1, <1>2 DEF ProceedIf, Put, GoesOrStays, Goes, ActorsAreKnown, At, RequestRows, Deciding,
       Stopping, Opening, Loose, Free, Visiting
  <2>2. SameControls /\ EventsGrow /\ NoneActivated
    BY <1>19 DEF ProceedIf, SameControls, NoneActivated, EventsGrow
  <2>3. Keeps
    BY <1>19 DEF ProceedIf, Keeps, Closed, Withdrawn
  <2>4. StopsGoOn
    BY <1>19, <1>1, <1>2 DEF ProceedIf, Put, StopsGoOn, StopOfHolds, StopsHold, Sound, Without, Closed,
       Withdrawn, At, RequestRows, Stopping
  <2>5. EmailSetterIsKnown'
    BY <1>19, <1>1, <1>2 DEF ProceedIf, EmailSetterIsKnown, history
  <2>. QED
    BY <2>1, <2>2, <2>3, <2>4, <2>5, <1>2, GoingOnKeepsControl, KeepingStops DEF Good
<1>20. ASSUME NEW r \in Requests, ProceedIf(r, "allow", "release") PROVE Good'
  <2>1. GoesOrStays
    BY <1>20, <1>1, <1>2 DEF ProceedIf, Put, GoesOrStays, Goes, ActorsAreKnown, At, RequestRows, Deciding,
       Stopping, Opening, Loose, Free, Visiting
  <2>2. SameControls /\ EventsGrow /\ NoneActivated
    BY <1>20 DEF ProceedIf, SameControls, NoneActivated, EventsGrow
  <2>3. Keeps
    BY <1>20 DEF ProceedIf, Keeps, Closed, Withdrawn
  <2>4. StopsGoOn
    BY <1>20, <1>1, <1>2 DEF ProceedIf, Put, StopsGoOn, StopOfHolds, StopsHold, Sound, Without, Closed,
       Withdrawn, At, RequestRows, Stopping
  <2>5. EmailSetterIsKnown'
    BY <1>20, <1>1, <1>2 DEF ProceedIf, EmailSetterIsKnown, history
  <2>. QED
    BY <2>1, <2>2, <2>3, <2>4, <2>5, <1>2, GoingOnKeepsControl, KeepingStops DEF Good
<1>21. ASSUME NEW r \in Requests, ReleaseHold(r) PROVE Good'
  BY <1>21, ReleaseGood
<1>22. ASSUME NEW r \in Requests, CloseStop(r) PROVE Good'
  BY <1>22, CloseGood
<1>23. ASSUME NEW r \in Requests, MarkIdle(r) PROVE Good'
  <2>1. GoesOrStays
    BY <1>23, <1>1, <1>2 DEF MarkIdle, Put, End, Resting, GoesOrStays, Goes, ActorsAreKnown, At, RequestRows,
       Deciding, Stopping, Opening, Loose, Free, Visiting
  <2>2. SameControls /\ EventsGrow /\ NoneActivated
    BY <1>23 DEF MarkIdle, SameControls, NoneActivated, EventsGrow
  <2>3. Keeps
    BY <1>23, <1>1, <1>2 DEF MarkIdle, Keeps, Closed, Withdrawn, Rows
  <2>4. StopsGoOn
    BY <1>23, <1>1, <1>2 DEF MarkIdle, Put, End, Resting, StopsGoOn, StopOfHolds, StopsHold, Sound, Without,
       Closed, Withdrawn, At, RequestRows, Rows, Stopping
  <2>5. EmailSetterIsKnown'
    BY <1>23, <1>1, <1>2 DEF MarkIdle, EmailSetterIsKnown, history, Rows
  <2>. QED
    BY <2>1, <2>2, <2>3, <2>4, <2>5, <1>2, GoingOnKeepsControl, KeepingStops DEF Good
<1>24. ASSUME NEW r \in Requests, FailStop(r) PROVE Good'
  BY <1>24, FailGood
<1>25. ASSUME NEW r \in Requests, FailPlatform(r) PROVE Good'
  <2>1. GoesOrStays
    BY <1>25, <1>1, <1>2 DEF FailPlatform, Put, End, Resting, GoesOrStays, Goes, ActorsAreKnown, At,
       RequestRows, Deciding, Stopping, Opening, Loose, Free, Visiting
  <2>2. SameControls /\ EventsGrow /\ NoneActivated
    BY <1>25 DEF FailPlatform, SameControls, NoneActivated, EventsGrow
  <2>3. Keeps
    BY <1>25, <1>1, <1>2 DEF FailPlatform, Keeps, Closed, Withdrawn, Rows
  <2>4. StopsGoOn
    BY <1>25, <1>1, <1>2 DEF FailPlatform, Put, End, Resting, StopsGoOn, StopOfHolds, StopsHold, Sound, Without,
       Closed, Withdrawn, At, RequestRows, Rows, Stopping
  <2>5. EmailSetterIsKnown'
    BY <1>25, <1>1, <1>2 DEF FailPlatform, EmailSetterIsKnown, history, Rows
  <2>. QED
    BY <2>1, <2>2, <2>3, <2>4, <2>5, <1>2, GoingOnKeepsControl, KeepingStops DEF Good
<1>26. ASSUME NEW r \in Requests, SetEmailHold(r) PROVE Good'
  <2>1. GoesOrStays
    BY <1>26, <1>1, <1>2 DEF SetEmailHold, EmailSet, Put, End, Resting, GoesOrStays, Goes,
       ActorsAreKnown, At, RequestRows, Deciding, Stopping, Opening, Loose, Free, Visiting
  <2>2. SameControls /\ EventsGrow /\ NoneActivated
    BY <1>26 DEF SetEmailHold, EmailSet, SameControls, NoneActivated, EventsGrow
  <2>3. Keeps
    BY <1>26, <1>1, <1>2 DEF SetEmailHold, EmailSet, Keeps, Closed, Withdrawn, Rows
  <2>4. StopsGoOn
    BY <1>26, <1>1, <1>2 DEF SetEmailHold, EmailSet, Put, End, Resting, StopsGoOn, StopOfHolds,
       StopsHold, Sound, Without, Closed, Withdrawn, At, RequestRows, Rows, Stopping
  <2>5. EmailSetterIsKnown'
    BY <1>26, <1>1, <1>2, Values DEF SetEmailHold, EmailSet, EmailSetterIsKnown, history, Rows,
       ActorsAreKnown, At, Visiting
  <2>. QED
    BY <2>1, <2>2, <2>3, <2>4, <2>5, <1>2, GoingOnKeepsControl, KeepingStops DEF Good
<1>27. ASSUME NEW r \in Requests, ReleaseEmailHold(r) PROVE Good'
  <2>1. GoesOrStays
    BY <1>27, <1>1, <1>2 DEF ReleaseEmailHold, EmailReleased, LostEmail, Put, End, Resting,
       GoesOrStays, Goes, ActorsAreKnown, At, RequestRows, Deciding, Stopping, Opening, Loose, Free, Visiting
  <2>2. SameControls /\ EventsGrow /\ NoneActivated
    BY <1>27 DEF ReleaseEmailHold, EmailReleased, LostEmail, SameControls, NoneActivated, EventsGrow
  <2>3. Keeps
    BY <1>27, <1>1, <1>2 DEF ReleaseEmailHold, EmailReleased, LostEmail, Keeps, Closed, Withdrawn,
       Rows
  <2>4. StopsGoOn
    BY <1>27, <1>1, <1>2 DEF ReleaseEmailHold, EmailReleased, LostEmail, Put, End, Resting, StopsGoOn,
       StopOfHolds, StopsHold, Sound, Without, Closed, Withdrawn, At, RequestRows, Rows, Stopping
  <2>5. EmailSetterIsKnown'
    BY <1>27, <1>1, <1>2, Values DEF ReleaseEmailHold, EmailReleased, LostEmail, EmailSetterIsKnown,
       history, Rows, ActorsAreKnown, At, Visiting
  <2>. QED
    BY <2>1, <2>2, <2>3, <2>4, <2>5, <1>2, GoingOnKeepsControl, KeepingStops DEF Good
<1>28. ASSUME NEW r \in Requests, NEW s \in Shops, SyncVisitedShop(r, s) PROVE Good'
  <2>1. GoesOrStays
    BY <1>28, <1>1, <1>2 DEF SyncVisitedShop, ControlOf, Crossing, Put, End, Resting, GoesOrStays, Goes,
       ActorsAreKnown, At, RequestRows, Deciding, Stopping, Opening, Loose, Free, Visiting
  <2>2. SameControls /\ EventsGrow /\ NoneActivated
    BY <1>28 DEF SyncVisitedShop, ControlOf, Crossing, SameControls, NoneActivated, EventsGrow
  <2>3. StopsGoOn
    BY <1>28, <1>1, <1>2 DEF SyncVisitedShop, ControlOf, Crossing, Put, End, Resting, StopsGoOn, StopOfHolds,
       StopsHold, Sound, Without, Closed, Withdrawn, At, RequestRows, Stopping
  <2>4. EmailSetterIsKnown'
    BY <1>28, <1>1, <1>2 DEF SyncVisitedShop, ControlOf, Crossing, EmailSetterIsKnown, history
  <2>. QED
    BY <2>1, <2>2, <2>3, <2>4, <1>2, <1>28, VisitKeeps, GoingOnKeepsControl, KeepingStops DEF Good
<1>29. ASSUME NEW r \in Requests, Die(r) PROVE Good'
  <2>1. GoesOrStays
    BY <1>29, <1>1, <1>2 DEF Die, Put, End, Resting, GoesOrStays, Goes, ActorsAreKnown, At, RequestRows,
       Deciding, Stopping, Opening, Loose, Free, Visiting
  <2>2. SameControls /\ EventsGrow /\ NoneActivated
    BY <1>29 DEF Die, SameControls, NoneActivated, EventsGrow
  <2>3. Keeps
    BY <1>29 DEF Die, Keeps, Closed, Withdrawn
  <2>4. StopsGoOn
    BY <1>29, <1>1, <1>2 DEF Die, Put, End, Resting, StopsGoOn, StopOfHolds, StopsHold, Sound, Without, Closed,
       Withdrawn, At, RequestRows, Stopping
  <2>5. EmailSetterIsKnown'
    BY <1>29, <1>1, <1>2 DEF Die, EmailSetterIsKnown, history
  <2>. QED
    BY <2>1, <2>2, <2>3, <2>4, <2>5, <1>2, GoingOnKeepsControl, KeepingStops DEF Good
<1>30. ASSUME NEW r \in Requests, NEW a \in Actors, CreateStop(r, a) PROVE Good'
  BY <1>30, CreateGood
<1>31. ASSUME NEW r \in Requests, NEW a \in Actors, StopIsStanding(r, a) PROVE Good'
  <2>1. GoesOrStays /\ StopsGoOn
    BY <1>31 DEF StopIsStanding, Told, GoesOrStays, StopsGoOn
  <2>2. SameControls /\ EventsGrow /\ NoneActivated
    BY <1>31 DEF StopIsStanding, Told, SameControls, NoneActivated, EventsGrow
  <2>3. Keeps
    BY <1>31 DEF StopIsStanding, Told, Keeps, Closed, Withdrawn
  <2>4. EmailSetterIsKnown'
    BY <1>31, <1>1, <1>2 DEF StopIsStanding, Told, EmailSetterIsKnown, history
  <2>. QED
    BY <2>1, <2>2, <2>3, <2>4, <1>2, GoingOnKeepsControl, KeepingStops DEF Good
<1>32. ASSUME NEW r \in Requests, NEW a \in Actors, WatchdogRests(r, a) PROVE Good'
  <2>1. GoesOrStays /\ StopsGoOn
    BY <1>32 DEF WatchdogRests, Told, GoesOrStays, StopsGoOn
  <2>2. SameControls /\ EventsGrow /\ NoneActivated
    BY <1>32 DEF WatchdogRests, Told, SameControls, NoneActivated, EventsGrow
  <2>3. Keeps
    BY <1>32 DEF WatchdogRests, Told, Keeps, Closed, Withdrawn
  <2>4. EmailSetterIsKnown'
    BY <1>32, <1>1, <1>2 DEF WatchdogRests, Told, EmailSetterIsKnown, history
  <2>. QED
    BY <2>1, <2>2, <2>3, <2>4, <1>2, GoingOnKeepsControl, KeepingStops DEF Good
<1>33. ASSUME NEW r \in Requests, NEW a \in Actors, BeginRecovery(r, a) PROVE Good'
  BY <1>33, RecoverGood
<1>34. ASSUME NEW r \in Requests, NEW a \in Actors, BeginEmail(r, a) PROVE Good'
  <2>1. GoesOrStays
    BY <1>34, <1>1, <1>2 DEF BeginEmail, Put, Resting, GoesOrStays, Goes, ActorsAreKnown, At, RequestRows,
       Deciding, Stopping, Opening, Loose, Free, Visiting
  <2>2. SameControls /\ EventsGrow /\ NoneActivated
    BY <1>34 DEF BeginEmail, SameControls, NoneActivated, EventsGrow
  <2>3. Keeps
    BY <1>34 DEF BeginEmail, Keeps, Closed, Withdrawn
  <2>4. StopsGoOn
    BY <1>34, <1>1, <1>2 DEF BeginEmail, Put, Resting, StopsGoOn, StopOfHolds, StopsHold, Sound, Without,
       Closed, Withdrawn, At, RequestRows, Stopping
  <2>5. EmailSetterIsKnown'
    BY <1>34, <1>1, <1>2, Values DEF BeginEmail, EmailSetterIsKnown, history, ActorsAreKnown, At, Visiting
  <2>. QED
    BY <2>1, <2>2, <2>3, <2>4, <2>5, <1>2, GoingOnKeepsControl, KeepingStops DEF Good
<1>36. ASSUME AgentStops PROVE Good'
  <2>1. GoesOrStays /\ StopsGoOn
    BY <1>36 DEF AgentStops, GoesOrStays, StopsGoOn
  <2>2. SameControls /\ EventsGrow /\ NoneActivated
    BY <1>36 DEF AgentStops, SameControls, NoneActivated, EventsGrow
  <2>3. Keeps
    BY <1>36, <1>1, <1>2 DEF AgentStops, Keeps, Closed, Withdrawn, ShopRows
  <2>4. EmailSetterIsKnown'
    BY <1>36, <1>1, <1>2 DEF AgentStops, EmailSetterIsKnown, history
  <2>. QED
    BY <2>1, <2>2, <2>3, <2>4, <1>2, GoingOnKeepsControl, KeepingStops DEF Good
<1>37. ASSUME NEW a \in Machines, LoseControl(a) PROVE Good'
  <2>1. GoesOrStays /\ StopsGoOn
    BY <1>37 DEF LoseControl, GoesOrStays, StopsGoOn
  <2>2. SameControls /\ EventsGrow /\ NoneActivated
    BY <1>37 DEF LoseControl, SameControls, NoneActivated, EventsGrow
  <2>3. Keeps
    BY <1>37, <1>1, <1>2 DEF LoseControl, Keeps, Closed, Withdrawn, Rows
  <2>4. EmailSetterIsKnown'
    BY <1>37, <1>1, <1>2 DEF LoseControl, EmailSetterIsKnown, history, Rows
  <2>. QED
    BY <2>1, <2>2, <2>3, <2>4, <1>2, GoingOnKeepsControl, KeepingStops DEF Good
<1>42. ASSUME NEW r \in Requests, ReadVisited(r) PROVE Good'
  <2>1. GoesOrStays
    BY <1>42, <1>1, <1>2 DEF ReadVisited, Put, GoesOrStays, Goes, At, RequestRows, Loose, Free, Visiting
  <2>2. SameControls /\ EventsGrow /\ NoneActivated
    BY <1>42 DEF ReadVisited, SameControls, NoneActivated, EventsGrow
  <2>3. Keeps
    BY <1>42 DEF ReadVisited, Keeps, Closed, Withdrawn
  <2>4. StopsGoOn
    BY <1>42, <1>1, <1>2 DEF ReadVisited, Put, StopsGoOn, StopOfHolds, At, RequestRows, Stopping
  <2>5. EmailSetterIsKnown'
    BY <1>42, <1>1, <1>2 DEF ReadVisited, EmailSetterIsKnown, history
  <2>. QED
    BY <2>1, <2>2, <2>3, <2>4, <2>5, <1>2, GoingOnKeepsControl, KeepingStops DEF Good
<1>43. ASSUME NEW s \in Shops, SyncCatalog(s) PROVE Good'
  <2>1. GoesOrStays /\ StopsGoOn
    BY <1>43 DEF SyncCatalog, GoesOrStays, StopsGoOn
  <2>2. SameControls /\ EventsGrow /\ NoneActivated
    BY <1>43 DEF SyncCatalog, SameControls, NoneActivated, EventsGrow
  <2>3. Keeps
    BY <1>43, SyncKeeps DEF SyncCatalog
  <2>4. EmailSetterIsKnown'
    BY <1>43, <1>1, <1>2, <2>2, EmailStays DEF SyncCatalog, history
  <2>. QED
    BY <2>1, <2>2, <2>3, <2>4, <1>2, GoingOnKeepsControl, KeepingStops DEF Good
<1>44. ASSUME NEW r \in Requests, NEW s \in Shops, BackfillShop(r, s) PROVE Good'
  <2>1. GoesOrStays
    BY <1>44, <1>1, <1>2 DEF BackfillShop, Put, Resting, GoesOrStays, Goes, At, RequestRows, Loose,
       Free, Visiting
  <2>2. SameControls /\ EventsGrow /\ NoneActivated
    BY <1>44 DEF BackfillShop, SameControls, NoneActivated, EventsGrow
  <2>3. Keeps
    BY <1>44, SyncKeeps DEF BackfillShop
  <2>4. StopsGoOn
    <3>1. \A q \in Requests : request'[q] = request[q] \/ request'[q].at = "visit"
      BY <1>44, <1>1, <1>2 DEF BackfillShop, Put, Resting
    <3>. QED
      BY <3>1 DEF StopsGoOn, StopOfHolds, At, Stopping
  <2>5. EmailSetterIsKnown'
    BY <1>44, <1>1, <1>2, <2>2, EmailStays DEF BackfillShop, history
  <2>. QED
    BY <2>1, <2>2, <2>3, <2>4, <2>5, <1>2, GoingOnKeepsControl, KeepingStops DEF Good
<1>38. ASSUME NEW r \in Requests, StopStep(r) PROVE Good'
  BY <1>38, <1>3, <1>5, <1>6, <1>7, <1>8, <1>9, <1>10, <1>11, <1>12 DEF StopStep
<1>39. ASSUME NEW r \in Requests, RecoveryStep(r) PROVE Good'
  BY <1>39, <1>4, <1>13, <1>14, <1>15, <1>16, <1>17, <1>18, <1>19, <1>20, <1>21, <1>22, <1>23, <1>24, <1>25 DEF
     RecoveryStep
<1>40. ASSUME NEW r \in Requests, NEW a \in Actors, Begin(r, a) PROVE Good'
  BY <1>40, <1>30, <1>31, <1>32, <1>33, <1>34, <1>44 DEF Begin, BeginVisit
<1>41. ASSUME NEW r \in Requests, Continue(r) PROVE Good'
  BY <1>41, <1>38, <1>39, <1>26, <1>27, <1>28, <1>42 DEF Continue
<1>. QED
  BY <1>40, <1>41, <1>29, <1>36, <1>37, <1>43 DEF Next

-----------------------------------------------------------------------------
(* The invariant, and what follows from it *)

LEMMA InvInit == Init => IInv
<1>. SUFFICES ASSUME Init PROVE IInv
  OBVIOUS
<1>1. TypeOK
  <2>1. RequestsFit
    BY Blanks DEF Init, RequestsFit
  <2>2. StopsFit
    BY Blanks DEF Init, StopsFit
  <2>3. ShopsFit
    BY DEF Init, ShopsFit, OpenShop, ShopRows
  <2>4. platform \in Rows
    BY Blanks DEF Init
  <2>5. MaxMishaps \in Nat
    BY BoundsAreNat
  <2>6. RestFits
    <3>1. mishaps = 0 /\ emailSetter = None /\ assured = FALSE /\ events = {}
      BY DEF Init
    <3>2. mishaps \in 0..MaxMishaps
      BY <2>5, <3>1
    <3>. QED
      BY <3>1, <3>2, Values DEF RestFits
  <2>. QED
    BY <2>1, <2>2, <2>3, <2>4, <2>6, Parts
<1>2. \A r \in Requests : request[r] = Resting
  BY DEF Init
<1>3. \A c \in Ids : stops[c].state = "NONE" /\ stops[c].key = None
  BY DEF Init, NoStop
<1>4. ActorsAreKnown /\ StopsHold
  BY <1>2 DEF ActorsAreKnown, StopsHold, StopOfHolds, Stopping, Resting, At, Visiting
<1>5. ActiveMeansStopped
  BY <1>3 DEF ActiveMeansStopped
<1>6. EmailSetterIsKnown
  BY DEF Init, EmailSetterIsKnown, NoHold
<1>7. ControlsHaveKeys /\ OneStands
  BY <1>3 DEF ControlsHaveKeys, OneStands, Standing
<1>8. ControlIsHeld /\ DecidedByOne /\ RecovererIsAnother
  BY <1>2 DEF ControlIsHeld, DecidedByOne, RecovererIsAnother, Resting, At, Deciding, Stopping, Opening
<1>. QED
  BY <1>1, <1>4, <1>5, <1>6, <1>7, <1>8 DEF IInv, Control

LEMMA InvNext == IInv /\ [Next]_vars => IInv'
<1>. SUFFICES ASSUME IInv, [Next]_vars PROVE IInv'
  OBVIOUS
<1>1. CASE Next
  <2>1. TypeOK'
    BY <1>1, TypeStep DEF IInv, Control
  <2>. QED
    BY <1>1, <2>1, GoodStep DEF IInv, Good
<1>2. CASE UNCHANGED vars
  <2>. USE <1>2 DEF vars, history
  <2>1. TypeOK'
    BY DEF IInv, TypeOK
  <2>2. Control'
    BY DEF IInv, Control, ControlsHaveKeys, ControlIsHeld, DecidedByOne, RecovererIsAnother, OneStands,
       Standing, At
  <2>3. ActorsAreKnown' /\ EmailSetterIsKnown'
    BY DEF IInv, ActorsAreKnown, EmailSetterIsKnown, At, Visiting
  <2>4. StopsHold'
    BY DEF IInv, StopsHold, StopOfHolds, Sound, Without, Closed, Withdrawn, At
  <2>5. ActiveMeansStopped'
    BY DEF IInv, ActiveMeansStopped, Without
  <2>. QED
    BY <2>1, <2>2, <2>3, <2>4, <2>5 DEF IInv
<1>. QED
  BY <1>1, <1>2

LEMMA Invariance == Spec => []IInv
  BY InvInit, InvNext, PTL DEF Spec

\* Every variable keeps its type, in every run of any size: who requested a stop
\* that stands is known, and a request at work on a stop names it.
THEOREM TypeCorrect == Spec => []TypeOK
<1>1. IInv => TypeOK
  BY DEF IInv
<1>. QED
  BY <1>1, Invariance, PTL

\* A stop reported as active has the hold on, every shop blocked and all its
\* products out of sale, whatever holds on e-mail, visits, deaths and recoveries
\* came between its steps, unless two stops stood at once or a visit wrote a
\* shop from an older copy of the row.
THEOREM ActiveStopsStop == Spec => []ActiveMeansStopped
<1>1. IInv => ActiveMeansStopped
  BY DEF IInv
<1>. QED
  BY <1>1, Invariance, PTL

\* Who asked for the one stop that stands does not lift its hold.
THEOREM ResumedByAnother == Spec => OneStopIsResumedByAnother
<1>1. IInv => [\A r \in Requests, c \in Standing :
                 Resumes(r) /\ Without({"twoStops"}) => stops[c].by # request[r].by]_vars
  <2>. SUFFICES ASSUME IInv, NEW r \in Requests, NEW c \in Standing, At(r, "release!"), "twoStops" \notin events
                PROVE  stops[c].by # request[r].by
    BY DEF Resumes, Without
  <2>1. request[r].at \in Opening
    BY DEF At, Opening
  <2>2. c = request[r].stop
    BY <2>1, OpeningIsAlone DEF IInv
  <2>. QED
    BY <2>1, <2>2 DEF IInv, Control, RecovererIsAnother
<1>. QED
  BY <1>1, Invariance, PTL DEF OneStopIsResumedByAnother

\* Only the release of a hold on e-mail lifts one.
LEMMA OnlyReleaseLifts ==
  ASSUME IInv, Next, NEW r \in Requests, Lifts(r)
  PROVE  ReleaseEmailHold(r)
<1>1. platform \in Rows /\ request \in [Requests -> RequestRows]
  BY Parts DEF IInv, RequestsFit
<1>2. At(r, "unemail!") /\ request'[r] # request[r] /\ platform.email /\ ~platform'.email
  BY DEF Lifts, At
<1>3. PICK q \in Requests : ReleaseEmailHold(q)
  <2>1. ASSUME NEW q \in Requests, StopStep(q) PROVE platform'.email = platform.email
    BY <1>1, <2>1 DEF StopStep, ReadRow, SetHold, HoldSet, MarkActivating, BlockShop, UnpublishShop,
       RoundIsOver,
       FinishPlatform, FinishStop, Rows
  <2>2. ASSUME NEW q \in Requests, RecoveryStep(q) PROVE platform'.email = platform.email
    BY <1>1, <2>2 DEF RecoveryStep, ReadRow, ClaimStop, StartRecovery, MarkRecovering, InspectValidation,
       RestoreShop,
       AllowShop, ProceedIf, ReleaseHold, HoldReleased, CloseStop, MarkIdle, FailStop, FailPlatform, Rows
  <2>3. ASSUME NEW q \in Requests, NEW a \in Actors, Begin(q, a) PROVE UNCHANGED platform
    BY <2>3 DEF Begin, CreateStop, StopIsStanding, WatchdogRests, BeginRecovery, BeginEmail, BeginVisit, BackfillShop
  <2>4. ASSUME NEW q \in Requests, Continue(q), ~ReleaseEmailHold(q)
        PROVE  platform'.email = platform.email \/ platform'.email
    BY <1>1, <2>1, <2>2, <2>4 DEF Continue, SetEmailHold, EmailSet, ReadVisited, SyncVisitedShop, Rows
  <2>5. ASSUME AgentStops \/ (\E s \in Shops : SyncCatalog(s)) \/ (\E a \in Machines : LoseControl(a)) \/ (\E q \in
     Requests : Die(q))
        PROVE  platform'.email = platform.email
    BY <1>1, <2>5 DEF AgentStops, SyncCatalog, LoseControl, Die, Rows
  <2>. QED
    BY <1>2, <2>3, <2>4, <2>5 DEF Next
<1>4. q = r
  BY <1>1, <1>2, <1>3 DEF ReleaseEmailHold, End, Put
<1>. QED
  BY <1>3, <1>4

\* Who saw a hold on e-mail and lifts it is not who set it, unless a write from
\* an older copy lost who that was.
THEOREM LiftedByAnother == Spec => EmailHoldIsLiftedByAnother
<1>1. IInv /\ [Next]_vars =>
        [\A r \in Requests : Lifts(r) /\ request[r].look.email /\ "lostEmail" \notin events' =>
           request[r].by # emailSetter]_vars
  <2>. SUFFICES ASSUME IInv, Next, NEW r \in Requests, Lifts(r), request[r].look.email, "lostEmail" \notin events'
                PROVE  request[r].by # emailSetter
    OBVIOUS
  <2>1. ReleaseEmailHold(r) /\ platform.email /\ ~platform'.email
    BY OnlyReleaseLifts DEF Lifts
  <2>2. platform' # platform
    BY <2>1
  <2>3. "lostEmail" \notin events /\ platform.emailBy = request[r].look.emailBy
    BY <2>1, <2>2 DEF ReleaseEmailHold, LostEmail
  <2>4. request[r].look.emailBy = emailSetter /\ emailSetter # None
    BY <2>1, <2>3 DEF IInv, EmailSetterIsKnown
  <2>5. EmailActivator(request[r].look) # request[r].by
    BY <2>1, <2>2 DEF ReleaseEmailHold
  <2>. QED
    BY <2>4, <2>5 DEF EmailActivator
<1>. QED
  BY <1>1, Invariance, PTL DEF Spec, EmailHoldIsLiftedByAnother

-----------------------------------------------------------------------------
(* What stands and what the row says of it *)

\* A control that was not made, or was recovered, has no key.
FreeHaveNoKey == \A c \in Ids : stops[c].state \in {"NONE", "RECOVERED"} => stops[c].key = None

\* A request that is about to free the row has closed its stop.
IdleIsClosed == \A r \in Requests : At(r, "idle") => stops[request[r].stop].state = "RECOVERED"

\* A request that has failed in part has left its trace.
FailuresShow ==
    \A r \in Requests : ~request[r].ok \/ request[r].at \in {"failing", "failing!"} => "failure" \in events

\* A request is deciding the stop.
Decided(c) == \E r \in Requests : request[r].at \in Deciding /\ request[r].stop = c

\* A stop nobody works on is active, unless something went wrong.
LeftStopIsActive ==
    Without({"failure", "death", "refused"}) =>
      \A c \in Standing : Decided(c) \/ stops[c].state = "ACTIVE"

\* What has been withdrawn stays withdrawn while there is one stop, whatever
\* a visit does to the shops' controls: the hold is on, and synchronising the
\* products under it withdraws them once more.
StopOfWithdraws(r) ==
    /\ request[r].at \in Stopping \ {"hold", "hold!"} => platform.hold
    /\ At(r, "unpublish") /\ request[r].ok => \A s \in Shops \ request[r].todo : Withdrawn(s)
    /\ request[r].at \in {"finish", "finish!"} /\ request[r].ok => \A s \in Shops : Withdrawn(s)
StopsWithdraw ==
    Without({"twoStops"}) =>
      /\ \A r \in Requests : StopOfWithdraws(r)
      /\ \A c \in Ids : stops[c].state = "ACTIVE" => platform.hold /\ \A s \in Shops : Withdrawn(s)

\* The row says that there is a stop only while there is one.
HoldStands ==
    Without({"twoStops", "controlLost"}) =>
      /\ platform.hold => Standing # {}
      /\ \A r \in Requests : At(r, "recovered") => ~platform.hold
Idling == \E r \in Requests : At(r, "idle")
StateStands ==
    Without({"failure", "death", "controlLost"}) /\ platform.state # "IDLE" => Standing # {} \/ Idling

\* Who was told that a stop stands was told the truth.
ToldTruly ==
    assured /\ Without({"twoStops", "refused", "failure", "death", "controlLost"})
      => Standing # {} /\ ~Crossing

\* A product out of sale is noted with a stop that stands and whose recovery
\* has not been through its shop.
Unrestored(c, s) ==
    \A r \in Requests : request[r].stop = c =>
      /\ At(r, "restore") => s \in request[r].todo
      /\ request[r].at \notin {"allow", "release", "release!", "recovered"}
SavedByAStop ==
    Without({"failure", "agent", "undone", "forestalled"}) =>
      \A s \in Shops : ~shop[s].published =>
        \E c \in Standing : s \in stops[c].saved /\ Unrestored(c, s)

\* The row follows the control, from request to request.
Orderly == Without({"twoStops", "overtaken", "death", "staleVisit", "undone", "controlLost"})
Open(s) == shop[s].control = "ALLOWED" /\ shop[s].direct
FailingLate(c) == \E q \in Requests : At(q, "failing!") /\ request[q].stop = c
RowFollows(c) ==
    /\ platform.hold /\ platform.stop = c
    /\ stops[c].state \in {"ACTIVE", "PARTIAL_FAILURE", "RECOVERY_FAILED", "RECOVERING"}
    /\ platform.state # stops[c].state => stops[c].state = "RECOVERY_FAILED" /\ FailingLate(c)
RowIsLed(r) ==
    /\ At(r, "finish!") => platform.state = Verdict(r) /\ platform.stop = request[r].stop
    /\ request[r].at \in (Opening \union {"begin"}) \ {"recovered"} =>
          platform.hold /\ platform.stop = request[r].stop
    /\ request[r].at \in Opening \ {"resume", "recovered"} => platform.state = "RECOVERING"
    /\ At(r, "recovered") => ~platform.hold
    /\ At(r, "restore") /\ request[r].ok => \A s \in Shops \ request[r].todo : shop[s].direct
    /\ At(r, "allow") /\ request[r].ok =>
          /\ \A s \in Shops : shop[s].direct
          /\ \A s \in Shops \ request[r].todo : shop[s].control = "ALLOWED"
    /\ request[r].at \in {"release", "release!", "recovered"} => \A s \in Shops : Open(s)
\* Of the control that stands, of the requests at work, and when none stands.
StandingShows == Orderly => \A c \in Standing : Decided(c) \/ RowFollows(c)
WorkShows == Orderly => \A r \in Requests : RowIsLed(r)
NothingShows ==
    Orderly /\ Standing = {} =>
      /\ ~platform.hold /\ (platform.state = "IDLE" \/ Idling)
      /\ \A s \in Shops : Open(s)

Agreement ==
    /\ FreeHaveNoKey
    /\ IdleIsClosed
    /\ FailuresShow
    /\ LeftStopIsActive
    /\ StopsWithdraw
    /\ HoldStands
    /\ StateStands
    /\ ToldTruly
    /\ SavedByAStop
    /\ StandingShows
    /\ WorkShows
    /\ NothingShows

-----------------------------------------------------------------------------
(* The steps in full *)

Only(r) == \A q \in Requests : q # r => request'[q] = request[q]
\* A request goes on with its stop.
Walks(r, here, there) ==
    /\ request[r].at = here
    /\ request'[r].at = there
    /\ request'[r].stop = request[r].stop
    /\ Only(r)
SameTask(r) == request'[r].todo = request[r].todo /\ (request'[r].ok <=> request[r].ok)
NextTask(r) == request'[r].todo = Shops /\ (request'[r].ok <=> request[r].ok)
TaskDone(r, s, good) == request'[r].todo = request[r].todo \ {s} /\ (request'[r].ok <=> request[r].ok /\ good)
Ends(r) == request'[r].at = "rest" /\ request'[r].ok /\ Only(r)

\* The hold alone, or the state alone, changes in the row.
SameHold == (platform'.hold <=> platform.hold)
SameState == platform'.state = platform.state /\ platform'.stop = platform.stop
SameRow == SameHold /\ SameState
OnlyStop(c) == \A d \in Ids : d # c => stops'[d] = stops[d]
OnlyShop(s) == \A t \in Shops : t # s => shop'[t] = shop[t]
StopMoves(c, state) ==
    /\ c \in Ids
    /\ stops'[c].state = state
    /\ stops'[c].key = stops[c].key
    /\ stops'[c].saved = stops[c].saved
    /\ OnlyStop(c)
NothingCloses ==
    \A s \in Shops :
      /\ shop[s].direct => shop'[s].direct
      /\ shop[s].control = "ALLOWED" => shop'[s].control = "ALLOWED"

Typed ==
    /\ platform \in Rows
    /\ request \in [Requests -> RequestRows]
    /\ stops \in [Ids -> StopRows]
    /\ shop \in [Shops -> ShopRows]

LEMMA IsTyped ==
  ASSUME IInv
  PROVE  /\ Typed
         /\ \A q \in Requests : request[q].at \in Deciding \union {"claim", "idle", "failing!"} => request[q].stop
            \in Ids
<1>1. Typed
  BY Parts DEF Typed, IInv, RequestsFit, StopsFit, ShopsFit
<1>2. \A q \in Requests : request[q].stop = None => request[q].at \notin Deciding \union {"claim", "idle", "failing!"}
  BY DEF IInv, TypeOK, Deciding, Stopping, Opening
<1>. QED
  BY <1>1, <1>2 DEF Typed, RequestRows

LEMMA DoReadRow ==
  ASSUME IInv, NEW r \in Requests, NEW here, NEW there, ReadRow(r, here, there)
  PROVE  /\ Walks(r, here, there) /\ SameTask(r)
         /\ UNCHANGED <<platform, stops, shop, assured, events>>
  BY IsTyped DEF ReadRow, Put, At, Typed, RequestRows, Walks, SameTask, Only, history

LEMMA DoSetHold ==
  ASSUME IInv, NEW r \in Requests, SetHold(r)
  PROVE  /\ Walks(r, "hold!", "mark") /\ SameTask(r)
         /\ platform'.hold /\ SameState
         /\ UNCHANGED <<stops, shop, assured>> /\ EventsGrow
<1>1. Walks(r, "hold!", "mark") /\ SameTask(r)
  BY IsTyped DEF SetHold, Put, At, Typed, RequestRows, Walks, SameTask, Only
<1>. QED
  BY <1>1, IsTyped DEF SetHold, HoldSet, Typed, Rows, SameState, EventsGrow, history

LEMMA DoMarkActivating ==
  ASSUME IInv, NEW r \in Requests, MarkActivating(r)
  PROVE  /\ Walks(r, "mark", "block") /\ NextTask(r)
         /\ SameHold /\ platform'.state = "ACTIVATING" /\ platform'.stop = request[r].stop
         /\ UNCHANGED <<stops, shop, assured, events>>
<1>1. Walks(r, "mark", "block") /\ NextTask(r)
  BY IsTyped DEF MarkActivating, Put, At, Typed, RequestRows, Walks, NextTask, Only
<1>. QED
  BY <1>1, IsTyped DEF MarkActivating, Typed, Rows, SameHold, history

LEMMA DoRoundIsOver ==
  ASSUME IInv, NEW r \in Requests, NEW here, NEW there, RoundIsOver(r, here, there)
  PROVE  /\ Walks(r, here, there) /\ NextTask(r) /\ request[r].todo = {}
         /\ UNCHANGED <<platform, stops, shop, assured, events>>
  BY IsTyped DEF RoundIsOver, Put, At, Typed, RequestRows, Walks, NextTask, Only, history

LEMMA DoBlockShop ==
  ASSUME IInv, NEW r \in Requests, NEW s \in Shops, BlockShop(r, s)
  PROVE  /\ Walks(r, "block", "block")
         /\ \E good \in BOOLEAN : TaskDone(r, s, good) /\ (~good => "failure" \in events')
         /\ UNCHANGED <<platform, stops, assured>> /\ EventsGrow
         /\ \A t \in Shops : (shop'[t].direct <=> shop[t].direct) /\ (shop'[t].published <=> shop[t].published)
<1>1. PICK good \in BOOLEAN : Worked(r, s, good) /\ (~good => Failed(r))
  BY DEF BlockShop
<1>2. Walks(r, "block", "block") /\ TaskDone(r, s, good)
  BY <1>1, IsTyped, WorkedRow DEF BlockShop, At, Typed, Walks, TaskDone, Only
<1>3. ~good => "failure" \in events'
  BY <1>1 DEF Failed
<1>4. shop' \in {shop, [shop EXCEPT ![s].control = "BLOCKED"]}
  BY DEF BlockShop
<1>5. UNCHANGED <<platform, stops, assured>> /\ EventsGrow
  BY DEF BlockShop, history, EventsGrow, Answered, Failed
<1>. QED
  BY <1>2, <1>3, <1>4, <1>5, IsTyped DEF Typed, ShopRows

LEMMA DoUnpublishShop ==
  ASSUME IInv, NEW r \in Requests, NEW s \in Shops, UnpublishShop(r, s)
  PROVE  /\ Walks(r, "unpublish", "unpublish")
         /\ request[r].stop \in Ids /\ OnlyStop(request[r].stop) /\ SameControls
         /\ stops[request[r].stop].saved \subseteq stops'[request[r].stop].saved
         /\ OnlyShop(s) /\ shop'[s].control = shop[s].control
         /\ platform.hold /\ Withdrawn(s) => Withdrawn(s)'
         /\ \E good \in BOOLEAN :
              /\ TaskDone(r, s, good) /\ (~good => "failure" \in events')
              /\ good /\ platform.hold => Withdrawn(s)'
              /\ good /\ shop[s].published => s \in stops'[request[r].stop].saved
              /\ good /\ shop'[s].published => shop[s].published
         /\ shop'[s].published => shop[s].published
         /\ UNCHANGED <<platform, assured>> /\ EventsGrow
<1>. DEFINE c == request[r].stop
<1>1. PICK good \in BOOLEAN :
         /\ Worked(r, s, good) /\ (~good => Failed(r) /\ UNCHANGED stops)
         /\ good => PutStop(c, [stops[c] EXCEPT !.saved = @ \union Unpublished(s)])
         /\ good => shop' = Synced(s)
         /\ shop' = Synced(s) \/ shop' \in PartlySynced(s)
  BY DEF UnpublishShop
<1>10. ShopsFit
  BY Parts DEF IInv
<1>2. Walks(r, "unpublish", "unpublish") /\ TaskDone(r, s, good)
  BY <1>1, IsTyped, WorkedRow DEF UnpublishShop, At, Typed, Walks, TaskDone, Only
<1>3. c \in Ids
  BY IsTyped DEF UnpublishShop, At, Deciding, Stopping
<1>4. OnlyStop(c) /\ SameControls /\ stops[c].saved \subseteq stops'[c].saved
      /\ (good /\ shop[s].published => s \in stops'[c].saved)
  BY <1>1, <1>3, IsTyped DEF PutStop, Unpublished, OnlyStop, SameControls, Typed, StopRows
<1>5. OnlyShop(s) /\ shop'[s].control = shop[s].control /\ (shop'[s].published => shop[s].published)
  BY <1>1, <1>10, SyncDoes DEF OnlyShop
<1>6. (platform.hold /\ Withdrawn(s) => Withdrawn(s)') /\ (good /\ platform.hold => Withdrawn(s)')
  BY <1>1, <1>10, SyncDoes DEF Withdrawn
<1>7. UNCHANGED <<platform, assured>> /\ EventsGrow
  BY DEF UnpublishShop, history, EventsGrow, Answered, Failed
<1>8. ~good => "failure" \in events'
  BY <1>1 DEF Failed
<1>. QED
  BY <1>2, <1>3, <1>4, <1>5, <1>6, <1>7, <1>8

LEMMA DoFinishPlatform ==
  ASSUME IInv, NEW r \in Requests, FinishPlatform(r)
  PROVE  /\ Walks(r, "finish", "finish!") /\ SameTask(r)
         /\ SameHold /\ platform'.state = Verdict(r) /\ platform'.stop = request[r].stop
         /\ UNCHANGED <<stops, shop, assured>> /\ EventsGrow
<1>1. Walks(r, "finish", "finish!") /\ SameTask(r)
  BY IsTyped DEF FinishPlatform, Put, At, Typed, RequestRows, Walks, SameTask, Only
<1>. QED
  BY <1>1, IsTyped DEF FinishPlatform, Typed, Rows, SameHold, EventsGrow, history

LEMMA DoEnd ==
  ASSUME IInv, NEW r \in Requests, End(r)
  PROVE  Ends(r)
  BY IsTyped DEF End, Put, Resting, Typed, Ends, Only

LEMMA DoFinishStop ==
  ASSUME IInv, NEW r \in Requests, FinishStop(r)
  PROVE  /\ request[r].at = "finish!" /\ Ends(r)
         /\ StopMoves(request[r].stop, Verdict(r))
         /\ UNCHANGED <<platform, shop, assured, events>>
<1>1. request[r].stop \in Ids /\ request[r].at = "finish!"
  BY IsTyped DEF FinishStop, At, Deciding, Stopping
<1>2. StopMoves(request[r].stop, Verdict(r))
  BY <1>1, IsTyped DEF FinishStop, PutStop, StopMoves, OnlyStop, Typed, StopRows
<1>. QED
  BY <1>1, <1>2, DoEnd DEF FinishStop, history

LEMMA DoClaimStop ==
  ASSUME IInv, NEW r \in Requests, ClaimStop(r)
  PROVE  /\ UNCHANGED <<platform, shop, events>>
         /\ \/ /\ Walks(r, "claim", "begin") /\ SameTask(r)
               /\ StopMoves(request[r].stop, "RECOVERY_REQUESTED")
               /\ stops[request[r].stop].state \in Recoverable
               /\ ~assured'
            \/ request[r].at = "claim" /\ Ends(r) /\ UNCHANGED <<stops, assured>>
<1>1. request[r].stop \in Ids /\ request[r].at = "claim"
  BY IsTyped DEF ClaimStop, At
<1>2. CASE request[r].seen = <<stops[request[r].stop].state, stops[request[r].stop].revision>>
  <2>1. Move(request[r].stop, "RECOVERY_REQUESTED")
    BY <1>2 DEF ClaimStop
  <2>2. StopMoves(request[r].stop, "RECOVERY_REQUESTED")
    BY <1>1, <2>1, IsTyped DEF Move, PutStop, StopMoves, OnlyStop, Typed, StopRows
  <2>3. Walks(r, "claim", "begin") /\ SameTask(r)
    BY <1>1, <1>2, IsTyped DEF ClaimStop, Put, Typed, RequestRows, Walks, SameTask, Only
  <2>4. stops[request[r].stop].state \in Recoverable
    BY <1>1, <1>2 DEF IInv, Control, RecovererIsAnother, At
  <2>. QED
    BY <1>2, <2>2, <2>3, <2>4 DEF ClaimStop
<1>3. CASE ~(request[r].seen = <<stops[request[r].stop].state, stops[request[r].stop].revision>>)
  BY <1>1, <1>3, DoEnd DEF ClaimStop
<1>. QED
  BY <1>2, <1>3 DEF ClaimStop

LEMMA DoGoOn ==
  ASSUME IInv, NEW r \in Requests, NEW there, GoOn(r, there)
  PROVE  request'[r].at = there /\ request'[r].stop = request[r].stop /\ Only(r) /\ SameTask(r)
  BY IsTyped DEF GoOn, Put, Typed, RequestRows, SameTask, Only

LEMMA DoStartRecovery ==
  ASSUME IInv, NEW r \in Requests, StartRecovery(r)
  PROVE  /\ Walks(r, "begin", "resume") /\ SameTask(r)
         /\ StopMoves(request[r].stop, "RECOVERING")
         /\ UNCHANGED <<platform, shop, assured, events>>
<1>1. request[r].stop \in Ids /\ request[r].at = "begin"
  BY IsTyped DEF StartRecovery, At, Deciding
<1>2. StopMoves(request[r].stop, "RECOVERING")
  BY <1>1, IsTyped DEF StartRecovery, Move, PutStop, StopMoves, OnlyStop, Typed, StopRows
<1>. QED
  BY <1>1, <1>2, DoGoOn DEF StartRecovery, history, Walks

LEMMA DoMarkRecovering ==
  ASSUME IInv, NEW r \in Requests, MarkRecovering(r)
  PROVE  /\ Walks(r, "resume", "inspect") /\ SameTask(r)
         /\ SameHold /\ platform'.state = "RECOVERING" /\ platform'.stop = platform.stop
         /\ UNCHANGED <<stops, shop, assured, events>>
  BY IsTyped, DoGoOn DEF MarkRecovering, At, history, Walks, SameHold, Typed, Rows

LEMMA DoInspectValidation ==
  ASSUME IInv, NEW r \in Requests, InspectValidation(r)
  PROVE  /\ UNCHANGED <<platform, stops, shop, assured>> /\ EventsGrow
         /\ \/ Walks(r, "inspect", "restore") /\ NextTask(r)
            \/ Walks(r, "inspect", "failing") /\ SameTask(r) /\ "failure" \in events'
<1>1. UNCHANGED <<platform, stops, shop, assured>> /\ EventsGrow
  BY DEF InspectValidation, Answered, Failed, EventsGrow, history
<1>2. CASE Put(r, [request[r] EXCEPT !.at = "restore", !.todo = Shops])
  BY <1>1, <1>2, IsTyped DEF InspectValidation, Put, At, Typed, RequestRows, Walks, NextTask, Only
<1>3. CASE GoOn(r, "failing") /\ Failed(r)
  BY <1>1, <1>3, DoGoOn DEF InspectValidation, Failed, At, Walks
<1>. QED
  BY <1>2, <1>3 DEF InspectValidation

LEMMA DoRestoreShop ==
  ASSUME IInv, NEW r \in Requests, NEW s \in Shops, RestoreShop(r, s)
  PROVE  /\ Walks(r, "restore", "restore")
         /\ OnlyShop(s) /\ shop'[s].control = shop[s].control
         /\ shop[s].direct => shop'[s].direct
         /\ \E good \in BOOLEAN :
              /\ TaskDone(r, s, good) /\ (~good => "failure" \in events')
              /\ good => shop'[s].direct
              /\ good /\ shop[s].published => shop'[s].published
              /\ good /\ s \in stops[request[r].stop].saved => shop'[s].published
         /\ UNCHANGED <<platform, stops, assured>> /\ EventsGrow
<1>. DEFINE direct == Direct(s)
            done == [direct EXCEPT ![s].published = @ \/ s \in stops[request[r].stop].saved]
<1>1. PICK good \in BOOLEAN :
         /\ Worked(r, s, good) /\ (~good => Failed(r))
         /\ good => shop' = done
         /\ ~good => shop' \in {done} \union Broken(s, direct)
  BY DEF RestoreShop
<1>2. Walks(r, "restore", "restore") /\ TaskDone(r, s, good)
  BY <1>1, IsTyped, WorkedRow DEF RestoreShop, At, Typed, Walks, TaskDone, Only
<1>7. ShopsFit
  BY Parts DEF IInv
<1>8. direct \in [Shops -> ShopRows] /\ direct[s].direct
  BY <1>7 DEF Direct, ShopsFit, ShopRows
<1>9. \A t \in Shops \ {s} : direct[t] = shop[t]
  BY <1>7, PolicyFits
<1>10. direct[s].control = shop[s].control /\ direct[s].published = shop[s].published
  BY <1>7, PolicyFits
<1>11. \A all \in Broken(s, direct) :
          /\ \A t \in Shops \ {s} : all[t] = shop[t]
          /\ all[s].control = shop[s].control
          /\ all[s].direct \in {shop[s].direct, direct[s].direct}
  BY <1>7, BrokenFits
<1>. HIDE DEF direct
<1>12. /\ \A t \in Shops \ {s} : done[t] = shop[t]
       /\ done[s].control = shop[s].control /\ done[s].direct
       /\ done[s].published <=> shop[s].published \/ s \in stops[request[r].stop].saved
  BY <1>8, <1>9, <1>10 DEF ShopRows
<1>3. OnlyShop(s) /\ shop'[s].control = shop[s].control /\ (shop[s].direct => shop'[s].direct)
  BY <1>1, <1>8, <1>11, <1>12 DEF OnlyShop
<1>4. /\ good => shop'[s].direct
      /\ good /\ (shop[s].published \/ s \in stops[request[r].stop].saved) => shop'[s].published
  BY <1>1, <1>12
<1>5. UNCHANGED <<platform, stops, assured>> /\ EventsGrow
  BY DEF RestoreShop, history, EventsGrow, Answered, Failed
<1>6. ~good => "failure" \in events'
  BY <1>1 DEF Failed
<1>. QED
  BY <1>2, <1>3, <1>4, <1>5, <1>6

LEMMA DoAllowShop ==
  ASSUME IInv, NEW r \in Requests, NEW s \in Shops, AllowShop(r, s)
  PROVE  /\ Walks(r, "allow", "allow")
         /\ OnlyShop(s) /\ (shop'[s].direct <=> shop[s].direct) /\ (shop'[s].published <=> shop[s].published)
         /\ shop[s].control = "ALLOWED" => shop'[s].control = "ALLOWED"
         /\ \E good \in BOOLEAN :
              /\ TaskDone(r, s, good) /\ (~good => "failure" \in events')
              /\ good => shop'[s].control = "ALLOWED"
         /\ UNCHANGED <<platform, stops, assured>> /\ EventsGrow
<1>. DEFINE allowed == [shop EXCEPT ![s].control = "ALLOWED"]
            cleared == [allowed EXCEPT ![s].veto = "CLEARED"]
<1>1. PICK good \in BOOLEAN :
         /\ Worked(r, s, good) /\ (~good => Failed(r))
         /\ good => shop' = cleared
         /\ shop' \in {shop, allowed, cleared}
  BY DEF AllowShop
<1>2. Walks(r, "allow", "allow") /\ TaskDone(r, s, good)
  BY <1>1, IsTyped, WorkedRow DEF AllowShop, At, Typed, Walks, TaskDone, Only
<1>3. OnlyShop(s) /\ (shop'[s].direct <=> shop[s].direct) /\ (shop'[s].published <=> shop[s].published)
      /\ (shop[s].control = "ALLOWED" => shop'[s].control = "ALLOWED")
  BY <1>1, IsTyped DEF OnlyShop, Typed, ShopRows
<1>4. good => shop'[s].control = "ALLOWED"
  BY <1>1, IsTyped DEF Typed, ShopRows
<1>5. UNCHANGED <<platform, stops, assured>> /\ EventsGrow
  BY DEF AllowShop, history, EventsGrow, Answered, Failed
<1>6. ~good => "failure" \in events'
  BY <1>1 DEF Failed
<1>. QED
  BY <1>2, <1>3, <1>4, <1>5, <1>6

LEMMA DoProceedIf ==
  ASSUME IInv, NEW r \in Requests, NEW here, NEW there, ProceedIf(r, here, there)
  PROVE  /\ NextTask(r) /\ request[r].todo = {}
         /\ \/ Walks(r, here, there) /\ request[r].ok
            \/ Walks(r, here, "failing") /\ ~request[r].ok
         /\ UNCHANGED <<platform, stops, shop, assured, events>>
  BY IsTyped DEF ProceedIf, Put, At, Typed, RequestRows, Walks, NextTask, Only, history

LEMMA DoReleaseHold ==
  ASSUME IInv, NEW r \in Requests, ReleaseHold(r)
  PROVE  /\ UNCHANGED <<stops, shop, assured>> /\ EventsGrow
         /\ \/ /\ request[r].at = "release!" /\ Ends(r) /\ UNCHANGED platform
               /\ "refused" \in events'
            \/ /\ Walks(r, "release!", "recovered") /\ SameTask(r)
               /\ ~platform'.hold /\ SameState
<1>1. UNCHANGED <<stops, shop, assured>> /\ EventsGrow /\ request[r].at = "release!"
  BY DEF ReleaseHold, EventsGrow, At, history
<1>2. CASE End(r) /\ events' = events \union {"refused"} /\ UNCHANGED platform
  BY <1>1, <1>2, DoEnd
<1>3. CASE /\ platform' = HoldReleased(platform, request[r].look, request[r].by)
           /\ Put(r, [request[r] EXCEPT !.at = "recovered", !.look = NoHold])
  <2>1. Walks(r, "release!", "recovered") /\ SameTask(r)
    BY <1>1, <1>3, IsTyped DEF Put, Typed, RequestRows, Walks, SameTask, Only
  <2>2. ~platform'.hold /\ SameState
    BY <1>3, IsTyped DEF HoldReleased, Typed, Rows, SameState
  <2>. QED
    BY <1>1, <2>1, <2>2
<1>. QED
  BY <1>2, <1>3 DEF ReleaseHold

LEMMA DoCloseStop ==
  ASSUME IInv, NEW r \in Requests, CloseStop(r)
  PROVE  /\ Walks(r, "recovered", "idle") /\ SameTask(r)
         /\ request[r].stop \in Ids /\ OnlyStop(request[r].stop)
         /\ stops'[request[r].stop].state = "RECOVERED" /\ stops'[request[r].stop].key = None
         /\ UNCHANGED <<platform, shop, assured, events>>
<1>1. request[r].stop \in Ids /\ request[r].at = "recovered"
  BY IsTyped DEF CloseStop, At, Deciding, Opening
<1>2. /\ OnlyStop(request[r].stop)
      /\ stops'[request[r].stop].state = "RECOVERED" /\ stops'[request[r].stop].key = None
  BY <1>1, IsTyped DEF CloseStop, PutStop, OnlyStop, Typed, StopRows
<1>. QED
  BY <1>1, <1>2, DoGoOn DEF CloseStop, history, Walks

LEMMA DoMarkIdle ==
  ASSUME IInv, NEW r \in Requests, MarkIdle(r)
  PROVE  /\ request[r].at = "idle" /\ Ends(r)
         /\ SameHold /\ platform'.state = "IDLE"
         /\ "overtaken" \in events' \/ Standing \subseteq {request[r].stop}
         /\ UNCHANGED <<stops, shop, assured>> /\ EventsGrow
  BY IsTyped, DoEnd DEF MarkIdle, At, history, SameHold, EventsGrow, Typed, Rows

LEMMA DoFailStop ==
  ASSUME IInv, NEW r \in Requests, FailStop(r)
  PROVE  /\ Walks(r, "failing", "failing!") /\ SameTask(r)
         /\ StopMoves(request[r].stop, "RECOVERY_FAILED")
         /\ UNCHANGED <<platform, shop, assured, events>>
<1>1. request[r].stop \in Ids /\ request[r].at = "failing"
  BY IsTyped DEF FailStop, At, Deciding, Opening
<1>2. StopMoves(request[r].stop, "RECOVERY_FAILED")
  BY <1>1, IsTyped DEF FailStop, PutStop, StopMoves, OnlyStop, Typed, StopRows
<1>. QED
  BY <1>1, <1>2, DoGoOn DEF FailStop, history, Walks

LEMMA DoFailPlatform ==
  ASSUME IInv, NEW r \in Requests, FailPlatform(r)
  PROVE  /\ request[r].at = "failing!" /\ Ends(r)
         /\ SameHold /\ platform'.state = "RECOVERY_FAILED" /\ platform'.stop = platform.stop
         /\ "overtaken" \in events' \/ stops[request[r].stop].state = "RECOVERY_FAILED"
         /\ UNCHANGED <<stops, shop, assured>> /\ EventsGrow
  BY IsTyped, DoEnd DEF FailPlatform, At, history, SameHold, EventsGrow, Typed, Rows

\* What concerns e-mail, and a visit that begins, changes none of this.
Aside(r) ==
    /\ request[r].at \in Free /\ request'[r].at \in Free /\ Only(r)
    /\ request[r].ok => request'[r].ok
    /\ SameRow
    /\ UNCHANGED <<stops, shop, assured>> /\ EventsGrow

LEMMA DoEmail ==
  ASSUME IInv, NEW r \in Requests, SetEmailHold(r) \/ ReleaseEmailHold(r)
  PROVE  Aside(r)
<1>1. Ends(r)
  BY DoEnd DEF SetEmailHold, ReleaseEmailHold
<1>2. SameRow
  BY IsTyped DEF SetEmailHold, EmailSet, ReleaseEmailHold, EmailReleased, SameRow, SameHold, SameState, Typed, Rows
<1>. QED
  BY <1>1, <1>2 DEF Aside, Ends, Free, SetEmailHold, ReleaseEmailHold, At, EventsGrow, Visiting

LEMMA DoBegin ==
  ASSUME IInv, NEW r \in Requests, NEW a \in Actors, BeginEmail(r, a)
  PROVE  Aside(r)
<1>1. Only(r) /\ request[r].at \in Free /\ request'[r].at \in Free /\ request'[r].ok
  BY IsTyped DEF BeginEmail, Put, Resting, At, Only, Free, Typed, RequestRows, Visiting
<1>. QED
  BY <1>1 DEF Aside, SameRow, SameHold, SameState, BeginEmail, history, EventsGrow

LEMMA DoReadVisited ==
  ASSUME IInv, NEW r \in Requests, ReadVisited(r)
  PROVE  Aside(r)
<1>1. Only(r) /\ request[r].at \in Free /\ request'[r].at \in Free /\ (request[r].ok => request'[r].ok)
  BY IsTyped DEF ReadVisited, Put, At, Only, Free, Visiting, Typed, RequestRows
<1>. QED
  BY <1>1 DEF Aside, SameRow, SameHold, SameState, ReadVisited, history, EventsGrow

\* A synchronisation closes only under the hold, and then no recovery was under
\* way and a stop had recorded the products, or it is remembered.
Synchronises(s) == SyncCatalog(s) \/ \E r \in Requests : BackfillShop(r, s)

LEMMA DoSync ==
  ASSUME IInv, NEW s \in Shops, Synchronises(s)
  PROVE  /\ \A q \in Requests :
               \/ request'[q] = request[q]
               \/ request[q].at \in Free /\ request'[q].at \in Free /\ (request[q].ok => request'[q].ok)
         /\ OnlyShop(s) /\ shop'[s].control = shop[s].control
         /\ platform.hold /\ Withdrawn(s) => Withdrawn(s)'
         /\ shop'[s].published => shop[s].published
         /\ shop[s].published /\ ~shop'[s].published =>
               \/ {"undone", "forestalled", "failure"} \intersect events' # {}
               \/ ~Crossing /\ \E c \in Standing : s \in stops[c].saved
         /\ shop[s].direct /\ ~shop'[s].direct => platform.hold /\ ("undone" \in events' \/ ~Crossing)
         /\ UNCHANGED <<platform, stops, assured>> /\ EventsGrow
<1>1. ShopsFit /\ (shop' = Synced(s) \/ (shop' \in PartlySynced(s) /\ "failure" \in events'))
  <2>1. shop' = Synced(s) \/ (shop' \in PartlySynced(s) /\ "failure" \in events')
    <3>1. CASE SyncCatalog(s)
      BY <3>1 DEF SyncCatalog
    <3>2. ASSUME NEW r \in Requests, BackfillShop(r, s)
          PROVE  shop' = Synced(s) \/ (shop' \in PartlySynced(s) /\ "failure" \in events')
      BY <3>2 DEF BackfillShop
    <3>. QED
      BY <3>1, <3>2 DEF Synchronises
  <2>. QED
    BY <2>1, Parts DEF IInv
<1>2. /\ OnlyShop(s) /\ shop'[s].control = shop[s].control
      /\ shop'[s].published => shop[s].published
      /\ shop[s].published /\ ~shop'[s].published => platform.hold \/ "failure" \in events'
      /\ shop[s].direct /\ ~shop'[s].direct => platform.hold
  BY <1>1, SyncDoes DEF OnlyShop
<1>3. platform.hold /\ Withdrawn(s) => Withdrawn(s)'
  BY <1>1, SyncDoes DEF Withdrawn
<1>4. UNCHANGED <<platform, stops, assured>> /\ EventsGrow /\ Disturbed(s) \subseteq events'
  BY DEF Synchronises, SyncCatalog, BackfillShop, history, EventsGrow
<1>5. /\ platform.hold /\ Crossing /\ (shop[s].direct \/ shop[s].published) => "undone" \in events'
      /\ platform.hold /\ ~Crossing /\ shop[s].published =>
            "forestalled" \in events' \/ \E c \in Standing : s \in stops[c].saved
  BY <1>4 DEF Disturbed
<1>6. \A q \in Requests :
         \/ request'[q] = request[q]
         \/ request[q].at \in Free /\ request'[q].at \in Free /\ (request[q].ok => request'[q].ok)
  <2>1. CASE SyncCatalog(s)
    BY <2>1 DEF SyncCatalog
  <2>2. ASSUME NEW r \in Requests, BackfillShop(r, s)
        PROVE  /\ \A q \in Requests : q # r => request'[q] = request[q]
               /\ request[r].at \in Free /\ request'[r].at \in Free /\ (request[r].ok => request'[r].ok)
    BY <2>2, IsTyped DEF BackfillShop, Put, Resting, At, Free, Visiting, Typed, RequestRows
  <2>. QED
    BY <2>1, <2>2 DEF Synchronises
<1>. QED
  BY <1>2, <1>3, <1>4, <1>5, <1>6

LEMMA DoSyncVisitedShop ==
  ASSUME IInv, NEW r \in Requests, NEW s \in Shops, SyncVisitedShop(r, s)
  PROVE  /\ request[r].at = "visit!" /\ Ends(r)
         /\ OnlyShop(s) /\ (shop'[s].direct <=> shop[s].direct) /\ (shop'[s].published <=> shop[s].published)
         /\ "staleVisit" \in events' \/ (shop'[s].control = ControlOf(platform) /\ ~Crossing)
         /\ UNCHANGED <<platform, stops, assured>> /\ EventsGrow
<1>1. OnlyShop(s) /\ (shop'[s].direct <=> shop[s].direct) /\ (shop'[s].published <=> shop[s].published)
      /\ shop'[s].control = ControlOf(request[r].look)
  BY IsTyped DEF SyncVisitedShop, OnlyShop, Typed, ShopRows
<1>. QED
  BY <1>1, DoEnd DEF SyncVisitedShop, At, history, EventsGrow

LEMMA DoDie ==
  ASSUME IInv, NEW r \in Requests, Die(r)
  PROVE  /\ Ends(r) /\ "death" \in events'
         /\ UNCHANGED <<platform, stops, shop, assured>> /\ EventsGrow
  BY DoEnd DEF Die, history, EventsGrow

LEMMA DoCreateStop ==
  ASSUME IInv, NEW r \in Requests, NEW a \in Actors, CreateStop(r, a)
  PROVE  /\ request[r].at = "rest" /\ request'[r].at = "hold" /\ request'[r].ok /\ Only(r)
         /\ request'[r].stop \in Ids /\ OnlyStop(request'[r].stop)
         /\ stops[request'[r].stop].state = "NONE"
         /\ stops'[request'[r].stop].state = "ACTIVATING" /\ stops'[request'[r].stop].key # None
         /\ "twoStops" \in events' \/ Standing = {}
         /\ UNCHANGED <<platform, shop, assured>> /\ EventsGrow
<1>1. PICK s \in KeysOf(a), c \in Unused :
         /\ PutStop(c, [NoStop EXCEPT !.state = "ACTIVATING", !.key = s, !.by = a])
         /\ Put(r, [Resting EXCEPT !.at = "hold", !.by = a, !.stop = c])
  BY DEF CreateStop
<1>2. s \in Shops /\ c \in Ids /\ stops[c].state = "NONE"
  BY PrimaryIsShop DEF KeysOf, Unused
<1>3. request'[r].at = "hold" /\ request'[r].ok /\ Only(r) /\ request'[r].stop = c
  BY <1>1, IsTyped DEF Put, Resting, Only, Typed
<1>4. OnlyStop(c) /\ stops'[c].state = "ACTIVATING" /\ stops'[c].key = s
  BY <1>1, <1>2, IsTyped DEF PutStop, NoStop, OnlyStop, Typed
<1>. QED
  BY <1>2, <1>3, <1>4, Values DEF CreateStop, At, history, EventsGrow

LEMMA DoBeginRecovery ==
  ASSUME IInv, NEW r \in Requests, NEW a \in Actors, BeginRecovery(r, a)
  PROVE  /\ request[r].at = "rest" /\ request'[r].at = "claim" /\ request'[r].ok /\ Only(r)
         /\ UNCHANGED <<platform, stops, shop, assured, events>>
  BY IsTyped DEF BeginRecovery, Put, Resting, At, Only, Typed, history

LEMMA DoAgentStops ==
  ASSUME IInv, AgentStops
  PROVE  /\ UNCHANGED <<request, platform, stops, assured>> /\ EventsGrow /\ "agent" \in events'
         /\ \A s \in Shops :
               /\ shop'[s].control = shop[s].control
               /\ shop'[s].direct <=> shop[s].direct
               /\ shop'[s].published => shop[s].published
  BY IsTyped DEF AgentStops, history, EventsGrow, Typed, ShopRows

LEMMA DoLoseControl ==
  ASSUME IInv, NEW a \in Machines, LoseControl(a)
  PROVE  /\ UNCHANGED <<request, stops, shop, assured>> /\ EventsGrow /\ "controlLost" \in events'
         /\ platform'.hold
  BY IsTyped DEF LoseControl, history, EventsGrow, Typed, Rows

\* What a watchdog that is told to rest has read.
LEMMA DoTell ==
  ASSUME IInv, NEW r \in Requests, NEW a \in Actors, StopIsStanding(r, a) \/ WatchdogRests(r, a)
  PROVE  /\ UNCHANGED <<request, platform, stops, shop>> /\ EventsGrow
         /\ assured' => assured \/ ~Crossing
         /\ Standing # {} \/ platform.hold \/ platform.state # "IDLE"
<1>1. UNCHANGED <<request, platform, stops, shop>> /\ EventsGrow /\ (assured' => assured \/ ~Crossing)
  BY DEF StopIsStanding, WatchdogRests, EventsGrow, Told
<1>2. StopIsStanding(r, a) => Standing # {}
  BY Values, PrimaryIsShop DEF StopIsStanding, Taken, Standing
<1>3. WatchdogRests(r, a) => platform.hold \/ platform.state # "IDLE"
  BY DEF WatchdogRests, Protected, Protecting, Recoverable
<1>. QED
  BY <1>1, <1>2, <1>3

-----------------------------------------------------------------------------
(* Every step keeps what is said of the stop *)

\* A control that is free has no key.
LEMMA FreeStay ==
  ASSUME IInv, FreeHaveNoKey, Next
  PROVE  FreeHaveNoKey'
<1>1. \A q \in Requests : request[q].at \in Deciding \union {"claim", "idle", "failing!"} => request[q].stop \in
   Ids
  BY IsTyped
<1>2. ASSUME NEW r \in Requests, 
          \/ ReadRow(r, "hold", "hold!")
          \/ SetHold(r)
          \/ MarkActivating(r)
          \/ RoundIsOver(r, "block", "unpublish")
          \/ RoundIsOver(r, "unpublish", "finish")
          \/ FinishPlatform(r)
      PROVE  FreeHaveNoKey'
  BY <1>2, <1>1, DoReadRow, DoSetHold, DoMarkActivating, DoRoundIsOver, DoFinishPlatform DEF FreeHaveNoKey,
     Recoverable, Walks, SameTask, Only, SameState, EventsGrow, NextTask, SameHold
<1>3. ASSUME NEW r \in Requests, NEW s \in Shops, BlockShop(r, s)
      PROVE  FreeHaveNoKey'
  BY <1>3, <1>1, DoBlockShop DEF FreeHaveNoKey, Recoverable, Walks, TaskDone, Only, EventsGrow
<1>4. ASSUME NEW r \in Requests, NEW s \in Shops, UnpublishShop(r, s)
      PROVE  FreeHaveNoKey'
  BY <1>4, <1>1, DoUnpublishShop DEF FreeHaveNoKey, Recoverable, Walks, TaskDone, Only, OnlyStop, SameControls,
     OnlyShop, EventsGrow, Withdrawn
<1>5. ASSUME NEW r \in Requests, FinishStop(r)
      PROVE  FreeHaveNoKey'
  BY <1>5, <1>1, DoFinishStop DEF FreeHaveNoKey, Recoverable, Ends, Only, StopMoves, OnlyStop, Verdict
<1>6. ASSUME NEW r \in Requests, ClaimStop(r)
      PROVE  FreeHaveNoKey'
  BY <1>6, <1>1, DoClaimStop DEF FreeHaveNoKey, Recoverable, Walks, SameTask, Only, StopMoves, OnlyStop, Ends
<1>7. ASSUME NEW r \in Requests, StartRecovery(r)
      PROVE  FreeHaveNoKey'
  BY <1>7, <1>1, DoStartRecovery DEF FreeHaveNoKey, Recoverable, Walks, SameTask, Only, StopMoves, OnlyStop
<1>8. ASSUME NEW r \in Requests, 
          \/ MarkRecovering(r)
          \/ ReadRow(r, "release", "release!")
          \/ ProceedIf(r, "restore", "allow")
          \/ ProceedIf(r, "allow", "release")
      PROVE  FreeHaveNoKey'
  BY <1>8, <1>1, DoMarkRecovering, DoReadRow, DoProceedIf DEF FreeHaveNoKey, Recoverable, Walks, SameTask, Only,
     SameHold, NextTask
<1>9. ASSUME NEW r \in Requests, InspectValidation(r)
      PROVE  FreeHaveNoKey'
  BY <1>9, <1>1, DoInspectValidation DEF FreeHaveNoKey, Recoverable, Walks, NextTask, SameTask, Only, EventsGrow
<1>10. ASSUME NEW r \in Requests, NEW s \in Shops, RestoreShop(r, s)
      PROVE  FreeHaveNoKey'
  BY <1>10, <1>1, DoRestoreShop DEF FreeHaveNoKey, Recoverable, Walks, TaskDone, Only, OnlyShop, EventsGrow
<1>11. ASSUME NEW r \in Requests, NEW s \in Shops, AllowShop(r, s)
      PROVE  FreeHaveNoKey'
  BY <1>11, <1>1, DoAllowShop DEF FreeHaveNoKey, Recoverable, Walks, TaskDone, Only, OnlyShop, EventsGrow
<1>12. ASSUME NEW r \in Requests, ReleaseHold(r)
      PROVE  FreeHaveNoKey'
  BY <1>12, <1>1, DoReleaseHold DEF FreeHaveNoKey, Recoverable, Walks, SameTask, Only, Ends, SameState,
     EventsGrow
<1>13. ASSUME NEW r \in Requests, CloseStop(r)
      PROVE  FreeHaveNoKey'
  BY <1>13, <1>1, DoCloseStop DEF FreeHaveNoKey, Recoverable, Walks, SameTask, Only, OnlyStop
<1>14. ASSUME NEW r \in Requests, MarkIdle(r)
      PROVE  FreeHaveNoKey'
  BY <1>14, <1>1, DoMarkIdle DEF FreeHaveNoKey, Recoverable, Ends, Only, SameHold, EventsGrow
<1>15. ASSUME NEW r \in Requests, FailStop(r)
      PROVE  FreeHaveNoKey'
  BY <1>15, <1>1, DoFailStop DEF FreeHaveNoKey, Recoverable, Walks, SameTask, Only, StopMoves, OnlyStop
<1>16. ASSUME NEW r \in Requests, FailPlatform(r)
      PROVE  FreeHaveNoKey'
  BY <1>16, <1>1, DoFailPlatform DEF FreeHaveNoKey, Recoverable, Ends, Only, SameHold, EventsGrow
<1>17. ASSUME NEW r \in Requests, SetEmailHold(r) \/ ReleaseEmailHold(r)
      PROVE  FreeHaveNoKey'
  BY <1>17, <1>1, DoEmail DEF FreeHaveNoKey, Recoverable, Aside, Only, SameRow, SameHold, SameState, EventsGrow
<1>18. ASSUME NEW r \in Requests, NEW a \in Actors, BeginEmail(r, a) \/ BeginRecovery(r, a)
      PROVE  FreeHaveNoKey'
  BY <1>18, <1>1, DoBegin, DoBeginRecovery DEF FreeHaveNoKey, Recoverable, Aside, Only, SameRow, SameHold,
     SameState, EventsGrow
<1>19. ASSUME NEW r \in Requests, NEW a \in Actors, StopIsStanding(r, a) \/ WatchdogRests(r, a)
      PROVE  FreeHaveNoKey'
  BY <1>19, <1>1, DoTell DEF FreeHaveNoKey, Recoverable, EventsGrow
<1>20. ASSUME NEW r \in Requests, NEW s \in Shops, SyncVisitedShop(r, s)
      PROVE  FreeHaveNoKey'
  BY <1>20, <1>1, DoSyncVisitedShop DEF FreeHaveNoKey, Recoverable, Ends, Only, OnlyShop, EventsGrow
<1>21. ASSUME NEW r \in Requests, NEW a \in Actors, CreateStop(r, a)
      PROVE  FreeHaveNoKey'
  BY <1>21, <1>1, DoCreateStop DEF FreeHaveNoKey, Recoverable, Only, OnlyStop, EventsGrow
<1>22. ASSUME NEW r \in Requests, Die(r)
      PROVE  FreeHaveNoKey'
  BY <1>22, <1>1, DoDie DEF FreeHaveNoKey, Recoverable, Ends, Only, EventsGrow
<1>50. ASSUME NEW r \in Requests, ReadVisited(r)
      PROVE  FreeHaveNoKey'
  BY <1>50, <1>1, DoReadVisited DEF FreeHaveNoKey, Recoverable, Aside, Only, SameRow, SameHold, SameState, EventsGrow
<1>51. ASSUME NEW s \in Shops, Synchronises(s)
      PROVE  FreeHaveNoKey'
  BY <1>51, <1>1, DoSync DEF FreeHaveNoKey, Recoverable, EventsGrow, OnlyShop, Withdrawn
<1>23. ASSUME AgentStops
      PROVE  FreeHaveNoKey'
  BY <1>23, <1>1, DoAgentStops DEF FreeHaveNoKey, Recoverable, EventsGrow
<1>24. ASSUME NEW a \in Machines, LoseControl(a)
      PROVE  FreeHaveNoKey'
  BY <1>24, <1>1, DoLoseControl DEF FreeHaveNoKey, Recoverable, EventsGrow
<1>25. ASSUME NEW r \in Requests, StopStep(r) PROVE FreeHaveNoKey'
  BY <1>25, <1>2, <1>3, <1>4, <1>5 DEF StopStep
<1>26. ASSUME NEW r \in Requests, RecoveryStep(r) PROVE FreeHaveNoKey'
  BY <1>26, <1>6, <1>7, <1>8, <1>9, <1>10, <1>11, <1>12, <1>13, <1>14, <1>15, <1>16 DEF RecoveryStep
<1>27. ASSUME NEW r \in Requests, NEW a \in Actors, Begin(r, a) PROVE FreeHaveNoKey'
  BY <1>27, <1>18, <1>19, <1>21, <1>51 DEF Begin, BeginVisit, Synchronises
<1>28. ASSUME NEW r \in Requests, Continue(r) PROVE FreeHaveNoKey'
  BY <1>28, <1>25, <1>26, <1>17, <1>20, <1>50 DEF Continue
<1>. QED
  BY <1>28, <1>27, <1>22, <1>23, <1>24, <1>51 DEF Next, Synchronises

\* Nobody moves a control that is recovered.
LEMMA IdleStay ==
  ASSUME IInv, IdleIsClosed, Next
  PROVE  IdleIsClosed'
<1>1. \A q \in Requests : request[q].at \in Deciding \union {"claim", "idle", "failing!"} => request[q].stop \in
   Ids
  BY IsTyped
<1>2. \A q \in Requests : /\ request[q].at \in Stopping => stops[request[q].stop].state = "ACTIVATING"
                          /\ request[q].at = "begin" => stops[request[q].stop].state = "RECOVERY_REQUESTED"
                          /\ request[q].at \in Opening => stops[request[q].stop].state = "RECOVERING"
  BY DEF IInv, Control, ControlIsHeld, At
<1>3. ASSUME NEW r \in Requests, 
          \/ ReadRow(r, "hold", "hold!")
          \/ SetHold(r)
          \/ MarkActivating(r)
          \/ RoundIsOver(r, "block", "unpublish")
          \/ RoundIsOver(r, "unpublish", "finish")
          \/ FinishPlatform(r)
      PROVE  IdleIsClosed'
  BY <1>3, <1>1, <1>2, DoReadRow, DoSetHold, DoMarkActivating, DoRoundIsOver, DoFinishPlatform DEF IdleIsClosed,
     At, Recoverable, Stopping, Opening, Free, Walks, SameTask, Only, SameState, EventsGrow, NextTask, SameHold,
        Visiting
<1>4. ASSUME NEW r \in Requests, NEW s \in Shops, BlockShop(r, s)
      PROVE  IdleIsClosed'
  BY <1>4, <1>1, <1>2, DoBlockShop DEF IdleIsClosed, At, Recoverable, Stopping, Opening, Free, Walks, TaskDone,
     Only, EventsGrow, Visiting
<1>5. ASSUME NEW r \in Requests, NEW s \in Shops, UnpublishShop(r, s)
      PROVE  IdleIsClosed'
  BY <1>5, <1>1, <1>2, DoUnpublishShop DEF IdleIsClosed, At, Recoverable, Stopping, Opening, Free, Walks,
     TaskDone, Only, OnlyStop, SameControls, OnlyShop, EventsGrow, Withdrawn, Visiting
<1>6. ASSUME NEW r \in Requests, FinishStop(r)
      PROVE  IdleIsClosed'
  BY <1>6, <1>1, <1>2, DoFinishStop DEF IdleIsClosed, At, Recoverable, Stopping, Opening, Free, Ends, Only,
     StopMoves, OnlyStop, Verdict, Visiting
<1>7. ASSUME NEW r \in Requests, ClaimStop(r)
      PROVE  IdleIsClosed'
  BY <1>7, <1>1, <1>2, DoClaimStop DEF IdleIsClosed, At, Recoverable, Stopping, Opening, Free, Walks, SameTask,
     Only, StopMoves, OnlyStop, Ends, Visiting
<1>8. ASSUME NEW r \in Requests, StartRecovery(r)
      PROVE  IdleIsClosed'
  BY <1>8, <1>1, <1>2, DoStartRecovery DEF IdleIsClosed, At, Recoverable, Stopping, Opening, Free, Walks,
     SameTask, Only, StopMoves, OnlyStop, Visiting
<1>9. ASSUME NEW r \in Requests, 
          \/ MarkRecovering(r)
          \/ ReadRow(r, "release", "release!")
          \/ ProceedIf(r, "restore", "allow")
          \/ ProceedIf(r, "allow", "release")
      PROVE  IdleIsClosed'
  BY <1>9, <1>1, <1>2, DoMarkRecovering, DoReadRow, DoProceedIf DEF IdleIsClosed, At, Recoverable, Stopping,
     Opening, Free, Walks, SameTask, Only, SameHold, NextTask, Visiting
<1>10. ASSUME NEW r \in Requests, InspectValidation(r)
      PROVE  IdleIsClosed'
  BY <1>10, <1>1, <1>2, DoInspectValidation DEF IdleIsClosed, At, Recoverable, Stopping, Opening, Free, Walks,
     NextTask, SameTask, Only, EventsGrow, Visiting
<1>11. ASSUME NEW r \in Requests, NEW s \in Shops, RestoreShop(r, s)
      PROVE  IdleIsClosed'
  BY <1>11, <1>1, <1>2, DoRestoreShop DEF IdleIsClosed, At, Recoverable, Stopping, Opening, Free, Walks,
     TaskDone, Only, OnlyShop, EventsGrow, Visiting
<1>12. ASSUME NEW r \in Requests, NEW s \in Shops, AllowShop(r, s)
      PROVE  IdleIsClosed'
  BY <1>12, <1>1, <1>2, DoAllowShop DEF IdleIsClosed, At, Recoverable, Stopping, Opening, Free, Walks, TaskDone,
     Only, OnlyShop, EventsGrow, Visiting
<1>13. ASSUME NEW r \in Requests, ReleaseHold(r)
      PROVE  IdleIsClosed'
  BY <1>13, <1>1, <1>2, DoReleaseHold DEF IdleIsClosed, At, Recoverable, Stopping, Opening, Free, Walks,
     SameTask, Only, Ends, SameState, EventsGrow, Visiting
<1>14. ASSUME NEW r \in Requests, CloseStop(r)
      PROVE  IdleIsClosed'
  BY <1>14, <1>1, <1>2, DoCloseStop DEF IdleIsClosed, At, Recoverable, Stopping, Opening, Free, Walks, SameTask,
     Only, OnlyStop, Visiting
<1>15. ASSUME NEW r \in Requests, MarkIdle(r)
      PROVE  IdleIsClosed'
  BY <1>15, <1>1, <1>2, DoMarkIdle DEF IdleIsClosed, At, Recoverable, Stopping, Opening, Free, Ends, Only,
     SameHold, EventsGrow, Visiting
<1>16. ASSUME NEW r \in Requests, FailStop(r)
      PROVE  IdleIsClosed'
  BY <1>16, <1>1, <1>2, DoFailStop DEF IdleIsClosed, At, Recoverable, Stopping, Opening, Free, Walks, SameTask,
     Only, StopMoves, OnlyStop, Visiting
<1>17. ASSUME NEW r \in Requests, FailPlatform(r)
      PROVE  IdleIsClosed'
  BY <1>17, <1>1, <1>2, DoFailPlatform DEF IdleIsClosed, At, Recoverable, Stopping, Opening, Free, Ends, Only,
     SameHold, EventsGrow, Visiting
<1>18. ASSUME NEW r \in Requests, SetEmailHold(r) \/ ReleaseEmailHold(r)
      PROVE  IdleIsClosed'
  BY <1>18, <1>1, <1>2, DoEmail DEF IdleIsClosed, At, Recoverable, Stopping, Opening, Free, Aside, Only,
     SameRow, SameHold, SameState, EventsGrow, Visiting
<1>19. ASSUME NEW r \in Requests, NEW a \in Actors, BeginEmail(r, a) \/ BeginRecovery(r, a)
      PROVE  IdleIsClosed'
  BY <1>19, <1>1, <1>2, DoBegin, DoBeginRecovery DEF IdleIsClosed, At, Recoverable, Stopping, Opening, Free,
     Aside, Only, SameRow, SameHold, SameState, EventsGrow, Visiting
<1>20. ASSUME NEW r \in Requests, NEW a \in Actors, StopIsStanding(r, a) \/ WatchdogRests(r, a)
      PROVE  IdleIsClosed'
  BY <1>20, <1>1, <1>2, DoTell DEF IdleIsClosed, At, Recoverable, Stopping, Opening, Free, EventsGrow, Visiting
<1>21. ASSUME NEW r \in Requests, NEW s \in Shops, SyncVisitedShop(r, s)
      PROVE  IdleIsClosed'
  BY <1>21, <1>1, <1>2, DoSyncVisitedShop DEF IdleIsClosed, At, Recoverable, Stopping, Opening, Free, Ends,
     Only, OnlyShop, EventsGrow, Visiting
<1>22. ASSUME NEW r \in Requests, NEW a \in Actors, CreateStop(r, a)
      PROVE  IdleIsClosed'
  BY <1>22, <1>1, <1>2, DoCreateStop DEF IdleIsClosed, At, Recoverable, Stopping, Opening, Free, Only, OnlyStop,
     EventsGrow, Visiting
<1>23. ASSUME NEW r \in Requests, Die(r)
      PROVE  IdleIsClosed'
  BY <1>23, <1>1, <1>2, DoDie DEF IdleIsClosed, At, Recoverable, Stopping, Opening, Free, Ends, Only, EventsGrow,
     Visiting
<1>50. ASSUME NEW r \in Requests, ReadVisited(r)
      PROVE  IdleIsClosed'
  BY <1>50, <1>1, <1>2, DoReadVisited DEF IdleIsClosed, At, Recoverable, Stopping, Opening, Free, Aside, Only,
     SameRow, SameHold, SameState, EventsGrow, Visiting
<1>51. ASSUME NEW s \in Shops, Synchronises(s)
      PROVE  IdleIsClosed'
  BY <1>51, <1>1, <1>2, DoSync DEF IdleIsClosed, At, Recoverable, Stopping, Opening, Free, EventsGrow,
     Visiting, OnlyShop, Withdrawn
<1>24. ASSUME AgentStops
      PROVE  IdleIsClosed'
  BY <1>24, <1>1, <1>2, DoAgentStops DEF IdleIsClosed, At, Recoverable, Stopping, Opening, Free, EventsGrow, Visiting
<1>25. ASSUME NEW a \in Machines, LoseControl(a)
      PROVE  IdleIsClosed'
  BY <1>25, <1>1, <1>2, DoLoseControl DEF IdleIsClosed, At, Recoverable, Stopping, Opening, Free, EventsGrow, Visiting
<1>26. ASSUME NEW r \in Requests, StopStep(r) PROVE IdleIsClosed'
  BY <1>26, <1>3, <1>4, <1>5, <1>6 DEF StopStep
<1>27. ASSUME NEW r \in Requests, RecoveryStep(r) PROVE IdleIsClosed'
  BY <1>27, <1>7, <1>8, <1>9, <1>10, <1>11, <1>12, <1>13, <1>14, <1>15, <1>16, <1>17 DEF RecoveryStep
<1>28. ASSUME NEW r \in Requests, NEW a \in Actors, Begin(r, a) PROVE IdleIsClosed'
  BY <1>28, <1>19, <1>20, <1>22, <1>51 DEF Begin, BeginVisit, Synchronises
<1>29. ASSUME NEW r \in Requests, Continue(r) PROVE IdleIsClosed'
  BY <1>29, <1>26, <1>27, <1>18, <1>21, <1>50 DEF Continue
<1>. QED
  BY <1>29, <1>28, <1>23, <1>24, <1>25, <1>51 DEF Next, Synchronises

\* Whatever fails is remembered.
LEMMA FailuresStay ==
  ASSUME IInv, FailuresShow, Next
  PROVE  FailuresShow'
<1>1. ASSUME NEW r \in Requests, 
          \/ ReadRow(r, "hold", "hold!")
          \/ SetHold(r)
          \/ MarkActivating(r)
          \/ RoundIsOver(r, "block", "unpublish")
          \/ RoundIsOver(r, "unpublish", "finish")
          \/ FinishPlatform(r)
      PROVE  FailuresShow'
  BY <1>1, DoReadRow, DoSetHold, DoMarkActivating, DoRoundIsOver, DoFinishPlatform DEF FailuresShow, At, Free,
     Walks, SameTask, Only, SameState, EventsGrow, NextTask, SameHold, Visiting
<1>2. ASSUME NEW r \in Requests, NEW s \in Shops, BlockShop(r, s)
      PROVE  FailuresShow'
  BY <1>2, DoBlockShop DEF FailuresShow, At, Free, Walks, TaskDone, Only, EventsGrow, Visiting
<1>3. ASSUME NEW r \in Requests, NEW s \in Shops, UnpublishShop(r, s)
      PROVE  FailuresShow'
  BY <1>3, DoUnpublishShop DEF FailuresShow, At, Free, Walks, TaskDone, Only, OnlyStop, SameControls, OnlyShop,
     EventsGrow, Withdrawn, Visiting
<1>4. ASSUME NEW r \in Requests, FinishStop(r)
      PROVE  FailuresShow'
  BY <1>4, DoFinishStop DEF FailuresShow, At, Free, Ends, Only, StopMoves, OnlyStop, Visiting
<1>5. ASSUME NEW r \in Requests, ClaimStop(r)
      PROVE  FailuresShow'
  BY <1>5, DoClaimStop DEF FailuresShow, At, Free, Walks, SameTask, Only, StopMoves, OnlyStop, Ends, Visiting
<1>6. ASSUME NEW r \in Requests, StartRecovery(r)
      PROVE  FailuresShow'
  BY <1>6, DoStartRecovery DEF FailuresShow, At, Free, Walks, SameTask, Only, StopMoves, OnlyStop, Visiting
<1>7. ASSUME NEW r \in Requests, 
          \/ MarkRecovering(r)
          \/ ReadRow(r, "release", "release!")
          \/ ProceedIf(r, "restore", "allow")
          \/ ProceedIf(r, "allow", "release")
      PROVE  FailuresShow'
  BY <1>7, DoMarkRecovering, DoReadRow, DoProceedIf DEF FailuresShow, At, Free, Walks, SameTask, Only, SameHold,
     NextTask, Visiting
<1>8. ASSUME NEW r \in Requests, InspectValidation(r)
      PROVE  FailuresShow'
  BY <1>8, DoInspectValidation DEF FailuresShow, At, Free, Walks, NextTask, SameTask, Only, EventsGrow, Visiting
<1>9. ASSUME NEW r \in Requests, NEW s \in Shops, RestoreShop(r, s)
      PROVE  FailuresShow'
  BY <1>9, DoRestoreShop DEF FailuresShow, At, Free, Walks, TaskDone, Only, OnlyShop, EventsGrow, Visiting
<1>10. ASSUME NEW r \in Requests, NEW s \in Shops, AllowShop(r, s)
      PROVE  FailuresShow'
  BY <1>10, DoAllowShop DEF FailuresShow, At, Free, Walks, TaskDone, Only, OnlyShop, EventsGrow, Visiting
<1>11. ASSUME NEW r \in Requests, ReleaseHold(r)
      PROVE  FailuresShow'
  BY <1>11, DoReleaseHold DEF FailuresShow, At, Free, Walks, SameTask, Only, Ends, SameState, EventsGrow, Visiting
<1>12. ASSUME NEW r \in Requests, CloseStop(r)
      PROVE  FailuresShow'
  BY <1>12, DoCloseStop DEF FailuresShow, At, Free, Walks, SameTask, Only, OnlyStop, Visiting
<1>13. ASSUME NEW r \in Requests, MarkIdle(r)
      PROVE  FailuresShow'
  BY <1>13, DoMarkIdle DEF FailuresShow, At, Free, Ends, Only, SameHold, EventsGrow, Visiting
<1>14. ASSUME NEW r \in Requests, FailStop(r)
      PROVE  FailuresShow'
  BY <1>14, DoFailStop DEF FailuresShow, At, Free, Walks, SameTask, Only, StopMoves, OnlyStop, Visiting
<1>15. ASSUME NEW r \in Requests, FailPlatform(r)
      PROVE  FailuresShow'
  BY <1>15, DoFailPlatform DEF FailuresShow, At, Free, Ends, Only, SameHold, EventsGrow, Visiting
<1>16. ASSUME NEW r \in Requests, SetEmailHold(r) \/ ReleaseEmailHold(r)
      PROVE  FailuresShow'
  BY <1>16, DoEmail DEF FailuresShow, At, Free, Aside, Only, SameRow, SameHold, SameState, EventsGrow, Visiting
<1>17. ASSUME NEW r \in Requests, NEW a \in Actors, BeginEmail(r, a) \/ BeginRecovery(r, a)
      PROVE  FailuresShow'
  BY <1>17, DoBegin, DoBeginRecovery DEF FailuresShow, At, Free, Aside, Only, SameRow, SameHold, SameState,
     EventsGrow, Visiting
<1>18. ASSUME NEW r \in Requests, NEW a \in Actors, StopIsStanding(r, a) \/ WatchdogRests(r, a)
      PROVE  FailuresShow'
  BY <1>18, DoTell DEF FailuresShow, At, Free, EventsGrow, Visiting
<1>19. ASSUME NEW r \in Requests, NEW s \in Shops, SyncVisitedShop(r, s)
      PROVE  FailuresShow'
  BY <1>19, DoSyncVisitedShop DEF FailuresShow, At, Free, Ends, Only, OnlyShop, EventsGrow, Visiting
<1>20. ASSUME NEW r \in Requests, NEW a \in Actors, CreateStop(r, a)
      PROVE  FailuresShow'
  BY <1>20, DoCreateStop DEF FailuresShow, At, Free, Only, OnlyStop, EventsGrow, Visiting
<1>21. ASSUME NEW r \in Requests, Die(r)
      PROVE  FailuresShow'
  BY <1>21, DoDie DEF FailuresShow, At, Free, Ends, Only, EventsGrow, Visiting
<1>50. ASSUME NEW r \in Requests, ReadVisited(r)
      PROVE  FailuresShow'
  BY <1>50, DoReadVisited DEF FailuresShow, At, Free, Aside, Only, SameRow, SameHold, SameState, EventsGrow, Visiting
<1>51. ASSUME NEW s \in Shops, Synchronises(s)
      PROVE  FailuresShow'
  BY <1>51, DoSync DEF FailuresShow, At, Free, EventsGrow, Visiting, OnlyShop, Withdrawn
<1>22. ASSUME AgentStops
      PROVE  FailuresShow'
  BY <1>22, DoAgentStops DEF FailuresShow, At, Free, EventsGrow, Visiting
<1>23. ASSUME NEW a \in Machines, LoseControl(a)
      PROVE  FailuresShow'
  BY <1>23, DoLoseControl DEF FailuresShow, At, Free, EventsGrow, Visiting
<1>24. ASSUME NEW r \in Requests, StopStep(r) PROVE FailuresShow'
  BY <1>24, <1>1, <1>2, <1>3, <1>4 DEF StopStep
<1>25. ASSUME NEW r \in Requests, RecoveryStep(r) PROVE FailuresShow'
  BY <1>25, <1>5, <1>6, <1>7, <1>8, <1>9, <1>10, <1>11, <1>12, <1>13, <1>14, <1>15 DEF RecoveryStep
<1>26. ASSUME NEW r \in Requests, NEW a \in Actors, Begin(r, a) PROVE FailuresShow'
  BY <1>26, <1>17, <1>18, <1>20, <1>51 DEF Begin, BeginVisit, Synchronises
<1>27. ASSUME NEW r \in Requests, Continue(r) PROVE FailuresShow'
  BY <1>27, <1>24, <1>25, <1>16, <1>19, <1>50 DEF Continue
<1>. QED
  BY <1>27, <1>26, <1>21, <1>22, <1>23, <1>51 DEF Next, Synchronises

\* A stop is left to itself when it is active.
LEMMA LeftStay ==
  ASSUME IInv, FailuresShow, LeftStopIsActive, Next
  PROVE  LeftStopIsActive'
<1>1. \A q \in Requests : request[q].at \in Deciding \union {"claim", "idle", "failing!"} => request[q].stop \in
   Ids
  BY IsTyped
<1>2. ASSUME NEW r \in Requests, 
          \/ ReadRow(r, "hold", "hold!")
          \/ SetHold(r)
          \/ MarkActivating(r)
          \/ RoundIsOver(r, "block", "unpublish")
          \/ RoundIsOver(r, "unpublish", "finish")
          \/ FinishPlatform(r)
      PROVE  LeftStopIsActive'
  BY <1>2, <1>1, DoReadRow, DoSetHold, DoMarkActivating, DoRoundIsOver, DoFinishPlatform DEF LeftStopIsActive,
     Decided, Without, Standing, Deciding, Stopping, Opening, Free, Walks, SameTask, Only, SameState,
     EventsGrow, NextTask, SameHold, Visiting
<1>3. ASSUME NEW r \in Requests, NEW s \in Shops, BlockShop(r, s)
      PROVE  LeftStopIsActive'
  BY <1>3, <1>1, DoBlockShop DEF LeftStopIsActive, Decided, Without, Standing, Deciding, Stopping, Opening,
     Free, Walks, TaskDone, Only, EventsGrow, Visiting
<1>4. ASSUME NEW r \in Requests, NEW s \in Shops, UnpublishShop(r, s)
      PROVE  LeftStopIsActive'
  BY <1>4, <1>1, DoUnpublishShop DEF LeftStopIsActive, Decided, Without, Standing, Deciding, Stopping, Opening,
     Free, Walks, TaskDone, Only, OnlyStop, SameControls, OnlyShop, EventsGrow, Withdrawn, Visiting
<1>5. ASSUME NEW r \in Requests, FinishStop(r)
      PROVE  LeftStopIsActive'
  BY <1>5, <1>1, DoFinishStop DEF LeftStopIsActive, Decided, Without, Standing, Deciding, Stopping, Opening,
     Free, Ends, Only, StopMoves, OnlyStop, Verdict, FailuresShow, Visiting
<1>6. ASSUME NEW r \in Requests, ClaimStop(r)
      PROVE  LeftStopIsActive'
  BY <1>6, <1>1, DoClaimStop DEF LeftStopIsActive, Decided, Without, Standing, Deciding, Stopping, Opening,
     Free, Walks, SameTask, Only, StopMoves, OnlyStop, Ends, Visiting
<1>7. ASSUME NEW r \in Requests, StartRecovery(r)
      PROVE  LeftStopIsActive'
  BY <1>7, <1>1, DoStartRecovery DEF LeftStopIsActive, Decided, Without, Standing, Deciding, Stopping, Opening,
     Free, Walks, SameTask, Only, StopMoves, OnlyStop, Visiting
<1>8. ASSUME NEW r \in Requests, 
          \/ MarkRecovering(r)
          \/ ReadRow(r, "release", "release!")
          \/ ProceedIf(r, "restore", "allow")
          \/ ProceedIf(r, "allow", "release")
      PROVE  LeftStopIsActive'
  BY <1>8, <1>1, DoMarkRecovering, DoReadRow, DoProceedIf DEF LeftStopIsActive, Decided, Without, Standing,
     Deciding, Stopping, Opening, Free, Walks, SameTask, Only, SameHold, NextTask, Visiting
<1>9. ASSUME NEW r \in Requests, InspectValidation(r)
      PROVE  LeftStopIsActive'
  BY <1>9, <1>1, DoInspectValidation DEF LeftStopIsActive, Decided, Without, Standing, Deciding, Stopping,
     Opening, Free, Walks, NextTask, SameTask, Only, EventsGrow, Visiting
<1>10. ASSUME NEW r \in Requests, NEW s \in Shops, RestoreShop(r, s)
      PROVE  LeftStopIsActive'
  BY <1>10, <1>1, DoRestoreShop DEF LeftStopIsActive, Decided, Without, Standing, Deciding, Stopping, Opening,
     Free, Walks, TaskDone, Only, OnlyShop, EventsGrow, Visiting
<1>11. ASSUME NEW r \in Requests, NEW s \in Shops, AllowShop(r, s)
      PROVE  LeftStopIsActive'
  BY <1>11, <1>1, DoAllowShop DEF LeftStopIsActive, Decided, Without, Standing, Deciding, Stopping, Opening,
     Free, Walks, TaskDone, Only, OnlyShop, EventsGrow, Visiting
<1>12. ASSUME NEW r \in Requests, ReleaseHold(r)
      PROVE  LeftStopIsActive'
  BY <1>12, <1>1, DoReleaseHold DEF LeftStopIsActive, Decided, Without, Standing, Deciding, Stopping, Opening,
     Free, Walks, SameTask, Only, Ends, SameState, EventsGrow, Visiting
<1>13. ASSUME NEW r \in Requests, CloseStop(r)
      PROVE  LeftStopIsActive'
  BY <1>13, <1>1, DoCloseStop DEF LeftStopIsActive, Decided, Without, Standing, Deciding, Stopping, Opening,
     Free, Walks, SameTask, Only, OnlyStop, Visiting
<1>14. ASSUME NEW r \in Requests, MarkIdle(r)
      PROVE  LeftStopIsActive'
  BY <1>14, <1>1, DoMarkIdle DEF LeftStopIsActive, Decided, Without, Standing, Deciding, Stopping, Opening,
     Free, Ends, Only, SameHold, EventsGrow, Visiting
<1>15. ASSUME NEW r \in Requests, FailStop(r)
      PROVE  LeftStopIsActive'
  BY <1>15, <1>1, DoFailStop DEF LeftStopIsActive, Decided, Without, Standing, Deciding, Stopping, Opening,
     Free, Walks, SameTask, Only, StopMoves, OnlyStop, FailuresShow, At, Visiting
<1>16. ASSUME NEW r \in Requests, FailPlatform(r)
      PROVE  LeftStopIsActive'
  BY <1>16, <1>1, DoFailPlatform DEF LeftStopIsActive, Decided, Without, Standing, Deciding, Stopping, Opening,
     Free, Ends, Only, SameHold, EventsGrow, Visiting
<1>17. ASSUME NEW r \in Requests, SetEmailHold(r) \/ ReleaseEmailHold(r)
      PROVE  LeftStopIsActive'
  BY <1>17, <1>1, DoEmail DEF LeftStopIsActive, Decided, Without, Standing, Deciding, Stopping, Opening, Free,
     Aside, Only, SameRow, SameHold, SameState, EventsGrow, Visiting
<1>18. ASSUME NEW r \in Requests, NEW a \in Actors, BeginEmail(r, a) \/ BeginRecovery(r, a)
      PROVE  LeftStopIsActive'
  BY <1>18, <1>1, DoBegin, DoBeginRecovery DEF LeftStopIsActive, Decided, Without, Standing, Deciding, Stopping,
     Opening, Free, Aside, Only, SameRow, SameHold, SameState, EventsGrow, Visiting
<1>19. ASSUME NEW r \in Requests, NEW a \in Actors, StopIsStanding(r, a) \/ WatchdogRests(r, a)
      PROVE  LeftStopIsActive'
  BY <1>19, <1>1, DoTell DEF LeftStopIsActive, Decided, Without, Standing, Deciding, Stopping, Opening, Free,
     EventsGrow, Visiting
<1>20. ASSUME NEW r \in Requests, NEW s \in Shops, SyncVisitedShop(r, s)
      PROVE  LeftStopIsActive'
  BY <1>20, <1>1, DoSyncVisitedShop DEF LeftStopIsActive, Decided, Without, Standing, Deciding, Stopping,
     Opening, Free, Ends, Only, OnlyShop, EventsGrow, Visiting
<1>21. ASSUME NEW r \in Requests, NEW a \in Actors, CreateStop(r, a)
      PROVE  LeftStopIsActive'
  BY <1>21, <1>1, DoCreateStop DEF LeftStopIsActive, Decided, Without, Standing, Deciding, Stopping, Opening,
     Free, Only, OnlyStop, EventsGrow, Visiting
<1>22. ASSUME NEW r \in Requests, Die(r)
      PROVE  LeftStopIsActive'
  BY <1>22, <1>1, DoDie DEF LeftStopIsActive, Decided, Without, Standing, Deciding, Stopping, Opening, Free,
     Ends, Only, EventsGrow, Visiting
<1>50. ASSUME NEW r \in Requests, ReadVisited(r)
      PROVE  LeftStopIsActive'
  BY <1>50, <1>1, DoReadVisited DEF LeftStopIsActive, Decided, Without, Standing, Deciding, Stopping, Opening, Free,
     Aside, Only, SameRow, SameHold, SameState, EventsGrow, Visiting
<1>51. ASSUME NEW s \in Shops, Synchronises(s)
      PROVE  LeftStopIsActive'
  BY <1>51, <1>1, DoSync DEF LeftStopIsActive, Decided, Without, Standing, Deciding, Stopping, Opening, Free,
     EventsGrow, Visiting, OnlyShop, Withdrawn
<1>23. ASSUME AgentStops
      PROVE  LeftStopIsActive'
  BY <1>23, <1>1, DoAgentStops DEF LeftStopIsActive, Decided, Without, Standing, Deciding, Stopping, Opening,
     Free, EventsGrow, Visiting
<1>24. ASSUME NEW a \in Machines, LoseControl(a)
      PROVE  LeftStopIsActive'
  BY <1>24, <1>1, DoLoseControl DEF LeftStopIsActive, Decided, Without, Standing, Deciding, Stopping, Opening,
     Free, EventsGrow, Visiting
<1>25. ASSUME NEW r \in Requests, StopStep(r) PROVE LeftStopIsActive'
  BY <1>25, <1>2, <1>3, <1>4, <1>5 DEF StopStep
<1>26. ASSUME NEW r \in Requests, RecoveryStep(r) PROVE LeftStopIsActive'
  BY <1>26, <1>6, <1>7, <1>8, <1>9, <1>10, <1>11, <1>12, <1>13, <1>14, <1>15, <1>16 DEF RecoveryStep
<1>27. ASSUME NEW r \in Requests, NEW a \in Actors, Begin(r, a) PROVE LeftStopIsActive'
  BY <1>27, <1>18, <1>19, <1>21, <1>51 DEF Begin, BeginVisit, Synchronises
<1>28. ASSUME NEW r \in Requests, Continue(r) PROVE LeftStopIsActive'
  BY <1>28, <1>25, <1>26, <1>17, <1>20, <1>50 DEF Continue
<1>. QED
  BY <1>28, <1>27, <1>22, <1>23, <1>24, <1>51 DEF Next, Synchronises

\* What a stop has withdrawn stays withdrawn, unless there are two.
LEMMA WithdrawnStay ==
  ASSUME IInv, StopsWithdraw, Next
  PROVE  StopsWithdraw'
<1>1. \A q \in Requests : request[q].at \in Deciding \union {"claim", "idle", "failing!"} => request[q].stop \in
   Ids
  BY IsTyped
<1>2. \A q \in Requests : /\ request[q].at \in Stopping => stops[request[q].stop].state = "ACTIVATING"
                          /\ request[q].at = "begin" => stops[request[q].stop].state = "RECOVERY_REQUESTED"
                          /\ request[q].at \in Opening => stops[request[q].stop].state = "RECOVERING"
  BY DEF IInv, Control, ControlIsHeld, At
<1>3. ASSUME NEW r \in Requests, request[r].at \in Opening, "twoStops" \notin events
      PROVE  /\ \A q \in Requests : request[q].at \notin Stopping
             /\ \A c \in Ids : stops[c].state # "ACTIVE"
             /\ request[r].stop \in Standing
  BY <1>3, OpeningIsAlone DEF IInv
<1>4. ASSUME NEW r \in Requests, 
          \/ ReadRow(r, "hold", "hold!")
          \/ SetHold(r)
          \/ MarkActivating(r)
          \/ RoundIsOver(r, "block", "unpublish")
          \/ RoundIsOver(r, "unpublish", "finish")
          \/ FinishPlatform(r)
      PROVE  StopsWithdraw'
  BY <1>4, <1>1, <1>2, <1>3, DoReadRow, DoSetHold, DoMarkActivating, DoRoundIsOver, DoFinishPlatform DEF
     StopsWithdraw, StopOfWithdraws, Without, At, Withdrawn, Stopping, Opening, Free, Walks, SameTask, Only,
     SameState, EventsGrow, NextTask, SameHold, Visiting
<1>5. ASSUME NEW r \in Requests, NEW s \in Shops, BlockShop(r, s)
      PROVE  StopsWithdraw'
  BY <1>5, <1>1, <1>2, <1>3, DoBlockShop DEF StopsWithdraw, StopOfWithdraws, Without, At, Withdrawn, Stopping,
     Opening, Free, Walks, TaskDone, Only, EventsGrow, Visiting
<1>6. ASSUME NEW r \in Requests, NEW s \in Shops, UnpublishShop(r, s)
      PROVE  StopsWithdraw'
  BY <1>6, <1>1, <1>2, <1>3, DoUnpublishShop DEF StopsWithdraw, StopOfWithdraws, Without, At, Withdrawn,
     Stopping, Opening, Free, Walks, TaskDone, Only, OnlyStop, SameControls, OnlyShop, EventsGrow, Visiting
<1>7. ASSUME NEW r \in Requests, FinishStop(r)
      PROVE  StopsWithdraw'
  BY <1>7, <1>1, <1>2, <1>3, DoFinishStop DEF StopsWithdraw, StopOfWithdraws, Without, At, Withdrawn, Stopping,
     Opening, Free, Ends, Only, StopMoves, OnlyStop, Verdict, Visiting
<1>8. ASSUME NEW r \in Requests, ClaimStop(r)
      PROVE  StopsWithdraw'
  BY <1>8, <1>1, <1>2, <1>3, DoClaimStop DEF StopsWithdraw, StopOfWithdraws, Without, At, Withdrawn, Stopping,
     Opening, Free, Walks, SameTask, Only, StopMoves, OnlyStop, Ends, Recoverable, Visiting
<1>9. ASSUME NEW r \in Requests, StartRecovery(r)
      PROVE  StopsWithdraw'
  BY <1>9, <1>1, <1>2, <1>3, DoStartRecovery DEF StopsWithdraw, StopOfWithdraws, Without, At, Withdrawn,
     Stopping, Opening, Free, Walks, SameTask, Only, StopMoves, OnlyStop, Visiting
<1>10. ASSUME NEW r \in Requests, 
          \/ MarkRecovering(r)
          \/ ReadRow(r, "release", "release!")
          \/ ProceedIf(r, "restore", "allow")
          \/ ProceedIf(r, "allow", "release")
      PROVE  StopsWithdraw'
  BY <1>10, <1>1, <1>2, <1>3, DoMarkRecovering, DoReadRow, DoProceedIf DEF StopsWithdraw, StopOfWithdraws,
     Without, At, Withdrawn, Stopping, Opening, Free, Walks, SameTask, Only, SameHold, NextTask, Visiting
<1>11. ASSUME NEW r \in Requests, InspectValidation(r)
      PROVE  StopsWithdraw'
  BY <1>11, <1>1, <1>2, <1>3, DoInspectValidation DEF StopsWithdraw, StopOfWithdraws, Without, At, Withdrawn,
     Stopping, Opening, Free, Walks, NextTask, SameTask, Only, EventsGrow, Visiting
<1>12. ASSUME NEW r \in Requests, NEW s \in Shops, RestoreShop(r, s)
      PROVE  StopsWithdraw'
  BY <1>12, <1>1, <1>2, <1>3, DoRestoreShop DEF StopsWithdraw, StopOfWithdraws, Without, At, Withdrawn,
     Stopping, Opening, Free, Walks, TaskDone, Only, OnlyShop, EventsGrow, Visiting
<1>13. ASSUME NEW r \in Requests, NEW s \in Shops, AllowShop(r, s)
      PROVE  StopsWithdraw'
  BY <1>13, <1>1, <1>2, <1>3, DoAllowShop DEF StopsWithdraw, StopOfWithdraws, Without, At, Withdrawn, Stopping,
     Opening, Free, Walks, TaskDone, Only, OnlyShop, EventsGrow, Visiting
<1>14. ASSUME NEW r \in Requests, ReleaseHold(r)
      PROVE  StopsWithdraw'
  BY <1>14, <1>1, <1>2, <1>3, DoReleaseHold DEF StopsWithdraw, StopOfWithdraws, Without, At, Withdrawn,
     Stopping, Opening, Free, Walks, SameTask, Only, Ends, SameState, EventsGrow, Visiting
<1>15. ASSUME NEW r \in Requests, CloseStop(r)
      PROVE  StopsWithdraw'
  BY <1>15, <1>1, <1>2, <1>3, DoCloseStop DEF StopsWithdraw, StopOfWithdraws, Without, At, Withdrawn, Stopping,
     Opening, Free, Walks, SameTask, Only, OnlyStop, Visiting
<1>16. ASSUME NEW r \in Requests, MarkIdle(r)
      PROVE  StopsWithdraw'
  BY <1>16, <1>1, <1>2, <1>3, DoMarkIdle DEF StopsWithdraw, StopOfWithdraws, Without, At, Withdrawn, Stopping,
     Opening, Free, Ends, Only, SameHold, EventsGrow, Visiting
<1>17. ASSUME NEW r \in Requests, FailStop(r)
      PROVE  StopsWithdraw'
  BY <1>17, <1>1, <1>2, <1>3, DoFailStop DEF StopsWithdraw, StopOfWithdraws, Without, At, Withdrawn, Stopping,
     Opening, Free, Walks, SameTask, Only, StopMoves, OnlyStop, Visiting
<1>18. ASSUME NEW r \in Requests, FailPlatform(r)
      PROVE  StopsWithdraw'
  BY <1>18, <1>1, <1>2, <1>3, DoFailPlatform DEF StopsWithdraw, StopOfWithdraws, Without, At, Withdrawn,
     Stopping, Opening, Free, Ends, Only, SameHold, EventsGrow, Visiting
<1>19. ASSUME NEW r \in Requests, SetEmailHold(r) \/ ReleaseEmailHold(r)
      PROVE  StopsWithdraw'
  BY <1>19, <1>1, <1>2, <1>3, DoEmail DEF StopsWithdraw, StopOfWithdraws, Without, At, Withdrawn, Stopping,
     Opening, Free, Aside, Only, SameRow, SameHold, SameState, EventsGrow, Visiting
<1>20. ASSUME NEW r \in Requests, NEW a \in Actors, BeginEmail(r, a) \/ BeginRecovery(r, a)
      PROVE  StopsWithdraw'
  BY <1>20, <1>1, <1>2, <1>3, DoBegin, DoBeginRecovery DEF StopsWithdraw, StopOfWithdraws, Without, At,
     Withdrawn, Stopping, Opening, Free, Aside, Only, SameRow, SameHold, SameState, EventsGrow, Visiting
<1>21. ASSUME NEW r \in Requests, NEW a \in Actors, StopIsStanding(r, a) \/ WatchdogRests(r, a)
      PROVE  StopsWithdraw'
  BY <1>21, <1>1, <1>2, <1>3, DoTell DEF StopsWithdraw, StopOfWithdraws, Without, At, Withdrawn, Stopping,
     Opening, Free, EventsGrow, Visiting
<1>22. ASSUME NEW r \in Requests, NEW s \in Shops, SyncVisitedShop(r, s)
      PROVE  StopsWithdraw'
  BY <1>22, <1>1, <1>2, <1>3, DoSyncVisitedShop DEF StopsWithdraw, StopOfWithdraws, Without, At, Withdrawn,
     Stopping, Opening, Free, Ends, Only, OnlyShop, EventsGrow, Visiting
<1>23. ASSUME NEW r \in Requests, NEW a \in Actors, CreateStop(r, a)
      PROVE  StopsWithdraw'
  BY <1>23, <1>1, <1>2, <1>3, DoCreateStop DEF StopsWithdraw, StopOfWithdraws, Without, At, Withdrawn, Stopping,
     Opening, Free, Only, OnlyStop, EventsGrow, Visiting
<1>24. ASSUME NEW r \in Requests, Die(r)
      PROVE  StopsWithdraw'
  BY <1>24, <1>1, <1>2, <1>3, DoDie DEF StopsWithdraw, StopOfWithdraws, Without, At, Withdrawn, Stopping,
     Opening, Free, Ends, Only, EventsGrow, Visiting
<1>50. ASSUME NEW r \in Requests, ReadVisited(r)
      PROVE  StopsWithdraw'
  BY <1>50, <1>1, <1>2, <1>3, DoReadVisited DEF StopsWithdraw, StopOfWithdraws, Without, At, Withdrawn, Stopping,
     Opening, Free, Aside, Only, SameRow, SameHold, SameState, EventsGrow, Visiting
<1>51. ASSUME NEW s \in Shops, Synchronises(s)
      PROVE  StopsWithdraw'
  BY <1>51, <1>1, <1>2, <1>3, DoSync DEF StopsWithdraw, StopOfWithdraws, Without, At, Withdrawn, Stopping,
     Opening, Free, EventsGrow, Visiting, OnlyShop
<1>25. ASSUME AgentStops
      PROVE  StopsWithdraw'
  BY <1>25, <1>1, <1>2, <1>3, DoAgentStops DEF StopsWithdraw, StopOfWithdraws, Without, At, Withdrawn, Stopping,
     Opening, Free, EventsGrow, Visiting
<1>26. ASSUME NEW a \in Machines, LoseControl(a)
      PROVE  StopsWithdraw'
  BY <1>26, <1>1, <1>2, <1>3, DoLoseControl DEF StopsWithdraw, StopOfWithdraws, Without, At, Withdrawn,
     Stopping, Opening, Free, EventsGrow, Visiting
<1>27. ASSUME NEW r \in Requests, StopStep(r) PROVE StopsWithdraw'
  BY <1>27, <1>4, <1>5, <1>6, <1>7 DEF StopStep
<1>28. ASSUME NEW r \in Requests, RecoveryStep(r) PROVE StopsWithdraw'
  BY <1>28, <1>8, <1>9, <1>10, <1>11, <1>12, <1>13, <1>14, <1>15, <1>16, <1>17, <1>18 DEF RecoveryStep
<1>29. ASSUME NEW r \in Requests, NEW a \in Actors, Begin(r, a) PROVE StopsWithdraw'
  BY <1>29, <1>20, <1>21, <1>23, <1>51 DEF Begin, BeginVisit, Synchronises
<1>30. ASSUME NEW r \in Requests, Continue(r) PROVE StopsWithdraw'
  BY <1>30, <1>27, <1>28, <1>19, <1>22, <1>50 DEF Continue
<1>. QED
  BY <1>30, <1>29, <1>24, <1>25, <1>26, <1>51 DEF Next, Synchronises

\* The hold is lifted before its stop is closed.
LEMMA HoldStay ==
  ASSUME IInv, HoldStands, Next
  PROVE  HoldStands'
<1>1. \A q \in Requests : request[q].at \in Deciding \union {"claim", "idle", "failing!"} => request[q].stop \in
   Ids
  BY IsTyped
<1>2. \A q \in Requests : /\ request[q].at \in Stopping => stops[request[q].stop].state = "ACTIVATING"
                          /\ request[q].at = "begin" => stops[request[q].stop].state = "RECOVERY_REQUESTED"
                          /\ request[q].at \in Opening => stops[request[q].stop].state = "RECOVERING"
  BY DEF IInv, Control, ControlIsHeld, At
<1>3. ASSUME NEW r \in Requests, request[r].at \in Opening, "twoStops" \notin events
      PROVE  /\ \A q \in Requests : request[q].at \notin Stopping
             /\ \A c \in Ids : stops[c].state # "ACTIVE"
             /\ request[r].stop \in Standing
  BY <1>3, OpeningIsAlone DEF IInv
<1>4. \A c \in Ids : stops[c].state \notin {"NONE", "RECOVERED"} => stops[c].key # None
  BY DEF IInv, Control, ControlsHaveKeys
<1>5. ASSUME NEW r \in Requests, 
          \/ ReadRow(r, "hold", "hold!")
          \/ SetHold(r)
          \/ MarkActivating(r)
          \/ RoundIsOver(r, "block", "unpublish")
          \/ RoundIsOver(r, "unpublish", "finish")
          \/ FinishPlatform(r)
      PROVE  HoldStands'
  BY <1>5, <1>1, <1>2, <1>3, <1>4, DoReadRow, DoSetHold, DoMarkActivating, DoRoundIsOver, DoFinishPlatform DEF
     HoldStands, Without, At, Standing, Stopping, Opening, Deciding, Free, Walks, SameTask, Only, SameState,
     EventsGrow, NextTask, SameHold, Visiting
<1>6. ASSUME NEW r \in Requests, NEW s \in Shops, BlockShop(r, s)
      PROVE  HoldStands'
  BY <1>6, <1>1, <1>2, <1>3, <1>4, DoBlockShop DEF HoldStands, Without, At, Standing, Stopping, Opening,
     Deciding, Free, Walks, TaskDone, Only, EventsGrow, Visiting
<1>7. ASSUME NEW r \in Requests, NEW s \in Shops, UnpublishShop(r, s)
      PROVE  HoldStands'
  BY <1>7, <1>1, <1>2, <1>3, <1>4, DoUnpublishShop DEF HoldStands, Without, At, Standing, Stopping, Opening,
     Deciding, Free, Walks, TaskDone, Only, OnlyStop, SameControls, OnlyShop, EventsGrow, Withdrawn, Visiting
<1>8. ASSUME NEW r \in Requests, FinishStop(r)
      PROVE  HoldStands'
  BY <1>8, <1>1, <1>2, <1>3, <1>4, DoFinishStop DEF HoldStands, Without, At, Standing, Stopping, Opening,
     Deciding, Free, Ends, Only, StopMoves, OnlyStop, Verdict, Visiting
<1>9. ASSUME NEW r \in Requests, ClaimStop(r)
      PROVE  HoldStands'
  BY <1>9, <1>1, <1>2, <1>3, <1>4, DoClaimStop DEF HoldStands, Without, At, Standing, Stopping, Opening,
     Deciding, Free, Walks, SameTask, Only, StopMoves, OnlyStop, Ends, Recoverable, Visiting
<1>10. ASSUME NEW r \in Requests, StartRecovery(r)
      PROVE  HoldStands'
  BY <1>10, <1>1, <1>2, <1>3, <1>4, DoStartRecovery DEF HoldStands, Without, At, Standing, Stopping, Opening,
     Deciding, Free, Walks, SameTask, Only, StopMoves, OnlyStop, Visiting
<1>11. ASSUME NEW r \in Requests, 
          \/ MarkRecovering(r)
          \/ ReadRow(r, "release", "release!")
          \/ ProceedIf(r, "restore", "allow")
          \/ ProceedIf(r, "allow", "release")
      PROVE  HoldStands'
  BY <1>11, <1>1, <1>2, <1>3, <1>4, DoMarkRecovering, DoReadRow, DoProceedIf DEF HoldStands, Without, At,
     Standing, Stopping, Opening, Deciding, Free, Walks, SameTask, Only, SameHold, NextTask, Visiting
<1>12. ASSUME NEW r \in Requests, InspectValidation(r)
      PROVE  HoldStands'
  BY <1>12, <1>1, <1>2, <1>3, <1>4, DoInspectValidation DEF HoldStands, Without, At, Standing, Stopping,
     Opening, Deciding, Free, Walks, NextTask, SameTask, Only, EventsGrow, Visiting
<1>13. ASSUME NEW r \in Requests, NEW s \in Shops, RestoreShop(r, s)
      PROVE  HoldStands'
  BY <1>13, <1>1, <1>2, <1>3, <1>4, DoRestoreShop DEF HoldStands, Without, At, Standing, Stopping, Opening,
     Deciding, Free, Walks, TaskDone, Only, OnlyShop, EventsGrow, Visiting
<1>14. ASSUME NEW r \in Requests, NEW s \in Shops, AllowShop(r, s)
      PROVE  HoldStands'
  BY <1>14, <1>1, <1>2, <1>3, <1>4, DoAllowShop DEF HoldStands, Without, At, Standing, Stopping, Opening,
     Deciding, Free, Walks, TaskDone, Only, OnlyShop, EventsGrow, Visiting
<1>15. ASSUME NEW r \in Requests, ReleaseHold(r)
      PROVE  HoldStands'
  BY <1>15, <1>1, <1>2, <1>3, <1>4, DoReleaseHold DEF HoldStands, Without, At, Standing, Stopping, Opening,
     Deciding, Free, Walks, SameTask, Only, Ends, SameState, EventsGrow, Visiting
<1>16. ASSUME NEW r \in Requests, CloseStop(r)
      PROVE  HoldStands'
  BY <1>16, <1>1, <1>2, <1>3, <1>4, DoCloseStop DEF HoldStands, Without, At, Standing, Stopping, Opening,
     Deciding, Free, Walks, SameTask, Only, OnlyStop, Visiting
<1>17. ASSUME NEW r \in Requests, MarkIdle(r)
      PROVE  HoldStands'
  BY <1>17, <1>1, <1>2, <1>3, <1>4, DoMarkIdle DEF HoldStands, Without, At, Standing, Stopping, Opening,
     Deciding, Free, Ends, Only, SameHold, EventsGrow, Visiting
<1>18. ASSUME NEW r \in Requests, FailStop(r)
      PROVE  HoldStands'
  BY <1>18, <1>1, <1>2, <1>3, <1>4, DoFailStop DEF HoldStands, Without, At, Standing, Stopping, Opening,
     Deciding, Free, Walks, SameTask, Only, StopMoves, OnlyStop, Visiting
<1>19. ASSUME NEW r \in Requests, FailPlatform(r)
      PROVE  HoldStands'
  BY <1>19, <1>1, <1>2, <1>3, <1>4, DoFailPlatform DEF HoldStands, Without, At, Standing, Stopping, Opening,
     Deciding, Free, Ends, Only, SameHold, EventsGrow, Visiting
<1>20. ASSUME NEW r \in Requests, SetEmailHold(r) \/ ReleaseEmailHold(r)
      PROVE  HoldStands'
  BY <1>20, <1>1, <1>2, <1>3, <1>4, DoEmail DEF HoldStands, Without, At, Standing, Stopping, Opening, Deciding,
     Free, Aside, Only, SameRow, SameHold, SameState, EventsGrow, Visiting
<1>21. ASSUME NEW r \in Requests, NEW a \in Actors, BeginEmail(r, a) \/ BeginRecovery(r, a)
      PROVE  HoldStands'
  BY <1>21, <1>1, <1>2, <1>3, <1>4, DoBegin, DoBeginRecovery DEF HoldStands, Without, At, Standing, Stopping,
     Opening, Deciding, Free, Aside, Only, SameRow, SameHold, SameState, EventsGrow, Visiting
<1>22. ASSUME NEW r \in Requests, NEW a \in Actors, StopIsStanding(r, a) \/ WatchdogRests(r, a)
      PROVE  HoldStands'
  BY <1>22, <1>1, <1>2, <1>3, <1>4, DoTell DEF HoldStands, Without, At, Standing, Stopping, Opening, Deciding,
     Free, EventsGrow, Visiting
<1>23. ASSUME NEW r \in Requests, NEW s \in Shops, SyncVisitedShop(r, s)
      PROVE  HoldStands'
  BY <1>23, <1>1, <1>2, <1>3, <1>4, DoSyncVisitedShop DEF HoldStands, Without, At, Standing, Stopping, Opening,
     Deciding, Free, Ends, Only, OnlyShop, EventsGrow, Visiting
<1>24. ASSUME NEW r \in Requests, NEW a \in Actors, CreateStop(r, a)
      PROVE  HoldStands'
  BY <1>24, <1>1, <1>2, <1>3, <1>4, DoCreateStop DEF HoldStands, Without, At, Standing, Stopping, Opening,
     Deciding, Free, Only, OnlyStop, EventsGrow, Visiting
<1>25. ASSUME NEW r \in Requests, Die(r)
      PROVE  HoldStands'
  BY <1>25, <1>1, <1>2, <1>3, <1>4, DoDie DEF HoldStands, Without, At, Standing, Stopping, Opening, Deciding,
     Free, Ends, Only, EventsGrow, Visiting
<1>50. ASSUME NEW r \in Requests, ReadVisited(r)
      PROVE  HoldStands'
  BY <1>50, <1>1, <1>2, <1>3, <1>4, DoReadVisited DEF HoldStands, Without, At, Standing, Stopping, Opening, Deciding,
     Free, Aside, Only, SameRow, SameHold, SameState, EventsGrow, Visiting
<1>51. ASSUME NEW s \in Shops, Synchronises(s)
      PROVE  HoldStands'
  BY <1>51, <1>1, <1>2, <1>3, <1>4, DoSync DEF HoldStands, Without, At, Standing, Stopping, Opening, Deciding,
     Free, EventsGrow, Visiting, OnlyShop, Withdrawn
<1>26. ASSUME AgentStops
      PROVE  HoldStands'
  BY <1>26, <1>1, <1>2, <1>3, <1>4, DoAgentStops DEF HoldStands, Without, At, Standing, Stopping, Opening,
     Deciding, Free, EventsGrow, Visiting
<1>27. ASSUME NEW a \in Machines, LoseControl(a)
      PROVE  HoldStands'
  BY <1>27, <1>1, <1>2, <1>3, <1>4, DoLoseControl DEF HoldStands, Without, At, Standing, Stopping, Opening,
     Deciding, Free, EventsGrow, Visiting
<1>28. ASSUME NEW r \in Requests, StopStep(r) PROVE HoldStands'
  BY <1>28, <1>5, <1>6, <1>7, <1>8 DEF StopStep
<1>29. ASSUME NEW r \in Requests, RecoveryStep(r) PROVE HoldStands'
  BY <1>29, <1>9, <1>10, <1>11, <1>12, <1>13, <1>14, <1>15, <1>16, <1>17, <1>18, <1>19 DEF RecoveryStep
<1>30. ASSUME NEW r \in Requests, NEW a \in Actors, Begin(r, a) PROVE HoldStands'
  BY <1>30, <1>21, <1>22, <1>24, <1>51 DEF Begin, BeginVisit, Synchronises
<1>31. ASSUME NEW r \in Requests, Continue(r) PROVE HoldStands'
  BY <1>31, <1>28, <1>29, <1>20, <1>23, <1>50 DEF Continue
<1>. QED
  BY <1>31, <1>30, <1>25, <1>26, <1>27, <1>51 DEF Next, Synchronises

\* The row is freed by who has closed the stop.
LEMMA StateStay ==
  ASSUME IInv, FailuresShow, StateStands, Next
  PROVE  StateStands'
<1>1. \A q \in Requests : request[q].at \in Deciding \union {"claim", "idle", "failing!"} => request[q].stop \in
   Ids
  BY IsTyped
<1>2. \A q \in Requests : /\ request[q].at \in Stopping => stops[request[q].stop].state = "ACTIVATING"
                          /\ request[q].at = "begin" => stops[request[q].stop].state = "RECOVERY_REQUESTED"
                          /\ request[q].at \in Opening => stops[request[q].stop].state = "RECOVERING"
  BY DEF IInv, Control, ControlIsHeld, At
<1>3. \A c \in Ids : stops[c].state \notin {"NONE", "RECOVERED"} => stops[c].key # None
  BY DEF IInv, Control, ControlsHaveKeys
<1>4. ASSUME NEW r \in Requests, 
          \/ ReadRow(r, "hold", "hold!")
          \/ SetHold(r)
          \/ MarkActivating(r)
          \/ RoundIsOver(r, "block", "unpublish")
          \/ RoundIsOver(r, "unpublish", "finish")
          \/ FinishPlatform(r)
      PROVE  StateStands'
  BY <1>4, <1>1, <1>2, <1>3, DoReadRow, DoSetHold, DoMarkActivating, DoRoundIsOver, DoFinishPlatform DEF
     StateStands, Idling, Without, At, Standing, Stopping, Opening, Deciding, Free, Walks, SameTask, Only,
     SameState, EventsGrow, NextTask, SameHold, Visiting
<1>5. ASSUME NEW r \in Requests, NEW s \in Shops, BlockShop(r, s)
      PROVE  StateStands'
  BY <1>5, <1>1, <1>2, <1>3, DoBlockShop DEF StateStands, Idling, Without, At, Standing, Stopping, Opening,
     Deciding, Free, Walks, TaskDone, Only, EventsGrow, Visiting
<1>6. ASSUME NEW r \in Requests, NEW s \in Shops, UnpublishShop(r, s)
      PROVE  StateStands'
  BY <1>6, <1>1, <1>2, <1>3, DoUnpublishShop DEF StateStands, Idling, Without, At, Standing, Stopping, Opening,
     Deciding, Free, Walks, TaskDone, Only, OnlyStop, SameControls, OnlyShop, EventsGrow, Withdrawn, Visiting
<1>7. ASSUME NEW r \in Requests, FinishStop(r)
      PROVE  StateStands'
  BY <1>7, <1>1, <1>2, <1>3, DoFinishStop DEF StateStands, Idling, Without, At, Standing, Stopping, Opening,
     Deciding, Free, Ends, Only, StopMoves, OnlyStop, Verdict, Visiting
<1>8. ASSUME NEW r \in Requests, ClaimStop(r)
      PROVE  StateStands'
  BY <1>8, <1>1, <1>2, <1>3, DoClaimStop DEF StateStands, Idling, Without, At, Standing, Stopping, Opening,
     Deciding, Free, Walks, SameTask, Only, StopMoves, OnlyStop, Ends, Recoverable, Visiting
<1>9. ASSUME NEW r \in Requests, StartRecovery(r)
      PROVE  StateStands'
  BY <1>9, <1>1, <1>2, <1>3, DoStartRecovery DEF StateStands, Idling, Without, At, Standing, Stopping, Opening,
     Deciding, Free, Walks, SameTask, Only, StopMoves, OnlyStop, Visiting
<1>10. ASSUME NEW r \in Requests, 
          \/ MarkRecovering(r)
          \/ ReadRow(r, "release", "release!")
          \/ ProceedIf(r, "restore", "allow")
          \/ ProceedIf(r, "allow", "release")
      PROVE  StateStands'
  BY <1>10, <1>1, <1>2, <1>3, DoMarkRecovering, DoReadRow, DoProceedIf DEF StateStands, Idling, Without, At,
     Standing, Stopping, Opening, Deciding, Free, Walks, SameTask, Only, SameHold, NextTask, Visiting
<1>11. ASSUME NEW r \in Requests, InspectValidation(r)
      PROVE  StateStands'
  BY <1>11, <1>1, <1>2, <1>3, DoInspectValidation DEF StateStands, Idling, Without, At, Standing, Stopping,
     Opening, Deciding, Free, Walks, NextTask, SameTask, Only, EventsGrow, Visiting
<1>12. ASSUME NEW r \in Requests, NEW s \in Shops, RestoreShop(r, s)
      PROVE  StateStands'
  BY <1>12, <1>1, <1>2, <1>3, DoRestoreShop DEF StateStands, Idling, Without, At, Standing, Stopping, Opening,
     Deciding, Free, Walks, TaskDone, Only, OnlyShop, EventsGrow, FailuresShow, Visiting
<1>13. ASSUME NEW r \in Requests, NEW s \in Shops, AllowShop(r, s)
      PROVE  StateStands'
  BY <1>13, <1>1, <1>2, <1>3, DoAllowShop DEF StateStands, Idling, Without, At, Standing, Stopping, Opening,
     Deciding, Free, Walks, TaskDone, Only, OnlyShop, EventsGrow, Visiting
<1>14. ASSUME NEW r \in Requests, ReleaseHold(r)
      PROVE  StateStands'
  BY <1>14, <1>1, <1>2, <1>3, DoReleaseHold DEF StateStands, Idling, Without, At, Standing, Stopping, Opening,
     Deciding, Free, Walks, SameTask, Only, Ends, SameState, EventsGrow, Visiting
<1>15. ASSUME NEW r \in Requests, CloseStop(r)
      PROVE  StateStands'
  BY <1>15, <1>1, <1>2, <1>3, DoCloseStop DEF StateStands, Idling, Without, At, Standing, Stopping, Opening,
     Deciding, Free, Walks, SameTask, Only, OnlyStop, Visiting
<1>16. ASSUME NEW r \in Requests, MarkIdle(r)
      PROVE  StateStands'
  BY <1>16, <1>1, <1>2, <1>3, DoMarkIdle DEF StateStands, Idling, Without, At, Standing, Stopping, Opening,
     Deciding, Free, Ends, Only, SameHold, EventsGrow, Visiting
<1>17. ASSUME NEW r \in Requests, FailStop(r)
      PROVE  StateStands'
  BY <1>17, <1>1, <1>2, <1>3, DoFailStop DEF StateStands, Idling, Without, At, Standing, Stopping, Opening,
     Deciding, Free, Walks, SameTask, Only, StopMoves, OnlyStop, Visiting
<1>18. ASSUME NEW r \in Requests, FailPlatform(r)
      PROVE  StateStands'
  BY <1>18, <1>1, <1>2, <1>3, DoFailPlatform DEF StateStands, Idling, Without, At, Standing, Stopping, Opening,
     Deciding, Free, Ends, Only, SameHold, EventsGrow, FailuresShow, Visiting
<1>19. ASSUME NEW r \in Requests, SetEmailHold(r) \/ ReleaseEmailHold(r)
      PROVE  StateStands'
  BY <1>19, <1>1, <1>2, <1>3, DoEmail DEF StateStands, Idling, Without, At, Standing, Stopping, Opening,
     Deciding, Free, Aside, Only, SameRow, SameHold, SameState, EventsGrow, Visiting
<1>20. ASSUME NEW r \in Requests, NEW a \in Actors, BeginEmail(r, a) \/ BeginRecovery(r, a)
      PROVE  StateStands'
  BY <1>20, <1>1, <1>2, <1>3, DoBegin, DoBeginRecovery DEF StateStands, Idling, Without, At, Standing, Stopping,
     Opening, Deciding, Free, Aside, Only, SameRow, SameHold, SameState, EventsGrow, Visiting
<1>21. ASSUME NEW r \in Requests, NEW a \in Actors, StopIsStanding(r, a) \/ WatchdogRests(r, a)
      PROVE  StateStands'
  BY <1>21, <1>1, <1>2, <1>3, DoTell DEF StateStands, Idling, Without, At, Standing, Stopping, Opening,
     Deciding, Free, EventsGrow, Visiting
<1>22. ASSUME NEW r \in Requests, NEW s \in Shops, SyncVisitedShop(r, s)
      PROVE  StateStands'
  BY <1>22, <1>1, <1>2, <1>3, DoSyncVisitedShop DEF StateStands, Idling, Without, At, Standing, Stopping,
     Opening, Deciding, Free, Ends, Only, OnlyShop, EventsGrow, Visiting
<1>23. ASSUME NEW r \in Requests, NEW a \in Actors, CreateStop(r, a)
      PROVE  StateStands'
  BY <1>23, <1>1, <1>2, <1>3, DoCreateStop DEF StateStands, Idling, Without, At, Standing, Stopping, Opening,
     Deciding, Free, Only, OnlyStop, EventsGrow, Visiting
<1>24. ASSUME NEW r \in Requests, Die(r)
      PROVE  StateStands'
  BY <1>24, <1>1, <1>2, <1>3, DoDie DEF StateStands, Idling, Without, At, Standing, Stopping, Opening, Deciding,
     Free, Ends, Only, EventsGrow, Visiting
<1>50. ASSUME NEW r \in Requests, ReadVisited(r)
      PROVE  StateStands'
  BY <1>50, <1>1, <1>2, <1>3, DoReadVisited DEF StateStands, Idling, Without, At, Standing, Stopping, Opening,
     Deciding, Free, Aside, Only, SameRow, SameHold, SameState, EventsGrow, Visiting
<1>51. ASSUME NEW s \in Shops, Synchronises(s)
      PROVE  StateStands'
  BY <1>51, <1>1, <1>2, <1>3, DoSync DEF StateStands, Idling, Without, At, Standing, Stopping, Opening,
     Deciding, Free, EventsGrow, Visiting, OnlyShop, Withdrawn
<1>25. ASSUME AgentStops
      PROVE  StateStands'
  BY <1>25, <1>1, <1>2, <1>3, DoAgentStops DEF StateStands, Idling, Without, At, Standing, Stopping, Opening,
     Deciding, Free, EventsGrow, Visiting
<1>26. ASSUME NEW a \in Machines, LoseControl(a)
      PROVE  StateStands'
  BY <1>26, <1>1, <1>2, <1>3, DoLoseControl DEF StateStands, Idling, Without, At, Standing, Stopping, Opening,
     Deciding, Free, EventsGrow, Visiting
<1>27. ASSUME NEW r \in Requests, StopStep(r) PROVE StateStands'
  BY <1>27, <1>4, <1>5, <1>6, <1>7 DEF StopStep
<1>28. ASSUME NEW r \in Requests, RecoveryStep(r) PROVE StateStands'
  BY <1>28, <1>8, <1>9, <1>10, <1>11, <1>12, <1>13, <1>14, <1>15, <1>16, <1>17, <1>18 DEF RecoveryStep
<1>29. ASSUME NEW r \in Requests, NEW a \in Actors, Begin(r, a) PROVE StateStands'
  BY <1>29, <1>20, <1>21, <1>23, <1>51 DEF Begin, BeginVisit, Synchronises
<1>30. ASSUME NEW r \in Requests, Continue(r) PROVE StateStands'
  BY <1>30, <1>27, <1>28, <1>19, <1>22, <1>50 DEF Continue
<1>. QED
  BY <1>30, <1>29, <1>24, <1>25, <1>26, <1>51 DEF Next, Synchronises

\* Who was told that a stop stands was told the truth while no recovery begins.
LEMMA ToldStands ==
  ASSUME ToldTruly, EventsGrow, UNCHANGED assured,
         \A c \in Ids : stops[c].key # None => stops'[c].key # None,
         \A q \in Requests : request'[q].at \in UnderRecovery => request[q].at \in UnderRecovery
  PROVE  ToldTruly'
<1>1. Standing # {} => Standing' # {}
  BY DEF Standing
<1>2. ~Crossing => ~Crossing'
  BY DEF Crossing
<1>3. \A some : Without(some)' => Without(some)
  BY DEF Without, EventsGrow
<1>. QED
  BY <1>1, <1>2, <1>3 DEF ToldTruly

\* A stop stands until its recovery.
LEMMA ToldStay ==
  ASSUME IInv, HoldStands, StateStands, ToldTruly, Next
  PROVE  ToldTruly'
<1>1. \A q \in Requests : request[q].at \in Deciding \union {"claim", "idle", "failing!"} => request[q].stop \in
   Ids
  BY IsTyped
<1>2. \A q \in Requests : /\ request[q].at \in Stopping => stops[request[q].stop].state = "ACTIVATING"
                          /\ request[q].at = "begin" => stops[request[q].stop].state = "RECOVERY_REQUESTED"
                          /\ request[q].at \in Opening => stops[request[q].stop].state = "RECOVERING"
  BY DEF IInv, Control, ControlIsHeld, At
<1>3. \A c \in Ids : stops[c].state \notin {"NONE", "RECOVERED"} => stops[c].key # None
  BY DEF IInv, Control, ControlsHaveKeys
<1>4. ASSUME NEW r \in Requests, 
          \/ ReadRow(r, "hold", "hold!")
          \/ SetHold(r)
          \/ MarkActivating(r)
          \/ RoundIsOver(r, "block", "unpublish")
          \/ RoundIsOver(r, "unpublish", "finish")
          \/ FinishPlatform(r)
      PROVE  ToldTruly'
  <2>1. /\ EventsGrow /\ UNCHANGED assured
        /\ \A c \in Ids : stops[c].key # None => stops'[c].key # None
        /\ \A q \in Requests : request'[q].at \in UnderRecovery => request[q].at \in UnderRecovery
    BY <1>4, <1>1, DoReadRow, DoSetHold, DoMarkActivating, DoRoundIsOver, DoFinishPlatform DEF UnderRecovery,
       EventsGrow, Deciding, Stopping, Free, Walks, SameTask, Only, SameState, NextTask, SameHold, Visiting
  <2>. QED
    BY <2>1, ToldStands
<1>5. ASSUME NEW r \in Requests, NEW s \in Shops, BlockShop(r, s)
      PROVE  ToldTruly'
  <2>1. /\ EventsGrow /\ UNCHANGED assured
        /\ \A c \in Ids : stops[c].key # None => stops'[c].key # None
        /\ \A q \in Requests : request'[q].at \in UnderRecovery => request[q].at \in UnderRecovery
    BY <1>5, <1>1, DoBlockShop DEF UnderRecovery, EventsGrow, Deciding, Stopping, Free, Walks, TaskDone, Only,
       Visiting
  <2>. QED
    BY <2>1, ToldStands
<1>6. ASSUME NEW r \in Requests, NEW s \in Shops, UnpublishShop(r, s)
      PROVE  ToldTruly'
  <2>1. /\ EventsGrow /\ UNCHANGED assured
        /\ \A c \in Ids : stops[c].key # None => stops'[c].key # None
        /\ \A q \in Requests : request'[q].at \in UnderRecovery => request[q].at \in UnderRecovery
    BY <1>6, <1>1, DoUnpublishShop DEF UnderRecovery, EventsGrow, Deciding, Stopping, Free, Walks, TaskDone,
       Only, OnlyStop, SameControls, OnlyShop, Withdrawn, Visiting
  <2>. QED
    BY <2>1, ToldStands
<1>7. ASSUME NEW r \in Requests, FinishStop(r)
      PROVE  ToldTruly'
  <2>1. /\ EventsGrow /\ UNCHANGED assured
        /\ \A c \in Ids : stops[c].key # None => stops'[c].key # None
        /\ \A q \in Requests : request'[q].at \in UnderRecovery => request[q].at \in UnderRecovery
    BY <1>7, <1>1, DoFinishStop DEF UnderRecovery, EventsGrow, Deciding, Stopping, Free, Ends, Only, StopMoves,
       OnlyStop, Visiting
  <2>. QED
    BY <2>1, ToldStands
<1>8. ASSUME NEW r \in Requests, ClaimStop(r)
      PROVE  ToldTruly'
  BY <1>8, <1>1, <1>2, <1>3, DoClaimStop DEF ToldTruly, Crossing, UnderRecovery, Without, At, Standing,
     Stopping, Opening, Deciding, Free, Walks, SameTask, Only, StopMoves, OnlyStop, Ends, Recoverable, Visiting
<1>9. ASSUME NEW r \in Requests, StartRecovery(r)
      PROVE  ToldTruly'
  BY <1>9, <1>1, <1>2, <1>3, DoStartRecovery DEF ToldTruly, Crossing, UnderRecovery, Without, At, Standing,
     Stopping, Opening, Deciding, Free, Walks, SameTask, Only, StopMoves, OnlyStop, Visiting
<1>10. ASSUME NEW r \in Requests, 
          \/ MarkRecovering(r)
          \/ ReadRow(r, "release", "release!")
          \/ ProceedIf(r, "restore", "allow")
          \/ ProceedIf(r, "allow", "release")
      PROVE  ToldTruly'
  <2>1. /\ EventsGrow /\ UNCHANGED assured
        /\ \A c \in Ids : stops[c].key # None => stops'[c].key # None
        /\ \A q \in Requests : request'[q].at \in UnderRecovery => request[q].at \in UnderRecovery
    BY <1>10, <1>1, DoMarkRecovering, DoReadRow, DoProceedIf DEF UnderRecovery, EventsGrow, Deciding, Stopping,
       Free, Walks, SameTask, Only, SameHold, NextTask, Visiting
  <2>. QED
    BY <2>1, ToldStands
<1>11. ASSUME NEW r \in Requests, InspectValidation(r)
      PROVE  ToldTruly'
  BY <1>11, <1>1, <1>2, <1>3, DoInspectValidation DEF ToldTruly, Crossing, UnderRecovery, Without, At, Standing,
     Stopping, Opening, Deciding, Free, Walks, NextTask, SameTask, Only, EventsGrow, Visiting
<1>12. ASSUME NEW r \in Requests, NEW s \in Shops, RestoreShop(r, s)
      PROVE  ToldTruly'
  BY <1>12, <1>1, <1>2, <1>3, DoRestoreShop DEF ToldTruly, Crossing, UnderRecovery, Without, At, Standing,
     Stopping, Opening, Deciding, Free, Walks, TaskDone, Only, OnlyShop, EventsGrow, Visiting
<1>13. ASSUME NEW r \in Requests, NEW s \in Shops, AllowShop(r, s)
      PROVE  ToldTruly'
  BY <1>13, <1>1, <1>2, <1>3, DoAllowShop DEF ToldTruly, Crossing, UnderRecovery, Without, At, Standing,
     Stopping, Opening, Deciding, Free, Walks, TaskDone, Only, OnlyShop, EventsGrow, Visiting
<1>14. ASSUME NEW r \in Requests, ReleaseHold(r)
      PROVE  ToldTruly'
  BY <1>14, <1>1, <1>2, <1>3, DoReleaseHold DEF ToldTruly, Crossing, UnderRecovery, Without, At, Standing,
     Stopping, Opening, Deciding, Free, Walks, SameTask, Only, Ends, SameState, EventsGrow, Visiting
<1>15. ASSUME NEW r \in Requests, CloseStop(r)
      PROVE  ToldTruly'
  BY <1>15, <1>1, <1>2, <1>3, DoCloseStop DEF ToldTruly, Crossing, UnderRecovery, Without, At, Standing,
     Stopping, Opening, Deciding, Free, Walks, SameTask, Only, OnlyStop, Visiting
<1>16. ASSUME NEW r \in Requests, MarkIdle(r)
      PROVE  ToldTruly'
  BY <1>16, <1>1, <1>2, <1>3, DoMarkIdle DEF ToldTruly, Crossing, UnderRecovery, Without, At, Standing,
     Stopping, Opening, Deciding, Free, Ends, Only, SameHold, EventsGrow, Visiting
<1>17. ASSUME NEW r \in Requests, FailStop(r)
      PROVE  ToldTruly'
  BY <1>17, <1>1, <1>2, <1>3, DoFailStop DEF ToldTruly, Crossing, UnderRecovery, Without, At, Standing,
     Stopping, Opening, Deciding, Free, Walks, SameTask, Only, StopMoves, OnlyStop, Visiting
<1>18. ASSUME NEW r \in Requests, FailPlatform(r)
      PROVE  ToldTruly'
  BY <1>18, <1>1, <1>2, <1>3, DoFailPlatform DEF ToldTruly, Crossing, UnderRecovery, Without, At, Standing,
     Stopping, Opening, Deciding, Free, Ends, Only, SameHold, EventsGrow, Visiting
<1>19. ASSUME NEW r \in Requests, SetEmailHold(r) \/ ReleaseEmailHold(r)
      PROVE  ToldTruly'
  <2>1. /\ EventsGrow /\ UNCHANGED assured
        /\ \A c \in Ids : stops[c].key # None => stops'[c].key # None
        /\ \A q \in Requests : request'[q].at \in UnderRecovery => request[q].at \in UnderRecovery
    BY <1>19, DoEmail DEF UnderRecovery, Aside, Only, Free, Visiting
  <2>. QED
    BY <2>1, ToldStands
<1>20. ASSUME NEW r \in Requests, NEW a \in Actors, BeginEmail(r, a) \/ BeginRecovery(r, a)
      PROVE  ToldTruly'
  BY <1>20, <1>1, <1>2, <1>3, DoBegin, DoBeginRecovery DEF ToldTruly, Crossing, UnderRecovery, Without, At,
     Standing, Stopping, Opening, Deciding, Free, Aside, Only, SameRow, SameHold, SameState, EventsGrow, Visiting
<1>21. ASSUME NEW r \in Requests, NEW a \in Actors, StopIsStanding(r, a) \/ WatchdogRests(r, a)
      PROVE  ToldTruly'
  BY <1>21, <1>1, <1>2, <1>3, DoTell DEF ToldTruly, Crossing, UnderRecovery, Without, At, Standing, Stopping,
     Opening, Deciding, Free, EventsGrow, HoldStands, StateStands, Idling, Visiting
<1>22. ASSUME NEW r \in Requests, NEW s \in Shops, SyncVisitedShop(r, s)
      PROVE  ToldTruly'
  <2>1. /\ EventsGrow /\ UNCHANGED assured
        /\ \A c \in Ids : stops[c].key # None => stops'[c].key # None
        /\ \A q \in Requests : request'[q].at \in UnderRecovery => request[q].at \in UnderRecovery
    BY <1>22, <1>1, DoSyncVisitedShop DEF UnderRecovery, EventsGrow, Deciding, Stopping, Free, Ends, Only,
       OnlyShop, Visiting
  <2>. QED
    BY <2>1, ToldStands
<1>23. ASSUME NEW r \in Requests, NEW a \in Actors, CreateStop(r, a)
      PROVE  ToldTruly'
  BY <1>23, <1>1, <1>2, <1>3, DoCreateStop DEF ToldTruly, Crossing, UnderRecovery, Without, At, Standing,
     Stopping, Opening, Deciding, Free, Only, OnlyStop, EventsGrow, Visiting
<1>24. ASSUME NEW r \in Requests, Die(r)
      PROVE  ToldTruly'
  BY <1>24, <1>1, <1>2, <1>3, DoDie DEF ToldTruly, Crossing, UnderRecovery, Without, At, Standing, Stopping,
     Opening, Deciding, Free, Ends, Only, EventsGrow, Visiting
<1>50. ASSUME NEW r \in Requests, ReadVisited(r)
      PROVE  ToldTruly'
  <2>1. /\ EventsGrow /\ UNCHANGED assured
        /\ \A c \in Ids : stops[c].key # None => stops'[c].key # None
        /\ \A q \in Requests : request'[q].at \in UnderRecovery => request[q].at \in UnderRecovery
    BY <1>50, DoReadVisited DEF UnderRecovery, Aside, Only, Free, Visiting
  <2>. QED
    BY <2>1, ToldStands
<1>51. ASSUME NEW s \in Shops, Synchronises(s)
      PROVE  ToldTruly'
  BY <1>51, <1>1, <1>2, <1>3, DoSync DEF ToldTruly, Crossing, UnderRecovery, Without, At, Standing, Stopping,
     Opening, Deciding, Free, EventsGrow, Visiting, OnlyShop, Withdrawn
<1>25. ASSUME AgentStops
      PROVE  ToldTruly'
  BY <1>25, <1>1, <1>2, <1>3, DoAgentStops DEF ToldTruly, Crossing, UnderRecovery, Without, At, Standing,
     Stopping, Opening, Deciding, Free, EventsGrow, Visiting
<1>26. ASSUME NEW a \in Machines, LoseControl(a)
      PROVE  ToldTruly'
  BY <1>26, <1>1, <1>2, <1>3, DoLoseControl DEF ToldTruly, Crossing, UnderRecovery, Without, At, Standing,
     Stopping, Opening, Deciding, Free, EventsGrow, Visiting
<1>27. ASSUME NEW r \in Requests, StopStep(r) PROVE ToldTruly'
  BY <1>27, <1>4, <1>5, <1>6, <1>7 DEF StopStep
<1>28. ASSUME NEW r \in Requests, RecoveryStep(r) PROVE ToldTruly'
  BY <1>28, <1>8, <1>9, <1>10, <1>11, <1>12, <1>13, <1>14, <1>15, <1>16, <1>17, <1>18 DEF RecoveryStep
<1>29. ASSUME NEW r \in Requests, NEW a \in Actors, Begin(r, a) PROVE ToldTruly'
  BY <1>29, <1>20, <1>21, <1>23, <1>51 DEF Begin, BeginVisit, Synchronises
<1>30. ASSUME NEW r \in Requests, Continue(r) PROVE ToldTruly'
  BY <1>30, <1>27, <1>28, <1>19, <1>22, <1>50 DEF Continue
<1>. QED
  BY <1>30, <1>29, <1>24, <1>25, <1>26, <1>51 DEF Next, Synchronises

\* What is withdrawn is noted before it is, and noted until it is back.
LEMMA SavedStay ==
  ASSUME IInv, FreeHaveNoKey, FailuresShow, SavedByAStop, Next
  PROVE  SavedByAStop'
<1>1. \A q \in Requests : request[q].at \in Deciding \union {"claim", "idle", "failing!"} => request[q].stop \in
   Ids
  BY IsTyped
<1>2. \A q \in Requests : /\ request[q].at \in Stopping => stops[request[q].stop].state = "ACTIVATING"
                          /\ request[q].at = "begin" => stops[request[q].stop].state = "RECOVERY_REQUESTED"
                          /\ request[q].at \in Opening => stops[request[q].stop].state = "RECOVERING"
  BY DEF IInv, Control, ControlIsHeld, At
<1>3. \A c \in Ids : stops[c].state \notin {"NONE", "RECOVERED"} => stops[c].key # None
  BY DEF IInv, Control, ControlsHaveKeys
<1>4. \A r, q \in Requests : request[r].at \in Deciding /\ request[q].at \in Deciding /\ request[r].stop =
   request[q].stop => r = q
  BY DEF IInv, Control, DecidedByOne
<1>5. ASSUME NEW r \in Requests, 
          \/ ReadRow(r, "hold", "hold!")
          \/ SetHold(r)
          \/ MarkActivating(r)
          \/ RoundIsOver(r, "block", "unpublish")
          \/ RoundIsOver(r, "unpublish", "finish")
          \/ FinishPlatform(r)
      PROVE  SavedByAStop'
  BY <1>5, <1>1, <1>2, <1>3, <1>4, DoReadRow, DoSetHold, DoMarkActivating, DoRoundIsOver, DoFinishPlatform DEF
     SavedByAStop, Unrestored, Without, At, Standing, Stopping, Opening, Deciding, Free, Walks, SameTask, Only,
     SameState, EventsGrow, NextTask, SameHold, Visiting
<1>6. ASSUME NEW r \in Requests, NEW s \in Shops, BlockShop(r, s)
      PROVE  SavedByAStop'
  BY <1>6, <1>1, <1>2, <1>3, <1>4, DoBlockShop DEF SavedByAStop, Unrestored, Without, At, Standing, Stopping,
     Opening, Deciding, Free, Walks, TaskDone, Only, EventsGrow, Visiting
<1>7. ASSUME NEW r \in Requests, NEW s \in Shops, UnpublishShop(r, s)
      PROVE  SavedByAStop'
  BY <1>7, <1>1, <1>2, <1>3, <1>4, DoUnpublishShop DEF SavedByAStop, Unrestored, Without, At, Standing,
     Stopping, Opening, Deciding, Free, Walks, TaskDone, Only, OnlyStop, SameControls, OnlyShop, EventsGrow,
     Withdrawn, Visiting
<1>8. ASSUME NEW r \in Requests, FinishStop(r)
      PROVE  SavedByAStop'
  BY <1>8, <1>1, <1>2, <1>3, <1>4, DoFinishStop DEF SavedByAStop, Unrestored, Without, At, Standing, Stopping,
     Opening, Deciding, Free, Ends, Only, StopMoves, OnlyStop, Verdict, Visiting
<1>9. ASSUME NEW r \in Requests, ClaimStop(r)
      PROVE  SavedByAStop'
  BY <1>9, <1>1, <1>2, <1>3, <1>4, DoClaimStop DEF SavedByAStop, Unrestored, Without, At, Standing, Stopping,
     Opening, Deciding, Free, Walks, SameTask, Only, StopMoves, OnlyStop, Ends, Recoverable, Visiting
<1>10. ASSUME NEW r \in Requests, StartRecovery(r)
      PROVE  SavedByAStop'
  BY <1>10, <1>1, <1>2, <1>3, <1>4, DoStartRecovery DEF SavedByAStop, Unrestored, Without, At, Standing,
     Stopping, Opening, Deciding, Free, Walks, SameTask, Only, StopMoves, OnlyStop, Visiting
<1>11. ASSUME NEW r \in Requests, 
          \/ MarkRecovering(r)
          \/ ReadRow(r, "release", "release!")
          \/ ProceedIf(r, "restore", "allow")
          \/ ProceedIf(r, "allow", "release")
      PROVE  SavedByAStop'
  BY <1>11, <1>1, <1>2, <1>3, <1>4, DoMarkRecovering, DoReadRow, DoProceedIf DEF SavedByAStop, Unrestored,
     Without, At, Standing, Stopping, Opening, Deciding, Free, Walks, SameTask, Only, SameHold, NextTask, Visiting
<1>12. ASSUME NEW r \in Requests, InspectValidation(r)
      PROVE  SavedByAStop'
  BY <1>12, <1>1, <1>2, <1>3, <1>4, DoInspectValidation DEF SavedByAStop, Unrestored, Without, At, Standing,
     Stopping, Opening, Deciding, Free, Walks, NextTask, SameTask, Only, EventsGrow, Visiting
<1>13. ASSUME NEW r \in Requests, NEW s \in Shops, RestoreShop(r, s)
      PROVE  SavedByAStop'
  BY <1>13, <1>1, <1>2, <1>3, <1>4, DoRestoreShop DEF SavedByAStop, Unrestored, Without, At, Standing, Stopping,
     Opening, Deciding, Free, Walks, TaskDone, Only, OnlyShop, EventsGrow, Visiting
<1>14. ASSUME NEW r \in Requests, NEW s \in Shops, AllowShop(r, s)
      PROVE  SavedByAStop'
  BY <1>14, <1>1, <1>2, <1>3, <1>4, DoAllowShop DEF SavedByAStop, Unrestored, Without, At, Standing, Stopping,
     Opening, Deciding, Free, Walks, TaskDone, Only, OnlyShop, EventsGrow, Visiting
<1>15. ASSUME NEW r \in Requests, ReleaseHold(r)
      PROVE  SavedByAStop'
  BY <1>15, <1>1, <1>2, <1>3, <1>4, DoReleaseHold DEF SavedByAStop, Unrestored, Without, At, Standing, Stopping,
     Opening, Deciding, Free, Walks, SameTask, Only, Ends, SameState, EventsGrow, Visiting
<1>16. ASSUME NEW r \in Requests, CloseStop(r)
      PROVE  SavedByAStop'
  BY <1>16, <1>1, <1>2, <1>3, <1>4, DoCloseStop DEF SavedByAStop, Unrestored, Without, At, Standing, Stopping,
     Opening, Deciding, Free, Walks, SameTask, Only, OnlyStop, Visiting
<1>17. ASSUME NEW r \in Requests, MarkIdle(r)
      PROVE  SavedByAStop'
  BY <1>17, <1>1, <1>2, <1>3, <1>4, DoMarkIdle DEF SavedByAStop, Unrestored, Without, At, Standing, Stopping,
     Opening, Deciding, Free, Ends, Only, SameHold, EventsGrow, Visiting
<1>18. ASSUME NEW r \in Requests, FailStop(r)
      PROVE  SavedByAStop'
  BY <1>18, <1>1, <1>2, <1>3, <1>4, DoFailStop DEF SavedByAStop, Unrestored, Without, At, Standing, Stopping,
     Opening, Deciding, Free, Walks, SameTask, Only, StopMoves, OnlyStop, Visiting
<1>19. ASSUME NEW r \in Requests, FailPlatform(r)
      PROVE  SavedByAStop'
  BY <1>19, <1>1, <1>2, <1>3, <1>4, DoFailPlatform DEF SavedByAStop, Unrestored, Without, At, Standing,
     Stopping, Opening, Deciding, Free, Ends, Only, SameHold, EventsGrow, Visiting
<1>20. ASSUME NEW r \in Requests, SetEmailHold(r) \/ ReleaseEmailHold(r)
      PROVE  SavedByAStop'
  BY <1>20, <1>1, <1>2, <1>3, <1>4, DoEmail DEF SavedByAStop, Unrestored, Without, At, Standing, Stopping,
     Opening, Deciding, Free, Aside, Only, SameRow, SameHold, SameState, EventsGrow, Visiting
<1>21. ASSUME NEW r \in Requests, NEW a \in Actors, BeginEmail(r, a) \/ BeginRecovery(r, a)
      PROVE  SavedByAStop'
  BY <1>21, <1>1, <1>2, <1>3, <1>4, DoBegin, DoBeginRecovery DEF SavedByAStop, Unrestored, Without, At,
     Standing, Stopping, Opening, Deciding, Free, Aside, Only, SameRow, SameHold, SameState, EventsGrow, Visiting
<1>22. ASSUME NEW r \in Requests, NEW a \in Actors, StopIsStanding(r, a) \/ WatchdogRests(r, a)
      PROVE  SavedByAStop'
  BY <1>22, <1>1, <1>2, <1>3, <1>4, DoTell DEF SavedByAStop, Unrestored, Without, At, Standing, Stopping,
     Opening, Deciding, Free, EventsGrow, Visiting
<1>23. ASSUME NEW r \in Requests, NEW s \in Shops, SyncVisitedShop(r, s)
      PROVE  SavedByAStop'
  BY <1>23, <1>1, <1>2, <1>3, <1>4, DoSyncVisitedShop DEF SavedByAStop, Unrestored, Without, At, Standing,
     Stopping, Opening, Deciding, Free, Ends, Only, OnlyShop, EventsGrow, Visiting
<1>24. ASSUME NEW r \in Requests, NEW a \in Actors, CreateStop(r, a)
      PROVE  SavedByAStop'
  BY <1>24, <1>1, <1>2, <1>3, <1>4, DoCreateStop DEF SavedByAStop, Unrestored, Without, At, Standing, Stopping,
     Opening, Deciding, Free, Only, OnlyStop, EventsGrow, FreeHaveNoKey, Visiting
<1>25. ASSUME NEW r \in Requests, Die(r)
      PROVE  SavedByAStop'
  BY <1>25, <1>1, <1>2, <1>3, <1>4, DoDie DEF SavedByAStop, Unrestored, Without, At, Standing, Stopping,
     Opening, Deciding, Free, Ends, Only, EventsGrow, Visiting
<1>50. ASSUME NEW r \in Requests, ReadVisited(r)
      PROVE  SavedByAStop'
  BY <1>50, <1>1, <1>2, <1>3, <1>4, DoReadVisited DEF SavedByAStop, Unrestored, Without, At, Standing, Stopping,
     Opening, Deciding, Free, Aside, Only, SameRow, SameHold, SameState, EventsGrow, Visiting
<1>51. ASSUME NEW s \in Shops, Synchronises(s)
      PROVE  SavedByAStop'
  <2>1. /\ EventsGrow /\ Standing' = Standing /\ UNCHANGED stops
        /\ \A q \in Requests : request'[q] = request[q] \/ request'[q].at \in Free
    BY <1>51, DoSync DEF Standing
  <2>2. \A q \in Requests : request'[q].at \in UnderRecovery => request[q].at \in UnderRecovery
    BY <2>1 DEF UnderRecovery, Free, Visiting
  <2>3. ASSUME NEW t \in Shops, ~shop'[t].published, Without({"failure", "agent", "undone", "forestalled"})'
        PROVE  \E c \in Standing : t \in stops[c].saved /\ Unrestored(c, t)'
    <3>1. CASE ~shop[t].published
      <4>1. PICK c \in Standing : t \in stops[c].saved /\ Unrestored(c, t)
        BY <2>1, <2>3, <3>1 DEF SavedByAStop, Without, EventsGrow
      <4>2. Unrestored(c, t)'
        BY <2>1, <4>1 DEF Unrestored, At, Free, Visiting
      <4>. QED BY <4>1, <4>2
    <3>2. CASE shop[t].published
      <4>1. t = s /\ ~Crossing /\ \E c \in Standing : s \in stops[c].saved
        BY <1>51, <2>3, <3>2, DoSync DEF OnlyShop, Without
      <4>2. \A c : Unrestored(c, t)'
        BY <2>2, <4>1 DEF Crossing, Unrestored, At, UnderRecovery
      <4>. QED BY <4>1, <4>2
    <3>. QED BY <3>1, <3>2
  <2>. QED
    BY <2>1, <2>3 DEF SavedByAStop
<1>26. ASSUME AgentStops
      PROVE  SavedByAStop'
  BY <1>26, <1>1, <1>2, <1>3, <1>4, DoAgentStops DEF SavedByAStop, Unrestored, Without, At, Standing, Stopping,
     Opening, Deciding, Free, EventsGrow, Visiting
<1>27. ASSUME NEW a \in Machines, LoseControl(a)
      PROVE  SavedByAStop'
  BY <1>27, <1>1, <1>2, <1>3, <1>4, DoLoseControl DEF SavedByAStop, Unrestored, Without, At, Standing, Stopping,
     Opening, Deciding, Free, EventsGrow, Visiting
<1>28. ASSUME NEW r \in Requests, StopStep(r) PROVE SavedByAStop'
  BY <1>28, <1>5, <1>6, <1>7, <1>8 DEF StopStep
<1>29. ASSUME NEW r \in Requests, RecoveryStep(r) PROVE SavedByAStop'
  BY <1>29, <1>9, <1>10, <1>11, <1>12, <1>13, <1>14, <1>15, <1>16, <1>17, <1>18, <1>19 DEF RecoveryStep
<1>30. ASSUME NEW r \in Requests, NEW a \in Actors, Begin(r, a) PROVE SavedByAStop'
  BY <1>30, <1>21, <1>22, <1>24, <1>51 DEF Begin, BeginVisit, Synchronises
<1>31. ASSUME NEW r \in Requests, Continue(r) PROVE SavedByAStop'
  BY <1>31, <1>28, <1>29, <1>20, <1>23, <1>50 DEF Continue
<1>. QED
  BY <1>31, <1>30, <1>25, <1>26, <1>27, <1>51 DEF Next, Synchronises

\* The row says of a control that stands, and nobody decides, what it is.
LEMMA StandingStays ==
  ASSUME IInv, FreeHaveNoKey, IdleIsClosed, StopsWithdraw, StandingShows, WorkShows, NothingShows, Next
  PROVE  StandingShows'
<1>1. \A q \in Requests : request[q].at \in Deciding \union {"claim", "idle", "failing!"} => request[q].stop \in
   Ids
  BY IsTyped
<1>2. \A q \in Requests : /\ request[q].at \in Stopping => stops[request[q].stop].state = "ACTIVATING"
                          /\ request[q].at = "begin" => stops[request[q].stop].state = "RECOVERY_REQUESTED"
                          /\ request[q].at \in Opening => stops[request[q].stop].state = "RECOVERING"
  BY DEF IInv, Control, ControlIsHeld, At
<1>3. \A c \in Ids : stops[c].state \notin {"NONE", "RECOVERED"} => stops[c].key # None
  BY DEF IInv, Control, ControlsHaveKeys
<1>4. \A r, q \in Requests : request[r].at \in Deciding /\ request[q].at \in Deciding /\ request[r].stop =
   request[q].stop => r = q
  BY DEF IInv, Control, DecidedByOne
<1>5. \A c, d \in Ids : "twoStops" \notin events /\ stops[c].key # None /\ stops[d].key # None => c = d
  BY DEF IInv, Control, OneStands, Standing
<1>6. ASSUME NEW r \in Requests, request[r].at \in Opening, "twoStops" \notin events
      PROVE  \A q \in Requests : request[q].at \notin Stopping
  BY <1>6, OpeningIsAlone DEF IInv
<1>7. ASSUME NEW r \in Requests, 
          \/ ReadRow(r, "hold", "hold!")
          \/ SetHold(r)
          \/ MarkActivating(r)
          \/ RoundIsOver(r, "block", "unpublish")
          \/ RoundIsOver(r, "unpublish", "finish")
          \/ FinishPlatform(r)
      PROVE  StandingShows'
  BY <1>7, <1>1, <1>2, <1>3, <1>4, <1>5, <1>6, DoReadRow, DoSetHold, DoMarkActivating, DoRoundIsOver,
     DoFinishPlatform DEF StandingShows, Orderly, Decided, RowFollows, FailingLate, At, Without, Standing,
     Stopping, Opening, Deciding, Free, Walks, SameTask, Only, SameState, EventsGrow, NextTask, SameHold, Visiting
<1>8. ASSUME NEW r \in Requests, NEW s \in Shops, BlockShop(r, s)
      PROVE  StandingShows'
  BY <1>8, <1>1, <1>2, <1>3, <1>4, <1>5, <1>6, DoBlockShop DEF StandingShows, Orderly, Decided, RowFollows,
     FailingLate, At, Without, Standing, Stopping, Opening, Deciding, Free, Walks, TaskDone, Only, EventsGrow,
        Visiting
<1>9. ASSUME NEW r \in Requests, NEW s \in Shops, UnpublishShop(r, s)
      PROVE  StandingShows'
  BY <1>9, <1>1, <1>2, <1>3, <1>4, <1>5, <1>6, DoUnpublishShop DEF StandingShows, Orderly, Decided, RowFollows,
     FailingLate, At, Without, Standing, Stopping, Opening, Deciding, Free, Walks, TaskDone, Only, OnlyStop,
     SameControls, OnlyShop, EventsGrow, Withdrawn, Visiting
<1>10. ASSUME NEW r \in Requests, FinishStop(r)
      PROVE  StandingShows'
  BY <1>10, <1>1, <1>2, <1>3, <1>4, <1>5, <1>6, DoFinishStop DEF StandingShows, Orderly, Decided, RowFollows,
     FailingLate, At, Without, Standing, Stopping, Opening, Deciding, Free, Ends, Only, StopMoves, OnlyStop,
     Verdict, WorkShows, RowIsLed, StopsWithdraw, StopOfWithdraws, Visiting
<1>11. ASSUME NEW r \in Requests, ClaimStop(r)
      PROVE  StandingShows'
  BY <1>11, <1>1, <1>2, <1>3, <1>4, <1>5, <1>6, DoClaimStop DEF StandingShows, Orderly, Decided, RowFollows,
     FailingLate, At, Without, Standing, Stopping, Opening, Deciding, Free, Walks, SameTask, Only, StopMoves,
     OnlyStop, Ends, Recoverable, Visiting
<1>12. ASSUME NEW r \in Requests, StartRecovery(r)
      PROVE  StandingShows'
  BY <1>12, <1>1, <1>2, <1>3, <1>4, <1>5, <1>6, DoStartRecovery DEF StandingShows, Orderly, Decided, RowFollows,
     FailingLate, At, Without, Standing, Stopping, Opening, Deciding, Free, Walks, SameTask, Only, StopMoves,
     OnlyStop, Visiting
<1>13. ASSUME NEW r \in Requests, 
          \/ MarkRecovering(r)
          \/ ReadRow(r, "release", "release!")
          \/ ProceedIf(r, "restore", "allow")
          \/ ProceedIf(r, "allow", "release")
      PROVE  StandingShows'
  BY <1>13, <1>1, <1>2, <1>3, <1>4, <1>5, <1>6, DoMarkRecovering, DoReadRow, DoProceedIf DEF StandingShows,
     Orderly, Decided, RowFollows, FailingLate, At, Without, Standing, Stopping, Opening, Deciding, Free, Walks,
     SameTask, Only, SameHold, NextTask, Visiting
<1>14. ASSUME NEW r \in Requests, InspectValidation(r)
      PROVE  StandingShows'
  BY <1>14, <1>1, <1>2, <1>3, <1>4, <1>5, <1>6, DoInspectValidation DEF StandingShows, Orderly, Decided,
     RowFollows, FailingLate, At, Without, Standing, Stopping, Opening, Deciding, Free, Walks, NextTask,
     SameTask, Only, EventsGrow, Visiting
<1>15. ASSUME NEW r \in Requests, NEW s \in Shops, RestoreShop(r, s)
      PROVE  StandingShows'
  BY <1>15, <1>1, <1>2, <1>3, <1>4, <1>5, <1>6, DoRestoreShop DEF StandingShows, Orderly, Decided, RowFollows,
     FailingLate, At, Without, Standing, Stopping, Opening, Deciding, Free, Walks, TaskDone, Only, OnlyShop,
     EventsGrow, Visiting
<1>16. ASSUME NEW r \in Requests, NEW s \in Shops, AllowShop(r, s)
      PROVE  StandingShows'
  BY <1>16, <1>1, <1>2, <1>3, <1>4, <1>5, <1>6, DoAllowShop DEF StandingShows, Orderly, Decided, RowFollows,
     FailingLate, At, Without, Standing, Stopping, Opening, Deciding, Free, Walks, TaskDone, Only, OnlyShop,
     EventsGrow, Visiting
<1>17. ASSUME NEW r \in Requests, ReleaseHold(r)
      PROVE  StandingShows'
  BY <1>17, <1>1, <1>2, <1>3, <1>4, <1>5, <1>6, DoReleaseHold DEF StandingShows, Orderly, Decided, RowFollows,
     FailingLate, At, Without, Standing, Stopping, Opening, Deciding, Free, Walks, SameTask, Only, Ends,
     SameState, EventsGrow, WorkShows, RowIsLed, Visiting
<1>18. ASSUME NEW r \in Requests, CloseStop(r)
      PROVE  StandingShows'
  BY <1>18, <1>1, <1>2, <1>3, <1>4, <1>5, <1>6, DoCloseStop DEF StandingShows, Orderly, Decided, RowFollows,
     FailingLate, At, Without, Standing, Stopping, Opening, Deciding, Free, Walks, SameTask, Only, OnlyStop, Visiting
<1>19. ASSUME NEW r \in Requests, MarkIdle(r)
      PROVE  StandingShows'
  BY <1>19, <1>1, <1>2, <1>3, <1>4, <1>5, <1>6, DoMarkIdle DEF StandingShows, Orderly, Decided, RowFollows,
     FailingLate, At, Without, Standing, Stopping, Opening, Deciding, Free, Ends, Only, SameHold, EventsGrow,
     IdleIsClosed, FreeHaveNoKey, Visiting
<1>20. ASSUME NEW r \in Requests, FailStop(r)
      PROVE  StandingShows'
  BY <1>20, <1>1, <1>2, <1>3, <1>4, <1>5, <1>6, DoFailStop DEF StandingShows, Orderly, Decided, RowFollows,
     FailingLate, At, Without, Standing, Stopping, Opening, Deciding, Free, Walks, SameTask, Only, StopMoves,
     OnlyStop, WorkShows, RowIsLed, Visiting
<1>21. ASSUME NEW r \in Requests, FailPlatform(r)
      PROVE  StandingShows'
  BY <1>21, <1>1, <1>2, <1>3, <1>4, <1>5, <1>6, DoFailPlatform DEF StandingShows, Orderly, Decided, RowFollows,
     FailingLate, At, Without, Standing, Stopping, Opening, Deciding, Free, Ends, Only, SameHold, EventsGrow, Visiting
<1>22. ASSUME NEW r \in Requests, SetEmailHold(r) \/ ReleaseEmailHold(r)
      PROVE  StandingShows'
  BY <1>22, <1>1, <1>2, <1>3, <1>4, <1>5, <1>6, DoEmail DEF StandingShows, Orderly, Decided, RowFollows,
     FailingLate, At, Without, Standing, Stopping, Opening, Deciding, Free, Aside, Only, SameRow, SameHold,
     SameState, EventsGrow, Visiting
<1>23. ASSUME NEW r \in Requests, NEW a \in Actors, BeginEmail(r, a) \/ BeginRecovery(r, a)
      PROVE  StandingShows'
  BY <1>23, <1>1, <1>2, <1>3, <1>4, <1>5, <1>6, DoBegin, DoBeginRecovery DEF StandingShows, Orderly, Decided,
     RowFollows, FailingLate, At, Without, Standing, Stopping, Opening, Deciding, Free, Aside, Only, SameRow,
     SameHold, SameState, EventsGrow, Visiting
<1>24. ASSUME NEW r \in Requests, NEW a \in Actors, StopIsStanding(r, a) \/ WatchdogRests(r, a)
      PROVE  StandingShows'
  BY <1>24, <1>1, <1>2, <1>3, <1>4, <1>5, <1>6, DoTell DEF StandingShows, Orderly, Decided, RowFollows,
     FailingLate, At, Without, Standing, Stopping, Opening, Deciding, Free, EventsGrow, Visiting
<1>25. ASSUME NEW r \in Requests, NEW s \in Shops, SyncVisitedShop(r, s)
      PROVE  StandingShows'
  BY <1>25, <1>1, <1>2, <1>3, <1>4, <1>5, <1>6, DoSyncVisitedShop DEF StandingShows, Orderly, Decided,
     RowFollows, FailingLate, At, Without, Standing, Stopping, Opening, Deciding, Free, Ends, Only, OnlyShop,
     EventsGrow, Visiting
<1>26. ASSUME NEW r \in Requests, NEW a \in Actors, CreateStop(r, a)
      PROVE  StandingShows'
  BY <1>26, <1>1, <1>2, <1>3, <1>4, <1>5, <1>6, DoCreateStop DEF StandingShows, Orderly, Decided, RowFollows,
     FailingLate, At, Without, Standing, Stopping, Opening, Deciding, Free, Only, OnlyStop, EventsGrow, Visiting
<1>27. ASSUME NEW r \in Requests, Die(r)
      PROVE  StandingShows'
  BY <1>27, <1>1, <1>2, <1>3, <1>4, <1>5, <1>6, DoDie DEF StandingShows, Orderly, Decided, RowFollows,
     FailingLate, At, Without, Standing, Stopping, Opening, Deciding, Free, Ends, Only, EventsGrow, Visiting
<1>50. ASSUME NEW r \in Requests, ReadVisited(r)
      PROVE  StandingShows'
  BY <1>50, <1>1, <1>2, <1>3, <1>4, <1>5, <1>6, DoReadVisited DEF StandingShows, Orderly, Decided, RowFollows,
     FailingLate, At, Without, Standing, Stopping, Opening, Deciding, Free, Aside, Only, SameRow, SameHold,
     SameState, EventsGrow, Visiting
<1>51. ASSUME NEW s \in Shops, Synchronises(s)
      PROVE  StandingShows'
  BY <1>51, <1>1, <1>2, <1>3, <1>4, <1>5, <1>6, DoSync DEF StandingShows, Orderly, Decided, RowFollows,
     FailingLate, At, Without, Standing, Stopping, Opening, Deciding, Free, EventsGrow, Visiting, OnlyShop, Withdrawn
<1>28. ASSUME AgentStops
      PROVE  StandingShows'
  BY <1>28, <1>1, <1>2, <1>3, <1>4, <1>5, <1>6, DoAgentStops DEF StandingShows, Orderly, Decided, RowFollows,
     FailingLate, At, Without, Standing, Stopping, Opening, Deciding, Free, EventsGrow, Visiting
<1>29. ASSUME NEW a \in Machines, LoseControl(a)
      PROVE  StandingShows'
  BY <1>29, <1>1, <1>2, <1>3, <1>4, <1>5, <1>6, DoLoseControl DEF StandingShows, Orderly, Decided, RowFollows,
     FailingLate, At, Without, Standing, Stopping, Opening, Deciding, Free, EventsGrow, Visiting
<1>30. ASSUME NEW r \in Requests, StopStep(r) PROVE StandingShows'
  BY <1>30, <1>7, <1>8, <1>9, <1>10 DEF StopStep
<1>31. ASSUME NEW r \in Requests, RecoveryStep(r) PROVE StandingShows'
  BY <1>31, <1>11, <1>12, <1>13, <1>14, <1>15, <1>16, <1>17, <1>18, <1>19, <1>20, <1>21 DEF RecoveryStep
<1>32. ASSUME NEW r \in Requests, NEW a \in Actors, Begin(r, a) PROVE StandingShows'
  BY <1>32, <1>23, <1>24, <1>26, <1>51 DEF Begin, BeginVisit, Synchronises
<1>33. ASSUME NEW r \in Requests, Continue(r) PROVE StandingShows'
  BY <1>33, <1>30, <1>31, <1>22, <1>25, <1>50 DEF Continue
<1>. QED
  BY <1>33, <1>32, <1>27, <1>28, <1>29, <1>51 DEF Next, Synchronises

\* A request is led as before while the row stays and nothing is closed.
LEMMA LedStays ==
  ASSUME NEW q \in Requests, RowIsLed(q), request'[q] = request[q], SameRow,
         NothingCloses
  PROVE  RowIsLed(q)'
  BY DEF RowIsLed, NothingCloses, SameRow, SameHold, SameState, Verdict, Open, At

\* Who is not at work on a stop is not led.
LEMMA NotLed ==
  ASSUME NEW q \in Requests, request[q].at \in Free \union {"claim"}
  PROVE  RowIsLed(q)
  BY DEF RowIsLed, At, Opening, Free, Visiting

LEMMA NotLedAfter ==
  ASSUME NEW q \in Requests, request'[q].at \in Free \union {"claim"}
  PROVE  RowIsLed(q)'
  BY DEF RowIsLed, At, Opening, Free, Visiting

\* The row follows the request that decides the control.
LEMMA WorkStays ==
  ASSUME IInv, FreeHaveNoKey, IdleIsClosed, StopsWithdraw, StandingShows, WorkShows, NothingShows, Next
  PROVE  WorkShows'
<1>1. \A q \in Requests : request[q].at \in Deciding \union {"claim", "idle", "failing!"} => request[q].stop \in
   Ids
  BY IsTyped
<1>2. \A q \in Requests : /\ request[q].at \in Stopping => stops[request[q].stop].state = "ACTIVATING"
                          /\ request[q].at = "begin" => stops[request[q].stop].state = "RECOVERY_REQUESTED"
                          /\ request[q].at \in Opening => stops[request[q].stop].state = "RECOVERING"
  BY DEF IInv, Control, ControlIsHeld, At
<1>3. \A c \in Ids : stops[c].state \notin {"NONE", "RECOVERED"} => stops[c].key # None
  BY DEF IInv, Control, ControlsHaveKeys
<1>4. \A r, q \in Requests : request[r].at \in Deciding /\ request[q].at \in Deciding /\ request[r].stop =
   request[q].stop => r = q
  BY DEF IInv, Control, DecidedByOne
<1>5. \A c, d \in Ids : "twoStops" \notin events /\ stops[c].key # None /\ stops[d].key # None => c = d
  BY DEF IInv, Control, OneStands, Standing
<1>6. ASSUME NEW r \in Requests, request[r].at \in Opening, "twoStops" \notin events
      PROVE  \A q \in Requests : request[q].at \notin Stopping
  BY <1>6, OpeningIsAlone DEF IInv
<1>7. ASSUME NEW r \in Requests, 
          \/ ReadRow(r, "hold", "hold!")
          \/ SetHold(r)
          \/ MarkActivating(r)
          \/ RoundIsOver(r, "block", "unpublish")
          \/ RoundIsOver(r, "unpublish", "finish")
          \/ FinishPlatform(r)
      PROVE  WorkShows'
  BY <1>7, <1>1, <1>2, <1>3, <1>4, <1>5, <1>6, DoReadRow, DoSetHold, DoMarkActivating, DoRoundIsOver,
     DoFinishPlatform DEF WorkShows, Orderly, RowIsLed, Open, At, Without, Standing, Stopping, Opening,
     Deciding, Free, Walks, SameTask, Only, SameState, EventsGrow, NextTask, SameHold, Verdict, Visiting
<1>8. ASSUME NEW r \in Requests, NEW s \in Shops, BlockShop(r, s)
      PROVE  WorkShows'
  BY <1>8, <1>1, <1>2, <1>3, <1>4, <1>5, <1>6, DoBlockShop DEF WorkShows, Orderly, RowIsLed, Open, At, Without,
     Standing, Stopping, Opening, Deciding, Free, Walks, TaskDone, Only, EventsGrow, Visiting
<1>9. ASSUME NEW r \in Requests, NEW s \in Shops, UnpublishShop(r, s)
      PROVE  WorkShows'
  BY <1>9, <1>1, <1>2, <1>3, <1>4, <1>5, <1>6, DoUnpublishShop DEF WorkShows, Orderly, RowIsLed, Open, At,
     Without, Standing, Stopping, Opening, Deciding, Free, Walks, TaskDone, Only, OnlyStop, SameControls,
     OnlyShop, EventsGrow, Withdrawn, Visiting
<1>10. ASSUME NEW r \in Requests, FinishStop(r)
      PROVE  WorkShows'
  BY <1>10, <1>1, <1>2, <1>3, <1>4, <1>5, <1>6, DoFinishStop DEF WorkShows, Orderly, RowIsLed, Open, At,
     Without, Standing, Stopping, Opening, Deciding, Free, Ends, Only, StopMoves, OnlyStop, Verdict, Visiting
<1>11. ASSUME NEW r \in Requests, ClaimStop(r)
      PROVE  WorkShows'
  <2>1. /\ EventsGrow /\ SameRow /\ NothingCloses
        /\ \A q \in Requests : q # r => request'[q] = request[q]
        /\ request'[r].at \in {"rest", "begin"}
        /\ request'[r].at = "begin" =>
              /\ request'[r].stop = request[r].stop
              /\ stops[request[r].stop].state \in Recoverable
    BY <1>11, DoClaimStop DEF Walks, Only, Ends, EventsGrow, SameRow, SameHold, SameState, NothingCloses
  <2>2. Orderly' => Orderly
    BY <2>1 DEF Orderly, Without, EventsGrow
  <2>3. ASSUME Orderly, request'[r].at = "begin" PROVE platform.hold /\ platform.stop = request[r].stop
    <3>1. request[r].stop \in Standing /\ ~Decided(request[r].stop)
      BY <1>11, <1>1, <1>2, <1>3, <2>1, <2>3 DEF ClaimStop, At, Recoverable, Standing, Decided, Deciding
    <3>. QED
      BY <2>3, <3>1 DEF StandingShows, RowFollows
  <2>4. Orderly' => RowIsLed(r)'
    BY <2>1, <2>2, <2>3 DEF RowIsLed, SameRow, SameHold, SameState, At, Opening
  <2>. QED
    BY <2>1, <2>2, <2>4, LedStays DEF WorkShows
<1>12. ASSUME NEW r \in Requests, StartRecovery(r)
      PROVE  WorkShows'
  BY <1>12, <1>1, <1>2, <1>3, <1>4, <1>5, <1>6, DoStartRecovery DEF WorkShows, Orderly, RowIsLed, Open, At,
     Without, Standing, Stopping, Opening, Deciding, Free, Walks, SameTask, Only, StopMoves, OnlyStop, Visiting
<1>13. ASSUME NEW r \in Requests, 
          \/ MarkRecovering(r)
          \/ ReadRow(r, "release", "release!")
          \/ ProceedIf(r, "restore", "allow")
          \/ ProceedIf(r, "allow", "release")
      PROVE  WorkShows'
  BY <1>13, <1>1, <1>2, <1>3, <1>4, <1>5, <1>6, DoMarkRecovering, DoReadRow, DoProceedIf DEF WorkShows, Orderly,
     RowIsLed, Open, At, Without, Standing, Stopping, Opening, Deciding, Free, Walks, SameTask, Only, SameHold,
     NextTask, Visiting
<1>14. ASSUME NEW r \in Requests, InspectValidation(r)
      PROVE  WorkShows'
  BY <1>14, <1>1, <1>2, <1>3, <1>4, <1>5, <1>6, DoInspectValidation DEF WorkShows, Orderly, RowIsLed, Open, At,
     Without, Standing, Stopping, Opening, Deciding, Free, Walks, NextTask, SameTask, Only, EventsGrow, Visiting
<1>15. ASSUME NEW r \in Requests, NEW s \in Shops, RestoreShop(r, s)
      PROVE  WorkShows'
  BY <1>15, <1>1, <1>2, <1>3, <1>4, <1>5, <1>6, DoRestoreShop DEF WorkShows, Orderly, RowIsLed, Open, At,
     Without, Standing, Stopping, Opening, Deciding, Free, Walks, TaskDone, Only, OnlyShop, EventsGrow, Visiting
<1>16. ASSUME NEW r \in Requests, NEW s \in Shops, AllowShop(r, s)
      PROVE  WorkShows'
  BY <1>16, <1>1, <1>2, <1>3, <1>4, <1>5, <1>6, DoAllowShop DEF WorkShows, Orderly, RowIsLed, Open, At, Without,
     Standing, Stopping, Opening, Deciding, Free, Walks, TaskDone, Only, OnlyShop, EventsGrow, Visiting
<1>17. ASSUME NEW r \in Requests, ReleaseHold(r)
      PROVE  WorkShows'
  BY <1>17, <1>1, <1>2, <1>3, <1>4, <1>5, <1>6, DoReleaseHold DEF WorkShows, Orderly, RowIsLed, Open, At,
     Without, Standing, Stopping, Opening, Deciding, Free, Walks, SameTask, Only, Ends, SameState, EventsGrow,
        Visiting
<1>18. ASSUME NEW r \in Requests, CloseStop(r)
      PROVE  WorkShows'
  BY <1>18, <1>1, <1>2, <1>3, <1>4, <1>5, <1>6, DoCloseStop DEF WorkShows, Orderly, RowIsLed, Open, At, Without,
     Standing, Stopping, Opening, Deciding, Free, Walks, SameTask, Only, OnlyStop, Visiting
<1>19. ASSUME NEW r \in Requests, MarkIdle(r)
      PROVE  WorkShows'
  BY <1>19, <1>1, <1>2, <1>3, <1>4, <1>5, <1>6, DoMarkIdle DEF WorkShows, Orderly, RowIsLed, Open, At, Without,
     Standing, Stopping, Opening, Deciding, Free, Ends, Only, SameHold, EventsGrow, IdleIsClosed, FreeHaveNoKey,
        Visiting
<1>20. ASSUME NEW r \in Requests, FailStop(r)
      PROVE  WorkShows'
  BY <1>20, <1>1, <1>2, <1>3, <1>4, <1>5, <1>6, DoFailStop DEF WorkShows, Orderly, RowIsLed, Open, At, Without,
     Standing, Stopping, Opening, Deciding, Free, Walks, SameTask, Only, StopMoves, OnlyStop, Visiting
<1>21. ASSUME NEW r \in Requests, FailPlatform(r)
      PROVE  WorkShows'
  BY <1>21, <1>1, <1>2, <1>3, <1>4, <1>5, <1>6, DoFailPlatform DEF WorkShows, Orderly, RowIsLed, Open, At,
     Without, Standing, Stopping, Opening, Deciding, Free, Ends, Only, SameHold, EventsGrow, Visiting
<1>22. ASSUME NEW r \in Requests, SetEmailHold(r) \/ ReleaseEmailHold(r)
      PROVE  WorkShows'
  <2>1. /\ EventsGrow /\ SameRow
        /\ NothingCloses
        /\ \A q \in Requests : request'[q] = request[q] \/ request'[q].at \in Free \union {"claim"}
    BY <1>22, DoEmail DEF NothingCloses, Aside, Ends, Free, Only, Visiting
  <2>2. Orderly' => Orderly
    BY <2>1 DEF Orderly, Without, EventsGrow
  <2>. QED
    BY <2>1, <2>2, LedStays, NotLedAfter DEF WorkShows
<1>23. ASSUME NEW r \in Requests, NEW a \in Actors, BeginEmail(r, a) \/ BeginRecovery(r, a)
      PROVE  WorkShows'
  <2>1. /\ EventsGrow /\ SameRow
        /\ NothingCloses
        /\ \A q \in Requests : request'[q] = request[q] \/ request'[q].at \in Free \union {"claim"}
    BY <1>23, DoBegin, DoBeginRecovery DEF NothingCloses, Aside, Free, Only, EventsGrow, SameRow, SameHold,
       SameState, Visiting
  <2>2. Orderly' => Orderly
    BY <2>1 DEF Orderly, Without, EventsGrow
  <2>. QED
    BY <2>1, <2>2, LedStays, NotLedAfter DEF WorkShows
<1>24. ASSUME NEW r \in Requests, NEW a \in Actors, StopIsStanding(r, a) \/ WatchdogRests(r, a)
      PROVE  WorkShows'
  <2>1. /\ EventsGrow /\ SameRow
        /\ NothingCloses
        /\ \A q \in Requests : request'[q] = request[q] \/ request'[q].at \in Free \union {"claim"}
    BY <1>24, DoTell DEF NothingCloses, SameRow, SameHold, SameState
  <2>2. Orderly' => Orderly
    BY <2>1 DEF Orderly, Without, EventsGrow
  <2>. QED
    BY <2>1, <2>2, LedStays, NotLedAfter DEF WorkShows
<1>25. ASSUME NEW r \in Requests, NEW s \in Shops, SyncVisitedShop(r, s)
      PROVE  WorkShows'
  <2>1. Orderly' => Orderly /\ ~Crossing
    BY <1>25, DoSyncVisitedShop DEF Orderly, Without, EventsGrow
  <2>2. ASSUME Orderly', NEW q \in Requests PROVE RowIsLed(q)'
    <3>1. request'[q].at \notin (UnderRecovery \union {"finish!"})
          \/ (request'[q].at = "finish!" /\ request'[q] = request[q])
      BY <1>25, <2>1, <2>2, DoSyncVisitedShop DEF Crossing, UnderRecovery, Ends, Only
    <3>. QED
      BY <1>25, <2>1, <2>2, <3>1, DoSyncVisitedShop DEF WorkShows, RowIsLed, At, Opening, UnderRecovery, Verdict
  <2>. QED
    BY <2>2 DEF WorkShows
<1>26. ASSUME NEW r \in Requests, NEW a \in Actors, CreateStop(r, a)
      PROVE  WorkShows'
  BY <1>26, <1>1, <1>2, <1>3, <1>4, <1>5, <1>6, DoCreateStop DEF WorkShows, Orderly, RowIsLed, Open, At,
     Without, Standing, Stopping, Opening, Deciding, Free, Only, OnlyStop, EventsGrow, Visiting
<1>27. ASSUME NEW r \in Requests, Die(r)
      PROVE  WorkShows'
  BY <1>27, <1>1, <1>2, <1>3, <1>4, <1>5, <1>6, DoDie DEF WorkShows, Orderly, RowIsLed, Open, At, Without,
     Standing, Stopping, Opening, Deciding, Free, Ends, Only, EventsGrow, Visiting
<1>50. ASSUME NEW r \in Requests, ReadVisited(r)
      PROVE  WorkShows'
  <2>1. /\ EventsGrow /\ SameRow
        /\ NothingCloses
        /\ \A q \in Requests : request'[q] = request[q] \/ request'[q].at \in Free \union {"claim"}
    BY <1>50, DoReadVisited DEF NothingCloses, Aside, Ends, Free, Only, Visiting
  <2>2. Orderly' => Orderly
    BY <2>1 DEF Orderly, Without, EventsGrow
  <2>. QED
    BY <2>1, <2>2, LedStays, NotLedAfter DEF WorkShows
<1>51. ASSUME NEW s \in Shops, Synchronises(s)
      PROVE  WorkShows'
  <2>1. /\ EventsGrow /\ SameRow
        /\ \A q \in Requests : request'[q] = request[q] \/ request'[q].at \in Free \union {"claim"}
    BY <1>51, DoSync DEF SameRow, SameHold, SameState
  <2>2. Orderly' => Orderly
    BY <2>1 DEF Orderly, Without, EventsGrow
  <2>3. Orderly' /\ Crossing => NothingCloses
    BY <1>51, DoSync DEF NothingCloses, OnlyShop, Orderly, Without
  <2>4. ASSUME Orderly', NEW q \in Requests, request'[q] = request[q] PROVE RowIsLed(q)'
    <3>1. CASE Crossing
      BY <2>1, <2>2, <2>3, <2>4, <3>1, LedStays DEF WorkShows
    <3>2. CASE ~Crossing
      BY <2>1, <2>2, <2>4, <3>2 DEF WorkShows, RowIsLed, Crossing, UnderRecovery, Opening, At, SameRow, SameHold,
         SameState, Verdict
    <3>. QED BY <3>1, <3>2
  <2>. QED
    BY <2>1, <2>4, NotLedAfter DEF WorkShows
<1>28. ASSUME AgentStops
      PROVE  WorkShows'
  <2>1. /\ EventsGrow /\ SameRow
        /\ NothingCloses
        /\ \A q \in Requests : request'[q] = request[q] \/ request'[q].at \in Free \union {"claim"}
    BY <1>28, DoAgentStops DEF NothingCloses, SameRow, SameHold, SameState
  <2>2. Orderly' => Orderly
    BY <2>1 DEF Orderly, Without, EventsGrow
  <2>. QED
    BY <2>1, <2>2, LedStays, NotLedAfter DEF WorkShows
<1>29. ASSUME NEW a \in Machines, LoseControl(a)
      PROVE  WorkShows'
  BY <1>29, <1>1, <1>2, <1>3, <1>4, <1>5, <1>6, DoLoseControl DEF WorkShows, Orderly, RowIsLed, Open, At,
     Without, Standing, Stopping, Opening, Deciding, Free, EventsGrow, Visiting
<1>30. ASSUME NEW r \in Requests, StopStep(r) PROVE WorkShows'
  BY <1>30, <1>7, <1>8, <1>9, <1>10 DEF StopStep
<1>31. ASSUME NEW r \in Requests, RecoveryStep(r) PROVE WorkShows'
  BY <1>31, <1>11, <1>12, <1>13, <1>14, <1>15, <1>16, <1>17, <1>18, <1>19, <1>20, <1>21 DEF RecoveryStep
<1>32. ASSUME NEW r \in Requests, NEW a \in Actors, Begin(r, a) PROVE WorkShows'
  BY <1>32, <1>23, <1>24, <1>26, <1>51 DEF Begin, BeginVisit, Synchronises
<1>33. ASSUME NEW r \in Requests, Continue(r) PROVE WorkShows'
  BY <1>33, <1>30, <1>31, <1>22, <1>25, <1>50 DEF Continue
<1>. QED
  BY <1>33, <1>32, <1>27, <1>28, <1>29, <1>51 DEF Next, Synchronises

\* When no control stands, all is open.
LEMMA NothingStays ==
  ASSUME IInv, FreeHaveNoKey, IdleIsClosed, StopsWithdraw, StandingShows, WorkShows, NothingShows, Next
  PROVE  NothingShows'
<1>1. \A q \in Requests : request[q].at \in Deciding \union {"claim", "idle", "failing!"} => request[q].stop \in
   Ids
  BY IsTyped
<1>2. \A q \in Requests : /\ request[q].at \in Stopping => stops[request[q].stop].state = "ACTIVATING"
                          /\ request[q].at = "begin" => stops[request[q].stop].state = "RECOVERY_REQUESTED"
                          /\ request[q].at \in Opening => stops[request[q].stop].state = "RECOVERING"
  BY DEF IInv, Control, ControlIsHeld, At
<1>3. \A c \in Ids : stops[c].state \notin {"NONE", "RECOVERED"} => stops[c].key # None
  BY DEF IInv, Control, ControlsHaveKeys
<1>4. \A r, q \in Requests : request[r].at \in Deciding /\ request[q].at \in Deciding /\ request[r].stop =
   request[q].stop => r = q
  BY DEF IInv, Control, DecidedByOne
<1>5. \A c, d \in Ids : "twoStops" \notin events /\ stops[c].key # None /\ stops[d].key # None => c = d
  BY DEF IInv, Control, OneStands, Standing
<1>6. ASSUME NEW r \in Requests, request[r].at \in Opening, "twoStops" \notin events
      PROVE  \A q \in Requests : request[q].at \notin Stopping
  BY <1>6, OpeningIsAlone DEF IInv
<1>7. ASSUME NEW r \in Requests, 
          \/ ReadRow(r, "hold", "hold!")
          \/ SetHold(r)
          \/ MarkActivating(r)
          \/ RoundIsOver(r, "block", "unpublish")
          \/ RoundIsOver(r, "unpublish", "finish")
          \/ FinishPlatform(r)
      PROVE  NothingShows'
  BY <1>7, <1>1, <1>2, <1>3, <1>4, <1>5, <1>6, DoReadRow, DoSetHold, DoMarkActivating, DoRoundIsOver,
     DoFinishPlatform DEF NothingShows, Orderly, Idling, Open, At, Without, Standing, Stopping, Opening,
     Deciding, Free, Walks, SameTask, Only, SameState, EventsGrow, NextTask, SameHold, Visiting
<1>8. ASSUME NEW r \in Requests, NEW s \in Shops, BlockShop(r, s)
      PROVE  NothingShows'
  BY <1>8, <1>1, <1>2, <1>3, <1>4, <1>5, <1>6, DoBlockShop DEF NothingShows, Orderly, Idling, Open, At, Without,
     Standing, Stopping, Opening, Deciding, Free, Walks, TaskDone, Only, EventsGrow, Visiting
<1>9. ASSUME NEW r \in Requests, NEW s \in Shops, UnpublishShop(r, s)
      PROVE  NothingShows'
  BY <1>9, <1>1, <1>2, <1>3, <1>4, <1>5, <1>6, DoUnpublishShop DEF NothingShows, Orderly, Idling, Open, At,
     Without, Standing, Stopping, Opening, Deciding, Free, Walks, TaskDone, Only, OnlyStop, SameControls,
     OnlyShop, EventsGrow, Withdrawn, Visiting
<1>10. ASSUME NEW r \in Requests, FinishStop(r)
      PROVE  NothingShows'
  BY <1>10, <1>1, <1>2, <1>3, <1>4, <1>5, <1>6, DoFinishStop DEF NothingShows, Orderly, Idling, Open, At,
     Without, Standing, Stopping, Opening, Deciding, Free, Ends, Only, StopMoves, OnlyStop, Verdict, Visiting
<1>11. ASSUME NEW r \in Requests, ClaimStop(r)
      PROVE  NothingShows'
  BY <1>11, <1>1, <1>2, <1>3, <1>4, <1>5, <1>6, DoClaimStop DEF NothingShows, Orderly, Idling, Open, At,
     Without, Standing, Stopping, Opening, Deciding, Free, Walks, SameTask, Only, StopMoves, OnlyStop, Ends,
     Recoverable, Visiting
<1>12. ASSUME NEW r \in Requests, StartRecovery(r)
      PROVE  NothingShows'
  BY <1>12, <1>1, <1>2, <1>3, <1>4, <1>5, <1>6, DoStartRecovery DEF NothingShows, Orderly, Idling, Open, At,
     Without, Standing, Stopping, Opening, Deciding, Free, Walks, SameTask, Only, StopMoves, OnlyStop, Visiting
<1>13. ASSUME NEW r \in Requests, 
          \/ MarkRecovering(r)
          \/ ReadRow(r, "release", "release!")
          \/ ProceedIf(r, "restore", "allow")
          \/ ProceedIf(r, "allow", "release")
      PROVE  NothingShows'
  BY <1>13, <1>1, <1>2, <1>3, <1>4, <1>5, <1>6, DoMarkRecovering, DoReadRow, DoProceedIf DEF NothingShows,
     Orderly, Idling, Open, At, Without, Standing, Stopping, Opening, Deciding, Free, Walks, SameTask, Only,
     SameHold, NextTask, Visiting
<1>14. ASSUME NEW r \in Requests, InspectValidation(r)
      PROVE  NothingShows'
  BY <1>14, <1>1, <1>2, <1>3, <1>4, <1>5, <1>6, DoInspectValidation DEF NothingShows, Orderly, Idling, Open, At,
     Without, Standing, Stopping, Opening, Deciding, Free, Walks, NextTask, SameTask, Only, EventsGrow, Visiting
<1>15. ASSUME NEW r \in Requests, NEW s \in Shops, RestoreShop(r, s)
      PROVE  NothingShows'
  BY <1>15, <1>1, <1>2, <1>3, <1>4, <1>5, <1>6, DoRestoreShop DEF NothingShows, Orderly, Idling, Open, At,
     Without, Standing, Stopping, Opening, Deciding, Free, Walks, TaskDone, Only, OnlyShop, EventsGrow, Visiting
<1>16. ASSUME NEW r \in Requests, NEW s \in Shops, AllowShop(r, s)
      PROVE  NothingShows'
  BY <1>16, <1>1, <1>2, <1>3, <1>4, <1>5, <1>6, DoAllowShop DEF NothingShows, Orderly, Idling, Open, At,
     Without, Standing, Stopping, Opening, Deciding, Free, Walks, TaskDone, Only, OnlyShop, EventsGrow, Visiting
<1>17. ASSUME NEW r \in Requests, ReleaseHold(r)
      PROVE  NothingShows'
  BY <1>17, <1>1, <1>2, <1>3, <1>4, <1>5, <1>6, DoReleaseHold DEF NothingShows, Orderly, Idling, Open, At,
     Without, Standing, Stopping, Opening, Deciding, Free, Walks, SameTask, Only, Ends, SameState, EventsGrow,
        Visiting
<1>18. ASSUME NEW r \in Requests, CloseStop(r)
      PROVE  NothingShows'
  BY <1>18, <1>1, <1>2, <1>3, <1>4, <1>5, <1>6, DoCloseStop DEF NothingShows, Orderly, Idling, Open, At,
     Without, Standing, Stopping, Opening, Deciding, Free, Walks, SameTask, Only, OnlyStop, WorkShows, RowIsLed,
        Visiting
<1>19. ASSUME NEW r \in Requests, MarkIdle(r)
      PROVE  NothingShows'
  BY <1>19, <1>1, <1>2, <1>3, <1>4, <1>5, <1>6, DoMarkIdle DEF NothingShows, Orderly, Idling, Open, At, Without,
     Standing, Stopping, Opening, Deciding, Free, Ends, Only, SameHold, EventsGrow, IdleIsClosed, FreeHaveNoKey,
        Visiting
<1>20. ASSUME NEW r \in Requests, FailStop(r)
      PROVE  NothingShows'
  BY <1>20, <1>1, <1>2, <1>3, <1>4, <1>5, <1>6, DoFailStop DEF NothingShows, Orderly, Idling, Open, At, Without,
     Standing, Stopping, Opening, Deciding, Free, Walks, SameTask, Only, StopMoves, OnlyStop, Visiting
<1>21. ASSUME NEW r \in Requests, FailPlatform(r)
      PROVE  NothingShows'
  BY <1>21, <1>1, <1>2, <1>3, <1>4, <1>5, <1>6, DoFailPlatform DEF NothingShows, Orderly, Idling, Open, At,
     Without, Standing, Stopping, Opening, Deciding, Free, Ends, Only, SameHold, EventsGrow, Visiting
<1>22. ASSUME NEW r \in Requests, SetEmailHold(r) \/ ReleaseEmailHold(r)
      PROVE  NothingShows'
  BY <1>22, <1>1, <1>2, <1>3, <1>4, <1>5, <1>6, DoEmail DEF NothingShows, Orderly, Idling, Open, At, Without,
     Standing, Stopping, Opening, Deciding, Free, Aside, Only, SameRow, SameHold, SameState, EventsGrow, Visiting
<1>23. ASSUME NEW r \in Requests, NEW a \in Actors, BeginEmail(r, a) \/ BeginRecovery(r, a)
      PROVE  NothingShows'
  BY <1>23, <1>1, <1>2, <1>3, <1>4, <1>5, <1>6, DoBegin, DoBeginRecovery DEF NothingShows, Orderly, Idling,
     Open, At, Without, Standing, Stopping, Opening, Deciding, Free, Aside, Only, SameRow, SameHold, SameState,
     EventsGrow, Visiting
<1>24. ASSUME NEW r \in Requests, NEW a \in Actors, StopIsStanding(r, a) \/ WatchdogRests(r, a)
      PROVE  NothingShows'
  BY <1>24, <1>1, <1>2, <1>3, <1>4, <1>5, <1>6, DoTell DEF NothingShows, Orderly, Idling, Open, At, Without,
     Standing, Stopping, Opening, Deciding, Free, EventsGrow, Visiting
<1>25. ASSUME NEW r \in Requests, NEW s \in Shops, SyncVisitedShop(r, s)
      PROVE  NothingShows'
  BY <1>25, <1>1, <1>2, <1>3, <1>4, <1>5, <1>6, DoSyncVisitedShop DEF NothingShows, Orderly, Idling, Open, At,
     Without, Standing, Stopping, Opening, Deciding, Free, Ends, Only, OnlyShop, EventsGrow, Crossing,
     UnderRecovery, ControlOf, Visiting
<1>26. ASSUME NEW r \in Requests, NEW a \in Actors, CreateStop(r, a)
      PROVE  NothingShows'
  BY <1>26, <1>1, <1>2, <1>3, <1>4, <1>5, <1>6, DoCreateStop DEF NothingShows, Orderly, Idling, Open, At,
     Without, Standing, Stopping, Opening, Deciding, Free, Only, OnlyStop, EventsGrow, Visiting
<1>27. ASSUME NEW r \in Requests, Die(r)
      PROVE  NothingShows'
  BY <1>27, <1>1, <1>2, <1>3, <1>4, <1>5, <1>6, DoDie DEF NothingShows, Orderly, Idling, Open, At, Without,
     Standing, Stopping, Opening, Deciding, Free, Ends, Only, EventsGrow, Visiting
<1>50. ASSUME NEW r \in Requests, ReadVisited(r)
      PROVE  NothingShows'
  BY <1>50, <1>1, <1>2, <1>3, <1>4, <1>5, <1>6, DoReadVisited DEF NothingShows, Orderly, Idling, Open, At, Without,
     Standing, Stopping, Opening, Deciding, Free, Aside, Only, SameRow, SameHold, SameState, EventsGrow, Visiting
<1>51. ASSUME NEW s \in Shops, Synchronises(s)
      PROVE  NothingShows'
  BY <1>51, <1>1, <1>2, <1>3, <1>4, <1>5, <1>6, DoSync DEF NothingShows, Orderly, Idling, Open, At, Without,
     Standing, Stopping, Opening, Deciding, Free, EventsGrow, Visiting, OnlyShop, Withdrawn
<1>28. ASSUME AgentStops
      PROVE  NothingShows'
  BY <1>28, <1>1, <1>2, <1>3, <1>4, <1>5, <1>6, DoAgentStops DEF NothingShows, Orderly, Idling, Open, At,
     Without, Standing, Stopping, Opening, Deciding, Free, EventsGrow, Visiting
<1>29. ASSUME NEW a \in Machines, LoseControl(a)
      PROVE  NothingShows'
  BY <1>29, <1>1, <1>2, <1>3, <1>4, <1>5, <1>6, DoLoseControl DEF NothingShows, Orderly, Idling, Open, At,
     Without, Standing, Stopping, Opening, Deciding, Free, EventsGrow, Visiting
<1>30. ASSUME NEW r \in Requests, StopStep(r) PROVE NothingShows'
  BY <1>30, <1>7, <1>8, <1>9, <1>10 DEF StopStep
<1>31. ASSUME NEW r \in Requests, RecoveryStep(r) PROVE NothingShows'
  BY <1>31, <1>11, <1>12, <1>13, <1>14, <1>15, <1>16, <1>17, <1>18, <1>19, <1>20, <1>21 DEF RecoveryStep
<1>32. ASSUME NEW r \in Requests, NEW a \in Actors, Begin(r, a) PROVE NothingShows'
  BY <1>32, <1>23, <1>24, <1>26, <1>51 DEF Begin, BeginVisit, Synchronises
<1>33. ASSUME NEW r \in Requests, Continue(r) PROVE NothingShows'
  BY <1>33, <1>30, <1>31, <1>22, <1>25, <1>50 DEF Continue
<1>. QED
  BY <1>33, <1>32, <1>27, <1>28, <1>29, <1>51 DEF Next, Synchronises

-----------------------------------------------------------------------------
(* What stands and what is said of it, in every run *)

AInv == IInv /\ Agreement

LEMMA AgreementInit == Init => Agreement
<1>. SUFFICES ASSUME Init PROVE Agreement
  OBVIOUS
<1>1. \A q \in Requests : request[q].at = "rest" /\ request[q].ok
  BY DEF Init, Resting
<1>2. \A c \in Ids : stops[c].state = "NONE" /\ stops[c].key = None
  BY DEF Init, NoStop
<1>3. \A s \in Shops : Open(s) /\ shop[s].published
  BY DEF Init, OpenShop, Open
<1>4. ~platform.hold /\ platform.state = "IDLE" /\ assured = FALSE
  BY DEF Init, NoHold
<1>5. FreeHaveNoKey /\ IdleIsClosed /\ FailuresShow
  BY <1>1, <1>2 DEF FreeHaveNoKey, IdleIsClosed, FailuresShow, At
<1>6. LeftStopIsActive /\ StandingShows
  BY <1>2 DEF LeftStopIsActive, StandingShows, Standing
<1>7. StopsWithdraw /\ HoldStands
  BY <1>1, <1>2, <1>4 DEF StopsWithdraw, StopOfWithdraws, HoldStands, At, Stopping
<1>8. StateStands /\ ToldTruly
  BY <1>4 DEF StateStands, ToldTruly
<1>9. SavedByAStop /\ NothingShows
  BY <1>3, <1>4 DEF SavedByAStop, NothingShows
<1>10. WorkShows
  BY <1>1, NotLed DEF WorkShows, Free, Visiting
<1>. QED
  BY <1>5, <1>6, <1>7, <1>8, <1>9, <1>10 DEF Agreement

LEMMA AgreementNext == IInv /\ Agreement /\ [Next]_vars => Agreement'
<1>. SUFFICES ASSUME IInv, Agreement, [Next]_vars PROVE Agreement'
  OBVIOUS
<1>1. CASE Next
  BY <1>1, FreeStay, IdleStay, FailuresStay, LeftStay, WithdrawnStay, HoldStay, StateStay, ToldStay, SavedStay,
     StandingStays, WorkStays, NothingStays DEF Agreement
<1>2. CASE UNCHANGED vars
  <2>. USE <1>2 DEF vars, history
  <2>1. (FreeHaveNoKey /\ IdleIsClosed /\ FailuresShow)'
    BY DEF Agreement, FreeHaveNoKey, IdleIsClosed, FailuresShow, At
  <2>2. LeftStopIsActive'
    BY DEF Agreement, LeftStopIsActive, Without, Standing, Decided
  <2>3. StopsWithdraw'
    BY DEF Agreement, StopsWithdraw, StopOfWithdraws, Without, Withdrawn, At
  <2>4. (HoldStands /\ StateStands)'
    BY DEF Agreement, HoldStands, StateStands, Without, Standing, Idling, At
  <2>5. (ToldTruly /\ SavedByAStop)'
    BY DEF Agreement, ToldTruly, SavedByAStop, Unrestored, Without, Standing, Crossing, At
  <2>6. (StandingShows /\ NothingShows)'
    BY DEF Agreement, StandingShows, NothingShows, Orderly, Without, Standing, Decided, RowFollows, FailingLate,
       Idling, Open, At
  <2>7. WorkShows'
    BY LedStays DEF Agreement, WorkShows, Orderly, Without, SameRow, SameHold, SameState, NothingCloses
  <2>. QED
    BY <2>1, <2>2, <2>3, <2>4, <2>5, <2>6, <2>7 DEF Agreement
<1>. QED
  BY <1>1, <1>2

LEMMA AgreementHolds == Spec => []AInv
<1>1. Init => AInv
  BY InvInit, AgreementInit DEF AInv
<1>2. AInv /\ [Next]_vars => AInv'
  BY InvNext, AgreementNext DEF AInv
<1>. QED
  BY <1>1, <1>2, PTL DEF Spec

\* Once nothing is under way the platform's row, the controls and the shops say
\* the same: one stop stands and the row shows its state, or none stands, the row
\* is idle and every shop is open, unless two stops stood, one step was overtaken
\* by another, a request died, a visit wrote an old copy, control was lost or a
\* synchronisation under the hold undid what a recovery had put back.
THEOREM RowAndShopsAgree == Spec => []RowsAgree
<1>1. AInv => RowsAgree
  <2>. SUFFICES ASSUME IInv, Agreement, AtRest, Orderly
                PROVE  /\ platform.hold <=> Standing # {}
                       /\ \A c \in Standing : platform.state = stops[c].state /\ platform.stop = c
                       /\ Standing = {} =>
                             /\ platform.state = "IDLE"
                             /\ \A s \in Shops : shop[s].control = "ALLOWED" /\ shop[s].direct
    BY DEF RowsAgree, Orderly, AInv
  <2>1. ~Idling /\ \A c \in Ids : ~Decided(c) /\ ~FailingLate(c)
    BY DEF AtRest, Idling, Decided, FailingLate, At, Deciding, Stopping, Opening
  <2>2. \A c \in Standing : c \in Ids
    BY DEF Standing
  <2>3. \A c \in Standing : platform.hold /\ platform.state = stops[c].state /\ platform.stop = c
    BY <2>1, <2>2 DEF Agreement, StandingShows, RowFollows
  <2>4. Standing = {} =>
          /\ ~platform.hold /\ platform.state = "IDLE"
          /\ \A s \in Shops : shop[s].control = "ALLOWED" /\ shop[s].direct
    BY <2>1 DEF Agreement, NothingShows, Open
  <2>. QED
    BY <2>3, <2>4
<1>. QED
  BY <1>1, AgreementHolds, PTL

\* What the stops took off sale is on sale again when no stop stands and nothing
\* is under way, unless a step failed in part, the agent withdrew products, or a
\* synchronisation under the hold withdrew what a recovery was putting back or
\* what no stop had recorded.
THEOREM RecoveredIsPublished == Spec => []RecoveryRepublishes
<1>1. AInv => RecoveryRepublishes
  BY DEF AInv, Agreement, SavedByAStop, RecoveryRepublishes
<1>. QED
  BY <1>1, AgreementHolds, PTL

\* Who was told that sales are stopped was told the truth, and it stays true
\* until somebody claims the stop's recovery.
THEOREM ToldStoppedIsStopped == Spec => []ToldProtectedIsStopped
<1>1. AInv => ToldProtectedIsStopped
  <2>. SUFFICES ASSUME IInv, Agreement, assured, AtRest,
                       Without({"twoStops", "refused", "failure", "death", "controlLost"})
                PROVE  ~OnSale(Primary)
    BY DEF ToldProtectedIsStopped, AInv
  <2>1. Standing # {}
    BY DEF Agreement, ToldTruly
  <2>2. PICK c \in Ids : c \in Standing
    BY <2>1 DEF Standing
  <2>3. ~Decided(c)
    BY DEF AtRest, Decided, At, Deciding, Stopping, Opening
  <2>4. stops[c].state = "ACTIVE"
    BY <2>2, <2>3 DEF Agreement, LeftStopIsActive, Without
  <2>5. Withdrawn(Primary)
    BY <2>4, PrimaryIsShop DEF Agreement, StopsWithdraw, Without
  <2>. QED
    BY <2>5 DEF Withdrawn, OnSale
<1>. QED
  BY <1>1, AgreementHolds, PTL

=============================================================================
