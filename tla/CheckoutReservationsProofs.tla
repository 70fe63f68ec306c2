--------------------- MODULE CheckoutReservationsProofs ---------------------
(***************************************************************************)
(* What CheckoutReservations promises for any number of checkouts, keys,   *)
(* permits and operators, and any balance.                                 *)
(*                                                                         *)
(* The inductive invariant says which steps belong to which switch, that a *)
(* checkout about to create its draft holds what it reserved, that no      *)
(* second permit is live beside one that has had its order, and that       *)
(* debits, locks and payouts together are covered.                         *)
(***************************************************************************)
EXTENDS CheckoutReservations, TLAPS, FiniteSetTheorems

\* The pilot, and the credit, as long as nothing happened that a reservation
\* does not survive.
PilotIsSound == enabled /\ faults \intersect {"prepare", "block", "release", "permit"} = {}
CreditIsSound == faults \intersect {"overlap", "payout", "capture"} = {}

StepsOfTheSwitch ==
    \A c \in Checkouts :
      /\ enabled => checkout[c].step \notin {"authorize", "undoCredit"} /\ order[c] # "capturing"
      /\ ~enabled => checkout[c].step \notin {"claim", "mark", "undoEvidence"}
      /\ enabled /\ checkout[c].step # "idle" => checkout[c].pilot \in Pilots
      /\ ~enabled /\ checkout[c].step # "idle" => checkout[c].key \in Keys

\* Evidence is marked by the order's event, which then is not open any more,
\* or comes again after its quarantine broke off.
MarkedByItsOrder ==
    enabled => \A c \in Checkouts :
      evidence[c] = "ORDER_CAPTURED" => order[c] # "none" \/ c \in faults

PermitNames(c) ==
    \E p \in Pilots : pilot[p].status \in {"ORDER_CREATED", "COMPLETED"} /\ pilot[p].draft = c

CreditIsHeld(c) ==
    \/ offset[checkout[c].key].status \in {"authorized", "captured", "expired"}
    \/ \E d \in Checkouts \ {c} : checkout[d].key = checkout[c].key /\ checkout[d].step = "ended"

HoldsReservation ==
    \A c \in Checkouts :
      /\ enabled /\ checkout[c].step \in {"accept", "done"} => "prepare" \in faults \/ PermitNames(c)
      /\ ~enabled /\ checkout[c].step \in {"send", "accept", "done"} => CreditIsHeld(c)

OnePermitIsUsed ==
    PilotIsSound => \A p, q \in Pilots :
      Consumed(pilot[q]) /\ p # q => pilot[p].status \notin Live \union {"COMPLETED"}

HasItsPermit(c) ==
    \E p \in Pilots : pilot[p].claim = c /\ pilot[p].status \in {"RESERVED", "ORDER_CREATED", "COMPLETED"}

DraftsHaveTheirPermit ==
    PilotIsSound => \A c \in Checkouts :
      /\ checkout[c].step = "send" => Claimed(pilot[checkout[c].pilot], c)
      /\ draft[c] # "none" => HasItsPermit(c)

LocksAreCovered == CreditIsSound => Debited + Locked + paidOut <= Balance

IInv ==
    /\ TypeOK
    /\ StepsOfTheSwitch
    /\ MarkedByItsOrder
    /\ HoldsReservation
    /\ OnePermitIsUsed
    /\ DraftsHaveTheirPermit
    /\ LocksAreCovered

-----------------------------------------------------------------------------
(* Types.                                                                  *)

PilotRows == [status : PilotStatuses, claim : Checkouts \union {None},
              draft : Checkouts \union {None}, order : Checkouts \union {None}, revision : Nat]

CheckoutRows == [step : Steps, pilot : Pilots \union {None}, key : Keys \union {None},
                 created : BOOLEAN]

\* The rows of the permits, apart from the other variables.
PilotsAreSound ==
    /\ pilot \in [Pilots -> PilotRows]
    /\ \A p \in Pilots : RowIsCoherent(pilot[p])
    /\ \A p, q \in Pilots : pilot[p].status \in Live /\ pilot[q].status \in Live => p = q

OtherTypes ==
    /\ enabled \in BOOLEAN
    /\ desk \in [Operators -> [job : {"idle", "prepare", "activate"},
                               pilot : Pilots \union {None}, revision : Nat]]
    /\ checkout \in [Checkouts -> CheckoutRows]
    /\ evidence \in [Checkouts -> {"none", "PREPARED", "FAILED", "EXPIRED", "ORDER_CAPTURED"}]
    /\ draft \in [Checkouts -> {"none", "open", "paid", "paidLate"}]
    /\ order \in [Checkouts -> {"none", "quarantining", "capturing", "settled", "refused"}]
    /\ offset \in [Keys -> [status : OffsetStatuses, late : BOOLEAN]]
    /\ debits \in [Keys -> 0..1]
    /\ paidOut \in Nat
    /\ faults \subseteq {"prepare", "block", "release", "permit", "overlap", "payout", "capture"} \union Checkouts

LEMMA TypeParts == TypeOK <=> PilotsAreSound /\ OtherTypes
  BY DEF TypeOK, PilotsAreSound, OtherTypes, PilotRows, CheckoutRows

LEMMA ReadPilot ==
    ASSUME PilotsAreSound, NEW p \in Pilots
    PROVE  /\ pilot[p] \in PilotRows /\ pilot[p].status \in PilotStatuses
           /\ pilot[p].claim \in Checkouts \union {None} /\ pilot[p].draft \in Checkouts \union {None}
           /\ pilot[p].order \in Checkouts \union {None} /\ pilot[p].revision \in Nat
           /\ RowIsCoherent(pilot[p])
  <1>1. pilot[p] \in PilotRows
    BY DEF PilotsAreSound
  <1> QED
    BY <1>1 DEF PilotRows, PilotsAreSound

\* One permit's row is written.
LEMMA WritePilot ==
    ASSUME PilotsAreSound, NEW p, NEW row, pilot' = [pilot EXCEPT ![p] = row],
           p \in Pilots => /\ row \in PilotRows /\ RowIsCoherent(row)
                           /\ row.status \in Live =>
                                \A q \in Pilots \ {p} : pilot[q].status \notin Live
    PROVE  PilotsAreSound'
  <1>1. CASE p \notin Pilots
    <2>1. pilot' = pilot
      BY <1>1 DEF PilotsAreSound
    <2> QED
      BY <2>1 DEF PilotsAreSound
  <1>2. CASE p \in Pilots
    <2>1. pilot' \in [Pilots -> PilotRows] /\ pilot'[p] = row /\ \A q \in Pilots \ {p} : pilot'[q] = pilot[q]
      BY <1>2 DEF PilotsAreSound
    <2>2. \A q \in Pilots : RowIsCoherent(pilot'[q])
      BY <1>2, <2>1 DEF PilotsAreSound
    <2>3. \A q, r \in Pilots : pilot'[q].status \in Live /\ pilot'[r].status \in Live => q = r
      BY <1>2, <2>1 DEF PilotsAreSound
    <2> QED
      BY <2>1, <2>2, <2>3 DEF PilotsAreSound
  <1> QED
    BY <1>1, <1>2

\* The rows the actions write.
MovedRow(row, status) == Revised([row EXCEPT !.status = status])
ClaimedRow(row, c) == Revised([row EXCEPT !.status = "RESERVED", !.claim = c])
OrderedRow(row, c) == Revised([row EXCEPT !.status = "ORDER_CREATED", !.draft = c])
CompletedRow(row, c) == Revised([row EXCEPT !.status = "COMPLETED", !.order = c])

LEMMA RevisedKeeps ==
    ASSUME NEW row \in PilotRows
    PROVE  /\ Revised(row) \in PilotRows
           /\ Revised(row).status = row.status /\ Revised(row).claim = row.claim
           /\ Revised(row).draft = row.draft /\ Revised(row).order = row.order
  <1>1. [row EXCEPT !.revision = row.revision + 1] \in PilotRows
    BY DEF PilotRows
  <1> QED
    BY <1>1 DEF PilotRows, Revised

LEMMA PreparedFields ==
    ASSUME NEW row \in PilotRows
    PROVE  /\ Prepared(row) \in PilotRows /\ Prepared(row).status = "PREPARED"
           /\ Prepared(row).claim = None /\ Prepared(row).draft = None
           /\ Prepared(row).order = row.order
  <1>. DEFINE r == [row EXCEPT !.status = "PREPARED", !.claim = None, !.draft = None]
  <1>1. /\ r \in PilotRows /\ r.status = "PREPARED" /\ r.claim = None /\ r.draft = None
        /\ r.order = row.order
    BY DEF PilotRows, PilotStatuses
  <1>. HIDE DEF r
  <1>2. Revised(r) \in PilotRows /\ Revised(r).status = "PREPARED" /\ Revised(r).claim = None
        /\ Revised(r).draft = None /\ Revised(r).order = row.order
    BY <1>1, RevisedKeeps
  <1> QED
    BY <1>2 DEF Prepared, r

LEMMA ReleasedFields ==
    ASSUME NEW row \in PilotRows
    PROVE  /\ Released(row) \in PilotRows /\ Released(row).status = "ACTIVE"
           /\ Released(row).claim = None /\ Released(row).draft = row.draft
           /\ Released(row).order = row.order
  <1>. DEFINE r == [row EXCEPT !.status = "ACTIVE", !.claim = None]
  <1>1. /\ r \in PilotRows /\ r.status = "ACTIVE" /\ r.claim = None /\ r.draft = row.draft
        /\ r.order = row.order
    BY DEF PilotRows, PilotStatuses
  <1>. HIDE DEF r
  <1>2. Revised(r) \in PilotRows /\ Revised(r).status = "ACTIVE" /\ Revised(r).claim = None
        /\ Revised(r).draft = row.draft /\ Revised(r).order = row.order
    BY <1>1, RevisedKeeps
  <1> QED
    BY <1>2 DEF Released, r

LEMMA MovedFields ==
    ASSUME NEW row \in PilotRows, NEW status \in PilotStatuses
    PROVE  /\ MovedRow(row, status) \in PilotRows
           /\ MovedRow(row, status).status = status
           /\ MovedRow(row, status).claim = row.claim
           /\ MovedRow(row, status).draft = row.draft
           /\ MovedRow(row, status).order = row.order
  <1>. DEFINE r == [row EXCEPT !.status = status]
  <1>1. /\ r \in PilotRows /\ r.status = status /\ r.claim = row.claim /\ r.draft = row.draft
        /\ r.order = row.order
    BY DEF PilotRows
  <1>. HIDE DEF r
  <1>2. Revised(r) \in PilotRows /\ Revised(r).status = status /\ Revised(r).claim = row.claim
        /\ Revised(r).draft = row.draft /\ Revised(r).order = row.order
    BY <1>1, RevisedKeeps
  <1> QED
    BY <1>2 DEF r, MovedRow

LEMMA ClaimedFields ==
    ASSUME NEW row \in PilotRows, NEW c \in Checkouts
    PROVE  /\ ClaimedRow(row, c) \in PilotRows
           /\ ClaimedRow(row, c).status = "RESERVED"
           /\ ClaimedRow(row, c).claim = c
           /\ ClaimedRow(row, c).draft = row.draft
           /\ ClaimedRow(row, c).order = row.order
  <1>. DEFINE r == [row EXCEPT !.status = "RESERVED", !.claim = c]
  <1>1. /\ r \in PilotRows /\ r.status = "RESERVED" /\ r.claim = c /\ r.draft = row.draft
        /\ r.order = row.order
    BY DEF PilotRows, PilotStatuses
  <1>. HIDE DEF r
  <1>2. Revised(r) \in PilotRows /\ Revised(r).status = "RESERVED" /\ Revised(r).claim = c
        /\ Revised(r).draft = row.draft /\ Revised(r).order = row.order
    BY <1>1, RevisedKeeps
  <1> QED
    BY <1>2 DEF r, ClaimedRow

LEMMA OrderedFields ==
    ASSUME NEW row \in PilotRows, NEW c \in Checkouts
    PROVE  /\ OrderedRow(row, c) \in PilotRows
           /\ OrderedRow(row, c).status = "ORDER_CREATED"
           /\ OrderedRow(row, c).claim = row.claim
           /\ OrderedRow(row, c).draft = c
           /\ OrderedRow(row, c).order = row.order
  <1>. DEFINE r == [row EXCEPT !.status = "ORDER_CREATED", !.draft = c]
  <1>1. /\ r \in PilotRows /\ r.status = "ORDER_CREATED" /\ r.claim = row.claim /\ r.draft = c
        /\ r.order = row.order
    BY DEF PilotRows, PilotStatuses
  <1>. HIDE DEF r
  <1>2. Revised(r) \in PilotRows /\ Revised(r).status = "ORDER_CREATED" /\ Revised(r).claim = row.claim
        /\ Revised(r).draft = c /\ Revised(r).order = row.order
    BY <1>1, RevisedKeeps
  <1> QED
    BY <1>2 DEF r, OrderedRow

LEMMA CompletedFields ==
    ASSUME NEW row \in PilotRows, NEW c \in Checkouts
    PROVE  /\ CompletedRow(row, c) \in PilotRows
           /\ CompletedRow(row, c).status = "COMPLETED"
           /\ CompletedRow(row, c).claim = row.claim
           /\ CompletedRow(row, c).draft = row.draft
           /\ CompletedRow(row, c).order = c
  <1>. DEFINE r == [row EXCEPT !.status = "COMPLETED", !.order = c]
  <1>1. /\ r \in PilotRows /\ r.status = "COMPLETED" /\ r.claim = row.claim /\ r.draft = row.draft
        /\ r.order = c
    BY DEF PilotRows, PilotStatuses
  <1>. HIDE DEF r
  <1>2. Revised(r) \in PilotRows /\ Revised(r).status = "COMPLETED" /\ Revised(r).claim = row.claim
        /\ Revised(r).draft = row.draft /\ Revised(r).order = c
    BY <1>1, RevisedKeeps
  <1> QED
    BY <1>2 DEF r, CompletedRow

-----------------------------------------------------------------------------
(* What each action does to the permits.                                   *)

\* Rows of other permits stay, and the history is only added to.
Elsewhere(p) == \A q \in Pilots \ {p} : pilot'[q] = pilot[q]

LEMMA FinishPrepareFacts ==
    ASSUME PilotsAreSound, NEW o \in Operators, FinishPrepare(o), pilot' # pilot
    PROVE  \E p \in Pilots :
             /\ pilot' = [pilot EXCEPT ![p] = Prepared(pilot[p])] /\ Elsewhere(p)
             /\ pilot'[p] \in PilotRows
             /\ pilot'[p].status = "PREPARED" /\ pilot'[p].claim = None
             /\ pilot'[p].draft = None /\ pilot'[p].order = pilot[p].order
             /\ Editable(pilot[p]) \/ "prepare" \in faults'
  <1>. DEFINE p == desk[o].pilot
  <1>1. /\ pilot' = [pilot EXCEPT ![p] = Prepared(pilot[p])]
        /\ Editable(pilot[p]) \/ "prepare" \in faults'
    BY DEF FinishPrepare
  <1>2. p \in Pilots
    BY <1>1 DEF PilotsAreSound
  <1>3. pilot'[p] = Prepared(pilot[p]) /\ Elsewhere(p)
    BY <1>1, <1>2 DEF PilotsAreSound, Elsewhere
  <1>4. pilot[p] \in PilotRows
    BY <1>2, ReadPilot
  <1>5. /\ pilot'[p] \in PilotRows /\ pilot'[p].status = "PREPARED" /\ pilot'[p].claim = None
        /\ pilot'[p].draft = None /\ pilot'[p].order = pilot[p].order
    BY <1>3, <1>4, PreparedFields
  <1> QED
    BY <1>1, <1>2, <1>3, <1>5

LEMMA FinishActivateFacts ==
    ASSUME PilotsAreSound, NEW o \in Operators, FinishActivate(o), pilot' # pilot
    PROVE  \E p \in Pilots :
             /\ pilot' = [pilot EXCEPT ![p] = MovedRow(pilot[p], "ACTIVE")]
             /\ Elsewhere(p) /\ pilot'[p] \in PilotRows
             /\ pilot[p].status = "PREPARED" /\ pilot'[p].status = "ACTIVE"
             /\ pilot'[p].claim = pilot[p].claim
             /\ pilot'[p].draft = pilot[p].draft /\ pilot'[p].order = pilot[p].order
             /\ \A q \in Pilots \ {p} : pilot[q].status \notin Live
             /\ (\E q \in Pilots : Consumed(pilot[q])) => "permit" \in faults'
  <1>. DEFINE p == desk[o].pilot
  <1>1. /\ pilot' = [pilot EXCEPT ![p] = MovedRow(pilot[p], "ACTIVE")]
        /\ Activatable(p, desk[o].revision)
        /\ (\E q \in Pilots : Consumed(pilot[q])) => "permit" \in faults'
    BY DEF FinishActivate, MovedRow
  <1>2. p \in Pilots
    BY <1>1 DEF PilotsAreSound
  <1>3. pilot'[p] = MovedRow(pilot[p], "ACTIVE") /\ Elsewhere(p)
    BY <1>1, <1>2 DEF PilotsAreSound, Elsewhere
  <1>4. "ACTIVE" \in PilotStatuses
    BY DEF PilotStatuses
  <1>5. pilot[p] \in PilotRows
    BY <1>2, ReadPilot
  <1>6. /\ pilot'[p] \in PilotRows /\ pilot'[p].status = "ACTIVE" /\ pilot'[p].claim = pilot[p].claim
        /\ pilot'[p].draft = pilot[p].draft /\ pilot'[p].order = pilot[p].order
    BY <1>3, <1>4, <1>5, MovedFields
  <1> QED
    BY <1>1, <1>2, <1>3, <1>6 DEF Activatable

LEMMA BlockPilotFacts ==
    ASSUME PilotsAreSound, NEW p \in Pilots, BlockPilot(p)
    PROVE  /\ pilot' = [pilot EXCEPT ![p] = MovedRow(pilot[p], "BLOCKED")]
           /\ Elsewhere(p) /\ pilot'[p] \in PilotRows
           /\ pilot'[p].status = "BLOCKED" /\ pilot'[p].claim = pilot[p].claim
           /\ pilot'[p].draft = pilot[p].draft /\ pilot'[p].order = pilot[p].order
           /\ \/ pilot[p].status \in {"PREPARED", "ACTIVE"}
              \/ pilot[p].status = "RESERVED" /\ "block" \in faults'
  <1>1. /\ pilot' = [pilot EXCEPT ![p] = MovedRow(pilot[p], "BLOCKED")]
        /\ Blockable(pilot[p])
        /\ pilot[p].status = "RESERVED" => "block" \in faults'
    BY DEF BlockPilot, MovedRow
  <1>2. pilot'[p] = MovedRow(pilot[p], "BLOCKED") /\ Elsewhere(p)
    BY <1>1 DEF PilotsAreSound, Elsewhere
  <1>3. "BLOCKED" \in PilotStatuses
    BY DEF PilotStatuses
  <1>4. pilot[p] \in PilotRows
    BY ReadPilot
  <1>5. /\ pilot'[p] \in PilotRows /\ pilot'[p].status = "BLOCKED" /\ pilot'[p].claim = pilot[p].claim
        /\ pilot'[p].draft = pilot[p].draft /\ pilot'[p].order = pilot[p].order
    BY <1>2, <1>3, <1>4, MovedFields
  <1>6. pilot[p].status \in {"PREPARED", "ACTIVE", "RESERVED"}
    BY <1>1 DEF Blockable
  <1> QED
    BY <1>1, <1>2, <1>5, <1>6

LEMMA ClaimPilotFacts ==
    ASSUME PilotsAreSound, NEW c \in Checkouts, ClaimPilot(c), checkout[c].pilot \in Pilots
    PROVE  LET p == checkout[c].pilot IN
             /\ pilot' = [pilot EXCEPT ![p] = ClaimedRow(pilot[p], c)]
             /\ Elsewhere(p) /\ pilot'[p] \in PilotRows
             /\ pilot[p].status = "ACTIVE" /\ pilot[p].claim = None
             /\ pilot'[p].status = "RESERVED" /\ pilot'[p].claim = c
             /\ pilot'[p].draft = pilot[p].draft /\ pilot'[p].order = pilot[p].order
  <1>. DEFINE p == checkout[c].pilot
  <1>1. /\ pilot' = [pilot EXCEPT ![p] = ClaimedRow(pilot[p], c)]
        /\ Claimable(pilot[p])
    BY DEF ClaimPilot, ClaimedRow
  <1>2. pilot'[p] = ClaimedRow(pilot[p], c) /\ Elsewhere(p)
    BY <1>1 DEF PilotsAreSound, Elsewhere
  <1>3. pilot[p] \in PilotRows
    BY ReadPilot
  <1>4. /\ pilot'[p] \in PilotRows /\ pilot'[p].status = "RESERVED" /\ pilot'[p].claim = c
        /\ pilot'[p].draft = pilot[p].draft /\ pilot'[p].order = pilot[p].order
    BY <1>2, <1>3, ClaimedFields
  <1> QED
    BY <1>1, <1>2, <1>4 DEF Claimable

LEMMA MarkPilotFacts ==
    ASSUME PilotsAreSound, NEW c \in Checkouts, MarkPilot(c), checkout[c].pilot \in Pilots,
           pilot' # pilot
    PROVE  LET p == checkout[c].pilot IN
             /\ pilot' = [pilot EXCEPT ![p] = OrderedRow(pilot[p], c)]
             /\ Elsewhere(p) /\ pilot'[p] \in PilotRows
             /\ pilot[p].status = "RESERVED" /\ pilot[p].claim = c
             /\ pilot'[p].status = "ORDER_CREATED" /\ pilot'[p].claim = c
             /\ pilot'[p].draft = c /\ pilot'[p].order = pilot[p].order
  <1>. DEFINE p == checkout[c].pilot
  <1>1. /\ pilot' = [pilot EXCEPT ![p] = OrderedRow(pilot[p], c)]
        /\ Claimed(pilot[p], c)
    BY DEF MarkPilot, OrderedRow
  <1>2. pilot'[p] = OrderedRow(pilot[p], c) /\ Elsewhere(p)
    BY <1>1 DEF PilotsAreSound, Elsewhere
  <1>3. pilot[p] \in PilotRows
    BY ReadPilot
  <1>4. /\ pilot'[p] \in PilotRows /\ pilot'[p].status = "ORDER_CREATED"
        /\ pilot'[p].claim = pilot[p].claim
        /\ pilot'[p].draft = c /\ pilot'[p].order = pilot[p].order
    BY <1>2, <1>3, OrderedFields
  <1> QED
    BY <1>1, <1>2, <1>4 DEF Claimed

LEMMA UndoPilotFacts ==
    ASSUME PilotsAreSound, NEW c \in Checkouts, UndoPilot(c), checkout[c].pilot \in Pilots,
           pilot' # pilot
    PROVE  LET p == checkout[c].pilot IN
             /\ pilot' = [pilot EXCEPT ![p] = Released(pilot[p])]
             /\ Elsewhere(p) /\ pilot'[p] \in PilotRows
             /\ pilot[p].status = "RESERVED" /\ pilot[p].claim = c /\ pilot[p].draft = None
             /\ pilot'[p].status = "ACTIVE" /\ pilot'[p].claim = None
             /\ pilot'[p].draft = None /\ pilot'[p].order = pilot[p].order
             /\ draft[c] # "none" => "release" \in faults'
  <1>. DEFINE p == checkout[c].pilot
  <1>1. /\ pilot' = [pilot EXCEPT ![p] = Released(pilot[p])] /\ Releasable(pilot[p], c)
        /\ draft[c] # "none" => "release" \in faults'
    BY DEF UndoPilot
  <1>2. pilot'[p] = Released(pilot[p]) /\ Elsewhere(p)
    BY <1>1 DEF PilotsAreSound, Elsewhere
  <1>3. pilot[p] \in PilotRows
    BY ReadPilot
  <1>4. /\ pilot'[p] \in PilotRows /\ pilot'[p].status = "ACTIVE" /\ pilot'[p].claim = None
        /\ pilot'[p].draft = pilot[p].draft /\ pilot'[p].order = pilot[p].order
    BY <1>2, <1>3, ReleasedFields
  <1> QED
    BY <1>1, <1>2, <1>4 DEF Releasable, Claimed

\* A permit's row after its order is settled.
LEMMA SettledRows ==
    ASSUME PilotsAreSound, NEW c \in Checkouts, SettlePilotOrder(c), NEW p \in Pilots
    PROVE  \/ /\ pilot[p].claim # c /\ pilot'[p] = pilot[p]
           \/ /\ pilot[p].claim = c /\ pilot[p].status = "ORDER_CREATED"
              /\ pilot'[p] \in PilotRows /\ pilot'[p].status = "COMPLETED"
              /\ pilot'[p].claim = c /\ pilot'[p].draft = pilot[p].draft /\ pilot'[p].order = c
  <1>. DEFINE named == {q \in Pilots : pilot[q].claim = c}
  <1>1. pilot'[p] = IF p \in named
                    THEN CompletedRow(pilot[p], c)
                    ELSE pilot[p]
    BY DEF SettlePilotOrder, CompletedRow
  <1>2. p \in named => pilot[p].status = "ORDER_CREATED"
    BY DEF SettlePilotOrder
  <1>3. CASE p \in named
    <2>1. pilot[p] \in PilotRows
      BY ReadPilot
    <2>2. pilot'[p] = CompletedRow(pilot[p], c)
      BY <1>1, <1>3
    <2>3. /\ pilot'[p] \in PilotRows /\ pilot'[p].status = "COMPLETED"
          /\ pilot'[p].claim = pilot[p].claim /\ pilot'[p].draft = pilot[p].draft
          /\ pilot'[p].order = c
      BY <2>1, <2>2, CompletedFields
    <2> QED
      BY <1>2, <1>3, <2>3
  <1>4. CASE p \notin named
    BY <1>1, <1>4
  <1> QED
    BY <1>3, <1>4

LEMMA PilotOfCheckout ==
    ASSUME IInv, NEW c \in Checkouts, ClaimPilot(c) \/ MarkPilot(c) \/ UndoPilot(c)
    PROVE  enabled /\ checkout[c].pilot \in Pilots
  <1>1. enabled \in BOOLEAN
    BY DEF IInv, TypeOK
  <1>2. CASE ClaimPilot(c)
    BY <1>1, <1>2 DEF ClaimPilot, IInv, StepsOfTheSwitch
  <1>3. CASE MarkPilot(c)
    BY <1>1, <1>3 DEF MarkPilot, IInv, StepsOfTheSwitch
  <1>4. CASE UndoPilot(c)
    BY <1>4 DEF UndoPilot, IInv, StepsOfTheSwitch
  <1> QED
    BY <1>2, <1>3, <1>4

\* Only these actions write to the permits.
LEMMA PilotWriters ==
    ASSUME [Next]_vars, pilot' # pilot
    PROVE  \/ \E o \in Operators : FinishPrepare(o) \/ FinishActivate(o)
           \/ \E p \in Pilots : BlockPilot(p)
           \/ \E c \in Checkouts : ClaimPilot(c) \/ MarkPilot(c) \/ UndoPilot(c) \/ SettlePilotOrder(c)
  <1>1. CASE UNCHANGED vars
    BY <1>1 DEF vars
  <1>2. ASSUME NEW c \in Checkouts,
               \/ BeginPilotCheckout(c) \/ PilotIsTaken(c) \/ (\E k \in Keys : ReadCredit(c, k))
               \/ AuthorizeCredit(c) \/ CreateDraft(c) \/ DraftIsCreated(c) \/ DraftFails(c)
        PROVE  FALSE
    BY <1>2 DEF BeginPilotCheckout, PilotIsTaken, ReadCredit, AuthorizeCredit, CreateDraft,
                DraftIsCreated, DraftFails, pilotVars
  <1>3. ASSUME NEW c \in Checkouts,
               Accept(c) \/ UndoEvidence(c) \/ UndoCredit(c) \/ ReleaseCredit(c) \/ Crash(c)
        PROVE  FALSE
    BY <1>3 DEF Accept, UndoEvidence, UndoCredit, ReleaseCredit, Crash, pilotVars
  <1>4. ASSUME NEW c \in Checkouts,
               \/ PayDraft(c) \/ BeginQuarantine(c) \/ FinishQuarantine(c) \/ QuarantineFails(c)
               \/ BeginCapture(c) \/ FinishCapture(c)
        PROVE  FALSE
    BY <1>4 DEF PayDraft, BeginQuarantine, FinishQuarantine, QuarantineFails, BeginCapture,
                FinishCapture, pilotVars
  <1>5. ASSUME NEW o \in Operators, NEW p \in Pilots, BeginPrepare(o, p) \/ BeginActivate(o, p)
        PROVE  FALSE
    BY <1>5 DEF BeginPrepare, BeginActivate
  <1>6. ASSUME NEW k \in Keys, LockExpires(k) PROVE FALSE
    BY <1>6 DEF LockExpires, pilotVars
  <1>7. CASE PayOut
    BY <1>7 DEF PayOut, pilotVars
  <1> QED
    BY <1>1, <1>2, <1>3, <1>4, <1>5, <1>6, <1>7 DEF Next, CheckoutStep, OrderStep, DeskStep

LEMMA PilotsStep ==
    ASSUME IInv, [Next]_vars
    PROVE  PilotsAreSound'
  <1>. PilotsAreSound
    BY TypeParts DEF IInv
  <1>1. CASE pilot' = pilot
    BY <1>1 DEF PilotsAreSound
  <1>2. ASSUME NEW o \in Operators, FinishPrepare(o), pilot' # pilot PROVE PilotsAreSound'
    <2>1. PICK p \in Pilots :
             /\ pilot' = [pilot EXCEPT ![p] = Prepared(pilot[p])] /\ pilot'[p] \in PilotRows
             /\ pilot'[p].status = "PREPARED" /\ pilot'[p].claim = None /\ pilot'[p].draft = None
      BY <1>2, FinishPrepareFacts
    <2>2. pilot'[p] = Prepared(pilot[p])
      BY <2>1 DEF PilotsAreSound
    <2> QED
      BY <2>1, <2>2, WritePilot DEF RowIsCoherent, Live
  <1>3. ASSUME NEW o \in Operators, FinishActivate(o), pilot' # pilot PROVE PilotsAreSound'
    <2>1. PICK p \in Pilots :
             /\ pilot' = [pilot EXCEPT ![p] = Revised([pilot[p] EXCEPT !.status = "ACTIVE"])]
             /\ pilot'[p] \in PilotRows /\ pilot[p].status = "PREPARED" /\ pilot'[p].status = "ACTIVE"
             /\ pilot'[p].claim = pilot[p].claim /\ pilot'[p].draft = pilot[p].draft
             /\ \A q \in Pilots \ {p} : pilot[q].status \notin Live
      BY <1>3, FinishActivateFacts DEF MovedRow
    <2>2. pilot' = [pilot EXCEPT ![p] = pilot'[p]]
      BY <2>1 DEF PilotsAreSound
    <2>3. RowIsCoherent(pilot'[p])
      BY <2>1, ReadPilot DEF RowIsCoherent
    <2> QED
      BY <2>1, <2>2, <2>3, WritePilot
  <1>4. ASSUME NEW p \in Pilots, BlockPilot(p) PROVE PilotsAreSound'
    <2>1. /\ pilot' = [pilot EXCEPT ![p] = pilot'[p]] /\ pilot'[p] \in PilotRows
          /\ pilot'[p].status = "BLOCKED"
      BY <1>4, BlockPilotFacts DEF PilotsAreSound
    <2> QED
      BY <2>1, WritePilot DEF RowIsCoherent, Live
  <1>5. ASSUME NEW c \in Checkouts, ClaimPilot(c) PROVE PilotsAreSound'
    <2>. DEFINE p == checkout[c].pilot
    <2>1. p \in Pilots
      BY <1>5, PilotOfCheckout
    <2>2. /\ pilot' = [pilot EXCEPT ![p] = pilot'[p]] /\ pilot'[p] \in PilotRows
          /\ pilot[p].status = "ACTIVE" /\ pilot'[p].status = "RESERVED" /\ pilot'[p].claim = c
          /\ pilot'[p].draft = pilot[p].draft
      BY <1>5, <2>1, ClaimPilotFacts DEF PilotsAreSound
    <2>3. RowIsCoherent(pilot'[p])
      BY <2>1, <2>2, ReadPilot, NoneIsNoCheckout DEF RowIsCoherent
    <2>4. \A q \in Pilots \ {p} : pilot[q].status \notin Live
      BY <2>1, <2>2 DEF PilotsAreSound, Live
    <2> QED
      BY <2>1, <2>2, <2>3, <2>4, WritePilot
  <1>6. ASSUME NEW c \in Checkouts, MarkPilot(c), pilot' # pilot PROVE PilotsAreSound'
    <2>. DEFINE p == checkout[c].pilot
    <2>1. p \in Pilots
      BY <1>6, PilotOfCheckout
    <2>2. /\ pilot' = [pilot EXCEPT ![p] = pilot'[p]] /\ pilot'[p] \in PilotRows
          /\ pilot[p].status = "RESERVED" /\ pilot'[p].status = "ORDER_CREATED"
          /\ pilot'[p].claim = c /\ pilot'[p].draft = c
      BY <1>6, <2>1, MarkPilotFacts DEF PilotsAreSound
    <2>3. RowIsCoherent(pilot'[p])
      BY <2>2, NoneIsNoCheckout DEF RowIsCoherent
    <2>4. \A q \in Pilots \ {p} : pilot[q].status \notin Live
      BY <2>1, <2>2 DEF PilotsAreSound, Live
    <2> QED
      BY <2>1, <2>2, <2>3, <2>4, WritePilot
  <1>7. ASSUME NEW c \in Checkouts, UndoPilot(c), pilot' # pilot PROVE PilotsAreSound'
    <2>. DEFINE p == checkout[c].pilot
    <2>1. p \in Pilots
      BY <1>7, PilotOfCheckout
    <2>2. /\ pilot' = [pilot EXCEPT ![p] = pilot'[p]] /\ pilot'[p] \in PilotRows
          /\ pilot[p].status = "RESERVED" /\ pilot'[p].status = "ACTIVE"
          /\ pilot'[p].claim = None /\ pilot'[p].draft = None
      BY <1>7, <2>1, UndoPilotFacts DEF PilotsAreSound
    <2>3. RowIsCoherent(pilot'[p])
      BY <2>2 DEF RowIsCoherent
    <2>4. \A q \in Pilots \ {p} : pilot[q].status \notin Live
      BY <2>1, <2>2 DEF PilotsAreSound, Live
    <2> QED
      BY <2>1, <2>2, <2>3, <2>4, WritePilot
  <1>8. ASSUME NEW c \in Checkouts, SettlePilotOrder(c) PROVE PilotsAreSound'
    <2>1. ASSUME NEW p \in Pilots
          PROVE  /\ pilot'[p] \in PilotRows /\ RowIsCoherent(pilot'[p])
                 /\ pilot'[p].status \in Live => pilot'[p] = pilot[p]
      <3>1. CASE pilot'[p] = pilot[p]
        BY <3>1, ReadPilot
      <3>2. CASE /\ pilot[p].claim = c /\ pilot[p].status = "ORDER_CREATED"
                 /\ pilot'[p] \in PilotRows /\ pilot'[p].status = "COMPLETED"
                 /\ pilot'[p].claim = c /\ pilot'[p].draft = pilot[p].draft
        BY <3>2, ReadPilot DEF RowIsCoherent, Live
      <3> QED
        BY <1>8, <3>1, <3>2, SettledRows
    <2>2. \E rows : pilot' = [p \in Pilots |-> rows[p]]
      <3>1. pilot' = [p \in Pilots |->
                        [q \in Pilots |->
                           IF q \in {x \in Pilots : pilot[x].claim = c}
                           THEN Revised([pilot[q] EXCEPT !.status = "COMPLETED", !.order = c])
                           ELSE pilot[q]][p]]
        BY <1>8 DEF SettlePilotOrder
      <3> QED
        BY <3>1
    <2>3. pilot' \in [Pilots -> PilotRows]
      BY <2>1, <2>2
    <2>4. \A q, r \in Pilots : pilot'[q].status \in Live /\ pilot'[r].status \in Live => q = r
      BY <2>1 DEF PilotsAreSound
    <2> QED
      BY <2>1, <2>3, <2>4 DEF PilotsAreSound
  <1> QED
    BY <1>1, <1>2, <1>3, <1>4, <1>5, <1>6, <1>7, <1>8, PilotWriters

\* One checkout's record is written.
LEMMA WriteCheckout ==
    ASSUME OtherTypes, NEW c \in Checkouts, NEW r \in CheckoutRows,
           checkout' = [checkout EXCEPT ![c] = r]
    PROVE  /\ checkout' \in [Checkouts -> CheckoutRows]
           /\ \A d \in Checkouts \ {c} : checkout'[d] = checkout[d]
           /\ checkout'[c] = r
  BY DEF OtherTypes

LEMMA GoToFacts ==
    ASSUME OtherTypes, NEW c \in Checkouts, NEW s \in Steps, GoTo(c, s)
    PROVE  /\ checkout' \in [Checkouts -> CheckoutRows]
           /\ \A d \in Checkouts \ {c} : checkout'[d] = checkout[d]
           /\ checkout'[c].step = s /\ checkout'[c].pilot = checkout[c].pilot
           /\ checkout'[c].key = checkout[c].key /\ checkout'[c].created = checkout[c].created
  <1>. DEFINE r == [checkout[c] EXCEPT !.step = s]
  <1>1. checkout[c] \in CheckoutRows /\ checkout \in [Checkouts -> CheckoutRows]
    BY DEF OtherTypes
  <1>2. /\ r \in CheckoutRows /\ r.step = s /\ r.pilot = checkout[c].pilot
        /\ r.key = checkout[c].key /\ r.created = checkout[c].created
    BY <1>1 DEF CheckoutRows
  <1>3. checkout' = [checkout EXCEPT ![c] = r]
    BY <1>1 DEF GoTo, CheckoutRows
  <1>. HIDE DEF r
  <1> QED
    BY <1>2, <1>3, WriteCheckout

\* The three steps that write more than the step.
LEMMA BeginCheckoutFacts ==
    ASSUME OtherTypes, NEW c \in Checkouts, BeginPilotCheckout(c)
    PROVE  /\ checkout' \in [Checkouts -> CheckoutRows]
           /\ \A d \in Checkouts \ {c} : checkout'[d] = checkout[d]
           /\ checkout'[c].step = "claim" /\ checkout'[c].pilot \in Pilots
  <1>1. PICK p \in Pilots : checkout' = [checkout EXCEPT ![c].step = "claim", ![c].pilot = p]
    BY DEF BeginPilotCheckout
  <1>. DEFINE r == [checkout[c] EXCEPT !.step = "claim", !.pilot = p]
  <1>2. checkout[c] \in CheckoutRows /\ checkout \in [Checkouts -> CheckoutRows]
    BY DEF OtherTypes
  <1>3. r \in CheckoutRows /\ r.step = "claim" /\ r.pilot = p
    BY <1>2 DEF CheckoutRows, Steps
  <1>4. checkout' = [checkout EXCEPT ![c] = r]
    BY <1>1, <1>2 DEF CheckoutRows
  <1>. HIDE DEF r
  <1> QED
    BY <1>3, <1>4, WriteCheckout

LEMMA ReadCreditFacts ==
    ASSUME OtherTypes, NEW c \in Checkouts, NEW k \in Keys, ReadCredit(c, k)
    PROVE  /\ checkout' \in [Checkouts -> CheckoutRows]
           /\ \A d \in Checkouts \ {c} : checkout'[d] = checkout[d]
           /\ checkout'[c].key = k
           /\ checkout'[c].step = IF offset[k].status = "none" THEN "authorize" ELSE "send"
  <1>. DEFINE next == IF offset[k].status = "none" THEN "authorize" ELSE "send"
              r == [checkout[c] EXCEPT !.step = next, !.key = k]
  <1>1. checkout[c] \in CheckoutRows /\ checkout \in [Checkouts -> CheckoutRows]
    BY DEF OtherTypes
  <1>2. r \in CheckoutRows /\ r.step = next /\ r.key = k
    BY <1>1 DEF CheckoutRows, Steps
  <1>3. checkout' = [checkout EXCEPT ![c] = r]
    BY <1>1 DEF ReadCredit, CheckoutRows
  <1>. HIDE DEF r
  <1> QED
    BY <1>2, <1>3, WriteCheckout

LEMMA DraftIsCreatedFacts ==
    ASSUME OtherTypes, NEW c \in Checkouts, DraftIsCreated(c)
    PROVE  /\ checkout' \in [Checkouts -> CheckoutRows]
           /\ \A d \in Checkouts \ {c} : checkout'[d] = checkout[d]
           /\ checkout'[c].step = IF enabled THEN "mark" ELSE "accept"
           /\ checkout'[c].pilot = checkout[c].pilot /\ checkout'[c].key = checkout[c].key
  <1>. DEFINE next == IF enabled THEN "mark" ELSE "accept"
              r == [checkout[c] EXCEPT !.step = next, !.created = TRUE]
  <1>1. checkout[c] \in CheckoutRows /\ checkout \in [Checkouts -> CheckoutRows]
    BY DEF OtherTypes
  <1>2. /\ r \in CheckoutRows /\ r.step = next
        /\ r.pilot = checkout[c].pilot /\ r.key = checkout[c].key
    BY <1>1 DEF CheckoutRows, Steps
  <1>3. checkout' = [checkout EXCEPT ![c] = r]
    BY <1>1 DEF DraftIsCreated, CheckoutRows
  <1>. HIDE DEF r
  <1> QED
    BY <1>2, <1>3, WriteCheckout

LEMMA OtherTypesOfCheckout ==
    ASSUME OtherTypes, NEW c \in Checkouts, CheckoutStep(c)
    PROVE  OtherTypes'
  <1>. USE DEF OtherTypes
  <1>1. CASE BeginPilotCheckout(c)
    <2>1. PICK p \in Pilots, old \in SUBSET Stale :
            /\ checkout' = [checkout EXCEPT ![c].step = "claim", ![c].pilot = p]
            /\ evidence' = [d \in Checkouts |-> IF d \in old THEN "EXPIRED"
                                                ELSE IF d = c THEN "PREPARED"
                                                ELSE evidence[d]]
      BY <1>1 DEF BeginPilotCheckout
    <2>2. checkout' \in [Checkouts -> CheckoutRows]
      BY <1>1, BeginCheckoutFacts
    <2>3. evidence' \in [Checkouts -> {"none", "PREPARED", "FAILED", "EXPIRED", "ORDER_CAPTURED"}]
      BY <2>1
    <2> QED
      BY <1>1, <2>2, <2>3 DEF BeginPilotCheckout, pilotVars, creditVars
  <1>2. ASSUME NEW k \in Keys, ReadCredit(c, k) PROVE OtherTypes'
    <2>1. checkout' \in [Checkouts -> CheckoutRows]
      BY <1>2, ReadCreditFacts
    <2> QED
      BY <1>2, <2>1 DEF ReadCredit, pilotVars, creditVars
  <1>3. CASE ClaimPilot(c)
    BY <1>3, GoToFacts DEF ClaimPilot, creditVars, Steps
  <1>4. CASE PilotIsTaken(c)
    <2>1. checkout' \in [Checkouts -> CheckoutRows]
      BY <1>4, GoToFacts DEF PilotIsTaken, Steps
    <2> QED
      BY <1>4, <2>1 DEF PilotIsTaken, pilotVars, creditVars
  <1>5. CASE AuthorizeCredit(c)
    <2>1. checkout' \in [Checkouts -> CheckoutRows]
      BY <1>5, GoToFacts DEF AuthorizeCredit, Steps
    <2>2. offset' \in [Keys -> [status : OffsetStatuses, late : BOOLEAN]]
      BY <1>5 DEF AuthorizeCredit, OffsetStatuses
    <2>3. faults' \subseteq faults \union {"overlap"}
      BY <1>5 DEF AuthorizeCredit
    <2> QED
      BY <1>5, <2>1, <2>2, <2>3 DEF AuthorizeCredit, pilotVars
  <1>6. CASE CreateDraft(c)
    BY <1>6 DEF CreateDraft, pilotVars, creditVars
  <1>7. CASE DraftIsCreated(c)
    <2>1. checkout' \in [Checkouts -> CheckoutRows]
      BY <1>7, DraftIsCreatedFacts
    <2> QED
      BY <1>7, <2>1 DEF DraftIsCreated, pilotVars, creditVars
  <1>8. CASE DraftFails(c)
    BY <1>8, GoToFacts DEF DraftFails, pilotVars, creditVars, Steps
  <1>9. CASE MarkPilot(c)
    BY <1>9, GoToFacts DEF MarkPilot, creditVars, Steps
  <1>10. CASE Accept(c)
    BY <1>10, GoToFacts DEF Accept, pilotVars, creditVars, Steps
  <1>11. CASE UndoPilot(c)
    <2>1. checkout' \in [Checkouts -> CheckoutRows]
      BY <1>11, GoToFacts DEF UndoPilot, Steps
    <2>2. faults' \subseteq faults \union {"release"}
      BY <1>11 DEF UndoPilot
    <2> QED
      BY <1>11, <2>1, <2>2 DEF UndoPilot, creditVars
  <1>12. CASE UndoEvidence(c)
    <2>1. checkout' \in [Checkouts -> CheckoutRows]
      BY <1>12, GoToFacts DEF UndoEvidence, Steps
    <2> QED
      BY <1>12, <2>1 DEF UndoEvidence, pilotVars, creditVars
  <1>13. CASE UndoCredit(c)
    <2>1. checkout' \in [Checkouts -> CheckoutRows]
      BY <1>13, GoToFacts DEF UndoCredit, Steps
    <2> QED
      BY <1>13, <2>1 DEF UndoCredit, pilotVars, creditVars
  <1>14. CASE ReleaseCredit(c)
    <2>1. checkout' \in [Checkouts -> CheckoutRows]
      BY <1>14, GoToFacts DEF ReleaseCredit, Steps
    <2>2. offset' \in [Keys -> [status : OffsetStatuses, late : BOOLEAN]]
      BY <1>14 DEF ReleaseCredit, OffsetStatuses
    <2> QED
      BY <1>14, <2>1, <2>2 DEF ReleaseCredit, pilotVars
  <1>15. CASE Crash(c)
    BY <1>15, GoToFacts DEF Crash, pilotVars, creditVars, Steps
  <1> QED
    BY <1>1, <1>2, <1>3, <1>4, <1>5, <1>6, <1>7, <1>8, <1>9, <1>10, <1>11, <1>12, <1>13, <1>14, <1>15
    DEF CheckoutStep

LEMMA OtherTypesOfOrder ==
    ASSUME OtherTypes, NEW c \in Checkouts, OrderStep(c)
    PROVE  OtherTypes'
  <1>. USE DEF OtherTypes
  <1>1. CASE PayDraft(c)
    BY <1>1 DEF PayDraft, pilotVars, creditVars
  <1>2. CASE SettlePilotOrder(c)
    BY <1>2 DEF SettlePilotOrder, creditVars
  <1>3. CASE BeginQuarantine(c)
    BY <1>3 DEF BeginQuarantine, pilotVars, creditVars
  <1>4. CASE FinishQuarantine(c) \/ QuarantineFails(c)
    BY <1>4 DEF FinishQuarantine, QuarantineFails, pilotVars, creditVars
  <1>5. CASE BeginCapture(c)
    BY <1>5 DEF BeginCapture, pilotVars, creditVars
  <1>6. CASE FinishCapture(c)
    <2>1. offset' \in [Keys -> [status : OffsetStatuses, late : BOOLEAN]]
      BY <1>6 DEF FinishCapture, OffsetStatuses
    <2>2. order' \in [Checkouts -> {"none", "quarantining", "capturing", "settled", "refused"}]
      BY <1>6 DEF FinishCapture
    <2>3. debits' \in [Keys -> 0..1] /\ faults' \subseteq faults \union {"capture"}
      BY <1>6 DEF FinishCapture
    <2> QED
      BY <1>6, <2>1, <2>2, <2>3 DEF FinishCapture, pilotVars
  <1> QED
    BY <1>1, <1>2, <1>3, <1>4, <1>5, <1>6 DEF OrderStep

LEMMA OtherTypesOfDesk ==
    ASSUME PilotsAreSound, OtherTypes, NEW o \in Operators, DeskStep(o)
    PROVE  OtherTypes'
  <1>. USE DEF OtherTypes
  <1>1. ASSUME NEW p \in Pilots, BeginPrepare(o, p) \/ BeginActivate(o, p) PROVE OtherTypes'
    <2>1. pilot[p].revision \in Nat
      BY ReadPilot
    <2>2. desk' \in [Operators -> [job : {"idle", "prepare", "activate"},
                                   pilot : Pilots \union {None}, revision : Nat]]
      BY <1>1, <2>1 DEF BeginPrepare, BeginActivate
    <2> QED
      BY <1>1, <2>2 DEF BeginPrepare, BeginActivate, creditVars
  <1>2. CASE FinishPrepare(o) \/ FinishActivate(o)
    <2>1. desk' = [desk EXCEPT ![o] = Idle] /\ faults' \subseteq faults \union {"prepare", "permit"}
      BY <1>2 DEF FinishPrepare, FinishActivate
    <2>2. desk' \in [Operators -> [job : {"idle", "prepare", "activate"},
                                   pilot : Pilots \union {None}, revision : Nat]]
      BY <2>1 DEF Idle
    <2> QED
      BY <1>2, <2>1, <2>2 DEF FinishPrepare, FinishActivate, creditVars
  <1> QED
    BY <1>1, <1>2 DEF DeskStep

LEMMA TypeStep ==
    ASSUME IInv, [Next]_vars
    PROVE  TypeOK'
  <1>. PilotsAreSound /\ OtherTypes
    BY TypeParts DEF IInv
  <1>1. OtherTypes'
    <2>1. CASE UNCHANGED vars
      BY <2>1 DEF vars, OtherTypes
    <2>2. ASSUME NEW p \in Pilots, BlockPilot(p) PROVE OtherTypes'
      BY <2>2 DEF BlockPilot, creditVars, OtherTypes
    <2>3. ASSUME NEW k \in Keys, LockExpires(k) PROVE OtherTypes'
      BY <2>3 DEF LockExpires, pilotVars, OtherTypes
    <2>4. CASE PayOut
      BY <2>4 DEF PayOut, pilotVars, OtherTypes
    <2> QED
      BY <2>1, <2>2, <2>3, <2>4, OtherTypesOfCheckout, OtherTypesOfOrder, OtherTypesOfDesk DEF Next
  <1> QED
    <2>1. PilotsAreSound'
      BY PilotsStep
    <2> QED
      BY <1>1, <2>1, TypeParts, PTL

-----------------------------------------------------------------------------
(* What a step does to the checkouts and to the history.                   *)

LEMMA HistoryGrows ==
    ASSUME [Next]_vars
    PROVE  enabled' = enabled /\ faults \subseteq faults'
  <1>1. CASE UNCHANGED vars
    BY <1>1 DEF vars
  <1>2. ASSUME NEW c \in Checkouts,
               \/ BeginPilotCheckout(c) \/ ClaimPilot(c) \/ PilotIsTaken(c)
               \/ (\E k \in Keys : ReadCredit(c, k))
               \/ AuthorizeCredit(c) \/ CreateDraft(c) \/ DraftIsCreated(c) \/ DraftFails(c)
        PROVE  enabled' = enabled /\ faults \subseteq faults'
    BY <1>2 DEF BeginPilotCheckout, ClaimPilot, PilotIsTaken, ReadCredit, AuthorizeCredit, CreateDraft,
                DraftIsCreated, DraftFails
  <1>3. ASSUME NEW c \in Checkouts,
               \/ MarkPilot(c) \/ Accept(c) \/ UndoPilot(c) \/ UndoEvidence(c) \/ UndoCredit(c)
               \/ ReleaseCredit(c) \/ Crash(c)
        PROVE  enabled' = enabled /\ faults \subseteq faults'
    BY <1>3 DEF MarkPilot, Accept, UndoPilot, UndoEvidence, UndoCredit, ReleaseCredit, Crash
  <1>4. ASSUME NEW c \in Checkouts, OrderStep(c)
        PROVE  enabled' = enabled /\ faults \subseteq faults'
    BY <1>4 DEF OrderStep, PayDraft, SettlePilotOrder, BeginQuarantine, FinishQuarantine,
                QuarantineFails, BeginCapture, FinishCapture
  <1>5. ASSUME NEW o \in Operators, DeskStep(o)
        PROVE  enabled' = enabled /\ faults \subseteq faults'
    BY <1>5 DEF DeskStep, BeginPrepare, BeginActivate, FinishPrepare, FinishActivate
  <1>6. ASSUME NEW p \in Pilots, BlockPilot(p) PROVE enabled' = enabled /\ faults \subseteq faults'
    BY <1>6 DEF BlockPilot
  <1>7. ASSUME NEW k \in Keys, LockExpires(k) PROVE enabled' = enabled /\ faults \subseteq faults'
    BY <1>7 DEF LockExpires
  <1>8. CASE PayOut
    BY <1>8 DEF PayOut
  <1> QED
    BY <1>1, <1>2, <1>3, <1>4, <1>5, <1>6, <1>7, <1>8 DEF Next, CheckoutStep

\* The moves of one checkout.
Moves(c) ==
    LET s == checkout[c].step
        t == checkout'[c].step IN
    \/ checkout'[c] = checkout[c]
    \/ s = "idle" /\ t = "claim" /\ enabled /\ checkout'[c].pilot \in Pilots
    \/ s = "idle" /\ t = "authorize" /\ ~enabled /\ checkout'[c].key \in Keys
    \/ /\ s = "idle" /\ t = "send" /\ ~enabled /\ checkout'[c].key \in Keys
       /\ offset' = offset /\ offset[checkout'[c].key].status = "authorized"
    \/ s = "claim" /\ t = "send" /\ ClaimPilot(c)
    \/ /\ s = "authorize" /\ t = "send"
       /\ checkout[c].key \in Keys => offset'[checkout[c].key].status = "authorized"
    \/ s = "send" /\ t = IF enabled THEN "mark" ELSE "accept"
    \/ s = "mark" /\ t = "accept" /\ MarkPilot(c) /\ pilot' # pilot
    \/ s = "accept" /\ t = "done"
    \/ s \in {"send", "mark", "accept"} /\ t = "undo"
    \/ s = "undo" /\ t = "undoEvidence" /\ enabled
    \/ s = "undo" /\ t = "undoCredit" /\ ~enabled
    \/ s # "idle" /\ t = "ended"

MovesAlone(c) ==
    /\ \A d \in Checkouts \ {c} : checkout'[d] = checkout[d]
    /\ checkout[c].step \notin {"done", "ended"}
    /\ checkout[c].step # "idle" =>
         checkout'[c].pilot = checkout[c].pilot /\ checkout'[c].key = checkout[c].key
    /\ Moves(c)

LEMMA CheckoutMoves ==
    ASSUME IInv, NEW c \in Checkouts, CheckoutStep(c)
    PROVE  MovesAlone(c)
  <1>. OtherTypes /\ PilotsAreSound
    BY TypeParts DEF IInv
  <1>1. CASE BeginPilotCheckout(c)
    BY <1>1, BeginCheckoutFacts DEF BeginPilotCheckout, MovesAlone, Moves
  <1>2. ASSUME NEW k \in Keys, ReadCredit(c, k) PROVE MovesAlone(c)
    <2>1. /\ \A d \in Checkouts \ {c} : checkout'[d] = checkout[d]
          /\ checkout'[c].key = k
          /\ checkout'[c].step = IF offset[k].status = "none" THEN "authorize" ELSE "send"
      BY <1>2, ReadCreditFacts
    <2>2. /\ ~enabled /\ checkout[c].step = "idle" /\ offset' = offset
          /\ offset[k].status \in {"authorized", "none"}
      BY <1>2 DEF ReadCredit, creditVars
    <2> QED
      BY <2>1, <2>2 DEF MovesAlone, Moves
  <1>3. CASE ClaimPilot(c)
    <2>1. GoTo(c, "send") /\ "send" \in Steps /\ checkout[c].step = "claim"
      BY <1>3 DEF ClaimPilot, Steps
    <2> QED
      BY <1>3, <2>1, GoToFacts DEF MovesAlone, Moves
  <1>4. CASE PilotIsTaken(c)
    <2>1. GoTo(c, "ended") /\ "ended" \in Steps /\ checkout[c].step = "claim"
      BY <1>4 DEF PilotIsTaken, Steps
    <2> QED
      BY <2>1, GoToFacts DEF MovesAlone, Moves
  <1>5. CASE AuthorizeCredit(c)
    <2>1. "send" \in Steps /\ "ended" \in Steps /\ checkout[c].step = "authorize"
      BY <1>5 DEF AuthorizeCredit, Steps
    <2>2. CASE GoTo(c, "ended")
      BY <2>1, <2>2, GoToFacts DEF MovesAlone, Moves
    <2>3. CASE GoTo(c, "send") /\ offset' = [offset EXCEPT ![checkout[c].key].status = "authorized"]
      <3>1. checkout[c].key \in Keys => offset'[checkout[c].key].status = "authorized"
        BY <2>3 DEF OtherTypes
      <3> QED
        BY <2>1, <2>3, <3>1, GoToFacts DEF MovesAlone, Moves
    <2> QED
      BY <1>5, <2>2, <2>3 DEF AuthorizeCredit
  <1>6. CASE CreateDraft(c)
    BY <1>6 DEF CreateDraft, MovesAlone, Moves
  <1>7. CASE DraftIsCreated(c)
    <2>1. checkout[c].step = "send"
      BY <1>7 DEF DraftIsCreated
    <2> QED
      BY <1>7, <2>1, DraftIsCreatedFacts DEF MovesAlone, Moves
  <1>8. CASE DraftFails(c)
    <2>1. GoTo(c, "undo") /\ "undo" \in Steps /\ checkout[c].step = "send"
      BY <1>8 DEF DraftFails, Steps
    <2> QED
      BY <2>1, GoToFacts DEF MovesAlone, Moves
  <1>9. CASE MarkPilot(c)
    <2>1. "undo" \in Steps /\ "accept" \in Steps /\ checkout[c].step = "mark"
      BY <1>9 DEF MarkPilot, Steps
    <2>2. CASE GoTo(c, "undo")
      BY <2>1, <2>2, GoToFacts DEF MovesAlone, Moves
    <2>3. CASE GoTo(c, "accept") /\ ~GoTo(c, "undo")
      <3>1. pilot' # pilot
        <4>. DEFINE p == checkout[c].pilot
        <4>1. /\ pilot' = [pilot EXCEPT ![p] = OrderedRow(pilot[p], c)] /\ pilot[p].status = "RESERVED"
          BY <1>9, <2>3 DEF MarkPilot, Claimed, OrderedRow
        <4>2. p \in Pilots
          BY <1>9, PilotOfCheckout
        <4>3. pilot[p] \in PilotRows
          BY <4>2, ReadPilot
        <4>4. OrderedRow(pilot[p], c).status = "ORDER_CREATED"
          BY <4>3, OrderedFields
        <4>5. pilot'[p] = OrderedRow(pilot[p], c)
          BY <4>1, <4>2 DEF PilotsAreSound
        <4> QED
          BY <4>1, <4>4, <4>5
      <3> QED
        BY <1>9, <2>1, <2>3, <3>1, GoToFacts DEF MovesAlone, Moves
    <2> QED
      BY <1>9, <2>2, <2>3 DEF MarkPilot
  <1>10. CASE Accept(c)
    <2>1. "undo" \in Steps /\ "done" \in Steps /\ checkout[c].step = "accept"
      BY <1>10 DEF Accept, Steps
    <2>2. CASE GoTo(c, "undo")
      BY <2>1, <2>2, GoToFacts DEF MovesAlone, Moves
    <2>3. CASE GoTo(c, "done")
      BY <2>1, <2>3, GoToFacts DEF MovesAlone, Moves
    <2> QED
      BY <1>10, <2>2, <2>3 DEF Accept
  <1>11. CASE UndoPilot(c)
    <2>1. GoTo(c, "undoEvidence") /\ "undoEvidence" \in Steps /\ checkout[c].step = "undo" /\ enabled
      BY <1>11 DEF UndoPilot, Steps
    <2> QED
      BY <2>1, GoToFacts DEF MovesAlone, Moves
  <1>12. CASE UndoEvidence(c) \/ ReleaseCredit(c)
    <2>1. GoTo(c, "ended") /\ "ended" \in Steps /\ checkout[c].step \in {"undoEvidence", "undoCredit"}
      BY <1>12 DEF UndoEvidence, ReleaseCredit, Steps
    <2> QED
      BY <2>1, GoToFacts DEF MovesAlone, Moves
  <1>13. CASE UndoCredit(c)
    <2>1. /\ GoTo(c, "undoCredit") \/ GoTo(c, "ended")
          /\ "ended" \in Steps /\ "undoCredit" \in Steps /\ checkout[c].step = "undo" /\ ~enabled
      BY <1>13 DEF UndoCredit, Steps
    <2>2. CASE GoTo(c, "undoCredit")
      BY <2>1, <2>2, GoToFacts DEF MovesAlone, Moves
    <2>3. CASE GoTo(c, "ended")
      BY <2>1, <2>3, GoToFacts DEF MovesAlone, Moves
    <2> QED
      BY <2>1, <2>2, <2>3
  <1>14. CASE Crash(c)
    <2>1. /\ GoTo(c, "ended") /\ "ended" \in Steps
          /\ checkout[c].step \notin {"idle", "done", "ended"}
      BY <1>14 DEF Crash, Over, Steps
    <2> QED
      BY <2>1, GoToFacts DEF MovesAlone, Moves
  <1> QED
    BY <1>1, <1>2, <1>3, <1>4, <1>5, <1>6, <1>7, <1>8, <1>9, <1>10, <1>11, <1>12, <1>13, <1>14
    DEF CheckoutStep

\* A checkout moves, or none does.
LEMMA OneMoves ==
    ASSUME IInv, [Next]_vars
    PROVE  checkout' = checkout \/ \E c \in Checkouts : CheckoutStep(c) /\ MovesAlone(c)
  <1>1. CASE UNCHANGED vars
    BY <1>1 DEF vars
  <1>2. ASSUME NEW c \in Checkouts, OrderStep(c) PROVE checkout' = checkout
    BY <1>2 DEF OrderStep, PayDraft, SettlePilotOrder, BeginQuarantine, FinishQuarantine,
                QuarantineFails, BeginCapture, FinishCapture
  <1>3. ASSUME NEW o \in Operators, DeskStep(o) PROVE checkout' = checkout
    BY <1>3 DEF DeskStep, BeginPrepare, BeginActivate, FinishPrepare, FinishActivate
  <1>4. ASSUME NEW p \in Pilots, BlockPilot(p) PROVE checkout' = checkout
    BY <1>4 DEF BlockPilot
  <1>5. ASSUME NEW k \in Keys, LockExpires(k) PROVE checkout' = checkout
    BY <1>5 DEF LockExpires
  <1>6. CASE PayOut
    BY <1>6 DEF PayOut
  <1> QED
    BY <1>1, <1>2, <1>3, <1>4, <1>5, <1>6, CheckoutMoves DEF Next

-----------------------------------------------------------------------------
(* The order's event and the evidence.                                     *)

OrderMoves(c) ==
    \/ order'[c] = order[c]
    \/ SettlePilotOrder(c) /\ order[c] = "none" /\ order'[c] = "settled"
    \/ enabled /\ order[c] = "none" /\ order'[c] = "quarantining"
    \/ order[c] = "quarantining" /\ order'[c] = "refused"
    \/ order[c] = "quarantining" /\ order'[c] = "none" /\ c \in faults'
    \/ ~enabled /\ order[c] \in {"none", "capturing"}

EvidenceMoves(c) ==
    \/ evidence'[c] = evidence[c]
    \/ evidence'[c] # "ORDER_CAPTURED"
    \/ order'[c] \in {"settled", "quarantining"}

LEMMA EventMoves ==
    ASSUME IInv, [Next]_vars, NEW c \in Checkouts
    PROVE  OrderMoves(c) /\ EvidenceMoves(c)
  <1>. OtherTypes
    BY TypeParts DEF IInv
  <1>. USE DEF OrderMoves, EvidenceMoves, OtherTypes
  <1>1. CASE UNCHANGED vars
    BY <1>1 DEF vars
  <1>2. ASSUME NEW d \in Checkouts, CheckoutStep(d) PROVE OrderMoves(c) /\ EvidenceMoves(c)
    <2>1. order' = order
      BY <1>2 DEF CheckoutStep, BeginPilotCheckout, ClaimPilot, PilotIsTaken, ReadCredit,
                  AuthorizeCredit, CreateDraft, DraftIsCreated, DraftFails, MarkPilot, Accept,
                  UndoPilot, UndoEvidence, UndoCredit, ReleaseCredit, Crash
    <2>2. CASE BeginPilotCheckout(d)
      <3>1. PICK old \in SUBSET Stale :
              evidence' = [e \in Checkouts |-> IF e \in old THEN "EXPIRED"
                                               ELSE IF e = d THEN "PREPARED"
                                               ELSE evidence[e]]
        BY <2>2 DEF BeginPilotCheckout
      <3> QED
        BY <2>1, <3>1
    <2>3. CASE PilotIsTaken(d) \/ UndoEvidence(d)
      <3>1. evidence' = [evidence EXCEPT ![d] = IF @ = "PREPARED" THEN "FAILED" ELSE @]
        BY <2>3 DEF PilotIsTaken, UndoEvidence
      <3> QED
        BY <2>1, <3>1
    <2>4. CASE ~(BeginPilotCheckout(d) \/ PilotIsTaken(d) \/ UndoEvidence(d))
      <3>1. evidence' = evidence
        BY <1>2, <2>4 DEF CheckoutStep, ClaimPilot, ReadCredit,
                    AuthorizeCredit, CreateDraft, DraftIsCreated, DraftFails, MarkPilot, Accept,
                    UndoPilot, UndoCredit, ReleaseCredit, Crash
      <3> QED
        BY <2>1, <3>1
    <2> QED
      BY <2>2, <2>3, <2>4
  <1>3. ASSUME NEW d \in Checkouts, OrderStep(d) PROVE OrderMoves(c) /\ EvidenceMoves(c)
    <2>1. CASE PayDraft(d)
      BY <2>1 DEF PayDraft
    <2>2. CASE SettlePilotOrder(d)
      <3>1. /\ evidence' = [evidence EXCEPT ![d] = "ORDER_CAPTURED"]
            /\ order' = [order EXCEPT ![d] = "settled"] /\ order[d] = "none"
        BY <2>2 DEF SettlePilotOrder, Unhandled
      <3> QED
        BY <2>2, <3>1
    <2>3. CASE BeginQuarantine(d)
      <3>1. /\ evidence' = [evidence EXCEPT ![d] = "ORDER_CAPTURED"]
            /\ order' = [order EXCEPT ![d] = "quarantining"] /\ order[d] = "none" /\ enabled
        BY <2>3 DEF BeginQuarantine, Unhandled
      <3> QED
        BY <3>1
    <2>4. CASE FinishQuarantine(d) \/ QuarantineFails(d)
      BY <2>4 DEF FinishQuarantine, QuarantineFails
    <2>5. CASE BeginCapture(d)
      BY <2>5 DEF BeginCapture, Unhandled
    <2>6. CASE FinishCapture(d)
      <3>1. ~enabled
        BY <2>6 DEF FinishCapture, IInv, StepsOfTheSwitch
      <3>2. /\ order[d] = "capturing" /\ evidence' = evidence
            /\ \/ order' = [order EXCEPT ![d] = "none"]
               \/ order' = [order EXCEPT ![d] = "settled"]
        BY <2>6 DEF FinishCapture
      <3> QED
        BY <3>1, <3>2
    <2> QED
      BY <1>3, <2>1, <2>2, <2>3, <2>4, <2>5, <2>6 DEF OrderStep
  <1>4. ASSUME NEW o \in Operators, DeskStep(o) PROVE OrderMoves(c) /\ EvidenceMoves(c)
    BY <1>4 DEF DeskStep, BeginPrepare, BeginActivate, FinishPrepare, FinishActivate
  <1>5. ASSUME NEW p \in Pilots, BlockPilot(p) PROVE OrderMoves(c) /\ EvidenceMoves(c)
    BY <1>5 DEF BlockPilot
  <1>6. ASSUME NEW k \in Keys, LockExpires(k) PROVE OrderMoves(c) /\ EvidenceMoves(c)
    BY <1>6 DEF LockExpires
  <1>7. CASE PayOut
    BY <1>7 DEF PayOut
  <1> QED
    BY <1>1, <1>2, <1>3, <1>4, <1>5, <1>6, <1>7 DEF Next

LEMMA StepsStep ==
    ASSUME IInv, [Next]_vars
    PROVE  StepsOfTheSwitch'
  <1>1. enabled' = enabled /\ enabled \in BOOLEAN
    BY HistoryGrows DEF IInv, TypeOK
  <1>2. ASSUME NEW c \in Checkouts, enabled PROVE order'[c] # "capturing"
    <2>1. order[c] # "capturing"
      BY <1>2 DEF IInv, StepsOfTheSwitch
    <2> QED
      BY <1>2, <2>1, EventMoves DEF OrderMoves
  <1>3. ASSUME NEW c \in Checkouts
        PROVE  /\ enabled => checkout'[c].step \notin {"authorize", "undoCredit"}
               /\ ~enabled => checkout'[c].step \notin {"claim", "mark", "undoEvidence"}
               /\ enabled /\ checkout'[c].step # "idle" => checkout'[c].pilot \in Pilots
               /\ ~enabled /\ checkout'[c].step # "idle" => checkout'[c].key \in Keys
    <2>1. /\ enabled => checkout[c].step \notin {"authorize", "undoCredit"}
          /\ ~enabled => checkout[c].step \notin {"claim", "mark", "undoEvidence"}
          /\ enabled /\ checkout[c].step # "idle" => checkout[c].pilot \in Pilots
          /\ ~enabled /\ checkout[c].step # "idle" => checkout[c].key \in Keys
      BY DEF IInv, StepsOfTheSwitch
    <2>2. CASE checkout'[c] = checkout[c]
      BY <2>1, <2>2
    <2>3. CASE MovesAlone(c)
      BY <2>1, <2>3, <1>1 DEF MovesAlone, Moves
    <2> QED
      BY <2>2, <2>3, OneMoves DEF MovesAlone
  <1> QED
    BY <1>1, <1>2, <1>3 DEF StepsOfTheSwitch

LEMMA MarkedStep ==
    ASSUME IInv, [Next]_vars
    PROVE  MarkedByItsOrder'
  <1>1. enabled' = enabled /\ faults \subseteq faults'
    BY HistoryGrows
  <1>2. ASSUME NEW c \in Checkouts, enabled, evidence'[c] = "ORDER_CAPTURED"
        PROVE  order'[c] # "none" \/ c \in faults'
    <2>1. evidence[c] = "ORDER_CAPTURED" => order[c] # "none" \/ c \in faults
      BY <1>2 DEF IInv, MarkedByItsOrder
    <2>2. order[c] # "capturing"
      BY <1>2 DEF IInv, StepsOfTheSwitch
    <2> QED
      BY <1>1, <1>2, <2>1, <2>2, EventMoves DEF OrderMoves, EvidenceMoves
  <1> QED
    BY <1>1, <1>2 DEF MarkedByItsOrder

-----------------------------------------------------------------------------
(* Whoever has the invoice has the reservation.                            *)

LEMMA PermitNamesKept ==
    ASSUME IInv, [Next]_vars, NEW c \in Checkouts, PermitNames(c)
    PROVE  "prepare" \in faults' \/ PermitNames(c)'
  <1>. PilotsAreSound
    BY TypeParts DEF IInv
  <1>1. PICK p \in Pilots : pilot[p].status \in {"ORDER_CREATED", "COMPLETED"} /\ pilot[p].draft = c
    BY DEF PermitNames
  <1>2. SUFFICES ASSUME "prepare" \notin faults'
                 PROVE  pilot'[p].status \in {"ORDER_CREATED", "COMPLETED"} /\ pilot'[p].draft = c
    BY DEF PermitNames
  <1>3. CASE pilot' = pilot
    BY <1>1, <1>3
  <1>4. ASSUME NEW o \in Operators, FinishPrepare(o), pilot' # pilot
        PROVE  pilot'[p] = pilot[p]
    <2>1. PICK q \in Pilots : Elsewhere(q) /\ Editable(pilot[q])
      BY <1>2, <1>4, FinishPrepareFacts
    <2> QED
      BY <1>1, <2>1 DEF Elsewhere, Editable
  <1>5. ASSUME NEW o \in Operators, FinishActivate(o), pilot' # pilot
        PROVE  pilot'[p] = pilot[p]
    <2>1. PICK q \in Pilots : Elsewhere(q) /\ pilot[q].status = "PREPARED"
      BY <1>5, FinishActivateFacts
    <2> QED
      BY <1>1, <2>1 DEF Elsewhere
  <1>6. ASSUME NEW q \in Pilots, BlockPilot(q) PROVE pilot'[p] = pilot[p]
    BY <1>1, <1>6, BlockPilotFacts DEF Elsewhere
  <1>7. ASSUME NEW d \in Checkouts, ClaimPilot(d) PROVE pilot'[p] = pilot[p]
    BY <1>1, <1>7, ClaimPilotFacts, PilotOfCheckout DEF Elsewhere
  <1>8. ASSUME NEW d \in Checkouts, MarkPilot(d), pilot' # pilot PROVE pilot'[p] = pilot[p]
    BY <1>1, <1>8, MarkPilotFacts, PilotOfCheckout DEF Elsewhere
  <1>9. ASSUME NEW d \in Checkouts, UndoPilot(d), pilot' # pilot PROVE pilot'[p] = pilot[p]
    BY <1>1, <1>9, UndoPilotFacts, PilotOfCheckout DEF Elsewhere
  <1>10. ASSUME NEW d \in Checkouts, SettlePilotOrder(d)
         PROVE  pilot'[p].status \in {"ORDER_CREATED", "COMPLETED"} /\ pilot'[p].draft = pilot[p].draft
    BY <1>1, <1>10, SettledRows
  <1> QED
    BY <1>1, <1>3, <1>4, <1>5, <1>6, <1>7, <1>8, <1>9, <1>10, PilotWriters

\* Only these actions write to the offsets and what is taken from the sales.
LEMMA CreditWriters ==
    ASSUME [Next]_vars
    PROVE  \/ UNCHANGED creditVars \/ PayOut
           \/ \E c \in Checkouts : AuthorizeCredit(c) \/ ReleaseCredit(c) \/ FinishCapture(c)
           \/ \E k \in Keys : LockExpires(k)
  <1>1. CASE UNCHANGED vars
    BY <1>1 DEF vars, creditVars
  <1>2. ASSUME NEW c \in Checkouts,
               \/ BeginPilotCheckout(c) \/ ClaimPilot(c) \/ PilotIsTaken(c)
               \/ (\E l \in Keys : ReadCredit(c, l))
               \/ CreateDraft(c) \/ DraftIsCreated(c) \/ DraftFails(c)
        PROVE  UNCHANGED creditVars
    BY <1>2 DEF BeginPilotCheckout, ClaimPilot, PilotIsTaken, ReadCredit, CreateDraft,
                DraftIsCreated, DraftFails
  <1>3. ASSUME NEW c \in Checkouts,
               MarkPilot(c) \/ Accept(c) \/ UndoPilot(c) \/ UndoEvidence(c) \/ UndoCredit(c) \/ Crash(c)
        PROVE  UNCHANGED creditVars
    BY <1>3 DEF MarkPilot, Accept, UndoPilot, UndoEvidence, UndoCredit, Crash
  <1>4. ASSUME NEW c \in Checkouts,
               \/ PayDraft(c) \/ SettlePilotOrder(c) \/ BeginQuarantine(c) \/ FinishQuarantine(c)
               \/ QuarantineFails(c) \/ BeginCapture(c)
        PROVE  UNCHANGED creditVars
    BY <1>4 DEF PayDraft, SettlePilotOrder, BeginQuarantine, FinishQuarantine, QuarantineFails,
                BeginCapture
  <1>5. ASSUME NEW o \in Operators, DeskStep(o) PROVE UNCHANGED creditVars
    BY <1>5 DEF DeskStep, BeginPrepare, BeginActivate, FinishPrepare, FinishActivate
  <1>6. ASSUME NEW p \in Pilots, BlockPilot(p) PROVE UNCHANGED creditVars
    BY <1>6 DEF BlockPilot
  <1> QED
    BY <1>1, <1>2, <1>3, <1>4, <1>5, <1>6 DEF Next, CheckoutStep, OrderStep

\* Only these actions write to the offsets.
LEMMA OffsetWriters ==
    ASSUME IInv, [Next]_vars, NEW k \in Keys, offset'[k] # offset[k]
    PROVE  \/ offset'[k].status \in {"authorized", "captured", "expired"}
           \/ LockExpires(k) /\ offset'[k].status = offset[k].status
           \/ \E d \in Checkouts : ReleaseCredit(d) /\ checkout[d].key = k
  <1>. /\ offset \in [Keys -> [status : OffsetStatuses, late : BOOLEAN]]
    BY DEF IInv, TypeOK
  <1>1. CASE PayOut \/ UNCHANGED creditVars
    BY <1>1 DEF PayOut, creditVars
  <1>2. ASSUME NEW c \in Checkouts, AuthorizeCredit(c) PROVE offset'[k].status = "authorized"
    <2>1. offset' = offset \/ offset' = [offset EXCEPT ![checkout[c].key].status = "authorized"]
      BY <1>2 DEF AuthorizeCredit
    <2> QED
      BY <2>1
  <1>3. ASSUME NEW c \in Checkouts, ReleaseCredit(c) PROVE checkout[c].key = k
    BY <1>3 DEF ReleaseCredit
  <1>4. ASSUME NEW c \in Checkouts, FinishCapture(c)
         PROVE  offset'[k].status \in {"captured", "expired"}
    <2>1. \/ offset' = [offset EXCEPT ![checkout[c].key].status = "captured"]
          \/ offset' = [offset EXCEPT ![checkout[c].key].status = "expired"]
      BY <1>4 DEF FinishCapture
    <2> QED
      BY <2>1
  <1>5. ASSUME NEW l \in Keys, LockExpires(l)
         PROVE  l = k /\ offset'[k].status = offset[k].status
    BY <1>5 DEF LockExpires
  <1> QED
    BY <1>1, <1>2, <1>3, <1>4, <1>5, CreditWriters

LEMMA CreditKept ==
    ASSUME IInv, [Next]_vars, NEW c \in Checkouts, CreditIsHeld(c), checkout[c].key \in Keys,
           checkout'[c].key = checkout[c].key, checkout'[c].step # "ended"
    PROVE  CreditIsHeld(c)'
  <1>. DEFINE k == checkout[c].key
  <1>. OtherTypes
    BY TypeParts DEF IInv
  <1>1. CASE offset'[k].status \in {"authorized", "captured", "expired"}
    BY <1>1 DEF CreditIsHeld
  <1>2. ASSUME NEW d \in Checkouts, ReleaseCredit(d), checkout[d].key = k
        PROVE  CreditIsHeld(c)'
    <2>1. checkout'[d].step = "ended" /\ checkout'[d].key = k
      BY <1>2, GoToFacts DEF ReleaseCredit, Steps
    <2> QED
      BY <1>2, <2>1 DEF CreditIsHeld
  <1>3. ASSUME NEW d \in Checkouts \ {c}, checkout[d].key = k, checkout[d].step = "ended"
        PROVE  CreditIsHeld(c)'
    <2>1. checkout'[d] = checkout[d]
      BY <1>3, OneMoves DEF MovesAlone
    <2> QED
      BY <1>3, <2>1 DEF CreditIsHeld
  <1> QED
    BY <1>1, <1>2, <1>3, OffsetWriters DEF CreditIsHeld

LEMMA HoldsStep ==
    ASSUME IInv, [Next]_vars
    PROVE  HoldsReservation'
  <1>. /\ enabled' = enabled /\ faults \subseteq faults' /\ enabled \in BOOLEAN
       /\ PilotsAreSound
    BY HistoryGrows, TypeParts DEF IInv, TypeOK
  <1>1. ASSUME NEW c \in Checkouts, enabled, checkout'[c].step \in {"accept", "done"}
        PROVE  "prepare" \in faults' \/ PermitNames(c)'
    <2>1. CASE checkout[c].step \in {"accept", "done"}
      BY <1>1, <2>1, PermitNamesKept DEF IInv, HoldsReservation
    <2>2. CASE MarkPilot(c) /\ pilot' # pilot
      BY <2>2, PilotOfCheckout, MarkPilotFacts DEF PermitNames
    <2> QED
      BY <1>1, <2>1, <2>2, OneMoves DEF MovesAlone, Moves
  <1>2. ASSUME NEW c \in Checkouts, ~enabled, checkout'[c].step \in {"send", "accept", "done"}
        PROVE  CreditIsHeld(c)'
    <2>1. checkout[c].step \notin {"claim", "mark"} /\ (checkout[c].step # "idle" => checkout[c].key \in Keys)
      BY <1>2 DEF IInv, StepsOfTheSwitch
    <2>2. CASE checkout[c].step \in {"send", "accept", "done"}
      <3>1. checkout'[c].key = checkout[c].key
        BY <2>2, OneMoves DEF MovesAlone
      <3> QED
        BY <1>2, <2>1, <2>2, <3>1, CreditKept DEF IInv, HoldsReservation
    <2>3. CASE offset'[checkout'[c].key].status = "authorized"
      BY <2>3 DEF CreditIsHeld
    <2>4. \/ checkout[c].step \in {"send", "accept", "done"}
          \/ offset'[checkout'[c].key].status = "authorized"
      <3>1. CASE checkout'[c] = checkout[c]
        BY <1>2, <3>1
      <3>2. CASE MovesAlone(c)
        BY <1>2, <2>1, <3>2 DEF MovesAlone, Moves
      <3> QED
        BY <3>1, <3>2, OneMoves DEF MovesAlone
    <2> QED
      BY <2>2, <2>3, <2>4
  <1> QED
    BY <1>1, <1>2 DEF HoldsReservation

-----------------------------------------------------------------------------
(* One permit is used.                                                     *)

LEMMA SoundBefore ==
    ASSUME [Next]_vars, PilotIsSound'
    PROVE  PilotIsSound /\ enabled /\ faults' \intersect {"prepare", "block", "release", "permit"} = {}
  BY HistoryGrows DEF PilotIsSound

Used == {"ACTIVE", "RESERVED", "ORDER_CREATED", "COMPLETED"}

LEMMA OnePermitStep ==
    ASSUME IInv, [Next]_vars
    PROVE  OnePermitIsUsed'
  <1>. PilotsAreSound
    BY TypeParts DEF IInv
  <1>1. SUFFICES ASSUME PilotIsSound', NEW p \in Pilots, NEW q \in Pilots, Consumed(pilot'[q]), p # q
                 PROVE  pilot'[p].status \notin Used
    BY DEF OnePermitIsUsed, Live, Used, Consumed
  <1>. /\ PilotIsSound
       /\ faults' \intersect {"prepare", "block", "release", "permit"} = {}
    BY <1>1, SoundBefore
  <1>2. \A r, t \in Pilots : Consumed(pilot[t]) /\ r # t => pilot[r].status \notin Used
    BY DEF IInv, OnePermitIsUsed, Live, Used
  <1>3. CASE pilot' = pilot
    BY <1>1, <1>2, <1>3
  <1>4. ASSUME NEW o \in Operators, FinishPrepare(o), pilot' # pilot
        PROVE  pilot'[p].status \notin Used
    <2>1. PICK r \in Pilots :
             /\ Elsewhere(r) /\ pilot'[r].status = "PREPARED" /\ pilot'[r].draft = None
             /\ pilot'[r].order = pilot[r].order
      BY <1>4, FinishPrepareFacts
    <2>2. Consumed(pilot[q])
      BY <1>1, <2>1 DEF Consumed, Elsewhere
    <2> QED
      BY <1>1, <1>2, <2>1, <2>2 DEF Used, Elsewhere
  <1>5. ASSUME NEW o \in Operators, FinishActivate(o), pilot' # pilot
        PROVE  pilot'[p].status \notin Used
    <2>1. PICK r \in Pilots :
             /\ Elsewhere(r) /\ pilot'[r].status = "ACTIVE" /\ pilot'[r].draft = pilot[r].draft
             /\ pilot'[r].order = pilot[r].order
             /\ (\E t \in Pilots : Consumed(pilot[t])) => "permit" \in faults'
      BY <1>5, FinishActivateFacts
    <2>2. Consumed(pilot[q])
      BY <1>1, <2>1 DEF Consumed, Elsewhere
    <2> QED
      BY <2>1, <2>2
  <1>6. ASSUME NEW r \in Pilots, BlockPilot(r) PROVE pilot'[p].status \notin Used
    <2>1. /\ Elsewhere(r) /\ pilot'[r].status = "BLOCKED" /\ pilot'[r].draft = pilot[r].draft
          /\ pilot'[r].order = pilot[r].order
      BY <1>6, BlockPilotFacts
    <2>2. Consumed(pilot[q])
      BY <1>1, <2>1 DEF Consumed, Elsewhere
    <2> QED
      BY <1>1, <1>2, <2>1, <2>2 DEF Used, Elsewhere
  <1>7. ASSUME NEW c \in Checkouts, ClaimPilot(c) PROVE pilot'[p].status \notin Used
    <2>. DEFINE r == checkout[c].pilot
    <2>1. /\ r \in Pilots /\ Elsewhere(r) /\ pilot[r].status = "ACTIVE"
          /\ pilot'[r].status = "RESERVED" /\ pilot'[r].draft = pilot[r].draft
          /\ pilot'[r].order = pilot[r].order
      BY <1>7, PilotOfCheckout, ClaimPilotFacts
    <2>. HIDE DEF r
    <2>2. Consumed(pilot[q])
      BY <1>1, <2>1 DEF Consumed, Elsewhere
    <2> QED
      BY <1>1, <1>2, <2>1, <2>2 DEF Used, Elsewhere
  <1>8. ASSUME NEW c \in Checkouts, MarkPilot(c), pilot' # pilot
        PROVE  pilot'[p].status \notin Used
    <2>. DEFINE r == checkout[c].pilot
    <2>1. r \in Pilots /\ Elsewhere(r) /\ pilot[r].status = "RESERVED"
      BY <1>8, PilotOfCheckout, MarkPilotFacts
    <2>. HIDE DEF r
    <2>2. CASE r = q
      <3>1. pilot[p].status \notin Live
        BY <1>1, <2>1, <2>2 DEF PilotsAreSound, Live
      <3>2. pilot[p].status # "COMPLETED"
        BY <1>1, <1>2, <2>1, <2>2 DEF Consumed, Used
      <3> QED
        BY <1>1, <2>1, <2>2, <3>1, <3>2 DEF Elsewhere, Live, Used
    <2>3. CASE r # q
      <3>1. Consumed(pilot[q])
        BY <1>1, <2>1, <2>3 DEF Elsewhere
      <3> QED
        BY <1>1, <1>2, <2>1, <3>1 DEF Used, Elsewhere
    <2> QED
      BY <2>2, <2>3
  <1>9. ASSUME NEW c \in Checkouts, UndoPilot(c), pilot' # pilot
        PROVE  pilot'[p].status \notin Used
    <2>. DEFINE r == checkout[c].pilot
    <2>1. /\ r \in Pilots /\ Elsewhere(r) /\ pilot[r].status = "RESERVED"
          /\ pilot'[r].status = "ACTIVE" /\ pilot'[r].draft = None /\ pilot'[r].order = pilot[r].order
      BY <1>9, PilotOfCheckout, UndoPilotFacts
    <2>. HIDE DEF r
    <2>2. Consumed(pilot[q])
      BY <1>1, <2>1 DEF Consumed, Elsewhere
    <2> QED
      BY <1>1, <1>2, <2>1, <2>2 DEF Used, Elsewhere
  <1>10. ASSUME NEW c \in Checkouts, SettlePilotOrder(c) PROVE pilot'[p].status \notin Used
    <2>1. Consumed(pilot[q])
      BY <1>1, <1>10, SettledRows DEF Consumed
    <2>2. pilot[p].status \notin Used
      BY <1>1, <1>2, <2>1
    <2> QED
      BY <1>10, <2>2, SettledRows DEF Used
  <1> QED
    BY <1>3, <1>4, <1>5, <1>6, <1>7, <1>8, <1>9, <1>10, PilotWriters

-----------------------------------------------------------------------------
(* Every draft has its permit.                                             *)

LEMMA ClaimKept ==
    ASSUME IInv, [Next]_vars, PilotIsSound', NEW c \in Checkouts, NEW p \in Pilots,
           pilot[p].claim = c, pilot[p].status \in {"RESERVED", "ORDER_CREATED", "COMPLETED"}
    PROVE  \/ pilot'[p] = pilot[p]
           \/ UndoPilot(c) /\ (draft[c] # "none" => "release" \in faults')
           \/ /\ MarkPilot(c) \/ pilot[p].status = "ORDER_CREATED"
              /\ pilot'[p].claim = c /\ pilot'[p].status \in {"ORDER_CREATED", "COMPLETED"}
  <1>. /\ PilotsAreSound
       /\ faults' \intersect {"prepare", "block", "release", "permit"} = {}
    BY TypeParts, SoundBefore DEF IInv
  <1>1. CASE pilot' = pilot
    BY <1>1
  <1>2. ASSUME NEW o \in Operators, FinishPrepare(o), pilot' # pilot PROVE pilot'[p] = pilot[p]
    <2>1. PICK r \in Pilots : Elsewhere(r) /\ (Editable(pilot[r]) \/ "prepare" \in faults')
      BY <1>2, FinishPrepareFacts
    <2> QED
      BY <2>1 DEF Editable, Elsewhere
  <1>3. ASSUME NEW o \in Operators, FinishActivate(o), pilot' # pilot PROVE pilot'[p] = pilot[p]
    <2>1. PICK r \in Pilots : Elsewhere(r) /\ pilot[r].status = "PREPARED"
      BY <1>3, FinishActivateFacts
    <2> QED
      BY <2>1 DEF Elsewhere
  <1>4. ASSUME NEW r \in Pilots, BlockPilot(r) PROVE pilot'[p] = pilot[p]
    <2>1. /\ Elsewhere(r)
          /\ pilot[r].status \in {"PREPARED", "ACTIVE"} \/ "block" \in faults'
      BY <1>4, BlockPilotFacts
    <2> QED
      BY <2>1 DEF Elsewhere
  <1>5. ASSUME NEW d \in Checkouts, ClaimPilot(d) PROVE pilot'[p] = pilot[p]
    <2>1. Elsewhere(checkout[d].pilot) /\ pilot[checkout[d].pilot].status = "ACTIVE"
      BY <1>5, PilotOfCheckout, ClaimPilotFacts
    <2> QED
      BY <2>1 DEF Elsewhere
  <1>6. ASSUME NEW d \in Checkouts, MarkPilot(d), pilot' # pilot
        PROVE  \/ pilot'[p] = pilot[p]
               \/ d = c /\ pilot'[p].claim = c /\ pilot'[p].status = "ORDER_CREATED"
    <2>1. /\ Elsewhere(checkout[d].pilot) /\ pilot[checkout[d].pilot].claim = d
          /\ pilot'[checkout[d].pilot].status = "ORDER_CREATED"
          /\ pilot'[checkout[d].pilot].claim = d
      BY <1>6, PilotOfCheckout, MarkPilotFacts
    <2> QED
      BY <2>1 DEF Elsewhere
  <1>7. ASSUME NEW d \in Checkouts, UndoPilot(d), pilot' # pilot
        PROVE  \/ pilot'[p] = pilot[p]
               \/ d = c /\ (draft[c] # "none" => "release" \in faults')
    <2>1. /\ Elsewhere(checkout[d].pilot) /\ pilot[checkout[d].pilot].claim = d
          /\ draft[d] # "none" => "release" \in faults'
      BY <1>7, PilotOfCheckout, UndoPilotFacts
    <2> QED
      BY <2>1 DEF Elsewhere
  <1>8. ASSUME NEW d \in Checkouts, SettlePilotOrder(d)
        PROVE  \/ pilot'[p] = pilot[p]
               \/ /\ pilot[p].status = "ORDER_CREATED"
                  /\ pilot'[p].claim = c /\ pilot'[p].status = "COMPLETED"
    BY <1>8, SettledRows
  <1> QED
    BY <1>1, <1>2, <1>3, <1>4, <1>5, <1>6, <1>7, <1>8, PilotWriters

LEMMA NewDraft ==
    ASSUME IInv, [Next]_vars, NEW c \in Checkouts, draft[c] = "none", draft'[c] # "none"
    PROVE  CreateDraft(c)
  <1>. draft \in [Checkouts -> {"none", "open", "paid", "paidLate"}]
    BY DEF IInv, TypeOK
  <1>1. CASE UNCHANGED vars
    BY <1>1 DEF vars
  <1>2. ASSUME NEW d \in Checkouts, CheckoutStep(d) PROVE CreateDraft(c)
    <2>1. CASE CreateDraft(d)
      BY <2>1 DEF CreateDraft
    <2> QED
      BY <1>2, <2>1 DEF CheckoutStep, BeginPilotCheckout, ClaimPilot, PilotIsTaken, ReadCredit,
                  AuthorizeCredit, DraftIsCreated, DraftFails, MarkPilot, Accept,
                  UndoPilot, UndoEvidence, UndoCredit, ReleaseCredit, Crash
  <1>3. ASSUME NEW d \in Checkouts, OrderStep(d) PROVE FALSE
    BY <1>3 DEF OrderStep, PayDraft, SettlePilotOrder, BeginQuarantine, FinishQuarantine,
                QuarantineFails, BeginCapture, FinishCapture
  <1>4. ASSUME NEW o \in Operators, DeskStep(o) PROVE FALSE
    BY <1>4 DEF DeskStep, BeginPrepare, BeginActivate, FinishPrepare, FinishActivate
  <1>5. ASSUME NEW p \in Pilots, BlockPilot(p) PROVE FALSE
    BY <1>5 DEF BlockPilot
  <1>6. ASSUME NEW k \in Keys, LockExpires(k) PROVE FALSE
    BY <1>6 DEF LockExpires
  <1>7. CASE PayOut
    BY <1>7 DEF PayOut
  <1> QED
    BY <1>1, <1>2, <1>3, <1>4, <1>5, <1>6, <1>7 DEF Next

LEMMA DraftsStep ==
    ASSUME IInv, [Next]_vars
    PROVE  DraftsHaveTheirPermit'
  <1>1. SUFFICES ASSUME PilotIsSound', NEW c \in Checkouts
                 PROVE  /\ checkout'[c].step = "send" => Claimed(pilot'[checkout'[c].pilot], c)
                        /\ draft'[c] # "none" => HasItsPermit(c)'
    BY DEF DraftsHaveTheirPermit, Claimed
  <1>. /\ PilotIsSound /\ enabled /\ PilotsAreSound
       /\ faults' \intersect {"prepare", "block", "release", "permit"} = {}
    BY <1>1, SoundBefore, TypeParts DEF IInv
  <1>2. checkout[c].step = "send" => checkout[c].pilot \in Pilots /\ Claimed(pilot[checkout[c].pilot], c)
    BY DEF IInv, StepsOfTheSwitch, DraftsHaveTheirPermit
  <1>3. checkout'[c].step = "send" => Claimed(pilot'[checkout'[c].pilot], c)
    <2>1. CASE checkout'[c] = checkout[c] /\ checkout[c].step = "send"
      <3>. DEFINE p == checkout[c].pilot
      <3>1. p \in Pilots /\ pilot[p].status = "RESERVED" /\ pilot[p].claim = c
        BY <1>2, <2>1 DEF Claimed
      <3>2. ~MarkPilot(c) /\ ~UndoPilot(c)
        BY <2>1 DEF MarkPilot, UndoPilot
      <3>3. pilot'[p] = pilot[p]
        BY <1>1, <3>1, <3>2, ClaimKept
      <3> QED
        BY <2>1, <3>1, <3>3 DEF Claimed
    <2>2. CASE ClaimPilot(c) /\ MovesAlone(c)
      <3>1. checkout[c].step = "claim" /\ checkout[c].pilot \in Pilots
        BY <2>2, PilotOfCheckout DEF ClaimPilot
      <3>2. checkout'[c].pilot = checkout[c].pilot
        BY <2>2, <3>1 DEF MovesAlone
      <3>3. pilot'[checkout[c].pilot].status = "RESERVED" /\ pilot'[checkout[c].pilot].claim = c
        BY <2>2, <3>1, ClaimPilotFacts
      <3> QED
        BY <3>2, <3>3 DEF Claimed
    <2>3. checkout[c].step # "authorize"
      BY DEF IInv, StepsOfTheSwitch
    <2>4. checkout'[c] = checkout[c] \/ MovesAlone(c)
      BY OneMoves DEF MovesAlone
    <2> QED
      BY <2>1, <2>2, <2>3, <2>4 DEF MovesAlone, Moves
  <1>4. ASSUME draft'[c] # "none" PROVE HasItsPermit(c)'
    <2>1. CASE draft[c] # "none"
      <3>1. PICK p \in Pilots : /\ pilot[p].claim = c
                                /\ pilot[p].status \in {"RESERVED", "ORDER_CREATED", "COMPLETED"}
        BY <2>1 DEF IInv, DraftsHaveTheirPermit, HasItsPermit
      <3>2. /\ pilot'[p].claim = c
            /\ pilot'[p].status \in {"RESERVED", "ORDER_CREATED", "COMPLETED"}
        BY <1>1, <2>1, <3>1, ClaimKept
      <3> QED
        BY <3>2 DEF HasItsPermit
    <2>2. CASE draft[c] = "none"
      <3>1. CreateDraft(c)
        BY <1>4, <2>2, NewDraft
      <3>2. checkout[c].step = "send" /\ pilot' = pilot
        BY <3>1 DEF CreateDraft, pilotVars
      <3> QED
        BY <1>2, <3>2 DEF HasItsPermit, Claimed
    <2> QED
      BY <2>1, <2>2
  <1> QED
    BY <1>3, <1>4

-----------------------------------------------------------------------------
(* Credit is covered.                                                      *)

DebitedKeys == {k \in Keys : debits[k] > 0}
LockedKeys == {k \in Keys : offset[k].status = "authorized" /\ ~offset[k].late}

LEMMA Counts ==
    /\ Debited = Cardinality(DebitedKeys) /\ Locked = Cardinality(LockedKeys)
    /\ Debited' = Cardinality(DebitedKeys') /\ Locked' = Cardinality(LockedKeys')
    /\ DebitedKeys \subseteq Keys /\ LockedKeys \subseteq Keys
    /\ DebitedKeys' \subseteq Keys /\ LockedKeys' \subseteq Keys
  BY DEF Debited, Locked, DebitedKeys, LockedKeys

LEMMA CountOf ==
    ASSUME NEW S, NEW T, S \subseteq Keys, T \subseteq Keys
    PROVE  /\ Cardinality(S) \in Nat /\ IsFiniteSet(S)
           /\ S \subseteq T => Cardinality(S) <= Cardinality(T)
           /\ \A x : S \subseteq T \union {x} => Cardinality(S) <= Cardinality(T) + 1
           /\ \A x \in T : S \subseteq T \ {x} => Cardinality(S) + 1 <= Cardinality(T)
  <1>1. IsFiniteSet(S) /\ IsFiniteSet(T)
    BY KeysAreFinite, FS_Subset
  <1>2. Cardinality(S) \in Nat /\ Cardinality(T) \in Nat
    BY <1>1, FS_CardinalityType
  <1>3. ASSUME S \subseteq T PROVE Cardinality(S) <= Cardinality(T)
    BY <1>1, <1>3, FS_Subset
  <1>4. ASSUME NEW x, S \subseteq T \union {x} PROVE Cardinality(S) <= Cardinality(T) + 1
    <2>1. IsFiniteSet(T \union {x}) /\ Cardinality(T \union {x}) \in {Cardinality(T), Cardinality(T) + 1}
      BY <1>1, FS_AddElement
    <2>2. Cardinality(S) <= Cardinality(T \union {x})
      BY <1>4, <2>1, FS_Subset
    <2> QED
      BY <1>2, <2>1, <2>2
  <1>5. ASSUME NEW x \in T, S \subseteq T \ {x} PROVE Cardinality(S) + 1 <= Cardinality(T)
    <2>1. IsFiniteSet(T \ {x}) /\ Cardinality(T \ {x}) = Cardinality(T) - 1
      BY <1>1, FS_RemoveElement
    <2>2. Cardinality(S) <= Cardinality(T \ {x})
      BY <1>5, <2>1, FS_Subset
    <2> QED
      BY <1>2, <2>1, <2>2
  <1> QED
    BY <1>1, <1>2, <1>3, <1>4, <1>5

LEMMA Sums ==
    ASSUME NEW d \in Nat, NEW l \in Nat, NEW o \in Nat, NEW d2 \in Nat, NEW l2 \in Nat, NEW n \in Nat
    PROVE  /\ d + l + o <= n /\ d2 = d /\ l2 <= l => d2 + l2 + o <= n
           /\ d + l + o + 1 <= n /\ d2 = d /\ l2 <= l + 1 => d2 + l2 + o <= n
           /\ d + l + o <= n /\ l2 + 1 <= l /\ d2 <= d + 1 => d2 + l2 + o <= n
  OBVIOUS

LEMMA LocksStep ==
    ASSUME IInv, [Next]_vars
    PROVE  LocksAreCovered'
  <1>. OtherTypes
    BY TypeParts DEF IInv
  <1>1. SUFFICES ASSUME CreditIsSound' PROVE Debited' + Locked' + paidOut' <= Balance
    BY DEF LocksAreCovered
  <1>2. faults' \intersect {"overlap", "payout", "capture"} = {} /\ CreditIsSound
    BY <1>1, HistoryGrows DEF CreditIsSound
  <1>3. Debited + Locked + paidOut <= Balance
    BY <1>2 DEF IInv, LocksAreCovered
  <1>4. /\ Debited \in Nat /\ Locked \in Nat /\ Debited' \in Nat /\ Locked' \in Nat
        /\ paidOut \in Nat /\ Balance \in Nat
    BY Counts, CountOf, BalanceIsNat DEF OtherTypes
  <1>5. CASE UNCHANGED creditVars
    <2>1. Debited' = Debited /\ Locked' = Locked /\ paidOut' = paidOut
      BY <1>5 DEF creditVars, Debited, Locked
    <2> QED
      BY <1>3, <2>1
  <1>6. CASE debits' = debits /\ paidOut' = paidOut /\ LockedKeys' \subseteq LockedKeys
    <2>1. Debited' = Debited
      BY <1>6 DEF Debited
    <2>2. Locked' <= Locked
      BY <1>6, Counts, CountOf
    <2> QED
      BY Sums, <1>3, <1>4, <1>6, <2>1, <2>2
  <1>7. ASSUME NEW c \in Checkouts, AuthorizeCredit(c)
        PROVE  Debited' + Locked' + paidOut' <= Balance
    <2>. DEFINE k == checkout[c].key
    <2>1. debits' = debits /\ paidOut' = paidOut /\ Debited' = Debited
      BY <1>7 DEF AuthorizeCredit, Debited
    <2>2. CASE offset[k].status = "none"
      <3>1. offset' = [offset EXCEPT ![k].status = "authorized"] /\ Available(1)
        BY <1>2, <1>7, <2>2 DEF AuthorizeCredit
      <3>2. LockedKeys' \subseteq LockedKeys \union {k}
        BY <3>1 DEF LockedKeys, OtherTypes
      <3>3. Locked' <= Locked + 1
        BY <3>2, Counts, CountOf
      <3>4. Debited + Locked + paidOut + 1 <= Balance
        BY <3>1 DEF Available
      <3> QED
        BY Sums, <1>4, <2>1, <3>3, <3>4
    <2>3. CASE offset[k].status # "none"
      <3>1. offset' = offset
        BY <1>7, <2>3 DEF AuthorizeCredit
      <3> QED
        BY <1>5, <2>1, <3>1 DEF creditVars
    <2> QED
      BY <2>2, <2>3
  <1>8. CASE PayOut
    <2>1. /\ offset' = offset /\ debits' = debits /\ paidOut' = paidOut + 1 /\ Available(1)
      BY <1>2, <1>8 DEF PayOut
    <2>2. Debited' = Debited /\ Locked' = Locked /\ Debited + Locked + paidOut + 1 <= Balance
      BY <2>1 DEF Debited, Locked, Available
    <2> QED
      BY <1>4, <2>1, <2>2
  <1>9. ASSUME NEW c \in Checkouts, ReleaseCredit(c)
        PROVE  Debited' + Locked' + paidOut' <= Balance
    <2>1. /\ debits' = debits /\ paidOut' = paidOut
          /\ offset' = [offset EXCEPT ![checkout[c].key].status = "released"]
      BY <1>9 DEF ReleaseCredit
    <2>2. LockedKeys' \subseteq LockedKeys
      BY <2>1 DEF LockedKeys, OtherTypes
    <2> QED
      BY <1>6, <2>1, <2>2
  <1>10. ASSUME NEW k \in Keys, LockExpires(k)
         PROVE  Debited' + Locked' + paidOut' <= Balance
    <2>1. /\ debits' = debits /\ paidOut' = paidOut
          /\ offset' = [offset EXCEPT ![k].late = TRUE]
      BY <1>10 DEF LockExpires
    <2>2. LockedKeys' \subseteq LockedKeys
      BY <2>1 DEF LockedKeys, OtherTypes
    <2> QED
      BY <1>6, <2>1, <2>2
  <1>11. ASSUME NEW c \in Checkouts, FinishCapture(c)
         PROVE  Debited' + Locked' + paidOut' <= Balance
    <2>. DEFINE k == checkout[c].key
    <2>1. paidOut' = paidOut
      BY <1>11 DEF FinishCapture
    <2>2. CASE draft[c] = "paidLate"
      <3>1. debits' = debits /\ offset' = [offset EXCEPT ![k].status = "expired"]
        BY <1>11, <2>2 DEF FinishCapture
      <3>2. LockedKeys' \subseteq LockedKeys
        BY <3>1 DEF LockedKeys, OtherTypes
      <3> QED
        BY <1>6, <2>1, <3>1, <3>2
    <2>3. CASE draft[c] # "paidLate"
      <3>1. /\ offset' = [offset EXCEPT ![k].status = "captured"]
            /\ debits' = [debits EXCEPT ![k] = 1]
            /\ offset[k].status = "authorized" /\ ~offset[k].late
        BY <1>2, <1>11, <2>3 DEF FinishCapture
      <3>2. CASE k \in Keys
        <4>1. k \in LockedKeys /\ LockedKeys' \subseteq LockedKeys \ {k}
          BY <3>1, <3>2 DEF LockedKeys, OtherTypes
        <4>2. DebitedKeys' \subseteq DebitedKeys \union {k}
          BY <3>1 DEF DebitedKeys, OtherTypes
        <4>3. Locked' + 1 <= Locked /\ Debited' <= Debited + 1
          BY <4>1, <4>2, Counts, CountOf
        <4> QED
          BY Sums, <1>3, <1>4, <2>1, <4>3
      <3>3. CASE k \notin Keys
        <4>1. offset' = offset /\ debits' = debits
          BY <3>1, <3>3 DEF OtherTypes
        <4> QED
          BY <1>5, <2>1, <4>1 DEF creditVars
      <3> QED
        BY <3>2, <3>3
    <2> QED
      BY <2>2, <2>3
  <1>12. \/ UNCHANGED creditVars \/ PayOut
         \/ \E c \in Checkouts : AuthorizeCredit(c) \/ ReleaseCredit(c) \/ FinishCapture(c)
         \/ \E k \in Keys : LockExpires(k)
    BY CreditWriters
  <1> QED
    BY <1>5, <1>7, <1>8, <1>9, <1>10, <1>11, <1>12

-----------------------------------------------------------------------------
(* The invariant.                                                          *)

LEMMA InitIInv == ASSUME Init PROVE IInv
  <1>. USE DEF Init
  <1>1. TypeOK
    <2>1. PilotsAreSound
      BY DEF PilotsAreSound, NoPilot, PilotRows, PilotStatuses, RowIsCoherent, Live
    <2>2. OtherTypes
      BY DEF OtherTypes, Idle, Begun, CheckoutRows, Steps, NoOffset, OffsetStatuses
    <2> QED
      BY <2>1, <2>2, TypeParts
  <1>2. StepsOfTheSwitch /\ MarkedByItsOrder /\ HoldsReservation
    BY DEF StepsOfTheSwitch, MarkedByItsOrder, HoldsReservation, Begun
  <1>3. OnePermitIsUsed
    BY DEF OnePermitIsUsed, NoPilot, Live
  <1>4. DraftsHaveTheirPermit
    BY DEF DraftsHaveTheirPermit, Begun
  <1>5. LocksAreCovered
    <2>1. DebitedKeys = {} /\ LockedKeys = {}
      BY DEF DebitedKeys, LockedKeys, NoOffset
    <2>2. Debited = 0 /\ Locked = 0
      BY <2>1, Counts, FS_EmptySet
    <2> QED
      BY <2>2, BalanceIsNat DEF LocksAreCovered
  <1> QED
    BY <1>1, <1>2, <1>3, <1>4, <1>5 DEF IInv

LEMMA NextIInv == ASSUME IInv, [Next]_vars PROVE IInv'
  BY TypeStep, StepsStep, MarkedStep, HoldsStep, OnePermitStep, DraftsStep, LocksStep DEF IInv

\* The invariant that the theorems below follow from.
THEOREM Invariance == Spec => []IInv
  BY InitIInv, NextIInv, PTL DEF Spec

\* Rows of permits make sense, and at most one permit is live, whatever the
\* admin page and the checkouts interleave to.
THEOREM TypeCorrect == Spec => []TypeOK
  <1>1. IInv => TypeOK
    BY DEF IInv
  <1> QED
    BY <1>1, Invariance, PTL

\* Apart from the four named ways, the pilot has one draft order, through all
\* its permits: each draft has a permit of its own, a permit with its order
\* leaves no other live, and no two are live.
THEOREM TheSlotSellsOnce == Spec => []PilotSellsOnce
  <1>1. ASSUME IInv PROVE PilotSellsOnce
    <2>1. SUFFICES ASSUME PilotIsSound, NEW c \in Checkouts, NEW d \in Checkouts,
                          draft[c] # "none", draft[d] # "none"
                   PROVE  c = d
      BY DEF PilotSellsOnce, PilotIsSound
    <2>2. PICK p \in Pilots : /\ pilot[p].claim = c
                              /\ pilot[p].status \in {"RESERVED", "ORDER_CREATED", "COMPLETED"}
      BY <1>1, <2>1 DEF IInv, DraftsHaveTheirPermit, HasItsPermit
    <2>3. PICK q \in Pilots : /\ pilot[q].claim = d
                              /\ pilot[q].status \in {"RESERVED", "ORDER_CREATED", "COMPLETED"}
      BY <1>1, <2>1 DEF IInv, DraftsHaveTheirPermit, HasItsPermit
    <2>4. p = q
      <3>1. CASE pilot[p].status = "COMPLETED"
        BY <1>1, <2>1, <2>3, <3>1 DEF IInv, OnePermitIsUsed, Consumed, Live
      <3>2. CASE pilot[q].status = "COMPLETED"
        BY <1>1, <2>1, <2>2, <3>2 DEF IInv, OnePermitIsUsed, Consumed, Live
      <3>3. CASE pilot[p].status # "COMPLETED" /\ pilot[q].status # "COMPLETED"
        BY <1>1, <2>2, <2>3, <3>3 DEF IInv, TypeOK, Live
      <3> QED
        BY <3>1, <3>2, <3>3
    <2> QED
      BY <2>2, <2>3, <2>4
  <1> QED
    BY <1>1, Invariance, PTL

\* A buyer who has the invoice has the permit or the credit.
THEOREM InvoicesAreReserved == Spec => []InvoiceIsReserved
  <1>1. ASSUME IInv PROVE InvoiceIsReserved
    <2>1. enabled \in BOOLEAN
      BY <1>1 DEF IInv, TypeOK
    <2> QED
      BY <1>1, <2>1 DEF IInv, HoldsReservation, PermitNames, CreditIsHeld, InvoiceIsReserved
  <1> QED
    BY <1>1, Invariance, PTL

\* A refused order stays refused, and only an order whose evidence still
\* stood as prepared is settled, unless its quarantine broke off.
THEOREM RefusalsStand == Spec => RefusedStaysRefused
  <1>. DEFINE Stands(c) ==
                /\ order[c] = "refused" => order'[c] = "refused"
                /\ (order[c] # "settled" /\ order'[c] = "settled" /\ enabled /\ c \notin faults
                      => evidence[c] = "PREPARED")
  <1>1. ASSUME IInv, [Next]_vars PROVE \A c \in Checkouts : Stands(c)
    <2>1. SUFFICES ASSUME NEW c \in Checkouts PROVE Stands(c)
      OBVIOUS
    <2>2. order[c] = "refused" => order'[c] = "refused"
      BY <1>1, EventMoves DEF OrderMoves
    <2>3. ASSUME order[c] # "settled", order'[c] = "settled", enabled, c \notin faults
          PROVE  evidence[c] = "PREPARED"
      <3>1. SettlePilotOrder(c) /\ order[c] = "none"
        BY <1>1, <2>3, EventMoves DEF OrderMoves
      <3>2. evidence[c] \in {"PREPARED", "ORDER_CAPTURED"}
        BY <3>1 DEF SettlePilotOrder, EvidenceStands
      <3> QED
        BY <1>1, <2>3, <3>1, <3>2 DEF IInv, MarkedByItsOrder
    <2> QED
      BY <2>2, <2>3
  <1>2. ASSUME IInv, [Next]_vars
        PROVE  [\A c \in Checkouts :
                  /\ order[c] = "refused" => order'[c] = "refused"
                  /\ (order[c] # "settled" /\ order'[c] = "settled" /\ enabled /\ c \notin faults
                        => evidence[c] = "PREPARED")]_vars
    BY <1>1, <1>2
  <1> QED
    BY <1>2, Invariance, PTL DEF Spec, RefusedStaysRefused

\* Unless authorizations overlapped, a payout ignored a lock or a capture came
\* after its lock, what was debited and paid out is covered.
THEOREM TheCreditIsCovered == Spec => []CreditIsCovered
  <1>1. ASSUME IInv PROVE CreditIsCovered
    <2>1. Debited \in Nat /\ Locked \in Nat /\ paidOut \in Nat /\ Balance \in Nat
      BY <1>1, Counts, CountOf, BalanceIsNat DEF IInv, TypeOK
    <2> QED
      BY <1>1, <2>1 DEF IInv, LocksAreCovered, CreditIsSound, CreditIsCovered
  <1> QED
    BY <1>1, Invariance, PTL
=============================================================================
