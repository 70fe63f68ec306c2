----------------------- MODULE WithdrawalEmailsProofs -----------------------
(***************************************************************************)
(* What WithdrawalEmails promises for any number of mails, workers,        *)
(* controls, operators and tries.                                          *)
(*                                                                         *)
(* The inductive invariant says what a request at work knows of its mail:  *)
(* that the provider has taken it when its delivery is to be recorded,     *)
(* that the hold was not set when it was picked for sending, and that a    *)
(* mail with one worker has not been recorded as sent.                     *)
(***************************************************************************)
EXTENDS WithdrawalEmails, TLAPS

WithMail == {"apply", "control", "claiming", "send", "sent", "commit",
             "failed", "snapshot"}

\* The hold has been read for the last time before the mail goes out.
AboutToSend(p) ==
  \/ At(p, "send")
  \/ proc[p].phase \in {"claiming", "snapshot"} /\ ~proc[p].hold

ProcInv(p) ==
  /\ proc[p].phase \in WithMail => proc[p].mail \in Mails
  /\ proc[p].phase \in {"sent", "commit"} => proc[p].mail \in accepted
  /\ At(p, "control") => proc[p].hold
  /\ leaked[p] <= 1
  /\ ~hold => leaked[p] = 0
  /\ AboutToSend(p) => leaked[p] = 0

OneAtWork ==
  \A w \in Workers, m \in Mails : AtWorkOn(w, m) /\ m \notin overlap =>
    /\ box[m].status # "SENT"
    /\ \A v \in Workers : AtWorkOn(v, m) => v = w

OperatorsFollowTable ==
  \A o \in Operators : op[o].phase = "write" => Allowed(op[o].from, op[o].to)

IInv ==
  /\ TypeOK
  /\ \A p \in Procs : ProcInv(p)
  /\ DeliveryRecordedOnce
  /\ OneAtWork
  /\ OperatorsFollowTable

-----------------------------------------------------------------------------
(* Types of what the actions write.                                        *)

LEMMA NullTypes ==
    /\ NoRow \in Rows /\ [NoRow EXCEPT !.status = "PENDING", !.due = TRUE] \in Rows
    /\ Idle \in ProcRecord /\ OpIdle \in OpRecord
  <1>. USE EmailAssumption
  <1>1. "REQUESTED" \in Statuses
    BY DEF Statuses
  <1>2. 0 \in 0 .. MaxAttempts
    OBVIOUS
  <1>5. NoRow \in Rows
    BY <1>2 DEF NoRow, Rows
  <1>6. [NoRow EXCEPT !.status = "PENDING", !.due = TRUE] \in Rows
    BY <1>5 DEF Rows
  <1>3. Idle \in ProcRecord
    BY <1>1 DEF Idle, ProcRecord, Phases, Verdicts
  <1>4. OpIdle \in OpRecord
    BY <1>1 DEF OpIdle, OpRecord
  <1> QED
    BY <1>3, <1>4, <1>5, <1>6

LEMMA ActiveControlType == ActiveControl \in Controls \cup {None}
  BY DEF ActiveControl

LEMMA ReadRow ==
    ASSUME TypeOK, NEW m \in Mails
    PROVE  /\ box[m] \in Rows /\ box[m].status \in {"none", "PENDING", "PROCESSING", "FAILED",
                "SENT", "HELD", "CANCELLED", "DEAD_LETTER"}
           /\ box[m].attempts \in 0 .. MaxAttempts
           /\ box[m].lock \in {"free", "taken", "expired"} /\ box[m].due \in BOOLEAN
           /\ box[m].heldBy \in Controls \cup {None} /\ box[m].sentEvent \in BOOLEAN
  <1>1. box[m] \in Rows
    BY DEF TypeOK
  <1> QED
    BY <1>1 DEF Rows

LEMMA ReadProc ==
    ASSUME TypeOK, NEW p \in Procs
    PROVE  /\ proc[p] \in ProcRecord /\ proc[p].phase \in Phases
           /\ proc[p].mail \in Mails \cup {None} /\ proc[p].todo \subseteq Mails
           /\ proc[p].hold \in BOOLEAN /\ proc[p].ctl \in Controls \cup {None}
           /\ proc[p].attempts \in 0 .. MaxAttempts /\ proc[p].seen \in Statuses
           /\ proc[p].verdict \in Verdicts
  <1>1. proc[p] \in ProcRecord
    BY DEF TypeOK
  <1> QED
    BY <1>1 DEF ProcRecord

-----------------------------------------------------------------------------
(* What a step does to the requests at work.                               *)

OthersKept(p) == \A q \in Procs \ {p} : proc'[q] = proc[q]

LEMMA GotoFacts ==
    ASSUME TypeOK, NEW p \in Procs, NEW phase \in Phases, Goto(p, phase)
    PROVE  /\ proc' \in [Procs -> ProcRecord] /\ OthersKept(p)
           /\ proc'[p].phase = phase /\ proc'[p].mail = proc[p].mail
           /\ proc'[p].hold = proc[p].hold
  BY DEF Goto, TypeOK, ProcRecord, OthersKept

LEMMA MoveFacts ==
    ASSUME TypeOK, NEW p \in Procs, NEW r \in ProcRecord, proc' = [proc EXCEPT ![p] = r]
    PROVE  proc' \in [Procs -> ProcRecord] /\ OthersKept(p) /\ proc'[p] = r
  BY DEF TypeOK, OthersKept

LEMMA StopFacts ==
    ASSUME TypeOK, NEW p \in Procs, Stop(p)
    PROVE  /\ proc' \in [Procs -> ProcRecord] /\ OthersKept(p)
           /\ proc'[p].phase = "idle" /\ proc'[p].mail = None /\ ~proc'[p].hold
  <1>1. proc'[p] = Idle /\ OthersKept(p) /\ proc' \in [Procs -> ProcRecord]
    BY NullTypes, MoveFacts DEF Stop
  <1>2. Idle.phase = "idle" /\ Idle.mail = None /\ ~Idle.hold
    BY DEF Idle
  <1> QED
    BY <1>1, <1>2

LEMMA BeginFacts ==
    ASSUME TypeOK, NEW p \in Procs, NEW phase \in Phases, Begin(p, phase)
    PROVE  /\ proc' \in [Procs -> ProcRecord] /\ OthersKept(p)
           /\ proc'[p].phase = phase /\ proc'[p].mail = None /\ ~proc'[p].hold
  <1>. DEFINE r == [Idle EXCEPT !.phase = phase]
  <1>1. r \in ProcRecord /\ r.phase = phase /\ r.mail = None /\ ~r.hold
    BY NullTypes DEF Idle, ProcRecord
  <1>2. proc' = [proc EXCEPT ![p] = r]
    BY DEF Begin
  <1>. HIDE DEF r
  <1> QED
    BY <1>1, <1>2, MoveFacts

\* A worker takes up the queue again or ends.
LEMMA NextMailFacts ==
    ASSUME TypeOK, NEW p \in Procs, NextMail(p)
    PROVE  /\ proc' \in [Procs -> ProcRecord] /\ OthersKept(p)
           /\ proc'[p].phase \in {"claim", "idle"}
  <1>1. "claim" \in Phases
    BY DEF Phases
  <1> QED
    BY <1>1, BeginFacts, StopFacts DEF NextMail

\* A request that is at work on no mail has nothing to show for.
LEMMA RestIsSound ==
    ASSUME NEW p \in Procs, ProcInv(p), leaked'[p] = leaked[p], ~hold' => ~hold,
           proc'[p].phase \notin WithMail, proc'[p].phase # "control"
    PROVE  ProcInv(p)'
  BY DEF ProcInv, WithMail, AboutToSend, At

-----------------------------------------------------------------------------
(* What carries the parts of the invariant over a step.                    *)

LEMMA OthersAreSound ==
    ASSUME IInv, NEW p \in Procs, OthersKept(p), accepted \subseteq accepted',
           \A q \in Procs \ {p} : leaked'[q] = leaked[q], ~hold' => ~hold
    PROVE  \A q \in Procs \ {p} : ProcInv(q)'
  <1>. SUFFICES ASSUME NEW q \in Procs \ {p} PROVE ProcInv(q)'
    OBVIOUS
  <1>1. ProcInv(q) /\ proc'[q] = proc[q] /\ leaked'[q] = leaked[q]
    BY DEF IInv, OthersKept
  <1> QED
    BY <1>1 DEF ProcInv, AboutToSend, At

LEMMA RecordsAreKept ==
    ASSUME IInv, logged' = logged, accepted \subseteq accepted',
           \A m \in Mails : /\ box'[m].sentEvent = box[m].sentEvent
                            /\ box'[m].status = "SENT" => box[m].status = "SENT"
    PROVE  DeliveryRecordedOnce'
  <1>. SUFFICES ASSUME NEW m \in Mails
       PROVE /\ logged'[m] = IF box'[m].sentEvent THEN 1 ELSE 0
             /\ box'[m].sentEvent => m \in accepted'
             /\ box'[m].status = "SENT" => box'[m].sentEvent
    BY DEF DeliveryRecordedOnce
  <1> QED
    BY DEF IInv, DeliveryRecordedOnce

LEMMA WorkIsKept ==
    ASSUME IInv, NEW p \in Procs, OthersKept(p), overlap' = overlap,
           \A m \in Mails : AtWorkOn(p, m)' => AtWorkOn(p, m),
           \A m \in Mails : box'[m].status = "SENT" => box[m].status = "SENT"
    PROVE  OneAtWork'
  <1>1. ASSUME NEW w \in Workers, NEW m \in Mails, AtWorkOn(w, m)' PROVE AtWorkOn(w, m)
    <2>1. w \in Procs
      BY DEF Procs
    <2>2. CASE w = p
      BY <1>1, <2>2
    <2>3. CASE w # p
      BY <1>1, <2>1, <2>3 DEF AtWorkOn, OthersKept
    <2> QED
      BY <2>2, <2>3
  <1>. SUFFICES ASSUME NEW w \in Workers, NEW m \in Mails, AtWorkOn(w, m)', m \notin overlap
       PROVE /\ box'[m].status # "SENT"
             /\ \A v \in Workers : AtWorkOn(v, m)' => v = w
    BY DEF OneAtWork
  <1>2. AtWorkOn(w, m)
    BY <1>1
  <1>3. box[m].status # "SENT" /\ \A v \in Workers : AtWorkOn(v, m) => v = w
    BY <1>2 DEF IInv, OneAtWork
  <1> QED
    BY <1>1, <1>3

LEMMA NoWorkOfRest ==
    ASSUME NEW p \in Procs, proc'[p].phase \notin {"send", "sent", "commit", "failed"}
    PROVE  \A m \in Mails : AtWorkOn(p, m)' => AtWorkOn(p, m)
  BY DEF AtWorkOn

LEMMA TableIsKept ==
    ASSUME IInv, op' = op
    PROVE  OperatorsFollowTable'
  BY DEF IInv, OperatorsFollowTable

\* A step of one request that leaves the rows and the status alone.
LEMMA QuietStep ==
    ASSUME IInv, NEW p \in Procs, proc' \in [Procs -> ProcRecord], OthersKept(p),
           UNCHANGED rows, UNCHANGED requests, ProcInv(p)',
           hold' \in BOOLEAN, ~hold' => ~hold,
           control' \in [Controls -> {"none", "ACTIVE", "RECOVERED"}],
           mishaps' \in 0 .. MaxMishaps,
           \A m \in Mails : AtWorkOn(p, m)' => AtWorkOn(p, m)
    PROVE  IInv'
  <1>1. /\ box' = box /\ accepted' = accepted /\ logged' = logged /\ direct' = direct
        /\ overlap' = overlap /\ leaked' = leaked
        /\ request' = request /\ completed' = completed /\ op' = op
    BY DEF rows, requests
  <1>2. TypeOK'
    BY <1>1 DEF IInv, TypeOK
  <1>3. \A q \in Procs : ProcInv(q)'
    BY <1>1, OthersAreSound
  <1>4. DeliveryRecordedOnce'
    BY <1>1, RecordsAreKept
  <1>5. OneAtWork'
    BY <1>1, WorkIsKept
  <1>6. OperatorsFollowTable'
    BY <1>1, TableIsKept
  <1> QED
    BY <1>2, <1>3, <1>4, <1>5, <1>6 DEF IInv

-----------------------------------------------------------------------------
(* The steps that move one request on.                                     *)

LEMMA WorkerIsProc == Workers \subseteq Procs /\ Holder \in Procs /\ Notifier \in Procs
  BY DEF Procs

LEMMA TypeParts ==
    ASSUME TypeOK
    PROVE  /\ hold \in BOOLEAN /\ control \in [Controls -> {"none", "ACTIVE", "RECOVERED"}]
           /\ mishaps \in 0 .. MaxMishaps /\ request \in Statuses
           /\ proc \in [Procs -> ProcRecord]
  BY DEF TypeOK

\* A request that has come to the end of its turn, or to its next turn.
LEMMA RestStep ==
    ASSUME IInv, NEW p \in Procs, proc' \in [Procs -> ProcRecord], OthersKept(p),
           proc'[p].phase \in {"idle", "claim", "release", "activated"},
           UNCHANGED rows, UNCHANGED requests,
           hold' \in BOOLEAN, ~hold' => ~hold,
           control' \in [Controls -> {"none", "ACTIVE", "RECOVERED"}],
           mishaps' \in 0 .. MaxMishaps
    PROVE  IInv'
  <1>1. ProcInv(p)'
    <2>1. ProcInv(p) /\ leaked' = leaked
      BY DEF IInv, rows
    <2> QED
      BY <2>1, RestIsSound DEF WithMail
  <1>2. \A m \in Mails : AtWorkOn(p, m)' => AtWorkOn(p, m)
    BY NoWorkOfRest
  <1> QED
    BY <1>1, <1>2, QuietStep

LEMMA BeginRunStep ==
    ASSUME IInv, NEW w \in Workers, BeginRun(w)
    PROVE  IInv'
  <1>. TypeOK /\ w \in Procs
    BY WorkerIsProc DEF IInv
  <1>1. UNCHANGED rows /\ UNCHANGED requests /\ hold' = hold /\ control' = control /\ mishaps' = mishaps
    BY DEF BeginRun, holds
  <1>2. /\ proc' \in [Procs -> ProcRecord] /\ OthersKept(w)
        /\ proc'[w].phase \in {"claim", "release"}
    <2>1. ASSUME NEW m \in Mails,
                 proc' = [proc EXCEPT ![w] = [Idle EXCEPT !.phase = "release", !.seen = request,
                                                          !.todo = HeldBy(box[m].heldBy)]]
          PROVE  /\ proc' \in [Procs -> ProcRecord] /\ OthersKept(w)
                 /\ proc'[w].phase \in {"claim", "release"}
      <3>. DEFINE r == [Idle EXCEPT !.phase = "release", !.seen = request,
                                    !.todo = HeldBy(box[m].heldBy)]
      <3>1. HeldBy(box[m].heldBy) \subseteq Mails
        BY DEF HeldBy, Held
      <3>2. r \in ProcRecord /\ r.phase = "release"
        BY <3>1, NullTypes, TypeParts DEF Idle, ProcRecord, Phases
      <3>3. proc' = [proc EXCEPT ![w] = r]
        BY <2>1
      <3>. HIDE DEF r
      <3> QED
        BY <3>2, <3>3, MoveFacts
    <2>2. CASE Begin(w, "claim")
      <3>1. "claim" \in Phases
        BY DEF Phases
      <3> QED
        BY <2>2, <3>1, BeginFacts
    <2> QED
      BY <2>1, <2>2 DEF BeginRun
  <1> QED
    BY <1>1, <1>2, RestStep, TypeParts

LEMMA ReleaseQuietStep ==
    ASSUME IInv, NEW p \in Procs, Revalidate(p) \/ EndRelease(p)
    PROVE  IInv'
  <1>. TypeOK
    BY DEF IInv
  <1>1. UNCHANGED rows /\ UNCHANGED requests /\ hold' = hold /\ control' = control /\ mishaps' = mishaps
    BY DEF Revalidate, EndRelease, holds
  <1>2. CASE Revalidate(p)
    <2>1. PICK m \in proc[p].todo :
            proc' = [proc EXCEPT ![p].phase = "apply", ![p].mail = m,
                                 ![p].verdict = Verdict(m, proc[p].seen)]
      BY <1>2 DEF Revalidate
    <2>2. m \in Mails
      BY ReadProc
    <2>3. Verdict(m, proc[p].seen) \in Verdicts
      BY TypeParts DEF Verdict, Verdicts
    <2>. DEFINE r == [proc[p] EXCEPT !.phase = "apply", !.mail = m, !.verdict = Verdict(m, proc[p].seen)]
    <2>4. r \in ProcRecord /\ r.phase = "apply" /\ r.mail = m
      <3>1. proc[p] \in ProcRecord
        BY ReadProc
      <3> QED
        BY <2>2, <2>3, <3>1 DEF ProcRecord, Phases
    <2>5. proc' = [proc EXCEPT ![p] = r]
      BY <2>1, TypeParts DEF ProcRecord
    <2>. HIDE DEF r
    <2>6. proc' \in [Procs -> ProcRecord] /\ OthersKept(p) /\ proc'[p].phase = "apply" /\ proc'[p].mail = m
      BY <2>4, <2>5, MoveFacts
    <2>7. ProcInv(p)'
      <3>1. ProcInv(p) /\ leaked' = leaked
        BY <1>1 DEF IInv, rows
      <3> QED
        BY <1>1, <2>2, <2>6, <3>1 DEF ProcInv, AboutToSend, At
    <2>8. \A n \in Mails : AtWorkOn(p, n)' => AtWorkOn(p, n)
      BY <2>6, NoWorkOfRest
    <2> QED
      BY <1>1, <2>6, <2>7, <2>8, QuietStep, TypeParts
  <1>3. CASE EndRelease(p)
    <2>1. proc' \in [Procs -> ProcRecord] /\ OthersKept(p) /\ proc'[p].phase \in {"idle", "claim"}
      <3>1. "claim" \in Phases
        BY DEF Phases
      <3> QED
        BY <1>3, <3>1, BeginFacts, StopFacts DEF EndRelease
    <2> QED
      BY <1>1, <2>1, RestStep, TypeParts
  <1> QED
    BY <1>2, <1>3

LEMMA SelectMailStep ==
    ASSUME IInv, NEW w \in Workers, SelectMail(w)
    PROVE  IInv'
  <1>. TypeOK /\ w \in Procs
    BY WorkerIsProc DEF IInv
  <1>1. UNCHANGED rows /\ UNCHANGED requests /\ hold' = hold /\ control' = control /\ mishaps' = mishaps
    BY DEF SelectMail, holds
  <1>2. ASSUME NEW m \in Mails,
               proc' = [proc EXCEPT ![w] =
                 [Idle EXCEPT !.phase = IF HoldOn(m) THEN "control" ELSE "claiming",
                              !.mail = m, !.hold = HoldOn(m)]]
        PROVE  IInv'
    <2>. DEFINE r == [Idle EXCEPT !.phase = IF HoldOn(m) THEN "control" ELSE "claiming",
                                  !.mail = m, !.hold = HoldOn(m)]
    <2>1. /\ r \in ProcRecord /\ r.mail = m /\ r.hold = hold
          /\ r.phase = IF hold THEN "control" ELSE "claiming"
      BY NullTypes, TypeParts DEF Idle, ProcRecord, Phases, HoldOn
    <2>2. proc' = [proc EXCEPT ![w] = r]
      BY <1>2
    <2>. HIDE DEF r
    <2>3. /\ proc' \in [Procs -> ProcRecord] /\ OthersKept(w) /\ proc'[w].mail = m /\ proc'[w].hold = hold
          /\ proc'[w].phase = IF hold THEN "control" ELSE "claiming"
      BY <2>1, <2>2, MoveFacts
    <2>4. ProcInv(w)'
      <3>1. ProcInv(w) /\ leaked' = leaked
        BY <1>1 DEF IInv, rows
      <3> QED
        BY <1>1, <2>3, <3>1, TypeParts DEF ProcInv, AboutToSend, At
    <2>5. \A n \in Mails : AtWorkOn(w, n)' => AtWorkOn(w, n)
      BY <2>3, NoWorkOfRest
    <2> QED
      BY <1>1, <2>3, <2>4, <2>5, QuietStep, TypeParts
  <1>3. CASE Stop(w)
    BY <1>1, <1>3, StopFacts, RestStep, TypeParts
  <1> QED
    BY <1>2, <1>3 DEF SelectMail

LEMMA ReadControlStep ==
    ASSUME IInv, NEW p \in Procs, ReadControl(p)
    PROVE  IInv'
  <1>. TypeOK
    BY DEF IInv
  <1>1. UNCHANGED rows /\ UNCHANGED requests /\ hold' = hold /\ control' = control /\ mishaps' = mishaps
    BY DEF ReadControl, holds
  <1>. DEFINE next == IF p = Notifier THEN "snapshot" ELSE "claiming"
              r == [proc[p] EXCEPT !.phase = next, !.ctl = ActiveControl]
  <1>2. r \in ProcRecord /\ r.phase \in {"snapshot", "claiming"} /\ r.mail = proc[p].mail /\ r.hold = proc[p].hold
    <2>1. proc[p] \in ProcRecord
      BY ReadProc
    <2> QED
      BY <2>1, ActiveControlType DEF ProcRecord, Phases
  <1>3. proc' = [proc EXCEPT ![p] = r]
    BY TypeParts DEF ReadControl, ProcRecord
  <1>. HIDE DEF r
  <1>4. /\ proc' \in [Procs -> ProcRecord] /\ OthersKept(p) /\ proc'[p].phase \in {"snapshot", "claiming"}
        /\ proc'[p].mail = proc[p].mail /\ proc'[p].hold = proc[p].hold
    BY <1>2, <1>3, MoveFacts
  <1>5. ProcInv(p)'
    <2>1. ProcInv(p) /\ leaked' = leaked /\ At(p, "control")
      BY <1>1 DEF IInv, rows, ReadControl
    <2> QED
      BY <1>1, <1>4, <2>1 DEF ProcInv, AboutToSend, At, WithMail
  <1>6. \A n \in Mails : AtWorkOn(p, n)' => AtWorkOn(p, n)
    BY <1>4, NoWorkOfRest
  <1> QED
    BY <1>1, <1>4, <1>5, <1>6, QuietStep, TypeParts

LEMMA BeginRecordStep ==
    ASSUME IInv, NEW w \in Workers, BeginRecord(w)
    PROVE  IInv'
  <1>. TypeOK /\ w \in Procs
    BY WorkerIsProc DEF IInv
  <1>1. UNCHANGED rows /\ UNCHANGED requests /\ hold' = hold /\ control' = control /\ mishaps' = mishaps
    BY DEF BeginRecord, holds
  <1>. DEFINE r == [proc[w] EXCEPT !.phase = "commit", !.seen = request]
  <1>2. r \in ProcRecord /\ r.phase = "commit" /\ r.mail = proc[w].mail
    <2>1. proc[w] \in ProcRecord
      BY ReadProc
    <2> QED
      BY <2>1, TypeParts DEF ProcRecord, Phases
  <1>3. proc' = [proc EXCEPT ![w] = r]
    BY TypeParts DEF BeginRecord, ProcRecord
  <1>. HIDE DEF r
  <1>4. /\ proc' \in [Procs -> ProcRecord] /\ OthersKept(w) /\ proc'[w].phase = "commit"
        /\ proc'[w].mail = proc[w].mail
    BY <1>2, <1>3, MoveFacts
  <1>5. ProcInv(w) /\ leaked' = leaked /\ accepted' = accepted /\ proc[w].phase = "sent"
    BY <1>1 DEF IInv, rows, BeginRecord, At
  <1>6. ProcInv(w)'
    BY <1>1, <1>4, <1>5 DEF ProcInv, AboutToSend, At, WithMail
  <1>7. \A n \in Mails : AtWorkOn(w, n)' => AtWorkOn(w, n)
    BY <1>4, <1>5 DEF AtWorkOn
  <1> QED
    BY <1>1, <1>4, <1>6, <1>7, QuietStep, TypeParts

LEMMA HolderQuietStep ==
    ASSUME IInv, SetHold \/ RecordHold \/ RecordLift
    PROVE  IInv'
  <1>. TypeOK /\ Holder \in Procs
    BY WorkerIsProc DEF IInv
  <1>1. UNCHANGED rows /\ UNCHANGED requests /\ mishaps' = mishaps
    BY DEF SetHold, RecordHold, RecordLift
  <1>2. CASE SetHold
    <2>1. "activated" \in Phases
      BY DEF Phases
    <2>2. /\ proc' \in [Procs -> ProcRecord] /\ OthersKept(Holder) /\ proc'[Holder].phase = "activated"
          /\ hold' = TRUE /\ control' = control
      BY <1>2, <2>1, GotoFacts DEF SetHold
    <2> QED
      BY <1>1, <2>2, RestStep, TypeParts
  <1>3. CASE RecordHold
    <2>1. /\ proc' \in [Procs -> ProcRecord] /\ OthersKept(Holder) /\ proc'[Holder].phase = "idle"
          /\ hold' = hold
      BY <1>3, StopFacts DEF RecordHold
    <2>2. control' \in [Controls -> {"none", "ACTIVE", "RECOVERED"}]
      BY <1>3, TypeParts DEF RecordHold
    <2> QED
      BY <1>1, <2>1, <2>2, RestStep, TypeParts
  <1>4. CASE RecordLift
    <2>. DEFINE r == [Idle EXCEPT !.phase = "release", !.seen = request,
                                  !.todo = ToRelease(ActiveControl)]
    <2>1. r \in ProcRecord /\ r.phase = "release"
      <3>1. ToRelease(ActiveControl) \subseteq Mails
        BY DEF ToRelease, Held, HeldBy
      <3> QED
        BY <3>1, NullTypes, TypeParts DEF Idle, ProcRecord, Phases
    <2>2. proc' = [proc EXCEPT ![Holder] = r] /\ hold' = hold
      BY <1>4 DEF RecordLift
    <2>3. control' \in [Controls -> {"none", "ACTIVE", "RECOVERED"}]
      BY <1>4, TypeParts DEF RecordLift
    <2>. HIDE DEF r
    <2>4. proc' \in [Procs -> ProcRecord] /\ OthersKept(Holder) /\ proc'[Holder].phase = "release"
      BY <2>1, <2>2, MoveFacts
    <2> QED
      BY <1>1, <2>2, <2>3, <2>4, RestStep, TypeParts
  <1> QED
    BY <1>2, <1>3, <1>4

LEMMA NotifyStep ==
    ASSUME IInv, Notify
    PROVE  IInv'
  <1>. TypeOK /\ Notifier \in Procs
    BY WorkerIsProc DEF IInv
  <1>1. UNCHANGED rows /\ UNCHANGED requests /\ hold' = hold /\ control' = control /\ mishaps' = mishaps
    BY DEF Notify, holds
  <1>2. PICK m \in Mails :
          proc' = [proc EXCEPT ![Notifier] =
            [Idle EXCEPT !.phase = IF hold THEN "control" ELSE "snapshot", !.mail = m, !.hold = hold]]
    BY DEF Notify
  <1>. DEFINE r == [Idle EXCEPT !.phase = IF hold THEN "control" ELSE "snapshot",
                                !.mail = m, !.hold = hold]
  <1>3. /\ r \in ProcRecord /\ r.mail = m /\ r.hold = hold
        /\ r.phase = IF hold THEN "control" ELSE "snapshot"
    BY NullTypes, TypeParts DEF Idle, ProcRecord, Phases
  <1>4. proc' = [proc EXCEPT ![Notifier] = r]
    BY <1>2
  <1>. HIDE DEF r
  <1>5. /\ proc' \in [Procs -> ProcRecord] /\ OthersKept(Notifier) /\ proc'[Notifier].mail = m
        /\ proc'[Notifier].hold = hold
        /\ proc'[Notifier].phase = IF hold THEN "control" ELSE "snapshot"
    BY <1>3, <1>4, MoveFacts
  <1>6. ProcInv(Notifier)'
    <2>1. ProcInv(Notifier) /\ leaked' = leaked
      BY <1>1 DEF IInv, rows
    <2> QED
      BY <1>1, <1>5, <2>1, TypeParts DEF ProcInv, AboutToSend, At
  <1>7. \A n \in Mails : AtWorkOn(Notifier, n)' => AtWorkOn(Notifier, n)
    BY <1>5, NoWorkOfRest
  <1> QED
    BY <1>1, <1>5, <1>6, <1>7, QuietStep, TypeParts

LEMMA DieStep ==
    ASSUME IInv, NEW p \in Procs, Die(p)
    PROVE  IInv'
  <1>. TypeOK
    BY DEF IInv
  <1>1. UNCHANGED rows /\ UNCHANGED requests /\ hold' = hold /\ control' = control
    BY DEF Die, holds
  <1>2. mishaps' \in 0 .. MaxMishaps
    BY TypeParts, EmailAssumption DEF Die
  <1>3. proc' \in [Procs -> ProcRecord] /\ OthersKept(p) /\ proc'[p].phase = "idle"
    BY StopFacts DEF Die
  <1> QED
    BY <1>1, <1>2, <1>3, RestStep, TypeParts

-----------------------------------------------------------------------------
(* The steps that write to the outbox.                                     *)

LEMMA SamePlace ==
    ASSUME IInv, UNCHANGED holds, UNCHANGED requests, mishaps' = mishaps
    PROVE  /\ hold' = hold /\ control' = control /\ op' = op
           /\ request' = request /\ completed' = completed
           /\ OperatorsFollowTable'
  <1>1. hold' = hold /\ control' = control /\ op' = op /\ request' = request /\ completed' = completed
    BY DEF holds, requests
  <1> QED
    BY <1>1, TableIsKept

\* Types, when what a step writes is of its type.
LEMMA WrittenTypes ==
    ASSUME TypeOK, box' \in [Mails -> Rows], accepted' \subseteq Mails, direct' \subseteq Mails,
           logged' \in [Mails -> Nat], overlap' \subseteq Mails, leaked' \in [Procs -> 0 .. 2],
           proc' \in [Procs -> ProcRecord], request' \in Statuses,
           UNCHANGED <<hold, control, completed, op, mishaps>>
    PROVE  TypeOK'
  BY DEF TypeOK

LEMMA RowTypeParts ==
    ASSUME TypeOK
    PROVE  /\ box \in [Mails -> Rows] /\ accepted \subseteq Mails /\ direct \subseteq Mails
           /\ logged \in [Mails -> Nat] /\ overlap \subseteq Mails /\ leaked \in [Procs -> 0 .. 2]
  BY DEF TypeOK

\* A write to one row that records no delivery.
LEMMA RowStep ==
    ASSUME IInv, NEW p \in Procs, NEW m \in Mails, NEW row \in Rows,
           box' = [box EXCEPT ![m] = row],
           row.sentEvent = box[m].sentEvent, row.status = "SENT" => box[m].status = "SENT",
           UNCHANGED <<accepted, logged, direct, overlap, leaked>>,
           UNCHANGED holds, UNCHANGED requests, mishaps' = mishaps,
           proc' \in [Procs -> ProcRecord], OthersKept(p), ProcInv(p)',
           \A n \in Mails : AtWorkOn(p, n)' => AtWorkOn(p, n)
    PROVE  IInv'
  <1>. TypeOK
    BY DEF IInv
  <1>1. /\ hold' = hold /\ control' = control /\ op' = op
        /\ request' = request /\ completed' = completed /\ OperatorsFollowTable'
    BY SamePlace
  <1>2. box' \in [Mails -> Rows]
    BY RowTypeParts
  <1>3. \A n \in Mails : /\ box'[n].sentEvent = box[n].sentEvent
                         /\ box'[n].status = "SENT" => box[n].status = "SENT"
    BY RowTypeParts
  <1>4. TypeOK'
    BY <1>1, <1>2, WrittenTypes, RowTypeParts, TypeParts
  <1>5. \A q \in Procs : ProcInv(q)'
    BY <1>1, OthersAreSound
  <1>6. DeliveryRecordedOnce'
    BY <1>3, RecordsAreKept
  <1>7. OneAtWork'
    BY <1>3, WorkIsKept
  <1> QED
    BY <1>1, <1>4, <1>5, <1>6, <1>7 DEF IInv

LEMMA ApplyVerdictStep ==
    ASSUME IInv, NEW p \in Procs, ApplyVerdict(p)
    PROVE  IInv'
  <1>. TypeOK
    BY DEF IInv
  <1>. DEFINE m == proc[p].mail
              row == CASE proc[p].verdict = "release" -> ReleasedRow(m)
                       [] proc[p].verdict = "cancel" /\ box[m].status = "HELD" ->
                            [box[m] EXCEPT !.status = "CANCELLED"]
                       [] OTHER -> box[m]
              r == [proc[p] EXCEPT !.phase = "release", !.mail = None,
                                   !.verdict = "keep", !.todo = @ \ {m}]
  <1>1. ProcInv(p) /\ proc[p].phase = "apply"
    BY DEF IInv, ApplyVerdict, At
  <1>2. m \in Mails
    BY <1>1 DEF ProcInv, WithMail
  <1>3. box[m] \in Rows
    BY <1>2, ReadRow
  <1>4. row \in {ReleasedRow(m), [box[m] EXCEPT !.status = "CANCELLED"], box[m]}
    OBVIOUS
  <1>5. /\ row \in Rows /\ row.sentEvent = box[m].sentEvent
        /\ row.status = "SENT" => box[m].status = "SENT"
    BY <1>3, <1>4 DEF ReleasedRow, Rows
  <1>6. box' = [box EXCEPT ![m] = row]
    BY DEF ApplyVerdict
  <1>7. r \in ProcRecord /\ r.phase = "release"
    <2>1. proc[p] \in ProcRecord
      BY ReadProc
    <2> QED
      BY <2>1 DEF ProcRecord, Phases, Verdicts
  <1>8. proc' = [proc EXCEPT ![p] = r]
    BY TypeParts DEF ApplyVerdict, ProcRecord
  <1>. HIDE DEF r, row, m
  <1>9. proc' \in [Procs -> ProcRecord] /\ OthersKept(p) /\ proc'[p].phase = "release"
    BY <1>7, <1>8, MoveFacts
  <1>10. /\ UNCHANGED <<accepted, logged, direct, overlap, leaked>>
         /\ UNCHANGED holds /\ UNCHANGED requests /\ mishaps' = mishaps
    BY DEF ApplyVerdict
  <1>11. ProcInv(p)'
    BY <1>1, <1>9, <1>10, RestIsSound DEF WithMail, holds
  <1>12. \A n \in Mails : AtWorkOn(p, n)' => AtWorkOn(p, n)
    BY <1>9, NoWorkOfRest
  <1> QED
    BY <1>2, <1>5, <1>6, <1>9, <1>10, <1>11, <1>12, RowStep

LEMMA RecordFailedStep ==
    ASSUME IInv, NEW w \in Workers, RecordFailed(w)
    PROVE  IInv'
  <1>. TypeOK /\ w \in Procs
    BY WorkerIsProc DEF IInv
  <1>. DEFINE m == proc[w].mail
              row == [box[m] EXCEPT !.status = IF proc[w].attempts >= MaxAttempts
                                               THEN "DEAD_LETTER" ELSE "FAILED",
                                    !.due = FALSE, !.lock = "free"]
  <1>1. ProcInv(w) /\ proc[w].phase = "failed"
    BY DEF IInv, RecordFailed, At
  <1>2. m \in Mails
    BY <1>1 DEF ProcInv, WithMail
  <1>3. row \in Rows /\ row.sentEvent = box[m].sentEvent /\ row.status # "SENT"
    <2>1. box[m] \in Rows
      BY <1>2, ReadRow
    <2> QED
      BY <2>1 DEF Rows
  <1>4. box' = [box EXCEPT ![m] = row]
    BY DEF RecordFailed
  <1>. HIDE DEF row, m
  <1>5. proc' \in [Procs -> ProcRecord] /\ OthersKept(w) /\ proc'[w].phase \in {"claim", "idle"}
    BY NextMailFacts DEF RecordFailed
  <1>6. /\ UNCHANGED <<accepted, logged, direct, overlap, leaked>>
        /\ UNCHANGED holds /\ UNCHANGED requests /\ mishaps' = mishaps
    BY DEF RecordFailed
  <1>7. ProcInv(w)'
    BY <1>1, <1>5, <1>6, RestIsSound DEF WithMail, holds
  <1>8. \A n \in Mails : AtWorkOn(w, n)' => AtWorkOn(w, n)
    BY <1>5, NoWorkOfRest
  <1> QED
    BY <1>2, <1>3, <1>4, <1>5, <1>6, <1>7, <1>8, RowStep

LEMMA TimeStep ==
    ASSUME IInv, NEW m \in Mails, LockRunsOut(m) \/ RetryDue(m)
    PROVE  IInv'
  <1>. TypeOK /\ Holder \in Procs
    BY WorkerIsProc DEF IInv
  <1>1. PICK row \in {[box[m] EXCEPT !.lock = "expired"], [box[m] EXCEPT !.due = TRUE]} :
          box' = [box EXCEPT ![m] = row]
    <2>1. box \in [Mails -> Rows]
      BY RowTypeParts
    <2>2. CASE LockRunsOut(m)
      BY <2>1, <2>2 DEF LockRunsOut
    <2>3. CASE RetryDue(m)
      BY <2>1, <2>3 DEF RetryDue
    <2> QED
      BY <2>2, <2>3
  <1>2. row \in Rows /\ row.sentEvent = box[m].sentEvent /\ row.status = box[m].status
    <2>1. box[m] \in Rows
      BY ReadRow
    <2> QED
      BY <1>1, <2>1 DEF Rows
  <1>3. /\ UNCHANGED <<accepted, logged, direct, overlap, leaked>>
        /\ UNCHANGED holds /\ UNCHANGED requests /\ mishaps' = mishaps /\ proc' = proc
    BY DEF LockRunsOut, RetryDue
  <1>4. proc' \in [Procs -> ProcRecord] /\ OthersKept(Holder)
    BY <1>3, TypeParts DEF OthersKept
  <1>5. ProcInv(Holder)'
    BY <1>3 DEF IInv, ProcInv, AboutToSend, At, holds
  <1>6. \A n \in Mails : AtWorkOn(Holder, n)' => AtWorkOn(Holder, n)
    BY <1>3 DEF AtWorkOn
  <1> QED
    BY <1>1, <1>2, <1>3, <1>4, <1>5, <1>6, RowStep

\* A mail leaves: the process was about to send, so it had sent none before.
LEMMA LeakFacts ==
    ASSUME IInv, NEW p \in Procs, Leak(p)
    PROVE  /\ leaked' \in [Procs -> 0 .. 2]
           /\ \A q \in Procs \ {p} : leaked'[q] = leaked[q]
           /\ ~hold => leaked'[p] = leaked[p]
           /\ leaked[p] = 0 => leaked'[p] <= 1
  BY DEF Leak, IInv, TypeOK

LEMMA NotifyEndsStep ==
    ASSUME IInv, NotifyEnds
    PROVE  IInv'
  <1>. TypeOK /\ Notifier \in Procs
    BY WorkerIsProc DEF IInv
  <1>. DEFINE m == proc[Notifier].mail
  <1>1. ProcInv(Notifier) /\ proc[Notifier].phase = "snapshot"
    BY DEF IInv, NotifyEnds, At
  <1>2. m \in Mails
    BY <1>1 DEF ProcInv, WithMail
  <1>3. proc' \in [Procs -> ProcRecord] /\ OthersKept(Notifier) /\ proc'[Notifier].phase = "idle"
    BY StopFacts DEF NotifyEnds
  <1>4. \A n \in Mails : AtWorkOn(Notifier, n)' => AtWorkOn(Notifier, n)
    BY <1>3, NoWorkOfRest
  <1>5. UNCHANGED <<accepted, logged, overlap>> /\ UNCHANGED holds /\ UNCHANGED requests /\ mishaps' = mishaps
    BY DEF NotifyEnds
  <1>6. CASE proc[Notifier].hold
    <2>. DEFINE row == IF box[m].status # "none" THEN box[m]
                       ELSE [box[m] EXCEPT !.status = "HELD", !.heldBy = proc[Notifier].ctl]
    <2>1. /\ row \in Rows /\ row.sentEvent = box[m].sentEvent
          /\ row.status = "SENT" => box[m].status = "SENT"
      <3>1. box[m] \in Rows /\ proc[Notifier].ctl \in Controls \cup {None}
        BY <1>2, ReadRow, ReadProc
      <3> QED
        BY <3>1 DEF Rows
    <2>2. box' = [box EXCEPT ![m] = row] /\ direct' = direct /\ leaked' = leaked
      BY <1>6, <1>2, RowTypeParts DEF NotifyEnds
    <2>3. ProcInv(Notifier)'
      BY <1>1, <1>3, <1>5, <2>2, RestIsSound DEF WithMail, holds
    <2>. HIDE DEF row, m
    <2>4. UNCHANGED <<accepted, logged, direct, overlap, leaked>>
      BY <1>5, <2>2
    <2> QED
      BY <1>2, <1>3, <1>4, <1>5, <2>1, <2>2, <2>3, <2>4, RowStep
  <1>7. CASE ~proc[Notifier].hold
    <2>1. /\ box' = box /\ direct' \subseteq Mails
          /\ Leak(Notifier) \/ leaked' = leaked
      BY <1>2, <1>7, RowTypeParts DEF NotifyEnds
    <2>2. leaked[Notifier] = 0 /\ (~hold => leaked[Notifier] = 0)
      BY <1>1, <1>7 DEF ProcInv, AboutToSend
    <2>3. /\ leaked' \in [Procs -> 0 .. 2]
          /\ \A q \in Procs \ {Notifier} : leaked'[q] = leaked[q]
          /\ leaked'[Notifier] <= 1 /\ (~hold => leaked'[Notifier] = 0)
      BY <2>1, <2>2, LeakFacts, RowTypeParts
    <2>4. /\ hold' = hold /\ control' = control /\ op' = op
          /\ request' = request /\ completed' = completed /\ OperatorsFollowTable'
      BY <1>5, SamePlace
    <2>5. TypeOK'
      BY <1>3, <1>5, <2>1, <2>3, <2>4, WrittenTypes, RowTypeParts, TypeParts
    <2>6. ProcInv(Notifier)'
      BY <1>3, <2>3, <2>4 DEF ProcInv, WithMail, AboutToSend, At
    <2>7. \A q \in Procs : ProcInv(q)'
      BY <1>3, <1>5, <2>3, <2>4, <2>6, OthersAreSound
    <2>8. DeliveryRecordedOnce' /\ OneAtWork'
      BY <1>3, <1>4, <1>5, <2>1, RecordsAreKept, WorkIsKept
    <2> QED
      BY <2>4, <2>5, <2>7, <2>8 DEF IInv
  <1> QED
    BY <1>6, <1>7

LEMMA SendMailStep ==
    ASSUME IInv, NEW w \in Workers, SendMail(w)
    PROVE  IInv'
  <1>. TypeOK /\ w \in Procs
    BY WorkerIsProc DEF IInv
  <1>. DEFINE m == proc[w].mail
  <1>1. ProcInv(w) /\ proc[w].phase = "send"
    BY DEF IInv, SendMail, At
  <1>2. m \in Mails /\ leaked[w] = 0
    BY <1>1 DEF ProcInv, WithMail, AboutToSend, At
  <1>3. /\ proc' \in [Procs -> ProcRecord] /\ OthersKept(w) /\ proc'[w].mail = m
        /\ proc'[w].phase \in {"sent", "failed"}
        /\ accepted \subseteq accepted' /\ accepted' \subseteq Mails
        /\ proc'[w].phase = "sent" => m \in accepted'
        /\ Leak(w) \/ leaked' = leaked
    <2>1. "sent" \in Phases /\ "failed" \in Phases
      BY DEF Phases
    <2> QED
      BY <1>2, <2>1, GotoFacts, RowTypeParts DEF SendMail
  <1>4. /\ leaked' \in [Procs -> 0 .. 2]
        /\ \A q \in Procs \ {w} : leaked'[q] = leaked[q]
        /\ leaked'[w] <= 1 /\ (~hold => leaked'[w] = 0)
    BY <1>2, <1>3, LeakFacts, RowTypeParts
  <1>5. /\ UNCHANGED <<box, logged, direct, overlap>> /\ mishaps' = mishaps
        /\ UNCHANGED holds /\ UNCHANGED requests
    BY DEF SendMail
  <1>6. /\ hold' = hold /\ control' = control /\ op' = op
        /\ request' = request /\ completed' = completed /\ OperatorsFollowTable'
    BY <1>5, SamePlace
  <1>7. TypeOK'
    BY <1>3, <1>4, <1>5, <1>6, WrittenTypes, RowTypeParts, TypeParts
  <1>8. ProcInv(w)'
    BY <1>2, <1>3, <1>4, <1>6 DEF ProcInv, AboutToSend, At
  <1>9. \A q \in Procs : ProcInv(q)'
    BY <1>3, <1>4, <1>6, <1>8, OthersAreSound
  <1>10. \A n \in Mails : AtWorkOn(w, n)' => AtWorkOn(w, n)
    BY <1>1, <1>3 DEF AtWorkOn
  <1>11. DeliveryRecordedOnce' /\ OneAtWork'
    BY <1>3, <1>5, <1>10, RecordsAreKept, WorkIsKept
  <1> QED
    BY <1>6, <1>7, <1>9, <1>11 DEF IInv

LEMMA LiftHoldStep ==
    ASSUME IInv, LiftHold
    PROVE  IInv'
  <1>. TypeOK /\ Holder \in Procs
    BY WorkerIsProc DEF IInv
  <1>1. "lifted" \in Phases
    BY DEF Phases
  <1>2. proc' \in [Procs -> ProcRecord] /\ OthersKept(Holder) /\ proc'[Holder].phase = "lifted"
    BY <1>1, GotoFacts DEF LiftHold
  <1>3. /\ hold' = FALSE /\ leaked' = [p \in Procs |-> 0]
        /\ UNCHANGED <<box, accepted, logged, direct, overlap, control, mishaps>>
        /\ request' = request /\ completed' = completed /\ op' = op
    <2>1. /\ UNCHANGED <<box, accepted, logged, direct, overlap, control, mishaps>>
          /\ requests' = requests
      BY DEF LiftHold
    <2>2. hold' = FALSE /\ leaked' = [p \in Procs |-> 0]
      BY DEF LiftHold
    <2>3. request' = request /\ completed' = completed /\ op' = op
      BY <2>1 DEF requests
    <2> QED
      BY <2>1, <2>2, <2>3
  <1>4. TypeOK'
    <2>1. leaked' \in [Procs -> 0 .. 2] /\ hold' \in BOOLEAN
      <3>1. hold' = FALSE /\ leaked' = [p \in Procs |-> 0]
        BY <1>3
      <3>2. 0 \in 0 .. 2
        OBVIOUS
      <3>3. leaked' \in [Procs -> 0 .. 2]
        BY <3>1, <3>2
      <3> QED
        BY <3>1, <3>3
    <2>2. completed' \in BOOLEAN /\ request' \in Statuses /\ op' \in [Operators -> OpRecord]
      BY <1>3 DEF TypeOK
    <2> QED
      BY <1>2, <1>3, <2>1, <2>2 DEF TypeOK
  <1>5. ASSUME NEW q \in Procs PROVE ProcInv(q)'
    <2>1. CASE q = Holder
      BY <1>2, <1>3, <2>1 DEF ProcInv, WithMail, AboutToSend, At
    <2>2. CASE q # Holder
      <3>1. proc'[q] = proc[q] /\ ProcInv(q)
        BY <1>2, <2>2 DEF OthersKept, IInv
      <3> QED
        BY <1>3, <3>1 DEF ProcInv, AboutToSend, At
    <2> QED
      BY <2>1, <2>2
  <1>6. \A n \in Mails : AtWorkOn(Holder, n)' => AtWorkOn(Holder, n)
    BY <1>2, NoWorkOfRest
  <1>7. DeliveryRecordedOnce' /\ OneAtWork' /\ OperatorsFollowTable'
    BY <1>2, <1>3, <1>6, RecordsAreKept, WorkIsKept, TableIsKept
  <1> QED
    BY <1>4, <1>5, <1>7 DEF IInv

LEMMA ClaimMailStep ==
    ASSUME IInv, NEW w \in Workers, ClaimMail(w)
    PROVE  IInv'
  <1>. TypeOK /\ w \in Procs
    BY WorkerIsProc DEF IInv
  <1>. DEFINE m == proc[w].mail
  <1>1. ProcInv(w) /\ proc[w].phase = "claiming"
    BY DEF IInv, ClaimMail, At
  <1>2. m \in Mails
    BY <1>1 DEF ProcInv, WithMail
  <1>4. /\ UNCHANGED <<accepted, logged, direct, leaked>> /\ mishaps' = mishaps
        /\ UNCHANGED holds /\ UNCHANGED requests
    BY DEF ClaimMail
  <1>5. /\ hold' = hold /\ control' = control /\ op' = op
        /\ request' = request /\ completed' = completed /\ OperatorsFollowTable'
    BY <1>4, SamePlace
  <1>6. CASE ~Claimable(m)
    <2>1. Stop(w) /\ UNCHANGED <<box, overlap>>
      BY <1>6 DEF ClaimMail
    <2> QED
      BY <1>4, <1>5, <2>1, StopFacts, RestStep, TypeParts DEF rows
  <1>7. CASE Claimable(m) /\ proc[w].hold
    <2>. DEFINE row == [box[m] EXCEPT !.status = "HELD", !.lock = "free", !.heldBy = proc[w].ctl]
    <2>1. row \in Rows /\ row.sentEvent = box[m].sentEvent /\ row.status # "SENT"
      <3>1. box[m] \in Rows /\ proc[w].ctl \in Controls \cup {None}
        BY <1>2, ReadRow, ReadProc
      <3> QED
        BY <3>1 DEF Rows
    <2>2. box' = [box EXCEPT ![m] = row] /\ overlap' = overlap /\ NextMail(w)
      BY <1>7, <1>2, RowTypeParts DEF ClaimMail
    <2>. HIDE DEF row, m
    <2>3. proc' \in [Procs -> ProcRecord] /\ OthersKept(w) /\ proc'[w].phase \in {"claim", "idle"}
      BY <2>2, NextMailFacts
    <2>4. ProcInv(w)'
      BY <1>1, <1>4, <1>5, <2>3, RestIsSound DEF WithMail
    <2>5. \A n \in Mails : AtWorkOn(w, n)' => AtWorkOn(w, n)
      BY <2>3, NoWorkOfRest
    <2>6. UNCHANGED <<accepted, logged, direct, overlap, leaked>>
      BY <1>4, <2>2
    <2> QED
      BY <1>2, <1>4, <2>1, <2>2, <2>3, <2>4, <2>5, <2>6, RowStep
  <1>8. CASE Claimable(m) /\ ~proc[w].hold
    <2>1. /\ box' = [box EXCEPT ![m].status = "PROCESSING", ![m].lock = "taken",
                                ![m].attempts = NextAttempt(m)]
          /\ proc' = [proc EXCEPT ![w].phase = "send", ![w].attempts = NextAttempt(m)]
          /\ overlap' = IF \E v \in Workers : AtWorkOn(v, m)
                        THEN overlap \cup {m} ELSE overlap
      BY <1>8 DEF ClaimMail
    <2>2. NextAttempt(m) \in 0 .. MaxAttempts
      BY <1>2, ReadRow, EmailAssumption DEF NextAttempt
    <2>3. /\ box' \in [Mails -> Rows] /\ box'[m].status = "PROCESSING"
          /\ box'[m].sentEvent = box[m].sentEvent
          /\ \A n \in Mails \ {m} : box'[n] = box[n]
      <3>1. box \in [Mails -> Rows] /\ box[m] \in Rows
        BY <1>2, RowTypeParts, ReadRow
      <3> QED
        BY <1>2, <2>1, <2>2, <3>1 DEF Rows
    <2>4. /\ proc' \in [Procs -> ProcRecord] /\ OthersKept(w)
          /\ proc'[w].phase = "send" /\ proc'[w].mail = m
      <3>. DEFINE r == [proc[w] EXCEPT !.phase = "send", !.attempts = NextAttempt(m)]
      <3>1. r \in ProcRecord /\ r.phase = "send" /\ r.mail = m
        <4>1. proc[w] \in ProcRecord
          BY ReadProc
        <4> QED
          BY <2>2, <4>1 DEF ProcRecord, Phases
      <3>2. proc' = [proc EXCEPT ![w] = r]
        BY <2>1, TypeParts DEF ProcRecord
      <3>. HIDE DEF r
      <3> QED
        BY <3>1, <3>2, MoveFacts
    <2>5. overlap' \subseteq Mails /\ overlap \subseteq overlap'
      BY <1>2, <2>1, RowTypeParts
    <2>6. TypeOK'
      BY <1>4, <1>5, <2>3, <2>4, <2>5, WrittenTypes, RowTypeParts, TypeParts
    <2>7. ProcInv(w)'
      BY <1>1, <1>2, <1>4, <1>5, <1>8, <2>4 DEF ProcInv, AboutToSend, At
    <2>8. \A q \in Procs : ProcInv(q)'
      BY <1>4, <1>5, <2>4, <2>7, OthersAreSound
    <2>9. DeliveryRecordedOnce'
      <3>1. \A n \in Mails : /\ box'[n].sentEvent = box[n].sentEvent
                             /\ box'[n].status = "SENT" => box[n].status = "SENT"
        BY <2>3
      <3> QED
        BY <1>4, <3>1, RecordsAreKept
    <2>10. OneAtWork'
      <3>. HIDE DEF m
      <3>1. ASSUME NEW v \in Workers, NEW n \in Mails, AtWorkOn(v, n)'
            PROVE  (v = w /\ n = m) \/ (v # w /\ AtWorkOn(v, n))
        <4>1. v \in Procs
          BY WorkerIsProc
        <4> QED
          BY <2>4, <3>1, <4>1 DEF AtWorkOn, OthersKept
      <3>. SUFFICES ASSUME NEW v \in Workers, NEW n \in Mails, AtWorkOn(v, n)', n \notin overlap'
           PROVE /\ box'[n].status # "SENT"
                 /\ \A u \in Workers : AtWorkOn(u, n)' => u = v
        BY DEF OneAtWork
      <3>2. CASE n = m
        <4>1. \A u \in Workers : ~AtWorkOn(u, m)
          BY <2>1, <3>2
        <4> QED
          BY <2>3, <3>1, <3>2, <4>1
      <3>3. CASE n # m
        <4>1. box'[n] = box[n] /\ n \notin overlap /\ AtWorkOn(v, n)
          BY <2>3, <2>5, <3>1, <3>3
        <4>2. box[n].status # "SENT" /\ \A u \in Workers : AtWorkOn(u, n) => u = v
          BY <4>1 DEF IInv, OneAtWork
        <4> QED
          BY <3>1, <3>3, <4>1, <4>2
      <3> QED
        BY <3>2, <3>3
    <2> QED
      BY <1>5, <2>6, <2>8, <2>9, <2>10 DEF IInv
  <1> QED
    BY <1>6, <1>7, <1>8

LEMMA RecordSentStep ==
    ASSUME IInv, NEW w \in Workers, RecordSent(w)
    PROVE  IInv'
  <1>. TypeOK /\ w \in Procs
    BY WorkerIsProc DEF IInv
  <1>. DEFINE m == proc[w].mail
  <1>1. ProcInv(w) /\ proc[w].phase = "commit"
    BY DEF IInv, RecordSent, At
  <1>2. m \in Mails /\ m \in accepted /\ AtWorkOn(w, m)
    BY <1>1 DEF ProcInv, WithMail, AtWorkOn
  <1>3. UNCHANGED <<accepted, direct, overlap, leaked, completed, op, mishaps>> /\ UNCHANGED holds
    BY DEF RecordSent
  <1>4. hold' = hold /\ control' = control
    BY <1>3 DEF holds
  <1>5. CASE ~EventIsNew(m)
    <2>1. Goto(w, "failed") /\ UNCHANGED <<box, logged, request>>
      BY <1>5 DEF RecordSent
    <2>2. "failed" \in Phases
      BY DEF Phases
    <2>3. /\ proc' \in [Procs -> ProcRecord] /\ OthersKept(w)
          /\ proc'[w].phase = "failed" /\ proc'[w].mail = m
      BY <2>1, <2>2, GotoFacts
    <2>4. ProcInv(w)'
      BY <1>1, <1>2, <1>3, <1>4, <2>3 DEF ProcInv, AboutToSend, At
    <2>5. \A n \in Mails : AtWorkOn(w, n)' => AtWorkOn(w, n)
      BY <1>1, <2>3 DEF AtWorkOn
    <2>6. UNCHANGED rows /\ UNCHANGED requests
      BY <1>3, <2>1 DEF rows, requests
    <2> QED
      BY <1>3, <1>4, <2>3, <2>4, <2>5, <2>6, QuietStep, TypeParts
  <1>6. CASE EventIsNew(m)
    <2>1. /\ box' = [box EXCEPT ![m].status = "SENT", ![m].lock = "free", ![m].sentEvent = TRUE]
          /\ logged' = [logged EXCEPT ![m] = @ + 1]
          /\ request' = Acknowledged(proc[w].seen) \/ request' = request
          /\ NextMail(w)
      BY <1>6 DEF RecordSent
    <2>2. /\ box' \in [Mails -> Rows] /\ box'[m].sentEvent
          /\ \A n \in Mails \ {m} : box'[n] = box[n]
      <3>1. box \in [Mails -> Rows] /\ box[m] \in Rows
        BY <1>2, RowTypeParts, ReadRow
      <3> QED
        BY <1>2, <2>1, <3>1 DEF Rows
    <2>3. /\ logged' \in [Mails -> Nat] /\ logged'[m] = logged[m] + 1
          /\ \A n \in Mails \ {m} : logged'[n] = logged[n]
      BY <1>2, <2>1, RowTypeParts
    <2>4. request' \in Statuses
      <3>1. proc[w].seen \in Statuses /\ "ACKNOWLEDGED" \in Statuses
        BY ReadProc DEF Statuses
      <3> QED
        BY <2>1, <3>1, TypeParts DEF Acknowledged
    <2>5. proc' \in [Procs -> ProcRecord] /\ OthersKept(w) /\ proc'[w].phase \in {"claim", "idle"}
      BY <2>1, NextMailFacts
    <2>6. TypeOK'
      BY <1>3, <1>4, <2>2, <2>3, <2>4, <2>5, WrittenTypes, RowTypeParts
    <2>7. ProcInv(w)'
      BY <1>1, <1>3, <1>4, <2>5, RestIsSound DEF WithMail
    <2>8. \A q \in Procs : ProcInv(q)'
      BY <1>3, <1>4, <2>5, <2>7, OthersAreSound
    <2>9. DeliveryRecordedOnce'
      <3>. SUFFICES ASSUME NEW n \in Mails
           PROVE /\ logged'[n] = IF box'[n].sentEvent THEN 1 ELSE 0
                 /\ box'[n].sentEvent => n \in accepted'
                 /\ box'[n].status = "SENT" => box'[n].sentEvent
        BY DEF DeliveryRecordedOnce
      <3>1. /\ logged[n] = IF box[n].sentEvent THEN 1 ELSE 0
            /\ box[n].sentEvent => n \in accepted
            /\ box[n].status = "SENT" => box[n].sentEvent
        BY DEF IInv, DeliveryRecordedOnce
      <3>2. CASE n = m
        BY <1>2, <1>3, <1>6, <2>2, <2>3, <3>1, <3>2 DEF EventIsNew
      <3>3. CASE n # m
        BY <1>3, <2>2, <2>3, <3>1, <3>3
      <3> QED
        BY <3>2, <3>3
    <2>10. OneAtWork'
      <3>. HIDE DEF m
      <3>1. ASSUME NEW v \in Workers, NEW n \in Mails, AtWorkOn(v, n)'
            PROVE  v # w /\ AtWorkOn(v, n)
        <4>1. v \in Procs
          BY WorkerIsProc
        <4> QED
          BY <2>5, <3>1, <4>1 DEF AtWorkOn, OthersKept
      <3>. SUFFICES ASSUME NEW v \in Workers, NEW n \in Mails, AtWorkOn(v, n)', n \notin overlap
           PROVE /\ box'[n].status # "SENT"
                 /\ \A u \in Workers : AtWorkOn(u, n)' => u = v
        BY <1>3 DEF OneAtWork
      <3>2. v # w /\ AtWorkOn(v, n)
        BY <3>1
      <3>3. box[n].status # "SENT" /\ \A u \in Workers : AtWorkOn(u, n) => u = v
        BY <3>2 DEF IInv, OneAtWork
      <3>4. n # m
        BY <1>2, <3>2, <3>3
      <3> QED
        BY <2>2, <3>1, <3>3, <3>4
    <2>11. OperatorsFollowTable'
      BY <1>3, TableIsKept
    <2> QED
      BY <2>6, <2>8, <2>9, <2>10, <2>11 DEF IInv
  <1> QED
    BY <1>5, <1>6

-----------------------------------------------------------------------------
(* The operators, and the whole.                                           *)

LEMMA StatusStep ==
    ASSUME IInv, NEW o \in Operators, ReadStatus(o) \/ WriteStatus(o)
    PROVE  IInv'
  <1>. TypeOK /\ Holder \in Procs
    BY WorkerIsProc DEF IInv
  <1>1. /\ UNCHANGED <<box, accepted, logged, direct, overlap, leaked>>
        /\ UNCHANGED <<hold, control, mishaps, proc>>
    BY DEF ReadStatus, WriteStatus, rows, holds
  <1>2. op \in [Operators -> OpRecord] /\ op[o] \in OpRecord
    BY DEF TypeOK
  <1>3. /\ op' \in [Operators -> OpRecord] /\ \A x \in Operators \ {o} : op'[x] = op[x]
        /\ op'[o].phase = "write" => Allowed(op'[o].from, op'[o].to)
        /\ request' \in Statuses /\ completed' \in BOOLEAN
    <2>1. CASE ReadStatus(o)
      <3>1. PICK to \in Targets \cup {request}, done \in BOOLEAN :
              /\ Allowed(request, to)
              /\ op' = [op EXCEPT ![o] = [phase |-> "write", from |-> request,
                                          to |-> to, completes |-> done]]
        BY <2>1 DEF ReadStatus
      <3>2. to \in Statuses /\ request \in Statuses
        BY EmailAssumption, TypeParts
      <3>3. [phase |-> "write", from |-> request, to |-> to, completes |-> done] \in OpRecord
        BY <3>2 DEF OpRecord
      <3>4. request' = request /\ completed' = completed
        BY <2>1 DEF ReadStatus
      <3> QED
        BY <1>2, <3>1, <3>3, <3>4 DEF TypeOK
    <2>2. CASE WriteStatus(o)
      <3>1. /\ op' = [op EXCEPT ![o] = OpIdle] /\ request' = op[o].to
            /\ completed' = (completed \/ op[o].completes)
        BY <2>2 DEF WriteStatus
      <3>2. OpIdle \in OpRecord /\ OpIdle.phase # "write"
        BY NullTypes DEF OpIdle
      <3>3. op[o].to \in Statuses
        BY <1>2 DEF OpRecord
      <3>4. completed' \in BOOLEAN
        BY <3>1
      <3> QED
        BY <1>2, <3>1, <3>2, <3>3, <3>4
    <2> QED
      BY <2>1, <2>2
  <1>4. TypeOK'
    BY <1>1, <1>3 DEF TypeOK
  <1>5. \A q \in Procs : ProcInv(q)'
    BY <1>1 DEF IInv, ProcInv, AboutToSend, At
  <1>6. DeliveryRecordedOnce'
    BY <1>1, RecordsAreKept
  <1>7. OneAtWork'
    BY <1>1 DEF IInv, OneAtWork, AtWorkOn
  <1>8. OperatorsFollowTable'
    BY <1>3 DEF IInv, OperatorsFollowTable
  <1> QED
    BY <1>4, <1>5, <1>6, <1>7, <1>8 DEF IInv

LEMMA InitIInv == Init => IInv
  <1>. SUFFICES ASSUME Init PROVE IInv
    OBVIOUS
  <1>1. TypeOK
    <2>1. box \in [Mails -> Rows]
      BY NullTypes DEF Init
    <2>2. proc \in [Procs -> ProcRecord] /\ op \in [Operators -> OpRecord]
      BY NullTypes DEF Init
    <2>3. leaked \in [Procs -> 0 .. 2] /\ mishaps \in 0 .. MaxMishaps /\ request \in Statuses
      BY EmailAssumption DEF Init, Statuses
    <2>4. logged \in [Mails -> Nat] /\ control \in [Controls -> {"none", "ACTIVE", "RECOVERED"}]
      BY DEF Init
    <2> QED
      BY <2>1, <2>2, <2>3, <2>4 DEF Init, TypeOK
  <1>2. ASSUME NEW p \in Procs PROVE ProcInv(p) /\ proc[p].phase = "idle"
    BY DEF Init, ProcInv, WithMail, AboutToSend, At, Idle
  <1>3. DeliveryRecordedOnce
    BY DEF Init, DeliveryRecordedOnce, NoRow
  <1>4. OneAtWork
    BY <1>2, WorkerIsProc DEF OneAtWork, AtWorkOn
  <1>5. OperatorsFollowTable
    BY DEF Init, OperatorsFollowTable, OpIdle
  <1> QED
    BY <1>1, <1>2, <1>3, <1>4, <1>5 DEF IInv

LEMMA NextIInv == IInv /\ [Next]_vars => IInv'
  <1>. SUFFICES ASSUME IInv, [Next]_vars PROVE IInv'
    OBVIOUS
  <1>1. ASSUME NEW w \in Workers, BeginRun(w) PROVE IInv'
    BY <1>1, BeginRunStep
  <1>2. ASSUME NEW w \in Workers, WorkerStep(w) PROVE IInv'
    BY <1>2, SelectMailStep, ClaimMailStep, SendMailStep, BeginRecordStep, RecordSentStep,
       RecordFailedStep DEF WorkerStep
  <1>3. ASSUME NEW p \in Procs, ReleaseStep(p) PROVE IInv'
    BY <1>3, ReleaseQuietStep, ApplyVerdictStep DEF ReleaseStep
  <1>4. ASSUME NEW p \in Procs, ReadControl(p) \/ Die(p) PROVE IInv'
    BY <1>4, ReadControlStep, DieStep
  <1>5. CASE SetHold \/ RecordHold \/ LiftHold \/ RecordLift
    BY <1>5, HolderQuietStep, LiftHoldStep
  <1>6. CASE Notify \/ NotifyEnds
    BY <1>6, NotifyStep, NotifyEndsStep
  <1>7. ASSUME NEW o \in Operators, ReadStatus(o) \/ WriteStatus(o) PROVE IInv'
    BY <1>7, StatusStep
  <1>8. ASSUME NEW m \in Mails, LockRunsOut(m) \/ RetryDue(m) PROVE IInv'
    BY <1>8, TimeStep
  <1>9. CASE UNCHANGED vars
    <2>1. UNCHANGED rows /\ UNCHANGED holds /\ UNCHANGED requests /\ proc' = proc /\ mishaps' = mishaps
      BY <1>9 DEF vars, rows, holds, requests
    <2>2. Holder \in Procs /\ OthersKept(Holder)
      BY <2>1, WorkerIsProc DEF OthersKept
    <2>3. ProcInv(Holder)'
      BY <2>1, <2>2 DEF IInv, ProcInv, AboutToSend, At, rows, holds
    <2> QED
      BY <2>1, <2>2, <2>3, QuietStep, TypeParts DEF IInv, AtWorkOn, holds
  <1> QED
    BY <1>1, <1>2, <1>3, <1>4, <1>5, <1>6, <1>7, <1>8, <1>9 DEF Next

\* The mails' rows, the requests at work and what they know of their mails
\* stay as IInv has them.
THEOREM Invariance == Spec => []IInv
  <1> QED
    BY InitIInv, NextIInv, PTL DEF Spec

\* The types of the outbox, the holds, the status and the requests at work.
THEOREM TypeCorrect == Spec => []TypeOK
  <1>1. IInv => TypeOK
    BY DEF IInv
  <1> QED
    BY <1>1, Invariance, PTL

\* However many workers think they made it, a delivery has one entry in the
\* log and one event, and the provider took the mail.
THEOREM DeliveriesAreRecordedOnce == Spec => []DeliveryRecordedOnce
  <1>1. IInv => DeliveryRecordedOnce
    BY DEF IInv
  <1> QED
    BY <1>1, Invariance, PTL

\* Each process sends at most one mail of a held class: the one it had read
\* the hold for.
THEOREM OneMailSlipsThrough == Spec => []HoldLetsOneThrough
  <1>1. IInv => HoldLetsOneThrough
    BY DEF IInv, HoldLetsOneThrough, ProcInv
  <1> QED
    BY <1>1, Invariance, PTL

-----------------------------------------------------------------------------
(* What a step may never do.                                               *)

\* Which steps write to the outbox at all.
LEMMA RowsOrStatus ==
    ASSUME [Next]_vars
    PROVE  \/ box' = box /\ request' = request
           \/ \E p \in Procs : ApplyVerdict(p)
           \/ \E w \in Workers : ClaimMail(w) \/ RecordSent(w) \/ RecordFailed(w)
           \/ NotifyEnds
           \/ \E o \in Operators : WriteStatus(o)
           \/ \E m \in Mails : LockRunsOut(m) \/ RetryDue(m)
  <1>1. CASE UNCHANGED vars
    BY <1>1 DEF vars
  <1>2. ASSUME NEW w \in Workers, BeginRun(w) \/ SelectMail(w) \/ SendMail(w) \/ BeginRecord(w)
        PROVE  box' = box /\ request' = request
    BY <1>2 DEF BeginRun, SelectMail, SendMail, BeginRecord, rows, requests
  <1>3. ASSUME NEW p \in Procs, Revalidate(p) \/ EndRelease(p) \/ ReadControl(p) \/ Die(p)
        PROVE  box' = box /\ request' = request
    BY <1>3 DEF Revalidate, EndRelease, ReadControl, Die, rows, requests
  <1>4. CASE SetHold \/ RecordHold \/ LiftHold \/ RecordLift \/ Notify
    BY <1>4 DEF SetHold, RecordHold, LiftHold, RecordLift, Notify, rows, requests
  <1>5. ASSUME NEW o \in Operators, ReadStatus(o) PROVE box' = box /\ request' = request
    BY <1>5 DEF ReadStatus, rows
  <1> QED
    BY <1>1, <1>2, <1>3, <1>4, <1>5 DEF Next, WorkerStep, ReleaseStep

LEMMA SentStep ==
    ASSUME IInv, [Next]_vars, NEW m \in Mails, box[m].status = "SENT", box'[m].status # "SENT"
    PROVE  m \in overlap
  <1>. TypeOK
    BY DEF IInv
  <1>0. box \in [Mails -> Rows] /\ box[m] \in Rows
    BY RowTypeParts
  <1>1. ASSUME NEW p \in Procs, ApplyVerdict(p) PROVE FALSE
    <2>. DEFINE n == proc[p].mail
    <2>1. box' = [box EXCEPT ![n] = CASE proc[p].verdict = "release" -> ReleasedRow(n)
                                      [] proc[p].verdict = "cancel" /\ box[n].status = "HELD" ->
                                           [box[n] EXCEPT !.status = "CANCELLED"]
                                      [] OTHER -> box[n]]
      BY <1>1 DEF ApplyVerdict
    <2>2. n = m /\ box'[m] # box[m]
      BY <1>0, <2>1
    <2> QED
      BY <1>0, <2>1, <2>2 DEF ReleasedRow
  <1>2. ASSUME NEW w \in Workers, ClaimMail(w) PROVE FALSE
    <2>. DEFINE n == proc[w].mail
    <2>1. ~Claimable(m)
      BY DEF Claimable, Waiting, LockExpired
    <2>2. box'[m] = box[m]
      <3>1. CASE n = m
        BY <1>2, <2>1, <3>1 DEF ClaimMail
      <3>2. CASE n # m
        BY <1>0, <1>2, <3>2 DEF ClaimMail
      <3> QED
        BY <3>1, <3>2
    <2> QED
      BY <2>2
  <1>3. ASSUME NEW w \in Workers, RecordSent(w) PROVE FALSE
    <2>1. CASE proc[w].mail = m
      BY <1>0, <1>3, <2>1 DEF RecordSent, Rows
    <2>2. CASE proc[w].mail # m
      BY <1>0, <1>3, <2>2 DEF RecordSent
    <2> QED
      BY <2>1, <2>2
  <1>4. ASSUME NEW w \in Workers, RecordFailed(w) PROVE m \in overlap
    <2>1. proc[w].mail = m
      BY <1>0, <1>4 DEF RecordFailed
    <2>2. AtWorkOn(w, m)
      BY <1>4, <2>1 DEF RecordFailed, AtWorkOn, At
    <2> QED
      BY <2>2 DEF IInv, OneAtWork
  <1>5. ASSUME NotifyEnds PROVE FALSE
    <2>1. box' = box \/ /\ box[proc[Notifier].mail].status = "none"
                        /\ box' = [box EXCEPT ![proc[Notifier].mail].status = "HELD",
                                              ![proc[Notifier].mail].heldBy = proc[Notifier].ctl]
      BY <1>5 DEF NotifyEnds
    <2> QED
      BY <1>0, <2>1
  <1>6. ASSUME NEW o \in Operators, WriteStatus(o) PROVE FALSE
    BY <1>6 DEF WriteStatus, rows
  <1>7. ASSUME NEW n \in Mails, LockRunsOut(n) \/ RetryDue(n) PROVE FALSE
    BY <1>0, <1>7 DEF LockRunsOut, RetryDue, Rows
  <1> QED
    BY <1>1, <1>2, <1>3, <1>4, <1>5, <1>6, <1>7, RowsOrStatus

LEMMA ClosedStep ==
    ASSUME IInv, [Next]_vars, request \in Terminal, request' # request
    PROVE  \/ \E o \in Operators : op[o].phase = "write" /\ op[o].from # request
           \/ \E w \in Workers : At(w, "commit") /\ proc[w].seen # request
  <1>1. ASSUME NEW o \in Operators, WriteStatus(o)
        PROVE  op[o].phase = "write" /\ op[o].from # request
    <2>1. op[o].phase = "write" /\ request' = op[o].to
      BY <1>1 DEF WriteStatus
    <2>2. Allowed(op[o].from, op[o].to)
      BY <2>1 DEF IInv, OperatorsFollowTable
    <2> QED
      BY <2>1, <2>2 DEF Allowed
  <1>2. ASSUME NEW w \in Workers, RecordSent(w)
        PROVE  At(w, "commit") /\ proc[w].seen # request
    <2>1. At(w, "commit") /\ request' = Acknowledged(proc[w].seen)
      BY <1>2 DEF RecordSent
    <2>2. request # "REQUESTED"
      BY DEF Terminal
    <2> QED
      BY <2>1, <2>2 DEF Acknowledged
  <1>3. ASSUME NEW p \in Procs, ApplyVerdict(p) PROVE FALSE
    BY <1>3 DEF ApplyVerdict, requests
  <1>4. ASSUME NEW w \in Workers, ClaimMail(w) \/ RecordFailed(w) PROVE FALSE
    BY <1>4 DEF ClaimMail, RecordFailed, requests
  <1>5. ASSUME NotifyEnds PROVE FALSE
    BY <1>5 DEF NotifyEnds, requests
  <1>6. ASSUME NEW m \in Mails, LockRunsOut(m) \/ RetryDue(m) PROVE FALSE
    BY <1>6 DEF LockRunsOut, RetryDue, requests
  <1> QED
    BY <1>1, <1>2, <1>3, <1>4, <1>5, <1>6, RowsOrStatus

\* A mail that was sent is queued, held or failed again only when two workers
\* were at work on it.
THEOREM SentMailIsDone == Spec => SentIsFinal
  <1>1. IInv /\ [Next]_vars =>
          [\A m \in Mails :
             box[m].status = "SENT" /\ box[m].status' # "SENT" => m \in overlap]_vars
    BY SentStep
  <1> QED
    BY <1>1, Invariance, PTL DEF Spec, SentIsFinal

\* A closed request changes only by the write of a process that had read
\* another status.
THEOREM ClosedRequestStays == Spec => ClosedStaysClosed
  <1>1. IInv /\ [Next]_vars =>
          [(request \in Terminal /\ request' # request) =>
             \/ \E o \in Operators : op[o].phase = "write" /\ op[o].from # request
             \/ \E w \in Workers : At(w, "commit") /\ proc[w].seen # request]_vars
    BY ClosedStep
  <1> QED
    BY <1>1, Invariance, PTL DEF Spec, ClosedStaysClosed
=============================================================================
