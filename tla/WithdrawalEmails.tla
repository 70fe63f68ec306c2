-------------------------- MODULE WithdrawalEmails --------------------------
(***************************************************************************)
(* The mails of one withdrawal request: the outbox and its workers         *)
(* (app/services/withdrawalEmailOutbox.server.js), the hold of the class   *)
(* of legal mails (setEmailClassHold of operationalReadiness.server.js),   *)
(* and the status of the request, which operators move on                  *)
(* (withdrawals/lifecycle and completion) while the worker that delivered  *)
(* the acknowledgement marks it ACKNOWLEDGED.                              *)
(*                                                                         *)
(* A statement that commits by itself is a step.  The claim of a mail and  *)
(* the record of a delivery are READ COMMITTED transactions; each is split *)
(* between its reads and its commit.  Times are left out: a lock of five   *)
(* minutes runs out, and a retry comes due, at any moment.                 *)
(***************************************************************************)
EXTENDS Naturals, FiniteSets

CONSTANTS
  Mails,        \* rows of the outbox, numbered in the order of createdAt
  TypeOf,       \* messageType of each
  Workers,      \* requests that run processWithdrawalEmailOutbox
  Controls,     \* operational_controls rows there can be, one per hold
  Operators,    \* requests that move the status of the withdrawal
  Targets,      \* the statuses they move it to
  MaxAttempts,  \* MAX_ATTEMPTS
  MaxMishaps,   \* bound: processes that die
  Holder,       \* the request that sets or lifts the hold
  Notifier,     \* the request that sends a mail outside the outbox
  None          \* no control

Terminal == {"REFUNDED", "CANCELLED", "REJECTED", "EXPIRED"}
Statuses == Terminal \cup
  {"REQUESTED", "ACKNOWLEDGED", "UNDER_REVIEW", "APPROVED",
   "RETURN_REQUESTED", "RETURN_RECEIVED", "REFUND_PENDING", "ERROR"}

ASSUME EmailAssumption ==
  /\ Mails \subseteq Nat
  /\ TypeOf \in [Mails -> {"acknowledgement", "status_update", "completion"}]
  /\ Targets \subseteq Statuses
  /\ MaxAttempts \in Nat \ {0}
  /\ MaxMishaps \in Nat
  /\ None \notin Controls /\ None \notin Mails
  /\ Holder \notin Workers /\ Notifier \notin Workers /\ Holder # Notifier

VARIABLES
  box,       \* the outbox
  accepted,  \* mails the provider has taken, with their idempotency key
  logged,    \* number of deliveries in the mail log, for each mail
  direct,    \* mails the log shows as sent outside the outbox
  hold,      \* legalEmailHold of the platform's row
  control,   \* the rows of the hold
  request,   \* status of the withdrawal request
  completed, \* completedAt is set
  proc,      \* the requests at work on mails and on the hold
  op,        \* the requests at work on the status
  overlap,   \* history: mails two workers were at work on at a time
  leaked,    \* history: mails each has sent since the hold was set
  mishaps    \* deaths so far

vars == <<box, accepted, logged, direct, hold, control, request, completed,
          proc, op, overlap, leaked, mishaps>>
rows == <<box, accepted, logged, direct, overlap, leaked>>
holds == <<hold, control>>
requests == <<request, completed, op>>

Procs == Workers \cup {Holder, Notifier}
Rows ==
  [status: {"none", "PENDING", "PROCESSING", "FAILED", "SENT", "HELD",
            "CANCELLED", "DEAD_LETTER"},
   attempts: 0 .. MaxAttempts, lock: {"free", "taken", "expired"},
   due: BOOLEAN, heldBy: Controls \cup {None}, sentEvent: BOOLEAN]
NoRow == [status |-> "none", attempts |-> 0, lock |-> "free", due |-> FALSE,
          heldBy |-> None, sentEvent |-> FALSE]

Phases == {"idle", "release", "apply", "claim", "control", "claiming", "send",
           "sent", "commit", "failed", "activated", "lifted", "snapshot"}
Verdicts == {"release", "cancel", "keep"}
ProcRecord ==
  [phase: Phases, mail: Mails \cup {None}, todo: SUBSET Mails, hold: BOOLEAN,
   ctl: Controls \cup {None}, attempts: 0 .. MaxAttempts,
   seen: Statuses, verdict: Verdicts]
Idle == [phase |-> "idle", mail |-> None, todo |-> {}, hold |-> FALSE,
         ctl |-> None, attempts |-> 0, seen |-> "REQUESTED",
         verdict |-> "keep"]
OpIdle == [phase |-> "idle", from |-> "REQUESTED", to |-> "REQUESTED",
           completes |-> FALSE]
OpRecord == [phase: {"idle", "write"}, from: Statuses, to: Statuses,
             completes: BOOLEAN]

(* The request has been submitted: its row and the acknowledgement's       *)
(* outbox row are created in one transaction.                              *)
Init ==
  /\ box = [m \in Mails |-> IF TypeOf[m] = "acknowledgement"
                            THEN [NoRow EXCEPT !.status = "PENDING", !.due = TRUE]
                            ELSE NoRow]
  /\ accepted = {}
  /\ logged = [m \in Mails |-> 0]
  /\ direct = {}
  /\ hold = FALSE
  /\ control = [c \in Controls |-> "none"]
  /\ request = "REQUESTED"
  /\ completed = FALSE
  /\ proc = [p \in Procs |-> Idle]
  /\ op = [o \in Operators |-> OpIdle]
  /\ overlap = {}
  /\ leaked = [p \in Procs |-> 0]
  /\ mishaps = 0

At(p, phase) == proc[p].phase = phase
Goto(p, phase) == proc' = [proc EXCEPT ![p].phase = phase]
Begin(p, phase) == proc' = [proc EXCEPT ![p] = [Idle EXCEPT !.phase = phase]]
Stop(p) == proc' = [proc EXCEPT ![p] = Idle]

\* A transaction that has updated the row holds its lock until it commits.
RowFree(m) == \A p \in Procs : ~(At(p, "commit") /\ proc[p].mail = m)

AtWorkOn(p, m) ==
  proc[p].mail = m /\ proc[p].phase \in {"send", "sent", "commit", "failed"}

(* The control whose hold is in force; activeKey is unique, so there is    *)
(* one at most.                                                            *)
ActiveControl ==
  IF \E c \in Controls : control[c] = "ACTIVE"
  THEN CHOOSE c \in Controls : control[c] = "ACTIVE" ELSE None

\* A mail leaves while the hold is set.
Leak(p) ==
  leaked' = IF hold /\ leaked[p] < 2 THEN [leaked EXCEPT ![p] = @ + 1]
            ELSE leaked

-----------------------------------------------------------------------------
(* Releasing held mails, by the worker and by the request that lifts a     *)
(* hold.                                                                   *)

Held == {m \in Mails : box[m].status = "HELD"}
HeldBy(c) == {m \in Held : box[m].heldBy = c}

\* Mutant: the oldest held mail is looked for among all of them.
OldestOfAll(m) ==
  /\ m \in Held /\ box[m].heldBy # None
  /\ \A n \in Held : m <= n

(* The worker's candidate: the oldest held mail that names its control.    *)
OldestHeld(m) ==
  /\ m \in Held /\ box[m].heldBy # None
  /\ \A n \in Held : box[n].heldBy # None => m <= n

Released(m) == OldestHeld(m) /\ control[box[m].heldBy] = "RECOVERED"

(* A run of the worker begins with the mails of the candidate's control,   *)
(* if that control has been recovered (its reads are one step: a recovered *)
(* control stays so).                                                      *)
BeginRun(w) ==
  /\ w \in Workers /\ At(w, "idle")
  /\ \/ \E m \in Mails :
          /\ Released(m)
          /\ proc' = [proc EXCEPT ![w] =
                        [Idle EXCEPT !.phase = "release", !.seen = request,
                                     !.todo = HeldBy(box[m].heldBy)]]
     \/ /\ \A m \in Mails : ~Released(m)
        /\ Begin(w, "claim")
  /\ UNCHANGED <<rows, holds, requests, mishaps>>

(* revalidateHeldEmail: the hold and the log are read now, the status of   *)
(* the request was read with the candidates.  A mail that may not go out   *)
(* any more is cancelled if it is a status update, and else stays held.    *)
InLog(m) == logged[m] > 0 \/ m \in direct
Verdict(m, seen) ==
  CASE hold -> "keep"
    [] ~hold /\ TypeOf[m] = "status_update" /\ (seen \in Terminal \/ InLog(m)) ->
         "cancel"
    [] ~hold /\ TypeOf[m] # "status_update" /\
         (InLog(m) \/ (TypeOf[m] = "completion" /\ seen \notin Terminal)) ->
         "keep"
    [] OTHER -> "release"

Revalidate(p) ==
  /\ At(p, "release")
  /\ \E m \in proc[p].todo :
       proc' = [proc EXCEPT ![p].phase = "apply", ![p].mail = m,
                            ![p].verdict = Verdict(m, proc[p].seen)]
  /\ UNCHANGED <<rows, holds, requests, mishaps>>

\* Mutants: the mail gets a status no claim asks for; whatever has become of
\* it, it is sent again.
ReleasedAsQueued(m) == [box[m] EXCEPT !.status = "QUEUED"]
ReleasedWhatever(m) ==
  [box[m] EXCEPT !.status = "PENDING", !.due = TRUE, !.heldBy = None]

ReleasedRow(m) ==
  IF box[m].status = "HELD"
  THEN [box[m] EXCEPT !.status = "PENDING", !.due = TRUE, !.heldBy = None]
  ELSE box[m]

ApplyVerdict(p) ==
  /\ At(p, "apply") /\ RowFree(proc[p].mail)
  /\ LET m == proc[p].mail IN
     /\ box' = [box EXCEPT ![m] =
                  CASE proc[p].verdict = "release" -> ReleasedRow(m)
                    [] proc[p].verdict = "cancel" /\ @.status = "HELD" ->
                         [@ EXCEPT !.status = "CANCELLED"]
                    [] OTHER -> @]
     /\ proc' = [proc EXCEPT ![p].phase = "release", ![p].mail = None,
                             ![p].verdict = "keep", ![p].todo = @ \ {m}]
  /\ UNCHANGED <<accepted, logged, direct, overlap, leaked>>
  /\ UNCHANGED <<holds, requests, mishaps>>

\* The worker goes on to the queue; the request that lifted the hold ends.
EndRelease(p) ==
  /\ At(p, "release") /\ proc[p].todo = {}
  /\ IF p = Holder THEN Stop(p) ELSE Begin(p, "claim")
  /\ UNCHANGED <<rows, holds, requests, mishaps>>

-----------------------------------------------------------------------------
(* The worker: claim, send, record.                                        *)

Waiting(m) == box[m].status \in {"PENDING", "FAILED"}
LockExpired(m) == box[m].status = "PROCESSING" /\ box[m].lock = "expired"
Ready(m) == (Waiting(m) /\ box[m].due) \/ LockExpired(m)

\* Mutant: a mail that has been tried once is sent in spite of a hold.
HoldOfFirstTry(m) == hold /\ box[m].attempts = 0

\* The hold of the mail's class.
HoldOn(m) == hold

(* claimNextOutboxItem: a candidate and the hold of its class are read.    *)
SelectMail(w) ==
  /\ At(w, "claim")
  /\ \/ \E m \in Mails :
          /\ Ready(m)
          /\ proc' = [proc EXCEPT ![w] =
               [Idle EXCEPT !.phase = IF HoldOn(m) THEN "control" ELSE "claiming",
                            !.mail = m, !.hold = HoldOn(m)]]
     \/ /\ \A m \in Mails : ~Ready(m)
        /\ Stop(w)
  /\ UNCHANGED <<rows, holds, requests, mishaps>>

(* getEmailClassHoldStatus reads the control of a hold after the hold; the *)
(* mail names none if the control is not there yet, or not there any more. *)
ReadControl(p) ==
  /\ At(p, "control")
  /\ proc' = [proc EXCEPT ![p].phase = IF p = Notifier THEN "snapshot"
                                       ELSE "claiming",
                          ![p].ctl = ActiveControl]
  /\ UNCHANGED <<rows, holds, requests, mishaps>>

\* Mutant: the lock of a worker that died is not looked at.
ClaimableWaiting(m) == Waiting(m)

\* The where clause of the claim.
Claimable(m) == Waiting(m) \/ LockExpired(m)

NextAttempt(m) ==
  IF box[m].attempts < MaxAttempts THEN box[m].attempts + 1 ELSE MaxAttempts

\* Ten mails, or fewer when so asked, end a run.
NextMail(w) == Begin(w, "claim") \/ Stop(w)

ClaimMail(w) ==
  /\ At(w, "claiming") /\ RowFree(proc[w].mail)
  /\ LET m == proc[w].mail IN
     \/ /\ ~Claimable(m)
        /\ Stop(w)
        /\ UNCHANGED <<box, overlap>>
     \/ /\ Claimable(m) /\ proc[w].hold
        /\ box' = [box EXCEPT ![m].status = "HELD", ![m].lock = "free",
                              ![m].heldBy = proc[w].ctl]
        /\ NextMail(w)
        /\ UNCHANGED overlap
     \/ /\ Claimable(m) /\ ~proc[w].hold
        /\ box' = [box EXCEPT ![m].status = "PROCESSING", ![m].lock = "taken",
                              ![m].attempts = NextAttempt(m)]
        /\ proc' = [proc EXCEPT ![w].phase = "send",
                                ![w].attempts = NextAttempt(m)]
        /\ overlap' = IF \E v \in Workers : AtWorkOn(v, m)
                      THEN overlap \cup {m} ELSE overlap
  /\ UNCHANGED <<accepted, logged, direct, leaked>>
  /\ UNCHANGED <<holds, requests, mishaps>>

(* The provider takes the mail or not, and its answer arrives or not.      *)
SendMail(w) ==
  /\ At(w, "send")
  /\ LET m == proc[w].mail IN
     \/ accepted' = accepted \cup {m} /\ Goto(w, "sent") /\ Leak(w)
     \/ accepted' = accepted \cup {m} /\ Goto(w, "failed") /\ Leak(w)
     \/ Goto(w, "failed") /\ UNCHANGED <<accepted, leaked>>
  /\ UNCHANGED <<box, logged, direct, overlap>>
  /\ UNCHANGED <<holds, requests, mishaps>>

\* The delivery's transaction updates the row and reads the request.
BeginRecord(w) ==
  /\ At(w, "sent") /\ RowFree(proc[w].mail)
  /\ proc' = [proc EXCEPT ![w].phase = "commit", ![w].seen = request]
  /\ UNCHANGED <<rows, holds, requests, mishaps>>

\* Mutant: the event has no unique key.
EventAlwaysNew(m) == TRUE

\* The event "email-sent" of a mail can be created once.
EventIsNew(m) == ~box[m].sentEvent
Acknowledged(seen) == IF seen = "REQUESTED" THEN "ACKNOWLEDGED" ELSE seen

(* The transaction ends with the event; if there is one it is undone, and  *)
(* the delivery counts as failed.                                          *)
RecordSent(w) ==
  /\ At(w, "commit")
  /\ LET m == proc[w].mail IN
     \/ /\ EventIsNew(m)
        /\ box' = [box EXCEPT ![m].status = "SENT", ![m].lock = "free",
                              ![m].sentEvent = TRUE]
        /\ logged' = [logged EXCEPT ![m] = @ + 1]
        /\ IF TypeOf[m] = "acknowledgement"
           THEN request' = Acknowledged(proc[w].seen)
           ELSE UNCHANGED request
        /\ NextMail(w)
     \/ /\ ~EventIsNew(m)
        /\ Goto(w, "failed")
        /\ UNCHANGED <<box, logged, request>>
  /\ UNCHANGED <<accepted, direct, overlap, leaked, completed, op>>
  /\ UNCHANGED <<holds, mishaps>>

\* The row is written by its id, whatever another worker made of it.
RecordFailed(w) ==
  /\ At(w, "failed") /\ RowFree(proc[w].mail)
  /\ box' = [box EXCEPT ![proc[w].mail] =
       [@ EXCEPT !.status = IF proc[w].attempts >= MaxAttempts
                            THEN "DEAD_LETTER" ELSE "FAILED",
                 !.due = FALSE, !.lock = "free"]]
  /\ NextMail(w)
  /\ UNCHANGED <<accepted, logged, direct, overlap, leaked>>
  /\ UNCHANGED <<holds, requests, mishaps>>

-----------------------------------------------------------------------------
(* setEmailClassHold: first the field, then the control, then the mails.   *)

SetHold ==
  /\ At(Holder, "idle")
  /\ \E c \in Controls : control[c] = "none"
  /\ hold' = TRUE
  /\ Goto(Holder, "activated")
  /\ UNCHANGED <<rows, control, requests, mishaps>>

RecordHold ==
  /\ At(Holder, "activated")
  /\ IF ActiveControl # None THEN UNCHANGED control
     ELSE \E c \in Controls :
            control[c] = "none" /\ control' = [control EXCEPT ![c] = "ACTIVE"]
  /\ Stop(Holder)
  /\ UNCHANGED <<rows, hold, requests, mishaps>>

LiftHold ==
  /\ At(Holder, "idle")
  /\ hold' = FALSE
  /\ leaked' = [p \in Procs |-> 0]
  /\ Goto(Holder, "lifted")
  /\ UNCHANGED <<box, accepted, logged, direct, overlap, control, requests,
                 mishaps>>

\* Without a control every held mail is a candidate.
ToRelease(c) == IF c = None THEN Held ELSE HeldBy(c)

RecordLift ==
  /\ At(Holder, "lifted")
  /\ control' = [c \in Controls |->
                   IF c = ActiveControl THEN "RECOVERED" ELSE control[c]]
  /\ proc' = [proc EXCEPT ![Holder] =
                [Idle EXCEPT !.phase = "release", !.seen = request,
                             !.todo = ToRelease(ActiveControl)]]
  /\ UNCHANGED <<rows, hold, requests, mishaps>>

-----------------------------------------------------------------------------
(* sendWithdrawalEmail, for the mails that are not queued at submission.   *)

Notify ==
  /\ At(Notifier, "idle")
  /\ \E m \in Mails :
       /\ \/ TypeOf[m] = "status_update"
          \/ TypeOf[m] = "completion" /\ completed
       /\ m \notin direct
       /\ proc' = [proc EXCEPT ![Notifier] =
            [Idle EXCEPT !.phase = IF hold THEN "control" ELSE "snapshot",
                         !.mail = m, !.hold = hold]]
  /\ UNCHANGED <<rows, holds, requests, mishaps>>

\* Under a hold the mail is stored, once; without one it is sent.
NotifyEnds ==
  /\ At(Notifier, "snapshot")
  /\ LET m == proc[Notifier].mail IN
     IF proc[Notifier].hold
     THEN /\ box' = IF box[m].status # "none" THEN box
                    ELSE [box EXCEPT ![m].status = "HELD",
                                     ![m].heldBy = proc[Notifier].ctl]
          /\ UNCHANGED <<direct, leaked>>
     ELSE /\ \/ direct' = direct \cup {m} /\ Leak(Notifier)
             \/ UNCHANGED <<direct, leaked>>
          /\ UNCHANGED box
  /\ Stop(Notifier)
  /\ UNCHANGED <<accepted, logged, overlap, holds, requests, mishaps>>

-----------------------------------------------------------------------------
(* updateWithdrawalStatus and updateWithdrawalCompletionRecord.            *)

AllowedTransitions ==
  [REQUESTED |-> Statuses \ {"RETURN_RECEIVED", "REFUND_PENDING"},
   ACKNOWLEDGED |-> Statuses \ {"REQUESTED"},
   UNDER_REVIEW |-> Statuses \ {"REQUESTED", "ACKNOWLEDGED"},
   APPROVED |-> {"RETURN_REQUESTED", "RETURN_RECEIVED", "REFUND_PENDING",
                 "REFUNDED", "CANCELLED", "REJECTED", "ERROR"},
   RETURN_REQUESTED |-> {"RETURN_RECEIVED", "REFUND_PENDING", "REFUNDED",
                         "REJECTED", "ERROR"},
   RETURN_RECEIVED |-> {"REFUND_PENDING", "REFUNDED", "REJECTED", "ERROR"},
   REFUND_PENDING |-> {"REFUNDED", "CANCELLED", "REJECTED", "ERROR"},
   ERROR |-> {"UNDER_REVIEW", "REJECTED", "EXPIRED"}]

Allowed(from, to) ==
  from = to \/ (from \notin Terminal /\ to \in AllowedTransitions[from])

(* A refund or a cancellation completes the request; a completion record   *)
(* does so for a rejection, and with MANUAL_CLOSED keeps the status.       *)
ReadStatus(o) ==
  /\ op[o].phase = "idle"
  /\ \E to \in Targets \cup {request}, done \in BOOLEAN :
       /\ Allowed(request, to)
       /\ to \in {"REFUNDED", "CANCELLED"} => done
       /\ done => to \in {"REFUNDED", "CANCELLED", "REJECTED", request}
       /\ op' = [op EXCEPT ![o] = [phase |-> "write", from |-> request,
                                   to |-> to, completes |-> done]]
  /\ UNCHANGED <<rows, holds, request, completed, proc, mishaps>>

WriteStatus(o) ==
  /\ op[o].phase = "write"
  /\ request' = op[o].to
  /\ completed' = (completed \/ op[o].completes)
  /\ op' = [op EXCEPT ![o] = OpIdle]
  /\ UNCHANGED <<rows, holds, proc, mishaps>>

-----------------------------------------------------------------------------
(* Time and deaths.                                                        *)

LockRunsOut(m) ==
  /\ box[m].lock = "taken"
  /\ box' = [box EXCEPT ![m].lock = "expired"]
  /\ UNCHANGED <<accepted, logged, direct, overlap, leaked>>
  /\ UNCHANGED <<holds, requests, proc, mishaps>>

RetryDue(m) ==
  /\ box[m].status = "FAILED" /\ ~box[m].due
  /\ box' = [box EXCEPT ![m].due = TRUE]
  /\ UNCHANGED <<accepted, logged, direct, overlap, leaked>>
  /\ UNCHANGED <<holds, requests, proc, mishaps>>

(* A process dies, or the database refuses its next statement.             *)
Die(p) ==
  /\ mishaps < MaxMishaps
  /\ ~At(p, "idle")
  /\ Stop(p)
  /\ mishaps' = mishaps + 1
  /\ UNCHANGED <<rows, holds, requests>>

-----------------------------------------------------------------------------
WorkerStep(w) ==
  \/ SelectMail(w) \/ ClaimMail(w) \/ SendMail(w) \/ BeginRecord(w)
  \/ RecordSent(w) \/ RecordFailed(w)
ReleaseStep(p) == Revalidate(p) \/ ApplyVerdict(p) \/ EndRelease(p)

Next ==
  \/ \E w \in Workers : BeginRun(w) \/ WorkerStep(w)
  \/ \E p \in Procs : ReleaseStep(p) \/ ReadControl(p) \/ Die(p)
  \/ SetHold \/ RecordHold \/ LiftHold \/ RecordLift
  \/ Notify \/ NotifyEnds
  \/ \E o \in Operators : ReadStatus(o) \/ WriteStatus(o)
  \/ \E m \in Mails : LockRunsOut(m) \/ RetryDue(m)

Spec == Init /\ [][Next]_vars

(* The worker is called again and again (docs/withdrawal-setup.md:60), a   *)
(* request once begun goes on, and time passes.  Nothing makes an operator *)
(* set or lift a hold, send a mail or move a request on.                   *)
Fairness ==
  /\ \A w \in Workers : WF_vars(BeginRun(w)) /\ WF_vars(WorkerStep(w))
  /\ \A p \in Procs : WF_vars(ReleaseStep(p)) /\ WF_vars(ReadControl(p))
  /\ WF_vars(RecordHold) /\ WF_vars(RecordLift) /\ WF_vars(NotifyEnds)
  /\ \A m \in Mails : WF_vars(LockRunsOut(m)) /\ WF_vars(RetryDue(m))

FairSpec == Spec /\ Fairness

-----------------------------------------------------------------------------
(* Types of the rows, of the requests at work and of the histories.        *)
TypeOK ==
  /\ box \in [Mails -> Rows]
  /\ accepted \subseteq Mails
  /\ logged \in [Mails -> Nat]
  /\ direct \subseteq Mails
  /\ hold \in BOOLEAN
  /\ control \in [Controls -> {"none", "ACTIVE", "RECOVERED"}]
  /\ request \in Statuses
  /\ completed \in BOOLEAN
  /\ proc \in [Procs -> ProcRecord]
  /\ op \in [Operators -> OpRecord]
  /\ overlap \subseteq Mails
  /\ leaked \in [Procs -> 0 .. 2]
  /\ mishaps \in 0 .. MaxMishaps

(* A delivery is recorded once however many workers come to think they     *)
(* made it: the log has one entry, there together with the event, and only *)
(* for a mail the provider took (deliverOutboxItem).                       *)
DeliveryRecordedOnce ==
  \A m \in Mails :
    /\ logged[m] = IF box[m].sentEvent THEN 1 ELSE 0
    /\ box[m].sentEvent => m \in accepted
    /\ box[m].status = "SENT" => box[m].sentEvent

(* Of the mails of a held class each process sends one at most, the one it *)
(* had read the hold for, however often it is retried or restarted         *)
(* (claimNextOutboxItem, sendWithdrawalEmail).                             *)
HoldLetsOneThrough == \A p \in Procs : leaked[p] <= 1

(* A mail that was sent is queued, held or failed again only when two      *)
(* workers were at work on it: the release of a held mail, on a reading    *)
(* however old, never sends it a second time                               *)
(* (releaseHeldWithdrawalEmails, claimNextOutboxItem).                     *)
SentIsFinal ==
  [][\A m \in Mails :
       box[m].status = "SENT" /\ box[m].status' # "SENT" => m \in overlap]_vars

(* A closed request changes, and is opened again, only by the write of a   *)
(* process that had read another status, be it an operator's or the one    *)
(* that records the acknowledgement's delivery (updateWithdrawalStatus,    *)
(* deliverOutboxItem).                                                     *)
ClosedStaysClosed ==
  [][(request \in Terminal /\ request' # request) =>
       \/ \E o \in Operators : op[o].phase = "write" /\ op[o].from # request
       \/ \E w \in Workers : At(w, "commit") /\ proc[w].seen # request]_vars

(* A queued mail is sent, held, cancelled or given up in the end, whoever  *)
(* dies at work on it.                                                     *)
QueuedMailComesToAnEnd ==
  \A m \in Mails :
    box[m].status \in {"PENDING", "PROCESSING", "FAILED"} ~>
      box[m].status \in {"SENT", "HELD", "CANCELLED", "DEAD_LETTER"}

(* Once holds are a thing of the past, a mail whose control is recovered   *)
(* does not stay held, if no older mail that names a control does: a later *)
(* run finds it even if the request that lifted the hold died before it    *)
(* released anything (releaseRecoveredHeldWithdrawalEmails).  Left out are *)
(* the mails that may not go out any more.                                 *)
Recoverable(m) ==
  /\ box[m].status = "HELD" /\ box[m].heldBy # None
  /\ control[box[m].heldBy] = "RECOVERED"
  /\ ~InLog(m) /\ (TypeOf[m] = "completion" => request \in Terminal)
  /\ \A n \in Mails : n < m => box[n].status # "HELD" \/ box[n].heldBy = None
RecoveredHoldReleasesMail ==
  <>[]~hold => \A m \in Mails : []<>~Recoverable(m)
=============================================================================
