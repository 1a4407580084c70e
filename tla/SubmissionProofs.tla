-------------------------- MODULE SubmissionProofs --------------------------
(***************************************************************************)
(* Proofs of the properties of submission events: CancelledEventNotPending,*)
(* AwaitsHcmIsQueued and ConfirmedWasCharged.                              *)
(***************************************************************************)
EXTENDS CommandProofs

\* An event becomes PENDING only by an approval.
LEMMA EventStep ==
    ASSUME TypeOK, [Next]_vars, NEW r \in Requests
    PROVE  \/ event'[r].status = event[r].status
           \/ event'[r].status # "PENDING"
           \/ \E c \in Callers : ApproveSave(c) /\ call[c].request = r
<1> DEFINE Goal == \/ event'[r].status = event[r].status
                   \/ event'[r].status # "PENDING"
                   \/ \E c \in Callers : ApproveSave(c) /\ call[c].request = r
<1>0. event \in [Requests -> EventRows]
  BY DEF TypeOK, StoreTypeOK
<1>1. CASE UNCHANGED event
  BY <1>1
<1>2. ASSUME NEW c \in Callers, ApproveSave(c) PROVE Goal
  <2>1. call[c].request \in Requests
    BY <1>2 DEF TypeOK, CallTypeOK, ApproveSave, Running
  <2>2. call[c].request # r => event'[r] = event[r]
    BY <1>0, <1>2, <2>1 DEF ApproveSave
  <2>. QED
    BY <1>2, <2>2
<1>3. ASSUME NEW c \in Callers, CancelSave(c) PROVE Goal
  BY <1>0, <1>3 DEF CancelSave, IgnorePendingEvent, EventRows
<1>4. ASSUME NEW w \in Workers, NEW q \in Requests, PrepareStale(w, q) PROVE Goal
  BY <1>0, <1>4 DEF PrepareStale, EventRows
<1>5. ASSUME NEW w \in Workers, ConfirmSubmission(w) \/ RejectSubmission(w) PROVE Goal
  BY <1>0, <1>5 DEF ConfirmSubmission, RejectSubmission, CloseEvent, EventRows
<1>6. ASSUME NEW w \in Workers, ScheduleSubmissionRetry(w) PROVE Goal
  BY <1>0, <1>6 DEF ScheduleSubmissionRetry, EventRows
<1>7. ASSUME NEW q \in Requests, RetryDue(q) PROVE Goal
  BY <1>0, <1>7 DEF RetryDue, EventRows
<1>8. CASE Command
  <2>1. PICK c \in Callers : BeginCommand(c) \/ FinishCommand(c)
    BY <1>8 DEF Command
  <2>2. UNCHANGED event \/ ApproveSave(c) \/ CancelSave(c)
    BY <2>1 DEF BeginCommand, FinishCommand, CreateRead, ApproveLoad, RejectLoad,
       CancelLoad, CreateReserve, CreateConflict, ApproveConflict, RejectSave,
       RejectConflict, CancelConflict, storeVars
  <2>. QED
    BY <1>1, <1>2, <1>3, <2>2
<1>9. CASE Submission
  <2>1. \/ UNCHANGED event
        \/ \E q \in Requests : RetryDue(q)
        \/ \E w \in Workers : \/ ConfirmSubmission(w) \/ RejectSubmission(w)
                              \/ ScheduleSubmissionRetry(w)
                              \/ \E q \in Requests : PrepareStale(w, q)
    BY <1>9 DEF Submission, StartProcessing, WorkStep, PrepareFirst, PrepareRetry,
       SubmitFails, SubmitRefused, SubmitAccepted, RecordingFails, storeVars
  <2>. QED
    BY <1>1, <1>4, <1>5, <1>6, <1>7, <2>1
<1>10. ASSUME NEW x \in Reconcilers, ReconcileConfirm(x) PROVE Goal
  BY <1>0, <1>10 DEF ReconcileConfirm, EventRows
<1>11. CASE Reconcile
  <2>1. UNCHANGED event \/ \E x \in Reconcilers : ReconcileConfirm(x)
    BY <1>11 DEF Reconcile, AuditStep, ReconcileRead, ReconcileUpsert, ReconcileList,
       ReconcileTake, ReconcileLook, ReconcileReview, storeVars
  <2>. QED
    BY <1>1, <1>10, <2>1
<1>12. CASE Refresh \/ Batch \/ Hcm \/ Restart \/ HandlerDies \/ UNCHANGED vars
  BY <1>1, <1>12 DEF Refresh, RefreshRead, RefreshUpsert, Batch, BatchArrives, IngestBatch,
     IngestFails, Hcm, Restart, HandlerDies, vars, storeVars
<1>. QED
  BY <1>8, <1>9, <1>11, <1>12 DEF Next

\* Every handler preserves that cancelled requests have no PENDING event.
LEMMA CancelledInductive ==
    TypeOK /\ CallInv /\ CancelledEventNotPending /\ [Next]_vars => CancelledEventNotPending'
<1> SUFFICES ASSUME TypeOK, CallInv, CancelledEventNotPending, [Next]_vars,
                    NEW r \in Requests, request'[r].status = "CANCELLED"
             PROVE  event'[r].status # "PENDING"
  BY DEF CancelledEventNotPending
<1>1. request'[r] = request[r] \/ RequestRowMoves(r)
  BY RequestStep, ReserveEffect
<1>2. ~\E c \in Callers : ApproveSave(c) /\ call[c].request = r
  <2>1. ASSUME NEW c \in Callers, ApproveSave(c), call[c].request = r PROVE FALSE
    <3>1. SetStatus(r, "APPROVED")
      BY <2>1 DEF ApproveSave
    <3>. QED
      BY <3>1, SetStatusEffect
  <2>. QED
    BY <2>1
<1>3. CASE request[r].status = "CANCELLED"
  BY <1>2, <1>3, EventStep DEF CancelledEventNotPending
<1>4. CASE request[r].status # "CANCELLED"
  <2>1. PICK c \in Callers : CancelSave(c) /\ call[c].request = r
    BY <1>1, <1>4 DEF RequestRowMoves
  <2>2. event' = [event EXCEPT ![r].status = IF @ = "PENDING" THEN "IGNORED_STALE" ELSE @]
    BY <2>1 DEF CancelSave, IgnorePendingEvent
  <2>. QED
    BY <2>2 DEF TypeOK, StoreTypeOK, EventRows
<1>. QED
  BY <1>3, <1>4

\* The submission event of a cancelled request is out of reach
\* (CancelledEventNotPending).
THEOREM CancelledIsNotSubmitted == Spec => []CancelledEventNotPending
<1>1. Init => CancelledEventNotPending
  BY DEF Init, StoreInit, CancelledEventNotPending
<1>. QED
  BY <1>1, CancelledInductive, CallInvariant, PTL DEF Spec

-----------------------------------------------------------------------------

\* Whoever closes the submission event of a request settles the request in the
\* same transaction, or found it settled.
LEMMA EventCloses ==
    ASSUME TypeOK, [Next]_vars, NEW r \in Requests,
           request[r].status \in {"APPROVED", "SUBMITTED_TO_HCM"},
           request'[r].status \in {"APPROVED", "SUBMITTED_TO_HCM"}
    PROVE  \/ event'[r].status = event[r].status
           \/ event'[r].status \in {"PENDING", "UNCERTAIN"}
<1> DEFINE Goal == \/ event'[r].status = event[r].status
                   \/ event'[r].status \in {"PENDING", "UNCERTAIN"}
<1>0. event \in [Requests -> EventRows]
  BY DEF TypeOK, StoreTypeOK
<1>1. CASE UNCHANGED event
  BY <1>1
<1>2. ASSUME NEW c \in Callers, ApproveSave(c) PROVE Goal
  BY <1>0, <1>2 DEF ApproveSave
<1>3. ASSUME NEW c \in Callers, CancelSave(c) PROVE Goal
  <2>1. call[c].request \in Requests /\ SetStatus(call[c].request, "CANCELLED")
    BY <1>3 DEF TypeOK, CallTypeOK, CancelSave, Running
  <2>2. call[c].request # r
    BY <2>1, SetStatusEffect
  <2>. QED
    BY <1>0, <1>3, <2>2 DEF CancelSave, IgnorePendingEvent
<1>4. ASSUME NEW w \in Workers, NEW q \in Requests, PrepareStale(w, q) PROVE Goal
  <2>1. q # r
    BY <1>4 DEF PrepareStale
  <2>. QED
    BY <1>0, <1>4, <2>1 DEF PrepareStale
<1>5. ASSUME NEW w \in Workers, ConfirmSubmission(w) \/ RejectSubmission(w) PROVE Goal
  <2>1. job[w].request \in Requests
    BY <1>5 DEF TypeOK, JobTypeOK, ConfirmSubmission, RejectSubmission
  <2>2. \/ Settle(job[w].request, "CONFIRMED_BY_HCM", "CONFIRMED")
        \/ Settle(job[w].request, "FAILED_HCM_VALIDATION", "REJECTED")
    BY <1>5 DEF ConfirmSubmission, RejectSubmission
  <2>3. job[w].request # r
    BY <2>1, <2>2, SetStatusEffect
  <2>. QED
    BY <1>0, <1>5, <2>3 DEF ConfirmSubmission, RejectSubmission, CloseEvent
<1>6. ASSUME NEW w \in Workers, ScheduleSubmissionRetry(w) PROVE Goal
  BY <1>0, <1>6 DEF ScheduleSubmissionRetry, EventRows
<1>7. ASSUME NEW q \in Requests, RetryDue(q) PROVE Goal
  BY <1>0, <1>7 DEF RetryDue, EventRows
<1>8. ASSUME NEW x \in Reconcilers, ReconcileConfirm(x) PROVE Goal
  <2>1. /\ audit[x].request \in Requests
        /\ Settle(audit[x].request, "CONFIRMED_BY_HCM", "CONFIRMED")
    BY <1>8 DEF TypeOK, AuditTypeOK, ReconcileConfirm, At
  <2>2. audit[x].request # r
    BY <2>1, SetStatusEffect
  <2>. QED
    BY <1>0, <1>8, <2>2 DEF ReconcileConfirm
<1>9. CASE Command
  <2>1. PICK c \in Callers : BeginCommand(c) \/ FinishCommand(c)
    BY <1>9 DEF Command
  <2>2. UNCHANGED event \/ ApproveSave(c) \/ CancelSave(c)
    BY <2>1 DEF BeginCommand, FinishCommand, CreateRead, ApproveLoad, RejectLoad,
       CancelLoad, CreateReserve, CreateConflict, ApproveConflict, RejectSave,
       RejectConflict, CancelConflict, storeVars
  <2>. QED
    BY <1>1, <1>2, <1>3, <2>2
<1>10. CASE Submission
  <2>1. \/ UNCHANGED event
        \/ \E q \in Requests : RetryDue(q)
        \/ \E w \in Workers : \/ ConfirmSubmission(w) \/ RejectSubmission(w)
                              \/ ScheduleSubmissionRetry(w)
                              \/ \E q \in Requests : PrepareStale(w, q)
    BY <1>10 DEF Submission, StartProcessing, WorkStep, PrepareFirst, PrepareRetry,
       SubmitFails, SubmitRefused, SubmitAccepted, RecordingFails, storeVars
  <2>. QED
    BY <1>1, <1>4, <1>5, <1>6, <1>7, <2>1
<1>11. CASE Reconcile
  <2>1. UNCHANGED event \/ \E x \in Reconcilers : ReconcileConfirm(x)
    BY <1>11 DEF Reconcile, AuditStep, ReconcileRead, ReconcileUpsert, ReconcileList,
       ReconcileTake, ReconcileLook, ReconcileReview, storeVars
  <2>. QED
    BY <1>1, <1>8, <2>1
<1>12. CASE Refresh \/ Batch \/ Hcm \/ Restart \/ HandlerDies \/ UNCHANGED vars
  BY <1>1, <1>12 DEF Refresh, RefreshRead, RefreshUpsert, Batch, BatchArrives, IngestBatch,
     IngestFails, Hcm, Restart, HandlerDies, vars, storeVars
<1>. QED
  BY <1>9, <1>10, <1>11, <1>12 DEF Next

\* Every handler preserves that a request which waits for HCM is queued.
LEMMA QueuedInductive ==
    TypeOK /\ CallInv /\ AwaitsHcmIsQueued /\ [Next]_vars => AwaitsHcmIsQueued'
<1> SUFFICES ASSUME TypeOK, CallInv, AwaitsHcmIsQueued, [Next]_vars, NEW r \in Requests,
                    request'[r].status \in {"APPROVED", "SUBMITTED_TO_HCM"}
             PROVE  event'[r].status \in {"PENDING", "UNCERTAIN"}
  BY DEF AwaitsHcmIsQueued
<1>1. CASE request[r].status \in {"APPROVED", "SUBMITTED_TO_HCM"}
  BY <1>1, EventCloses DEF AwaitsHcmIsQueued
<1>2. CASE request[r].status \notin {"APPROVED", "SUBMITTED_TO_HCM"}
  <2>1. PICK c \in Callers : ApproveSave(c) /\ call[c].request = r
    BY <1>2, RequestStep, ReserveEffect DEF RequestRowMoves
  <2>2. event' = [event EXCEPT ![r] = [status |-> "PENDING", attempts |-> 0,
                                       nextAttemptAt |-> "null"]]
    BY <2>1 DEF ApproveSave
  <2>. QED
    BY <2>2 DEF TypeOK, StoreTypeOK
<1>. QED
  BY <1>1, <1>2

\* A request that waits for HCM is never forgotten (AwaitsHcmIsQueued).
THEOREM AwaitingIsQueued == Spec => []AwaitsHcmIsQueued
<1>1. Init => AwaitsHcmIsQueued
  BY DEF Init, StoreInit, AwaitsHcmIsQueued
<1>. QED
  BY <1>1, QueuedInductive, CallInvariant, PTL DEF Spec

-----------------------------------------------------------------------------

\* An acceptance that is about to be recorded has been charged, whether a run
\* heard of it or a reconciliation found it in HCM's memory.
ChargeInv ==
    /\ \A w \in Workers : job[w].pc = "accepted" => charges[job[w].request] > 0
    /\ \A r \in accepted : charges[r] > 0
    /\ \A x \in Reconcilers : audit[x].pc = "confirm" => charges[audit[x].request] > 0
    /\ ConfirmedWasCharged

\* No handler makes HCM forget an accepted submission.
LEMMA ChargeStep ==
    ASSUME TypeOK, [Next]_vars, NEW r \in Requests
    PROVE  charges[r] > 0 => charges'[r] > 0
<1>0. charges \in [Requests -> 0..MaxCharges] /\ MaxCharges \in Nat \ {0}
  BY MaxChargesAssumption DEF TypeOK, HcmTypeOK
<1>1. CASE UNCHANGED charges
  BY <1>1
<1>2. ASSUME NEW w \in Workers, SubmitAccepted(w) PROVE charges[r] > 0 => charges'[r] > 0
  <2>1. charges' = [charges EXCEPT ![job[w].request] = IF @ < MaxCharges THEN @ + 1 ELSE @]
    BY <1>2 DEF SubmitAccepted, AcceptSubmission
  <2>. QED
    BY <1>0, <2>1
<1>3. CASE Submission
  <2>1. UNCHANGED charges \/ \E w \in Workers : SubmitAccepted(w)
    BY <1>3 DEF Submission, StartProcessing, WorkStep, PrepareFirst, PrepareRetry,
       PrepareStale, SubmitFails, ThrowSubmission, SubmitRefused, RefuseSubmission,
       ConfirmSubmission, RejectSubmission, RecordingFails, ScheduleSubmissionRetry,
       RetryDue, hcmVars
  <2>. QED
    BY <1>1, <1>2, <2>1
<1>4. CASE Reconcile
  BY <1>1, <1>4 DEF Reconcile, AuditStep, ReconcileRead, ReconcileUpsert, ReconcileList,
     ReconcileTake, ReconcileConfirm, ReconcileLook, ReconcileReview, hcmVars
<1>5. CASE Batch
  BY <1>1, <1>5 DEF Batch, BatchArrives, IngestBatch, IngestFails, hcmVars
<1>6. CASE Command \/ Refresh \/ Hcm \/ Restart \/ HandlerDies \/ UNCHANGED vars
  BY <1>1, <1>6 DEF Command, Refresh, RefreshRead, RefreshUpsert, Hcm, UpsertBalance,
     ConfigureSubmissionFailure, Restart, Clear, HandlerDies, vars, hcmVars
<1>. QED
  BY <1>3, <1>4, <1>5, <1>6 DEF Next

\* HCM remembers what it remembered, or has just accepted it.
LEMMA AcceptedStep ==
    ASSUME TypeOK, [Next]_vars, NEW r \in accepted'
    PROVE  r \in accepted \/ \E w \in Workers : SubmitAccepted(w) /\ job[w].request = r
<1>1. ASSUME NEW w \in Workers, SubmitAccepted(w)
      PROVE  r \in accepted \/ job[w].request = r
  BY <1>1 DEF SubmitAccepted, AcceptSubmission
<1>2. CASE Submission
  <2>1. UNCHANGED accepted \/ \E w \in Workers : SubmitAccepted(w)
    BY <1>2 DEF Submission, StartProcessing, WorkStep, PrepareFirst, PrepareRetry,
       PrepareStale, SubmitFails, ThrowSubmission, SubmitRefused, RefuseSubmission,
       ConfirmSubmission, RejectSubmission, RecordingFails, ScheduleSubmissionRetry,
       RetryDue, hcmVars
  <2>. QED
    BY <1>1, <2>1
<1>3. CASE Reconcile
  BY <1>3 DEF Reconcile, AuditStep, ReconcileRead, ReconcileUpsert, ReconcileList,
     ReconcileTake, ReconcileConfirm, ReconcileLook, ReconcileReview, hcmVars
<1>4. CASE Batch
  BY <1>4 DEF Batch, BatchArrives, IngestBatch, IngestFails, hcmVars
<1>5. CASE Command \/ Refresh \/ Hcm \/ Restart \/ HandlerDies \/ UNCHANGED vars
  BY <1>5 DEF Command, Refresh, RefreshRead, RefreshUpsert, Hcm, UpsertBalance,
     ConfigureSubmissionFailure, Restart, Clear, HandlerDies, vars, hcmVars
<1>. QED
  BY <1>2, <1>3, <1>4, <1>5 DEF Next

\* A reconciliation that is about to confirm was already, or has just asked HCM.
LEMMA ConfirmStep ==
    ASSUME TypeOK, [Next]_vars, NEW x \in Reconcilers, audit'[x].pc = "confirm"
    PROVE  \/ audit'[x] = audit[x]
           \/ audit'[x].request \in accepted
<1>0. audit \in [Reconcilers -> AuditRows]
  BY DEF TypeOK, AuditTypeOK
<1>1. ASSUME NEW y \in Reconcilers, y # x, (\E k \in Keys : ReconcileRead(y, k)) \/ AuditStep(y)
      PROVE  audit'[x] = audit[x]
  BY <1>0, <1>1 DEF AuditStep, ReconcileRead, ReconcileUpsert, ReconcileList, ReconcileTake,
     ReconcileConfirm, ReconcileLook, ReconcileReview, NextListed, Proceed
<1>2. ~\E k \in Keys : ReconcileRead(x, k)
  BY <1>0 DEF ReconcileRead
<1>3. ~ReconcileUpsert(x) /\ ~ReconcileList(x)
  BY <1>0 DEF ReconcileUpsert, ReconcileList, NoAudit, AuditRows
<1>4. ~NextListed(x) /\ ~Proceed(x, "review")
  BY <1>0 DEF NextListed, Proceed, AuditRows
<1>5. ASSUME NEW r \in Requests, ReconcileTake(x, r) PROVE audit'[x].request \in accepted
  <2>1. audit'[x].request = r /\ audit'[x].pc = IF KnownToHcm(r) THEN "confirm" ELSE "look"
    BY <1>0, <1>5 DEF ReconcileTake, AuditRows
  <2>. QED
    BY <2>1 DEF KnownToHcm
<1>6. CASE Reconcile
  BY <1>1, <1>2, <1>3, <1>4, <1>5, <1>6
  DEF Reconcile, AuditStep, ReconcileConfirm, ReconcileLook, ReconcileReview
<1>7. CASE Restart \/ HandlerDies
  BY <1>7, DeathIdles DEF NoAudit
<1>8. CASE Command \/ Refresh \/ Submission \/ Batch \/ Hcm \/ UNCHANGED vars
  BY <1>8 DEF Command, Refresh, Submission, Batch, Hcm, vars
<1>. QED
  BY <1>6, <1>7, <1>8 DEF Next

\* A run that holds an acceptance holds the one it had, or has just called HCM.
LEMMA JobStep ==
    ASSUME TypeOK, [Next]_vars, NEW w \in Workers, job'[w].pc = "accepted"
    PROVE  job'[w] = job[w] \/ SubmitAccepted(w)
<1>0. job \in [Workers -> JobRows]
  BY DEF TypeOK, JobTypeOK
<1>1. ASSUME NEW v \in Workers, WorkStep(v) \/ StartProcessing(v)
      PROVE  job'[w] = job[w] \/ SubmitAccepted(w)
  <2>1. v # w => job'[w] = job[w]
    BY <1>0, <1>1 DEF WorkStep, StartProcessing, PrepareFirst, PrepareRetry, Prepared,
       PrepareStale, SubmitFails, SubmitRefused, SubmitAccepted, ConfirmSubmission,
       RejectSubmission, RecordingFails, ScheduleSubmissionRetry, TakeNext, Goto
  <2>2. v = w => SubmitAccepted(w)
    BY <1>0, <1>1 DEF WorkStep, StartProcessing, WorkerIdle, PrepareFirst, PrepareRetry,
       Prepared, PrepareStale, Takes, SubmitFails, SubmitRefused, ConfirmSubmission,
       RejectSubmission, RecordingFails, ScheduleSubmissionRetry, TakeNext, Goto, JobRows
  <2>. QED
    BY <2>1, <2>2
<1>2. CASE Submission
  BY <1>1, <1>2 DEF Submission, RetryDue
<1>3. CASE Command \/ Refresh \/ Reconcile \/ Batch \/ Hcm \/ UNCHANGED vars
  BY <1>3 DEF Command, Refresh, Reconcile, Batch, Hcm, vars
<1>4. CASE Restart \/ HandlerDies
  BY <1>4, DeathIdles DEF NoJob
<1>. QED
  BY <1>2, <1>3, <1>4 DEF Next

\* Every handler preserves that acceptances and confirmations were charged.
LEMMA ChargeInductive == TypeOK /\ CallInv /\ ChargeInv /\ [Next]_vars => ChargeInv'
<1> SUFFICES ASSUME TypeOK, CallInv, ChargeInv, [Next]_vars PROVE ChargeInv'
  OBVIOUS
<1>1. ASSUME NEW w \in Workers, job'[w].pc = "accepted"
      PROVE  charges'[job'[w].request] > 0
  <2>1. CASE job'[w] = job[w]
    <3>1. job[w].request \in Requests /\ charges[job[w].request] > 0
      BY <1>1, <2>1 DEF ChargeInv, TypeOK, JobTypeOK
    <3>. QED
      BY <2>1, <3>1, ChargeStep
  <2>2. CASE SubmitAccepted(w)
    <3>1. job[w].request \in Requests /\ job'[w].request = job[w].request
      BY <2>2 DEF TypeOK, JobTypeOK, JobRows, SubmitAccepted
    <3>2. charges' = [charges EXCEPT ![job[w].request] = IF @ < MaxCharges THEN @ + 1 ELSE @]
      BY <2>2 DEF SubmitAccepted, AcceptSubmission
    <3>. QED
      BY <3>1, <3>2, MaxChargesAssumption DEF TypeOK, HcmTypeOK
  <2>. QED
    BY <1>1, <2>1, <2>2, JobStep
<1>2. ASSUME NEW r \in Requests, request'[r].submission = "CONFIRMED"
      PROVE  charges'[r] > 0
  <2>1. charges[r] > 0
    <3>1. CASE request[r].submission = "CONFIRMED"
      BY <3>1 DEF ChargeInv, ConfirmedWasCharged
    <3>2. CASE request[r].submission # "CONFIRMED"
      <4>1. request'[r] # request[r] /\ ~\E c \in Callers : CreateReserve(c) /\ call[c].request = r
        BY <1>2, <3>2, ReserveEffect
      <4>2. \/ \E w \in Workers : ConfirmSubmission(w) /\ job[w].request = r
            \/ \E x \in Reconcilers : ReconcileConfirm(x) /\ audit[x].request = r
        BY <1>2, <3>2, <4>1, RequestStep DEF RequestRowMoves
      <4>. QED
        BY <4>2 DEF ChargeInv, ConfirmSubmission, ReconcileConfirm, At
    <3>. QED
      BY <3>1, <3>2
  <2>. QED
    BY <2>1, ChargeStep
<1>3. ASSUME NEW r \in accepted' PROVE charges'[r] > 0
  <2>1. CASE r \in accepted
    BY <2>1, ChargeStep DEF ChargeInv, TypeOK, HcmTypeOK
  <2>2. ASSUME NEW w \in Workers, SubmitAccepted(w), job[w].request = r PROVE charges'[r] > 0
    <3>1. r \in Requests
      BY <2>2 DEF TypeOK, JobTypeOK, SubmitAccepted
    <3>2. charges' = [charges EXCEPT ![r] = IF @ < MaxCharges THEN @ + 1 ELSE @]
      BY <2>2 DEF SubmitAccepted, AcceptSubmission
    <3>. QED
      BY <3>1, <3>2, MaxChargesAssumption DEF TypeOK, HcmTypeOK
  <2>. QED
    BY <2>1, <2>2, AcceptedStep
<1>4. ASSUME NEW x \in Reconcilers, audit'[x].pc = "confirm"
      PROVE  charges'[audit'[x].request] > 0
  <2>1. audit'[x].request \in Requests /\ charges[audit'[x].request] > 0
    BY <1>4, ConfirmStep DEF ChargeInv, TypeOK, HcmTypeOK, AuditTypeOK
  <2>. QED
    BY <2>1, ChargeStep
<1>. QED
  BY <1>1, <1>2, <1>3, <1>4 DEF ChargeInv, ConfirmedWasCharged

\* Nothing is confirmed that HCM did not charge (ConfirmedWasCharged).
THEOREM ConfirmationsAreCharged == Spec => []ConfirmedWasCharged
<1>1. Init => ChargeInv
  BY DEF Init, StoreInit, HcmInit, JobInit, NoJob, AuditInit, NoAudit, ChargeInv,
     ConfirmedWasCharged
<1>2. ChargeInv => ConfirmedWasCharged
  BY DEF ChargeInv
<1>. QED
  BY <1>1, <1>2, ChargeInductive, CallInvariant, PTL DEF Spec

=============================================================================
