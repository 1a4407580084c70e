--------------------------- MODULE CommandProofs ----------------------------
(***************************************************************************)
(* What optimistic concurrency control buys: proofs of NoOverbooking,      *)
(* ApprovalIsExclusive, RunsKeepOutcomes and NoneIsRevived.                *)
(*                                                                         *)
(* The argument: a handler cannot change a projection or a request without *)
(* raising its version (ProjectionStep, RequestStep), so a command whose   *)
(* version check succeeds acts on the row it read (CallInv).               *)
(***************************************************************************)
EXTENDS TypingProofs

\* The requests that reconciliation x is going to settle.
Held(x) ==
    audit[x].todo \cup
        (IF audit[x].pc \in {"confirm", "look", "review"} THEN {audit[x].request} ELSE {})

\* What the handlers in flight rely on.  A create: its request is not in the
\* table, no other create holds the same one, and as long as the projection
\* has the version it read, the days it asks for are available.  An approval:
\* as long as the request has the version it read, it is pending.  A
\* reconciliation: its requests are in the table.
CallInv ==
    /\ \A c \in Callers :
        LET r == call[c].request IN
        /\ call[c].op = "create" =>
              /\ request[r].status = "ABSENT"
              /\ call[c].version <= projection[KeyOf[r]].version
              /\ ProjectionVersionMatches(c) => DisplayAvailable(KeyOf[r]) >= DaysOf[r]
              /\ \A d \in Callers : call[d].op = "create" /\ call[d].request = r => d = c
        /\ call[c].op \in {"approve", "reject", "cancel"} => request[r].status # "ABSENT"
        /\ call[c].op = "approve" =>
              /\ call[c].version <= request[r].version
              /\ RequestVersionMatches(c) => request[r].status = "PENDING_MANAGER_APPROVAL"
    /\ \A x \in Reconcilers : \A r \in Held(x) : request[r].status # "ABSENT"

\* Returning a reservation (the projection update that reject, cancel, confirm
\* and the HCM rejection share) raises the version of one row and no reserved days.
LEMMA ReleaseEffect ==
    ASSUME TypeOK, NEW kind, NEW r \in Requests, NEW d \in Nat,
           CanRelease(kind, r), ReleaseReservation(kind, r, d), NEW k \in Keys
    PROVE  \/ projection'[k] = projection[k]
           \/ /\ projection'[k].version = projection[k].version + 1
              /\ projection'[k].reservedDays <= projection[k].reservedDays
<1>1. /\ KeyOf[r] \in Keys /\ DaysOf[r] \in Nat
      /\ projection \in [Keys -> ProjectionRows]
  BY KeyOfAssumption, DaysOfAssumption DEF TypeOK, StoreTypeOK
<1>2. projection' = [projection EXCEPT ![KeyOf[r]].availableDays = d,
                                       ![KeyOf[r]].reservedDays = @ - DaysOf[r],
                                       ![KeyOf[r]].version = @ + 1]
  BY DEF ReleaseReservation
<1>. QED
  BY <1>1, <1>2 DEF ProjectionRows

\* Taking over a snapshot raises the version of one row and keeps its reservation.
LEMMA UpsertEffect ==
    ASSUME TypeOK, NEW q \in Keys, NEW days \in Nat, UpsertFromHcmSnapshot(q, days),
           NEW k \in Keys
    PROVE  \/ projection'[k] = projection[k]
           \/ /\ projection'[k].version = projection[k].version + 1
              /\ projection'[k].reservedDays = projection[k].reservedDays
BY DEF TypeOK, StoreTypeOK, ProjectionRows, UpsertFromHcmSnapshot

\* So does a batch, for each of its rows.
LEMMA IngestEffect ==
    ASSUME TypeOK, NEW d, NEW rows, IngestBatch(d, rows), NEW k \in Keys
    PROVE  \/ projection'[k] = projection[k]
           \/ /\ projection'[k].version = projection[k].version + 1
              /\ projection'[k].reservedDays = projection[k].reservedDays
<1>1. projection[k] \in ProjectionRows
  BY DEF TypeOK, StoreTypeOK
<1>2. projection'[k] = IF k \in DOMAIN rows
                       THEN [projection[k] EXCEPT !.availableDays = rows[k],
                                                  !.syncStatus = "IN_SYNC", !.version = @ + 1]
                       ELSE projection[k]
  BY DEF IngestBatch
<1>. QED
  BY <1>1, <1>2 DEF ProjectionRows

\* And marking a projection as in conflict.
LEMMA ReviewEffect ==
    ASSUME TypeOK, NEW x \in Reconcilers, ReconcileReview(x), NEW k \in Keys
    PROVE  \/ projection'[k] = projection[k]
           \/ /\ projection'[k].version = projection[k].version + 1
              /\ projection'[k].reservedDays = projection[k].reservedDays
BY KeyOfAssumption
DEF TypeOK, StoreTypeOK, ProjectionRows, AuditTypeOK, ReconcileReview, At

\* What createPendingApprovalWithReservation's transaction does to the rows of
\* its key and its request, and that it leaves the other rows alone.
LEMMA ReserveEffect ==
    ASSUME TypeOK, NEW c \in Callers, CreateReserve(c)
    PROVE  LET r == call[c].request IN
           /\ r \in Requests
           /\ \A k \in Keys :
                 \/ k # KeyOf[r] /\ projection'[k] = projection[k]
                 \/ /\ k = KeyOf[r]
                    /\ projection'[k].version = projection[k].version + 1
                    /\ projection'[k].availableDays = projection[k].availableDays
                    /\ projection'[k].reservedDays = projection[k].reservedDays + DaysOf[r]
           /\ \A q \in Requests :
                 \/ q # r /\ request'[q] = request[q]
                 \/ q = r /\ request'[q] = [status |-> "PENDING_MANAGER_APPROVAL",
                                            submission |-> "NOT_SUBMITTED", version |-> 1]
<1> DEFINE r == call[c].request
<1>1. /\ r \in Requests /\ KeyOf[r] \in Keys
      /\ projection \in [Keys -> ProjectionRows]
      /\ request \in [Requests -> RequestRows]
  BY KeyOfAssumption DEF TypeOK, StoreTypeOK, CallTypeOK, CreateReserve, Running
<1>2. /\ projection' = [projection EXCEPT ![KeyOf[r]].reservedDays = @ + DaysOf[r],
                                          ![KeyOf[r]].version = @ + 1]
      /\ request' = [request EXCEPT ![r] = [status |-> "PENDING_MANAGER_APPROVAL",
                                            submission |-> "NOT_SUBMITTED", version |-> 1]]
  BY DEF CreateReserve
<1> HIDE DEF r
<1>3. \A k \in Keys :
         \/ k # KeyOf[r] /\ projection'[k] = projection[k]
         \/ /\ k = KeyOf[r]
            /\ projection'[k].version = projection[k].version + 1
            /\ projection'[k].availableDays = projection[k].availableDays
            /\ projection'[k].reservedDays = projection[k].reservedDays + DaysOf[r]
  BY <1>1, <1>2 DEF ProjectionRows
<1>4. \A q \in Requests :
         \/ q # r /\ request'[q] = request[q]
         \/ q = r /\ request'[q] = [status |-> "PENDING_MANAGER_APPROVAL",
                                    submission |-> "NOT_SUBMITTED", version |-> 1]
  BY <1>1, <1>2
<1>. QED
  BY <1>1, <1>3, <1>4 DEF r

\* No handler changes a projection without raising its version, and only a create
\* raises its reserved days: what the version check of a create relies on.
LEMMA ProjectionStep ==
    ASSUME TypeOK, [Next]_vars, NEW k \in Keys
    PROVE  \/ projection'[k] = projection[k]
           \/ /\ projection'[k].version = projection[k].version + 1
              /\ projection'[k].reservedDays <= projection[k].reservedDays
           \/ /\ projection'[k].version = projection[k].version + 1
              /\ \E c \in Callers : CreateReserve(c) /\ KeyOf[call[c].request] = k
<1> DEFINE Goal == \/ projection'[k] = projection[k]
                   \/ /\ projection'[k].version = projection[k].version + 1
                      /\ projection'[k].reservedDays <= projection[k].reservedDays
                   \/ /\ projection'[k].version = projection[k].version + 1
                      /\ \E c \in Callers : CreateReserve(c) /\ KeyOf[call[c].request] = k
<1>0. projection \in [Keys -> ProjectionRows] /\ KeyOf \in [Requests -> Keys]
  BY KeyOfAssumption DEF TypeOK, StoreTypeOK
<1>1. CASE UNCHANGED projection
  BY <1>1
<1>2. ASSUME NEW c \in Callers, CreateReserve(c) PROVE Goal
  BY <1>2, ReserveEffect
<1>3. ASSUME NEW c \in Callers, RejectSave(c) \/ CancelSave(c) PROVE Goal
  <2>1. call[c].request \in Requests
    BY <1>3 DEF TypeOK, CallTypeOK, RejectSave, CancelSave, Running
  <2>2. projection[KeyOf[call[c].request]].availableDays \in Nat
    BY <1>0, <2>1 DEF ProjectionRows
  <2>. QED
    BY <1>3, <2>1, <2>2, ReleaseEffect DEF RejectSave, CancelSave
<1>4. ASSUME NEW w \in Workers, ConfirmSubmission(w) \/ RejectSubmission(w) PROVE Goal
  <2>1. job[w].request \in Requests /\ job[w].days \in Nat
    BY <1>4 DEF TypeOK, JobTypeOK, JobRows, ConfirmSubmission, RejectSubmission
  <2>2. projection[KeyOf[job[w].request]].availableDays \in Nat
    BY <1>0, <2>1 DEF ProjectionRows
  <2>. QED
    BY <1>4, <2>1, <2>2, ReleaseEffect DEF ConfirmSubmission, RejectSubmission
<1>5. ASSUME NEW s \in reading, RefreshUpsert(s) PROVE Goal
  <2>1. s.key \in Keys /\ s.days \in Nat /\ UpsertFromHcmSnapshot(s.key, s.days)
    BY <1>5 DEF TypeOK, ReadingTypeOK, Snapshots, RefreshUpsert
  <2>. QED
    BY <1>0, <2>1, UpsertEffect DEF ProjectionRows
<1>6. CASE Command
  <2>1. PICK c \in Callers : BeginCommand(c) \/ FinishCommand(c)
    BY <1>6 DEF Command
  <2>2. \/ UNCHANGED projection
        \/ CreateReserve(c)
        \/ RejectSave(c) \/ CancelSave(c)
    BY <2>1 DEF BeginCommand, FinishCommand, CreateRead, ApproveLoad, RejectLoad,
       CancelLoad, CreateConflict, ApproveSave, ApproveConflict, RejectConflict,
       CancelConflict, storeVars
  <2>. QED
    BY <1>1, <1>2, <1>3, <2>2
<1>7. CASE Submission
  <2>1. \/ UNCHANGED projection
        \/ \E w \in Workers : ConfirmSubmission(w) \/ RejectSubmission(w)
    BY <1>7 DEF Submission, StartProcessing, WorkStep, PrepareFirst, PrepareRetry,
       PrepareStale, SubmitFails, SubmitRefused, SubmitAccepted, RecordingFails,
       ScheduleSubmissionRetry, RetryDue, storeVars
  <2>. QED
    BY <1>1, <1>4, <2>1
<1>8. CASE Refresh
  <2>1. UNCHANGED projection \/ \E s \in reading : RefreshUpsert(s)
    BY <1>8 DEF Refresh, RefreshRead, storeVars
  <2>. QED
    BY <1>1, <1>5, <2>1
<1>9. CASE Reconcile
  <2>1. ASSUME NEW x \in Reconcilers, ReconcileUpsert(x) PROVE Goal
    <3>1. /\ audit[x].key \in Keys /\ audit[x].days \in Nat
          /\ UpsertFromHcmSnapshot(audit[x].key, audit[x].days)
      BY <2>1 DEF TypeOK, AuditTypeOK, AuditRows, ReconcileUpsert, At
    <3>. QED
      BY <1>0, <3>1, UpsertEffect DEF ProjectionRows
  <2>2. ASSUME NEW x \in Reconcilers, ReconcileReview(x) PROVE Goal
    BY <1>0, <2>2, ReviewEffect DEF ProjectionRows
  <2>3. \/ UNCHANGED projection
        \/ \E x \in Reconcilers : ReconcileUpsert(x) \/ ReconcileReview(x)
    BY <1>9 DEF Reconcile, AuditStep, ReconcileRead, ReconcileList, ReconcileTake,
       ReconcileConfirm, ReconcileLook, storeVars
  <2>. QED
    BY <1>1, <2>1, <2>2, <2>3
<1>10. CASE Batch
  <2>1. \/ UNCHANGED projection
        \/ \E d \in delivery, rows \in RowSets : IngestBatch(d, rows)
    BY <1>10 DEF Batch, BatchArrives, IngestFails, storeVars
  <2>. QED
    BY <1>0, <1>1, <2>1, IngestEffect DEF ProjectionRows
<1>11. CASE Hcm \/ Restart \/ HandlerDies \/ UNCHANGED vars
  BY <1>1, <1>11 DEF Hcm, Restart, HandlerDies, vars, storeVars
<1>. QED
  BY <1>6, <1>7, <1>8, <1>9, <1>10, <1>11 DEF Next

\* What a step that updates r's row does to it.
RequestRowMoves(r) ==
    /\ request[r].status # "ABSENT"
    /\ request'[r].version = request[r].version + 1
    /\ \/ /\ \E c \in Callers : ApproveSave(c) /\ call[c].request = r
          /\ request'[r].status = "APPROVED"
          /\ request'[r].submission = request[r].submission
       \/ /\ \/ request'[r].status = "REJECTED"
             \/ /\ request'[r].status = "CANCELLED"
                /\ \E c \in Callers : CancelSave(c) /\ call[c].request = r
          /\ request'[r].submission = request[r].submission
       \/ /\ request[r].status = "APPROVED"
          /\ request'[r].status = "SUBMITTED_TO_HCM"
          /\ request'[r].submission = "PENDING_CONFIRMATION"
       \/ /\ request[r].status = "SUBMITTED_TO_HCM"
          /\ \/ /\ request'[r].status = "CONFIRMED_BY_HCM"
                /\ request'[r].submission = "CONFIRMED"
                /\ \E w \in Workers : ConfirmSubmission(w) /\ job[w].request = r
             \/ /\ request'[r].status = "FAILED_HCM_VALIDATION"
                /\ request'[r].submission = "REJECTED"
       \/ /\ request'[r].status = "CONFIRMED_BY_HCM"
          /\ request'[r].submission = "CONFIRMED"
          /\ \E x \in Reconcilers : ReconcileConfirm(x) /\ audit[x].request = r
       \/ /\ request'[r].status = "CONFLICT_REVIEW"
          /\ request'[r].submission = "UNKNOWN"
          /\ \E x \in Reconcilers : ReconcileReview(x) /\ audit[x].request = r

\* A status update writes one request row and raises its version.
LEMMA SetStatusEffect ==
    ASSUME TypeOK, NEW q \in Requests, NEW s, NEW h,
           SetStatus(q, s) \/ Settle(q, s, h), NEW r \in Requests
    PROVE  \/ r # q /\ request'[r] = request[r]
           \/ /\ r = q
              /\ request'[r].status = s
              /\ request'[r].version = request[r].version + 1
              /\ SetStatus(q, s) => request'[r].submission = request[r].submission
              /\ Settle(q, s, h) => request'[r].submission = h
<1>1. request \in [Requests -> RequestRows]
  BY DEF TypeOK, StoreTypeOK
<1>. QED
  BY <1>1 DEF SetStatus, Settle, RequestRows

\* What any handler does to one request row: nothing, insert it, or one of the
\* updates of RequestRowMoves.
LEMMA RequestStep ==
    ASSUME TypeOK, CallInv, [Next]_vars, NEW r \in Requests
    PROVE  \/ request'[r] = request[r]
           \/ RequestRowMoves(r)
           \/ \E c \in Callers : CreateReserve(c) /\ call[c].request = r
<1> DEFINE Goal == \/ request'[r] = request[r]
                   \/ RequestRowMoves(r)
                   \/ \E c \in Callers : CreateReserve(c) /\ call[c].request = r
<1>1. CASE UNCHANGED request
  BY <1>1
<1>2. ASSUME NEW c \in Callers, CreateReserve(c) PROVE Goal
  BY <1>2, ReserveEffect
<1>3. ASSUME NEW c \in Callers, ApproveSave(c) \/ RejectSave(c) \/ CancelSave(c) PROVE Goal
  <2>1. call[c].request \in Requests /\ request[call[c].request].status # "ABSENT"
    BY <1>3 DEF TypeOK, CallTypeOK, CallInv, ApproveSave, RejectSave, CancelSave, Running
  <2>2. CASE ApproveSave(c)
    <3>1. SetStatus(call[c].request, "APPROVED")
      BY <2>2 DEF ApproveSave
    <3>. QED
      BY <2>1, <2>2, <3>1, SetStatusEffect DEF RequestRowMoves
  <2>3. CASE RejectSave(c)
    <3>1. SetStatus(call[c].request, "REJECTED")
      BY <2>3 DEF RejectSave
    <3>. QED
      BY <2>1, <3>1, SetStatusEffect DEF RequestRowMoves
  <2>4. CASE CancelSave(c)
    <3>1. SetStatus(call[c].request, "CANCELLED")
      BY <2>4 DEF CancelSave
    <3>. QED
      BY <2>1, <2>4, <3>1, SetStatusEffect DEF RequestRowMoves
  <2>. QED
    BY <1>3, <2>2, <2>3, <2>4
<1>4. ASSUME NEW w \in Workers, ConfirmSubmission(w) \/ RejectSubmission(w) PROVE Goal
  <2>1. /\ job[w].request \in Requests
        /\ request[job[w].request].status = "SUBMITTED_TO_HCM"
    BY <1>4 DEF TypeOK, JobTypeOK, ConfirmSubmission, RejectSubmission, Resolvable
  <2>2. \/ /\ ConfirmSubmission(w)
           /\ Settle(job[w].request, "CONFIRMED_BY_HCM", "CONFIRMED")
        \/ Settle(job[w].request, "FAILED_HCM_VALIDATION", "REJECTED")
    BY <1>4 DEF ConfirmSubmission, RejectSubmission
  <2>. QED
    BY <2>1, <2>2, SetStatusEffect DEF RequestRowMoves
<1>5. ASSUME NEW w \in Workers, NEW q \in Requests, PrepareFirst(w, q) PROVE Goal
  <2>1. /\ request[q].status = "APPROVED"
        /\ Settle(q, "SUBMITTED_TO_HCM", "PENDING_CONFIRMATION")
    BY <1>5 DEF PrepareFirst
  <2>. QED
    BY <2>1, SetStatusEffect DEF RequestRowMoves
<1>6. CASE Command
  <2>1. PICK c \in Callers : BeginCommand(c) \/ FinishCommand(c)
    BY <1>6 DEF Command
  <2>2. \/ UNCHANGED request
        \/ CreateReserve(c)
        \/ ApproveSave(c) \/ RejectSave(c) \/ CancelSave(c)
    BY <2>1 DEF BeginCommand, FinishCommand, CreateRead, ApproveLoad, RejectLoad,
       CancelLoad, CreateConflict, ApproveConflict, RejectConflict, CancelConflict, storeVars
  <2>. QED
    BY <1>1, <1>2, <1>3, <2>2
<1>7. CASE Submission
  <2>1. \/ UNCHANGED request
        \/ \E w \in Workers : \/ ConfirmSubmission(w) \/ RejectSubmission(w)
                              \/ \E q \in Requests : PrepareFirst(w, q)
    BY <1>7 DEF Submission, StartProcessing, WorkStep, PrepareRetry,
       PrepareStale, SubmitFails, SubmitRefused, SubmitAccepted, RecordingFails,
       ScheduleSubmissionRetry, RetryDue, storeVars
  <2>. QED
    BY <1>1, <1>4, <1>5, <2>1
<1>8. ASSUME NEW x \in Reconcilers, ReconcileConfirm(x) \/ ReconcileReview(x) PROVE Goal
  <2>1. audit[x].request \in Requests /\ request[audit[x].request].status # "ABSENT"
    BY <1>8 DEF TypeOK, AuditTypeOK, CallInv, Held, ReconcileConfirm, ReconcileReview, At
  <2>2. CASE ReconcileConfirm(x)
    <3>1. Settle(audit[x].request, "CONFIRMED_BY_HCM", "CONFIRMED")
      BY <2>2 DEF ReconcileConfirm
    <3>. QED
      BY <2>1, <2>2, <3>1, SetStatusEffect DEF RequestRowMoves
  <2>3. CASE ReconcileReview(x)
    <3>1. Settle(audit[x].request, "CONFLICT_REVIEW", "UNKNOWN")
      BY <2>3 DEF ReconcileReview
    <3>. QED
      BY <2>1, <2>3, <3>1, SetStatusEffect DEF RequestRowMoves
  <2>. QED
    BY <1>8, <2>2, <2>3
<1>9. CASE Reconcile
  <2>1. \/ UNCHANGED request
        \/ \E x \in Reconcilers : ReconcileConfirm(x) \/ ReconcileReview(x)
    BY <1>9 DEF Reconcile, AuditStep, ReconcileRead, ReconcileUpsert, ReconcileList,
       ReconcileTake, ReconcileLook, storeVars
  <2>. QED
    BY <1>1, <1>8, <2>1
<1>10. CASE Refresh \/ Batch \/ Hcm \/ Restart \/ HandlerDies \/ UNCHANGED vars
  BY <1>1, <1>10 DEF Refresh, RefreshRead, RefreshUpsert, Batch, BatchArrives, IngestBatch,
     IngestFails, Hcm, Restart, HandlerDies, vars, storeVars
<1>. QED
  BY <1>6, <1>7, <1>9, <1>10 DEF Next

\* A request that is in the table stays there.
LEMMA RequestPersists ==
    ASSUME TypeOK, CallInv, [Next]_vars, NEW r \in Requests, request[r].status # "ABSENT"
    PROVE  request'[r].status # "ABSENT"
<1>1. ~\E c \in Callers : CreateReserve(c) /\ call[c].request = r
  BY DEF CallInv, CreateReserve, Running
<1>. QED
  BY <1>1, RequestStep DEF RequestRowMoves

\* A reconciliation works on what it had, or lists submitted requests.
LEMMA HeldStep ==
    ASSUME TypeOK, [Next]_vars, NEW x \in Reconcilers
    PROVE  \A r \in Held(x)' :
              r \in Held(x) \/ (r \in Requests /\ request[r].status = "SUBMITTED_TO_HCM")
<1> DEFINE Goal == \A r \in Held(x)' :
              r \in Held(x) \/ (r \in Requests /\ request[r].status = "SUBMITTED_TO_HCM")
<1>0. audit \in [Reconcilers -> AuditRows]
  BY DEF TypeOK, AuditTypeOK
<1>00. /\ audit[x].todo \subseteq Held(x)
       /\ audit[x].pc \in {"confirm", "look", "review"} => audit[x].request \in Held(x)
       /\ Held(x)' \subseteq audit'[x].todo \cup {audit'[x].request}
       /\ audit'[x].pc \in {"next", "upsert", "list"} => Held(x)' \subseteq audit'[x].todo
  BY DEF Held
<1>1. CASE audit'[x] = audit[x]
  BY <1>1 DEF Held
<1>2. CASE \E k \in Keys : ReconcileRead(x, k)
  <2>1. audit'[x].pc = "upsert" /\ audit'[x].todo = {}
    BY <1>0, <1>2 DEF ReconcileRead
  <2>. QED
    BY <1>00, <2>1
<1>3. CASE ReconcileUpsert(x)
  <2>1. audit'[x].pc = "list" /\ audit'[x].todo = audit[x].todo
    BY <1>0, <1>3 DEF ReconcileUpsert, AuditRows
  <2>. QED
    BY <1>00, <2>1
<1>4. CASE ReconcileList(x)
  <2>1. /\ audit'[x].pc = "next"
        /\ audit'[x].todo \subseteq {r \in Requests : request[r].status = "SUBMITTED_TO_HCM"}
    BY <1>0, <1>4 DEF ReconcileList, NoAudit
  <2>. QED
    BY <1>00, <2>1
<1>5. ASSUME NEW r \in Requests, ReconcileTake(x, r) PROVE Goal
  <2>1. audit'[x].todo = audit[x].todo \ {r} /\ audit'[x].request = r
    BY <1>0, <1>5 DEF ReconcileTake, AuditRows
  <2>2. r \in audit[x].todo
    BY <1>5 DEF ReconcileTake
  <2>. QED
    BY <1>00, <2>1, <2>2
<1>6. CASE ReconcileConfirm(x) \/ ReconcileReview(x) \/ ReconcileLook(x)
  <2>1. CASE NextListed(x)
    <3>1. audit'[x].pc = "next" /\ audit'[x].todo = audit[x].todo
      BY <1>0, <2>1 DEF NextListed, AuditRows
    <3>. QED
      BY <1>00, <3>1
  <2>2. CASE At(x, "look") /\ Proceed(x, "review")
    <3>1. /\ audit'[x].todo = audit[x].todo /\ audit'[x].request = audit[x].request
          /\ audit[x].pc = "look"
      BY <1>0, <2>2 DEF Proceed, At, AuditRows
    <3>. QED
      BY <1>00, <3>1
  <2>. QED
    BY <1>6, <2>1, <2>2 DEF ReconcileConfirm, ReconcileReview, ReconcileLook
<1>7. CASE Reconcile
  <2>1. PICK y \in Reconcilers : (\E k \in Keys : ReconcileRead(y, k)) \/ AuditStep(y)
    BY <1>7 DEF Reconcile
  <2>2. y # x => audit'[x] = audit[x]
    BY <1>0, <2>1 DEF AuditStep, ReconcileRead, ReconcileUpsert, ReconcileList, ReconcileTake,
       ReconcileConfirm, ReconcileLook, ReconcileReview, NextListed, Proceed
  <2>. QED
    BY <1>1, <1>2, <1>3, <1>4, <1>5, <1>6, <2>1, <2>2 DEF AuditStep
<1>8. CASE Restart \/ HandlerDies
  BY <1>1, <1>8, DeathIdles DEF NoAudit, Held
<1>9. CASE Command \/ Refresh \/ Submission \/ Batch \/ Hcm \/ UNCHANGED vars
  BY <1>1, <1>9 DEF Command, Refresh, Submission, Batch, Hcm, vars
<1>. QED
  BY <1>7, <1>8, <1>9 DEF Next

\* A step begins one call, ends one call or leaves the calls alone.
LEMMA CallStep ==
    ASSUME TypeOK, [Next]_vars, NEW c \in Callers, call'[c].op # "none"
    PROVE  \/ call'[c] = call[c] /\ ~CreateReserve(c)
           \/ BeginCommand(c) /\ UNCHANGED storeVars
<1>1. call \in [Callers -> [op : Commands \cup {"none"},
                            request : Requests \cup {NoRequest}, version : Nat]]
  BY DEF TypeOK, CallTypeOK
<1>2. ASSUME NEW d \in Callers, FinishCommand(d) PROVE call'[c] = call[c] /\ ~CreateReserve(c)
  <2>1. Return(d)
    BY <1>2 DEF FinishCommand, CreateReserve, CreateConflict, ApproveSave, ApproveConflict,
       RejectSave, RejectConflict, CancelSave, CancelConflict
  <2>2. c # d
    BY <1>1, <2>1 DEF Return, NoCall
  <2>3. call'[c] = call[c]
    BY <1>1, <2>1, <2>2 DEF Return
  <2>. QED
    BY <1>1, <2>3 DEF CreateReserve, Return, NoCall
<1>3. ASSUME NEW d \in Callers, BeginCommand(d), c # d PROVE call'[c] = call[c]
  BY <1>1, <1>3 DEF BeginCommand, CreateRead, ApproveLoad, RejectLoad, CancelLoad, Remember
<1>4. ASSUME NEW d \in Callers, BeginCommand(d) PROVE UNCHANGED storeVars
  BY <1>4 DEF BeginCommand, CreateRead, ApproveLoad, RejectLoad, CancelLoad
<1>5. call'[c] = call[c] => ~CreateReserve(c)
  BY <1>1 DEF CreateReserve, Return, NoCall
<1>6. CASE Command
  BY <1>2, <1>3, <1>4, <1>5, <1>6 DEF Command
<1>7. CASE Refresh \/ Submission \/ Reconcile \/ Batch \/ Hcm \/ UNCHANGED vars
  BY <1>5, <1>7 DEF Refresh, Submission, Reconcile, Batch, Hcm, vars
<1>8. CASE Restart \/ HandlerDies
  BY <1>5, <1>8, DeathIdles DEF NoCall
<1>. QED
  BY <1>6, <1>7, <1>8 DEF Next

\* No handler is running at the start.
LEMMA CallInvInitial == Init => CallInv
BY DEF Init, CallInit, NoCall, AuditInit, NoAudit, Held, CallInv

\* The invariant for one caller, so that the proof can split on what the
\* caller is doing.
CreateOK(c) ==
    LET r == call[c].request IN
    /\ request[r].status = "ABSENT"
    /\ call[c].version <= projection[KeyOf[r]].version
    /\ ProjectionVersionMatches(c) => DisplayAvailable(KeyOf[r]) >= DaysOf[r]
    /\ \A d \in Callers : call[d].op = "create" /\ call[d].request = r => d = c

ApproveOK(c) ==
    LET r == call[c].request IN
    /\ call[c].version <= request[r].version
    /\ RequestVersionMatches(c) => request[r].status = "PENDING_MANAGER_APPROVAL"

\* Every handler preserves what the running ones rely on.
LEMMA CallInvInductive == TypeOK /\ CallInv /\ [Next]_vars => CallInv'
<1> SUFFICES ASSUME TypeOK, CallInv, [Next]_vars PROVE CallInv'
  OBVIOUS
<1>0. TypeOK'
  BY TypeInductive
<1>1. ASSUME NEW c \in Callers, call'[c].op = "create" PROVE CreateOK(c)'
  <2> DEFINE r == call'[c].request
             k == KeyOf[r]
  <2>1. /\ r \in Requests /\ k \in Keys /\ DaysOf[r] \in Nat
        /\ projection[k] \in ProjectionRows /\ projection'[k] \in ProjectionRows
        /\ call'[c].version \in Nat
    BY <1>0, <1>1, KeyOfAssumption, DaysOfAssumption DEF TypeOK, CallTypeOK, StoreTypeOK
  <2>2. CASE call'[c] = call[c] /\ ~CreateReserve(c)
    <3>1. CreateOK(c)
      BY <1>1, <2>2 DEF CallInv, CreateOK
    <3>2. ~\E d \in Callers : CreateReserve(d) /\ call[d].request = r
      BY <2>2, <3>1 DEF CreateOK, CreateReserve, Running
    <3>3. request'[r] = request[r]
      BY <2>1, <2>2, <3>1, <3>2, RequestStep DEF CreateOK, RequestRowMoves
    <3>4. projection'[k] = projection[k] \/ projection'[k].version = projection[k].version + 1
      BY <2>1, ProjectionStep
    <3>5. call[c].version <= projection[k].version
      BY <2>2, <3>1 DEF CreateOK
    <3>6. call'[c].version <= projection'[k].version
      BY <2>1, <2>2, <3>4, <3>5 DEF ProjectionRows
    <3>7. ASSUME projection'[k].version = call'[c].version
          PROVE  projection'[k].availableDays - projection'[k].reservedDays >= DaysOf[r]
      <4>1. projection'[k] = projection[k]
        BY <2>1, <2>2, <3>4, <3>5, <3>7 DEF ProjectionRows
      <4>2. DisplayAvailable(k) >= DaysOf[r]
        BY <2>2, <3>1, <3>7, <4>1 DEF CreateOK, ProjectionVersionMatches
      <4>. QED
        BY <4>1, <4>2 DEF DisplayAvailable
    <3>8. ASSUME NEW d \in Callers, call'[d].op = "create", call'[d].request = r PROVE d = c
      <4>1. CASE call'[d] = call[d]
        BY <2>2, <3>1, <3>8, <4>1 DEF CreateOK
      <4>2. CASE BeginCommand(d)
        <5>1. PICK q \in Requests : \/ CreateRead(d, q) \/ ApproveLoad(d, q)
                                   \/ RejectLoad(d, q) \/ CancelLoad(d, q)
          BY <4>2 DEF BeginCommand
        <5>2. call'[d].op = "create" /\ call'[d].request = q => CreateRead(d, q)
          BY <5>1 DEF TypeOK, CallTypeOK, ApproveLoad, RejectLoad, CancelLoad, Remember
        <5>3. call'[d].request = q
          BY <5>1 DEF TypeOK, CallTypeOK, CreateRead, ApproveLoad, RejectLoad, CancelLoad, Remember
        <5>. QED
          BY <2>2, <3>8, <5>2, <5>3 DEF CreateRead, Fresh
      <4>. QED
        BY <3>8, <4>1, <4>2, CallStep
    <3>. QED
      BY <2>2, <3>1, <3>3, <3>6, <3>7, <3>8
      DEF CreateOK, ProjectionVersionMatches, DisplayAvailable
  <2>3. CASE BeginCommand(c) /\ UNCHANGED storeVars
    <3>1. PICK q \in Requests : \/ CreateRead(c, q) \/ ApproveLoad(c, q)
                               \/ RejectLoad(c, q) \/ CancelLoad(c, q)
      BY <2>3 DEF BeginCommand
    <3>2. CreateRead(c, q)
      BY <1>1, <3>1 DEF TypeOK, CallTypeOK, ApproveLoad, RejectLoad, CancelLoad, Remember
    <3>3. /\ r = q /\ call'[c].version = projection[k].version
          /\ \A d \in Callers : d # c => call'[d] = call[d]
      BY <3>2 DEF TypeOK, CallTypeOK, CreateRead, Remember
    <3>4. projection' = projection /\ request' = request
      BY <2>3 DEF storeVars
    <3>5. \A d \in Callers : call[d].request # r
      BY <3>2, <3>3 DEF CreateRead, Fresh
    <3>. QED
      BY <2>1, <3>2, <3>3, <3>4, <3>5
      DEF CreateOK, CreateRead, Fresh, HasBalanceFor, ProjectionVersionMatches,
          DisplayAvailable, ProjectionRows
  <2>. QED
    BY <1>1, <2>2, <2>3, CallStep
<1>2. ASSUME NEW c \in Callers, call'[c].op \in {"approve", "reject", "cancel"}
      PROVE  request'[call'[c].request].status # "ABSENT"
  <2> DEFINE r == call'[c].request
  <2>1. r \in Requests
    BY <1>0, <1>2 DEF TypeOK, CallTypeOK
  <2>2. request[r].status # "ABSENT"
    <3>1. CASE call'[c] = call[c]
      BY <1>2, <3>1 DEF CallInv
    <3>2. CASE BeginCommand(c)
      BY <1>2, <3>2 DEF TypeOK, CallTypeOK, BeginCommand, CreateRead, ApproveLoad,
         RejectLoad, CancelLoad, Cancellable, Remember
    <3>. QED
      BY <1>2, <3>1, <3>2, CallStep
  <2>3. ~\E d \in Callers : CreateReserve(d) /\ call[d].request = r
    BY <2>2 DEF CallInv, CreateReserve, Running
  <2>. QED
    BY <2>1, <2>2, <2>3, RequestStep DEF RequestRowMoves
<1>3. ASSUME NEW c \in Callers, call'[c].op = "approve" PROVE ApproveOK(c)'
  <2> DEFINE r == call'[c].request
  <2>1. /\ r \in Requests /\ call'[c].version \in Nat
        /\ request[r] \in RequestRows /\ request'[r] \in RequestRows
    BY <1>0, <1>3 DEF TypeOK, CallTypeOK, StoreTypeOK
  <2>2. CASE call'[c] = call[c]
    <3>1. /\ ApproveOK(c) /\ request[r].status # "ABSENT"
      BY <1>3, <2>2 DEF CallInv, ApproveOK
    <3>2. ~\E d \in Callers : CreateReserve(d) /\ call[d].request = r
      BY <3>1 DEF CallInv, CreateReserve, Running
    <3>3. request'[r] = request[r] \/ request'[r].version = request[r].version + 1
      BY <2>1, <3>2, RequestStep DEF RequestRowMoves
    <3>. QED
      BY <2>1, <2>2, <3>1, <3>3 DEF ApproveOK, RequestVersionMatches, RequestRows
  <2>3. CASE BeginCommand(c) /\ UNCHANGED storeVars
    <3>1. PICK q \in Requests : \/ CreateRead(c, q) \/ ApproveLoad(c, q)
                               \/ RejectLoad(c, q) \/ CancelLoad(c, q)
      BY <2>3 DEF BeginCommand
    <3>2. ApproveLoad(c, q)
      BY <1>3, <3>1 DEF TypeOK, CallTypeOK, CreateRead, RejectLoad, CancelLoad, Remember
    <3>3. r = q /\ call'[c].version = request[q].version /\ request' = request
      BY <2>3, <3>2 DEF TypeOK, CallTypeOK, ApproveLoad, Remember, storeVars
    <3>. QED
      BY <2>1, <3>2, <3>3 DEF ApproveOK, ApproveLoad, RequestVersionMatches, RequestRows
  <2>. QED
    BY <1>3, <2>2, <2>3, CallStep
<1>4. ASSUME NEW x \in Reconcilers, NEW r \in Held(x)' PROVE request'[r].status # "ABSENT"
  <2>1. r \in Requests
    BY <1>0, <1>4 DEF TypeOK, AuditTypeOK, AuditRows, Held
  <2>2. request[r].status # "ABSENT"
    BY <1>4, HeldStep DEF CallInv
  <2>. QED
    BY <2>1, <2>2, RequestPersists
<1>. QED
  BY <1>1, <1>2, <1>3, <1>4 DEF CallInv, CreateOK, ApproveOK

\* What running creates and approvals rely on holds at all times.
LEMMA CallInvariant == Spec => [](TypeOK /\ CallInv)
BY TypeInitial, TypeInductive, CallInvInitial, CallInvInductive, PTL DEF Spec

-----------------------------------------------------------------------------

\* No step reserves days that are not available (NoOverbooking).
THEOREM NeverOverbooks == Spec => NoOverbooking
<1> DEFINE Covered == \A k \in Keys :
              projection'[k].reservedDays > projection[k].reservedDays
                  => DisplayAvailable(k)' >= 0
<1>1. TypeOK /\ CallInv /\ [Next]_vars => [Covered]_vars
  <2> SUFFICES ASSUME TypeOK, CallInv, [Next]_vars, NEW k \in Keys,
                      projection'[k].reservedDays > projection[k].reservedDays
               PROVE  DisplayAvailable(k)' >= 0
    BY DEF Covered
  <2>1. projection[k] \in ProjectionRows /\ projection'[k] \in ProjectionRows
    BY TypeInductive DEF TypeOK, StoreTypeOK
  <2>2. PICK c \in Callers : CreateReserve(c) /\ KeyOf[call[c].request] = k
    BY <2>1, ProjectionStep DEF ProjectionRows
  <2> DEFINE r == call[c].request
  <2>3. DisplayAvailable(k) >= DaysOf[r]
    BY <2>2 DEF CallInv, CreateReserve, Running
  <2>4. /\ projection'[k].availableDays = projection[k].availableDays
        /\ projection'[k].reservedDays = projection[k].reservedDays + DaysOf[r]
        /\ DaysOf[r] \in Nat
    BY <2>2, ReserveEffect, DaysOfAssumption
  <2>. QED
    BY <2>1, <2>3, <2>4 DEF DisplayAvailable, ProjectionRows
<1>. QED
  BY <1>1, CallInvariant, PTL DEF Spec, NoOverbooking

\* Only pending requests become APPROVED (ApprovalIsExclusive).
THEOREM ApprovesOnlyPending == Spec => ApprovalIsExclusive
<1> DEFINE Exclusive == \A r \in Requests :
              request'[r].status = "APPROVED" /\ request[r].status # "APPROVED"
                  => request[r].status = "PENDING_MANAGER_APPROVAL"
<1>1. TypeOK /\ CallInv /\ [Next]_vars => [Exclusive]_vars
  <2> SUFFICES ASSUME TypeOK, CallInv, [Next]_vars, NEW r \in Requests,
                      request'[r].status = "APPROVED", request[r].status # "APPROVED"
               PROVE  request[r].status = "PENDING_MANAGER_APPROVAL"
    BY DEF Exclusive
  <2>1. ~\E c \in Callers : CreateReserve(c) /\ call[c].request = r
    BY ReserveEffect
  <2>2. PICK c \in Callers : ApproveSave(c) /\ call[c].request = r
    BY <2>1, RequestStep DEF RequestRowMoves
  <2>. QED
    BY <2>2 DEF CallInv, ApproveSave, ApproveCommits, Running
<1>. QED
  BY <1>1, CallInvariant, PTL DEF Spec, ApprovalIsExclusive

-----------------------------------------------------------------------------

\* A request with an outcome has left the states from which a submission or
\* an approval continues.
OutcomeInv ==
    \A r \in Requests :
        request[r].submission \in {"CONFIRMED", "REJECTED"}
            => request[r].status \in {"CONFIRMED_BY_HCM", "FAILED_HCM_VALIDATION",
                                     "REJECTED", "CANCELLED"}

\* Only a reconciliation touches a request that has an HCM outcome in a way that
\* changes it.
LEMMA OutcomeStep ==
    ASSUME TypeOK, CallInv, OutcomeInv, [Next]_vars, NEW r \in Requests,
           request[r].submission \in {"CONFIRMED", "REJECTED"}
    PROVE  \/ /\ request'[r].submission = request[r].submission
              /\ request'[r].status \in {"CONFIRMED_BY_HCM", "FAILED_HCM_VALIDATION",
                                         "REJECTED", "CANCELLED"}
           \/ /\ request'[r].status = "CONFIRMED_BY_HCM" \/ request'[r].submission = "UNKNOWN"
              /\ audit' # audit
<1>1. request[r].status \in {"CONFIRMED_BY_HCM", "FAILED_HCM_VALIDATION",
                            "REJECTED", "CANCELLED"}
  BY DEF OutcomeInv
<1>2. ~\E c \in Callers : CreateReserve(c) /\ call[c].request = r
  BY <1>1 DEF CallInv, CreateReserve, Running
<1>3. ~\E c \in Callers : ApproveSave(c) /\ call[c].request = r
  BY <1>1 DEF CallInv, ApproveSave, ApproveCommits, Running
<1>4. ASSUME NEW x \in Reconcilers, ReconcileConfirm(x) \/ ReconcileReview(x)
      PROVE  audit' # audit
  <2>1. audit[x].pc # "next" /\ NextListed(x)
    BY <1>4 DEF ReconcileConfirm, ReconcileReview, At
  <2>2. audit'[x].pc = "next"
    BY <2>1 DEF TypeOK, AuditTypeOK, AuditRows, NextListed
  <2>. QED
    BY <2>1, <2>2
<1>. QED
  BY <1>1, <1>2, <1>3, <1>4, RequestStep DEF RequestRowMoves

\* Every handler preserves OutcomeInv.
LEMMA OutcomeInvInductive == TypeOK /\ CallInv /\ OutcomeInv /\ [Next]_vars => OutcomeInv'
<1> SUFFICES ASSUME TypeOK, CallInv, OutcomeInv, [Next]_vars, NEW r \in Requests,
                    request'[r].submission \in {"CONFIRMED", "REJECTED"}
             PROVE  request'[r].status \in {"CONFIRMED_BY_HCM", "FAILED_HCM_VALIDATION",
                                           "REJECTED", "CANCELLED"}
  BY DEF OutcomeInv
<1>1. CASE request[r].submission \in {"CONFIRMED", "REJECTED"}
  BY <1>1, OutcomeStep
<1>2. CASE request[r].submission \notin {"CONFIRMED", "REJECTED"}
  <2>1. ~\E c \in Callers : CreateReserve(c) /\ call[c].request = r
    BY ReserveEffect
  <2>. QED
    BY <1>2, <2>1, RequestStep DEF RequestRowMoves
<1>. QED
  BY <1>1, <1>2

\* OutcomeInv holds at all times.
LEMMA OutcomeInvariant == Spec => [](TypeOK /\ CallInv /\ OutcomeInv)
<1>1. Init => OutcomeInv
  BY DEF Init, StoreInit, OutcomeInv
<1>. QED
  BY <1>1, OutcomeInvInductive, CallInvariant, PTL DEF Spec

\* An outcome once recorded is revised by no run and no command
\* (RunsKeepOutcomes).
THEOREM OutcomesAreKept == Spec => RunsKeepOutcomes
<1> DEFINE Kept == \A r \in Requests :
              request[r].submission \in {"CONFIRMED", "REJECTED"} /\ UNCHANGED audit
                  => request'[r].submission = request[r].submission
<1>1. TypeOK /\ CallInv /\ OutcomeInv /\ [Next]_vars => [Kept]_vars
  BY OutcomeStep DEF Kept
<1>. QED
  BY <1>1, OutcomeInvariant, PTL DEF Spec, RunsKeepOutcomes

-----------------------------------------------------------------------------

\* An approval acts only on the pending request it read, and a run looks at the
\* request again before it submits it: neither revives one that was decided.
LEMMA DecidedStep ==
    ASSUME TypeOK, CallInv, [Next]_vars, NEW r \in Requests,
           request[r].status \notin {"ABSENT", "PENDING_MANAGER_APPROVAL",
                                     "APPROVED", "SUBMITTED_TO_HCM"}
    PROVE  request'[r].status \notin {"ABSENT", "PENDING_MANAGER_APPROVAL",
                                      "APPROVED", "SUBMITTED_TO_HCM"}
<1>1. ~\E c \in Callers : CreateReserve(c) /\ call[c].request = r
  BY DEF CallInv, CreateReserve, Running
<1>2. ~\E c \in Callers : ApproveSave(c) /\ call[c].request = r
  BY DEF CallInv, ApproveSave, ApproveCommits, Running
<1>3. request'[r] = request[r] \/ RequestRowMoves(r)
  BY <1>1, RequestStep
<1>. QED
  BY <1>2, <1>3 DEF RequestRowMoves

\* A request that was decided stays decided (NoneIsRevived).
THEOREM DecidedStaysDecided == Spec => NoneIsRevived
<1> DEFINE Kept == \A r \in Requests :
              request[r].status \in {"REJECTED", "CANCELLED", "FAILED_HCM_VALIDATION",
                                     "CONFIRMED_BY_HCM", "CONFLICT_REVIEW"}
                  => request'[r].status \notin {"ABSENT", "PENDING_MANAGER_APPROVAL",
                                                "APPROVED", "SUBMITTED_TO_HCM"}
<1>1. TypeOK /\ CallInv /\ [Next]_vars => [Kept]_vars
  BY DecidedStep
<1>. QED
  BY <1>1, CallInvariant, PTL DEF Spec, NoneIsRevived

=============================================================================
