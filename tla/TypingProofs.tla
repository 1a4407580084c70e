---------------------------- MODULE TypingProofs ----------------------------
(***************************************************************************)
(* TypeOK is an invariant of TimeOffService, for any number of requests,   *)
(* keys, handlers and batches, overlapping or not, restarted or not.  Each *)
(* lemma takes one component's handlers; TypeInductive puts them together. *)
(***************************************************************************)
EXTENDS TimeOffService, TLAPS, FiniteSetTheorems

\* createPendingApprovalWithReservation writes rows of the right type.
LEMMA ReserveTyping ==
    ASSUME TypeOK, NEW c \in Callers, CreateReserve(c)
    PROVE  StoreTypeOK'
<1> DEFINE r == call[c].request
<1>1. r \in Requests
  BY DEF TypeOK, CallTypeOK, CreateReserve, Running
<1>2. projection' \in [Keys -> ProjectionRows]
  <2>1. projection' = [projection EXCEPT ![KeyOf[r]].reservedDays = @ + DaysOf[r],
                                         ![KeyOf[r]].version = @ + 1]
    BY DEF CreateReserve
  <2>2. KeyOf[r] \in Keys /\ DaysOf[r] \in Nat
    BY <1>1, KeyOfAssumption, DaysOfAssumption
  <2>3. projection \in [Keys -> ProjectionRows]
    BY DEF TypeOK, StoreTypeOK
  <2> HIDE DEF r
  <2>. QED
    BY <2>1, <2>2, <2>3 DEF ProjectionRows
<1>3. request' \in [Requests -> RequestRows]
  BY <1>1 DEF TypeOK, StoreTypeOK, RequestRows, RequestStatus, SubmissionStatus, CreateReserve
<1>4. ledger' \subseteq EntryKinds \X Requests /\ event' \in [Requests -> EventRows]
  BY <1>1 DEF TypeOK, StoreTypeOK, EntryKinds, CreateReserve
<1>. QED
  BY <1>2, <1>3, <1>4 DEF StoreTypeOK

\* The transaction that returns a reservation keeps reservedDays a natural number
\* because of the CHECK constraint.
LEMMA ReleaseTyping ==
    ASSUME StoreTypeOK, NEW kind \in ReturnKinds, NEW r \in Requests, NEW d \in Nat,
           CanRelease(kind, r), ReleaseReservation(kind, r, d)
    PROVE  /\ projection' \in [Keys -> ProjectionRows]
           /\ ledger' \subseteq EntryKinds \X Requests
<1>1. projection' \in [Keys -> ProjectionRows]
  BY KeyOfAssumption, DaysOfAssumption
  DEF StoreTypeOK, ProjectionRows, CanRelease, ReleaseReservation
<1>2. ledger' \subseteq EntryKinds \X Requests
  BY DEF StoreTypeOK, ReleaseReservation, EntryKinds
<1>. QED
  BY <1>1, <1>2

\* A status update writes request rows of the right type.
LEMMA RequestTyping ==
    ASSUME StoreTypeOK, NEW r \in Requests,
           NEW s \in RequestStatus, NEW h \in SubmissionStatus,
           SetStatus(r, s) \/ Settle(r, s, h)
    PROVE  request' \in [Requests -> RequestRows]
BY DEF StoreTypeOK, RequestRows, Settle, SetStatus

\* A command that begins or ends leaves the callers well typed.
LEMMA CallTyping ==
    ASSUME TypeOK, NEW c \in Callers, BeginCommand(c) \/ FinishCommand(c)
    PROVE  CallTypeOK'
<1>1. ASSUME Return(c) PROVE CallTypeOK'
  BY <1>1 DEF TypeOK, CallTypeOK, Return, NoCall
<1>2. ASSUME NEW op \in Commands, NEW r \in Requests, NEW v \in Nat, Remember(c, op, r, v)
      PROVE  CallTypeOK'
  BY <1>2 DEF TypeOK, CallTypeOK, Remember
<1>3. CASE FinishCommand(c)
  BY <1>1, <1>3 DEF FinishCommand, CreateReserve, CreateConflict, ApproveSave,
     ApproveConflict, RejectSave, RejectConflict, CancelSave, CancelConflict
<1>4. CASE BeginCommand(c)
  <2>1. PICK r \in Requests : CreateRead(c, r) \/ ApproveLoad(c, r) \/ RejectLoad(c, r) \/ CancelLoad(c, r)
    BY <1>4 DEF BeginCommand
  <2>2. projection[KeyOf[r]].version \in Nat /\ request[r].version \in Nat
    BY KeyOfAssumption DEF TypeOK, StoreTypeOK, ProjectionRows, RequestRows
  <2>. QED
    BY <1>2, <2>1, <2>2 DEF Commands, CreateRead, ApproveLoad, RejectLoad, CancelLoad
<1>. QED
  BY <1>3, <1>4

\* A command leaves the tables well typed.
LEMMA CommandTyping ==
    ASSUME TypeOK, NEW c \in Callers, BeginCommand(c) \/ FinishCommand(c)
    PROVE  StoreTypeOK'
<1> DEFINE r == call[c].request
<1>1. CASE \/ BeginCommand(c) \/ CreateConflict(c) \/ ApproveConflict(c)
           \/ RejectConflict(c) \/ CancelConflict(c)
  BY <1>1 DEF TypeOK, StoreTypeOK, storeVars, BeginCommand, CreateRead, ApproveLoad,
     RejectLoad, CancelLoad, CreateConflict, ApproveConflict, RejectConflict, CancelConflict
<1>2. CASE CreateReserve(c)
  BY <1>2, ReserveTyping
<1>3. CASE ApproveSave(c)
  <2>1. r \in Requests
    BY <1>3 DEF TypeOK, CallTypeOK, ApproveSave, Running
  <2>2. request' \in [Requests -> RequestRows]
    BY <1>3, <2>1, RequestTyping
    DEF TypeOK, RequestStatus, SubmissionStatus, ApproveSave
  <2>3. event' \in [Requests -> EventRows]
    BY <1>3, <2>1 DEF TypeOK, StoreTypeOK, EventRows, EventStatus, ApproveSave
  <2>. QED
    BY <1>3, <2>2, <2>3 DEF TypeOK, StoreTypeOK, ApproveSave
<1>4. CASE RejectSave(c)
  <2>1. r \in Requests /\ projection[KeyOf[r]].availableDays \in Nat
    BY <1>4, KeyOfAssumption
    DEF TypeOK, CallTypeOK, StoreTypeOK, ProjectionRows, RejectSave, Running
  <2>2. request' \in [Requests -> RequestRows]
    BY <1>4, <2>1, RequestTyping DEF TypeOK, RequestStatus, SubmissionStatus, RejectSave
  <2>3. /\ projection' \in [Keys -> ProjectionRows]
        /\ ledger' \subseteq EntryKinds \X Requests
    BY <1>4, <2>1, ReleaseTyping DEF TypeOK, ReturnKinds, RejectSave
  <2>. QED
    BY <1>4, <2>2, <2>3 DEF TypeOK, StoreTypeOK, RejectSave
<1>5. CASE CancelSave(c)
  <2>1. r \in Requests /\ projection[KeyOf[r]].availableDays \in Nat
    BY <1>5, KeyOfAssumption
    DEF TypeOK, CallTypeOK, StoreTypeOK, ProjectionRows, CancelSave, Running
  <2>2. request' \in [Requests -> RequestRows]
    BY <1>5, <2>1, RequestTyping DEF TypeOK, RequestStatus, SubmissionStatus, CancelSave
  <2>3. /\ projection' \in [Keys -> ProjectionRows]
        /\ ledger' \subseteq EntryKinds \X Requests
    BY <1>5, <2>1, ReleaseTyping DEF TypeOK, ReturnKinds, CancelSave
  <2>4. event' \in [Requests -> EventRows]
    BY <1>5, <2>1
    DEF TypeOK, StoreTypeOK, EventRows, EventStatus, CancelSave, IgnorePendingEvent
  <2>. QED
    BY <2>2, <2>3, <2>4 DEF StoreTypeOK
<1>. QED
  BY <1>1, <1>2, <1>3, <1>4, <1>5 DEF FinishCommand

\* HCM accepts only what it has: its balance stays a natural number.
LEMMA AcceptTyping ==
    ASSUME TypeOK, NEW r \in Requests, AcceptSubmission(r)
    PROVE  /\ hcmBalance' \in [Keys -> Nat \cup {NoBalance}]
           /\ hcmBalance'[KeyOf[r]] \in Nat
<1> DEFINE k == KeyOf[r]
<1>1. hcmBalance \in [Keys -> Nat \cup {NoBalance}] /\ k \in Keys /\ DaysOf[r] \in Nat
  BY KeyOfAssumption, DaysOfAssumption DEF TypeOK, HcmTypeOK
<1>2. hcmBalance[k] >= DaysOf[r] /\ hcmBalance' = [hcmBalance EXCEPT ![k] = @ - DaysOf[r]]
  BY DEF AcceptSubmission
<1>3. hcmBalance[k] - DaysOf[r] \in Nat
  BY <1>1, <1>2 DEF NoBalance
<1>4. hcmBalance'[k] = hcmBalance[k] - DaysOf[r]
  BY <1>1, <1>2
<1> HIDE DEF k
<1>5. hcmBalance' \in [Keys -> Nat \cup {NoBalance}]
  BY <1>1, <1>2, <1>3
<1>. QED
  BY <1>3, <1>4, <1>5 DEF k

\* HCM's own operations leave its state well typed.
LEMMA HcmTyping ==
    ASSUME TypeOK,
           \/ \E r \in Requests : \/ ThrowSubmission(r)
                                 \/ RefuseSubmission(r)
                                 \/ AcceptSubmission(r)
           \/ \E k \in Keys : \/ \E days \in Balances : UpsertBalance(k, days)
                             \/ \E times \in Outages : ConfigureSubmissionFailure(k, times)
    PROVE  HcmTypeOK'
<1>1. ASSUME NEW r \in Requests, ThrowSubmission(r) PROVE HcmTypeOK'
  BY <1>1, KeyOfAssumption DEF TypeOK, HcmTypeOK, ThrowSubmission
<1>2. ASSUME NEW r \in Requests, RefuseSubmission(r) PROVE HcmTypeOK'
  BY <1>2 DEF TypeOK, HcmTypeOK, RefuseSubmission, hcmVars
<1>3. ASSUME NEW r \in Requests, AcceptSubmission(r) PROVE HcmTypeOK'
  <2>1. hcmBalance' \in [Keys -> Nat \cup {NoBalance}]
    BY <1>3, AcceptTyping
  <2>2. charges' \in [Requests -> 0..MaxCharges]
    BY <1>3, MaxChargesAssumption DEF TypeOK, HcmTypeOK, AcceptSubmission
  <2>3. accepted' \subseteq Requests
    BY <1>3 DEF TypeOK, HcmTypeOK, AcceptSubmission
  <2>. QED
    BY <1>3, <2>1, <2>2, <2>3 DEF TypeOK, HcmTypeOK, AcceptSubmission
<1>4. ASSUME NEW k \in Keys, NEW days \in Balances, UpsertBalance(k, days) PROVE HcmTypeOK'
  BY <1>4, BalancesAssumption DEF TypeOK, HcmTypeOK, UpsertBalance
<1>5. ASSUME NEW k \in Keys, NEW times \in Outages, ConfigureSubmissionFailure(k, times)
      PROVE  HcmTypeOK'
  BY <1>5, OutagesAssumption DEF TypeOK, HcmTypeOK, ConfigureSubmissionFailure
<1>. QED
  BY <1>1, <1>2, <1>3, <1>4, <1>5

\* The upsert of a snapshot writes projection rows of the right type.
LEMMA UpsertTyping ==
    ASSUME StoreTypeOK, NEW k \in Keys, NEW days \in Nat, UpsertFromHcmSnapshot(k, days)
    PROVE  projection' \in [Keys -> ProjectionRows]
BY DEF StoreTypeOK, ProjectionRows, UpsertFromHcmSnapshot

\* A refresh leaves every variable it writes well typed.
LEMMA RefreshTyping ==
    ASSUME TypeOK,
           \/ \E d \in Readers, k \in Keys : RefreshRead(d, k)
           \/ \E s \in reading : RefreshUpsert(s)
    PROVE  StoreTypeOK' /\ HcmTypeOK' /\ ReadingTypeOK'
<1>1. ASSUME NEW d \in Readers, NEW k \in Keys, RefreshRead(d, k)
      PROVE  StoreTypeOK' /\ HcmTypeOK' /\ ReadingTypeOK'
  <2>1. hcmBalance[k] \in Nat
    BY <1>1 DEF TypeOK, HcmTypeOK, RefreshRead
  <2>2. ReadingTypeOK'
    BY <1>1, <2>1 DEF TypeOK, ReadingTypeOK, Snapshots, RefreshRead
  <2>. QED
    BY <1>1, <2>2 DEF TypeOK, StoreTypeOK, HcmTypeOK, RefreshRead, storeVars, hcmVars
<1>2. ASSUME NEW s \in reading, RefreshUpsert(s)
      PROVE  StoreTypeOK' /\ HcmTypeOK' /\ ReadingTypeOK'
  <2>1. s.key \in Keys /\ s.days \in Nat
    BY DEF TypeOK, ReadingTypeOK, Snapshots
  <2>2. projection' \in [Keys -> ProjectionRows]
    BY <1>2, <2>1, UpsertTyping DEF TypeOK, RefreshUpsert
  <2>. QED
    BY <1>2, <2>2
    DEF TypeOK, StoreTypeOK, HcmTypeOK, ReadingTypeOK, RefreshUpsert, hcmVars
<1>. QED
  BY <1>1, <1>2

\* Leaving the loop body of a submission run leaves the run well typed.
LEMMA TakeNextTyping ==
    ASSUME TypeOK, NEW w \in Workers, TakeNext(w)
    PROVE  JobTypeOK'
<1>1. job[w].todo \in SUBSET Requests
  BY DEF TypeOK, JobTypeOK, JobRows
<1>. QED
  BY <1>1, NoRequestAssumption DEF TypeOK, JobTypeOK, JobRows, TakeNext

\* Each step of a submission run leaves every variable it writes well typed.
LEMMA WorkTyping ==
    ASSUME TypeOK, NEW w \in Workers, WorkStep(w)
    PROVE  StoreTypeOK' /\ HcmTypeOK' /\ JobTypeOK'
<1> DEFINE q == job[w].request
<1>0. q \in Requests \/ job[w].pc = "next"
  BY DEF TypeOK, JobTypeOK
<1>1. ASSUME NEW r \in Requests, PrepareFirst(w, r)
      PROVE  StoreTypeOK' /\ HcmTypeOK' /\ JobTypeOK'
  <2>1. request' \in [Requests -> RequestRows]
    BY <1>1, RequestTyping DEF TypeOK, RequestStatus, SubmissionStatus, PrepareFirst
  <2>2. JobTypeOK'
    BY <1>1 DEF TypeOK, JobTypeOK, JobRows, PrepareFirst, Prepared
  <2>. QED
    BY <1>1, <2>1, <2>2 DEF TypeOK, StoreTypeOK, HcmTypeOK, PrepareFirst, hcmVars
<1>2. ASSUME NEW r \in Requests, PrepareRetry(w, r)
      PROVE  StoreTypeOK' /\ HcmTypeOK' /\ JobTypeOK'
  <2>1. JobTypeOK'
    BY <1>2 DEF TypeOK, JobTypeOK, JobRows, PrepareRetry, Prepared
  <2>. QED
    BY <1>2, <2>1 DEF TypeOK, StoreTypeOK, HcmTypeOK, PrepareRetry, hcmVars, storeVars
<1>3. ASSUME NEW r \in Requests, PrepareStale(w, r)
      PROVE  StoreTypeOK' /\ HcmTypeOK' /\ JobTypeOK'
  <2>1. event' \in [Requests -> EventRows]
    BY <1>3 DEF TypeOK, StoreTypeOK, EventRows, EventStatus, PrepareStale
  <2>2. JobTypeOK'
    BY <1>3 DEF TypeOK, JobTypeOK, JobRows, PrepareStale
  <2>. QED
    BY <1>3, <2>1, <2>2 DEF TypeOK, StoreTypeOK, HcmTypeOK, PrepareStale, hcmVars
<1>4. CASE SubmitFails(w) \/ SubmitRefused(w)
  <2>1. HcmTypeOK'
    BY <1>0, <1>4, HcmTyping DEF SubmitFails, SubmitRefused
  <2>2. JobTypeOK'
    BY <1>4 DEF TypeOK, JobTypeOK, JobRows, SubmitFails, SubmitRefused, Goto
  <2>. QED
    BY <1>4, <2>1, <2>2 DEF TypeOK, StoreTypeOK, SubmitFails, SubmitRefused, storeVars
<1>5. CASE SubmitAccepted(w)
  <2>1. HcmTypeOK'
    BY <1>0, <1>5, HcmTyping DEF SubmitAccepted
  <2>2. hcmBalance'[KeyOf[q]] \in Nat
    BY <1>0, <1>5, AcceptTyping DEF SubmitAccepted
  <2>3. JobTypeOK'
    BY <1>5, <2>2 DEF TypeOK, JobTypeOK, JobRows, SubmitAccepted
  <2>. QED
    BY <1>5, <2>1, <2>3 DEF TypeOK, StoreTypeOK, SubmitAccepted, storeVars
<1>6. CASE ConfirmSubmission(w)
  <2>1. q \in Requests /\ job[w].days \in Nat
    BY <1>0, <1>6 DEF TypeOK, JobTypeOK, JobRows, ConfirmSubmission
  <2>2. request' \in [Requests -> RequestRows]
    BY <1>6, <2>1, RequestTyping DEF TypeOK, RequestStatus, SubmissionStatus, ConfirmSubmission
  <2>3. /\ projection' \in [Keys -> ProjectionRows]
        /\ ledger' \subseteq EntryKinds \X Requests
    BY <1>6, <2>1, ReleaseTyping DEF TypeOK, ReturnKinds, ConfirmSubmission
  <2>4. event' \in [Requests -> EventRows]
    BY <1>6, <2>1 DEF TypeOK, StoreTypeOK, EventRows, EventStatus, ConfirmSubmission, CloseEvent
  <2>. QED
    BY <1>6, <2>2, <2>3, <2>4, TakeNextTyping
    DEF TypeOK, StoreTypeOK, HcmTypeOK, ConfirmSubmission, hcmVars
<1>7. CASE RejectSubmission(w)
  <2>1. q \in Requests /\ projection[KeyOf[q]].availableDays \in Nat
    BY <1>0, <1>7, KeyOfAssumption DEF TypeOK, StoreTypeOK, ProjectionRows, RejectSubmission
  <2>2. request' \in [Requests -> RequestRows]
    BY <1>7, <2>1, RequestTyping DEF TypeOK, RequestStatus, SubmissionStatus, RejectSubmission
  <2>3. /\ projection' \in [Keys -> ProjectionRows]
        /\ ledger' \subseteq EntryKinds \X Requests
    BY <1>7, <2>1, ReleaseTyping DEF TypeOK, ReturnKinds, RejectSubmission
  <2>4. event' \in [Requests -> EventRows]
    BY <1>7, <2>1 DEF TypeOK, StoreTypeOK, EventRows, EventStatus, RejectSubmission, CloseEvent
  <2>. QED
    BY <1>7, <2>2, <2>3, <2>4, TakeNextTyping
    DEF TypeOK, StoreTypeOK, HcmTypeOK, RejectSubmission, hcmVars
<1>8. CASE RecordingFails(w)
  <2>1. JobTypeOK'
    BY <1>8 DEF TypeOK, JobTypeOK, JobRows, RecordingFails, Goto
  <2>. QED
    BY <1>0, <1>8, <2>1 DEF TypeOK, StoreTypeOK, HcmTypeOK, RecordingFails, storeVars
<1>9. CASE ScheduleSubmissionRetry(w)
  <2>1. q \in Requests
    BY <1>0, <1>9 DEF ScheduleSubmissionRetry
  <2>2. event' \in [Requests -> EventRows]
    BY <1>9, <2>1, AttemptsCapAssumption
    DEF TypeOK, StoreTypeOK, EventRows, EventStatus, ScheduleSubmissionRetry
  <2>. QED
    BY <1>9, <2>2, TakeNextTyping
    DEF TypeOK, StoreTypeOK, HcmTypeOK, ScheduleSubmissionRetry, hcmVars
<1>. QED
  BY <1>1, <1>2, <1>3, <1>4, <1>5, <1>6, <1>7, <1>8, <1>9 DEF WorkStep

\* Selecting the due events, and the clock, leave everything well typed.
LEMMA StartTyping ==
    ASSUME TypeOK, (\E w \in Workers : StartProcessing(w)) \/ (\E r \in Requests : RetryDue(r))
    PROVE  StoreTypeOK' /\ HcmTypeOK' /\ JobTypeOK'
<1>1. ASSUME NEW w \in Workers, StartProcessing(w)
      PROVE  StoreTypeOK' /\ HcmTypeOK' /\ JobTypeOK'
  <2>1. JobTypeOK'
    BY <1>1 DEF TypeOK, JobTypeOK, JobRows, StartProcessing, WorkerIdle
  <2>. QED
    BY <1>1, <2>1 DEF TypeOK, StoreTypeOK, HcmTypeOK, StartProcessing, storeVars, hcmVars
<1>2. ASSUME NEW r \in Requests, RetryDue(r)
      PROVE  StoreTypeOK' /\ HcmTypeOK' /\ JobTypeOK'
  <2>1. event' \in [Requests -> EventRows]
    BY <1>2 DEF TypeOK, StoreTypeOK, EventRows, RetryDue
  <2>. QED
    BY <1>2, <2>1 DEF TypeOK, StoreTypeOK, HcmTypeOK, JobTypeOK, RetryDue, hcmVars
<1>. QED
  BY <1>1, <1>2

\* The first half of a reconciliation, up to its list of requests, leaves every
\* variable it writes well typed.
LEMMA AuditBalanceTyping ==
    ASSUME TypeOK, NEW x \in Reconcilers,
           \/ \E k \in Keys : ReconcileRead(x, k)
           \/ ReconcileUpsert(x)
           \/ ReconcileList(x)
    PROVE  StoreTypeOK' /\ HcmTypeOK' /\ AuditTypeOK'
<1>1. ASSUME NEW k \in Keys, ReconcileRead(x, k)
      PROVE  StoreTypeOK' /\ HcmTypeOK' /\ AuditTypeOK'
  <2>1. hcmBalance[k] \in Nat
    BY <1>1 DEF TypeOK, HcmTypeOK, ReconcileRead
  <2>2. AuditTypeOK'
    BY <1>1, <2>1 DEF TypeOK, AuditTypeOK, AuditRows, ReconcileRead
  <2>. QED
    BY <1>1, <2>2 DEF TypeOK, StoreTypeOK, HcmTypeOK, ReconcileRead, storeVars, hcmVars
<1>2. CASE ReconcileUpsert(x)
  <2>1. audit[x].key \in Keys /\ audit[x].days \in Nat
    BY <1>2 DEF TypeOK, AuditTypeOK, AuditRows, ReconcileUpsert, At
  <2>2. projection' \in [Keys -> ProjectionRows]
    BY <1>2, <2>1, UpsertTyping DEF TypeOK, ReconcileUpsert
  <2>3. AuditTypeOK'
    BY <1>2, <2>1 DEF TypeOK, AuditTypeOK, AuditRows, ReconcileUpsert
  <2>. QED
    BY <1>2, <2>2, <2>3 DEF TypeOK, StoreTypeOK, HcmTypeOK, ReconcileUpsert, hcmVars
<1>3. CASE ReconcileList(x)
  <2>1. AuditTypeOK'
    BY <1>3 DEF TypeOK, AuditTypeOK, AuditRows, NoAudit, ReconcileList
  <2>. QED
    BY <1>3, <2>1 DEF TypeOK, StoreTypeOK, HcmTypeOK, ReconcileList, storeVars, hcmVars
<1>. QED
  BY <1>1, <1>2, <1>3

\* A reconciliation that ends its loop body stays well typed.
LEMMA NextListedTyping ==
    ASSUME TypeOK, NEW x \in Reconcilers, NextListed(x)
    PROVE  AuditTypeOK'
<1>1. audit \in [Reconcilers -> AuditRows]
  BY DEF TypeOK, AuditTypeOK
<1>2. audit' = [audit EXCEPT ![x] = [audit[x] EXCEPT !.pc = "next", !.request = NoRequest]]
  BY <1>1 DEF NextListed, AuditRows
<1>3. [audit[x] EXCEPT !.pc = "next", !.request = NoRequest] \in AuditRows
  BY <1>1 DEF AuditRows
<1>4. audit' \in [Reconcilers -> AuditRows]
  BY <1>1, <1>2, <1>3
<1>5. /\ audit'[x].pc = "next"
      /\ \A y \in Reconcilers : y # x => audit'[y] = audit[y]
  BY <1>1, <1>2 DEF AuditRows
<1>. QED
  BY <1>4, <1>5 DEF TypeOK, AuditTypeOK

\* The second half of a reconciliation, over the listed requests, leaves every
\* variable it writes well typed.
LEMMA AuditRequestTyping ==
    ASSUME TypeOK, NEW x \in Reconcilers,
           \/ \E r \in Requests : ReconcileTake(x, r)
           \/ ReconcileConfirm(x)
           \/ ReconcileLook(x)
           \/ ReconcileReview(x)
    PROVE  StoreTypeOK' /\ HcmTypeOK' /\ AuditTypeOK'
<1> DEFINE q == audit[x].request
<1>1. ASSUME NEW r \in Requests, ReconcileTake(x, r)
      PROVE  StoreTypeOK' /\ HcmTypeOK' /\ AuditTypeOK'
  <2> DEFINE row == [audit[x] EXCEPT !.pc = IF KnownToHcm(r) THEN "confirm" ELSE "look",
                                     !.todo = @ \ {r}, !.request = r]
  <2>1. audit \in [Reconcilers -> AuditRows] /\ row \in AuditRows
    BY DEF TypeOK, AuditTypeOK, AuditRows
  <2>2. audit' = [audit EXCEPT ![x] = row]
    BY <1>1, <2>1 DEF ReconcileTake, AuditRows
  <2>3. row.pc \notin {"upsert", "list"} /\ row.request \in Requests
    BY <2>1 DEF TypeOK, AuditTypeOK, AuditRows
  <2> HIDE DEF row
  <2>4. audit' \in [Reconcilers -> AuditRows]
    BY <2>1, <2>2
  <2>5. audit'[x] = row /\ \A y \in Reconcilers : y # x => audit'[y] = audit[y]
    BY <2>1, <2>2
  <2>6. AuditTypeOK'
    BY <2>3, <2>4, <2>5 DEF TypeOK, AuditTypeOK
  <2>. QED
    BY <1>1, <2>6 DEF TypeOK, StoreTypeOK, HcmTypeOK, ReconcileTake, storeVars, hcmVars
<1>2. CASE ReconcileConfirm(x)
  <2>1. q \in Requests
    BY <1>2 DEF TypeOK, AuditTypeOK, ReconcileConfirm, At
  <2>2. request' \in [Requests -> RequestRows]
    BY <1>2, <2>1, RequestTyping DEF TypeOK, RequestStatus, SubmissionStatus, ReconcileConfirm
  <2>3. event' \in [Requests -> EventRows]
    BY <1>2, <2>1 DEF TypeOK, StoreTypeOK, EventRows, EventStatus, ReconcileConfirm
  <2>. QED
    BY <1>2, <2>2, <2>3, NextListedTyping
    DEF TypeOK, StoreTypeOK, HcmTypeOK, ReconcileConfirm, hcmVars
<1>3. CASE ReconcileLook(x)
  <2>1. AuditTypeOK'
    BY <1>3, NextListedTyping DEF TypeOK, AuditTypeOK, AuditRows, ReconcileLook, At, Proceed
  <2>. QED
    BY <1>3, <2>1 DEF TypeOK, StoreTypeOK, HcmTypeOK, ReconcileLook, storeVars, hcmVars
<1>4. CASE ReconcileReview(x)
  <2>1. q \in Requests /\ KeyOf[q] \in Keys
    BY <1>4, KeyOfAssumption DEF TypeOK, AuditTypeOK, ReconcileReview, At
  <2>2. request' \in [Requests -> RequestRows]
    BY <1>4, <2>1, RequestTyping DEF TypeOK, RequestStatus, SubmissionStatus, ReconcileReview
  <2>3. projection' \in [Keys -> ProjectionRows]
    <3>1. projection' = [projection EXCEPT ![KeyOf[q]].syncStatus = "CONFLICT",
                                           ![KeyOf[q]].version = @ + 1]
      BY <1>4 DEF ReconcileReview
    <3>2. projection \in [Keys -> ProjectionRows]
      BY DEF TypeOK, StoreTypeOK
    <3> HIDE DEF q
    <3>. QED
      BY <2>1, <3>1, <3>2 DEF ProjectionRows
  <2>. QED
    BY <1>4, <2>2, <2>3, NextListedTyping
    DEF TypeOK, StoreTypeOK, HcmTypeOK, ReconcileReview, hcmVars
<1>. QED
  BY <1>1, <1>2, <1>3, <1>4

\* A delivery leaves every variable it writes well typed.
LEMMA BatchTyping ==
    ASSUME TypeOK,
           \/ \E s \in Senders, b \in Batches : BatchArrives(s, b)
           \/ \E d \in delivery, rows \in RowSets : IngestBatch(d, rows) \/ IngestFails(d, rows)
    PROVE  StoreTypeOK' /\ HcmTypeOK' /\ BatchTypeOK'
<1>1. ASSUME NEW s \in Senders, NEW b \in Batches, BatchArrives(s, b)
      PROVE  StoreTypeOK' /\ HcmTypeOK' /\ BatchTypeOK'
  BY <1>1 DEF TypeOK, StoreTypeOK, HcmTypeOK, BatchTypeOK, Deliveries, BatchArrives,
     storeVars, hcmVars
<1>2. ASSUME NEW d \in delivery, NEW rows \in RowSets, IngestFails(d, rows)
      PROVE  StoreTypeOK' /\ HcmTypeOK' /\ BatchTypeOK'
  BY <1>2 DEF TypeOK, StoreTypeOK, HcmTypeOK, BatchTypeOK, IngestFails, storeVars, hcmVars
<1>3. ASSUME NEW d \in delivery, NEW rows \in RowSets, IngestBatch(d, rows)
      PROVE  StoreTypeOK' /\ HcmTypeOK' /\ BatchTypeOK'
  <2>1. DOMAIN rows \subseteq Keys /\ \A k \in DOMAIN rows : rows[k] \in Nat
    BY MaxDaysAssumption DEF RowSets
  <2>2. projection' \in [Keys -> ProjectionRows]
    <3>1. projection \in [Keys -> ProjectionRows]
      BY DEF TypeOK, StoreTypeOK
    <3>2. ASSUME NEW k \in Keys, k \in DOMAIN rows
          PROVE  [projection[k] EXCEPT !.availableDays = rows[k], !.syncStatus = "IN_SYNC",
                                       !.version = @ + 1] \in ProjectionRows
      <4>1. projection[k] \in ProjectionRows /\ rows[k] \in Nat
        BY <2>1, <3>1, <3>2
      <4>2. projection[k].version + 1 \in Nat
        BY <4>1 DEF ProjectionRows
      <4>. QED
        BY <4>1, <4>2, Zenon DEF ProjectionRows
    <3>3. \A k \in Keys : projection'[k] \in ProjectionRows
      BY <1>3, <3>1, <3>2 DEF IngestBatch
    <3>4. projection' = [k \in Keys |-> projection'[k]]
      BY <1>3 DEF IngestBatch
    <3> HIDE DEF IngestBatch
    <3>. QED
      BY <3>3, <3>4
  <2>3. d.batch \in Batches
    BY DEF TypeOK, BatchTypeOK, Deliveries
  <2>4. BatchTypeOK'
    BY <1>3, <2>1, <2>3 DEF TypeOK, BatchTypeOK, IngestBatch, Changed
  <2>. QED
    BY <1>3, <2>2, <2>4 DEF TypeOK, StoreTypeOK, HcmTypeOK, IngestBatch, hcmVars
<1>. QED
  BY <1>1, <1>2, <1>3

\* A restart, or the death of one handler, leaves each handler where it is or
\* idle, and the database alone.
LEMMA DeathIdles ==
    ASSUME TypeOK, Restart \/ HandlerDies
    PROVE  /\ UNCHANGED <<storeVars, charges, ingested, replaced>>
           /\ unrecorded \subseteq unrecorded'
           /\ \A c \in Callers : call'[c] \in {call[c], NoCall}
           /\ reading' \subseteq reading
           /\ \A w \in Workers : job'[w] \in {job[w], NoJob}
           /\ \A x \in Reconcilers : audit'[x] \in {audit[x], NoAudit}
           /\ delivery' \subseteq delivery
<1>1. CASE Restart
  BY <1>1 DEF Restart, Clear
<1>2. CASE HandlerDies
  BY <1>2 DEF TypeOK, CallTypeOK, JobTypeOK, AuditTypeOK, HandlerDies, hcmVars
<1>. QED
  BY <1>1, <1>2

\* A restart leaves HCM's memory well typed.
LEMMA RestartHcmTyping ==
    ASSUME TypeOK, Restart
    PROVE  HcmTypeOK'
<1>1. \A w \in Workers : job[w].pc = "accepted" => job[w].request \in Requests
  BY DEF TypeOK, JobTypeOK
<1>. QED
  BY <1>1 DEF TypeOK, HcmTypeOK, Restart, Clear

\* A restart, or the death of one handler, leaves every variable well typed.
LEMMA DeathTyping ==
    ASSUME TypeOK, Restart \/ HandlerDies
    PROVE  TypeOK'
<1>1. StoreTypeOK'
  BY DeathIdles DEF TypeOK, StoreTypeOK, storeVars
<1>2. HcmTypeOK'
  BY RestartHcmTyping DEF TypeOK, HcmTypeOK, HandlerDies, hcmVars
<1>3. CallTypeOK' /\ ReadingTypeOK'
  BY DeathIdles DEF TypeOK, CallTypeOK, NoCall, ReadingTypeOK, Restart, HandlerDies
<1>4. JobTypeOK'
  BY DeathIdles DEF TypeOK, JobTypeOK, JobRows, NoJob, Restart, HandlerDies
<1>5. AuditTypeOK'
  BY DeathIdles DEF TypeOK, AuditTypeOK, AuditRows, NoAudit, Restart, HandlerDies
<1>6. BatchTypeOK'
  BY DeathIdles DEF TypeOK, BatchTypeOK
<1>. QED
  BY <1>1, <1>2, <1>3, <1>4, <1>5, <1>6 DEF TypeOK

\* The empty database and HCM are well typed.
LEMMA TypeInitial == Init => TypeOK
<1>1. StoreInit => StoreTypeOK
  BY DEF StoreInit, StoreTypeOK, ProjectionRows, RequestRows, EventRows,
     RequestStatus, SubmissionStatus, EventStatus
<1>2. HcmInit => HcmTypeOK
  BY MaxChargesAssumption DEF HcmInit, HcmTypeOK
<1>3. CallInit => CallTypeOK
  BY DEF CallInit, CallTypeOK, NoCall
<1>4. ReadingInit => ReadingTypeOK
  BY DEF ReadingInit, ReadingTypeOK
<1>5. JobInit => JobTypeOK
  BY DEF JobInit, JobTypeOK, JobRows, NoJob
<1>6. AuditInit => AuditTypeOK
  BY DEF AuditInit, AuditTypeOK, AuditRows, NoAudit
<1>7. BatchInit => BatchTypeOK
  BY DEF BatchInit, BatchTypeOK
<1>. QED
  BY <1>1, <1>2, <1>3, <1>4, <1>5, <1>6, <1>7 DEF Init, TypeOK

\* Every handler preserves the types.
LEMMA TypeInductive == TypeOK /\ [Next]_vars => TypeOK'
<1> SUFFICES ASSUME TypeOK, [Next]_vars PROVE TypeOK'
  OBVIOUS
<1>1. CASE Command
  <2>1. PICK c \in Callers : BeginCommand(c) \/ FinishCommand(c)
    BY <1>1 DEF Command
  <2>2. StoreTypeOK' /\ CallTypeOK'
    BY <2>1, CommandTyping, CallTyping
  <2>. QED
    BY <1>1, <2>2 DEF Command, TypeOK, HcmTypeOK, ReadingTypeOK, JobTypeOK, AuditTypeOK,
       BatchTypeOK, hcmVars, batchVars
<1>2. CASE Refresh
  <2>1. StoreTypeOK' /\ HcmTypeOK' /\ ReadingTypeOK'
    BY <1>2, RefreshTyping DEF Refresh
  <2>. QED
    BY <1>2, <2>1
    DEF Refresh, TypeOK, CallTypeOK, JobTypeOK, AuditTypeOK, BatchTypeOK, batchVars
<1>3. CASE Submission
  <2>1. StoreTypeOK' /\ HcmTypeOK' /\ JobTypeOK'
    BY <1>3, WorkTyping, StartTyping DEF Submission
  <2>. QED
    BY <1>3, <2>1
    DEF Submission, TypeOK, CallTypeOK, ReadingTypeOK, AuditTypeOK, BatchTypeOK, batchVars
<1>4. CASE Reconcile
  <2>1. StoreTypeOK' /\ HcmTypeOK' /\ AuditTypeOK'
    BY <1>4, AuditBalanceTyping, AuditRequestTyping DEF Reconcile, AuditStep
  <2>. QED
    BY <1>4, <2>1
    DEF Reconcile, TypeOK, CallTypeOK, ReadingTypeOK, JobTypeOK, BatchTypeOK, batchVars
<1>5. CASE Batch
  <2>1. StoreTypeOK' /\ HcmTypeOK' /\ BatchTypeOK'
    BY <1>5, BatchTyping DEF Batch
  <2>. QED
    BY <1>5, <2>1 DEF Batch, TypeOK, CallTypeOK, ReadingTypeOK, JobTypeOK, AuditTypeOK
<1>6. CASE Hcm
  <2>1. HcmTypeOK'
    BY <1>6, HcmTyping DEF Hcm
  <2>. QED
    BY <1>6, <2>1 DEF Hcm, TypeOK, StoreTypeOK, CallTypeOK, ReadingTypeOK, JobTypeOK,
       AuditTypeOK, BatchTypeOK, storeVars, batchVars
<1>7. CASE Restart \/ HandlerDies
  BY <1>7, DeathTyping
<1>8. CASE UNCHANGED vars
  BY <1>8 DEF vars, storeVars, hcmVars, batchVars, TypeOK, StoreTypeOK, HcmTypeOK, CallTypeOK,
     ReadingTypeOK, JobTypeOK, AuditTypeOK, BatchTypeOK
<1>. QED
  BY <1>1, <1>2, <1>3, <1>4, <1>5, <1>6, <1>7, <1>8 DEF Next

\* The types hold in every reachable state (TypeOK).  The part that is not free is
\* reservedDays >= 0, which rests on the CHECK constraint, and the HCM balance.
THEOREM Typing == Spec => []TypeOK
BY TypeInitial, TypeInductive, PTL DEF Spec

=============================================================================
