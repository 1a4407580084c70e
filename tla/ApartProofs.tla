----------------------------- MODULE ApartProofs -----------------------------
(***************************************************************************)
(* Proofs of the properties of a service in which no two handlers work on  *)
(* one request at the same time (ApartSpec): ReservedMatchesOpen,          *)
(* LedgerTellsFate, SubmittedNotWithdrawn, ClosedStaysClosed, ChargedOnce, *)
(* ChargesMatchOutcomes and KeepsTheBook, however often recording an       *)
(* answer fails, a handler dies or the process restarts.  The service is   *)
(* such a one when handlers do not overlap.                                *)
(*                                                                         *)
(* The argument: what a handler has read of the request in its hands is    *)
(* still true when it writes (HandlerInv), so every step is one of the     *)
(* moves of a request's life (Lifecycle).  A submission that HCM knows and *)
(* the service does not is in a run's hands or one of which an acceptance  *)
(* was lost (AcceptedInv), and the latter went out, so it is at one of a   *)
(* few points of its life (LostInv).                                       *)
(***************************************************************************)
EXTENDS LedgerProofs, SubmissionProofs

CallerHolds(c, r) == ~CallerIdle(c) /\ call[c].request = r

WorkerHolds(w, r) == job[w].pc # "next" /\ job[w].request = r

AuditHolds(x, r) == audit[x].pc \in {"confirm", "look", "review"} /\ audit[x].request = r

\* At most one handler holds r: Apart, kind by kind.
Exclusive(r) ==
    /\ \A c, d \in Callers : CallerHolds(c, r) /\ CallerHolds(d, r) => c = d
    /\ \A v, w \in Workers : WorkerHolds(v, r) /\ WorkerHolds(w, r) => v = w
    /\ \A x, y \in Reconcilers : AuditHolds(x, r) /\ AuditHolds(y, r) => x = y
    /\ \A c \in Callers, w \in Workers : ~(CallerHolds(c, r) /\ WorkerHolds(w, r))
    /\ \A c \in Callers, x \in Reconcilers : ~(CallerHolds(c, r) /\ AuditHolds(x, r))
    /\ \A w \in Workers, x \in Reconcilers : ~(WorkerHolds(w, r) /\ AuditHolds(x, r))

\* Apart, without the names of the handlers.
LEMMA ApartMeans == Apart <=> \A r \in Requests : Exclusive(r)
<1> SUFFICES ASSUME NEW r \in Requests
             PROVE  (\A a, b \in Hands(r) : a = b) <=> Exclusive(r)
  BY DEF Apart
<1>1. \A a : a \in Hands(r) <=>
          \/ \E c \in Callers : a = <<"command", c>> /\ CallerHolds(c, r)
          \/ \E w \in Workers : a = <<"run", w>> /\ WorkerHolds(w, r)
          \/ \E x \in Reconcilers : a = <<"audit", x>> /\ AuditHolds(x, r)
  BY DEF Hands, CallerHolds, WorkerHolds, AuditHolds
<1>2. ASSUME \A a, b \in Hands(r) : a = b PROVE Exclusive(r)
  <2>1. /\ \A c \in Callers : CallerHolds(c, r) => <<"command", c>> \in Hands(r)
        /\ \A w \in Workers : WorkerHolds(w, r) => <<"run", w>> \in Hands(r)
        /\ \A x \in Reconcilers : AuditHolds(x, r) => <<"audit", x>> \in Hands(r)
    BY <1>1
  <2>2. ASSUME NEW c \in Callers, NEW d \in Callers, CallerHolds(c, r), CallerHolds(d, r)
        PROVE  c = d
    <3>1. <<"command", c>> = <<"command", d>>
      BY <1>2, <2>1, <2>2
    <3>. QED
      BY <3>1
  <2>3. ASSUME NEW v \in Workers, NEW w \in Workers, WorkerHolds(v, r), WorkerHolds(w, r)
        PROVE  v = w
    <3>1. <<"run", v>> = <<"run", w>>
      BY <1>2, <2>1, <2>3
    <3>. QED
      BY <3>1
  <2>4. ASSUME NEW x \in Reconcilers, NEW y \in Reconcilers, AuditHolds(x, r), AuditHolds(y, r)
        PROVE  x = y
    <3>1. <<"audit", x>> = <<"audit", y>>
      BY <1>2, <2>1, <2>4
    <3>. QED
      BY <3>1
  <2>5. ASSUME NEW c \in Callers, NEW w \in Workers, CallerHolds(c, r), WorkerHolds(w, r)
        PROVE  FALSE
    <3>1. <<"command", c>> = <<"run", w>>
      BY <1>2, <2>1, <2>5
    <3>. QED
      BY <3>1
  <2>6. ASSUME NEW c \in Callers, NEW x \in Reconcilers, CallerHolds(c, r), AuditHolds(x, r)
        PROVE  FALSE
    <3>1. <<"command", c>> = <<"audit", x>>
      BY <1>2, <2>1, <2>6
    <3>. QED
      BY <3>1
  <2>7. ASSUME NEW w \in Workers, NEW x \in Reconcilers, WorkerHolds(w, r), AuditHolds(x, r)
        PROVE  FALSE
    <3>1. <<"run", w>> = <<"audit", x>>
      BY <1>2, <2>1, <2>7
    <3>. QED
      BY <3>1
  <2>. QED
    BY <2>2, <2>3, <2>4, <2>5, <2>6, <2>7 DEF Exclusive
<1>3. ASSUME Exclusive(r) PROVE \A a, b \in Hands(r) : a = b
  BY <1>1, <1>3 DEF Exclusive
<1>. QED
  BY <1>2, <1>3

\* And after a step.
LEMMA ApartMeansNext == Apart' => \A r \in Requests : Exclusive(r)'
<1>1. Apart' => (\A r \in Requests : Exclusive(r))'
  BY ApartMeans, PTL
<1>. QED
  BY <1>1

\* What a handler has read of the request it holds is still so.
HandlerInv ==
    /\ \A c \in Callers :
          /\ call[c].op = "reject" =>
                request[call[c].request].status = "PENDING_MANAGER_APPROVAL"
          /\ call[c].op = "cancel" => Cancellable(call[c].request)
    /\ \A w \in Workers :
          /\ job[w].pc # "next" => request[job[w].request].status = "SUBMITTED_TO_HCM"
          /\ job[w].pc = "accepted" => job[w].request \in accepted
    /\ \A x \in Reconcilers :
          /\ audit[x].pc = "confirm" =>
                \/ request[audit[x].request].status = "CONFIRMED_BY_HCM"
                \/ audit[x].request \in unrecorded
          /\ audit[x].pc = "review" =>
                request[audit[x].request].status \in {"SUBMITTED_TO_HCM", "CONFLICT_REVIEW"}

\* A run has heard that HCM accepted r and has not recorded it yet.
Heard(r) == \E w \in Workers : job[w].pc = "accepted" /\ job[w].request = r

\* What HCM has accepted is confirmed, or about to be by the run that heard of it,
\* or the answer was lost.
AcceptedInv ==
    \A r \in accepted :
        \/ request[r].status = "CONFIRMED_BY_HCM"
        \/ request[r].status = "SUBMITTED_TO_HCM" /\ Heard(r)
        \/ r \in unrecorded

LostStatus ==
    {"SUBMITTED_TO_HCM", "CONFIRMED_BY_HCM", "FAILED_HCM_VALIDATION", "CONFLICT_REVIEW"}

\* A request of which an acceptance was lost was submitted.
LostInv == \A r \in unrecorded : request[r].status \in LostStatus

\* An event is UNCERTAIN only as long as the outcome of its request is open.
UncertainInv ==
    \A r \in Requests :
        event[r].status = "UNCERTAIN" =>
            request[r].status \in {"SUBMITTED_TO_HCM", "CONFLICT_REVIEW"}

OpenOf(k) == {q \in Requests : KeyOf[q] = k /\ Reserving(q)}

HeldDays(S) == UNION {{r} \X (1..DaysOf[r]) : r \in S}

\* ReservedMatchesOpen with what a sum of days needs: it is finite.
ReservedInv ==
    \A k \in Keys :
        /\ IsFiniteSet(HeldDays(OpenOf(k)))
        /\ projection[k].reservedDays = Cardinality(HeldDays(OpenOf(k)))

ApartInv ==
    /\ HandlerInv
    /\ AcceptedInv
    /\ LostInv
    /\ UncertainInv
    /\ LedgerTellsFate
    /\ ReservedInv

-----------------------------------------------------------------------------
(* Who acts.                                                               *)

CallerActs(c) ==
    /\ (Admitted /\ BeginCommand(c)) \/ FinishCommand(c)
    /\ \A d \in Callers \ {c} : call'[d] = call[d]
    /\ UNCHANGED <<hcmVars, reading, job, audit, delivery>>

WorkerActs(w) ==
    /\ (Admitted /\ StartProcessing(w)) \/ WorkStep(w)
    /\ \A v \in Workers \ {w} : job'[v] = job[v]
    /\ UNCHANGED <<call, reading, audit, delivery>>

AuditActs(x) ==
    /\ (Admitted /\ \E k \in Keys : ReconcileRead(x, k)) \/ AuditStep(x)
    /\ \A y \in Reconcilers \ {x} : audit'[y] = audit[y]
    /\ UNCHANGED <<hcmVars, call, reading, job, delivery>>

\* Neither the clock, HR, a refresh nor a batch moves a request or its days.
NobodyActs ==
    /\ UNCHANGED <<request, ledger, accepted, charges, unrecorded, call, job, audit>>
    /\ \A k \in Keys : projection'[k].reservedDays = projection[k].reservedDays
    /\ \A r \in Requests : event'[r].status = event[r].status
    /\ \/ UNCHANGED delivery /\ \/ reading' \subseteq reading
                                \/ Admitted /\ \E s : reading' = reading \cup {s}
       \/ UNCHANGED reading /\ \/ delivery' \subseteq delivery
                               \/ Admitted /\ \E d : delivery' = delivery \cup {d}

\* Every step is one handler's, nobody's, or the end of one handler or of all.
LEMMA ActorStep ==
    ASSUME TypeOK, [Next]_vars
    PROVE  \/ \E c \in Callers : CallerActs(c)
           \/ \E w \in Workers : WorkerActs(w)
           \/ \E x \in Reconcilers : AuditActs(x)
           \/ NobodyActs
           \/ Restart \/ HandlerDies
<1>0. /\ call \in [Callers -> [op : Commands \cup {"none"},
                               request : Requests \cup {NoRequest}, version : Nat]]
      /\ job \in [Workers -> JobRows]
      /\ audit \in [Reconcilers -> AuditRows]
      /\ event \in [Requests -> EventRows]
  BY DEF TypeOK, StoreTypeOK, CallTypeOK, JobTypeOK, AuditTypeOK
<1>1. CASE Command
  <2>1. PICK c \in Callers : /\ \/ Admitted /\ BeginCommand(c)
                                \/ FinishCommand(c)
                             /\ UNCHANGED <<hcmVars, reading, job, audit, batchVars>>
    BY <1>1 DEF Command
  <2>2. \A d \in Callers \ {c} : call'[d] = call[d]
    <3>1. Return(c) \/ \E op, r, version : Remember(c, op, r, version)
      BY <2>1 DEF BeginCommand, FinishCommand, CreateRead, ApproveLoad, RejectLoad,
         CancelLoad, CreateReserve, CreateConflict, ApproveSave, ApproveConflict,
         RejectSave, RejectConflict, CancelSave, CancelConflict
    <3>. QED
      BY <1>0, <3>1 DEF Return, Remember
  <2>. QED
    BY <2>1, <2>2 DEF CallerActs, batchVars
<1>2. CASE Submission
  <2>1. ASSUME NEW r \in Requests, RetryDue(r) PROVE NobodyActs
    <3>1. \A q \in Requests : event'[q].status = event[q].status
      BY <1>0, <2>1 DEF RetryDue, EventRows
    <3>. QED
      BY <1>2, <2>1, <3>1 DEF Submission, RetryDue, NobodyActs, hcmVars, batchVars
  <2>2. ASSUME NEW w \in Workers, (Admitted /\ StartProcessing(w)) \/ WorkStep(w)
        PROVE  WorkerActs(w)
    <3>1. \A v \in Workers \ {w} : job'[v] = job[v]
      BY <1>0, <2>2 DEF WorkStep, StartProcessing, PrepareFirst, PrepareRetry, Prepared,
         PrepareStale, SubmitFails, SubmitRefused, SubmitAccepted, ConfirmSubmission,
         RejectSubmission, RecordingFails, ScheduleSubmissionRetry, TakeNext, Goto
    <3>. QED
      BY <1>2, <2>2, <3>1 DEF WorkerActs, Submission, batchVars
  <2>. QED
    BY <1>2, <2>1, <2>2 DEF Submission
<1>3. CASE Reconcile
  <2>1. PICK x \in Reconcilers : \/ Admitted /\ \E k \in Keys : ReconcileRead(x, k)
                                 \/ AuditStep(x)
    BY <1>3 DEF Reconcile
  <2>2. \A y \in Reconcilers \ {x} : audit'[y] = audit[y]
    BY <1>0, <2>1 DEF AuditStep, ReconcileRead, ReconcileUpsert, ReconcileList,
       ReconcileTake, ReconcileConfirm, ReconcileLook, ReconcileReview, NextListed, Proceed
  <2>3. UNCHANGED <<hcmVars, call, reading, job, delivery>>
    BY <1>3, <2>1 DEF Reconcile, batchVars, AuditStep, ReconcileRead, ReconcileUpsert, ReconcileList,
       ReconcileTake, ReconcileConfirm, ReconcileLook, ReconcileReview
  <2>. QED
    BY <2>1, <2>2, <2>3 DEF AuditActs
<1>4. CASE Refresh
  <2>1. UNCHANGED <<request, ledger, event, accepted, charges, unrecorded, call, job, audit>>
    BY <1>4 DEF Refresh, RefreshRead, RefreshUpsert, storeVars, hcmVars
  <2>2. ASSUME NEW s \in reading, RefreshUpsert(s), NEW k \in Keys
        PROVE  projection'[k].reservedDays = projection[k].reservedDays
    <3>1. s.key \in Keys /\ s.days \in Nat /\ UpsertFromHcmSnapshot(s.key, s.days)
      BY <2>2 DEF TypeOK, ReadingTypeOK, Snapshots, RefreshUpsert
    <3>. QED
      BY <3>1, UpsertEffect
  <2>3. UNCHANGED projection \/ \E s \in reading : RefreshUpsert(s)
    BY <1>4 DEF Refresh, RefreshRead, storeVars
  <2>4. /\ UNCHANGED delivery
        /\ \/ reading' \subseteq reading
           \/ Admitted /\ \E s : reading' = reading \cup {s}
    BY <1>4 DEF Refresh, RefreshRead, RefreshUpsert, batchVars
  <2>. QED
    BY <2>1, <2>2, <2>3, <2>4 DEF NobodyActs
<1>5. CASE Batch
  <2>1. UNCHANGED <<request, ledger, event, accepted, charges, unrecorded, call, job, audit>>
    BY <1>5 DEF Batch, BatchArrives, IngestBatch, IngestFails, storeVars, hcmVars
  <2>2. UNCHANGED projection \/ \E d \in delivery, rows \in RowSets : IngestBatch(d, rows)
    BY <1>5 DEF Batch, BatchArrives, IngestFails, storeVars
  <2>3. /\ UNCHANGED reading
        /\ \/ delivery' \subseteq delivery
           \/ Admitted /\ \E d : delivery' = delivery \cup {d}
    BY <1>5 DEF Batch, BatchArrives, IngestBatch, IngestFails
  <2>. QED
    BY <2>1, <2>2, <2>3, IngestEffect DEF NobodyActs
<1>6. CASE Hcm \/ UNCHANGED vars
  BY <1>6 DEF Hcm, UpsertBalance, ConfigureSubmissionFailure, vars, storeVars, hcmVars,
     batchVars, NobodyActs
<1>. QED
  BY <1>1, <1>2, <1>3, <1>4, <1>5, <1>6 DEF Next

-----------------------------------------------------------------------------
(* Who touches which request: only who holds it, before or after the step. *)

LEMMA CallerTouches ==
    ASSUME TypeOK, NEW c \in Callers, CallerActs(c), NEW r \in Requests,
           request'[r] # request[r]
    PROVE  CallerHolds(c, r)
<1>1. \/ CreateReserve(c)
      \/ /\ call[c].op # "none"
         /\ \E s : SetStatus(call[c].request, s)
  BY DEF CallerActs, BeginCommand, FinishCommand, CreateRead, ApproveLoad, RejectLoad,
     CancelLoad, CreateConflict, ApproveSave, ApproveConflict, RejectSave, RejectConflict,
     CancelSave, CancelConflict, Running, storeVars
<1>2. CASE CreateReserve(c)
  <2>1. call[c].request = r
    BY <1>2, ReserveEffect
  <2>. QED
    BY <1>2, <2>1 DEF CreateReserve, Running, CallerHolds, CallerIdle
<1>3. ASSUME call[c].op # "none", NEW s, SetStatus(call[c].request, s) PROVE CallerHolds(c, r)
  <2>1. call[c].request \in Requests
    BY <1>3 DEF TypeOK, CallTypeOK
  <2>2. call[c].request = r
    BY <1>3, <2>1, SetStatusEffect
  <2>. QED
    BY <1>3, <2>2 DEF CallerHolds, CallerIdle
<1>. QED
  BY <1>1, <1>2, <1>3

LEMMA WorkerTouches ==
    ASSUME TypeOK, NEW w \in Workers, WorkerActs(w), NEW r \in Requests,
           request'[r] # request[r]
    PROVE  WorkerHolds(w, r) \/ WorkerHolds(w, r)'
<1>0. job \in [Workers -> JobRows]
  BY DEF TypeOK, JobTypeOK
<1>1. \/ \E q \in Requests : PrepareFirst(w, q)
      \/ ConfirmSubmission(w)
      \/ RejectSubmission(w)
  BY DEF WorkerActs, WorkStep, StartProcessing, PrepareRetry, PrepareStale, SubmitFails,
     SubmitRefused, SubmitAccepted, RecordingFails, ScheduleSubmissionRetry, storeVars
<1>2. ASSUME NEW q \in Requests, PrepareFirst(w, q) PROVE WorkerHolds(w, r)'
  <2>1. Settle(q, "SUBMITTED_TO_HCM", "PENDING_CONFIRMATION") /\ Prepared(w, q)
    BY <1>2 DEF PrepareFirst
  <2>2. q = r
    BY <2>1, SetStatusEffect
  <2>. QED
    BY <1>0, <2>1, <2>2 DEF Prepared, WorkerHolds
<1>3. CASE ConfirmSubmission(w) \/ RejectSubmission(w)
  <2>1. /\ job[w].pc # "next" /\ job[w].request \in Requests
        /\ \E s, h : Settle(job[w].request, s, h)
    BY <1>3 DEF TypeOK, JobTypeOK, ConfirmSubmission, RejectSubmission
  <2>2. job[w].request = r
    BY <2>1, SetStatusEffect
  <2>. QED
    BY <2>1, <2>2 DEF WorkerHolds
<1>. QED
  BY <1>1, <1>2, <1>3

LEMMA AuditTouches ==
    ASSUME TypeOK, NEW x \in Reconcilers, AuditActs(x), NEW r \in Requests,
           request'[r] # request[r]
    PROVE  AuditHolds(x, r)
<1>1. ReconcileConfirm(x) \/ ReconcileReview(x)
  BY DEF AuditActs, AuditStep, ReconcileRead, ReconcileUpsert, ReconcileList,
     ReconcileTake, ReconcileLook, storeVars
<1>2. /\ audit[x].pc \in {"confirm", "review"} /\ audit[x].request \in Requests
      /\ \E s, h : Settle(audit[x].request, s, h)
  BY <1>1 DEF TypeOK, AuditTypeOK, ReconcileConfirm, ReconcileReview, At
<1>3. audit[x].request = r
  BY <1>2, SetStatusEffect
<1>. QED
  BY <1>2, <1>3 DEF AuditHolds

\* A request in the hands of a handler that does not act is left alone.
LEMMA Untouched ==
    ASSUME TypeOK, Apart, Apart', [Next]_vars, ~Restart, ~HandlerDies,
           NEW r \in Requests
    PROVE  /\ \A c \in Callers : CallerHolds(c, r) /\ ~CallerActs(c)
                 => call'[c] = call[c] /\ request'[r] = request[r]
           /\ \A w \in Workers : WorkerHolds(w, r) /\ ~WorkerActs(w)
                 => job'[w] = job[w] /\ request'[r] = request[r]
           /\ \A x \in Reconcilers : AuditHolds(x, r) /\ ~AuditActs(x)
                 => audit'[x] = audit[x] /\ request'[r] = request[r]
<1>1. Exclusive(r) /\ Exclusive(r)'
  BY ApartMeans, ApartMeansNext
<1>2. ASSUME NEW c \in Callers, CallerHolds(c, r), ~CallerActs(c)
      PROVE  call'[c] = call[c] /\ request'[r] = request[r]
  <2>1. call'[c] = call[c]
    BY <1>2, ActorStep DEF CallerActs, WorkerActs, AuditActs, NobodyActs
  <2>2. CallerHolds(c, r)'
    BY <1>2, <2>1 DEF CallerHolds, CallerIdle
  <2>. QED
    BY <1>1, <1>2, <2>1, <2>2, ActorStep, CallerTouches, WorkerTouches, AuditTouches
    DEF Exclusive, NobodyActs
<1>3. ASSUME NEW w \in Workers, WorkerHolds(w, r), ~WorkerActs(w)
      PROVE  job'[w] = job[w] /\ request'[r] = request[r]
  <2>1. job'[w] = job[w]
    BY <1>3, ActorStep DEF CallerActs, WorkerActs, AuditActs, NobodyActs
  <2>2. WorkerHolds(w, r)'
    BY <1>3, <2>1 DEF WorkerHolds
  <2>. QED
    BY <1>1, <1>3, <2>1, <2>2, ActorStep, CallerTouches, WorkerTouches, AuditTouches
    DEF Exclusive, NobodyActs
<1>4. ASSUME NEW x \in Reconcilers, AuditHolds(x, r), ~AuditActs(x)
      PROVE  audit'[x] = audit[x] /\ request'[r] = request[r]
  <2>1. audit'[x] = audit[x]
    BY <1>4, ActorStep DEF CallerActs, WorkerActs, AuditActs, NobodyActs
  <2>2. AuditHolds(x, r)'
    BY <1>4, <2>1 DEF AuditHolds
  <2>. QED
    BY <1>1, <1>4, <2>1, <2>2, ActorStep, CallerTouches, WorkerTouches, AuditTouches
    DEF Exclusive, NobodyActs
<1>. QED
  BY <1>2, <1>3, <1>4

-----------------------------------------------------------------------------
(* What happens to requests and their days.                                *)

\* Request r goes from one status to another, and no other request moves.
Turns(r, from, to) ==
    /\ request[r].status = from
    /\ request'[r].status = to
    /\ \A q \in Requests \ {r} : request'[q].status = request[q].status

\* The reserved days of r's key change by so many days, no others change.
Shifts(r, days) ==
    \A k \in Keys :
        projection'[k].reservedDays =
            projection[k].reservedDays + (IF k = KeyOf[r] THEN days ELSE 0)

Rests ==
    /\ \A r \in Requests : request'[r].status = request[r].status
    /\ \A k \in Keys : projection'[k].reservedDays = projection[k].reservedDays
    /\ UNCHANGED ledger

Books(kind, r) == ledger' = ledger \cup {<<kind, r>>}

Reserves(r) ==
    /\ Turns(r, "ABSENT", "PENDING_MANAGER_APPROVAL")
    /\ Shifts(r, DaysOf[r])
    /\ Books("reserved", r)

Withdraws(r) ==
    /\ \/ Turns(r, "PENDING_MANAGER_APPROVAL", "REJECTED") /\ Books("rejected", r)
       \/ Turns(r, "PENDING_MANAGER_APPROVAL", "CANCELLED") /\ Books("cancelled", r)
       \/ Turns(r, "APPROVED", "CANCELLED") /\ Books("cancelled", r)
    /\ Shifts(r, -DaysOf[r])

Approves(r) ==
    Turns(r, "PENDING_MANAGER_APPROVAL", "APPROVED") /\ Shifts(r, 0) /\ UNCHANGED ledger

Submits(r) ==
    Turns(r, "APPROVED", "SUBMITTED_TO_HCM") /\ Shifts(r, 0) /\ UNCHANGED ledger

\* A reconciliation confirms it in place of a lost acceptance.
ConfirmsLost(r) ==
    /\ r \in unrecorded
    /\ \E s \in LostStatus : Turns(r, s, "CONFIRMED_BY_HCM")
    /\ Shifts(r, 0)
    /\ UNCHANGED ledger
    /\ event'[r].status # "UNCERTAIN"

Confirms(r) ==
    /\ Turns(r, "SUBMITTED_TO_HCM", "CONFIRMED_BY_HCM")
    /\ Shifts(r, -DaysOf[r])
    /\ Books("confirmed", r)
    /\ event'[r].status = "PROCESSED"
    /\ Heard(r)

Fails(r) ==
    /\ Turns(r, "SUBMITTED_TO_HCM", "FAILED_HCM_VALIDATION")
    /\ Shifts(r, -DaysOf[r])
    /\ Books("released", r)
    /\ event'[r].status = "FAILED"
    /\ ~Heard(r)

Doubts(r) ==
    Turns(r, "SUBMITTED_TO_HCM", "CONFLICT_REVIEW") /\ Shifts(r, 0) /\ UNCHANGED ledger

Lives(r) ==
    \/ Reserves(r)
    \/ Withdraws(r)
    \/ Approves(r)
    \/ Submits(r)
    \/ Confirms(r)
    \/ ConfirmsLost(r)
    \/ Fails(r)
    \/ Doubts(r)

\* A status update is a turn.
LEMMA TurnOf ==
    ASSUME TypeOK, NEW r \in Requests, NEW s, NEW h, SetStatus(r, s) \/ Settle(r, s, h)
    PROVE  Turns(r, request[r].status, s)
BY SetStatusEffect DEF Turns

\* Returning a reservation shifts the days of its request.
LEMMA ReleaseShifts ==
    ASSUME TypeOK, NEW kind, NEW r \in Requests, NEW d, ReleaseReservation(kind, r, d)
    PROVE  Shifts(r, -DaysOf[r])
<1>1. /\ KeyOf[r] \in Keys /\ DaysOf[r] \in Nat
      /\ projection \in [Keys -> ProjectionRows]
  BY KeyOfAssumption, DaysOfAssumption DEF TypeOK, StoreTypeOK
<1>2. projection' = [projection EXCEPT ![KeyOf[r]].availableDays = d,
                                       ![KeyOf[r]].reservedDays = @ - DaysOf[r],
                                       ![KeyOf[r]].version = @ + 1]
  BY DEF ReleaseReservation
<1>3. \A k \in Keys : projection[k].reservedDays \in Nat
  BY <1>1 DEF ProjectionRows
<1>. QED
  BY <1>1, <1>2, <1>3 DEF Shifts, ProjectionRows

\* A projection whose reserved days stay shifts by none.
LEMMA NoShift ==
    ASSUME TypeOK, NEW r \in Requests,
           \A k \in Keys : projection'[k].reservedDays = projection[k].reservedDays
    PROVE  Shifts(r, 0)
<1>1. \A k \in Keys : projection[k].reservedDays \in Nat
  BY DEF TypeOK, StoreTypeOK, ProjectionRows
<1>. QED
  BY <1>1 DEF Shifts

\* A command moves the request it read, or rests.
LEMMA CallerLives ==
    ASSUME TypeOK, CallInv, HandlerInv, NEW c \in Callers, CallerActs(c)
    PROVE  Rests \/ Lives(call[c].request)
<1> DEFINE r == call[c].request
           Goal == Rests \/ Lives(r)
<1>1. CASE UNCHANGED <<projection, request, ledger>>
  BY <1>1 DEF Rests
<1>2. ASSUME call[c].op # "none" PROVE r \in Requests
  BY <1>2 DEF TypeOK, CallTypeOK
<1>3. CASE CreateReserve(c)
  <2>1. r \in Requests /\ request[r].status = "ABSENT"
    BY <1>2, <1>3 DEF CallInv, CreateReserve, Running
  <2>2. Turns(r, "ABSENT", "PENDING_MANAGER_APPROVAL")
    BY <1>3, <2>1, ReserveEffect DEF Turns
  <2>3. Shifts(r, DaysOf[r])
    <3>1. \A k \in Keys : projection[k].reservedDays \in Nat
      BY DEF TypeOK, StoreTypeOK, ProjectionRows
    <3>. QED
      BY <1>3, <2>1, <3>1, ReserveEffect DEF Shifts
  <2>. QED
    BY <1>3, <2>2, <2>3 DEF Lives, Reserves, Books, CreateReserve
<1>4. CASE ApproveSave(c)
  <2>1. /\ r \in Requests /\ request[r].status = "PENDING_MANAGER_APPROVAL"
        /\ SetStatus(r, "APPROVED") /\ UNCHANGED <<projection, ledger>>
    BY <1>2, <1>4 DEF CallInv, ApproveSave, ApproveCommits, Running
  <2>2. Turns(r, "PENDING_MANAGER_APPROVAL", "APPROVED")
    BY <2>1, TurnOf
  <2>. QED
    BY <2>1, <2>2, NoShift DEF Lives, Approves
<1>5. CASE RejectSave(c)
  <2>1. /\ r \in Requests /\ request[r].status = "PENDING_MANAGER_APPROVAL"
        /\ SetStatus(r, "REJECTED")
        /\ ReleaseReservation("rejected", r, projection[KeyOf[r]].availableDays)
    BY <1>2, <1>5 DEF HandlerInv, RejectSave, Running
  <2>2. Turns(r, "PENDING_MANAGER_APPROVAL", "REJECTED")
    BY <2>1, TurnOf
  <2>. QED
    BY <2>1, <2>2, ReleaseShifts DEF Lives, Withdraws, Books, ReleaseReservation
<1>6. CASE CancelSave(c)
  <2>1. /\ r \in Requests /\ request[r].status \in {"PENDING_MANAGER_APPROVAL", "APPROVED"}
        /\ SetStatus(r, "CANCELLED")
        /\ ReleaseReservation("cancelled", r, projection[KeyOf[r]].availableDays)
    BY <1>2, <1>6 DEF HandlerInv, Cancellable, CancelSave, Running
  <2>2. Turns(r, request[r].status, "CANCELLED")
    BY <2>1, TurnOf
  <2>. QED
    BY <2>1, <2>2, ReleaseShifts DEF Lives, Withdraws, Books, ReleaseReservation
<1>7. \/ UNCHANGED <<projection, request, ledger>>
      \/ CreateReserve(c) \/ ApproveSave(c) \/ RejectSave(c) \/ CancelSave(c)
  BY DEF CallerActs, BeginCommand, FinishCommand, CreateRead, ApproveLoad, RejectLoad,
     CancelLoad, CreateConflict, ApproveConflict, RejectConflict, CancelConflict, storeVars
<1>. QED
  BY <1>1, <1>3, <1>4, <1>5, <1>6, <1>7

\* No run has heard that HCM accepted what another run holds.
LEMMA HeardByHolder ==
    ASSUME TypeOK, Apart, NEW w \in Workers, job[w].pc # "next", Heard(job[w].request)
    PROVE  job[w].pc = "accepted"
<1> DEFINE r == job[w].request
<1>1. r \in Requests
  BY DEF TypeOK, JobTypeOK
<1>2. PICK v \in Workers : job[v].pc = "accepted" /\ job[v].request = r
  BY DEF Heard
<1>3. v = w
  BY <1>1, <1>2, ApartMeans DEF Exclusive, WorkerHolds
<1>. QED
  BY <1>2, <1>3

\* A run moves the request it prepares or settles, or rests.
LEMMA WorkerLives ==
    ASSUME TypeOK, Apart, HandlerInv, NEW w \in Workers, WorkerActs(w)
    PROVE  \/ Rests
           \/ /\ \E r \in Requests : Lives(r)
              /\ UNCHANGED <<accepted, charges, unrecorded>>
              /\ job'[w].pc \in {"submit", "next"}
<1> DEFINE Goal == \/ Rests
                   \/ /\ \E r \in Requests : Lives(r)
                      /\ UNCHANGED <<accepted, charges, unrecorded>>
                      /\ job'[w].pc \in {"submit", "next"}
<1>0. job \in [Workers -> JobRows] /\ event \in [Requests -> EventRows]
  BY DEF TypeOK, StoreTypeOK, JobTypeOK
<1>1. CASE UNCHANGED <<projection, request, ledger>>
  BY <1>1 DEF Rests
<1>2. ASSUME NEW r \in Requests, PrepareFirst(w, r) PROVE Goal
  <2>1. /\ request[r].status = "APPROVED" /\ UNCHANGED <<projection, ledger, accepted, charges, unrecorded>>
        /\ Settle(r, "SUBMITTED_TO_HCM", "PENDING_CONFIRMATION")
        /\ job'[w].pc = "submit"
    BY <1>0, <1>2 DEF PrepareFirst, Prepared, hcmVars
  <2>2. Turns(r, "APPROVED", "SUBMITTED_TO_HCM")
    BY <2>1, TurnOf
  <2>. QED
    BY <2>1, <2>2, NoShift DEF Lives, Submits
<1>3. CASE ConfirmSubmission(w)
  <2> DEFINE r == job[w].request
  <2>1. /\ r \in Requests /\ request[r].status = "SUBMITTED_TO_HCM" /\ Heard(r)
        /\ Settle(r, "CONFIRMED_BY_HCM", "CONFIRMED")
        /\ ReleaseReservation("confirmed", r, job[w].days)
        /\ CloseEvent(r, "PROCESSED")
        /\ UNCHANGED <<accepted, charges, unrecorded>>
        /\ job'[w].pc = "next"
    BY <1>0, <1>3 DEF TypeOK, JobTypeOK, HandlerInv, Heard, ConfirmSubmission, TakeNext,
       hcmVars
  <2>2. Turns(r, "SUBMITTED_TO_HCM", "CONFIRMED_BY_HCM")
    BY <2>1, TurnOf
  <2>3. event'[r].status = "PROCESSED"
    BY <1>0, <2>1 DEF CloseEvent, EventRows
  <2>. QED
    BY <2>1, <2>2, <2>3, ReleaseShifts DEF Lives, Confirms, Books, ReleaseReservation
<1>4. CASE RejectSubmission(w)
  <2> DEFINE r == job[w].request
  <2>1. /\ r \in Requests /\ request[r].status = "SUBMITTED_TO_HCM"
        /\ Settle(r, "FAILED_HCM_VALIDATION", "REJECTED")
        /\ ReleaseReservation("released", r, projection[KeyOf[r]].availableDays)
        /\ CloseEvent(r, "FAILED")
        /\ UNCHANGED <<accepted, charges, unrecorded>>
        /\ job'[w].pc = "next"
    BY <1>0, <1>4 DEF TypeOK, JobTypeOK, HandlerInv, RejectSubmission, TakeNext, hcmVars
  <2>2. Turns(r, "SUBMITTED_TO_HCM", "FAILED_HCM_VALIDATION")
    BY <2>1, TurnOf
  <2>3. ~Heard(r)
    BY <1>4, HeardByHolder DEF RejectSubmission
  <2>4. event'[r].status = "FAILED"
    BY <1>0, <2>1 DEF CloseEvent, EventRows
  <2>. QED
    BY <2>1, <2>2, <2>3, <2>4, ReleaseShifts DEF Lives, Fails, Books, ReleaseReservation
<1>5. \/ UNCHANGED <<projection, request, ledger>>
      \/ ConfirmSubmission(w) \/ RejectSubmission(w) \/ \E r \in Requests : PrepareFirst(w, r)
  BY DEF WorkerActs, WorkStep, StartProcessing, PrepareRetry, PrepareStale, SubmitFails,
     SubmitRefused, SubmitAccepted, RecordingFails, ScheduleSubmissionRetry, storeVars
<1>. QED
  BY <1>1, <1>2, <1>3, <1>4, <1>5

\* A reconciliation moves the request it puts to review, or rests: what it
\* confirms is confirmed, or its acceptance was lost.
LEMMA AuditLives ==
    ASSUME TypeOK, HandlerInv, LostInv, NEW x \in Reconcilers, AuditActs(x)
    PROVE  \/ Rests
           \/ /\ audit[x].request \in Requests
              /\ Doubts(audit[x].request) \/ ConfirmsLost(audit[x].request)
<1> DEFINE r == audit[x].request
<1>1. CASE UNCHANGED <<projection, request, ledger>>
  BY <1>1 DEF Rests
<1>2. CASE ReconcileUpsert(x)
  <2>1. /\ audit[x].key \in Keys /\ audit[x].days \in Nat
        /\ UpsertFromHcmSnapshot(audit[x].key, audit[x].days)
        /\ UNCHANGED <<request, ledger>>
    BY <1>2 DEF TypeOK, AuditTypeOK, AuditRows, ReconcileUpsert, At
  <2>. QED
    BY <2>1, UpsertEffect DEF Rests
<1>3. CASE ReconcileConfirm(x)
  <2>1. /\ r \in Requests
        /\ request[r].status = "CONFIRMED_BY_HCM" \/ r \in unrecorded
        /\ Settle(r, "CONFIRMED_BY_HCM", "CONFIRMED")
        /\ UNCHANGED <<projection, ledger>>
    BY <1>3 DEF TypeOK, AuditTypeOK, HandlerInv, ReconcileConfirm, At
  <2>2. CASE request[r].status = "CONFIRMED_BY_HCM"
    BY <2>1, <2>2, SetStatusEffect DEF Rests
  <2>3. CASE r \in unrecorded
    <3>1. request[r].status \in LostStatus
      BY <2>3 DEF LostInv
    <3>2. Turns(r, request[r].status, "CONFIRMED_BY_HCM")
      BY <2>1, TurnOf
    <3>3. event'[r].status # "UNCERTAIN"
      BY <1>3, <2>1 DEF TypeOK, StoreTypeOK, EventRows, ReconcileConfirm
    <3>. QED
      BY <2>1, <2>3, <3>1, <3>2, <3>3, NoShift DEF ConfirmsLost
  <2>. QED
    BY <2>1, <2>2, <2>3
<1>4. CASE ReconcileReview(x)
  <2>1. /\ r \in Requests /\ request[r].status \in {"SUBMITTED_TO_HCM", "CONFLICT_REVIEW"}
        /\ Settle(r, "CONFLICT_REVIEW", "UNKNOWN") /\ UNCHANGED ledger
    BY <1>4 DEF TypeOK, AuditTypeOK, HandlerInv, ReconcileReview, At
  <2>2. Turns(r, request[r].status, "CONFLICT_REVIEW")
    BY <2>1, TurnOf
  <2>3. \A k \in Keys : projection'[k].reservedDays = projection[k].reservedDays
    BY <1>4, ReviewEffect
  <2>4. CASE request[r].status = "CONFLICT_REVIEW"
    BY <2>1, <2>3, <2>4, SetStatusEffect DEF Rests
  <2>. QED
    BY <2>1, <2>2, <2>3, <2>4, NoShift DEF Doubts
<1>5. \/ UNCHANGED <<projection, request, ledger>>
      \/ ReconcileUpsert(x) \/ ReconcileConfirm(x) \/ ReconcileReview(x)
  BY DEF AuditActs, AuditStep, ReconcileRead, ReconcileList, ReconcileTake, ReconcileLook,
     storeVars
<1>. QED
  BY <1>1, <1>2, <1>3, <1>4, <1>5

\* Every step rests, or is one move in the life of one request.
LEMMA Lifecycle ==
    ASSUME TypeOK, CallInv, Apart, ApartInv, [Next]_vars
    PROVE  Rests \/ \E r \in Requests : Lives(r) /\ UNCHANGED <<accepted, charges, unrecorded>>
<1>1. ASSUME NEW c \in Callers, CallerActs(c)
      PROVE  Rests \/ \E r \in Requests : Lives(r) /\ UNCHANGED <<accepted, charges, unrecorded>>
  <2>1. Rests \/ Lives(call[c].request)
    BY <1>1, CallerLives DEF ApartInv
  <2>2. call[c].request \in Requests \/ Rests
    <3>1. call[c].op # "none" \/ UNCHANGED <<projection, request, ledger>>
      BY <1>1 DEF CallerActs, BeginCommand, FinishCommand, CreateRead, ApproveLoad,
         RejectLoad, CancelLoad, CreateReserve, CreateConflict, ApproveSave, ApproveConflict,
         RejectSave, RejectConflict, CancelSave, CancelConflict, Running, storeVars
    <3>. QED
      BY <3>1 DEF TypeOK, CallTypeOK, Rests
  <2>. QED
    BY <1>1, <2>1, <2>2 DEF CallerActs, hcmVars
<1>2. ASSUME NEW w \in Workers, WorkerActs(w)
      PROVE  Rests \/ \E r \in Requests : Lives(r) /\ UNCHANGED <<accepted, charges, unrecorded>>
  BY <1>2, WorkerLives DEF ApartInv
<1>3. ASSUME NEW x \in Reconcilers, AuditActs(x)
      PROVE  Rests \/ \E r \in Requests : Lives(r) /\ UNCHANGED <<accepted, charges, unrecorded>>
  BY <1>3, AuditLives DEF ApartInv, Lives, AuditActs, hcmVars
<1>4. NobodyActs => Rests
  BY DEF NobodyActs, Rests
<1>5. Restart \/ HandlerDies => Rests
  BY DeathIdles DEF storeVars, Rests
<1>. QED
  BY <1>1, <1>2, <1>3, <1>4, <1>5, ActorStep DEF ApartInv

\* Only an acceptance that a run has heard of gets lost.
LEMMA LossStep ==
    ASSUME TypeOK, [Next]_vars
    PROVE  /\ unrecorded \subseteq unrecorded'
           /\ \A r \in unrecorded' \ unrecorded : Heard(r)
<1>1. ASSUME NEW w \in Workers, WorkerActs(w)
      PROVE  \/ unrecorded' = unrecorded
             \/ job[w].pc = "accepted" /\ unrecorded' = unrecorded \cup {job[w].request}
  BY <1>1 DEF WorkerActs, StartProcessing, WorkStep, PrepareFirst, PrepareRetry,
     PrepareStale, SubmitFails, ThrowSubmission, SubmitRefused, RefuseSubmission,
     SubmitAccepted, AcceptSubmission, ConfirmSubmission, RejectSubmission, RecordingFails,
     ScheduleSubmissionRetry, hcmVars
<1>2. CASE Restart
  BY <1>2 DEF Restart, Heard
<1>3. CASE HandlerDies
  BY <1>3 DEF HandlerDies, hcmVars
<1>. QED
  BY <1>1, <1>2, <1>3, ActorStep DEF CallerActs, AuditActs, NobodyActs, Heard, hcmVars

\* And it is one of a request that was submitted.
LEMMA LostSubmitted ==
    ASSUME TypeOK, HandlerInv, [Next]_vars, NEW r \in unrecorded' \ unrecorded
    PROVE  request[r].status = "SUBMITTED_TO_HCM"
<1>1. PICK w \in Workers : job[w].pc = "accepted" /\ job[w].request = r
  BY LossStep DEF Heard
<1>. QED
  BY <1>1 DEF HandlerInv

-----------------------------------------------------------------------------
(* The days of the open requests.                                          *)

\* One more request adds its days to a sum of days.
LEMMA HeldOneMore ==
    ASSUME NEW S, NEW r \in Requests, r \notin S, IsFiniteSet(HeldDays(S))
    PROVE  /\ IsFiniteSet(HeldDays(S \cup {r}))
           /\ Cardinality(HeldDays(S \cup {r})) = Cardinality(HeldDays(S)) + DaysOf[r]
<1>1. HeldDays(S \cup {r}) = HeldDays(S) \cup ({r} \X (1..DaysOf[r]))
  BY DEF HeldDays
<1>2. HeldDays(S) \cap ({r} \X (1..DaysOf[r])) = {}
  BY DEF HeldDays
<1> DEFINE D == HeldDays(S)
           n == DaysOf[r]
<1>3. IsFiniteSet(D) /\ n \in Nat /\ D \cap ({r} \X (1..n)) = {}
  BY <1>2, DaysOfAssumption
<1> HIDE DEF D, n
<1>4. /\ IsFiniteSet(D \cup ({r} \X (1..n)))
      /\ Cardinality(D \cup ({r} \X (1..n))) = Cardinality(D) + n
  BY <1>3, DaysAdded, Zenon
<1>. QED
  BY <1>1, <1>4 DEF D, n

\* One request less takes them away, and they were covered.
LEMMA HeldOneLess ==
    ASSUME NEW S, NEW r \in Requests, r \in S, IsFiniteSet(HeldDays(S))
    PROVE  /\ IsFiniteSet(HeldDays(S \ {r}))
           /\ Cardinality(HeldDays(S \ {r})) \in Nat
           /\ Cardinality(HeldDays(S)) = Cardinality(HeldDays(S \ {r})) + DaysOf[r]
<1>1. HeldDays(S \ {r}) \subseteq HeldDays(S)
  BY DEF HeldDays
<1>2. IsFiniteSet(HeldDays(S \ {r}))
  BY <1>1, FS_Subset
<1>3. (S \ {r}) \cup {r} = S /\ r \notin S \ {r}
  OBVIOUS
<1>4. Cardinality(HeldDays((S \ {r}) \cup {r})) = Cardinality(HeldDays(S \ {r})) + DaysOf[r]
  BY <1>2, <1>3, HeldOneMore
<1>. QED
  BY <1>2, <1>3, <1>4, FS_CardinalityType

\* What a move does to the ledger.
LEMMA LivesBook ==
    ASSUME NEW r \in Requests, Lives(r)
    PROVE  /\ \A q \in Requests \ {r} : request'[q].status = request[q].status
           /\ \A q \in Requests \ {r} : \A kind : <<kind, q>> \in ledger' <=> <<kind, q>> \in ledger
           /\ ledger \subseteq ledger'
<1>1. ledger' = ledger \/ \E kind : Books(kind, r)
  BY DEF Lives, Reserves, Withdraws, Approves, Submits, Confirms, ConfirmsLost, Fails, Doubts
<1>2. \A q \in Requests \ {r} : request'[q].status = request[q].status
  BY DEF Lives, Reserves, Withdraws, Approves, Submits, Confirms, ConfirmsLost, Fails,
     Doubts, Turns
<1>. QED
  BY <1>1, <1>2 DEF Books

\* The ledger of a request that is neither confirmed nor refused has neither entry,
\* and of one that was refused has its release.
LEMMA FateOf ==
    ASSUME LedgerTellsFate, NEW r \in Requests
    PROVE  /\ request[r].status # "CONFIRMED_BY_HCM" => <<"confirmed", r>> \notin ledger
           /\ request[r].status \in OpenStatus => <<"released", r>> \notin ledger
           /\ request[r].status = "FAILED_HCM_VALIDATION" => <<"released", r>> \in ledger
<1>1. "confirmed" \in EntryKinds /\ "released" \in EntryKinds
  BY DEF EntryKinds, ReturnKinds
<1>2. ASSUME request[r].status # "CONFIRMED_BY_HCM", NEW kind \in {"confirmed", "released"}
      PROVE  <<kind, r>> \in ledger <=> kind \in Fate(request[r].status)
  BY <1>1, <1>2 DEF LedgerTellsFate, Unbooked
<1>3. request[r].status # "CONFIRMED_BY_HCM" => "confirmed" \notin Fate(request[r].status)
  BY DEF Fate
<1>4. request[r].status \in OpenStatus => "released" \notin Fate(request[r].status)
  BY DEF Fate, OpenStatus
<1>5. request[r].status = "FAILED_HCM_VALIDATION" => "released" \in Fate(request[r].status)
  BY DEF Fate
<1>6. request[r].status \in OpenStatus => request[r].status # "CONFIRMED_BY_HCM"
  BY DEF OpenStatus
<1>. QED
  BY <1>2, <1>3, <1>4, <1>5, <1>6

\* A move either opens a request and reserves its days, or closes one and
\* returns them, or does neither.
LEMMA LivesOpen ==
    ASSUME LedgerTellsFate, NEW r \in Requests, Lives(r), UNCHANGED unrecorded
    PROVE  /\ \A q \in Requests \ {r} : Reserving(q)' <=> Reserving(q)
           /\ \/ ~Reserving(r) /\ Reserving(r)' /\ Shifts(r, DaysOf[r])
              \/ Reserving(r) /\ ~Reserving(r)' /\ Shifts(r, -DaysOf[r])
              \/ (Reserving(r)' <=> Reserving(r)) /\ Shifts(r, 0)
<1> DEFINE Goal ==
             \/ ~Reserving(r) /\ Reserving(r)' /\ Shifts(r, DaysOf[r])
             \/ Reserving(r) /\ ~Reserving(r)' /\ Shifts(r, -DaysOf[r])
             \/ (Reserving(r)' <=> Reserving(r)) /\ Shifts(r, 0)
<1>1. \A q \in Requests \ {r} : Reserving(q)' <=> Reserving(q)
  BY LivesBook DEF Reserving, Unbooked
<1>2. ASSUME Reserves(r) PROVE Goal
  BY <1>2 DEF Reserves, Turns, Reserving, Unbooked, OpenStatus
<1>3. ASSUME Withdraws(r) PROVE Goal
  BY <1>3 DEF Withdraws, Turns, Reserving, Unbooked, OpenStatus
<1>4. ASSUME Approves(r) \/ Submits(r) \/ Doubts(r) PROVE Goal
  BY <1>4 DEF Approves, Submits, Doubts, Turns, Reserving, OpenStatus
<1>5. ASSUME Confirms(r) PROVE Goal
  BY <1>5 DEF Confirms, Books, Turns, Reserving, Unbooked, OpenStatus
<1>6. ASSUME Fails(r) PROVE Goal
  BY <1>6 DEF Fails, Turns, Reserving, Unbooked, OpenStatus
<1>7. ASSUME ConfirmsLost(r) PROVE Goal
  <2>1. /\ r \in unrecorded /\ ledger' = ledger /\ Shifts(r, 0)
        /\ request'[r].status = "CONFIRMED_BY_HCM" /\ request[r].status \in LostStatus
    BY <1>7 DEF ConfirmsLost, Turns
  <2>2. CASE request[r].status = "CONFIRMED_BY_HCM"
    BY <2>1, <2>2 DEF Reserving, Unbooked
  <2>3. CASE request[r].status \in OpenStatus
    BY <2>1, <2>3, FateOf DEF Reserving, Unbooked, OpenStatus
  <2>4. CASE request[r].status = "FAILED_HCM_VALIDATION"
    BY <2>1, <2>4, FateOf DEF Reserving, Unbooked, OpenStatus
  <2>. QED
    BY <2>1, <2>2, <2>3, <2>4 DEF LostStatus, OpenStatus
<1>. QED
  BY <1>1, <1>2, <1>3, <1>4, <1>5, <1>6, <1>7 DEF Lives

\* Whatever happens in a request's life, the reserved days stay those of the
\* requests that reserve; a loss changes nothing yet.
LEMMA ReservedInductive ==
    ASSUME ReservedInv, LedgerTellsFate,
           \/ /\ Rests
              /\ unrecorded \subseteq unrecorded'
              /\ \A r \in unrecorded' \ unrecorded : request[r].status = "SUBMITTED_TO_HCM"
           \/ \E r \in Requests : Lives(r) /\ UNCHANGED unrecorded
    PROVE  ReservedInv'
<1>0. /\ DaysOf \in [Requests -> Nat]
      /\ \A k \in Keys : Cardinality(HeldDays(OpenOf(k))) \in Nat
  BY DaysOfAssumption, FS_CardinalityType DEF ReservedInv
<1>1. ASSUME NEW k \in Keys, OpenOf(k)' = OpenOf(k),
             projection'[k].reservedDays = projection[k].reservedDays
      PROVE  /\ IsFiniteSet(HeldDays(OpenOf(k)))'
             /\ projection'[k].reservedDays = Cardinality(HeldDays(OpenOf(k)))'
  <2>1. HeldDays(OpenOf(k))' = HeldDays(OpenOf(k))
    BY <1>1 DEF HeldDays
  <2>. QED
    BY <1>1, <2>1 DEF ReservedInv
<1>2. ASSUME Rests, unrecorded \subseteq unrecorded',
             \A r \in unrecorded' \ unrecorded : request[r].status = "SUBMITTED_TO_HCM"
      PROVE  ReservedInv'
  <2>1. \A k \in Keys : OpenOf(k)' = OpenOf(k)
    <3>1. \A r \in Requests : Reserving(r)' <=> Reserving(r)
      BY <1>2 DEF Rests, Reserving, Unbooked
    <3>. QED
      BY <3>1 DEF OpenOf
  <2>. QED
    BY <1>1, <1>2, <2>1 DEF Rests, ReservedInv
<1>3. ASSUME NEW r \in Requests, Lives(r), UNCHANGED unrecorded, NEW k \in Keys
      PROVE  /\ IsFiniteSet(HeldDays(OpenOf(k)))'
             /\ projection'[k].reservedDays = Cardinality(HeldDays(OpenOf(k)))'
  <2>1. \A q \in Requests \ {r} : Reserving(q)' <=> Reserving(q)
    BY <1>3, LivesOpen
  <2>2. CASE KeyOf[r] # k
    <3>1. OpenOf(k)' = OpenOf(k)
      BY <2>1, <2>2 DEF OpenOf
    <3>2. projection'[k].reservedDays = projection[k].reservedDays + 0
      BY <1>3, <2>2, LivesOpen DEF Shifts
    <3>. QED
      BY <1>0, <1>1, <3>1, <3>2 DEF ReservedInv
  <2>3. ASSUME KeyOf[r] = k, ~Reserving(r), Reserving(r)', Shifts(r, DaysOf[r])
        PROVE  /\ IsFiniteSet(HeldDays(OpenOf(k)))'
               /\ projection'[k].reservedDays = Cardinality(HeldDays(OpenOf(k)))'
    <3>1. OpenOf(k)' = OpenOf(k) \cup {r} /\ r \notin OpenOf(k)
      BY <2>1, <2>3 DEF OpenOf
    <3>2. HeldDays(OpenOf(k))' = HeldDays(OpenOf(k) \cup {r})
      BY <3>1 DEF HeldDays
    <3>3. projection'[k].reservedDays = projection[k].reservedDays + DaysOf[r]
      BY <2>3 DEF Shifts
    <3>. QED
      BY <3>1, <3>2, <3>3, HeldOneMore DEF ReservedInv
  <2>4. ASSUME KeyOf[r] = k, Reserving(r), ~Reserving(r)', Shifts(r, -DaysOf[r])
        PROVE  /\ IsFiniteSet(HeldDays(OpenOf(k)))'
               /\ projection'[k].reservedDays = Cardinality(HeldDays(OpenOf(k)))'
    <3>1. OpenOf(k)' = OpenOf(k) \ {r} /\ r \in OpenOf(k)
      BY <2>1, <2>4 DEF OpenOf
    <3>2. HeldDays(OpenOf(k))' = HeldDays(OpenOf(k) \ {r})
      BY <3>1 DEF HeldDays
    <3>3. projection'[k].reservedDays = projection[k].reservedDays + (-DaysOf[r])
      BY <2>4 DEF Shifts
    <3>4. /\ IsFiniteSet(HeldDays(OpenOf(k) \ {r}))
          /\ Cardinality(HeldDays(OpenOf(k) \ {r})) \in Nat
          /\ projection[k].reservedDays = Cardinality(HeldDays(OpenOf(k) \ {r})) + DaysOf[r]
      BY <3>1, HeldOneLess DEF ReservedInv
    <3>. QED
      BY <1>0, <3>2, <3>3, <3>4
  <2>5. ASSUME KeyOf[r] = k, Reserving(r)' <=> Reserving(r), Shifts(r, 0)
        PROVE  /\ IsFiniteSet(HeldDays(OpenOf(k)))'
               /\ projection'[k].reservedDays = Cardinality(HeldDays(OpenOf(k)))'
    <3>1. OpenOf(k)' = OpenOf(k)
      BY <2>1, <2>5 DEF OpenOf
    <3>2. projection'[k].reservedDays = projection[k].reservedDays + 0
      BY <2>5 DEF Shifts
    <3>. QED
      BY <1>0, <1>1, <3>1, <3>2 DEF ReservedInv
  <2>. QED
    BY <1>3, <2>2, <2>3, <2>4, <2>5, LivesOpen
<1>. QED
  BY <1>2, <1>3 DEF ReservedInv

-----------------------------------------------------------------------------
(* The handlers.                                                           *)

\* A command that acts has read what it will rely on.
LEMMA CallerActsWell ==
    ASSUME TypeOK, NEW c \in Callers, CallerActs(c)
    PROVE  /\ call'[c].op = "reject" =>
                 request'[call'[c].request].status = "PENDING_MANAGER_APPROVAL"
           /\ call'[c].op = "cancel" => Cancellable(call[c].request)'
<1> DEFINE CallerOK == /\ call[c].op = "reject" =>
                             request[call[c].request].status = "PENDING_MANAGER_APPROVAL"
                       /\ call[c].op = "cancel" => Cancellable(call[c].request)
<1> SUFFICES CallerOK'
  OBVIOUS
<1>0. call \in [Callers -> [op : Commands \cup {"none"},
                            request : Requests \cup {NoRequest}, version : Nat]]
  BY DEF TypeOK, CallTypeOK
<1>1. CASE FinishCommand(c)
  <2>1. call' = [call EXCEPT ![c] = NoCall]
    BY <1>1 DEF FinishCommand, CreateReserve, CreateConflict, ApproveSave, ApproveConflict,
       RejectSave, RejectConflict, CancelSave, CancelConflict, Return
  <2>. QED
    BY <1>0, <2>1 DEF NoCall
<1>2. ASSUME NEW r \in Requests, CreateRead(c, r) \/ ApproveLoad(c, r) PROVE CallerOK'
  BY <1>0, <1>2 DEF CreateRead, ApproveLoad, Remember
<1>3. ASSUME NEW r \in Requests, RejectLoad(c, r) PROVE CallerOK'
  BY <1>0, <1>3 DEF RejectLoad, Remember, storeVars
<1>4. ASSUME NEW r \in Requests, CancelLoad(c, r) PROVE CallerOK'
  BY <1>0, <1>4 DEF CancelLoad, Cancellable, Remember, storeVars
<1>. QED
  BY <1>1, <1>2, <1>3, <1>4 DEF CallerActs, BeginCommand

\* A run that acts has the request it takes submitted, and goes on to record
\* what HCM has answered.
LEMMA WorkerActsWell ==
    ASSUME TypeOK, HandlerInv, NEW w \in Workers, WorkerActs(w)
    PROVE  /\ job'[w].pc # "next" => request'[job'[w].request].status = "SUBMITTED_TO_HCM"
           /\ job'[w].pc = "accepted" => job'[w].request \in accepted'
<1> DEFINE WorkerOK ==
             /\ job[w].pc # "next" => request[job[w].request].status = "SUBMITTED_TO_HCM"
             /\ job[w].pc = "accepted" => job[w].request \in accepted
<1> SUFFICES WorkerOK'
  OBVIOUS
<1>0. job \in [Workers -> JobRows]
  BY DEF TypeOK, JobTypeOK
<1>1. ASSUME NEW r \in Requests, PrepareFirst(w, r) PROVE WorkerOK'
  <2>1. job'[w].pc = "submit" /\ job'[w].request = r
    BY <1>0, <1>1 DEF PrepareFirst, Prepared
  <2>2. Settle(r, "SUBMITTED_TO_HCM", "PENDING_CONFIRMATION")
    BY <1>1 DEF PrepareFirst
  <2>. QED
    BY <2>1, <2>2, SetStatusEffect
<1>2. ASSUME NEW r \in Requests, PrepareRetry(w, r) PROVE WorkerOK'
  BY <1>0, <1>2 DEF PrepareRetry, Prepared, storeVars
<1>3. CASE SubmitAccepted(w)
  <2>1. /\ job'[w].request = job[w].request /\ job[w].request \in accepted'
        /\ request' = request
    BY <1>0, <1>3 DEF SubmitAccepted, AcceptSubmission, JobRows, storeVars
  <2>. QED
    BY <1>3, <2>1 DEF HandlerInv, SubmitAccepted
<1>4. CASE SubmitRefused(w) \/ SubmitFails(w) \/ RecordingFails(w)
  <2>1. /\ job[w].pc # "next" /\ job'[w].request = job[w].request
        /\ job'[w].pc \in {"refused", "failed"} /\ request' = request
    BY <1>0, <1>4 DEF SubmitRefused, SubmitFails, RecordingFails, Goto, JobRows, storeVars
  <2>. QED
    BY <2>1 DEF HandlerInv
<1>5. CASE ConfirmSubmission(w) \/ RejectSubmission(w) \/ ScheduleSubmissionRetry(w)
  BY <1>0, <1>5 DEF ConfirmSubmission, RejectSubmission, ScheduleSubmissionRetry, TakeNext
<1>6. ASSUME NEW r \in Requests, PrepareStale(w, r) PROVE WorkerOK'
  BY <1>0, <1>6 DEF PrepareStale, Takes, JobRows
<1>7. CASE StartProcessing(w)
  BY <1>0, <1>7 DEF StartProcessing, WorkerIdle, JobRows
<1>. QED
  BY <1>1, <1>2, <1>3, <1>4, <1>5, <1>6, <1>7 DEF WorkerActs, WorkStep

\* A reconciliation that acts goes on to confirm what is confirmed already or what
\* was lost, since a run that heard of the acceptance would hold the request too,
\* and to review what is still open.
LEMMA AuditActsWell ==
    ASSUME TypeOK, Apart', ApartInv, NEW x \in Reconcilers, AuditActs(x)
    PROVE  /\ audit'[x].pc = "confirm" =>
                 \/ request'[audit'[x].request].status = "CONFIRMED_BY_HCM"
                 \/ audit'[x].request \in unrecorded'
           /\ audit'[x].pc = "review" =>
                 request'[audit'[x].request].status \in {"SUBMITTED_TO_HCM", "CONFLICT_REVIEW"}
<1> DEFINE AuditOK ==
             /\ audit[x].pc = "confirm" =>
                   \/ request[audit[x].request].status = "CONFIRMED_BY_HCM"
                   \/ audit[x].request \in unrecorded
             /\ audit[x].pc = "review" =>
                   request[audit[x].request].status \in {"SUBMITTED_TO_HCM", "CONFLICT_REVIEW"}
<1> SUFFICES AuditOK'
  OBVIOUS
<1>0. audit \in [Reconcilers -> AuditRows]
  BY DEF TypeOK, AuditTypeOK
<1>1. CASE \/ \E k \in Keys : ReconcileRead(x, k)
           \/ ReconcileUpsert(x) \/ ReconcileList(x)
           \/ ReconcileConfirm(x) \/ ReconcileReview(x)
  BY <1>0, <1>1 DEF ReconcileRead, ReconcileUpsert, ReconcileList, ReconcileConfirm,
     ReconcileReview, NextListed, NoAudit, AuditRows
<1>2. ASSUME NEW r \in Requests, ReconcileTake(x, r) PROVE AuditOK'
  <2>1. /\ audit'[x].request = r /\ UNCHANGED <<request, job, unrecorded>>
        /\ audit'[x].pc = IF r \in accepted THEN "confirm" ELSE "look"
    BY <1>0, <1>2 DEF AuditActs, ReconcileTake, KnownToHcm, AuditRows, storeVars,
       hcmVars
  <2>2. AuditHolds(x, r)'
    BY <2>1 DEF AuditHolds
  <2>3. ~Heard(r)
    BY <2>1, <2>2, ApartMeansNext DEF Exclusive, WorkerHolds, Heard
  <2>. QED
    BY <2>1, <2>3 DEF ApartInv, AcceptedInv
<1>3. CASE ReconcileLook(x)
  <2>1. /\ audit[x].request \in Requests /\ request' = request
        /\ \/ audit'[x].pc = "next"
           \/ /\ audit'[x].pc = "review" /\ audit'[x].request = audit[x].request
              /\ event[audit[x].request].status = "UNCERTAIN"
    BY <1>0, <1>3 DEF TypeOK, AuditTypeOK, ReconcileLook, Proceed, NextListed, AuditRows,
       Exhausted, At, storeVars
  <2>. QED
    BY <2>1 DEF ApartInv, UncertainInv
<1>. QED
  BY <1>1, <1>2, <1>3 DEF AuditActs, AuditStep

\* HCM forgets nothing but in a restart.
LEMMA AcceptedGrows ==
    ASSUME TypeOK, [Next]_vars, ~Restart
    PROVE  accepted \subseteq accepted'
<1>1. ASSUME NEW w \in Workers, WorkerActs(w) PROVE accepted \subseteq accepted'
  BY <1>1 DEF WorkerActs, StartProcessing, WorkStep, PrepareFirst, PrepareRetry,
     PrepareStale, SubmitFails, ThrowSubmission, SubmitRefused, RefuseSubmission,
     SubmitAccepted, AcceptSubmission, ConfirmSubmission, RejectSubmission, RecordingFails,
     ScheduleSubmissionRetry, hcmVars
<1>. QED
  BY <1>1, ActorStep DEF CallerActs, AuditActs, NobodyActs, HandlerDies, hcmVars

\* What a handler has read still holds after any step.
LEMMA HandlerInductive ==
    ASSUME TypeOK, Apart, Apart', ApartInv, [Next]_vars
    PROVE  HandlerInv'
<1>0. HandlerInv
  BY DEF ApartInv
<1>1. CASE Restart \/ HandlerDies
  <2>1. /\ request' = request /\ unrecorded \subseteq unrecorded'
        /\ \A c \in Callers : call'[c] \in {call[c], NoCall}
        /\ \A w \in Workers : job'[w] \in {job[w], NoJob}
        /\ \A x \in Reconcilers : audit'[x] \in {audit[x], NoAudit}
    BY <1>1, DeathIdles DEF storeVars
  <2>2. \A w \in Workers : job'[w].pc = "accepted" => job'[w].request \in accepted'
    <3>1. CASE Restart
      BY <3>1 DEF Restart, NoJob
    <3>2. CASE HandlerDies
      BY <1>0, <2>1, <3>2 DEF HandlerDies, hcmVars, HandlerInv, NoJob
    <3>. QED
      BY <1>1, <3>1, <3>2
  <2>. QED
    BY <1>0, <2>1, <2>2 DEF HandlerInv, Cancellable, NoCall, NoJob, NoAudit
<1>2. CASE ~Restart /\ ~HandlerDies
  <2>1. ASSUME NEW c \in Callers
        PROVE  /\ call'[c].op = "reject" =>
                     request'[call'[c].request].status = "PENDING_MANAGER_APPROVAL"
               /\ call'[c].op = "cancel" => Cancellable(call[c].request)'
    <3>1. CASE CallerActs(c)
      BY <3>1, CallerActsWell
    <3>2. CASE CallerIdle(c) /\ ~CallerActs(c)
      BY <1>2, <3>2, ActorStep DEF CallerIdle, CallerActs, WorkerActs, AuditActs, NobodyActs
    <3>3. CASE ~CallerIdle(c) /\ ~CallerActs(c)
      <4>1. call[c].request \in Requests /\ CallerHolds(c, call[c].request)
        BY <3>3 DEF TypeOK, CallTypeOK, CallerIdle, CallerHolds
      <4>2. call'[c] = call[c] /\ request'[call[c].request] = request[call[c].request]
        BY <1>2, <3>3, <4>1, Untouched
      <4>. QED
        BY <1>0, <4>2 DEF HandlerInv, Cancellable
    <3>. QED
      BY <3>1, <3>2, <3>3
  <2>2. ASSUME NEW w \in Workers
        PROVE  /\ job'[w].pc # "next" =>
                     request'[job'[w].request].status = "SUBMITTED_TO_HCM"
               /\ job'[w].pc = "accepted" => job'[w].request \in accepted'
    <3>1. CASE WorkerActs(w)
      BY <1>0, <3>1, WorkerActsWell
    <3>2. CASE job[w].pc = "next" /\ ~WorkerActs(w)
      BY <1>2, <3>2, ActorStep DEF CallerActs, WorkerActs, AuditActs, NobodyActs
    <3>3. CASE job[w].pc # "next" /\ ~WorkerActs(w)
      <4>1. job[w].request \in Requests /\ WorkerHolds(w, job[w].request)
        BY <3>3 DEF TypeOK, JobTypeOK, WorkerHolds
      <4>2. job'[w] = job[w] /\ request'[job[w].request] = request[job[w].request]
        BY <1>2, <3>3, <4>1, Untouched
      <4>. QED
        BY <1>0, <1>2, <4>2, AcceptedGrows DEF HandlerInv
    <3>. QED
      BY <3>1, <3>2, <3>3
  <2>3. ASSUME NEW x \in Reconcilers
        PROVE  /\ audit'[x].pc = "confirm" =>
                     \/ request'[audit'[x].request].status = "CONFIRMED_BY_HCM"
                     \/ audit'[x].request \in unrecorded'
               /\ audit'[x].pc = "review" =>
                     request'[audit'[x].request].status \in {"SUBMITTED_TO_HCM", "CONFLICT_REVIEW"}
    <3>1. CASE AuditActs(x)
      BY <3>1, AuditActsWell
    <3>2. CASE audit[x].pc \notin {"confirm", "review"} /\ ~AuditActs(x)
      BY <1>2, <3>2, ActorStep DEF CallerActs, WorkerActs, AuditActs, NobodyActs
    <3>3. CASE audit[x].pc \in {"confirm", "review"} /\ ~AuditActs(x)
      <4>1. audit[x].request \in Requests /\ AuditHolds(x, audit[x].request)
        BY <3>3 DEF TypeOK, AuditTypeOK, AuditHolds
      <4>2. audit'[x] = audit[x] /\ request'[audit[x].request] = request[audit[x].request]
        BY <1>2, <3>3, <4>1, Untouched
      <4>. QED
        BY <1>0, <4>2, LossStep DEF HandlerInv
    <3>. QED
      BY <3>1, <3>2, <3>3
  <2>. QED
    BY <2>1, <2>2, <2>3 DEF HandlerInv
<1>. QED
  BY <1>1, <1>2

\* A recorded confirmation stays.
LEMMA ConfirmedStays ==
    ASSUME TypeOK, CallInv, Apart, ApartInv, [Next]_vars, NEW r \in Requests,
           request[r].status = "CONFIRMED_BY_HCM"
    PROVE  request'[r].status = "CONFIRMED_BY_HCM"
BY Lifecycle DEF Rests, Lives, Reserves, Withdraws, Approves, Submits, Confirms,
   ConfirmsLost, Fails, Doubts, Turns

\* The run that heard of an acceptance records it or loses it: nobody else can have
\* the request in its hands.
LEMMA HeardStep ==
    ASSUME TypeOK, Apart, Apart', ApartInv, [Next]_vars, NEW r \in Requests, Heard(r)
    PROVE  \/ request'[r].status = "CONFIRMED_BY_HCM"
           \/ request'[r].status = "SUBMITTED_TO_HCM" /\ Heard(r)'
           \/ r \in unrecorded'
<1> DEFINE Goal == \/ request'[r].status = "CONFIRMED_BY_HCM"
                   \/ request'[r].status = "SUBMITTED_TO_HCM" /\ Heard(r)'
                   \/ r \in unrecorded'
<1>0. PICK w \in Workers : job[w].pc = "accepted" /\ job[w].request = r
  BY DEF Heard
<1>1. request[r].status = "SUBMITTED_TO_HCM"
  BY <1>0 DEF ApartInv, HandlerInv
<1>2. CASE WorkerActs(w)
  <2>1. ConfirmSubmission(w) \/ RecordingFails(w)
    BY <1>0, <1>2 DEF WorkerActs, WorkStep, StartProcessing, WorkerIdle, PrepareFirst,
       PrepareRetry, PrepareStale, Takes, SubmitFails, SubmitRefused, SubmitAccepted,
       RejectSubmission, ScheduleSubmissionRetry
  <2>2. CASE ConfirmSubmission(w)
    <3>1. Settle(r, "CONFIRMED_BY_HCM", "CONFIRMED")
      BY <1>0, <2>2 DEF ConfirmSubmission
    <3>. QED
      BY <3>1, SetStatusEffect
  <2>3. CASE RecordingFails(w)
    BY <1>0, <2>3 DEF RecordingFails
  <2>. QED
    BY <2>1, <2>2, <2>3
<1>3. CASE Restart
  BY <1>0, <1>3 DEF Restart
<1>4. CASE HandlerDies
  <2>1. request' = request /\ job'[w] = job[w]
    BY <1>0, <1>4 DEF TypeOK, JobTypeOK, HandlerDies, storeVars
  <2>. QED
    BY <1>0, <1>1, <2>1 DEF Heard
<1>5. CASE ~WorkerActs(w) /\ ~Restart /\ ~HandlerDies
  <2>1. job'[w] = job[w] /\ request'[r] = request[r]
    BY <1>0, <1>5, Untouched DEF WorkerHolds
  <2>. QED
    BY <1>0, <1>1, <2>1 DEF Heard
<1>. QED
  BY <1>2, <1>3, <1>4, <1>5

\* So what HCM has accepted is known, about to be, or lost.
LEMMA AcceptedInductive ==
    ASSUME TypeOK, CallInv, Apart, Apart', ApartInv, [Next]_vars
    PROVE  AcceptedInv'
<1>0. job \in [Workers -> JobRows] /\ accepted \subseteq Requests
  BY DEF TypeOK, JobTypeOK, HcmTypeOK
<1> SUFFICES ASSUME NEW r \in accepted'
             PROVE  \/ request'[r].status = "CONFIRMED_BY_HCM"
                    \/ request'[r].status = "SUBMITTED_TO_HCM" /\ Heard(r)'
                    \/ r \in unrecorded'
  BY DEF AcceptedInv
<1>1. CASE r \in accepted
  BY <1>0, <1>1, ConfirmedStays, HeardStep, LossStep DEF ApartInv, AcceptedInv
<1>2. ASSUME NEW w \in Workers, SubmitAccepted(w), job[w].request = r
      PROVE  request'[r].status = "SUBMITTED_TO_HCM" /\ Heard(r)'
  <2>1. request'[r].status = "SUBMITTED_TO_HCM"
        /\ job'[w].pc = "accepted" /\ job'[w].request = r
    BY <1>0, <1>2 DEF SubmitAccepted, JobRows, storeVars, ApartInv, HandlerInv
  <2>. QED
    BY <2>1 DEF Heard
<1>. QED
  BY <1>1, <1>2, AcceptedStep

\* A submitted request never becomes anything from before its submission.
LEMMA LostInductive ==
    ASSUME TypeOK, CallInv, Apart, ApartInv, [Next]_vars
    PROVE  LostInv'
<1> SUFFICES ASSUME NEW r \in unrecorded' PROVE request'[r].status \in LostStatus
  BY DEF LostInv
<1>1. request[r].status \in LostStatus
  BY LostSubmitted DEF ApartInv, LostInv, LostStatus
<1>2. r \in Requests
  <2>1. r \in unrecorded \/ Heard(r)
    BY LossStep
  <2>. QED
    BY <2>1 DEF Heard, TypeOK, HcmTypeOK, JobTypeOK
<1>. QED
  BY <1>1, <1>2, Lifecycle DEF Rests, Lives, Reserves, Withdraws, Approves, Submits, Confirms,
     ConfirmsLost, Fails, Doubts, Turns, LostStatus

\* Only a run that failed makes an event UNCERTAIN.
LEMMA UncertainStep ==
    ASSUME TypeOK, [Next]_vars, NEW r \in Requests, event'[r].status = "UNCERTAIN"
    PROVE  \/ event[r].status = "UNCERTAIN"
           \/ \E w \in Workers : ScheduleSubmissionRetry(w) /\ job[w].request = r
<1> DEFINE Goal == \/ event[r].status = "UNCERTAIN"
                   \/ \E w \in Workers : ScheduleSubmissionRetry(w) /\ job[w].request = r
<1>0. event \in [Requests -> EventRows]
  BY DEF TypeOK, StoreTypeOK
<1>1. CASE event' = event
  BY <1>1
<1>2. ASSUME NEW c \in Callers, CallerActs(c) PROVE Goal
  <2>1. event' = event \/ ApproveSave(c) \/ CancelSave(c)
    BY <1>2 DEF CallerActs, BeginCommand, FinishCommand, CreateRead, ApproveLoad, RejectLoad,
       CancelLoad, CreateReserve, CreateConflict, ApproveConflict, RejectSave,
       RejectConflict, CancelConflict, storeVars
  <2>2. CASE ApproveSave(c)
    BY <1>0, <2>2 DEF ApproveSave
  <2>3. CASE CancelSave(c)
    BY <1>0, <2>3 DEF CancelSave, IgnorePendingEvent, EventRows
  <2>. QED
    BY <1>1, <2>1, <2>2, <2>3
<1>3. ASSUME NEW w \in Workers, WorkerActs(w) PROVE Goal
  <2>1. \/ event' = event
        \/ ConfirmSubmission(w) \/ RejectSubmission(w) \/ ScheduleSubmissionRetry(w)
        \/ \E q \in Requests : PrepareStale(w, q)
    BY <1>3 DEF WorkerActs, StartProcessing, WorkStep, PrepareFirst, PrepareRetry, SubmitFails,
       SubmitRefused, SubmitAccepted, RecordingFails, storeVars
  <2>2. ASSUME NEW q \in Requests, PrepareStale(w, q) PROVE Goal
    BY <1>0, <2>2 DEF PrepareStale, EventRows
  <2>3. CASE ConfirmSubmission(w) \/ RejectSubmission(w)
    BY <1>0, <2>3 DEF ConfirmSubmission, RejectSubmission, CloseEvent, EventRows
  <2>4. CASE ScheduleSubmissionRetry(w)
    BY <1>0, <2>4 DEF ScheduleSubmissionRetry, EventRows
  <2>. QED
    BY <1>1, <2>1, <2>2, <2>3, <2>4
<1>4. ASSUME NEW x \in Reconcilers, AuditActs(x) PROVE Goal
  <2>1. event' = event \/ ReconcileConfirm(x)
    BY <1>4 DEF AuditActs, AuditStep, ReconcileRead, ReconcileUpsert, ReconcileList,
       ReconcileTake, ReconcileLook, ReconcileReview, storeVars
  <2>2. CASE ReconcileConfirm(x)
    BY <1>0, <2>2 DEF ReconcileConfirm, EventRows
  <2>. QED
    BY <1>1, <2>1, <2>2
<1>5. CASE NobodyActs \/ Restart \/ HandlerDies
  BY <1>5, DeathIdles DEF NobodyActs, storeVars
<1>. QED
  BY <1>2, <1>3, <1>4, <1>5, ActorStep

\* A run schedules a retry only of what is still submitted, and whoever settles a
\* request closes its event.
LEMMA UncertainInductive ==
    ASSUME TypeOK, CallInv, Apart, ApartInv, [Next]_vars
    PROVE  UncertainInv'
<1> SUFFICES ASSUME NEW r \in Requests, event'[r].status = "UNCERTAIN"
             PROVE  request'[r].status \in {"SUBMITTED_TO_HCM", "CONFLICT_REVIEW"}
  BY DEF UncertainInv
<1>1. ASSUME NEW w \in Workers, ScheduleSubmissionRetry(w), job[w].request = r
      PROVE  request'[r].status = "SUBMITTED_TO_HCM"
  BY <1>1 DEF ScheduleSubmissionRetry, ApartInv, HandlerInv
<1>2. CASE event[r].status = "UNCERTAIN"
  <2>1. request[r].status \in {"SUBMITTED_TO_HCM", "CONFLICT_REVIEW"}
    BY <1>2 DEF ApartInv, UncertainInv
  <2>. QED
    BY <2>1, Lifecycle DEF Rests, Lives, Reserves, Withdraws, Approves, Submits, Confirms,
       ConfirmsLost, Fails, Doubts, Turns
<1>. QED
  BY <1>1, <1>2, UncertainStep

\* What a reconciliation confirmed in place of a lost acceptance is never booked.
LEMMA UnbookedStays ==
    ASSUME TypeOK, CallInv, Apart, ApartInv, [Next]_vars, NEW r \in Requests, Unbooked(r)
    PROVE  Unbooked(r)'
<1>1. r \in unrecorded' /\ request'[r].status = "CONFIRMED_BY_HCM"
  BY ConfirmedStays, LossStep DEF Unbooked
<1>2. CASE Rests
  BY <1>1, <1>2 DEF Rests, Unbooked
<1>3. ASSUME NEW q \in Requests, Lives(q) PROVE <<"confirmed", r>> \notin ledger'
  <2>1. CASE q = r
    BY <1>3, <2>1 DEF Unbooked, Lives, Reserves, Withdraws, Approves, Submits, Confirms,
       ConfirmsLost, Fails, Doubts, Turns
  <2>2. CASE q # r
    BY <1>3, <2>2, LivesBook DEF Unbooked
  <2>. QED
    BY <2>1, <2>2
<1>. QED
  BY <1>1, <1>2, <1>3, Lifecycle DEF Unbooked

\* Each move books what its new status says, but for a confirmation in place of a
\* lost acceptance.
LEMMA FateInductive ==
    ASSUME TypeOK, CallInv, Apart, ApartInv, [Next]_vars
    PROVE  LedgerTellsFate'
<1> SUFFICES ASSUME NEW q \in Requests, NEW kind \in EntryKinds,
                    ~(Unbooked(q)' /\ kind \in {"confirmed", "released"})
             PROVE  <<kind, q>> \in ledger' <=> kind \in Fate(request'[q].status)
  BY DEF LedgerTellsFate
<1>0. <<kind, q>> \in ledger <=> kind \in Fate(request[q].status)
  <2>1. ~(Unbooked(q) /\ kind \in {"confirmed", "released"})
    BY UnbookedStays
  <2>. QED
    BY <2>1 DEF ApartInv, LedgerTellsFate
<1>1. CASE request'[q].status = request[q].status /\ (<<kind, q>> \in ledger' <=> <<kind, q>> \in ledger)
  BY <1>0, <1>1
<1>2. ASSUME NEW entry, Books(entry, q), NEW from, NEW to, Turns(q, from, to),
             Fate(to) = Fate(from) \cup {entry}
      PROVE  <<kind, q>> \in ledger' <=> kind \in Fate(request'[q].status)
  BY <1>0, <1>2 DEF Books, Turns
<1>3. ASSUME NEW r \in Requests, r # q, Lives(r)
      PROVE  <<kind, q>> \in ledger' <=> kind \in Fate(request'[q].status)
  BY <1>1, <1>3, LivesBook
<1>4. ASSUME Lives(q), UNCHANGED unrecorded
      PROVE  <<kind, q>> \in ledger' <=> kind \in Fate(request'[q].status)
  <2>1. CASE Reserves(q)
    BY <1>2, <2>1 DEF Reserves, Fate
  <2>2. CASE Withdraws(q)
    <3>1. CASE Turns(q, "PENDING_MANAGER_APPROVAL", "REJECTED") /\ Books("rejected", q)
      BY <1>2, <3>1 DEF Fate
    <3>2. CASE Turns(q, "PENDING_MANAGER_APPROVAL", "CANCELLED") /\ Books("cancelled", q)
      BY <1>2, <3>2 DEF Fate
    <3>3. CASE Turns(q, "APPROVED", "CANCELLED") /\ Books("cancelled", q)
      BY <1>2, <3>3 DEF Fate
    <3>. QED
      BY <2>2, <3>1, <3>2, <3>3 DEF Withdraws
  <2>3. CASE Confirms(q)
    BY <1>2, <2>3 DEF Confirms, Fate
  <2>4. CASE Fails(q)
    BY <1>2, <2>4 DEF Fails, Fate
  <2>5. CASE Approves(q) \/ Submits(q) \/ Doubts(q)
    <3>1. ledger' = ledger /\ Fate(request'[q].status) = Fate(request[q].status)
      BY <2>5 DEF Approves, Submits, Doubts, Turns, Fate
    <3>. QED
      BY <1>0, <3>1
  <2>6. CASE ConfirmsLost(q)
    <3>1. /\ q \in unrecorded' /\ ledger' = ledger
          /\ request'[q].status = "CONFIRMED_BY_HCM" /\ request[q].status \in LostStatus
      BY <1>4, <2>6 DEF ConfirmsLost, Turns
    <3>2. CASE request[q].status = "CONFIRMED_BY_HCM"
      BY <1>1, <3>1, <3>2
    <3>3. CASE request[q].status # "CONFIRMED_BY_HCM"
      <4>1. Unbooked(q)'
        BY <3>1, <3>3, FateOf DEF ApartInv, Unbooked
      <4>2. kind \in {"reserved", "rejected", "cancelled"}
        BY <4>1 DEF EntryKinds, ReturnKinds
      <4>3. kind \in Fate(request'[q].status) <=> kind \in Fate(request[q].status)
        BY <3>1, <4>2 DEF Fate, LostStatus
      <4>. QED
        BY <1>0, <3>1, <4>3
    <3>. QED
      BY <3>2, <3>3
  <2>. QED
    BY <1>4, <2>1, <2>2, <2>3, <2>4, <2>5, <2>6 DEF Lives
<1>5. CASE Rests
  BY <1>1, <1>5 DEF Rests
<1>. QED
  BY <1>3, <1>4, <1>5, Lifecycle

-----------------------------------------------------------------------------
(* The theorems.                                                           *)

\* Handlers are apart in every state of such a behaviour, which is one of the
\* service's.
LEMMA ApartBehaviours == ApartSpec => Spec /\ []Apart
<1>1. Init => Apart
  BY ApartMeans DEF Init, CallInit, NoCall, JobInit, NoJob, AuditInit, NoAudit, Exclusive,
     CallerHolds, CallerIdle, WorkerHolds, AuditHolds
<1>2. Apart /\ [Next /\ Apart']_vars => Apart'
  <2>1. ASSUME Apart, UNCHANGED vars PROVE Apart'
    BY <2>1 DEF vars, Apart, Hands, CallerIdle
  <2>. QED
    BY <2>1
<1>3. [Next /\ Apart']_vars => [Next]_vars
  OBVIOUS
<1>. QED
  BY <1>1, <1>2, <1>3, PTL DEF ApartSpec, Spec

\* It holds of the empty database.
LEMMA ApartInitial == Init => ApartInv
<1> SUFFICES ASSUME Init PROVE ApartInv
  OBVIOUS
<1>1. HandlerInv
  BY DEF Init, CallInit, NoCall, JobInit, NoJob, AuditInit, NoAudit, HandlerInv
<1>2. AcceptedInv /\ LostInv /\ UncertainInv
  BY DEF Init, HcmInit, StoreInit, AcceptedInv, LostInv, UncertainInv
<1>3. LedgerTellsFate
  BY DEF Init, StoreInit, LedgerTellsFate, Fate
<1>4. ReservedInv
  <2>1. \A k \in Keys : OpenOf(k) = {}
    BY DEF Init, StoreInit, OpenOf, Reserving, Unbooked, OpenStatus
  <2>2. HeldDays({}) = {}
    BY DEF HeldDays
  <2>. QED
    BY <2>1, <2>2, FS_EmptySet DEF Init, StoreInit, ReservedInv
<1>. QED
  BY <1>1, <1>2, <1>3, <1>4 DEF ApartInv

\* Every step that leaves the handlers apart preserves all of it.
LEMMA ApartInductive ==
    TypeOK /\ CallInv /\ Apart /\ Apart' /\ ApartInv /\ [Next]_vars => ApartInv'
<1> SUFFICES ASSUME TypeOK, CallInv, Apart, Apart', ApartInv, [Next]_vars PROVE ApartInv'
  OBVIOUS
<1>1. ReservedInv'
  <2>1. \A r \in unrecorded' \ unrecorded : request[r].status = "SUBMITTED_TO_HCM"
    BY LostSubmitted DEF ApartInv
  <2>. QED
    BY <2>1, LossStep, Lifecycle, ReservedInductive DEF ApartInv
<1>. QED
  BY <1>1, HandlerInductive, AcceptedInductive, LostInductive, UncertainInductive,
     FateInductive DEF ApartInv

LEMMA ApartInvariant == ApartSpec => [](TypeOK /\ CallInv /\ Apart /\ ApartInv)
BY ApartBehaviours, ApartInitial, ApartInductive, CallInvariant, PTL DEF Spec

\* The reserved days are the days of the open requests, and of those confirmed in
\* place of a lost acceptance, as long as no two handlers work on one request
\* (ReservedMatchesOpen).
THEOREM ReservationsAreOpen == ApartSpec => []ReservedMatchesOpen
<1>1. ApartInv => ReservedMatchesOpen
  BY DEF ApartInv, ReservedInv, HeldDays, OpenOf, ReservedMatchesOpen
<1>. QED
  BY <1>1, ApartInvariant, PTL

\* Then the ledger tells of each request what its status does, but not what ended
\* one that was confirmed in place of a lost acceptance (LedgerTellsFate).
THEOREM LedgerIsFaithful == ApartSpec => []LedgerTellsFate
<1>1. ApartInv => LedgerTellsFate
  BY DEF ApartInv
<1>. QED
  BY <1>1, ApartInvariant, PTL

\* Then no request that was handed to HCM is withdrawn (SubmittedNotWithdrawn).
THEOREM HandedOverStays == ApartSpec => SubmittedNotWithdrawn
<1>1. TypeOK /\ CallInv /\ Apart /\ ApartInv /\ [Next]_vars =>
        [\A r \in Requests :
          request[r].status \in {"SUBMITTED_TO_HCM", "CONFLICT_REVIEW",
                                 "CONFIRMED_BY_HCM", "FAILED_HCM_VALIDATION"}
              => request'[r].status \notin {"REJECTED", "CANCELLED"}]_vars
  BY Lifecycle DEF Rests, Lives, Reserves, Withdraws, Approves, Submits, Confirms,
     ConfirmsLost, Fails, Doubts, Turns
<1>. QED
  BY <1>1, ApartInvariant, ApartBehaviours, PTL DEF Spec, SubmittedNotWithdrawn

\* And no event that was closed is opened again (ClosedStaysClosed): a run
\* schedules a retry only of a submitted request, whose event is open.
THEOREM ClosedEventsStay == ApartSpec => ClosedStaysClosed
<1>1. TypeOK /\ ApartInv /\ AwaitsHcmIsQueued /\ [Next]_vars =>
        [\A r \in Requests :
          event[r].status \in {"PROCESSED", "FAILED", "IGNORED_STALE"}
              => event'[r].status \notin {"PENDING", "UNCERTAIN"}]_vars
  <2> SUFFICES ASSUME TypeOK, ApartInv, AwaitsHcmIsQueued, [Next]_vars, NEW r \in Requests,
                      event[r].status \in {"PROCESSED", "FAILED", "IGNORED_STALE"}
               PROVE  event'[r].status \notin {"PENDING", "UNCERTAIN"}
    OBVIOUS
  <2>1. ~\E c \in Callers : ApproveSave(c) /\ call[c].request = r
    BY DEF ApproveSave, ApproveCommits
  <2>2. ~\E w \in Workers : ScheduleSubmissionRetry(w) /\ job[w].request = r
    BY DEF ScheduleSubmissionRetry, ApartInv, HandlerInv, AwaitsHcmIsQueued
  <2>. QED
    BY <2>1, <2>2, EventStep, UncertainStep
<1>. QED
  BY <1>1, ApartInvariant, ApartBehaviours, AwaitingIsQueued, PTL DEF Spec, ClosedStaysClosed

-----------------------------------------------------------------------------
(* What HCM has charged.                                                   *)

\* Unless an acceptance of it was lost, a request was charged once if it is
\* confirmed or about to be, and not at all otherwise.
OnceInv ==
    \A r \in Requests \ unrecorded :
        charges[r] = IF request[r].status = "CONFIRMED_BY_HCM" \/ Heard(r) THEN 1 ELSE 0

\* Only a submission that HCM accepts is charged.
LEMMA ChargesStep ==
    ASSUME TypeOK, [Next]_vars
    PROVE  \/ UNCHANGED charges
           \/ \E w \in Workers : WorkerActs(w) /\ SubmitAccepted(w)
<1>1. ASSUME NEW w \in Workers, WorkerActs(w)
      PROVE  UNCHANGED charges \/ SubmitAccepted(w)
  BY <1>1 DEF WorkerActs, StartProcessing, WorkStep, PrepareFirst, PrepareRetry,
     PrepareStale, SubmitFails, ThrowSubmission, SubmitRefused, RefuseSubmission,
     ConfirmSubmission, RejectSubmission, RecordingFails, ScheduleSubmissionRetry, hcmVars
<1>. QED
  BY <1>1, ActorStep, DeathIdles DEF CallerActs, AuditActs, NobodyActs, hcmVars

\* An acceptance charges a submitted request of which nothing was heard before.
LEMMA AcceptanceCharges ==
    ASSUME TypeOK, Apart, ApartInv, NEW w \in Workers, SubmitAccepted(w),
           NEW r, r = job[w].request
    PROVE  /\ r \in Requests
           /\ request[r].status = "SUBMITTED_TO_HCM"
           /\ ~Heard(r)
           /\ Heard(r)'
           /\ \A q \in Requests \ {r} : charges'[q] = charges[q]
           /\ charges[r] = 0 => charges'[r] = 1
           /\ UNCHANGED <<storeVars, unrecorded>>
<1>0. job \in [Workers -> JobRows] /\ charges \in [Requests -> 0..MaxCharges]
  BY DEF TypeOK, HcmTypeOK, JobTypeOK
<1>1. r \in Requests /\ request[r].status = "SUBMITTED_TO_HCM"
  BY DEF TypeOK, JobTypeOK, ApartInv, HandlerInv, SubmitAccepted
<1>2. ~Heard(r)
  BY HeardByHolder DEF SubmitAccepted
<1>3. Heard(r)'
  <2>1. job'[w].pc = "accepted" /\ job'[w].request = r
    BY <1>0 DEF SubmitAccepted, JobRows
  <2>. QED
    BY <2>1 DEF Heard
<1>4. charges' = [charges EXCEPT ![r] = IF @ < MaxCharges THEN @ + 1 ELSE @]
  BY DEF SubmitAccepted, AcceptSubmission
<1>5. UNCHANGED <<storeVars, unrecorded>>
  BY DEF SubmitAccepted, AcceptSubmission
<1>. QED
  BY <1>0, <1>1, <1>2, <1>3, <1>4, <1>5, MaxChargesAssumption

\* A request is confirmed or about to be after a step if it was before, if nothing is
\* lost of it and no acceptance of it arrives.
LEMMA KnownStep ==
    ASSUME TypeOK, CallInv, Apart, Apart', ApartInv, [Next]_vars,
           NEW r \in Requests, r \notin unrecorded',
           ~\E w \in Workers : SubmitAccepted(w) /\ job[w].request = r
    PROVE  (request'[r].status = "CONFIRMED_BY_HCM" \/ Heard(r)')
             <=> (request[r].status = "CONFIRMED_BY_HCM" \/ Heard(r))
<1>1. request[r].status = "CONFIRMED_BY_HCM" => request'[r].status = "CONFIRMED_BY_HCM"
  BY ConfirmedStays
<1>2. Heard(r) => request'[r].status = "CONFIRMED_BY_HCM" \/ Heard(r)'
  BY HeardStep
<1>3. Heard(r)' => Heard(r)
  <2> SUFFICES ASSUME NEW w \in Workers, job'[w].pc = "accepted", job'[w].request = r
               PROVE  Heard(r)
    BY DEF Heard
  <2>1. CASE job'[w] = job[w]
    BY <2>1 DEF Heard
  <2>2. CASE SubmitAccepted(w)
    <3>1. job'[w].request = job[w].request
      BY <2>2 DEF TypeOK, JobTypeOK, JobRows, SubmitAccepted
    <3>. QED
      BY <2>2, <3>1
  <2>. QED
    BY <2>1, <2>2, JobStep
<1>4. ASSUME request'[r].status = "CONFIRMED_BY_HCM", request[r].status # "CONFIRMED_BY_HCM"
      PROVE  Heard(r)
  <2>1. r \notin unrecorded
    BY LossStep
  <2>. QED
    BY <1>4, <2>1, Lifecycle DEF Rests, Lives, Reserves, Withdraws, Approves, Submits, Confirms,
       ConfirmsLost, Fails, Doubts, Turns
<1>. QED
  BY <1>1, <1>2, <1>3, <1>4

\* Every step preserves that HCM charges once.
LEMMA OnceInductive ==
    TypeOK /\ CallInv /\ Apart /\ Apart' /\ ApartInv /\ OnceInv /\ [Next]_vars => OnceInv'
<1> SUFFICES ASSUME TypeOK, CallInv, Apart, Apart', ApartInv, OnceInv, [Next]_vars,
                    NEW r \in Requests, r \notin unrecorded'
             PROVE  charges'[r] = IF request'[r].status = "CONFIRMED_BY_HCM" \/ Heard(r)'
                                  THEN 1 ELSE 0
  BY DEF OnceInv
<1>0. /\ r \notin unrecorded
      /\ charges[r] = IF request[r].status = "CONFIRMED_BY_HCM" \/ Heard(r) THEN 1 ELSE 0
  BY LossStep DEF OnceInv
<1>1. ASSUME NEW w \in Workers, SubmitAccepted(w), job[w].request = r
      PROVE  charges'[r] = 1 /\ Heard(r)'
  BY <1>0, <1>1, AcceptanceCharges
<1>2. ASSUME ~\E w \in Workers : SubmitAccepted(w) /\ job[w].request = r
      PROVE  charges'[r] = charges[r]
  BY <1>2, ChargesStep, AcceptanceCharges
<1>. QED
  BY <1>0, <1>1, <1>2, KnownStep

\* And nothing was charged before.
LEMMA OnceInitial == Init => OnceInv
BY DEF Init, HcmInit, StoreInit, JobInit, NoJob, OnceInv, Heard

LEMMA OnceInvariant == ApartSpec => []OnceInv
BY ApartBehaviours, ApartInvariant, OnceInitial, OnceInductive, PTL DEF ApartSpec, Spec

\* No submission is deducted twice as long as no two handlers work on one request and
\* no acceptance of it is lost (ChargedOnce).
THEOREM SubmissionsAreChargedOnce == ApartSpec => []ChargedOnce
<1>1. OnceInv => ChargedOnce
  BY DEF OnceInv, ChargedOnce
<1>. QED
  BY <1>1, OnceInvariant, PTL

\* Then HCM and the service agree on what was deducted for every request that no
\* handler has in its hands and of which no acceptance was lost
\* (ChargesMatchOutcomes).
THEOREM OutcomesMatchCharges == ApartSpec => []ChargesMatchOutcomes
<1>1. OnceInv => ChargesMatchOutcomes
  <2> SUFFICES ASSUME OnceInv, NEW r \in Requests \ unrecorded, Hands(r) = {}
               PROVE  charges[r] > 0 <=> request[r].status = "CONFIRMED_BY_HCM"
    BY DEF ChargesMatchOutcomes
  <2>1. ASSUME NEW w \in Workers, job[w].pc = "accepted", job[w].request = r PROVE FALSE
    <3>1. <<"run", w>> \in Hands(r)
      BY <2>1 DEF Hands
    <3>. QED
      BY <3>1
  <2>2. ~Heard(r)
    BY <2>1 DEF Heard
  <2>. QED
    BY <2>2 DEF OnceInv
<1>. QED
  BY <1>1, OnceInvariant, PTL

-----------------------------------------------------------------------------
(* The refinement of ReservationBook.                                      *)

\* The days of r were confirmed or released.
Ended(r) == <<"confirmed", r>> \in ledger \/ <<"released", r>> \in ledger

\* The stage of a request, read off its status, HCM's charge and the ledger.
LEMMA StageOf ==
    ASSUME NEW r
    PROVE  /\ r \in unrecorded => Stage(r) = IF Ended(r) THEN "closed" ELSE "lost"
           /\ r \notin unrecorded =>
                 /\ request[r].status = "ABSENT" => Stage(r) = "none"
                 /\ request[r].status \in {"PENDING_MANAGER_APPROVAL", "APPROVED"}
                       => Stage(r) = "held"
                 /\ request[r].status \in {"SUBMITTED_TO_HCM", "CONFLICT_REVIEW"}
                       => Stage(r) = IF charges[r] = 0 THEN "submitted" ELSE "taken"
                 /\ request[r].status = "CONFIRMED_BY_HCM" => Stage(r) = "settled"
                 /\ request[r].status \in {"REJECTED", "CANCELLED", "FAILED_HCM_VALIDATION"}
                       => Stage(r) = "returned"
<1>1. {<<"confirmed", r>>, <<"released", r>>} \cap ledger = {} <=> ~Ended(r)
  BY DEF Ended
<1>2. CASE r \notin unrecorded
  BY <1>2 DEF Stage
<1>3. CASE r \in unrecorded
  BY <1>1, <1>3 DEF Stage
<1>. QED
  BY <1>2, <1>3

\* And after a step.
LEMMA StageNext ==
    ASSUME NEW r
    PROVE  /\ r \in unrecorded' => Stage(r)' = IF Ended(r)' THEN "closed" ELSE "lost"
           /\ r \notin unrecorded' =>
                 /\ request'[r].status = "ABSENT" => Stage(r)' = "none"
                 /\ request'[r].status \in {"PENDING_MANAGER_APPROVAL", "APPROVED"}
                       => Stage(r)' = "held"
                 /\ request'[r].status \in {"SUBMITTED_TO_HCM", "CONFLICT_REVIEW"}
                       => Stage(r)' = IF charges'[r] = 0 THEN "submitted" ELSE "taken"
                 /\ request'[r].status = "CONFIRMED_BY_HCM" => Stage(r)' = "settled"
                 /\ request'[r].status \in {"REJECTED", "CANCELLED", "FAILED_HCM_VALIDATION"}
                       => Stage(r)' = "returned"
<1>1. ({<<"confirmed", r>>, <<"released", r>>} \cap ledger)' = {} <=> ~Ended(r)'
  BY DEF Ended
<1>2. CASE r \notin unrecorded'
  BY <1>2 DEF Stage
<1>3. CASE r \in unrecorded'
  BY <1>1, <1>3 DEF Stage
<1>. QED
  BY <1>2, <1>3

\* A request that keeps its status, its charge and its entries keeps its stage, if
\* nothing is lost.
LEMMA StageKept ==
    ASSUME NEW r, request'[r].status = request[r].status, charges'[r] = charges[r],
           \A kind : <<kind, r>> \in ledger' <=> <<kind, r>> \in ledger,
           r \in unrecorded' <=> r \in unrecorded
    PROVE  Stage(r)' = Stage(r)
<1>1. ({<<"confirmed", r>>, <<"released", r>>} \cap ledger)'
        = {<<"confirmed", r>>, <<"released", r>>} \cap ledger
  OBVIOUS
<1>. QED
  BY <1>1 DEF Stage

\* Whatever the state is, a stage is one of the book's.
LEMMA StageTypingNext == \A r : Stage(r)' \in Book!Stages
BY DEF Stage, Book!Stages

\* A move of one request, as the book sees it.
LEMMA BookTurn ==
    ASSUME NEW r \in Requests, Lives(r), UNCHANGED <<charges, unrecorded>>,
           NEW from, NEW to, Stage(r) = from, Stage(r)' = to
    PROVE  Book!Moves(r, from, to)
<1>1. \A q \in Requests \ {r} : Stage(q)' = Stage(q)
  BY StageKept, LivesBook
<1>. QED
  BY <1>1 DEF Book!Moves

\* A move that is none to the book.
LEMMA BookRests ==
    ASSUME TypeOK, NEW r \in Requests, Lives(r), UNCHANGED <<charges, unrecorded>>,
           Stage(r)' = Stage(r), Shifts(r, 0)
    PROVE  UNCHANGED Book!bookVars
<1>1. \A q \in Requests : Stage(q)' = Stage(q)
  BY StageKept, LivesBook
<1>2. \A k \in Keys : projection'[k].reservedDays = projection[k].reservedDays
  <2>1. \A k \in Keys : projection[k].reservedDays \in Nat
    BY DEF TypeOK, StoreTypeOK, ProjectionRows
  <2>. QED
    BY <2>1 DEF Shifts
<1>. QED
  BY <1>1, <1>2 DEF Book!bookVars

\* And its days.
LEMMA BookDays ==
    ASSUME TypeOK, NEW r \in Requests
    PROVE  /\ Shifts(r, DaysOf[r]) => Book!SetAside(r)
           /\ Shifts(r, -DaysOf[r]) => Book!GiveBack(r)
           /\ Shifts(r, 0) => UNCHANGED [k \in Keys |-> projection[k].reservedDays]
<1>1. /\ DaysOf[r] \in Nat /\ KeyOf[r] \in Keys
      /\ \A k \in Keys : projection[k].reservedDays \in Nat
  BY DaysOfAssumption, KeyOfAssumption DEF TypeOK, StoreTypeOK, ProjectionRows
<1>2. Shifts(r, DaysOf[r]) => Book!SetAside(r)
  BY <1>1 DEF Shifts, Book!SetAside
<1>3. Shifts(r, -DaysOf[r]) => Book!GiveBack(r)
  BY <1>1 DEF Shifts, Book!GiveBack
<1>4. Shifts(r, 0) => UNCHANGED [k \in Keys |-> projection[k].reservedDays]
  BY <1>1 DEF Shifts
<1>. QED
  BY <1>2, <1>3, <1>4

\* The stage of a submitted request is what HCM did to it.
LEMMA SubmittedStage ==
    ASSUME ApartInv, OnceInv, NEW r \in Requests, request[r].status = "SUBMITTED_TO_HCM"
    PROVE  Stage(r) = IF r \in unrecorded THEN "lost" ELSE IF Heard(r) THEN "taken" ELSE "submitted"
<1>1. CASE r \in unrecorded
  <2>1. ~Ended(r)
    BY FateOf DEF ApartInv, Ended, OpenStatus
  <2>. QED
    BY <1>1, <2>1, StageOf DEF LostStatus
<1>2. CASE r \notin unrecorded
  BY <1>2, StageOf DEF OnceInv
<1>. QED
  BY <1>1, <1>2

\* HCM takes the days of a submitted request, or takes them again of one of which an
\* acceptance was lost.
LEMMA TakeRefines ==
    ASSUME TypeOK, Apart, ApartInv, OnceInv, NEW w \in Workers, SubmitAccepted(w)
    PROVE  Book!BookNext \/ UNCHANGED Book!bookVars
<1>0. PICK r : r = job[w].request
  OBVIOUS
<1>1. /\ r \in Requests /\ request[r].status = "SUBMITTED_TO_HCM" /\ ~Heard(r)
      /\ UNCHANGED <<projection, request, ledger, unrecorded>>
      /\ \A q \in Requests \ {r} : charges'[q] = charges[q]
  BY <1>0, AcceptanceCharges DEF storeVars
<1>2. \A q \in Requests \ {r} : Stage(q)' = Stage(q)
  BY <1>1, StageKept
<1>3. CASE r \in unrecorded
  <2>1. Stage(r)' = Stage(r)
    BY <1>1, <1>3, StageOf, StageNext DEF LostStatus, Ended
  <2>2. \A q \in Requests : Stage(q)' = Stage(q)
    BY <1>2, <2>1
  <2>. QED
    BY <1>1, <2>2 DEF Book!bookVars
<1>4. CASE r \notin unrecorded
  <2>1. charges[r] = 0 /\ charges'[r] = 1
    BY <1>0, <1>1, <1>4, AcceptanceCharges DEF OnceInv
  <2>2. Stage(r) = "submitted" /\ Stage(r)' = "taken"
    BY <1>1, <1>4, <2>1, StageOf, StageNext
  <2>3. Book!Moves(r, "submitted", "taken")
    BY <1>1, <1>2, <2>2 DEF Book!Moves
  <2>4. Book!Take(r)
    BY <1>1, <2>3 DEF Book!Take
  <2>. QED
    BY <1>1, <2>4 DEF Book!BookNext
<1>. QED
  BY <1>3, <1>4

\* When nothing moves, some answers may have been lost.
LEMMA LossRefines ==
    ASSUME TypeOK, ApartInv, OnceInv, [Next]_vars, Rests, UNCHANGED charges
    PROVE  Book!BookNext
<1>1. ASSUME NEW r \in Requests
      PROVE  Stage(r)' = Stage(r) \/ (Stage(r) = "taken" /\ Stage(r)' = "lost")
  <2>1. CASE r \in unrecorded' <=> r \in unrecorded
    BY <2>1, StageKept DEF Rests
  <2>2. CASE r \in unrecorded' /\ r \notin unrecorded
    <3>1. request[r].status = "SUBMITTED_TO_HCM" /\ Heard(r)
      BY <2>2, LostSubmitted, LossStep DEF ApartInv
    <3>2. ~Ended(r)
      BY <3>1, FateOf DEF ApartInv, Ended, OpenStatus
    <3>3. request'[r].status = "SUBMITTED_TO_HCM" /\ ~Ended(r)'
      BY <3>1, <3>2 DEF Rests, Ended
    <3>. QED
      BY <2>2, <3>1, <3>3, SubmittedStage, StageNext DEF LostStatus
  <2>. QED
    BY <2>1, <2>2, LossStep
<1>2. [r \in Requests |-> Stage(r)]' \in [Requests -> Book!Stages]
  BY StageTypingNext
<1>3. UNCHANGED [k \in Keys |-> projection[k].reservedDays]
  BY DEF Rests
<1>4. Book!Lose
  BY <1>1, <1>2, <1>3 DEF Book!Lose
<1>. QED
  BY <1>4 DEF Book!BookNext

\* The move of a request is a step of the book.
LEMMA MoveRefines ==
    ASSUME TypeOK, ApartInv, OnceInv, NEW r \in Requests, Lives(r),
           UNCHANGED <<charges, unrecorded>>
    PROVE  Book!BookNext \/ UNCHANGED Book!bookVars
<1>1. CASE Reserves(r)
  <2>1. Stage(r) = "none" /\ Stage(r)' = "held"
    BY <1>1, StageOf, StageNext DEF ApartInv, LostInv, LostStatus, Reserves, Turns
  <2>. QED
    BY <1>1, <2>1, BookTurn, BookDays DEF Reserves, Book!Reserve, Book!BookNext
<1>2. CASE Withdraws(r)
  <2>1. Stage(r) = "held" /\ Stage(r)' = "returned"
    BY <1>2, StageOf, StageNext DEF ApartInv, LostInv, LostStatus, Withdraws, Turns
  <2>. QED
    BY <1>2, <2>1, BookTurn, BookDays DEF Withdraws, Book!Withdraw, Book!BookNext
<1>3. CASE Approves(r)
  <2>1. Stage(r)' = Stage(r)
    BY <1>3, StageOf, StageNext DEF ApartInv, LostInv, LostStatus, Approves, Turns
  <2>. QED
    BY <1>3, <2>1, BookRests DEF Approves
<1>4. CASE Submits(r)
  <2>1. r \notin unrecorded /\ ~Heard(r) /\ request[r].status = "APPROVED"
    BY <1>4 DEF Submits, Turns, ApartInv, LostInv, LostStatus, HandlerInv, Heard
  <2>2. charges[r] = 0
    BY <2>1 DEF OnceInv
  <2>3. Stage(r) = "held" /\ Stage(r)' = "submitted"
    BY <1>4, <2>1, <2>2, StageOf, StageNext DEF Submits, Turns
  <2>. QED
    BY <1>4, <2>3, BookTurn, BookDays DEF Submits, Book!Submit, Book!BookNext
<1>5. CASE Confirms(r)
  <2>1. CASE r \in unrecorded
    <3>1. Stage(r) = "lost" /\ Stage(r)' = "closed"
      BY <1>5, <2>1, SubmittedStage, StageNext DEF Confirms, Turns, Books, Ended, LostStatus
    <3>. QED
      BY <1>5, <3>1, BookTurn, BookDays DEF Confirms, Book!Recover, Book!BookNext
  <2>2. CASE r \notin unrecorded
    <3>1. Stage(r) = "taken" /\ Stage(r)' = "settled"
      BY <1>5, <2>2, SubmittedStage, StageNext DEF Confirms, Turns
    <3>. QED
      BY <1>5, <3>1, BookTurn, BookDays DEF Confirms, Book!SettleDays, Book!BookNext
  <2>. QED
    BY <2>1, <2>2
<1>6. CASE Fails(r)
  <2>1. CASE r \in unrecorded
    <3>1. Stage(r) = "lost" /\ Stage(r)' = "closed"
      BY <1>6, <2>1, SubmittedStage, StageNext DEF Fails, Turns, Books, Ended, LostStatus
    <3>. QED
      BY <1>6, <3>1, BookTurn, BookDays DEF Fails, Book!Recover, Book!BookNext
  <2>2. CASE r \notin unrecorded
    <3>1. Stage(r) = "submitted" /\ Stage(r)' = "returned"
      BY <1>6, <2>2, SubmittedStage, StageNext DEF Fails, Turns
    <3>. QED
      BY <1>6, <3>1, BookTurn, BookDays DEF Fails, Book!Refuse, Book!BookNext
  <2>. QED
    BY <2>1, <2>2
<1>7. CASE Doubts(r)
  <2>1. Stage(r)' = Stage(r)
    BY <1>7, StageOf, StageNext DEF Doubts, Turns, Ended, LostStatus
  <2>. QED
    BY <1>7, <2>1, BookRests DEF Doubts
<1>8. CASE ConfirmsLost(r)
  <2>1. Stage(r)' = Stage(r)
    BY <1>8, StageOf, StageNext DEF ConfirmsLost, Turns, Ended, LostStatus
  <2>. QED
    BY <1>8, <2>1, BookRests DEF ConfirmsLost
<1>. QED
  BY <1>1, <1>2, <1>3, <1>4, <1>5, <1>6, <1>7, <1>8 DEF Lives

\* Every step of the service is a step of the book, or none.
LEMMA BookStepRefines ==
    TypeOK /\ CallInv /\ Apart /\ ApartInv /\ OnceInv /\ [Next]_vars
        => [Book!BookNext]_(Book!bookVars)
<1> SUFFICES ASSUME TypeOK, CallInv, Apart, ApartInv, OnceInv, [Next]_vars
             PROVE  Book!BookNext \/ UNCHANGED Book!bookVars
  BY Zenon
<1>1. ASSUME NEW w \in Workers, SubmitAccepted(w)
      PROVE  Book!BookNext \/ UNCHANGED Book!bookVars
  BY <1>1, TakeRefines
<1>2. CASE UNCHANGED charges /\ Rests
  BY <1>2, LossRefines
<1>3. ASSUME NEW r \in Requests, Lives(r), UNCHANGED <<accepted, charges, unrecorded>>
      PROVE  Book!BookNext \/ UNCHANGED Book!bookVars
  BY <1>3, MoveRefines
<1>. QED
  BY <1>1, <1>2, <1>3, Lifecycle, ChargesStep

\* The empty database is an empty book.
LEMMA BookInitRefines == Init => Book!BookInit
<1> SUFFICES ASSUME Init PROVE Book!BookInit
  OBVIOUS
<1>1. \A r \in Requests : Stage(r) = "none"
  BY StageOf DEF Init, StoreInit, HcmInit
<1>2. \A k \in Keys : projection[k].reservedDays = 0
  BY DEF Init, StoreInit
<1>. QED
  BY <1>1, <1>2 DEF Book!BookInit

\* A service no two of whose handlers work on one request keeps the reservation
\* book, whatever fails or dies (KeepsTheBook).
THEOREM BookIsKept == ApartSpec => KeepsTheBook
BY BookInitRefines, BookStepRefines, ApartInvariant, ApartBehaviours, OnceInvariant, PTL
DEF ApartSpec, Spec, KeepsTheBook, Book!BookSpec

-----------------------------------------------------------------------------
(* Handlers that do not overlap.                                           *)

CallersIdle == \A c \in Callers : CallerIdle(c)
WorkersIdle == \A w \in Workers : WorkerIdle(w)
AuditsIdle  == \A x \in Reconcilers : AuditIdle(x)
NoAnswers   == reading = {} /\ delivery = {}

OnlyCaller(c) ==
    (\A d \in Callers \ {c} : CallerIdle(d)) /\ WorkersIdle /\ AuditsIdle /\ NoAnswers

OnlyWorker(w) ==
    CallersIdle /\ (\A v \in Workers \ {w} : WorkerIdle(v)) /\ AuditsIdle /\ NoAnswers

OnlyAudit(x) ==
    CallersIdle /\ WorkersIdle /\ (\A y \in Reconcilers \ {x} : AuditIdle(y)) /\ NoAnswers

\* As handlers do not overlap, at most one of them is in the middle of something.
Alone ==
    /\ ~Overlap
    /\ \A c \in Callers : CallerIdle(c) \/ OnlyCaller(c)
    /\ \A w \in Workers : WorkerIdle(w) \/ OnlyWorker(w)
    /\ \A x \in Reconcilers : AuditIdle(x) \/ OnlyAudit(x)
    /\ \A s \in reading :
          reading = {s} /\ delivery = {} /\ CallersIdle /\ WorkersIdle /\ AuditsIdle
    /\ \A d \in delivery :
          delivery = {d} /\ reading = {} /\ CallersIdle /\ WorkersIdle /\ AuditsIdle

LEMMA AloneInitial == Init /\ ~Overlap => Alone
BY DEF Init, CallInit, NoCall, ReadingInit, JobInit, NoJob, AuditInit, NoAudit, BatchInit, Alone, CallerIdle,
   WorkerIdle, AuditIdle

\* Handlers that are alone are apart.
LEMMA AloneIsApart == Alone => Apart
BY ApartMeans
DEF Alone, OnlyCaller, OnlyWorker, OnlyAudit, CallersIdle, WorkersIdle, AuditsIdle, Exclusive,
    CallerHolds, WorkerHolds, AuditHolds, CallerIdle, WorkerIdle, AuditIdle

\* When handlers do not overlap, the one that acts is alone.
LEMMA ActsAlone ==
    ASSUME Alone
    PROVE  /\ \A c \in Callers : CallerActs(c) => OnlyCaller(c)
           /\ \A w \in Workers : WorkerActs(w) => OnlyWorker(w)
           /\ \A x \in Reconcilers : AuditActs(x) => OnlyAudit(x)
<1>1. Admitted => CallersIdle /\ WorkersIdle /\ AuditsIdle /\ NoAnswers
  BY DEF Alone, Admitted, AllIdle, CallersIdle, WorkersIdle, AuditsIdle, NoAnswers
<1>2. ASSUME NEW c \in Callers, CallerActs(c) PROVE OnlyCaller(c)
  <2>1. FinishCommand(c) => ~CallerIdle(c)
    BY DEF FinishCommand, CallerIdle, CreateReserve, CreateConflict, ApproveSave,
       ApproveConflict, RejectSave, RejectConflict, CancelSave, CancelConflict, Running
  <2>. QED
    BY <1>1, <1>2, <2>1 DEF CallerActs, Alone, OnlyCaller, CallersIdle
<1>3. ASSUME NEW w \in Workers, WorkerActs(w) PROVE OnlyWorker(w)
  <2>1. WorkStep(w) => ~WorkerIdle(w)
    BY DEF WorkStep, WorkerIdle, PrepareFirst, PrepareRetry, PrepareStale, Takes,
       SubmitFails, SubmitRefused, SubmitAccepted, ConfirmSubmission, RejectSubmission,
       RecordingFails, ScheduleSubmissionRetry
  <2>. QED
    BY <1>1, <1>3, <2>1 DEF WorkerActs, Alone, OnlyWorker, WorkersIdle
<1>4. ASSUME NEW x \in Reconcilers, AuditActs(x) PROVE OnlyAudit(x)
  <2>1. AuditStep(x) => ~AuditIdle(x)
    BY DEF AuditStep, AuditIdle, At, ReconcileUpsert, ReconcileList, ReconcileTake,
       ReconcileConfirm, ReconcileLook, ReconcileReview
  <2>. QED
    BY <1>1, <1>4, <2>1 DEF AuditActs, Alone, OnlyAudit, AuditsIdle
<1>. QED
  BY <1>2, <1>3, <1>4

\* Then every step leaves at most one handler running.
LEMMA AloneInductive == TypeOK /\ Alone /\ [Next]_vars => Alone'
<1> SUFFICES ASSUME TypeOK, Alone, [Next]_vars PROVE Alone'
  OBVIOUS
<1>1. ASSUME NEW c \in Callers, CallerActs(c), OnlyCaller(c) PROVE Alone'
  BY <1>1 DEF CallerActs, Alone, OnlyCaller, OnlyWorker, OnlyAudit, CallersIdle, WorkersIdle,
     AuditsIdle, NoAnswers, CallerIdle, WorkerIdle, AuditIdle
<1>2. ASSUME NEW w \in Workers, WorkerActs(w), OnlyWorker(w) PROVE Alone'
  BY <1>2 DEF WorkerActs, Alone, OnlyCaller, OnlyWorker, OnlyAudit, CallersIdle, WorkersIdle,
     AuditsIdle, NoAnswers, CallerIdle, WorkerIdle, AuditIdle
<1>3. ASSUME NEW x \in Reconcilers, AuditActs(x), OnlyAudit(x) PROVE Alone'
  BY <1>3 DEF AuditActs, Alone, OnlyCaller, OnlyWorker, OnlyAudit, CallersIdle, WorkersIdle,
     AuditsIdle, NoAnswers, CallerIdle, WorkerIdle, AuditIdle
<1>4. CASE NobodyActs
  <2>1. Admitted => CallersIdle /\ WorkersIdle /\ AuditsIdle /\ NoAnswers
    BY DEF Alone, Admitted, AllIdle, CallersIdle, WorkersIdle, AuditsIdle, NoAnswers
  <2>2. /\ CallersIdle' = CallersIdle /\ WorkersIdle' = WorkersIdle /\ AuditsIdle' = AuditsIdle
        /\ \A c \in Callers : CallerIdle(c)' = CallerIdle(c)
        /\ \A w \in Workers : WorkerIdle(w)' = WorkerIdle(w)
        /\ \A x \in Reconcilers : AuditIdle(x)' = AuditIdle(x)
    BY <1>4 DEF NobodyActs, CallersIdle, WorkersIdle, AuditsIdle, CallerIdle, WorkerIdle,
       AuditIdle
  <2>3. CASE reading' \subseteq reading /\ delivery' \subseteq delivery
    BY <2>2, <2>3 DEF Alone, OnlyCaller, OnlyWorker, OnlyAudit, NoAnswers
  <2>4. ASSUME Admitted, UNCHANGED delivery, NEW s, reading' = reading \cup {s} PROVE Alone'
    BY <2>1, <2>2, <2>4 DEF Alone, CallersIdle, WorkersIdle, AuditsIdle, NoAnswers
  <2>5. ASSUME Admitted, UNCHANGED reading, NEW d, delivery' = delivery \cup {d} PROVE Alone'
    BY <2>1, <2>2, <2>5 DEF Alone, CallersIdle, WorkersIdle, AuditsIdle, NoAnswers
  <2>. QED
    BY <1>4, <2>3, <2>4, <2>5 DEF NobodyActs
<1>5. CASE Restart \/ HandlerDies
  <2>1. /\ reading' \subseteq reading /\ delivery' \subseteq delivery
        /\ \A c \in Callers : CallerIdle(c) => CallerIdle(c)'
        /\ \A w \in Workers : WorkerIdle(w) => WorkerIdle(w)'
        /\ \A x \in Reconcilers : AuditIdle(x) => AuditIdle(x)'
    BY <1>5, DeathIdles DEF CallerIdle, NoCall, WorkerIdle, NoJob, AuditIdle, NoAudit
  <2>2. /\ CallersIdle => CallersIdle'
        /\ WorkersIdle => WorkersIdle'
        /\ AuditsIdle => AuditsIdle'
        /\ NoAnswers => NoAnswers'
    BY <2>1 DEF CallersIdle, WorkersIdle, AuditsIdle, NoAnswers
  <2>3. /\ \A c \in Callers : OnlyCaller(c) => OnlyCaller(c)'
        /\ \A w \in Workers : OnlyWorker(w) => OnlyWorker(w)'
        /\ \A x \in Reconcilers : OnlyAudit(x) => OnlyAudit(x)'
    BY <2>1, <2>2 DEF OnlyCaller, OnlyWorker, OnlyAudit
  <2>. QED
    BY <2>1, <2>2, <2>3 DEF Alone
<1>. QED
  BY <1>1, <1>2, <1>3, <1>4, <1>5, ActorStep, ActsAlone

\* A service whose handlers do not overlap keeps them apart: what is proved of
\* ApartSpec is true of it.
THEOREM SerialIsApart == Spec /\ ~Overlap => ApartSpec
<1>1. Alone' => Apart'
  BY AloneIsApart, PTL
<1>2. TypeOK /\ Alone /\ [Next]_vars => [Next /\ Apart']_vars
  BY <1>1, AloneInductive
<1>. QED
  BY <1>2, AloneInitial, AloneInductive, Typing, PTL DEF Spec, ApartSpec

=============================================================================
