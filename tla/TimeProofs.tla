----------------------------- MODULE TimeProofs ------------------------------
(***************************************************************************)
(* SnapshotTimes refines TimeOffService, so what is proved of the service  *)
(* holds with times too; every balance the service stores is one that HCM  *)
(* had at its time (BalanceOfItsTime); and if an answer of HCM is stored   *)
(* before another balance of its pair is, snapshot times only grow         *)
(* (SnapshotTimesGrow), and a balance gets older only where a batch undoes *)
(* a confirmation (OnlyConfirmationsAreUndone).                            *)
(*                                                                         *)
(* The argument for the second: whoever holds an answer of HCM holds the   *)
(* balance of the tick it was heard at, and the past does not change.  For *)
(* the others: an answer that is about to be stored is the only one of its *)
(* pair, and was heard after everything that its projection has stored     *)
(* (GrowInv); a batch is compared with the times that were stored.         *)
(***************************************************************************)
EXTENDS SnapshotTimes, ApartProofs

\* Every step with times is a step of the service, or a stutter of it.
LEMMA TimedStep == [TimedNext]_timedVars => [Next]_vars
<1> SUFFICES ASSUME [TimedNext]_timedVars PROVE [Next]_vars
  OBVIOUS
<1>1. CASE TimedRefresh
  BY <1>1 DEF TimedRefresh, Refresh, Next
<1>2. CASE TimedSubmission
  <2>1. Submission
    BY <1>2 DEF TimedSubmission, OtherWorkStep, WorkStep, Submission
  <2>. QED
    BY <2>1 DEF Next
<1>3. CASE TimedReconcile
  <2>1. Reconcile
    BY <1>3 DEF TimedReconcile, Reconcile, AuditStep
  <2>. QED
    BY <2>1 DEF Next
<1>4. CASE TimedBatch
  BY <1>4 DEF TimedBatch, TimedIngest, Batch, Next
<1>5. CASE Command \/ Hcm \/ TimedDeath
  BY <1>5 DEF TimedDeath, Next
<1>6. CASE \E b \in Batches : Export(b)
  BY <1>6 DEF Export
<1>7. CASE UNCHANGED timedVars
  BY <1>7 DEF timedVars
<1>. QED
  BY <1>1, <1>2, <1>3, <1>4, <1>5, <1>6, <1>7 DEF TimedNext

\* The service with times implements the service without.
THEOREM TimesRefine == TimedSpec => Spec
<1>1. TimedInit => Init
  BY DEF TimedInit
<1>. QED
  BY <1>1, TimedStep, PTL DEF TimedSpec, Spec

-----------------------------------------------------------------------------
(* Projections are never deleted.                                          *)

\* A create in flight has seen the projection it draws on, and a request in the
\* table has one.
PresentInv ==
    /\ \A c \in Callers : call[c].op = "create"
                             => projection[KeyOf[call[c].request]].syncStatus # "ABSENT"
    /\ \A r \in Requests : request[r].status # "ABSENT"
                             => projection[KeyOf[r]].syncStatus # "ABSENT"

\* What a step may do to the balance a projection shows: nothing, unless it is
\* one of the four that take over a balance or the one that marks a conflict.
BalanceKept(k) ==
    /\ projection'[k].availableDays = projection[k].availableDays
    /\ projection'[k].syncStatus = projection[k].syncStatus

\* Returning a reservation touches the balance only as its argument says.
LEMMA ReleaseBalance ==
    ASSUME TypeOK, NEW kind, NEW r \in Requests, NEW d \in Nat,
           ReleaseReservation(kind, r, d), NEW k \in Keys
    PROVE  /\ projection'[k].syncStatus = projection[k].syncStatus
           /\ projection'[k].availableDays =
                 IF k = KeyOf[r] THEN d ELSE projection[k].availableDays
<1>1. /\ KeyOf[r] \in Keys /\ projection \in [Keys -> ProjectionRows]
      /\ projection' = [projection EXCEPT ![KeyOf[r]].availableDays = d,
                                          ![KeyOf[r]].reservedDays = @ - DaysOf[r],
                                          ![KeyOf[r]].version = @ + 1]
  BY KeyOfAssumption DEF TypeOK, StoreTypeOK, ReleaseReservation
<1>. QED
  BY <1>1 DEF ProjectionRows

\* A command moves reservations and leaves balances alone.
LEMMA CommandBalance ==
    ASSUME TypeOK, NEW c \in Callers, BeginCommand(c) \/ FinishCommand(c), NEW k \in Keys
    PROVE  BalanceKept(k)
<1>0. projection \in [Keys -> ProjectionRows] /\ KeyOf \in [Requests -> Keys]
  BY KeyOfAssumption DEF TypeOK, StoreTypeOK
<1>1. CASE UNCHANGED projection
  BY <1>1 DEF BalanceKept
<1>2. CASE CreateReserve(c)
  <2>1. call[c].request \in Requests
    BY <1>2, ReserveEffect
  <2>2. projection' = [projection EXCEPT
            ![KeyOf[call[c].request]].reservedDays = @ + DaysOf[call[c].request],
            ![KeyOf[call[c].request]].version = @ + 1]
    BY <1>2 DEF CreateReserve
  <2>. QED
    BY <1>0, <2>1, <2>2 DEF BalanceKept, ProjectionRows
<1>3. CASE RejectSave(c) \/ CancelSave(c)
  <2>1. call[c].request \in Requests
    BY <1>3 DEF TypeOK, CallTypeOK, RejectSave, CancelSave, Running
  <2>2. projection[KeyOf[call[c].request]].availableDays \in Nat
    BY <1>0, <2>1 DEF ProjectionRows
  <2>. QED
    BY <1>3, <2>1, <2>2, ReleaseBalance DEF RejectSave, CancelSave, BalanceKept
<1>. QED
  BY <1>1, <1>2, <1>3 DEF BeginCommand, FinishCommand, CreateRead, ApproveLoad, RejectLoad,
     CancelLoad, CreateConflict, ApproveSave, ApproveConflict, RejectConflict,
     CancelConflict, storeVars

\* A step of a run leaves balances alone unless it records an acceptance.
LEMMA WorkBalance ==
    ASSUME TypeOK, NEW w \in Workers, WorkStep(w) \/ StartProcessing(w), ~ConfirmSubmission(w),
           NEW k \in Keys
    PROVE  BalanceKept(k)
<1>1. CASE UNCHANGED projection
  BY <1>1 DEF BalanceKept
<1>2. CASE RejectSubmission(w)
  <2>1. job[w].request \in Requests /\ projection[KeyOf[job[w].request]].availableDays \in Nat
    BY <1>2, KeyOfAssumption
    DEF TypeOK, StoreTypeOK, ProjectionRows, JobTypeOK, RejectSubmission
  <2>. QED
    BY <1>2, <2>1, ReleaseBalance DEF RejectSubmission, BalanceKept
<1>. QED
  BY <1>1, <1>2 DEF WorkStep, StartProcessing, PrepareFirst, PrepareRetry, PrepareStale,
     SubmitFails, SubmitRefused, SubmitAccepted, RecordingFails, ScheduleSubmissionRetry,
     storeVars

\* Taking over a snapshot stores its balance in one row.
LEMMA UpsertBalanceEffect ==
    ASSUME TypeOK, NEW q \in Keys, NEW days \in Nat, UpsertFromHcmSnapshot(q, days),
           NEW k \in Keys
    PROVE  \/ k # q /\ BalanceKept(k)
           \/ /\ k = q
              /\ projection'[k].availableDays = days
              /\ projection'[k].syncStatus = "IN_SYNC"
BY DEF TypeOK, StoreTypeOK, ProjectionRows, UpsertFromHcmSnapshot, BalanceKept

\* So does a batch, for each of its rows.
LEMMA IngestBalanceEffect ==
    ASSUME TypeOK, NEW d, NEW rows, IngestBatch(d, rows), NEW k \in Keys
    PROVE  \/ k \notin DOMAIN rows /\ BalanceKept(k)
           \/ /\ k \in DOMAIN rows
              /\ projection'[k].availableDays = rows[k]
              /\ projection'[k].syncStatus = "IN_SYNC"
<1>1. projection[k] \in ProjectionRows
  BY DEF TypeOK, StoreTypeOK
<1>2. projection'[k] = IF k \in DOMAIN rows
                       THEN [projection[k] EXCEPT !.availableDays = rows[k],
                                                  !.syncStatus = "IN_SYNC", !.version = @ + 1]
                       ELSE projection[k]
  BY DEF IngestBatch
<1>. QED
  BY <1>1, <1>2 DEF ProjectionRows, BalanceKept

\* A review keeps the balance and marks the projection.
LEMMA ReviewBalanceEffect ==
    ASSUME TypeOK, NEW x \in Reconcilers, ReconcileReview(x), NEW k \in Keys
    PROVE  /\ projection'[k].availableDays = projection[k].availableDays
           /\ \/ projection'[k].syncStatus = projection[k].syncStatus
              \/ k = KeyOf[audit[x].request] /\ projection'[k].syncStatus = "CONFLICT"
BY KeyOfAssumption
DEF TypeOK, StoreTypeOK, ProjectionRows, AuditTypeOK, ReconcileReview, At

\* The other steps of a reconciliation leave balances alone.
LEMMA AuditBalance ==
    ASSUME TypeOK, NEW x \in Reconcilers, AuditStep(x) \/ (\E q \in Keys : ReconcileRead(x, q)),
           ~ReconcileUpsert(x), ~ReconcileReview(x), NEW k \in Keys
    PROVE  BalanceKept(k)
BY DEF AuditStep, ReconcileRead, ReconcileList, ReconcileTake, ReconcileConfirm,
   ReconcileLook, storeVars, BalanceKept

\* A projection that is there stays there.
LEMMA ProjectionPersists ==
    ASSUME TypeOK, [Next]_vars, NEW k \in Keys, projection[k].syncStatus # "ABSENT"
    PROVE  projection'[k].syncStatus # "ABSENT"
<1> DEFINE Goal == projection'[k].syncStatus # "ABSENT"
<1>1. CASE BalanceKept(k)
  BY <1>1 DEF BalanceKept
<1>2. CASE Command
  BY <1>1, <1>2, CommandBalance DEF Command
<1>3. CASE Refresh
  <2>1. ASSUME NEW s \in reading, RefreshUpsert(s) PROVE Goal
    <3>1. s.key \in Keys /\ s.days \in Nat /\ UpsertFromHcmSnapshot(s.key, s.days)
      BY <2>1 DEF TypeOK, ReadingTypeOK, Snapshots, RefreshUpsert
    <3>. QED
      BY <1>1, <3>1, UpsertBalanceEffect
  <2>. QED
    BY <1>1, <1>3, <2>1 DEF Refresh, RefreshRead, storeVars, BalanceKept
<1>4. CASE Submission
  <2>1. ASSUME NEW w \in Workers, ConfirmSubmission(w) PROVE Goal
    <3>1. /\ job[w].request \in Requests /\ job[w].days \in Nat
          /\ ReleaseReservation("confirmed", job[w].request, job[w].days)
      BY <2>1 DEF TypeOK, JobTypeOK, JobRows, ConfirmSubmission
    <3>. QED
      BY <3>1, ReleaseBalance
  <2>2. CASE \E r \in Requests : RetryDue(r)
    BY <1>1, <2>2 DEF RetryDue, BalanceKept
  <2>. QED
    BY <1>1, <1>4, <2>1, <2>2, WorkBalance DEF Submission
<1>5. CASE Reconcile
  <2>1. ASSUME NEW x \in Reconcilers, ReconcileUpsert(x) PROVE Goal
    <3>1. /\ audit[x].key \in Keys /\ audit[x].days \in Nat
          /\ UpsertFromHcmSnapshot(audit[x].key, audit[x].days)
      BY <2>1 DEF TypeOK, AuditTypeOK, AuditRows, ReconcileUpsert, At
    <3>. QED
      BY <1>1, <3>1, UpsertBalanceEffect
  <2>2. ASSUME NEW x \in Reconcilers, ReconcileReview(x) PROVE Goal
    BY <2>2, ReviewBalanceEffect
  <2>. QED
    BY <1>1, <1>5, <2>1, <2>2, AuditBalance DEF Reconcile
<1>6. CASE Batch
  BY <1>1, <1>6, IngestBalanceEffect
  DEF Batch, BatchArrives, IngestFails, storeVars, BalanceKept
<1>7. CASE Hcm \/ Restart \/ HandlerDies \/ UNCHANGED vars
  BY <1>1, <1>7, DeathIdles DEF Hcm, vars, storeVars, BalanceKept
<1>. QED
  BY <1>2, <1>3, <1>4, <1>5, <1>6, <1>7 DEF Next

\* Every handler preserves PresentInv.
LEMMA PresentInductive == TypeOK /\ CallInv /\ PresentInv /\ [Next]_vars => PresentInv'
<1> SUFFICES ASSUME TypeOK, CallInv, PresentInv, [Next]_vars PROVE PresentInv'
  OBVIOUS
<1>0. TypeOK' /\ KeyOf \in [Requests -> Keys]
  BY TypeInductive, KeyOfAssumption
<1>1. ASSUME NEW c \in Callers, call'[c].op = "create"
      PROVE  projection'[KeyOf[call'[c].request]].syncStatus # "ABSENT"
  <2>1. call'[c].request \in Requests
    BY <1>0, <1>1 DEF TypeOK, CallTypeOK
  <2>2. projection[KeyOf[call'[c].request]].syncStatus # "ABSENT"
    <3>1. CASE call'[c] = call[c]
      BY <1>1, <3>1 DEF PresentInv
    <3>2. CASE BeginCommand(c)
      BY <1>1, <3>2 DEF TypeOK, CallTypeOK, BeginCommand, CreateRead, HasBalanceFor,
         ApproveLoad, RejectLoad, CancelLoad, Remember
    <3>. QED
      BY <1>1, <3>1, <3>2, CallStep
  <2>. QED
    BY <1>0, <2>1, <2>2, ProjectionPersists
<1>2. ASSUME NEW r \in Requests, request'[r].status # "ABSENT"
      PROVE  projection'[KeyOf[r]].syncStatus # "ABSENT"
  <2>1. projection[KeyOf[r]].syncStatus # "ABSENT"
    <3>1. CASE request[r].status # "ABSENT"
      BY <3>1 DEF PresentInv
    <3>2. CASE request[r].status = "ABSENT"
      <4>1. PICK c \in Callers : CreateReserve(c) /\ call[c].request = r
        BY <1>2, <3>2, RequestStep DEF RequestRowMoves
      <4>. QED
        BY <4>1 DEF PresentInv, CreateReserve, Running
    <3>. QED
      BY <3>1, <3>2
  <2>. QED
    BY <1>0, <2>1, ProjectionPersists
<1>. QED
  BY <1>1, <1>2 DEF PresentInv

\* PresentInv holds at all times.
LEMMA PresentInvariant == Spec => [](TypeOK /\ CallInv /\ PresentInv)
<1>1. Init => PresentInv
  BY DEF Init, StoreInit, CallInit, NoCall, PresentInv
<1>. QED
  BY <1>1, PresentInductive, CallInvariant, PTL DEF Spec

-----------------------------------------------------------------------------
(* Every stored balance is of its time.                                    *)

\* The past ends with what HCM holds.
PastInv == Now > 0 /\ past[Now] = hcmBalance

\* Actor a has heard at its tick that k has `days`.
Tells(a, k, days) == heardAt[a] \in 1..Now /\ past[heardAt[a]][k] = days

\* The answers in flight tell the balance of the tick they were heard at.
ReadersTell ==
    /\ \A s \in reading : Tells(s.reader, s.key, s.days)
    /\ \A s, t \in reading : s.reader = t.reader => s = t

WorkersTell ==
    \A w \in Workers : job[w].pc = "accepted" => Tells(w, KeyOf[job[w].request], job[w].days)

AuditsTell ==
    \A x \in Reconcilers : audit[x].pc = "upsert" => Tells(x, audit[x].key, audit[x].days)

\* A delivery carries a batch that was taken.
DeliveriesTell == \A d \in delivery : sent[d.batch] \in 1..Now

TellInv == PastInv /\ ReadersTell /\ WorkersTell /\ AuditsTell /\ DeliveriesTell

\* The past grows at its end, and only when HCM's balances change.
LEMMA PastStep ==
    ASSUME TypeOK', TimesTypeOK, PastInv, Elapse
    PROVE  /\ past' \in Seq([Keys -> Nat \cup {NoBalance}])
           /\ Now \in Nat /\ Now' \in Nat /\ Now' >= Now
           /\ \A i \in 1..Now : past'[i] = past[i]
           /\ hcmBalance' # hcmBalance => Now' = Now + 1
           /\ PastInv'
<1>1. /\ past \in Seq([Keys -> Nat \cup {NoBalance}])
      /\ hcmBalance' \in [Keys -> Nat \cup {NoBalance}]
  BY DEF TypeOK, HcmTypeOK, TimesTypeOK
<1>2. CASE hcmBalance' = hcmBalance
  <2>1. past' = past
    BY <1>2 DEF Elapse
  <2>. QED
    BY <1>1, <1>2, <2>1 DEF PastInv, Now
<1>3. CASE hcmBalance' # hcmBalance
  <2>1. past' = Append(past, hcmBalance')
    BY <1>3 DEF Elapse
  <2>. QED
    BY <1>1, <1>3, <2>1 DEF PastInv, Now
<1>. QED
  BY <1>2, <1>3

\* The times of the store stay within the past.
LEMMA TimesTypeInductive == TypeOK' /\ TypeOK /\ TimesTypeOK /\ TellInv /\ TimedNext => TimesTypeOK'
<1> SUFFICES ASSUME TypeOK', TypeOK, TimesTypeOK, TellInv, TimedNext PROVE TimesTypeOK'
  OBVIOUS
<1>0. /\ past' \in Seq([Keys -> Nat \cup {NoBalance}])
      /\ Now \in Nat /\ Now' \in Nat /\ Now' >= Now
      /\ hcmBalance' # hcmBalance => Now' = Now + 1
  BY PastStep DEF TellInv, TimedNext
<1>1. /\ 0..Now \subseteq 0..Now' /\ 0 \in 0..Now' /\ Now \in 0..Now'
  BY <1>0
<1>2. ASSUME sent' \in [Batches -> 0..Now'], lastHcmSnapshotAt' \in [Keys -> 0..Now'],
             origin' \in [Keys -> 0..Now'], heardAt' \in [Listeners -> 0..Now']
      PROVE  TimesTypeOK'
  BY <1>0, <1>2 DEF TimesTypeOK
<1>3. ASSUME NEW f, NEW S, f \in [S -> 0..Now] PROVE f \in [S -> 0..Now']
  BY <1>1, <1>3
<1>4. /\ sent \in [Batches -> 0..Now'] /\ lastHcmSnapshotAt \in [Keys -> 0..Now']
      /\ origin \in [Keys -> 0..Now'] /\ heardAt \in [Listeners -> 0..Now']
  BY <1>3 DEF TimesTypeOK
<1>5. CASE KeepTimes
  BY <1>2, <1>4, <1>5 DEF KeepTimes
<1>6. ASSUME NEW a \in Listeners, NEW tick \in 0..Now', Hears(a, tick) PROVE TimesTypeOK'
  <2>1. heardAt' \in [Listeners -> 0..Now']
    BY <1>4, <1>6 DEF Hears
  <2>. QED
    BY <1>2, <1>4, <1>6, <2>1 DEF Hears
<1>7. ASSUME NEW a \in Listeners, NEW k \in Keys, TakesOver(a, k) PROVE TimesTypeOK'
  <2>1. heardAt[a] \in 0..Now'
    BY <1>4
  <2>2. /\ heardAt' \in [Listeners -> 0..Now'] /\ origin' \in [Keys -> 0..Now']
        /\ lastHcmSnapshotAt' \in [Keys -> 0..Now']
    BY <1>1, <1>4, <1>7, <2>1 DEF TakesOver
  <2>. QED
    BY <1>2, <1>4, <1>7, <2>2 DEF TakesOver
<1>14. CASE ForgetLost
  <2>1. heardAt' \in [Listeners -> 0..Now']
    BY <1>1, <1>4, <1>14 DEF ForgetLost, Listeners
  <2>. QED
    BY <1>2, <1>4, <1>14, <2>1 DEF ForgetLost
<1>8. CASE TimedRefresh
  <2>1. \A s \in reading : s.reader \in Listeners /\ s.key \in Keys
    BY DEF TypeOK, ReadingTypeOK, Snapshots, Listeners
  <2>. QED
    BY <1>1, <1>6, <1>7, <1>8, <2>1 DEF TimedRefresh, Listeners
<1>9. CASE TimedReconcile
  <2>1. ASSUME NEW x \in Reconcilers, ReconcileUpsert(x) PROVE audit[x].key \in Keys
    BY <2>1 DEF TypeOK, AuditTypeOK, ReconcileUpsert, At
  <2>. QED
    BY <1>1, <1>5, <1>6, <1>7, <1>9, <2>1 DEF TimedReconcile, Listeners
<1>10. CASE TimedSubmission
  <2>1. ASSUME NEW w \in Workers, SubmitAccepted(w), Hears(w, Now + 1) PROVE TimesTypeOK'
    <3>1. hcmBalance' # hcmBalance
      <4>1. /\ job[w].request \in Requests /\ KeyOf[job[w].request] \in Keys
            /\ DaysOf[job[w].request] \in Nat \ {0}
        BY <2>1, KeyOfAssumption, DaysOfAssumption DEF TypeOK, JobTypeOK, SubmitAccepted
      <4>2. hcmBalance'[KeyOf[job[w].request]]
              = hcmBalance[KeyOf[job[w].request]] - DaysOf[job[w].request]
        BY <2>1, <4>1 DEF TypeOK, HcmTypeOK, SubmitAccepted, AcceptSubmission
      <4>3. hcmBalance[KeyOf[job[w].request]] \in Int
        BY <4>1 DEF TypeOK, HcmTypeOK, NoBalance
      <4>. QED
        BY <4>1, <4>2, <4>3
    <3>2. Now + 1 \in 0..Now'
      BY <1>0, <3>1
    <3>. QED
      BY <1>6, <2>1, <3>2 DEF Listeners
  <2>2. ASSUME NEW w \in Workers, ConfirmSubmission(w), ConfirmsWithoutTime(w)
        PROVE  TimesTypeOK'
    <3>1. KeyOf[job[w].request] \in Keys /\ heardAt[w] \in 0..Now'
      BY <1>4, <2>2, KeyOfAssumption DEF TypeOK, JobTypeOK, ConfirmSubmission, Listeners
    <3>2. heardAt' \in [Listeners -> 0..Now'] /\ origin' \in [Keys -> 0..Now']
      BY <1>1, <1>4, <2>2, <3>1 DEF ConfirmsWithoutTime
    <3>. QED
      BY <1>2, <1>4, <2>2, <3>2 DEF ConfirmsWithoutTime
  <2>. QED
    BY <1>5, <1>10, <1>14, <2>1, <2>2 DEF TimedSubmission
<1>11. CASE TimedBatch
  <2>1. ASSUME NEW d \in delivery, NEW rows, TimedIngest(d, rows) PROVE TimesTypeOK'
    <3>1. sent[d.batch] \in 0..Now'
      BY <1>4 DEF TypeOK, BatchTypeOK, Deliveries
    <3>2. origin' \in [Keys -> 0..Now'] /\ lastHcmSnapshotAt' \in [Keys -> 0..Now']
      BY <1>4, <2>1, <3>1 DEF TimedIngest
    <3>. QED
      BY <1>2, <1>4, <2>1, <3>2 DEF TimedIngest
  <2>. QED
    BY <1>5, <1>11, <2>1 DEF TimedBatch
<1>12. CASE \E b \in Batches : Export(b)
  <2>1. sent' \in [Batches -> 0..Now']
    BY <1>1, <1>4, <1>12 DEF Export
  <2>. QED
    BY <1>2, <1>4, <1>12, <2>1 DEF Export
<1>13. CASE TimedDeath
  BY <1>13, <1>14 DEF TimedDeath
<1>. QED
  BY <1>5, <1>8, <1>9, <1>10, <1>11, <1>12, <1>13 DEF TimedNext

\* What an actor has heard stays true until it hears something else.
LEMMA TellsStep ==
    ASSUME TypeOK', TimesTypeOK, PastInv, Elapse,
           NEW a, NEW k, NEW days, Tells(a, k, days), heardAt'[a] = heardAt[a]
    PROVE  heardAt'[a] \in 1..Now' /\ past'[heardAt'[a]][k] = days
<1>1. /\ Now \in Nat /\ Now' \in Nat /\ Now' >= Now
      /\ \A i \in 1..Now : past'[i] = past[i]
  BY PastStep
<1>. QED
  BY <1>1 DEF Tells

\* Which answer a handler holds.
LEMMA HoldersAre ==
    ASSUME TypeOK, NEW k
    PROVE  /\ \A d \in Readers : d \in Holders(k) <=> \E s \in reading : s.reader = d /\ s.key = k
           /\ \A x \in Reconcilers :
                 x \in Holders(k) <=> audit[x].pc = "upsert" /\ audit[x].key = k
           /\ \A w \in Workers :
                 w \in Holders(k) <=> job[w].pc = "accepted" /\ KeyOf[job[w].request] = k
           /\ Holders(k) \subseteq Listeners
<1>1. \A s \in reading : s.reader \in Readers
  BY DEF TypeOK, ReadingTypeOK, Snapshots
<1>. QED
  BY <1>1, ActorsAreDistinct DEF Holders, Listeners, At

\* And after a step.
LEMMA HoldersAreNext ==
    ASSUME TypeOK', NEW k
    PROVE  /\ \A d \in Readers :
                 d \in Holders(k)' <=> \E s \in reading' : s.reader = d /\ s.key = k
           /\ \A x \in Reconcilers :
                 x \in Holders(k)' <=> audit'[x].pc = "upsert" /\ audit'[x].key = k
           /\ \A w \in Workers :
                 w \in Holders(k)' <=> job'[w].pc = "accepted" /\ KeyOf[job'[w].request] = k
           /\ Holders(k)' \subseteq Listeners
<1>1. \A s \in reading' : s.reader \in Readers
  BY DEF TypeOK, ReadingTypeOK, Snapshots
<1>. QED
  BY <1>1, ActorsAreDistinct DEF Holders, Listeners, At

\* Who still holds an answer forgets nothing.
LEMMA HoldersRemember ==
    ASSUME TypeOK', TimesTypeOK, ForgetLost
    PROVE  /\ \A s \in reading' : heardAt'[s.reader] = heardAt[s.reader]
           /\ \A w \in Workers : job'[w].pc = "accepted" => heardAt'[w] = heardAt[w]
           /\ \A x \in Reconcilers : audit'[x].pc = "upsert" => heardAt'[x] = heardAt[x]
<1>1. ASSUME NEW k \in Keys, NEW a \in Holders(k)' PROVE heardAt'[a] = heardAt[a]
  BY <1>1, HoldersAreNext DEF ForgetLost
<1>2. ASSUME NEW s \in reading' PROVE \E k \in Keys : s.reader \in Holders(k)'
  <2>1. s.key \in Keys /\ s.reader \in Readers
    BY DEF TypeOK, ReadingTypeOK, Snapshots
  <2>. QED
    BY <2>1, HoldersAreNext
<1>3. ASSUME NEW w \in Workers, job'[w].pc = "accepted"
      PROVE  \E k \in Keys : w \in Holders(k)'
  <2>1. job'[w].request \in Requests
    BY <1>3 DEF TypeOK, JobTypeOK
  <2>. QED
    BY <1>3, <2>1, KeyOfAssumption, HoldersAreNext
<1>4. ASSUME NEW x \in Reconcilers, audit'[x].pc = "upsert"
      PROVE  \E k \in Keys : x \in Holders(k)'
  <2>1. audit'[x].key \in Keys
    BY <1>4 DEF TypeOK, AuditTypeOK
  <2>. QED
    BY <1>4, <2>1, HoldersAreNext
<1>. QED
  BY <1>1, <1>2, <1>3, <1>4

\* Only the own steps of an actor change the answer it holds and its time.
LEMMA ReadersFrame ==
    ASSUME TypeOK, TypeOK', TimesTypeOK, TimedNext, ~TimedRefresh
    PROVE  /\ reading' \subseteq reading
           /\ \A s \in reading' : heardAt'[s.reader] = heardAt[s.reader]
<1>0. /\ heardAt \in [Listeners -> 0..Now] /\ Readers \subseteq Listeners
      /\ \A s \in reading' : s.reader \in Readers
  BY DEF TypeOK, ReadingTypeOK, Snapshots, TimesTypeOK, Listeners
<1>1. CASE KeepTimes /\ UNCHANGED reading
  BY <1>1 DEF KeepTimes
<1>2. CASE TimedSubmission
  <2>1. CASE ForgetLost
    BY <1>2, <2>1, HoldersRemember DEF TimedSubmission
  <2>. QED
    BY <1>0, <1>2, <2>1, ActorsAreDistinct
    DEF TimedSubmission, Hears, ConfirmsWithoutTime, KeepTimes
<1>3. CASE TimedReconcile
  BY <1>0, <1>3, ActorsAreDistinct DEF TimedReconcile, Hears, TakesOver, KeepTimes
<1>4. CASE TimedBatch
  BY <1>4 DEF TimedBatch, TimedIngest, KeepTimes
<1>5. CASE \E b \in Batches : Export(b)
  BY <1>5 DEF Export, vars
<1>6. CASE TimedDeath
  BY <1>6, DeathIdles, HoldersRemember DEF TimedDeath
<1>. QED
  BY <1>1, <1>2, <1>3, <1>4, <1>5, <1>6 DEF TimedNext, Command, Hcm

\* The same for runs.
LEMMA WorkersFrame ==
    ASSUME TypeOK, TypeOK', TimesTypeOK, TimedNext, ~TimedSubmission,
           NEW w \in Workers, job'[w].pc = "accepted"
    PROVE  job'[w] = job[w] /\ heardAt'[w] = heardAt[w]
<1>0. /\ heardAt \in [Listeners -> 0..Now] /\ Workers \subseteq Listeners
      /\ \A s \in reading : s.reader \in Readers
  BY DEF TypeOK, ReadingTypeOK, Snapshots, TimesTypeOK, Listeners
<1>1. CASE KeepTimes /\ UNCHANGED job
  BY <1>1 DEF KeepTimes
<1>2. CASE TimedRefresh
  BY <1>0, <1>2, ActorsAreDistinct DEF TimedRefresh, Hears, TakesOver
<1>3. CASE TimedReconcile
  BY <1>0, <1>3, ActorsAreDistinct DEF TimedReconcile, Hears, TakesOver, KeepTimes
<1>4. CASE TimedBatch
  BY <1>4 DEF TimedBatch, TimedIngest, KeepTimes
<1>5. CASE \E b \in Batches : Export(b)
  BY <1>5 DEF Export, vars
<1>6. CASE TimedDeath
  BY <1>6, DeathIdles, HoldersRemember DEF TimedDeath, NoJob
<1>. QED
  BY <1>1, <1>2, <1>3, <1>4, <1>5, <1>6 DEF TimedNext, Command, Hcm

\* The same for reconciliations.
LEMMA AuditsFrame ==
    ASSUME TypeOK, TypeOK', TimesTypeOK, TimedNext, ~TimedReconcile,
           NEW x \in Reconcilers, audit'[x].pc = "upsert"
    PROVE  audit'[x] = audit[x] /\ heardAt'[x] = heardAt[x]
<1>0. /\ heardAt \in [Listeners -> 0..Now] /\ Reconcilers \subseteq Listeners
      /\ \A s \in reading : s.reader \in Readers
  BY DEF TypeOK, ReadingTypeOK, Snapshots, TimesTypeOK, Listeners
<1>1. CASE KeepTimes /\ UNCHANGED audit
  BY <1>1 DEF KeepTimes
<1>2. CASE TimedRefresh
  BY <1>0, <1>2, ActorsAreDistinct DEF TimedRefresh, Hears, TakesOver
<1>3. CASE TimedSubmission
  <2>1. CASE ForgetLost
    BY <1>3, <2>1, HoldersRemember DEF TimedSubmission
  <2>. QED
    BY <1>0, <1>3, <2>1, ActorsAreDistinct
    DEF TimedSubmission, Hears, ConfirmsWithoutTime, KeepTimes
<1>4. CASE TimedBatch
  BY <1>4 DEF TimedBatch, TimedIngest, KeepTimes
<1>5. CASE \E b \in Batches : Export(b)
  BY <1>5 DEF Export, vars
<1>6. CASE TimedDeath
  BY <1>6, DeathIdles, HoldersRemember DEF TimedDeath, NoAudit
<1>. QED
  BY <1>1, <1>2, <1>3, <1>4, <1>5, <1>6 DEF TimedNext, Command, Hcm

\* A refresh holds the answer it heard.
LEMMA ReadersInductive ==
    TypeOK /\ TypeOK' /\ TimesTypeOK /\ TellInv /\ TimedNext => ReadersTell'
<1> SUFFICES ASSUME TypeOK, TypeOK', TimesTypeOK, TellInv, TimedNext PROVE ReadersTell'
  OBVIOUS
<1>0. /\ heardAt \in [Listeners -> 0..Now] /\ Readers \subseteq Listeners
      /\ \A s \in reading : s.reader \in Readers
      /\ Elapse /\ PastInv /\ ReadersTell
  BY DEF TypeOK, ReadingTypeOK, Snapshots, TimesTypeOK, Listeners, TimedNext, TellInv
<1> DEFINE Told(s) == heardAt'[s.reader] \in 1..Now' /\ past'[heardAt'[s.reader]][s.key] = s.days
<1>1. ASSUME NEW s \in reading, heardAt'[s.reader] = heardAt[s.reader] PROVE Told(s)
  BY <1>0, <1>1, TellsStep DEF ReadersTell
<1>2. ASSUME \A s \in reading' : Told(s),
             \A s, t \in reading' : s.reader = t.reader => s = t
      PROVE  ReadersTell'
  BY <1>2 DEF ReadersTell, Tells
<1>3. CASE ~TimedRefresh
  <2>1. reading' \subseteq reading /\ \A s \in reading' : heardAt'[s.reader] = heardAt[s.reader]
    BY <1>3, ReadersFrame
  <2>. QED
    BY <1>0, <1>1, <1>2, <2>1 DEF ReadersTell
<1>5. ASSUME NEW d \in Readers, NEW k \in Keys, RefreshRead(d, k), Hears(d, Now)
      PROVE  ReadersTell'
  <2> DEFINE new == [reader |-> d, key |-> k, days |-> hcmBalance[k]]
  <2>1. reading' = reading \cup {new} /\ \A s \in reading : s.reader # d
    BY <1>5 DEF RefreshRead, ReaderIdle
  <2>2. Told(new)
    <3>1. heardAt'[d] = Now
      BY <1>0, <1>5 DEF Hears
    <3>2. Now \in 1..Now' /\ past'[Now] = hcmBalance
      <4>1. /\ Now \in Nat /\ Now' \in Nat /\ Now' >= Now
            /\ \A i \in 1..Now : past'[i] = past[i]
        BY <1>0, PastStep
      <4>. QED
        BY <1>0, <4>1 DEF PastInv
    <3>. QED
      BY <3>1, <3>2
  <2>3. \A s \in reading : Told(s)
    BY <1>0, <1>1, <1>5, <2>1 DEF Hears
  <2> HIDE DEF Told
  <2>. QED
    BY <1>0, <1>2, <2>1, <2>2, <2>3 DEF ReadersTell
<1>6. ASSUME NEW s \in reading, RefreshUpsert(s), TakesOver(s.reader, s.key)
      PROVE  ReadersTell'
  <2>1. reading' = reading \ {s}
    BY <1>6 DEF RefreshUpsert
  <2>2. \A t \in reading' : t.reader # s.reader /\ heardAt'[t.reader] = heardAt[t.reader]
    BY <1>0, <1>6, <2>1 DEF TakesOver, ReadersTell
  <2>. QED
    BY <1>0, <1>1, <1>2, <2>1, <2>2 DEF ReadersTell
<1>. QED
  BY <1>3, <1>5, <1>6 DEF TimedRefresh

\* A run holds the answer to its submission, with the balance after it.
LEMMA WorkersInductive ==
    TypeOK /\ TypeOK' /\ TimesTypeOK /\ TellInv /\ TimedNext => WorkersTell'
<1> SUFFICES ASSUME TypeOK, TypeOK', TimesTypeOK, TellInv, TimedNext PROVE WorkersTell'
  OBVIOUS
<1>0. /\ heardAt \in [Listeners -> 0..Now] /\ Workers \subseteq Listeners
      /\ job \in [Workers -> JobRows]
      /\ Elapse /\ PastInv /\ WorkersTell
  BY DEF TypeOK, JobTypeOK, TimesTypeOK, Listeners, TimedNext, TellInv
<1> SUFFICES ASSUME NEW w \in Workers, job'[w].pc = "accepted"
             PROVE  /\ heardAt'[w] \in 1..Now'
                    /\ past'[heardAt'[w]][KeyOf[job'[w].request]] = job'[w].days
  BY DEF WorkersTell, Tells
<1>1. ASSUME job'[w] = job[w], heardAt'[w] = heardAt[w]
      PROVE  /\ heardAt'[w] \in 1..Now'
             /\ past'[heardAt'[w]][KeyOf[job'[w].request]] = job'[w].days
  <2>1. Tells(w, KeyOf[job[w].request], job[w].days)
    BY <1>0, <1>1 DEF WorkersTell
  <2>. QED
    BY <1>0, <1>1, <2>1, TellsStep
<1>2. CASE ~TimedSubmission
  BY <1>1, <1>2, WorkersFrame
<1>4. CASE KeepTimes /\ UNCHANGED job
  BY <1>1, <1>4 DEF KeepTimes
<1>5. ASSUME NEW v \in Workers, SubmitAccepted(v), Hears(v, Now + 1)
      PROVE  /\ heardAt'[w] \in 1..Now'
             /\ past'[heardAt'[w]][KeyOf[job'[w].request]] = job'[w].days
  <2>1. CASE v = w
    <3>1. /\ job[w].request \in Requests /\ KeyOf[job[w].request] \in Keys
          /\ DaysOf[job[w].request] \in Nat \ {0}
      BY <1>5, <2>1, KeyOfAssumption, DaysOfAssumption DEF TypeOK, JobTypeOK, SubmitAccepted
    <3>2. /\ hcmBalance \in [Keys -> Nat \cup {NoBalance}]
          /\ hcmBalance'[KeyOf[job[w].request]]
               = hcmBalance[KeyOf[job[w].request]] - DaysOf[job[w].request]
      BY <1>5, <2>1, <3>1 DEF TypeOK, HcmTypeOK, SubmitAccepted, AcceptSubmission
    <3>3. hcmBalance' # hcmBalance
      BY <3>1, <3>2 DEF NoBalance
    <3>4. /\ job'[w].request = job[w].request
          /\ job'[w].days = hcmBalance'[KeyOf[job[w].request]]
      <4>1. job' = [job EXCEPT ![w].pc = "accepted",
                               ![w].days = hcmBalance'[KeyOf[job[w].request]]]
        BY <1>5, <2>1 DEF SubmitAccepted
      <4>. QED
        BY <1>0, <4>1 DEF JobRows
    <3>5. Now \in Nat /\ Now' = Now + 1 /\ PastInv'
      BY <1>0, <3>3, PastStep
    <3>6. heardAt'[w] = Now'
      BY <1>0, <1>5, <2>1, <3>5 DEF Hears
    <3>. QED
      BY <3>4, <3>5, <3>6 DEF PastInv
  <2>2. CASE v # w
    BY <1>0, <1>1, <1>5, <2>2 DEF SubmitAccepted, Hears
  <2>. QED
    BY <2>1, <2>2
<1>6. ASSUME NEW v \in Workers, ConfirmSubmission(v), ConfirmsWithoutTime(v)
      PROVE  /\ heardAt'[w] \in 1..Now'
             /\ past'[heardAt'[w]][KeyOf[job'[w].request]] = job'[w].days
  <2>1. v # w
    BY <1>0, <1>6 DEF ConfirmSubmission, TakeNext
  <2>. QED
    BY <1>0, <1>1, <1>6, <2>1 DEF ConfirmSubmission, TakeNext, ConfirmsWithoutTime
<1>7. ASSUME NEW v \in Workers, OtherWorkStep(v), ForgetLost
      PROVE  /\ heardAt'[w] \in 1..Now'
             /\ past'[heardAt'[w]][KeyOf[job'[w].request]] = job'[w].days
  <2>1. v # w
    BY <1>7 DEF OtherWorkStep
  <2>2. job'[w] = job[w]
    BY <1>0, <1>7, <2>1
    DEF OtherWorkStep, WorkStep, PrepareFirst, PrepareRetry, PrepareStale, Prepared,
        SubmitFails, SubmitRefused, SubmitAccepted, ConfirmSubmission, RejectSubmission,
        RecordingFails, ScheduleSubmissionRetry, Goto, TakeNext
  <2>. QED
    BY <1>1, <1>7, <2>2, HoldersRemember
<1>8. ASSUME NEW v \in Workers, StartProcessing(v), KeepTimes
      PROVE  /\ heardAt'[w] \in 1..Now'
             /\ past'[heardAt'[w]][KeyOf[job'[w].request]] = job'[w].days
  <2>1. job' = [job EXCEPT ![v].todo = {r \in Requests : Due(r)}] /\ job[v].pc = "next"
    BY <1>8 DEF StartProcessing, WorkerIdle
  <2>2. v # w /\ job'[w] = job[w]
    BY <1>0, <2>1
  <2>. QED
    BY <1>0, <1>1, <1>8, <2>2 DEF KeepTimes
<1>9. ASSUME NEW r \in Requests, RetryDue(r), KeepTimes
      PROVE  KeepTimes /\ UNCHANGED job
  BY <1>9 DEF RetryDue
<1>. QED
  BY <1>2, <1>4, <1>5, <1>6, <1>7, <1>8, <1>9 DEF TimedSubmission

\* A reconciliation holds the balance it read.
LEMMA AuditsInductive ==
    TypeOK /\ TypeOK' /\ TimesTypeOK /\ TellInv /\ TimedNext => AuditsTell'
<1> SUFFICES ASSUME TypeOK, TypeOK', TimesTypeOK, TellInv, TimedNext PROVE AuditsTell'
  OBVIOUS
<1>0. /\ heardAt \in [Listeners -> 0..Now] /\ Reconcilers \subseteq Listeners
      /\ audit \in [Reconcilers -> AuditRows]
      /\ Elapse /\ PastInv /\ AuditsTell
  BY DEF TypeOK, AuditTypeOK, TimesTypeOK, Listeners, TimedNext, TellInv
<1> SUFFICES ASSUME NEW x \in Reconcilers, audit'[x].pc = "upsert"
             PROVE  /\ heardAt'[x] \in 1..Now'
                    /\ past'[heardAt'[x]][audit'[x].key] = audit'[x].days
  BY DEF AuditsTell, Tells
<1>1. ASSUME audit'[x] = audit[x], heardAt'[x] = heardAt[x]
      PROVE  /\ heardAt'[x] \in 1..Now'
             /\ past'[heardAt'[x]][audit'[x].key] = audit'[x].days
  <2>1. Tells(x, audit[x].key, audit[x].days)
    BY <1>0, <1>1 DEF AuditsTell
  <2>. QED
    BY <1>0, <1>1, <2>1, TellsStep
<1>2. CASE ~TimedReconcile
  BY <1>1, <1>2, AuditsFrame
<1>4. ASSUME NEW y \in Reconcilers, NEW k \in Keys, ReconcileRead(y, k), Hears(y, Now)
      PROVE  /\ heardAt'[x] \in 1..Now'
             /\ past'[heardAt'[x]][audit'[x].key] = audit'[x].days
  <2>1. CASE y = x
    <3>1. audit'[x].key = k /\ audit'[x].days = hcmBalance[k]
      BY <1>0, <1>4, <2>1 DEF ReconcileRead
    <3>2. heardAt'[x] = Now
      BY <1>0, <1>4, <2>1 DEF Hears
    <3>3. /\ Now \in Nat /\ Now' \in Nat /\ Now' >= Now
          /\ \A i \in 1..Now : past'[i] = past[i]
      BY <1>0, PastStep
    <3>. QED
      BY <1>0, <3>1, <3>2, <3>3 DEF PastInv
  <2>2. CASE y # x
    BY <1>0, <1>1, <1>4, <2>2 DEF ReconcileRead, Hears
  <2>. QED
    BY <2>1, <2>2
<1>5. ASSUME NEW y \in Reconcilers, ReconcileUpsert(y), TakesOver(y, audit[y].key)
      PROVE  /\ heardAt'[x] \in 1..Now'
             /\ past'[heardAt'[x]][audit'[x].key] = audit'[x].days
  <2>1. audit' = [audit EXCEPT ![y].pc = "list", ![y].days = 0]
    BY <1>5 DEF ReconcileUpsert
  <2>2. y # x /\ audit'[x] = audit[x]
    BY <1>0, <2>1 DEF AuditRows
  <2>. QED
    BY <1>0, <1>1, <1>5, <2>2 DEF TakesOver
<1>6. ASSUME NEW y \in Reconcilers, AuditStep(y), ~At(y, "upsert"), KeepTimes
      PROVE  /\ heardAt'[x] \in 1..Now'
             /\ past'[heardAt'[x]][audit'[x].key] = audit'[x].days
  <2>1. audit'[x] = audit[x]
    <3>1. CASE y = x
      <4>1. CASE ReconcileList(y)
        BY <1>0, <3>1, <4>1 DEF ReconcileList, NoAudit
      <4>2. CASE \E r \in Requests : ReconcileTake(y, r)
        <5>1. audit'[x].pc \in {"confirm", "look"}
          BY <1>0, <3>1, <4>2 DEF ReconcileTake, AuditRows
        <5>. QED
          BY <5>1
      <4>3. CASE ReconcileConfirm(y) \/ ReconcileLook(y) \/ ReconcileReview(y)
        <5>1. audit'[x].pc \in {"next", "review"}
          BY <1>0, <3>1, <4>3
          DEF ReconcileConfirm, ReconcileLook, ReconcileReview, NextListed, Proceed, AuditRows
        <5>. QED
          BY <5>1
      <4>. QED
        BY <1>6, <4>1, <4>2, <4>3 DEF AuditStep, ReconcileUpsert
    <3>2. CASE y # x
      BY <1>0, <1>6, <3>2
      DEF AuditStep, ReconcileUpsert, ReconcileList, ReconcileTake, ReconcileConfirm,
          ReconcileLook, ReconcileReview, NextListed, Proceed
    <3>. QED
      BY <3>1, <3>2
  <2>. QED
    BY <1>0, <1>1, <1>6, <2>1 DEF KeepTimes
<1>. QED
  BY <1>2, <1>4, <1>5, <1>6 DEF TimedReconcile

\* A batch is taken before it is delivered, and once.
LEMMA DeliveriesInductive ==
    TypeOK /\ TypeOK' /\ TimesTypeOK /\ TellInv /\ TimedNext => DeliveriesTell'
<1> SUFFICES ASSUME TypeOK, TypeOK', TimesTypeOK, TellInv, TimedNext, NEW d \in delivery'
             PROVE  sent'[d.batch] \in 1..Now'
  BY DEF DeliveriesTell
<1>0. /\ sent \in [Batches -> 0..Now] /\ d.batch \in Batches
      /\ Now \in Nat /\ Now' \in Nat /\ Now' >= Now
  BY PastStep DEF TypeOK, BatchTypeOK, Deliveries, TimesTypeOK, TimedNext, TellInv
<1>1. ASSUME sent[d.batch] # 0, sent'[d.batch] = sent[d.batch]
      PROVE  sent'[d.batch] \in 1..Now'
  <2>1. sent[d.batch] \in 0..Now
    BY <1>0
  <2>. QED
    BY <1>0, <1>1, <2>1
<1>2. CASE d \in delivery
  <2>1. sent[d.batch] # 0
    BY <1>2 DEF TellInv, DeliveriesTell
  <2>2. CASE \E b \in Batches : Export(b)
    BY <1>0, <1>1, <2>1, <2>2 DEF Export
  <2>3. CASE sent' = sent
    BY <1>1, <2>1, <2>3
  <2>. QED
    BY <2>2, <2>3
    DEF TimedNext, TimedRefresh, TimedReconcile, TimedSubmission, TimedBatch, TimedIngest,
        TimedDeath, ForgetLost, ConfirmsWithoutTime, Hears, TakesOver, KeepTimes
<1>3. CASE d \notin delivery
  <2>1. CASE TimedBatch
    <3>1. sent' = sent
      BY <2>1 DEF TimedBatch, TimedIngest, KeepTimes
    <3>2. PICK s \in Senders, b \in Batches : sent[b] # 0 /\ BatchArrives(s, b)
      BY <1>3, <2>1 DEF TimedBatch, TimedIngest, IngestBatch, IngestFails
    <3>3. d.batch = b
      BY <1>3, <3>2 DEF BatchArrives
    <3>. QED
      BY <1>1, <3>1, <3>2, <3>3
  <2>. QED
    BY <1>3, <2>1, DeathIdles
    DEF TimedNext, Command, TimedRefresh, TimedReconcile, TimedSubmission, Hcm,
        TimedDeath, Export, batchVars, vars
<1>. QED
  BY <1>2, <1>3

\* A stored balance is of its time after each step.
LEMMA BalanceInductive ==
    TypeOK /\ TypeOK' /\ TimesTypeOK /\ TellInv /\ CallInv /\ PresentInv /\ BalanceOfItsTime
        /\ TimedNext => BalanceOfItsTime'
<1> SUFFICES ASSUME TypeOK, TypeOK', TimesTypeOK, TellInv, CallInv, PresentInv,
                    BalanceOfItsTime, TimedNext, NEW k \in Keys, projection'[k].syncStatus # "ABSENT"
             PROVE  /\ origin'[k] \in 1..Now'
                    /\ projection'[k].availableDays = past'[origin'[k]][k]
  BY DEF BalanceOfItsTime
<1> DEFINE Goal == /\ origin'[k] \in 1..Now'
                   /\ projection'[k].availableDays = past'[origin'[k]][k]
<1>0. /\ origin \in [Keys -> 0..Now] /\ KeyOf \in [Requests -> Keys]
      /\ Now \in Nat /\ Now' \in Nat /\ Now' >= Now
      /\ \A i \in 1..Now : past'[i] = past[i]
  BY PastStep, KeyOfAssumption DEF TimesTypeOK, TimedNext, TellInv
<1>1. ASSUME projection'[k].availableDays = projection[k].availableDays,
             projection[k].syncStatus # "ABSENT", origin'[k] = origin[k]
      PROVE  Goal
  BY <1>0, <1>1 DEF BalanceOfItsTime
<1>2. ASSUME BalanceKept(k), origin'[k] = origin[k] PROVE Goal
  BY <1>1, <1>2 DEF BalanceKept
<1>3. ASSUME NEW a, NEW days, Tells(a, k, days), origin'[k] = heardAt[a],
             projection'[k].availableDays = days
      PROVE  Goal
  BY <1>0, <1>3 DEF Tells
<1>4. CASE Command /\ KeepTimes
  BY <1>2, <1>4, CommandBalance DEF Command, KeepTimes
<1>5. CASE TimedRefresh
  <2>1. ASSUME NEW s \in reading, RefreshUpsert(s), TakesOver(s.reader, s.key) PROVE Goal
    <3>1. s.key \in Keys /\ s.days \in Nat /\ UpsertFromHcmSnapshot(s.key, s.days)
      BY <2>1 DEF TypeOK, ReadingTypeOK, Snapshots, RefreshUpsert
    <3>2. Tells(s.reader, s.key, s.days)
      BY DEF TellInv, ReadersTell
    <3>3. CASE k = s.key
      BY <1>0, <1>3, <2>1, <3>1, <3>2, <3>3, UpsertBalanceEffect DEF TakesOver
    <3>4. CASE k # s.key
      BY <1>0, <1>2, <2>1, <3>1, <3>4, UpsertBalanceEffect DEF TakesOver
    <3>. QED
      BY <3>3, <3>4
  <2>. QED
    BY <1>2, <1>5, <2>1 DEF TimedRefresh, RefreshRead, Hears, BalanceKept, storeVars
<1>6. CASE TimedReconcile
  <2>1. ASSUME NEW x \in Reconcilers, ReconcileUpsert(x), TakesOver(x, audit[x].key) PROVE Goal
    <3>1. /\ audit[x].key \in Keys /\ audit[x].days \in Nat
          /\ UpsertFromHcmSnapshot(audit[x].key, audit[x].days)
      BY <2>1 DEF TypeOK, AuditTypeOK, AuditRows, ReconcileUpsert, At
    <3>2. Tells(x, audit[x].key, audit[x].days)
      BY <2>1 DEF TellInv, AuditsTell, ReconcileUpsert, At
    <3>3. CASE k = audit[x].key
      BY <1>0, <1>3, <2>1, <3>1, <3>2, <3>3, UpsertBalanceEffect DEF TakesOver
    <3>4. CASE k # audit[x].key
      BY <1>0, <1>2, <2>1, <3>1, <3>4, UpsertBalanceEffect DEF TakesOver
    <3>. QED
      BY <3>3, <3>4
  <2>2. ASSUME NEW x \in Reconcilers, ReconcileReview(x), KeepTimes PROVE Goal
    <3>1. projection[k].syncStatus # "ABSENT"
      <4>1. audit[x].request \in Held(x) /\ audit[x].request \in Requests
        BY <2>2 DEF ReconcileReview, At, Held, TypeOK, AuditTypeOK
      <4>2. projection[KeyOf[audit[x].request]].syncStatus # "ABSENT"
        BY <4>1 DEF CallInv, PresentInv
      <4>. QED
        BY <2>2, <4>2, ReviewBalanceEffect
    <3>. QED
      BY <1>1, <2>2, <3>1, ReviewBalanceEffect DEF KeepTimes
  <2>3. ASSUME NEW x \in Reconcilers, AuditStep(x), ~At(x, "upsert"), KeepTimes PROVE Goal
    BY <1>2, <2>2, <2>3, AuditBalance DEF ReconcileUpsert, KeepTimes
  <2>4. ASSUME NEW x \in Reconcilers, NEW q \in Keys, ReconcileRead(x, q), Hears(x, Now)
        PROVE  Goal
    BY <1>2, <2>4 DEF ReconcileRead, Hears, BalanceKept, storeVars
  <2>. QED
    BY <1>6, <2>1, <2>3, <2>4 DEF TimedReconcile
<1>7. CASE TimedSubmission
  <2>1. ASSUME NEW w \in Workers, ConfirmSubmission(w), ConfirmsWithoutTime(w) PROVE Goal
    <3>1. /\ job[w].request \in Requests /\ job[w].days \in Nat
          /\ ReleaseReservation("confirmed", job[w].request, job[w].days)
      BY <2>1 DEF TypeOK, JobTypeOK, JobRows, ConfirmSubmission
    <3>2. Tells(w, KeyOf[job[w].request], job[w].days)
      BY <2>1 DEF TellInv, WorkersTell, ConfirmSubmission
    <3>0. /\ projection'[k].syncStatus = projection[k].syncStatus
          /\ projection'[k].availableDays = IF k = KeyOf[job[w].request]
                                            THEN job[w].days ELSE projection[k].availableDays
      BY <3>1, ReleaseBalance
    <3>5. origin' = [origin EXCEPT ![KeyOf[job[w].request]] = heardAt[w]]
      BY <2>1 DEF ConfirmsWithoutTime
    <3>3. CASE k = KeyOf[job[w].request]
      <4>1. origin'[k] = heardAt[w]
        BY <1>0, <3>3, <3>5
      <4>2. projection'[k].availableDays = job[w].days
        BY <3>0, <3>3
      <4>. QED
        BY <1>3, <3>2, <3>3, <4>1, <4>2
    <3>4. CASE k # KeyOf[job[w].request]
      <4>1. origin'[k] = origin[k]
        BY <1>0, <3>4, <3>5
      <4>. QED
        BY <1>2, <3>0, <3>4, <4>1 DEF BalanceKept
    <3>. QED
      BY <3>3, <3>4
  <2>2. ASSUME NEW w \in Workers, SubmitAccepted(w), Hears(w, Now + 1) PROVE Goal
    BY <1>2, <2>2 DEF SubmitAccepted, Hears, BalanceKept, storeVars
  <2>3. ASSUME NEW w \in Workers, OtherWorkStep(w), ForgetLost PROVE Goal
    <3>1. ~ConfirmSubmission(w)
      BY <2>3 DEF OtherWorkStep, ConfirmSubmission, TakeNext, TypeOK, JobTypeOK
    <3>. QED
      BY <1>2, <2>3, <3>1, WorkBalance DEF OtherWorkStep, ForgetLost
  <2>4. ASSUME NEW w \in Workers, StartProcessing(w), KeepTimes PROVE Goal
    BY <1>2, <2>4 DEF StartProcessing, KeepTimes, BalanceKept, storeVars
  <2>5. ASSUME NEW r \in Requests, RetryDue(r), KeepTimes PROVE Goal
    BY <1>2, <2>5 DEF RetryDue, KeepTimes, BalanceKept
  <2>. QED
    BY <1>7, <2>1, <2>2, <2>3, <2>4, <2>5 DEF TimedSubmission
<1>8. CASE TimedBatch
  <2>1. ASSUME NEW d \in delivery, NEW rows, TimedIngest(d, rows) PROVE Goal
    <3>1. CASE k \in DOMAIN rows
      <4>1. /\ rows[k] = past[sent[d.batch]][k] /\ origin'[k] = sent[d.batch]
            /\ projection'[k].availableDays = rows[k]
        BY <2>1, <3>1, IngestBalanceEffect DEF TimedIngest, FreshRows
      <4>2. sent[d.batch] \in 1..Now
        BY DEF TellInv, DeliveriesTell
      <4>. QED
        BY <1>0, <4>1, <4>2
    <3>2. CASE k \notin DOMAIN rows
      BY <1>2, <2>1, <3>2, IngestBalanceEffect DEF TimedIngest
    <3>. QED
      BY <3>1, <3>2
  <2>. QED
    BY <1>2, <1>8, <2>1
    DEF TimedBatch, BatchArrives, IngestFails, KeepTimes, BalanceKept, storeVars
<1>9. CASE (\E b \in Batches : Export(b)) \/ (Hcm /\ KeepTimes) \/ TimedDeath
  BY <1>2, <1>9, DeathIdles
  DEF Export, Hcm, KeepTimes, TimedDeath, ForgetLost, BalanceKept, storeVars, vars
<1>. QED
  BY <1>4, <1>5, <1>6, <1>7, <1>8, <1>9 DEF TimedNext

\* The inductive invariant of the service with times.
TimeInv == TimesTypeOK /\ TellInv /\ BalanceOfItsTime

\* It holds of the empty database.
LEMMA TimeInitial == TimedInit => TimeInv
<1> SUFFICES ASSUME TimedInit PROVE TimeInv
  OBVIOUS
<1>1. /\ hcmBalance \in [Keys -> Nat \cup {NoBalance}]
      /\ past = <<hcmBalance>> /\ Len(past) = 1 /\ past[1] = hcmBalance
  BY DEF TimedInit, Init, HcmInit
<1>2. TimesTypeOK
  BY <1>1 DEF TimedInit, TimesTypeOK, Now
<1>3. TellInv
  BY <1>1 DEF TimedInit, Init, ReadingInit, JobInit, NoJob, AuditInit, NoAudit, BatchInit,
     TellInv, PastInv, ReadersTell, WorkersTell, AuditsTell, DeliveriesTell, Now
<1>4. BalanceOfItsTime
  BY DEF TimedInit, Init, StoreInit, BalanceOfItsTime
<1>. QED
  BY <1>2, <1>3, <1>4 DEF TimeInv

\* And after each step.
LEMMA TimeInductive ==
    TypeOK /\ TypeOK' /\ CallInv /\ PresentInv /\ TimeInv /\ [TimedNext]_timedVars => TimeInv'
<1> SUFFICES ASSUME TypeOK, TypeOK', CallInv, PresentInv, TimeInv, [TimedNext]_timedVars PROVE TimeInv'
  OBVIOUS
<1>1. CASE TimedNext
  <2>1. PastInv'
    BY <1>1, PastStep DEF TimeInv, TellInv, TimedNext
  <2>. QED
    BY <1>1, <2>1, TimesTypeInductive, ReadersInductive, WorkersInductive, AuditsInductive,
       DeliveriesInductive, BalanceInductive DEF TimeInv, TellInv
<1>2. CASE UNCHANGED timedVars
  BY <1>2 DEF timedVars, vars, timeVars, storeVars, hcmVars, batchVars, TimeInv, TimesTypeOK,
     TellInv, PastInv, ReadersTell, WorkersTell, AuditsTell, DeliveriesTell, Tells,
     BalanceOfItsTime, Now
<1>. QED
  BY <1>1, <1>2

\* Every balance the service shows is one that HCM had, at the time of the answer
\* or snapshot it came from (BalanceOfItsTime).
THEOREM BalancesAreOfTheirTime == TimedSpec => []BalanceOfItsTime
<1>1. TimeInv => BalanceOfItsTime
  BY DEF TimeInv
<1>2. TimedSpec => [](TypeOK /\ CallInv /\ PresentInv)
  BY TimesRefine, PresentInvariant, PTL
<1>. QED
  BY <1>1, <1>2, TimeInitial, TimeInductive, PTL DEF TimedSpec

-----------------------------------------------------------------------------
(* Balances do not age.                                                    *)

\* A reconciliation that is about to store a balance was so before the step, or
\* has just read it.
LEMMA UpsertStep ==
    ASSUME TypeOK, NEW y \in Reconcilers, AuditStep(y), NEW x \in Reconcilers,
           audit'[x].pc = "upsert"
    PROVE  x # y /\ audit'[x] = audit[x]
<1>0. audit \in [Reconcilers -> AuditRows]
  BY DEF TypeOK, AuditTypeOK
<1>1. CASE ReconcileUpsert(y)
  BY <1>0, <1>1 DEF ReconcileUpsert, AuditRows
<1>2. CASE ReconcileList(y)
  BY <1>0, <1>2 DEF ReconcileList, NoAudit
<1>3. ASSUME NEW r \in Requests, ReconcileTake(y, r) PROVE x # y /\ audit'[x] = audit[x]
  BY <1>0, <1>3 DEF ReconcileTake, AuditRows
<1>4. CASE ReconcileConfirm(y) \/ ReconcileLook(y) \/ ReconcileReview(y)
  <2>1. NextListed(y) \/ Proceed(y, "review")
    BY <1>4 DEF ReconcileConfirm, ReconcileLook, ReconcileReview
  <2>. QED
    BY <1>0, <2>1 DEF NextListed, Proceed, AuditRows
<1>. QED
  BY <1>1, <1>2, <1>3, <1>4 DEF AuditStep

\* An answer that is held after a step was held before, or has just been heard.
LEMMA AnswersStep ==
    ASSUME TypeOK, TypeOK', TimesTypeOK, TellInv, TimedNext, NEW k \in Keys, NEW a \in Holders(k)'
    PROVE  \/ heardAt'[a] >= Now
           \/ a \in Holders(k) /\ heardAt'[a] = heardAt[a]
<1> DEFINE Goal == \/ heardAt'[a] >= Now
                   \/ a \in Holders(k) /\ heardAt'[a] = heardAt[a]
<1>0. /\ heardAt \in [Listeners -> 0..Now] /\ Now \in Nat
      /\ Readers \subseteq Listeners /\ Reconcilers \subseteq Listeners
      /\ Workers \subseteq Listeners
      /\ \A s \in reading : s.reader \in Readers
      /\ job \in [Workers -> JobRows] /\ audit \in [Reconcilers -> AuditRows]
  BY DEF TypeOK, ReadingTypeOK, Snapshots, JobTypeOK, AuditTypeOK, TimesTypeOK, Listeners, Now
<1>2. ASSUME a \in Readers PROVE Goal
  <2>1. PICK t \in reading' : t.reader = a /\ t.key = k
    BY <1>2, HoldersAreNext
  <2>2. CASE ~TimedRefresh
    BY <1>2, <2>1, <2>2, ReadersFrame, HoldersAre
  <2>3. ASSUME NEW d \in Readers, NEW q \in Keys, RefreshRead(d, q), Hears(d, Now) PROVE Goal
    <3>1. reading' = reading \cup {[reader |-> d, key |-> q, days |-> hcmBalance[q]]}
      BY <2>3 DEF RefreshRead
    <3>2. CASE a = d
      BY <1>0, <2>3, <3>2 DEF Hears
    <3>3. CASE a # d
      BY <1>0, <1>2, <2>1, <2>3, <3>1, <3>3, HoldersAre DEF Hears
    <3>. QED
      BY <3>2, <3>3
  <2>4. ASSUME NEW s \in reading, RefreshUpsert(s), TakesOver(s.reader, s.key) PROVE Goal
    <3>1. t \in reading /\ t # s
      BY <2>1, <2>4 DEF RefreshUpsert
    <3>2. a # s.reader
      BY <2>1, <2>4, <3>1 DEF TellInv, ReadersTell
    <3>. QED
      BY <1>0, <1>2, <2>1, <2>4, <3>1, <3>2, HoldersAre DEF TakesOver
  <2>. QED
    BY <2>2, <2>3, <2>4 DEF TimedRefresh
<1>3. ASSUME a \in Workers PROVE Goal
  <2>1. job'[a].pc = "accepted" /\ KeyOf[job'[a].request] = k
    BY <1>3, HoldersAreNext
  <2>2. ASSUME job'[a] = job[a], heardAt'[a] = heardAt[a] PROVE Goal
    BY <1>3, <2>1, <2>2, HoldersAre
  <2>3. CASE ~TimedSubmission
    BY <1>3, <2>1, <2>2, <2>3, WorkersFrame
  <2>4. ASSUME NEW w \in Workers, SubmitAccepted(w), Hears(w, Now + 1) PROVE Goal
    <3>1. CASE a = w
      BY <1>0, <2>4, <3>1 DEF Hears
    <3>2. CASE a # w
      BY <1>0, <1>3, <2>2, <2>4, <3>2 DEF SubmitAccepted, Hears
    <3>. QED
      BY <3>1, <3>2
  <2>5. ASSUME NEW w \in Workers, ConfirmSubmission(w), ConfirmsWithoutTime(w) PROVE Goal
    <3>1. a # w /\ job'[a] = job[a]
      BY <1>0, <1>3, <2>1, <2>5 DEF ConfirmSubmission, TakeNext
    <3>. QED
      BY <1>0, <1>3, <2>2, <2>5, <3>1 DEF ConfirmsWithoutTime
  <2>6. ASSUME NEW w \in Workers, OtherWorkStep(w), ForgetLost PROVE Goal
    <3>1. a # w /\ job'[a] = job[a]
      BY <1>0, <1>3, <2>1, <2>6 DEF OtherWorkStep, WorkStep, PrepareFirst, PrepareRetry,
         Prepared, PrepareStale, SubmitFails, SubmitRefused, SubmitAccepted,
         ConfirmSubmission, RejectSubmission, RecordingFails, ScheduleSubmissionRetry,
         TakeNext, Goto
    <3>. QED
      BY <1>3, <2>1, <2>2, <2>6, <3>1, HoldersRemember
  <2>7. ASSUME NEW w \in Workers, StartProcessing(w), KeepTimes PROVE Goal
    <3>1. a # w /\ job'[a] = job[a]
      BY <1>0, <1>3, <2>1, <2>7 DEF StartProcessing, WorkerIdle
    <3>. QED
      BY <2>2, <2>7, <3>1 DEF KeepTimes
  <2>8. ASSUME NEW r \in Requests, RetryDue(r), KeepTimes PROVE Goal
    BY <2>2, <2>8 DEF RetryDue, KeepTimes
  <2>. QED
    BY <2>3, <2>4, <2>5, <2>6, <2>7, <2>8 DEF TimedSubmission
<1>4. ASSUME a \in Reconcilers PROVE Goal
  <2>1. audit'[a].pc = "upsert" /\ audit'[a].key = k
    BY <1>4, HoldersAreNext
  <2>2. ASSUME audit'[a] = audit[a], heardAt'[a] = heardAt[a] PROVE Goal
    BY <1>4, <2>1, <2>2, HoldersAre
  <2>3. CASE ~TimedReconcile
    BY <1>4, <2>1, <2>2, <2>3, AuditsFrame
  <2>4. ASSUME NEW x \in Reconcilers, NEW q \in Keys, ReconcileRead(x, q), Hears(x, Now)
        PROVE  Goal
    <3>1. CASE a = x
      BY <1>0, <2>4, <3>1 DEF Hears
    <3>2. CASE a # x
      BY <1>0, <1>4, <2>2, <2>4, <3>2 DEF ReconcileRead, Hears
    <3>. QED
      BY <3>1, <3>2
  <2>5. ASSUME NEW x \in Reconcilers, ReconcileUpsert(x), TakesOver(x, audit[x].key) PROVE Goal
    <3>1. a # x /\ audit'[a] = audit[a]
      BY <1>4, <2>1, <2>5, UpsertStep DEF AuditStep
    <3>. QED
      BY <1>0, <1>4, <2>2, <2>5, <3>1 DEF TakesOver
  <2>6. ASSUME NEW x \in Reconcilers, AuditStep(x), KeepTimes PROVE Goal
    BY <1>4, <2>1, <2>2, <2>6, UpsertStep DEF KeepTimes
  <2>. QED
    BY <2>3, <2>4, <2>5, <2>6 DEF TimedReconcile
<1>. QED
  BY <1>2, <1>3, <1>4, HoldersAreNext DEF Listeners

\* A step leaves the balance and the time of a pair alone, stores an answer that
\* is held about it, with its time or without, or ingests a batch that is new and
\* not older than the time.
Leaves(k) == origin'[k] = origin[k] /\ lastHcmSnapshotAt'[k] = lastHcmSnapshotAt[k]

Stores(a, k) ==
    /\ a \in Holders(k) /\ a \notin Holders(k)'
    /\ origin'[k] = heardAt[a]
    /\ lastHcmSnapshotAt'[k] \in {lastHcmSnapshotAt[k], heardAt[a]}

Ingests(d, k) ==
    /\ origin'[k] = sent[d.batch]
    /\ lastHcmSnapshotAt'[k] = sent[d.batch]
    /\ ~(lastHcmSnapshotAt[k] > sent[d.batch])
    /\ ingested' # ingested

LEMMA StoresStep ==
    ASSUME TypeOK, TypeOK', TimesTypeOK, TellInv, TimedNext, NEW k \in Keys
    PROVE  \/ Leaves(k)
           \/ \E a \in Holders(k) : Stores(a, k)
           \/ \E d \in delivery : Ingests(d, k)
<1> DEFINE Goal == \/ Leaves(k)
                   \/ \E a \in Holders(k) : Stores(a, k)
                   \/ \E d \in delivery : Ingests(d, k)
<1>0. /\ origin \in [Keys -> 0..Now] /\ lastHcmSnapshotAt \in [Keys -> 0..Now]
      /\ job \in [Workers -> JobRows]
      /\ \A s \in reading : s.reader \in Readers
  BY DEF TypeOK, ReadingTypeOK, Snapshots, JobTypeOK, TimesTypeOK
<1>1. CASE UNCHANGED <<origin, lastHcmSnapshotAt>>
  BY <1>1 DEF Leaves
<1>2. ASSUME NEW a, NEW q \in Keys, TakesOver(a, q), q = k => a \in Holders(k) /\ a \notin Holders(k)'
      PROVE  Goal
  <2>1. CASE q = k
    BY <1>0, <1>2, <2>1 DEF TakesOver, Stores
  <2>2. CASE q # k
    BY <1>0, <1>2, <2>2 DEF TakesOver, Leaves
  <2>. QED
    BY <2>1, <2>2
<1>3. ASSUME NEW s \in reading, RefreshUpsert(s), TakesOver(s.reader, s.key) PROVE Goal
  <2>1. s.key \in Keys /\ s.reader \in Readers
    BY <1>3 DEF TypeOK, ReadingTypeOK, Snapshots
  <2>2. s.key = k => s.reader \in Holders(k)
    BY <2>1, HoldersAre
  <2>3. \A t \in reading' : t.reader # s.reader
    BY <1>3 DEF RefreshUpsert, TellInv, ReadersTell
  <2>4. s.reader \notin Holders(k)'
    BY <2>1, <2>3, HoldersAreNext
  <2>. QED
    BY <1>2, <1>3, <2>1, <2>2, <2>4
<1>4. ASSUME NEW x \in Reconcilers, ReconcileUpsert(x), TakesOver(x, audit[x].key) PROVE Goal
  <2>1. audit[x].pc = "upsert" /\ audit[x].key \in Keys
    BY <1>4 DEF TypeOK, AuditTypeOK, ReconcileUpsert, At
  <2>2. audit'[x].pc # "upsert"
    BY <1>4, UpsertStep DEF AuditStep
  <2>3. audit[x].key = k => x \in Holders(k)
    BY <2>1, HoldersAre
  <2>4. x \notin Holders(k)'
    BY <2>2, HoldersAreNext
  <2>. QED
    BY <1>2, <1>4, <2>1, <2>3, <2>4
<1>5. ASSUME NEW w \in Workers, ConfirmSubmission(w), ConfirmsWithoutTime(w) PROVE Goal
  <2> DEFINE q == KeyOf[job[w].request]
  <2>1. q \in Keys /\ job[w].pc = "accepted"
    BY <1>5, KeyOfAssumption DEF TypeOK, JobTypeOK, ConfirmSubmission
  <2>2. job'[w].pc = "next"
    BY <1>0, <1>5 DEF ConfirmSubmission, TakeNext
  <2>3. CASE q = k
    <3>1. w \in Holders(k) /\ w \notin Holders(k)'
      BY <2>1, <2>2, <2>3, HoldersAre, HoldersAreNext
    <3>. QED
      BY <1>0, <1>5, <2>3, <3>1 DEF ConfirmsWithoutTime, Stores
  <2>4. CASE q # k
    BY <1>0, <1>5, <2>4 DEF ConfirmsWithoutTime, Leaves
  <2>. QED
    BY <2>3, <2>4
<1>6. ASSUME NEW d \in delivery, NEW rows, TimedIngest(d, rows) PROVE Goal
  <2>1. CASE k \in DOMAIN rows
    <3>1. ingested' # ingested
      BY <1>6 DEF TimedIngest, IngestBatch, IsNew
    <3>. QED
      BY <1>6, <2>1, <3>1 DEF TimedIngest, FreshRows, Stale, Ingests
  <2>2. CASE k \notin DOMAIN rows
    BY <1>6, <2>2 DEF TimedIngest, Leaves
  <2>. QED
    BY <2>1, <2>2
<1>7. \/ UNCHANGED <<origin, lastHcmSnapshotAt>>
      \/ \E s \in reading : RefreshUpsert(s) /\ TakesOver(s.reader, s.key)
      \/ \E x \in Reconcilers : ReconcileUpsert(x) /\ TakesOver(x, audit[x].key)
      \/ \E w \in Workers : ConfirmSubmission(w) /\ ConfirmsWithoutTime(w)
      \/ \E d \in delivery, rows \in RowSets : TimedIngest(d, rows)
  BY DEF TimedNext, TimedRefresh, TimedSubmission, TimedReconcile, TimedBatch, TimedDeath,
     Export, Hears, ForgetLost, KeepTimes
<1>. QED
  BY <1>1, <1>3, <1>4, <1>5, <1>6, <1>7

\* Whoever holds an answer has heard it after all that is stored of the pair, and
\* a stored balance is not older than its projection says.
GrowInv ==
    \A k \in Keys :
        /\ lastHcmSnapshotAt[k] <= origin[k]
        /\ \A a \in Holders(k) : heardAt[a] >= origin[k]

\* A stored answer is the only one that was held, and there is no delivery then.
LEMMA GrowInductive ==
    TypeOK /\ TypeOK' /\ TimeInv /\ AnswersApart /\ GrowInv /\ TimedNext => GrowInv'
<1> SUFFICES ASSUME TypeOK, TypeOK', TimeInv, AnswersApart, GrowInv, TimedNext, NEW k \in Keys
             PROVE  /\ lastHcmSnapshotAt'[k] <= origin'[k]
                    /\ \A a \in Holders(k)' : heardAt'[a] >= origin'[k]
  BY DEF GrowInv
<1>0. /\ origin[k] \in 0..Now /\ lastHcmSnapshotAt[k] \in 0..Now /\ Now \in Nat
      /\ \A a \in Listeners : heardAt[a] \in 0..Now
      /\ \A b \in Batches : sent[b] \in 0..Now
      /\ \A d \in delivery : d.batch \in Batches
      /\ Holders(k) \subseteq Listeners /\ Holders(k)' \subseteq Listeners
      /\ \A a \in Listeners : heardAt'[a] \in Nat
  <2>1. Now' \in Nat /\ heardAt' \in [Listeners -> 0..Now']
    BY TimesTypeInductive, PastStep DEF TimeInv, TellInv, TimesTypeOK, TimedNext
  <2>2. \A a \in Listeners : heardAt'[a] \in Nat
    BY <2>1
  <2>. QED
    BY <2>2, HoldersAre, HoldersAreNext
    DEF TypeOK, BatchTypeOK, Deliveries, TimeInv, TimesTypeOK, Now
<1>1. \A a \in Holders(k)' : \/ heardAt'[a] >= Now
                             \/ a \in Holders(k) /\ heardAt'[a] = heardAt[a]
  BY AnswersStep DEF TimeInv
<1>2. CASE Leaves(k)
  BY <1>0, <1>1, <1>2 DEF Leaves, GrowInv
<1>3. ASSUME NEW a \in Holders(k), Stores(a, k)
      PROVE  /\ lastHcmSnapshotAt'[k] <= origin'[k]
             /\ \A b \in Holders(k)' : heardAt'[b] >= origin'[k]
  <2>1. \A b \in Holders(k)' : heardAt'[b] >= Now
    BY <1>1, <1>3 DEF Stores, AnswersApart
  <2>. QED
    BY <1>0, <1>3, <2>1 DEF Stores, GrowInv
<1>4. ASSUME NEW d \in delivery, Ingests(d, k)
      PROVE  /\ lastHcmSnapshotAt'[k] <= origin'[k]
             /\ \A b \in Holders(k)' : heardAt'[b] >= origin'[k]
  <2>1. \A b \in Holders(k)' : heardAt'[b] >= Now
    BY <1>1, <1>4 DEF AnswersApart
  <2>. QED
    BY <1>0, <1>4, <2>1 DEF Ingests
<1>. QED
  BY <1>2, <1>3, <1>4, StoresStep DEF TimeInv

\* What a step does to the time and the age of a balance then.
LEMMA AgeStep ==
    ASSUME TypeOK, TypeOK', TimeInv, GrowInv, TimedNext, NEW k \in Keys
    PROVE  /\ lastHcmSnapshotAt'[k] >= lastHcmSnapshotAt[k]
           /\ origin'[k] < origin[k] => ingested' # ingested /\ lastHcmSnapshotAt[k] < origin[k]
<1>0. /\ origin[k] \in 0..Now /\ lastHcmSnapshotAt[k] \in 0..Now /\ Now \in Nat
      /\ \A a \in Listeners : heardAt[a] \in 0..Now
      /\ \A b \in Batches : sent[b] \in 0..Now
      /\ \A d \in delivery : d.batch \in Batches
      /\ Holders(k) \subseteq Listeners
  BY HoldersAre DEF TypeOK, BatchTypeOK, Deliveries, TimeInv, TimesTypeOK, Now
<1>1. CASE Leaves(k)
  BY <1>0, <1>1 DEF Leaves
<1>2. ASSUME NEW a \in Holders(k), Stores(a, k)
      PROVE  lastHcmSnapshotAt'[k] >= lastHcmSnapshotAt[k] /\ ~(origin'[k] < origin[k])
  BY <1>0, <1>2 DEF Stores, GrowInv
<1>3. ASSUME NEW d \in delivery, Ingests(d, k)
      PROVE  /\ lastHcmSnapshotAt'[k] >= lastHcmSnapshotAt[k]
             /\ origin'[k] < origin[k] => ingested' # ingested /\ lastHcmSnapshotAt[k] < origin[k]
  BY <1>0, <1>3 DEF Ingests
<1>. QED
  BY <1>1, <1>2, <1>3, StoresStep DEF TimeInv

\* Answers are apart in every state of such a behaviour, which is one of the
\* service's with times.
LEMMA TimedApartBehaviours ==
    TimedApartSpec => TimedSpec /\ [](TypeOK /\ TimeInv /\ AnswersApart /\ GrowInv)
<1>1. TimedInit => AnswersApart /\ GrowInv
  <2>1. ASSUME TimedInit, NEW k PROVE Holders(k) = {}
    BY <2>1 DEF TimedInit, Init, ReadingInit, JobInit, NoJob, AuditInit, NoAudit, Holders, At
  <2>. QED
    BY <2>1 DEF AnswersApart, GrowInv, TimedInit
<1>2. ASSUME UNCHANGED timedVars PROVE AnswersApart' = AnswersApart /\ GrowInv' = GrowInv
  BY <1>2 DEF timedVars, timeVars, vars, batchVars, AnswersApart, GrowInv, Holders, At
<1>3. AnswersApart /\ [TimedNext /\ AnswersApart']_timedVars => AnswersApart'
  BY <1>2
<1>4. TypeOK /\ TypeOK' /\ TimeInv /\ AnswersApart /\ GrowInv /\ [TimedNext]_timedVars => GrowInv'
  BY <1>2, GrowInductive
<1>5. [TimedNext /\ AnswersApart']_timedVars => [TimedNext]_timedVars
  OBVIOUS
<1>6. TimedSpec => [](TypeOK /\ CallInv /\ PresentInv)
  BY TimesRefine, PresentInvariant, PTL
<1>. QED
  BY <1>1, <1>3, <1>4, <1>5, <1>6, TimeInitial, TimeInductive, PTL
  DEF TimedApartSpec, TimedSpec

\* As long as an answer is stored before another balance of its pair is, no late or
\* repeated batch, refresh or reconciliation sets the snapshot time of a projection
\* back (SnapshotTimesGrow).
THEOREM TimesGrow == TimedApartSpec => SnapshotTimesGrow
<1>1. TypeOK /\ TypeOK' /\ TimeInv /\ GrowInv /\ [TimedNext]_timedVars
        => [\A k \in Keys : lastHcmSnapshotAt'[k] >= lastHcmSnapshotAt[k]]_timedVars
  BY AgeStep
<1>. QED
  BY <1>1, TimedApartBehaviours, PTL DEF TimedSpec, SnapshotTimesGrow

\* Then an older balance replaces a newer one only if a batch undoes a confirmation
\* (OnlyConfirmationsAreUndone): every other balance carries its time.
THEOREM BalancesOnlyAgeByBatch == TimedApartSpec => OnlyConfirmationsAreUndone
<1>1. TypeOK /\ TypeOK' /\ TimeInv /\ GrowInv /\ [TimedNext]_timedVars
        => [\A k \in Keys :
               origin'[k] < origin[k]
                  => ingested' # ingested /\ lastHcmSnapshotAt[k] < origin[k]]_timedVars
  BY AgeStep
<1>. QED
  BY <1>1, TimedApartBehaviours, PTL DEF TimedSpec, OnlyConfirmationsAreUndone

\* Handlers that do not overlap keep the answers apart: what is proved of
\* TimedApartSpec is true of them.
THEOREM SerialAnswersAreApart == TimedSpec /\ ~Overlap => TimedApartSpec
<1>1. ASSUME TypeOK, Alone PROVE AnswersApart
  <2> SUFFICES ASSUME NEW k \in Keys, NEW a \in Holders(k), NEW b \in Holders(k)
               PROVE  a = b /\ delivery = {}
    BY DEF AnswersApart
  <2>1. Holders(k) \subseteq Listeners
    BY <1>1, HoldersAre
  <2>2. CASE a \in Readers
    BY <1>1, <2>1, <2>2, HoldersAre DEF Alone, AuditsIdle, WorkersIdle, AuditIdle, WorkerIdle,
       Listeners
  <2>3. CASE a \in Workers
    BY <1>1, <2>1, <2>3, HoldersAre DEF Alone, OnlyWorker, NoAnswers, AuditsIdle, AuditIdle,
       WorkerIdle, Listeners
  <2>4. CASE a \in Reconcilers
    BY <1>1, <2>1, <2>4, HoldersAre DEF Alone, OnlyAudit, NoAnswers, WorkersIdle, AuditIdle,
       WorkerIdle, Listeners
  <2>. QED
    BY <2>1, <2>2, <2>3, <2>4 DEF Listeners
<1>2. TypeOK /\ Alone => AnswersApart
  BY <1>1
<1>3. TypeOK' /\ Alone' => AnswersApart'
  BY <1>2, PTL
<1>4. TypeOK' /\ Alone' /\ [TimedNext]_timedVars => [TimedNext /\ AnswersApart']_timedVars
  BY <1>3
<1>5. Spec /\ ~Overlap => [](TypeOK /\ Alone)
  BY AloneInitial, AloneInductive, Typing, PTL DEF Spec
<1>6. TimedSpec /\ ~Overlap => [](TypeOK /\ Alone)
  BY <1>5, TimesRefine, PTL
<1>. QED
  BY <1>4, <1>6, PTL DEF TimedSpec, TimedApartSpec

=============================================================================
