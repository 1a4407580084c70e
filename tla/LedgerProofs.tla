---------------------------- MODULE LedgerProofs ----------------------------
(***************************************************************************)
(* Proof of LedgerExplainsReserved, and that the ledger books one answer   *)
(* of HCM to a request at most.  The days of a set of ledger entries are   *)
(* counted as units, one <<entry, i>> for each day i, so that booking one  *)
(* entry adds a disjoint set of units to its sum (NewEntry).               *)
(***************************************************************************)
EXTENDS CommandProofs

Booked(k)   == Cardinality(DayUnits(EntriesOf(k, {"reserved"})))
Returned(k) == Cardinality(DayUnits(EntriesOf(k, ReturnKinds)))

\* The induction needs more than the equation: that the sums are finite, and
\* that a request that is not in the table has no reservation booked, so that
\* a create always adds an entry.
BookInv ==
    /\ IsFiniteSet(DayUnits(ledger))
    /\ \A r \in Requests : <<"reserved", r>> \in ledger => request[r].status # "ABSENT"
    /\ LedgerExplainsReserved

-----------------------------------------------------------------------------

\* n days of something whose days are not in a sum of days add n to the sum.
LEMMA DaysAdded ==
    ASSUME NEW S, IsFiniteSet(S), NEW e, NEW n, n \in Nat, S \cap ({e} \X (1..n)) = {}
    PROVE  /\ IsFiniteSet(S \cup ({e} \X (1..n)))
           /\ Cardinality(S \cup ({e} \X (1..n))) = Cardinality(S) + n
<1> DEFINE I == 1..n
           U == {e} \X I
<1>1. IsFiniteSet(I) /\ Cardinality(I) = n
  <2>1. n \in Int /\ 1 \in Int
    OBVIOUS
  <2>2. IsFiniteSet(1..n) /\ Cardinality(1..n) = IF 1 > n THEN 0 ELSE n - 1 + 1
    BY <2>1, FS_Interval
  <2>. QED
    BY <2>2
<1>2. IsFiniteSet({e}) /\ Cardinality({e}) = 1
  BY FS_Singleton
<1> HIDE DEF I
<1>3. IsFiniteSet(U) /\ Cardinality(U) = 1 * n
  BY <1>1, <1>2, FS_Product
<1> HIDE DEF U
<1>4. /\ IsFiniteSet(S \cup U)
      /\ Cardinality(S \cup U) = Cardinality(S) + Cardinality(U) - Cardinality(S \cap U)
  BY <1>3, FS_Union
<1>5. Cardinality(S \cap U) = 0 /\ Cardinality(S) \in Nat
  BY FS_EmptySet, FS_CardinalityType DEF U, I
<1>. QED
  BY <1>3, <1>4, <1>5 DEF U, I

\* The units of one more entry are disjoint from those of the others.
LEMMA UnitsOfOneMore ==
    ASSUME NEW E, NEW e, e \notin E, DaysOf[e[2]] \in Nat, IsFiniteSet(DayUnits(E))
    PROVE  /\ IsFiniteSet(DayUnits(E \cup {e}))
           /\ Cardinality(DayUnits(E \cup {e})) = Cardinality(DayUnits(E)) + DaysOf[e[2]]
<1>1. DayUnits(E \cup {e}) = DayUnits(E) \cup ({e} \X (1..DaysOf[e[2]]))
  BY DEF DayUnits
<1>2. DayUnits(E) \cap ({e} \X (1..DaysOf[e[2]])) = {}
  BY DEF DayUnits
<1> DEFINE S == DayUnits(E)
           n == DaysOf[e[2]]
<1>3. IsFiniteSet(S) /\ n \in Nat /\ S \cap ({e} \X (1..n)) = {}
  BY <1>2
<1> HIDE DEF S, n
<1>4. /\ IsFiniteSet(S \cup ({e} \X (1..n)))
      /\ Cardinality(S \cup ({e} \X (1..n))) = Cardinality(S) + n
  BY <1>3, DaysAdded, Zenon
<1>. QED
  BY <1>1, <1>4 DEF S, n

\* The units of a part of the ledger are finitely many, so they can be counted.
LEMMA UnitsFinite ==
    ASSUME IsFiniteSet(DayUnits(ledger)), NEW k, NEW kinds
    PROVE  /\ IsFiniteSet(DayUnits(EntriesOf(k, kinds)))
           /\ Cardinality(DayUnits(EntriesOf(k, kinds))) \in Nat
<1>1. DayUnits(EntriesOf(k, kinds)) \subseteq DayUnits(ledger)
  BY DEF DayUnits, EntriesOf
<1>2. IsFiniteSet(DayUnits(EntriesOf(k, kinds)))
  BY <1>1, FS_Subset
<1>. QED
  BY <1>2, FS_CardinalityType

\* What one new entry for request r does to the sums of key k.
LEMMA NewEntry ==
    ASSUME IsFiniteSet(DayUnits(ledger)), NEW kind, NEW r \in Requests,
           <<kind, r>> \notin ledger, ledger' = ledger \cup {<<kind, r>>},
           NEW k, NEW kinds
    PROVE  /\ IsFiniteSet(DayUnits(ledger))'
           /\ Cardinality(DayUnits(EntriesOf(k, kinds)))' =
                 Cardinality(DayUnits(EntriesOf(k, kinds)))
                   + (IF KeyOf[r] = k /\ kind \in kinds THEN DaysOf[r] ELSE 0)
<1> DEFINE e == <<kind, r>>
<1>1. e \notin ledger /\ e[1] = kind /\ e[2] = r /\ DaysOf[e[2]] \in Nat
  BY DaysOfAssumption
<1>2. IsFiniteSet(DayUnits(ledger \cup {e}))
  BY <1>1, UnitsOfOneMore
<1>3. IsFiniteSet(DayUnits(ledger))'
  BY <1>2 DEF DayUnits
<1>4. /\ IsFiniteSet(DayUnits(EntriesOf(k, kinds)))
      /\ Cardinality(DayUnits(EntriesOf(k, kinds))) \in Nat
  BY UnitsFinite
<1>5. CASE KeyOf[r] = k /\ kind \in kinds
  <2>1. EntriesOf(k, kinds)' = EntriesOf(k, kinds) \cup {e} /\ e \notin EntriesOf(k, kinds)
    BY <1>1, <1>5 DEF EntriesOf
  <2>2. Cardinality(DayUnits(EntriesOf(k, kinds) \cup {e})) =
           Cardinality(DayUnits(EntriesOf(k, kinds))) + DaysOf[e[2]]
    BY <1>1, <1>4, <2>1, UnitsOfOneMore
  <2>3. DayUnits(EntriesOf(k, kinds))' = DayUnits(EntriesOf(k, kinds) \cup {e})
    BY <2>1 DEF DayUnits
  <2>. QED
    BY <1>3, <1>5, <2>2, <2>3
<1>6. CASE ~(KeyOf[r] = k /\ kind \in kinds)
  <2>1. EntriesOf(k, kinds)' = EntriesOf(k, kinds)
    BY <1>1, <1>6 DEF EntriesOf
  <2>2. DayUnits(EntriesOf(k, kinds))' = DayUnits(EntriesOf(k, kinds))
    BY <2>1 DEF DayUnits
  <2>. QED
    BY <1>3, <1>4, <1>6, <2>2
<1>. QED
  BY <1>5, <1>6

-----------------------------------------------------------------------------

\* A step books a reservation, returns one, or leaves the book alone.
LEMMA BookStep ==
    ASSUME TypeOK, [Next]_vars
    PROVE  \/ /\ ledger' = ledger
              /\ \A k \in Keys : projection'[k].reservedDays = projection[k].reservedDays
           \/ \E c \in Callers : CreateReserve(c)
           \/ \E kind \in ReturnKinds, r \in Requests, d \in Nat :
                 CanRelease(kind, r) /\ ReleaseReservation(kind, r, d)
<1> DEFINE Kept == /\ ledger' = ledger
                   /\ \A k \in Keys : projection'[k].reservedDays = projection[k].reservedDays
           Gave == \E kind \in ReturnKinds, r \in Requests, d \in Nat :
                      CanRelease(kind, r) /\ ReleaseReservation(kind, r, d)
<1>0. projection \in [Keys -> ProjectionRows] /\ KeyOf \in [Requests -> Keys]
  BY KeyOfAssumption DEF TypeOK, StoreTypeOK
<1>1. CASE ledger' = ledger /\ projection' = projection
  BY <1>1
<1>2. ASSUME NEW c \in Callers, RejectSave(c) \/ CancelSave(c) PROVE Gave
  <2>1. call[c].request \in Requests
    BY <1>2 DEF TypeOK, CallTypeOK, RejectSave, CancelSave, Running
  <2>2. projection[KeyOf[call[c].request]].availableDays \in Nat
    BY <1>0, <2>1 DEF ProjectionRows
  <2>. QED
    BY <1>2, <2>1, <2>2 DEF RejectSave, CancelSave, ReturnKinds
<1>3. ASSUME NEW w \in Workers, ConfirmSubmission(w) \/ RejectSubmission(w) PROVE Gave
  <2>1. job[w].request \in Requests /\ job[w].days \in Nat
    BY <1>3 DEF TypeOK, JobTypeOK, JobRows, ConfirmSubmission, RejectSubmission
  <2>2. projection[KeyOf[job[w].request]].availableDays \in Nat
    BY <1>0, <2>1 DEF ProjectionRows
  <2>. QED
    BY <1>3, <2>1, <2>2 DEF ConfirmSubmission, RejectSubmission, ReturnKinds
<1>4. ASSUME NEW s \in reading, RefreshUpsert(s) PROVE Kept
  <2>1. s.key \in Keys /\ s.days \in Nat /\ UpsertFromHcmSnapshot(s.key, s.days)
    BY <1>4 DEF TypeOK, ReadingTypeOK, Snapshots, RefreshUpsert
  <2>. QED
    BY <1>4, <2>1, UpsertEffect DEF RefreshUpsert
<1>5. CASE Command
  <2>1. PICK c \in Callers : BeginCommand(c) \/ FinishCommand(c)
    BY <1>5 DEF Command
  <2>2. \/ ledger' = ledger /\ projection' = projection
        \/ CreateReserve(c)
        \/ RejectSave(c) \/ CancelSave(c)
    BY <2>1 DEF BeginCommand, FinishCommand, CreateRead, ApproveLoad, RejectLoad,
       CancelLoad, CreateConflict, ApproveSave, ApproveConflict, RejectConflict,
       CancelConflict, storeVars
  <2>. QED
    BY <1>1, <1>2, <2>2
<1>6. CASE Submission
  <2>1. \/ ledger' = ledger /\ projection' = projection
        \/ \E w \in Workers : ConfirmSubmission(w) \/ RejectSubmission(w)
    BY <1>6 DEF Submission, StartProcessing, WorkStep, PrepareFirst, PrepareRetry,
       PrepareStale, SubmitFails, SubmitRefused, SubmitAccepted, RecordingFails,
       ScheduleSubmissionRetry, RetryDue, storeVars
  <2>. QED
    BY <1>1, <1>3, <2>1
<1>7. CASE Refresh
  <2>1. \/ ledger' = ledger /\ projection' = projection
        \/ \E s \in reading : RefreshUpsert(s)
    BY <1>7 DEF Refresh, RefreshRead, storeVars
  <2>. QED
    BY <1>1, <1>4, <2>1
<1>8. CASE Reconcile
  <2>1. ASSUME NEW x \in Reconcilers, ReconcileUpsert(x) PROVE Kept
    <3>1. /\ audit[x].key \in Keys /\ audit[x].days \in Nat
          /\ UpsertFromHcmSnapshot(audit[x].key, audit[x].days)
      BY <2>1 DEF TypeOK, AuditTypeOK, AuditRows, ReconcileUpsert, At
    <3>. QED
      BY <2>1, <3>1, UpsertEffect DEF ReconcileUpsert
  <2>2. ASSUME NEW x \in Reconcilers, ReconcileReview(x) PROVE Kept
    BY <2>2, ReviewEffect DEF ReconcileReview
  <2>3. \/ ledger' = ledger /\ projection' = projection
        \/ \E x \in Reconcilers : ReconcileUpsert(x) \/ ReconcileReview(x)
    BY <1>8 DEF Reconcile, AuditStep, ReconcileRead, ReconcileList, ReconcileTake,
       ReconcileConfirm, ReconcileLook, storeVars
  <2>. QED
    BY <1>1, <2>1, <2>2, <2>3
<1>9. CASE Batch
  <2>1. ASSUME NEW d, NEW rows, IngestBatch(d, rows) PROVE Kept
    BY <2>1, IngestEffect DEF IngestBatch
  <2>2. \/ ledger' = ledger /\ projection' = projection
        \/ \E d \in delivery, rows \in RowSets : IngestBatch(d, rows)
    BY <1>9 DEF Batch, BatchArrives, IngestFails, storeVars
  <2>. QED
    BY <1>1, <2>1, <2>2
<1>10. CASE Hcm \/ Restart \/ HandlerDies \/ UNCHANGED vars
  BY <1>1, <1>10 DEF Hcm, Restart, HandlerDies, vars, storeVars
<1>. QED
  BY <1>5, <1>6, <1>7, <1>8, <1>9, <1>10 DEF Next

\* Every handler preserves the agreement of ledger and projection.
LEMMA BookInductive == TypeOK /\ CallInv /\ BookInv /\ [Next]_vars => BookInv'
<1> SUFFICES ASSUME TypeOK, CallInv, BookInv, [Next]_vars PROVE BookInv'
  OBVIOUS
<1>0. TypeOK' /\ KeyOf \in [Requests -> Keys] /\ DaysOf \in [Requests -> Nat]
  BY TypeInductive, KeyOfAssumption, DaysOfAssumption
<1>1. ASSUME NEW r \in Requests, request[r].status # "ABSENT"
      PROVE  request'[r].status # "ABSENT"
  BY <1>1, RequestPersists
<1>2. \A k \in Keys : /\ Booked(k) \in Nat /\ Returned(k) \in Nat
                      /\ projection[k].reservedDays = Booked(k) - Returned(k)
                      /\ projection[k].reservedDays \in Nat
  BY UnitsFinite DEF BookInv, LedgerExplainsReserved, Booked, Returned, TypeOK,
     StoreTypeOK, ProjectionRows
<1>3. CASE /\ ledger' = ledger
           /\ \A k \in Keys : projection'[k].reservedDays = projection[k].reservedDays
  <2>1. DayUnits(ledger)' = DayUnits(ledger)
    BY <1>3 DEF DayUnits
  <2>2. \A k \in Keys : Booked(k)' = Booked(k) /\ Returned(k)' = Returned(k)
    BY <1>3 DEF Booked, Returned, EntriesOf, DayUnits
  <2>3. LedgerExplainsReserved'
    BY <1>2, <1>3, <2>2 DEF LedgerExplainsReserved, Booked, Returned
  <2>. QED
    BY <1>1, <1>3, <2>1, <2>3 DEF BookInv
<1>4. ASSUME NEW c \in Callers, CreateReserve(c) PROVE BookInv'
  <2> DEFINE r == call[c].request
  <2>1. r \in Requests /\ request[r].status = "ABSENT"
    BY <1>4, ReserveEffect DEF CallInv, CreateReserve, Running
  <2>2. <<"reserved", r>> \notin ledger /\ ledger' = ledger \cup {<<"reserved", r>>}
    BY <1>4, <2>1 DEF BookInv, CreateReserve
  <2>3. request'[r].status # "ABSENT"
    BY <1>4, <2>1, ReserveEffect
  <2>4. IsFiniteSet(DayUnits(ledger))
    BY DEF BookInv
  <2>5. "reserved" \notin ReturnKinds
    BY DEF ReturnKinds
  <2>6. ASSUME NEW k \in Keys
        PROVE  projection'[k].reservedDays = Booked(k)' - Returned(k)'
    <3>1. Booked(k)' = Booked(k) + (IF KeyOf[r] = k THEN DaysOf[r] ELSE 0)
      BY <2>1, <2>2, <2>4, NewEntry DEF Booked
    <3>2. Returned(k)' = Returned(k)
      BY <1>2, <2>1, <2>2, <2>4, <2>5, NewEntry DEF Returned
    <3>3. projection'[k].reservedDays =
            projection[k].reservedDays + (IF KeyOf[r] = k THEN DaysOf[r] ELSE 0)
      BY <1>2, <1>4, ReserveEffect
    <3>. QED
      BY <1>0, <1>2, <2>1, <3>1, <3>2, <3>3
  <2>7. IsFiniteSet(DayUnits(ledger))'
    BY <2>1, <2>2, <2>4, NewEntry
  <2>. QED
    BY <1>1, <2>2, <2>3, <2>6, <2>7 DEF BookInv, LedgerExplainsReserved, Booked, Returned
<1>5. ASSUME NEW kind \in ReturnKinds, NEW r \in Requests, NEW d \in Nat,
             CanRelease(kind, r), ReleaseReservation(kind, r, d)
      PROVE  BookInv'
  <2>1. <<kind, r>> \notin ledger /\ ledger' = ledger \cup {<<kind, r>>}
    BY <1>5 DEF CanRelease, ReleaseReservation
  <2>2. kind # "reserved"
    BY DEF ReturnKinds
  <2>3. IsFiniteSet(DayUnits(ledger))
    BY DEF BookInv
  <2>4. ASSUME NEW k \in Keys
        PROVE  projection'[k].reservedDays = Booked(k)' - Returned(k)'
    <3>1. Booked(k)' = Booked(k)
      BY <1>2, <2>1, <2>2, <2>3, NewEntry DEF Booked
    <3>2. Returned(k)' = Returned(k) + (IF KeyOf[r] = k THEN DaysOf[r] ELSE 0)
      BY <2>1, <2>3, NewEntry DEF Returned
    <3>3. projection' = [projection EXCEPT ![KeyOf[r]].availableDays = d,
                                           ![KeyOf[r]].reservedDays = @ - DaysOf[r],
                                           ![KeyOf[r]].version = @ + 1]
      BY <1>5 DEF ReleaseReservation
    <3>4. projection'[k].reservedDays =
            projection[k].reservedDays - (IF KeyOf[r] = k THEN DaysOf[r] ELSE 0)
      BY <1>0, <1>2, <3>3 DEF TypeOK, StoreTypeOK, ProjectionRows
    <3>. QED
      BY <1>0, <1>2, <3>1, <3>2, <3>4
  <2>5. IsFiniteSet(DayUnits(ledger))'
    BY <2>1, <2>3, NewEntry
  <2>6. \A q \in Requests : <<"reserved", q>> \in ledger' => <<"reserved", q>> \in ledger
    BY <2>1, <2>2
  <2>. QED
    BY <1>1, <2>4, <2>5, <2>6 DEF BookInv, LedgerExplainsReserved, Booked, Returned
<1>. QED
  BY <1>3, <1>4, <1>5, BookStep

\* The empty database agrees with the empty ledger.
LEMMA BookInitial == Init => BookInv
<1> SUFFICES ASSUME Init PROVE BookInv
  OBVIOUS
<1>1. DayUnits({}) = {}
  BY DEF DayUnits
<1>2. ledger = {} /\ \A k \in Keys : projection[k].reservedDays = 0
  BY DEF Init, StoreInit
<1>3. \A k, kinds : EntriesOf(k, kinds) = {}
  BY <1>2 DEF EntriesOf
<1>4. IsFiniteSet(DayUnits(ledger))
  BY <1>1, <1>2, FS_EmptySet
<1>5. LedgerExplainsReserved
  BY <1>1, <1>2, <1>3, FS_EmptySet DEF LedgerExplainsReserved
<1>. QED
  BY <1>2, <1>4, <1>5 DEF BookInv

\* The ledger explains every reserved day (LedgerExplainsReserved).
THEOREM LedgerIsComplete == Spec => []LedgerExplainsReserved
<1>1. BookInv => LedgerExplainsReserved
  BY DEF BookInv
<1>. QED
  BY <1>1, BookInitial, BookInductive, CallInvariant, PTL DEF Spec

-----------------------------------------------------------------------------
(* Answers are booked once, however many runs submit a request.            *)

AnswerBooked(r) == <<"confirmed", r>> \in ledger \/ <<"released", r>> \in ledger

\* HCM's answer to a request is booked one way: its reservation is not both
\* consumed by a confirmation and given back by a rejection, even when two runs
\* submit the request and hear different answers.
OneAnswerBooked ==
    \A r \in Requests : ~(<<"confirmed", r>> \in ledger /\ <<"released", r>> \in ledger)

\* The induction needs that a request with a booked answer is out of reach of
\* the runs: confirmByHcm and rejectByHcm accept a SUBMITTED_TO_HCM request only,
\* and no handler makes it that again.
AnswerInv ==
    /\ OneAnswerBooked
    /\ \A r \in Requests :
          AnswerBooked(r)
              => request[r].status \notin {"ABSENT", "PENDING_MANAGER_APPROVAL",
                                           "APPROVED", "SUBMITTED_TO_HCM"}

\* Only a run books an answer, for the submitted request in its hands, with the
\* status that goes with it.
LEMMA AnswerStep ==
    ASSUME TypeOK, [Next]_vars
    PROVE  \/ \A r \in Requests, kind \in {"confirmed", "released"} :
                 <<kind, r>> \in ledger' => <<kind, r>> \in ledger
           \/ \E r \in Requests, kind \in {"confirmed", "released"} :
                 /\ request[r].status = "SUBMITTED_TO_HCM"
                 /\ ledger' = ledger \cup {<<kind, r>>}
                 /\ request'[r].status \in {"CONFIRMED_BY_HCM", "FAILED_HCM_VALIDATION"}
<1> DEFINE Kept == \A r \in Requests, kind \in {"confirmed", "released"} :
                      <<kind, r>> \in ledger' => <<kind, r>> \in ledger
           Answered == \E r \in Requests, kind \in {"confirmed", "released"} :
                      /\ request[r].status = "SUBMITTED_TO_HCM"
                      /\ ledger' = ledger \cup {<<kind, r>>}
                      /\ request'[r].status \in {"CONFIRMED_BY_HCM", "FAILED_HCM_VALIDATION"}
<1>1. CASE ledger' = ledger
  BY <1>1
<1>2. ASSUME NEW w \in Workers, ConfirmSubmission(w) \/ RejectSubmission(w) PROVE Answered
  <2> DEFINE r == job[w].request
  <2>1. r \in Requests /\ request[r].status = "SUBMITTED_TO_HCM"
    BY <1>2 DEF TypeOK, JobTypeOK, ConfirmSubmission, RejectSubmission, Resolvable
  <2>2. CASE ConfirmSubmission(w)
    <3>1. Settle(r, "CONFIRMED_BY_HCM", "CONFIRMED")
      BY <2>2 DEF ConfirmSubmission
    <3>2. ledger' = ledger \cup {<<"confirmed", r>>}
      BY <2>2 DEF ConfirmSubmission, ReleaseReservation
    <3>3. request'[r].status = "CONFIRMED_BY_HCM"
      BY <2>1, <3>1, SetStatusEffect
    <3>. QED
      BY <2>1, <3>2, <3>3
  <2>3. CASE RejectSubmission(w)
    <3>1. Settle(r, "FAILED_HCM_VALIDATION", "REJECTED")
      BY <2>3 DEF RejectSubmission
    <3>2. ledger' = ledger \cup {<<"released", r>>}
      BY <2>3 DEF RejectSubmission, ReleaseReservation
    <3>3. request'[r].status = "FAILED_HCM_VALIDATION"
      BY <2>1, <3>1, SetStatusEffect
    <3>. QED
      BY <2>1, <3>2, <3>3
  <2>. QED
    BY <1>2, <2>2, <2>3
<1>3. CASE Command
  <2>1. PICK c \in Callers : BeginCommand(c) \/ FinishCommand(c)
    BY <1>3 DEF Command
  <2>2. \/ ledger' = ledger
        \/ CreateReserve(c)
        \/ RejectSave(c) \/ CancelSave(c)
    BY <2>1 DEF BeginCommand, FinishCommand, CreateRead, ApproveLoad, RejectLoad,
       CancelLoad, CreateConflict, ApproveSave, ApproveConflict, RejectConflict,
       CancelConflict, storeVars
  <2>3. \/ ledger' = ledger
        \/ \E kind \in {"reserved", "rejected", "cancelled"}, q \in Requests :
              ledger' = ledger \cup {<<kind, q>>}
    BY <2>2 DEF TypeOK, CallTypeOK, CreateReserve, RejectSave, CancelSave,
       ReleaseReservation, Running
  <2>. QED
    BY <2>3
<1>4. CASE Submission
  <2>1. \/ ledger' = ledger
        \/ \E w \in Workers : ConfirmSubmission(w) \/ RejectSubmission(w)
    BY <1>4 DEF Submission, StartProcessing, WorkStep, PrepareFirst, PrepareRetry,
       PrepareStale, SubmitFails, SubmitRefused, SubmitAccepted, RecordingFails,
       ScheduleSubmissionRetry, RetryDue, storeVars
  <2>. QED
    BY <1>1, <1>2, <2>1
<1>5. CASE Reconcile
  BY <1>1, <1>5 DEF Reconcile, AuditStep, ReconcileRead, ReconcileUpsert, ReconcileList,
     ReconcileTake, ReconcileConfirm, ReconcileLook, ReconcileReview, storeVars
<1>6. CASE Refresh \/ Batch \/ Hcm \/ Restart \/ HandlerDies \/ UNCHANGED vars
  BY <1>1, <1>6 DEF Refresh, RefreshRead, RefreshUpsert, Batch, BatchArrives, IngestBatch,
     IngestFails, Hcm, Restart, HandlerDies, vars, storeVars
<1>. QED
  BY <1>3, <1>4, <1>5, <1>6 DEF Next

\* Every handler preserves that answers are booked one way.
LEMMA AnswerInductive == TypeOK /\ CallInv /\ AnswerInv /\ [Next]_vars => AnswerInv'
<1> SUFFICES ASSUME TypeOK, CallInv, AnswerInv, [Next]_vars PROVE AnswerInv'
  OBVIOUS
<1> DEFINE Answers == {"confirmed", "released"}
           Open == {"ABSENT", "PENDING_MANAGER_APPROVAL", "APPROVED", "SUBMITTED_TO_HCM"}
<1>1. ASSUME NEW r \in Requests, request[r].status \notin Open
      PROVE  request'[r].status \notin Open
  BY <1>1, DecidedStep
<1>2. CASE \A r \in Requests, kind \in Answers :
              <<kind, r>> \in ledger' => <<kind, r>> \in ledger
  BY <1>1, <1>2 DEF AnswerInv, OneAnswerBooked, AnswerBooked
<1>3. ASSUME NEW r \in Requests, NEW kind \in Answers,
             request[r].status = "SUBMITTED_TO_HCM", ledger' = ledger \cup {<<kind, r>>},
             request'[r].status \in {"CONFIRMED_BY_HCM", "FAILED_HCM_VALIDATION"}
      PROVE  AnswerInv'
  <2>1. <<"confirmed", r>> \notin ledger /\ <<"released", r>> \notin ledger
    BY <1>3 DEF AnswerInv, AnswerBooked
  <2>2. \A q \in Requests \ {r}, other \in Answers :
           <<other, q>> \in ledger' => <<other, q>> \in ledger
    BY <1>3
  <2>3. OneAnswerBooked'
    BY <1>3, <2>1, <2>2 DEF AnswerInv, OneAnswerBooked
  <2>4. \A q \in Requests : AnswerBooked(q)' => request'[q].status \notin Open
    BY <1>1, <1>3, <2>2 DEF AnswerInv, AnswerBooked
  <2>. QED
    BY <2>3, <2>4 DEF AnswerInv
<1>. QED
  BY <1>2, <1>3, AnswerStep

\* However the runs overlap, HCM's answer is booked one way (OneAnswerBooked).
THEOREM AnswersAreBookedOnce == Spec => []OneAnswerBooked
<1>1. Init => AnswerInv
  BY DEF Init, StoreInit, AnswerInv, OneAnswerBooked, AnswerBooked
<1>2. AnswerInv => OneAnswerBooked
  BY DEF AnswerInv
<1>. QED
  BY <1>1, <1>2, AnswerInductive, CallInvariant, PTL DEF Spec

=============================================================================
