----------------------------- MODULE BatchProofs -----------------------------
(***************************************************************************)
(* Proof of BatchChangeIsBooked: the unique index on the batch's event     *)
(* makes the ledger entry of each change one that was not there before.    *)
(***************************************************************************)
EXTENDS TypingProofs

\* A batch has entries in the ledger only if it is ingested.
ReplacedInv == \A e \in replaced : e[1] \in ingested

\* A step ingests a batch, or leaves ingested batches and their entries alone.
LEMMA IngestStep ==
    ASSUME [Next]_vars
    PROVE  \/ UNCHANGED <<ingested, replaced>> /\ (delivery' = delivery \/ UNCHANGED projection)
           \/ \E d \in delivery, rows \in RowSets : IngestBatch(d, rows)
<1>1. CASE Batch
  BY <1>1 DEF Batch, BatchArrives, IngestFails, storeVars
<1>2. CASE Restart \/ HandlerDies
  BY <1>2 DEF Restart, HandlerDies, storeVars
<1>3. CASE Command \/ Refresh \/ Submission \/ Reconcile \/ Hcm \/ UNCHANGED vars
  BY <1>3 DEF Command, Refresh, Submission, Reconcile, Hcm, vars, batchVars
<1>. QED
  BY <1>1, <1>2, <1>3 DEF Next

\* Every handler preserves ReplacedInv.
LEMMA ReplacedInductive == ReplacedInv /\ [Next]_vars => ReplacedInv'
<1> SUFFICES ASSUME ReplacedInv, [Next]_vars PROVE ReplacedInv'
  OBVIOUS
<1>1. ASSUME NEW d, NEW rows, IngestBatch(d, rows) PROVE ReplacedInv'
  BY <1>1 DEF IngestBatch, ReplacedInv
<1>. QED
  BY <1>1, IngestStep DEF ReplacedInv

\* Every change of a balance by a batch has its own entry (BatchChangeIsBooked).
THEOREM BatchChangesAreBooked == Spec => BatchChangeIsBooked
<1> DEFINE Booked == \A k \in Keys :
              delivery' # delivery /\ projection'[k].availableDays # projection[k].availableDays
                  => \E b \in Batches : <<b, k>> \in replaced' \ replaced
<1>1. TypeOK /\ ReplacedInv /\ [Next]_vars => [Booked]_vars
  <2> SUFFICES ASSUME TypeOK, ReplacedInv, [Next]_vars, NEW k \in Keys, delivery' # delivery,
                      projection'[k].availableDays # projection[k].availableDays
               PROVE  \E b \in Batches : <<b, k>> \in replaced' \ replaced
    BY DEF Booked
  <2>1. PICK d \in delivery, rows \in RowSets : IngestBatch(d, rows)
    BY IngestStep
  <2>2. d.batch \in Batches /\ d.batch \notin ingested
    BY <2>1 DEF TypeOK, BatchTypeOK, Deliveries, IngestBatch, IsNew
  <2>3. k \in DOMAIN rows /\ projection'[k].availableDays = rows[k]
    <3>1. projection[k] \in ProjectionRows
      BY DEF TypeOK, StoreTypeOK
    <3>2. projection'[k] = IF k \in DOMAIN rows
                           THEN [projection[k] EXCEPT !.availableDays = rows[k],
                                                      !.syncStatus = "IN_SYNC", !.version = @ + 1]
                           ELSE projection[k]
      BY <2>1 DEF IngestBatch
    <3>. QED
      BY <3>1, <3>2 DEF ProjectionRows
  <2>4. k \in Changed(rows)
    BY <2>3 DEF Changed
  <2>5. <<d.batch, k>> \in replaced'
    BY <2>1, <2>4 DEF IngestBatch
  <2>6. <<d.batch, k>> \notin replaced
    BY <2>2 DEF ReplacedInv
  <2>. QED
    BY <2>2, <2>5, <2>6
<1>2. Init => ReplacedInv
  BY DEF Init, BatchInit, ReplacedInv
<1>. QED
  BY <1>1, <1>2, ReplacedInductive, TypeInitial, TypeInductive, PTL
  DEF Spec, BatchChangeIsBooked

=============================================================================
