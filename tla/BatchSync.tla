------------------------------ MODULE BatchSync ------------------------------
(***************************************************************************)
(* POST /hcm-sync/batch-balances (HcmIntegrationService): HCM delivers a   *)
(* batch of balances, possibly more than once.  A delivery looks whether   *)
(* the batch has an inbound event, and if not ingests it in one            *)
(* transaction: it inserts the event, applies the rows that are not stale, *)
(* and writes a ledger entry for each balance that changed.                *)
(*                                                                         *)
(* Which rows are stale is a question of snapshot times, which this module *)
(* does not have: `rows` are the rows that pass the comparison, whichever  *)
(* they are.  Module SnapshotTimes adds the times.                         *)
(*                                                                         *)
(* A batch has at most one row for a pair.                                 *)
(***************************************************************************)
EXTENDS MockHcm

CONSTANTS
    Batches,    \* batch ids
    Senders,    \* deliveries that can be in flight together
    MaxDays     \* bound: the days of a row

ASSUME MaxDaysAssumption == MaxDays \in Nat

VARIABLES
    delivery,   \* the deliveries that found no event for their batch
    ingested,   \* HcmSyncEvent: the batches with an INBOUND event
    replaced    \* BalanceLedgerEntry: keys of the HCM_SNAPSHOT_REPLACED entries

batchVars == <<delivery, ingested, replaced>>

Deliveries == [sender : Senders, batch : Batches]

BatchTypeOK ==
    /\ delivery \subseteq Deliveries
    /\ ingested \subseteq Batches
    /\ replaced \subseteq Batches \X Keys

BatchInit ==
    /\ delivery = {}
    /\ ingested = {}
    /\ replaced = {}

SenderIdle(s) == \A d \in delivery : d.sender # s

\* What the rows of a batch say.
RowSets == UNION {[S -> 0..MaxDays] : S \in SUBSET Keys}

-----------------------------------------------------------------------------

\* findUnique finds nothing; else the delivery ends as ALREADY_PROCESSED.
BatchArrives(s, b) ==
    /\ SenderIdle(s)
    /\ b \notin ingested
    /\ delivery' = delivery \cup {[sender |-> s, batch |-> b]}
    /\ UNCHANGED <<ingested, replaced, storeVars, hcmVars>>

\* Mutant: an event table without its unique index.
AlwaysNew(b) == TRUE

\* The unique index on the event's direction, type and key admits one insert.
IsNew(b) == b \notin ingested

\* The rows that change the balance: a missing projection differs from any.
Changed(rows) ==
    {k \in DOMAIN rows : \/ projection[k].syncStatus = "ABSENT"
                         \/ projection[k].availableDays # rows[k]}

\* The ledger's CHECK (deltaDays <> 0) refuses the entry for a new projection
\* of 0 days.
Refused(rows) == \E k \in DOMAIN rows : projection[k].syncStatus = "ABSENT" /\ rows[k] = 0

IngestBatch(d, rows) ==
    /\ d \in delivery
    /\ IsNew(d.batch)
    /\ ~Refused(rows)
    /\ projection' = [k \in Keys |->
            IF k \in DOMAIN rows
            THEN [projection[k] EXCEPT !.availableDays = rows[k], !.syncStatus = "IN_SYNC",
                                       !.version = @ + 1]
            ELSE projection[k]]
    /\ replaced' = replaced \cup ({d.batch} \X Changed(rows))
    /\ ingested' = ingested \cup {d.batch}
    /\ delivery' = delivery \ {d}
    /\ UNCHANGED <<request, ledger, event, hcmVars>>

\* The transaction rolls back: no row is applied and there is no event.
IngestFails(d, rows) ==
    /\ d \in delivery
    /\ ~IsNew(d.batch) \/ Refused(rows)
    /\ delivery' = delivery \ {d}
    /\ UNCHANGED <<ingested, replaced, storeVars, hcmVars>>

=============================================================================
