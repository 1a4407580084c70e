---------------------------- MODULE TimeOffStore ----------------------------
(***************************************************************************)
(* The service's SQLite tables (prisma/schema.prisma and its migrations)   *)
(* as far as the handlers read and write them.  Every handler commits its  *)
(* writes in one transaction, so an action of the modules that extend this *)
(* one is one committed transaction, one read, or one synchronous call.    *)
(*                                                                         *)
(* A row that has not been inserted yet is a row in state "ABSENT".        *)
(* A ledger entry is its idempotency key, <<"confirmed", r>> standing for  *)
(* `request_confirmed:${r}`: the unique index on that column is what makes *)
(* the ledger a set.                                                       *)
(***************************************************************************)
EXTENDS Integers, FiniteSets

CONSTANTS
    Keys,       \* (employeeId, locationId) pairs: one balance projection each
    Requests,   \* the identifiers the database gives to created requests
    KeyOf,      \* the pair a request was created for
    DaysOf,     \* its daysRequested
    NoRequest,  \* what a handler that is not running works on
    MaxVersion  \* bound: no refresh starts on a projection of this version

ASSUME KeyOfAssumption == KeyOf \in [Requests -> Keys]

\* CreateTimeOffRequestUseCase.validate and the table's CHECK: more than zero days.
ASSUME DaysOfAssumption == DaysOf \in [Requests -> Nat \ {0}]

ASSUME NoRequestAssumption == NoRequest \notin Requests
ASSUME MaxVersionAssumption == MaxVersion \in Nat

VARIABLES
    projection, \* BalanceProjection, one row per key
    request,    \* TimeOffRequest
    ledger,     \* BalanceLedgerEntry, the idempotency keys in the table
    event       \* HcmSyncEvent, the OUTBOUND submission event of each request

storeVars == <<projection, request, ledger, event>>

-----------------------------------------------------------------------------

RequestStatus ==
    {"ABSENT", "PENDING_MANAGER_APPROVAL", "APPROVED", "REJECTED",
     "SUBMITTED_TO_HCM", "CONFIRMED_BY_HCM", "FAILED_HCM_VALIDATION",
     "CANCELLED", "CONFLICT_REVIEW"}

SubmissionStatus ==
    {"NOT_SUBMITTED", "PENDING_CONFIRMATION", "CONFIRMED", "REJECTED", "UNKNOWN"}

EventStatus ==
    {"ABSENT", "PENDING", "PROCESSED", "FAILED", "IGNORED_STALE", "UNCERTAIN"}

\* The ledger entries that put a reservation in the book and take it out.
ReturnKinds == {"rejected", "cancelled", "released", "confirmed"}
EntryKinds  == {"reserved"} \cup ReturnKinds

ProjectionRows == [availableDays : Nat, reservedDays : Nat,
                   syncStatus : {"ABSENT", "IN_SYNC", "CONFLICT"}, version : Nat]

RequestRows == [status : RequestStatus, submission : SubmissionStatus, version : Nat]

\* nextAttemptAt is null, still ahead of the clock, or reached by it.
EventRows == [status : EventStatus, attempts : Nat,
              nextAttemptAt : {"null", "future", "past"}]

StoreTypeOK ==
    /\ projection \in [Keys -> ProjectionRows]
    /\ request \in [Requests -> RequestRows]
    /\ ledger \subseteq EntryKinds \X Requests
    /\ event \in [Requests -> EventRows]

StoreInit ==
    /\ projection = [k \in Keys |-> [availableDays |-> 0, reservedDays |-> 0,
                                     syncStatus |-> "ABSENT", version |-> 0]]
    /\ request = [r \in Requests |-> [status |-> "ABSENT",
                                      submission |-> "NOT_SUBMITTED", version |-> 0]]
    /\ ledger = {}
    /\ event = [r \in Requests |-> [status |-> "ABSENT", attempts |-> 0,
                                    nextAttemptAt |-> "null"]]

-----------------------------------------------------------------------------
(* What the handlers share.                                                *)

\* The days an employee may still ask for; negative when HCM lowered the
\* balance below what is already reserved.
DisplayAvailable(k) == projection[k].availableDays - projection[k].reservedDays

\* Mutant: a table without CHECK (reservedDays >= 0).
CanReleaseUnchecked(kind, r) == <<kind, r>> \notin ledger

\* Mutant: a ledger without the unique index on idempotencyKey.
CanReleaseRepeatedly(kind, r) == projection[KeyOf[r]].reservedDays >= DaysOf[r]

\* The constraints under which the transaction that returns r's reservation
\* commits: the unique idempotency key and CHECK (reservedDays >= 0).
CanRelease(kind, r) ==
    /\ <<kind, r>> \notin ledger
    /\ projection[KeyOf[r]].reservedDays >= DaysOf[r]

\* Mutant: the decrement of reservedDays is forgotten.
ReleaseNothing(kind, r, availableDays) ==
    /\ projection' = [projection EXCEPT ![KeyOf[r]].availableDays = availableDays,
                                        ![KeyOf[r]].version = @ + 1]
    /\ ledger' = ledger \cup {<<kind, r>>}

ReleaseReservation(kind, r, availableDays) ==
    /\ projection' = [projection EXCEPT ![KeyOf[r]].availableDays = availableDays,
                                        ![KeyOf[r]].reservedDays = @ - DaysOf[r],
                                        ![KeyOf[r]].version = @ + 1]
    /\ ledger' = ledger \cup {<<kind, r>>}

\* The upsert that a refresh, a reconciliation and a batch share.  Create inserts
\* with the columns' defaults; update leaves reservedDays alone.
UpsertFromHcmSnapshot(k, days) ==
    projection' = [projection EXCEPT ![k].availableDays = days,
                                     ![k].syncStatus = "IN_SYNC",
                                     ![k].version = @ + 1]

SetStatus(r, status) ==
    request' = [request EXCEPT ![r].status = status, ![r].version = @ + 1]

Settle(r, status, submission) ==
    request' = [request EXCEPT ![r].status = status,
                               ![r].submission = submission,
                               ![r].version = @ + 1]

=============================================================================
