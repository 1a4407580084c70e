-------------------------- MODULE RequestCommands ---------------------------
(***************************************************************************)
(* The commands on time-off requests: create, approve, reject, cancel.     *)
(*                                                                         *)
(* A command is two steps, because the handler awaits the database between *)
(* reading a row and writing what it decided from it: other handlers run   *)
(* in between.  What it remembers is the version of the row it read.  The  *)
(* decision needs nothing else, because the entity's check ran at the read *)
(* and the save writes constants and increments.                           *)
(*                                                                         *)
(* A command that fails its first check (404, 409, 422) changes nothing    *)
(* and is not a step.                                                      *)
(***************************************************************************)
EXTENDS TimeOffStore

CONSTANT Callers    \* the HTTP requests that can be in flight together

VARIABLE call       \* what each caller's handler is in the middle of

Commands == {"create", "approve", "reject", "cancel"}

NoCall == [op |-> "none", request |-> NoRequest, version |-> 0]

CallTypeOK ==
    /\ call \in [Callers -> [op : Commands \cup {"none"},
                             request : Requests \cup {NoRequest}, version : Nat]]
    /\ \A c \in Callers : call[c].op # "none" => call[c].request \in Requests

CallInit == call = [c \in Callers |-> NoCall]

CallerIdle(c) == call[c].op = "none"

Remember(c, op, r, version) ==
    call' = [call EXCEPT ![c] = [op |-> op, request |-> r, version |-> version]]

Return(c) == call' = [call EXCEPT ![c] = NoCall]

\* Caller c is inside command op.
Running(c, op) == call[c].op = op

\* Mutants: the same updates without the version in their WHERE clause.
AnyProjectionVersion(c) == TRUE
AnyRequestVersion(c) == TRUE

\* The WHERE clauses of the two updateMany calls that check a version.
ProjectionVersionMatches(c) ==
    projection[KeyOf[call[c].request]].version = call[c].version

RequestVersionMatches(c) ==
    request[call[c].request].version = call[c].version

-----------------------------------------------------------------------------
(* POST /time-off-requests                                                 *)

\* The database has not handed out r, and no create in flight will insert it.
Fresh(r) ==
    /\ request[r].status = "ABSENT"
    /\ \A c \in Callers : call[c].request # r

\* The guard refuses with NotFound (no projection) or InsufficientBalance.
HasBalanceFor(r) ==
    /\ projection[KeyOf[r]].syncStatus # "ABSENT"
    /\ DisplayAvailable(KeyOf[r]) >= DaysOf[r]

CreateRead(c, r) ==
    /\ CallerIdle(c)
    /\ Fresh(r)
    /\ HasBalanceFor(r)
    /\ Remember(c, "create", r, projection[KeyOf[r]].version)
    /\ UNCHANGED storeVars

CreateReserve(c) ==
    LET r == call[c].request IN
    /\ Running(c, "create")
    /\ ProjectionVersionMatches(c)
    /\ projection' = [projection EXCEPT ![KeyOf[r]].reservedDays = @ + DaysOf[r],
                                        ![KeyOf[r]].version = @ + 1]
    /\ request' = [request EXCEPT ![r] = [status |-> "PENDING_MANAGER_APPROVAL",
                                          submission |-> "NOT_SUBMITTED",
                                          version |-> 1]]
    /\ ledger' = ledger \cup {<<"reserved", r>>}
    /\ Return(c)
    /\ UNCHANGED event

\* ConcurrentBalanceUpdateError: the transaction rolls back.
CreateConflict(c) ==
    /\ Running(c, "create")
    /\ ~ProjectionVersionMatches(c)
    /\ Return(c)
    /\ UNCHANGED storeVars

-----------------------------------------------------------------------------
(* POST /time-off-requests/:id/approve                                     *)

ApproveLoad(c, r) ==
    /\ CallerIdle(c)
    /\ request[r].status = "PENDING_MANAGER_APPROVAL"
    /\ Remember(c, "approve", r, request[r].version)
    /\ UNCHANGED storeVars

\* The unique index on the event's idempotency key admits one insert.
ApproveCommits(c) ==
    /\ RequestVersionMatches(c)
    /\ event[call[c].request].status = "ABSENT"

ApproveSave(c) ==
    LET r == call[c].request IN
    /\ Running(c, "approve")
    /\ ApproveCommits(c)
    /\ SetStatus(r, "APPROVED")
    /\ event' = [event EXCEPT ![r] = [status |-> "PENDING", attempts |-> 0,
                                      nextAttemptAt |-> "null"]]
    /\ Return(c)
    /\ UNCHANGED <<projection, ledger>>

ApproveConflict(c) ==
    /\ Running(c, "approve")
    /\ ~ApproveCommits(c)
    /\ Return(c)
    /\ UNCHANGED storeVars

-----------------------------------------------------------------------------
(* POST /time-off-requests/:id/reject                                      *)

RejectLoad(c, r) ==
    /\ CallerIdle(c)
    /\ request[r].status = "PENDING_MANAGER_APPROVAL"
    /\ Remember(c, "reject", r, request[r].version)
    /\ UNCHANGED storeVars

\* saveRejected updates by id alone: it does not look at the version.
RejectSave(c) ==
    LET r == call[c].request IN
    /\ Running(c, "reject")
    /\ CanRelease("rejected", r)
    /\ SetStatus(r, "REJECTED")
    /\ ReleaseReservation("rejected", r, projection[KeyOf[r]].availableDays)
    /\ Return(c)
    /\ UNCHANGED event

RejectConflict(c) ==
    /\ Running(c, "reject")
    /\ ~CanRelease("rejected", call[c].request)
    /\ Return(c)
    /\ UNCHANGED storeVars

-----------------------------------------------------------------------------
(* POST /time-off-requests/:id/cancel                                      *)

\* Mutant: the entity lets a submitted request be cancelled.
CancellableInFlight(r) ==
    request[r].status \in {"PENDING_MANAGER_APPROVAL", "APPROVED", "SUBMITTED_TO_HCM"}

Cancellable(r) == request[r].status \in {"PENDING_MANAGER_APPROVAL", "APPROVED"}

CancelLoad(c, r) ==
    /\ CallerIdle(c)
    /\ Cancellable(r)
    /\ Remember(c, "cancel", r, request[r].version)
    /\ UNCHANGED storeVars

\* Mutant: cancelling leaves the submission event alone.
KeepPendingEvent(r) == UNCHANGED event

\* updateMany over the request's PENDING events.
IgnorePendingEvent(r) ==
    event' = [event EXCEPT ![r].status =
                IF @ = "PENDING" THEN "IGNORED_STALE" ELSE @]

\* saveCancelled updates by id alone, like saveRejected.
CancelSave(c) ==
    LET r == call[c].request IN
    /\ Running(c, "cancel")
    /\ CanRelease("cancelled", r)
    /\ SetStatus(r, "CANCELLED")
    /\ ReleaseReservation("cancelled", r, projection[KeyOf[r]].availableDays)
    /\ IgnorePendingEvent(r)
    /\ Return(c)

CancelConflict(c) ==
    /\ Running(c, "cancel")
    /\ ~CanRelease("cancelled", call[c].request)
    /\ Return(c)
    /\ UNCHANGED storeVars

-----------------------------------------------------------------------------

BeginCommand(c) ==
    \E r \in Requests :
        \/ CreateRead(c, r)
        \/ ApproveLoad(c, r)
        \/ RejectLoad(c, r)
        \/ CancelLoad(c, r)

FinishCommand(c) ==
    \/ CreateReserve(c)
    \/ CreateConflict(c)
    \/ ApproveSave(c)
    \/ ApproveConflict(c)
    \/ RejectSave(c)
    \/ RejectConflict(c)
    \/ CancelSave(c)
    \/ CancelConflict(c)

=============================================================================
