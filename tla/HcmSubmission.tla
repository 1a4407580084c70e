--------------------------- MODULE HcmSubmission ----------------------------
(***************************************************************************)
(* POST /hcm-sync/process-pending (HcmIntegrationService): select the due  *)
(* submission events once, then for each of them prepare the submission,   *)
(* call HCM and record the answer.  The three are separate steps with      *)
(* awaits between them; nothing keeps two such runs apart.                 *)
(*                                                                         *)
(* The run works on the list it selected at its start.  The list is a set  *)
(* here: the order of createdAt is one of the orders in which its members  *)
(* can be taken.                                                           *)
(***************************************************************************)
EXTENDS MockHcm

CONSTANTS
    Workers,    \* runs of process-pending that can be in flight together
    AttemptsCap \* bound: attempts are counted up to here

MaxSubmissionAttempts == 3

ASSUME AttemptsCapAssumption == AttemptsCap \in Nat /\ AttemptsCap > MaxSubmissionAttempts

VARIABLE job    \* where each run is

\* next: about to take an event from todo (and idle if there is none);
\* submit: the submission is prepared, HCM not called yet;
\* accepted, refused: HCM's answer is not recorded yet;
\* failed: an error was caught, the retry is not scheduled yet.
JobRows == [pc : {"next", "submit", "accepted", "refused", "failed"},
            todo : SUBSET Requests, request : Requests \cup {NoRequest}, days : Nat]

NoJob == [pc |-> "next", todo |-> {}, request |-> NoRequest, days |-> 0]

JobTypeOK ==
    /\ job \in [Workers -> JobRows]
    /\ \A w \in Workers : job[w].pc # "next" => job[w].request \in Requests

JobInit == job = [w \in Workers |-> NoJob]

WorkerIdle(w) == job[w].pc = "next" /\ job[w].todo = {}

Goto(w, pc) == job' = [job EXCEPT ![w].pc = pc]

\* Worker w leaves the loop body for the event of its current request.
TakeNext(w) ==
    job' = [job EXCEPT ![w] = [pc |-> "next", todo |-> job[w].todo,
                               request |-> NoRequest, days |-> 0]]

-----------------------------------------------------------------------------
(* Selection and preparation.                                              *)

Due(r) ==
    /\ event[r].status \in {"PENDING", "UNCERTAIN"}
    /\ event[r].nextAttemptAt \in {"null", "past"}

StartProcessing(w) ==
    /\ WorkerIdle(w)
    /\ \E r \in Requests : Due(r)
    /\ job' = [job EXCEPT ![w].todo = {r \in Requests : Due(r)}]
    /\ UNCHANGED <<storeVars, hcmVars>>

Takes(w, r) == job[w].pc = "next" /\ r \in job[w].todo

Prepared(w, r) ==
    job' = [job EXCEPT ![w] = [pc |-> "submit", todo |-> job[w].todo \ {r},
                               request |-> r, days |-> 0]]

\* Mutant: the event is closed when the submission is handed over.
CloseAtHandover(w, r) ==
    /\ Takes(w, r)
    /\ request[r].status = "APPROVED"
    /\ Settle(r, "SUBMITTED_TO_HCM", "PENDING_CONFIRMATION")
    /\ event' = [event EXCEPT ![r].status = "PROCESSED"]
    /\ Prepared(w, r)
    /\ UNCHANGED <<projection, ledger, hcmVars>>

\* Mutant: only a withdrawn request makes its event stale.
PrepareUnlessWithdrawn(w, r) ==
    /\ Takes(w, r)
    /\ request[r].status \notin {"CANCELLED", "REJECTED", "SUBMITTED_TO_HCM"}
    /\ Settle(r, "SUBMITTED_TO_HCM", "PENDING_CONFIRMATION")
    /\ Prepared(w, r)
    /\ UNCHANGED <<projection, ledger, event, hcmVars>>

\* prepareSubmission on an approved request: markAsSubmittedToHcm.
PrepareFirst(w, r) ==
    /\ Takes(w, r)
    /\ request[r].status = "APPROVED"
    /\ Settle(r, "SUBMITTED_TO_HCM", "PENDING_CONFIRMATION")
    /\ Prepared(w, r)
    /\ UNCHANGED <<projection, ledger, event, hcmVars>>

\* On a request that is submitted already: submit it again.
PrepareRetry(w, r) ==
    /\ Takes(w, r)
    /\ request[r].status = "SUBMITTED_TO_HCM"
    /\ Prepared(w, r)
    /\ UNCHANGED <<storeVars, hcmVars>>

\* Otherwise the event is stale, whatever it says by now.
PrepareStale(w, r) ==
    /\ Takes(w, r)
    /\ request[r].status \notin {"APPROVED", "SUBMITTED_TO_HCM"}
    /\ event' = [event EXCEPT ![r].status = "IGNORED_STALE"]
    /\ job' = [job EXCEPT ![w].todo = @ \ {r}]
    /\ UNCHANGED <<projection, request, ledger, hcmVars>>

-----------------------------------------------------------------------------
(* The call to HCM.                                                        *)

\* Mutant: a timeout is taken for an acceptance.
FailureTakenForAcceptance(w) ==
    /\ job[w].pc = "submit"
    /\ ThrowSubmission(job[w].request)
    /\ Goto(w, "accepted")
    /\ UNCHANGED storeVars

SubmitFails(w) ==
    /\ job[w].pc = "submit"
    /\ ThrowSubmission(job[w].request)
    /\ Goto(w, "failed")
    /\ UNCHANGED storeVars

\* Mutant: nobody looks at hcmResult.accepted.
RefusalTakenForAcceptance(w) ==
    /\ job[w].pc = "submit"
    /\ RefuseSubmission(job[w].request)
    /\ Goto(w, "accepted")
    /\ UNCHANGED storeVars

SubmitRefused(w) ==
    /\ job[w].pc = "submit"
    /\ RefuseSubmission(job[w].request)
    /\ Goto(w, "refused")
    /\ UNCHANGED storeVars

\* Mutant: HCM answers with the balance before the deduction.
AnswerBeforeDeduction(w) ==
    /\ job[w].pc = "submit"
    /\ AcceptSubmission(job[w].request)
    /\ job' = [job EXCEPT ![w].pc = "accepted",
                          ![w].days = hcmBalance[KeyOf[job[w].request]]]
    /\ UNCHANGED storeVars

\* Mutant: an acceptance is taken for a timeout.
AcceptanceTakenForFailure(w) ==
    /\ job[w].pc = "submit"
    /\ AcceptSubmission(job[w].request)
    /\ Goto(w, "failed")
    /\ UNCHANGED storeVars

SubmitAccepted(w) ==
    /\ job[w].pc = "submit"
    /\ AcceptSubmission(job[w].request)
    /\ job' = [job EXCEPT ![w].pc = "accepted",
                          ![w].days = hcmBalance'[KeyOf[job[w].request]]]
    /\ UNCHANGED storeVars

-----------------------------------------------------------------------------
(* Recording the answer.                                                   *)

\* confirmByHcm and rejectByHcm throw on any other status.
Resolvable(r) == request[r].status = "SUBMITTED_TO_HCM"

CloseEvent(r, status) ==
    event' = [event EXCEPT ![r].status = status, ![r].nextAttemptAt = "null"]

\* availableDays becomes the balance HCM answered the submission with.
ConfirmSubmission(w) ==
    LET r == job[w].request IN
    /\ job[w].pc = "accepted"
    /\ Resolvable(r)
    /\ CanRelease("confirmed", r)
    /\ Settle(r, "CONFIRMED_BY_HCM", "CONFIRMED")
    /\ ReleaseReservation("confirmed", r, job[w].days)
    /\ CloseEvent(r, "PROCESSED")
    /\ TakeNext(w)
    /\ UNCHANGED hcmVars

\* Mutant: the refusal is thrown once it is recorded, and the catch block
\* takes it for a transport failure.
RejectAndThrow(w) ==
    LET r == job[w].request IN
    /\ job[w].pc = "refused"
    /\ Resolvable(r)
    /\ CanRelease("released", r)
    /\ Settle(r, "FAILED_HCM_VALIDATION", "REJECTED")
    /\ ReleaseReservation("released", r, projection[KeyOf[r]].availableDays)
    /\ CloseEvent(r, "FAILED")
    /\ Goto(w, "failed")
    /\ UNCHANGED hcmVars

RejectSubmission(w) ==
    LET r == job[w].request IN
    /\ job[w].pc = "refused"
    /\ Resolvable(r)
    /\ CanRelease("released", r)
    /\ Settle(r, "FAILED_HCM_VALIDATION", "REJECTED")
    /\ ReleaseReservation("released", r, projection[KeyOf[r]].availableDays)
    /\ CloseEvent(r, "FAILED")
    /\ TakeNext(w)
    /\ UNCHANGED hcmVars

\* The transaction throws and rolls back: the status, a key or a CHECK refuses it,
\* it times out, the database is busy.  The catch block takes it for a transport
\* failure.  What HCM accepted is then known to HCM only.
RecordingFails(w) ==
    /\ job[w].pc \in {"accepted", "refused"}
    /\ unrecorded' = IF job[w].pc = "accepted" THEN unrecorded \cup {job[w].request}
                                              ELSE unrecorded
    /\ Goto(w, "failed")
    /\ UNCHANGED <<storeVars, hcmBalance, failures, accepted, charges>>

\* Mutant: there is always another attempt.
AlwaysOneMore(r) == TRUE

HasRemainingAttempts(r) == event[r].attempts + 1 < MaxSubmissionAttempts

ScheduleSubmissionRetry(w) ==
    LET r == job[w].request IN
    /\ job[w].pc = "failed"
    /\ event' = [event EXCEPT
                    ![r].status = "UNCERTAIN",
                    ![r].attempts = IF @ < AttemptsCap THEN @ + 1 ELSE @,
                    ![r].nextAttemptAt = IF HasRemainingAttempts(r) THEN "future" ELSE "null"]
    /\ TakeNext(w)
    /\ UNCHANGED <<projection, request, ledger, hcmVars>>

\* The clock passes the nextAttemptAt of r's event.
RetryDue(r) ==
    /\ event[r].nextAttemptAt = "future"
    /\ event' = [event EXCEPT ![r].nextAttemptAt = "past"]
    /\ UNCHANGED <<projection, request, ledger, hcmVars, job>>

-----------------------------------------------------------------------------

WorkStep(w) ==
    \/ \E r \in Requests : PrepareFirst(w, r) \/ PrepareRetry(w, r) \/ PrepareStale(w, r)
    \/ SubmitFails(w)
    \/ SubmitRefused(w)
    \/ SubmitAccepted(w)
    \/ ConfirmSubmission(w)
    \/ RejectSubmission(w)
    \/ RecordingFails(w)
    \/ ScheduleSubmissionRetry(w)

=============================================================================
