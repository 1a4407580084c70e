--------------------------- MODULE ServiceProgress ---------------------------
(***************************************************************************)
(* What the service eventually does, under the fairness of its schedule.   *)
(*                                                                         *)
(* A handler that has begun goes on: the process awaits nothing but its    *)
(* database and the HCM in its own memory.  That a run or a reconciliation *)
(* begins is not in the code, which has no scheduler: both are HTTP calls. *)
(* The operators who are told to make them are assumed to call again as    *)
(* long as there is something to do.  Nothing is assumed of employees,     *)
(* managers, HR or HCM, which may fail forever.                            *)
(***************************************************************************)
EXTENDS TimeOffService

CommandFinishes(c) ==
    FinishCommand(c) /\ UNCHANGED <<hcmVars, reading, job, audit, batchVars>>

RefreshFinishes ==
    /\ \E s \in reading : RefreshUpsert(s)
    /\ UNCHANGED <<call, job, audit, batchVars>>

RunProceeds(w) == WorkStep(w) /\ UNCHANGED <<call, reading, audit, batchVars>>

AuditProceeds(x) == AuditStep(x) /\ UNCHANGED <<call, reading, job, batchVars>>

TimePasses(r) == RetryDue(r) /\ UNCHANGED <<call, reading, audit, batchVars>>

RunIsCalled(w) ==
    Admitted /\ StartProcessing(w) /\ UNCHANGED <<call, reading, audit, batchVars>>

AuditIsCalled(x, k) ==
    Admitted /\ ReconcileRead(x, k) /\ UNCHANGED <<call, reading, job, batchVars>>

HandlersGoOn ==
    /\ \A c \in Callers : WF_vars(CommandFinishes(c))
    /\ WF_vars(RefreshFinishes)
    /\ \A w \in Workers : WF_vars(RunProceeds(w))
    /\ \A x \in Reconcilers : WF_vars(AuditProceeds(x))

OperatorsCall ==
    /\ \A w \in Workers : WF_vars(RunIsCalled(w))
    /\ \A x \in Reconcilers, k \in Keys : WF_vars(AuditIsCalled(x, k))

ClockRuns == \A r \in Requests : WF_vars(TimePasses(r))

FairSpec == Spec /\ HandlersGoOn /\ OperatorsCall /\ ClockRuns

-----------------------------------------------------------------------------

Settled ==
    {"CONFIRMED_BY_HCM", "FAILED_HCM_VALIDATION", "CANCELLED", "REJECTED"}

\* An approved request does not stay uncertain, even if HCM never answers: its
\* attempts run out, and a reconciliation then puts it to review.
UncertaintyEnds ==
    \A r \in Requests :
        request[r].status \in {"APPROVED", "SUBMITTED_TO_HCM"}
            ~> request[r].status \in Settled \cup {"CONFLICT_REVIEW"}

=============================================================================
