--------------------------- MODULE TimeOffService ---------------------------
(***************************************************************************)
(* The service: the commands on requests, the balance refresh, the         *)
(* submission runs, the reconciliations and the batch deliveries over one  *)
(* database and one HCM, with HR changing balances in HCM, HCM failing now *)
(* and then, handlers dying of a database error, and the process restarting.  *)
(*                                                                         *)
(* Overlap says whether handlers are in flight together.  With TRUE they   *)
(* interleave as Node lets them; with FALSE a handler starts only when no  *)
(* other is running, which is what the repository's tests do.  The         *)
(* properties that need some order among the handlers need less than that: *)
(* see Apart.                                                              *)
(***************************************************************************)
EXTENDS RequestCommands, BalanceRefresh, HcmSubmission, Reconciliation, BatchSync

CONSTANTS
    Overlap,    \* whether handlers are in flight together
    Crashes     \* whether handlers may die: all with the process, or one of an error

ASSUME OverlapAssumption == Overlap \in BOOLEAN
ASSUME CrashesAssumption == Crashes \in BOOLEAN

vars == <<storeVars, hcmVars, call, reading, job, audit, batchVars>>

TypeOK ==
    /\ StoreTypeOK
    /\ HcmTypeOK
    /\ CallTypeOK
    /\ ReadingTypeOK
    /\ JobTypeOK
    /\ AuditTypeOK
    /\ BatchTypeOK

Init ==
    /\ StoreInit
    /\ HcmInit
    /\ CallInit
    /\ ReadingInit
    /\ JobInit
    /\ AuditInit
    /\ BatchInit

-----------------------------------------------------------------------------

AllIdle ==
    /\ \A c \in Callers : CallerIdle(c)
    /\ reading = {}
    /\ \A w \in Workers : WorkerIdle(w)
    /\ \A x \in Reconcilers : AuditIdle(x)
    /\ delivery = {}

Admitted == Overlap \/ AllIdle

Command ==
    \E c \in Callers :
        /\ \/ Admitted /\ BeginCommand(c)
           \/ FinishCommand(c)
        /\ UNCHANGED <<hcmVars, reading, job, audit, batchVars>>

Refresh ==
    /\ \/ Admitted /\ \E d \in Readers, k \in Keys : RefreshRead(d, k)
       \/ \E s \in reading : RefreshUpsert(s)
    /\ UNCHANGED <<call, job, audit, batchVars>>

Submission ==
    /\ \/ Admitted /\ \E w \in Workers : StartProcessing(w)
       \/ \E w \in Workers : WorkStep(w)
       \/ \E r \in Requests : RetryDue(r)
    /\ UNCHANGED <<call, reading, audit, batchVars>>

Reconcile ==
    /\ \/ Admitted /\ \E x \in Reconcilers, k \in Keys : ReconcileRead(x, k)
       \/ \E x \in Reconcilers : AuditStep(x)
    /\ UNCHANGED <<call, reading, job, batchVars>>

Batch ==
    /\ \/ Admitted /\ \E s \in Senders, b \in Batches : BatchArrives(s, b)
       \/ \E d \in delivery, rows \in RowSets : IngestBatch(d, rows) \/ IngestFails(d, rows)
    /\ UNCHANGED <<call, reading, job, audit>>

Hcm ==
    /\ \E k \in Keys :
          \/ \E days \in Balances : UpsertBalance(k, days)
          \/ \E times \in Outages : ConfigureSubmissionFailure(k, times)
    /\ UNCHANGED <<storeVars, call, reading, job, audit, batchVars>>

\* Bound: nothing dies beyond MaxVersion.
MayDie == Crashes /\ \A k \in Keys : projection[k].version <= MaxVersion

\* The process stops and starts again: what its handlers were doing is lost
\* between two steps, an acceptance that was not recorded yet included, and so
\* is the mock HCM's memory.  The database stays.
Restart ==
    /\ MayDie
    /\ Clear
    /\ unrecorded' = unrecorded \cup {job[w].request : w \in {v \in Workers : job[v].pc = "accepted"}}
    /\ call' = [c \in Callers |-> NoCall]
    /\ reading' = {}
    /\ job' = [w \in Workers |-> NoJob]
    /\ audit' = [x \in Reconcilers |-> NoAudit]
    /\ delivery' = {}
    /\ UNCHANGED <<storeVars, ingested, replaced>>

\* The database refuses one handler its next query, and nothing catches that: its
\* transaction is rolled back and the call ends.  A run survives while it submits
\* or records, inside its try: see RecordingFails.
HandlerDies ==
    /\ MayDie
    /\ \/ /\ \E c \in Callers : ~CallerIdle(c) /\ call' = [call EXCEPT ![c] = NoCall]
          /\ UNCHANGED <<reading, job, audit, delivery>>
       \/ /\ \E s \in reading : reading' = reading \ {s}
          /\ UNCHANGED <<call, job, audit, delivery>>
       \/ /\ \E w \in Workers :
                /\ job[w].pc \in {"next", "failed"}
                /\ ~WorkerIdle(w)
                /\ job' = [job EXCEPT ![w] = NoJob]
          /\ UNCHANGED <<call, reading, audit, delivery>>
       \/ /\ \E x \in Reconcilers : ~AuditIdle(x) /\ audit' = [audit EXCEPT ![x] = NoAudit]
          /\ UNCHANGED <<call, reading, job, delivery>>
       \/ /\ \E d \in delivery : delivery' = delivery \ {d}
          /\ UNCHANGED <<call, reading, job, audit>>
    /\ UNCHANGED <<storeVars, hcmVars, ingested, replaced>>

Next ==
    \/ Command
    \/ Refresh
    \/ Submission
    \/ Reconcile
    \/ Batch
    \/ Hcm
    \/ Restart
    \/ HandlerDies

Spec == Init /\ [][Next]_vars

-----------------------------------------------------------------------------
(* Properties that hold however the handlers interleave.                   *)

\* Each pair's bookkeeping entries, and the days a set of entries moves,
\* counted as units so that sums are cardinalities.
EntriesOf(k, kinds) == {e \in ledger : KeyOf[e[2]] = k /\ e[1] \in kinds}

DayUnits(entries) == UNION {{e} \X (1..DaysOf[e[2]]) : e \in entries}

\* The reserved days of a projection are what the ledger says they are: the
\* days of the reservations booked less the days of those returned.  Each
\* transaction that moves reservedDays writes the one ledger entry that
\* explains it, and the idempotency keys keep a repeated handler from moving
\* the days twice under one key.
LedgerExplainsReserved ==
    \A k \in Keys :
        projection[k].reservedDays =
            Cardinality(DayUnits(EntriesOf(k, {"reserved"})))
              - Cardinality(DayUnits(EntriesOf(k, ReturnKinds)))

\* No step reserves days an employee does not have: wherever reservedDays
\* grows, the reservations are covered by availableDays afterwards.  The
\* create handler compares them at its read and relies on the version check
\* of its update for the time in between.
NoOverbooking ==
    [][\A k \in Keys :
          projection'[k].reservedDays > projection[k].reservedDays
              => DisplayAvailable(k)' >= 0]_vars

\* A request becomes APPROVED only from PENDING_MANAGER_APPROVAL: whatever a
\* concurrent reject or cancel saved since the approval read the request is
\* not overwritten, because saveApproved checks the version.
ApprovalIsExclusive ==
    [][\A r \in Requests :
          request'[r].status = "APPROVED" /\ request[r].status # "APPROVED"
              => request[r].status = "PENDING_MANAGER_APPROVAL"]_vars

\* A cancelled request has no PENDING submission event left that a later run
\* would select: saveCancelled turns it to IGNORED_STALE, and no approval in
\* flight adds one afterwards.
CancelledEventNotPending ==
    \A r \in Requests :
        request[r].status = "CANCELLED" => event[r].status # "PENDING"

\* A request is CONFIRMED only if HCM has deducted its days.
ConfirmedWasCharged ==
    \A r \in Requests :
        request[r].submission = "CONFIRMED" => charges[r] > 0

\* An HCM outcome, once recorded, is never revised by the answer to a second
\* submission of the same request nor by a late manager command.  Only a
\* reconciliation in flight does that: it settles the rows as it listed them.
RunsKeepOutcomes ==
    [][\A r \in Requests :
          request[r].submission \in {"CONFIRMED", "REJECTED"} /\ UNCHANGED audit
              => request'[r].submission = request[r].submission]_vars

\* A request that was decided, by a manager, its user, HCM or a reconciliation,
\* does not come back to life: no approval that read it earlier, no run that
\* selected its event earlier and no retry makes it wait or submits it again.
\* (Which decision stands may still change: see SubmittedNotWithdrawn.)
NoneIsRevived ==
    [][\A r \in Requests :
          request[r].status \in {"REJECTED", "CANCELLED", "FAILED_HCM_VALIDATION",
                                 "CONFIRMED_BY_HCM", "CONFLICT_REVIEW"}
              => request'[r].status \notin {"ABSENT", "PENDING_MANAGER_APPROVAL",
                                            "APPROVED", "SUBMITTED_TO_HCM"}]_vars

\* The submission event of a request that still waits for HCM's answer is open:
\* whichever handler died, failed or lost a race with the request in its hands,
\* the next run or reconciliation still finds it.  The event is written in the
\* transaction of the approval and closed only with the request's outcome.
AwaitsHcmIsQueued ==
    \A r \in Requests :
        request[r].status \in {"APPROVED", "SUBMITTED_TO_HCM"}
            => event[r].status \in {"PENDING", "UNCERTAIN"}

\* A batch never changes a balance without a ledger entry of its own that says
\* so: each batch changes a balance at most once, however often it is delivered.
BatchChangeIsBooked ==
    [][\A k \in Keys :
          delivery' # delivery /\ projection'[k].availableDays # projection[k].availableDays
              => \E b \in Batches : <<b, k>> \in replaced' \ replaced]_vars

-----------------------------------------------------------------------------
(* Properties of a service in which no two handlers work on one request at *)
(* the same time.  Handlers overlap otherwise as they like: a refresh or a *)
(* batch with anything, a run or a reconciliation with commands on other   *)
(* requests, two runs that are at different events of their lists.         *)

\* The handlers that have request r in their hands.
Hands(r) ==
    {<<"command", c>> : c \in {d \in Callers : ~CallerIdle(d) /\ call[d].request = r}}
      \cup {<<"run", w>> : w \in {v \in Workers : job[v].pc # "next" /\ job[v].request = r}}
      \cup {<<"audit", x>> : x \in {y \in Reconcilers :
                                       /\ audit[y].pc \in {"confirm", "look", "review"}
                                       /\ audit[y].request = r}}

Apart == \A r \in Requests : \A a, b \in Hands(r) : a = b

\* The behaviours in which every step leaves the handlers apart.  With ~Overlap
\* all behaviours are of this kind.
ApartSpec == Init /\ [][Next /\ Apart']_vars

OpenStatus == {"PENDING_MANAGER_APPROVAL", "APPROVED", "SUBMITTED_TO_HCM", "CONFLICT_REVIEW"}

(* When recording an acceptance throws, or the process stops before it, the *)
(* service does not know of a deduction: the request is in `unrecorded`.   *)
(* A retry may then deduct its days again, and a reconciliation confirms   *)
(* it without returning its days or booking anything.  The properties say  *)
(* what holds of such a request, and hold of all others without exception. *)

\* Confirmed by a reconciliation after its acceptance was lost.
Unbooked(r) ==
    /\ r \in unrecorded
    /\ request[r].status = "CONFIRMED_BY_HCM"
    /\ <<"confirmed", r>> \notin ledger

Reserving(r) ==
    \/ request[r].status \in OpenStatus
    \/ Unbooked(r) /\ <<"released", r>> \notin ledger

\* The reserved days of a projection are the days of its open requests, and of
\* those that a reconciliation confirmed in place of a lost acceptance.
ReservedMatchesOpen ==
    \A k \in Keys :
        projection[k].reservedDays =
            Cardinality(UNION {{r} \X (1..DaysOf[r]) :
                r \in {q \in Requests : KeyOf[q] = k /\ Reserving(q)}})

\* A submission that is repeated after a failure deducts nothing twice, unless
\* the failure was to record an acceptance.
ChargedOnce == \A r \in Requests \ unrecorded : charges[r] <= 1

\* Of the requests that no handler has in its hands, and of which no acceptance
\* was lost, HCM has deducted the days of exactly those that the service records
\* as confirmed.
ChargesMatchOutcomes ==
    \A r \in Requests \ unrecorded :
        Hands(r) = {} => (charges[r] > 0 <=> request[r].status = "CONFIRMED_BY_HCM")

\* A request that was handed to HCM is not taken back by a manager or a user.
SubmittedNotWithdrawn ==
    [][\A r \in Requests :
          request[r].status \in {"SUBMITTED_TO_HCM", "CONFLICT_REVIEW",
                                 "CONFIRMED_BY_HCM", "FAILED_HCM_VALIDATION"}
              => request'[r].status \notin {"REJECTED", "CANCELLED"}]_vars

\* What the ledger has of a request with this status.
Fate(status) ==
    CASE status = "ABSENT" -> {}
      [] status = "REJECTED" -> {"reserved", "rejected"}
      [] status = "CANCELLED" -> {"reserved", "cancelled"}
      [] status = "FAILED_HCM_VALIDATION" -> {"reserved", "released"}
      [] status = "CONFIRMED_BY_HCM" -> {"reserved", "confirmed"}
      [] OTHER -> {"reserved"}

\* The ledger and the requests tell one story: a request has the entry of its
\* reservation and of the way it ended, and no other.  Each handler writes the
\* entry in the transaction that sets the status; a reconciliation sets one
\* without an entry, so what ended a request it confirmed in place of a lost
\* acceptance is not in the ledger.
LedgerTellsFate ==
    \A r \in Requests, kind \in EntryKinds :
        \/ Unbooked(r) /\ kind \in {"confirmed", "released"}
        \/ <<kind, r>> \in ledger <=> kind \in Fate(request[r].status)

\* A submission event that was closed is not opened again: no late answer, retry
\* or approval puts a request that is done back in the queue.
ClosedStaysClosed ==
    [][\A r \in Requests :
          event[r].status \in {"PROCESSED", "FAILED", "IGNORED_STALE"}
              => event'[r].status \notin {"PENDING", "UNCERTAIN"}]_vars

\* How far a request has come; `charges` tells what HCM did to it while the
\* service still waits for the answer.  Once an acceptance was lost, only the
\* entry that returns its days tells.
Stage(r) ==
    IF r \in unrecorded THEN
        IF {<<"confirmed", r>>, <<"released", r>>} \cap ledger = {} THEN "lost" ELSE "closed"
    ELSE
        CASE request[r].status = "ABSENT" -> "none"
          [] request[r].status \in {"PENDING_MANAGER_APPROVAL", "APPROVED"} -> "held"
          [] request[r].status \in {"SUBMITTED_TO_HCM", "CONFLICT_REVIEW"} ->
                IF charges[r] = 0 THEN "submitted" ELSE "taken"
          [] request[r].status = "CONFIRMED_BY_HCM" -> "settled"
          [] OTHER -> "returned"

Book == INSTANCE ReservationBook WITH
            stage <- [r \in Requests |-> Stage(r)],
            reserved <- [k \in Keys |-> projection[k].reservedDays]

\* The service keeps the reservation book: days move between an employee's
\* balance, the reservation and HCM only as the book allows, each once, and an
\* acceptance that is lost brings them back at most once.
KeepsTheBook == Book!BookSpec

-----------------------------------------------------------------------------
(* Properties of the service as it is meant to be: see the README.         *)

\* reservedDays are days of requests that HCM has not finished, however they were
\* finished.
FinishedReleasesDays ==
    \A k \in Keys :
        projection[k].reservedDays <=
            Cardinality(UNION {{r} \X (1..DaysOf[r]) :
                r \in {q \in Requests : KeyOf[q] = k /\ request[q].status \in OpenStatus}})

\* A delivery that ends, ends with its batch ingested, by itself or another.
EndedDeliveryIsIngested ==
    [][\A d \in delivery : d \notin delivery' => d.batch \in ingested']_vars

\* A submission is tried at most MAX_SUBMISSION_ATTEMPTS times.
AttemptsBounded ==
    \A r \in Requests : event[r].attempts <= MaxSubmissionAttempts

=============================================================================
