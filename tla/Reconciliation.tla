--------------------------- MODULE Reconciliation ---------------------------
(***************************************************************************)
(* POST /reconciliation/:employeeId (ReconciliationService): refresh one   *)
(* projection from HCM, list the submitted requests of that pair once, and *)
(* settle those whose submission HCM has accepted; those whose attempts    *)
(* are used up go to CONFLICT_REVIEW.  Every database call is awaited, so  *)
(* each is a step of its own.                                              *)
(*                                                                         *)
(* Both settlements run the entity's check on the row as it was listed,    *)
(* which was SUBMITTED_TO_HCM, and then update by id: the check never      *)
(* fails, and what the request has become since is overwritten.            *)
(***************************************************************************)
EXTENDS MockHcm

CONSTANTS
    Reconcilers,    \* reconciliations that can be in flight together
    NoKey           \* what a reconciliation that is not running works on

ASSUME NoKeyAssumption == NoKey \notin Keys

VARIABLE audit      \* where each reconciliation is

\* next: about to take a listed request (and idle if there is none);
\* upsert: HCM's balance is read, not stored yet;
\* list: the balance is stored, the submitted requests are not listed yet;
\* confirm: HCM knows the submission, that is not recorded yet;
\* look: HCM does not know it, the event is not looked at yet;
\* review: the event had no attempt left, that is not recorded yet.
AuditRows == [pc : {"next", "upsert", "list", "confirm", "look", "review"},
              key : Keys \cup {NoKey}, days : Nat,
              todo : SUBSET Requests, request : Requests \cup {NoRequest}]

NoAudit == [pc |-> "next", key |-> NoKey, days |-> 0, todo |-> {}, request |-> NoRequest]

AuditTypeOK ==
    /\ audit \in [Reconcilers -> AuditRows]
    /\ \A x \in Reconcilers :
          /\ audit[x].pc \in {"upsert", "list"} => audit[x].key \in Keys
          /\ audit[x].pc \in {"confirm", "look", "review"} => audit[x].request \in Requests

AuditInit == audit = [x \in Reconcilers |-> NoAudit]

AuditIdle(x) == audit[x].pc = "next" /\ audit[x].todo = {}

At(x, pc) == audit[x].pc = pc

\* Reconciliation x goes on to pc with the request it has taken.
Proceed(x, pc) == audit' = [audit EXCEPT ![x].pc = pc]

\* Reconciliation x ends the loop body for the request it has taken.
NextListed(x) ==
    audit' = [audit EXCEPT ![x].pc = "next", ![x].request = NoRequest]

-----------------------------------------------------------------------------
(* The balance.                                                            *)

\* The event of r has no attempt left and the outcome is still open.
Exhausted(r) == event[r].status = "UNCERTAIN" /\ event[r].nextAttemptAt = "null"

\* Bound: beyond MaxVersion, only while there is a request to settle.
WorthReconciling(k) ==
    \/ projection[k].version < MaxVersion
    \/ \E r \in Requests :
          /\ KeyOf[r] = k
          /\ request[r].status = "SUBMITTED_TO_HCM"
          /\ Exhausted(r) \/ r \in accepted

\* getBalance throws NotFound when HCM has no balance for the key.
ReconcileRead(x, k) ==
    /\ AuditIdle(x)
    /\ hcmBalance[k] # NoBalance
    /\ WorthReconciling(k)
    /\ audit' = [audit EXCEPT ![x] = [pc |-> "upsert", key |-> k, days |-> hcmBalance[k],
                                      todo |-> {}, request |-> NoRequest]]
    /\ UNCHANGED <<storeVars, hcmVars>>

ReconcileUpsert(x) ==
    /\ At(x, "upsert")
    /\ UpsertFromHcmSnapshot(audit[x].key, audit[x].days)
    /\ audit' = [audit EXCEPT ![x].pc = "list", ![x].days = 0]
    /\ UNCHANGED <<request, ledger, event, hcmVars>>

-----------------------------------------------------------------------------
(* The requests.                                                           *)

ReconcileList(x) ==
    /\ At(x, "list")
    /\ audit' = [audit EXCEPT ![x] = [NoAudit EXCEPT !.todo =
                    {r \in Requests : /\ KeyOf[r] = audit[x].key
                                      /\ request[r].status = "SUBMITTED_TO_HCM"}]]
    /\ UNCHANGED <<storeVars, hcmVars>>

\* Mutant: every submission is taken for accepted.
AnySubmission(r) == TRUE

KnownToHcm(r) == r \in accepted

ReconcileTake(x, r) ==
    /\ At(x, "next")
    /\ r \in audit[x].todo
    /\ audit' = [audit EXCEPT ![x].pc = IF KnownToHcm(r) THEN "confirm" ELSE "look",
                              ![x].todo = @ \ {r},
                              ![x].request = r]
    /\ UNCHANGED <<storeVars, hcmVars>>

\* Neither reservedDays nor the ledger is touched, and only an UNCERTAIN event
\* is closed.
ReconcileConfirm(x) ==
    LET r == audit[x].request IN
    /\ At(x, "confirm")
    /\ Settle(r, "CONFIRMED_BY_HCM", "CONFIRMED")
    /\ event' = IF event[r].status = "UNCERTAIN"
                THEN [event EXCEPT ![r].status = "PROCESSED", ![r].nextAttemptAt = "null"]
                ELSE event
    /\ NextListed(x)
    /\ UNCHANGED <<projection, ledger, hcmVars>>

ReconcileLook(x) ==
    /\ At(x, "look")
    /\ IF Exhausted(audit[x].request) THEN Proceed(x, "review") ELSE NextListed(x)
    /\ UNCHANGED <<storeVars, hcmVars>>

ReconcileReview(x) ==
    LET r == audit[x].request IN
    /\ At(x, "review")
    /\ Settle(r, "CONFLICT_REVIEW", "UNKNOWN")
    /\ projection' = [projection EXCEPT ![KeyOf[r]].syncStatus = "CONFLICT",
                                        ![KeyOf[r]].version = @ + 1]
    /\ NextListed(x)
    /\ UNCHANGED <<ledger, event, hcmVars>>

-----------------------------------------------------------------------------

AuditStep(x) ==
    \/ ReconcileUpsert(x)
    \/ ReconcileList(x)
    \/ \E r \in Requests : ReconcileTake(x, r)
    \/ ReconcileConfirm(x)
    \/ ReconcileLook(x)
    \/ ReconcileReview(x)

=============================================================================
