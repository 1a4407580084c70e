------------------------------ MODULE MockHcm -------------------------------
(***************************************************************************)
(* MockHcmService: the system of record the service talks to.  It lives in *)
(* the same process, so a call to it is one synchronous step; its state is *)
(* three in-memory maps, which are gone after a restart of the service.    *)
(***************************************************************************)
EXTENDS TimeOffStore

CONSTANTS
    Balances,   \* the balances HR gives out
    Outages,    \* the numbers of failures that are configured
    MaxCharges  \* bound: deductions for one request are counted up to here

ASSUME BalancesAssumption == Balances \subseteq Nat
ASSUME OutagesAssumption == Outages \subseteq Nat
ASSUME MaxChargesAssumption == MaxCharges \in Nat \ {0}

VARIABLES
    hcmBalance, \* balances: the days HCM holds for a key, or NoBalance
    failures,   \* submissionFailures: how many more submissions will throw
    accepted,   \* acceptedSubmissions: the requests HCM remembers to have accepted
    charges,    \* history: how often HCM deducted r's days
    unrecorded  \* history: the requests of which the service lost an acceptance

hcmVars == <<hcmBalance, failures, accepted, charges, unrecorded>>

NoBalance == -1

HcmTypeOK ==
    /\ hcmBalance \in [Keys -> Nat \cup {NoBalance}]
    /\ failures \in [Keys -> Nat]
    /\ accepted \subseteq Requests
    /\ charges \in [Requests -> 0..MaxCharges]
    /\ unrecorded \subseteq Requests

HcmInit ==
    /\ hcmBalance = [k \in Keys |-> NoBalance]
    /\ failures = [k \in Keys |-> 0]
    /\ accepted = {}
    /\ charges = [r \in Requests |-> 0]
    /\ unrecorded = {}

-----------------------------------------------------------------------------

UpsertBalance(k, days) ==
    /\ hcmBalance' = [hcmBalance EXCEPT ![k] = days]
    /\ UNCHANGED <<failures, accepted, charges, unrecorded>>

ConfigureSubmissionFailure(k, times) ==
    /\ failures' = [failures EXCEPT ![k] = times]
    /\ UNCHANGED <<hcmBalance, accepted, charges, unrecorded>>

\* The maps are in the memory of the process.
Clear ==
    /\ hcmBalance' = [k \in Keys |-> NoBalance]
    /\ failures' = [k \in Keys |-> 0]
    /\ accepted' = {}
    /\ UNCHANGED charges

(* submitTimeOff(r) has three outcomes: it throws, refuses or accepts.     *)

SubmissionThrows(r) == failures[KeyOf[r]] > 0 \/ hcmBalance[KeyOf[r]] = NoBalance

ThrowSubmission(r) ==
    /\ SubmissionThrows(r)
    /\ failures' = [failures EXCEPT ![KeyOf[r]] = IF @ > 0 THEN @ - 1 ELSE @]
    /\ UNCHANGED <<hcmBalance, accepted, charges, unrecorded>>

RefuseSubmission(r) ==
    /\ ~SubmissionThrows(r)
    /\ hcmBalance[KeyOf[r]] < DaysOf[r]
    /\ UNCHANGED hcmVars

\* Nothing in submitTimeOff asks whether r was accepted before.
AcceptSubmission(r) ==
    /\ ~SubmissionThrows(r)
    /\ hcmBalance[KeyOf[r]] >= DaysOf[r]
    /\ hcmBalance' = [hcmBalance EXCEPT ![KeyOf[r]] = @ - DaysOf[r]]
    /\ accepted' = accepted \cup {r}
    /\ charges' = [charges EXCEPT ![r] = IF @ < MaxCharges THEN @ + 1 ELSE @]
    /\ UNCHANGED <<failures, unrecorded>>

=============================================================================
