-------------------------- MODULE MCTimeOffService --------------------------
(* Small instances of TimeOffService for TLC.                              *)
EXTENDS TimeOffService, TLC

CONSTANTS k1, r1, r2

\* One employee and location with every request on it: the requests compete.
OneKey == [r \in Requests |-> k1]

\* Requests of one day: two can wait for HCM at the same time.
AllOne == [r \in Requests |-> 1]

\* The actors of one kind are interchangeable, and so are the batches.
Actors == UNION {Permutations(S) : S \in {Callers, Readers, Workers, Reconcilers, Senders, Batches}}

ActorsAndRequests == Actors \cup Permutations(Requests)

=============================================================================
