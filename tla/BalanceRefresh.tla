--------------------------- MODULE BalanceRefresh ---------------------------
(***************************************************************************)
(* POST /balances/refresh (RefreshBalanceUseCase): read the balance from   *)
(* HCM, then upsert the projection with it.  Nothing compares the answer   *)
(* with what other handlers wrote to the projection in between.            *)
(***************************************************************************)
EXTENDS MockHcm

CONSTANT Readers    \* refreshes that can be in flight together

VARIABLE reading    \* the snapshots that running refreshes are about to store

Snapshots == [reader : Readers, key : Keys, days : Nat]

ReadingTypeOK == reading \subseteq Snapshots

ReadingInit == reading = {}

ReaderIdle(d) == \A s \in reading : s.reader # d

-----------------------------------------------------------------------------

\* getBalance throws NotFound when HCM has no balance for the key.
RefreshRead(d, k) ==
    /\ ReaderIdle(d)
    /\ hcmBalance[k] # NoBalance
    /\ projection[k].version < MaxVersion
    /\ reading' = reading \cup {[reader |-> d, key |-> k, days |-> hcmBalance[k]]}
    /\ UNCHANGED <<storeVars, hcmVars>>

RefreshUpsert(s) ==
    /\ s \in reading
    /\ UpsertFromHcmSnapshot(s.key, s.days)
    /\ reading' = reading \ {s}
    /\ UNCHANGED <<request, ledger, event, hcmVars>>

=============================================================================
