---------------------------- MODULE SnapshotTimes ----------------------------
(***************************************************************************)
(* TimeOffService with the times of HCM's balances.  A batch carries the   *)
(* time it was taken at (snapshotAt), a projection the time of the last    *)
(* snapshot it took over (lastHcmSnapshotAt), and a delivery skips the     *)
(* rows of a batch that is older than that.                                *)
(*                                                                         *)
(* Time is counted in changes of HCM's balances: tick n is the time        *)
(* between the n-th and the next, and past[n] is what HCM held then.  Two  *)
(* snapshots of one tick are equal, and either may be the later one.       *)
(*                                                                         *)
(* origin is not in the code: it is the tick of the balance that the       *)
(* projection really stores, which lastHcmSnapshotAt is meant to tell.     *)
(***************************************************************************)
EXTENDS TimeOffService, Sequences

CONSTANT MaxTicks   \* bound: HR changes no balance from this tick on

ASSUME MaxTicksAssumption == MaxTicks \in Nat
ASSUME ActorsAreDistinct ==
    /\ Readers \cap Workers = {}
    /\ Readers \cap Reconcilers = {}
    /\ Workers \cap Reconcilers = {}

VARIABLES
    past,               \* history: the balances of every tick
    sent,               \* the tick a batch was taken at, 0 before that
    lastHcmSnapshotAt,  \* the column of BalanceProjection, 0 for null
    origin,             \* history: the tick of the stored availableDays, or 0
    heardAt             \* the tick of the HCM answer that a handler holds, or 0

timeVars == <<past, sent, lastHcmSnapshotAt, origin, heardAt>>
timedVars == <<vars, timeVars>>

Listeners == Readers \cup Workers \cup Reconcilers

Now == Len(past)

TimesTypeOK ==
    /\ past \in Seq([Keys -> Nat \cup {NoBalance}])
    /\ sent \in [Batches -> 0..Now]
    /\ lastHcmSnapshotAt \in [Keys -> 0..Now]
    /\ origin \in [Keys -> 0..Now]
    /\ heardAt \in [Listeners -> 0..Now]

TimedInit ==
    /\ Init
    /\ past = <<hcmBalance>>
    /\ sent = [b \in Batches |-> 0]
    /\ lastHcmSnapshotAt = [k \in Keys |-> 0]
    /\ origin = [k \in Keys |-> 0]
    /\ heardAt = [a \in Listeners |-> 0]

-----------------------------------------------------------------------------

\* A change of HCM's balances starts a tick.
Elapse == past' = IF hcmBalance' = hcmBalance THEN past ELSE Append(past, hcmBalance')

Hears(a, tick) ==
    /\ heardAt' = [heardAt EXCEPT ![a] = tick]
    /\ UNCHANGED <<sent, lastHcmSnapshotAt, origin>>

\* The projection of k takes over the answer that a holds, with its time.
TakesOver(a, k) ==
    /\ origin' = [origin EXCEPT ![k] = heardAt[a]]
    /\ lastHcmSnapshotAt' = [lastHcmSnapshotAt EXCEPT ![k] = heardAt[a]]
    /\ heardAt' = [heardAt EXCEPT ![a] = 0]
    /\ UNCHANGED sent

\* The handlers that hold an answer of HCM about k, and are about to store it.
Holders(k) ==
    {s.reader : s \in {t \in reading : t.key = k}}
      \cup {x \in Reconcilers : At(x, "upsert") /\ audit[x].key = k}
      \cup {w \in Workers : job[w].pc = "accepted" /\ KeyOf[job[w].request] = k}

\* Whoever does not hold an answer any more has no time of one.
ForgetLost ==
    /\ heardAt' = [a \in Listeners |->
                      IF \E k \in Keys : a \in Holders(k)' THEN heardAt[a] ELSE 0]
    /\ UNCHANGED <<sent, lastHcmSnapshotAt, origin>>

KeepTimes == UNCHANGED <<sent, lastHcmSnapshotAt, origin, heardAt>>

TimedRefresh ==
    /\ \/ \E d \in Readers, k \in Keys : Admitted /\ RefreshRead(d, k) /\ Hears(d, Now)
       \/ \E s \in reading : RefreshUpsert(s) /\ TakesOver(s.reader, s.key)
    /\ UNCHANGED <<call, job, audit, batchVars>>

TimedReconcile ==
    /\ \/ \E x \in Reconcilers, k \in Keys : Admitted /\ ReconcileRead(x, k) /\ Hears(x, Now)
       \/ \E x \in Reconcilers : ReconcileUpsert(x) /\ TakesOver(x, audit[x].key)
       \/ \E x \in Reconcilers : AuditStep(x) /\ ~At(x, "upsert") /\ KeepTimes
    /\ UNCHANGED <<call, reading, job, batchVars>>

\* A confirmation stores HCM's answer and leaves lastHcmSnapshotAt alone.
ConfirmsWithoutTime(w) ==
    /\ origin' = [origin EXCEPT ![KeyOf[job[w].request]] = heardAt[w]]
    /\ heardAt' = [heardAt EXCEPT ![w] = 0]
    /\ UNCHANGED <<sent, lastHcmSnapshotAt>>

\* A step of a run that neither hears of a balance nor stores one.
OtherWorkStep(w) ==
    /\ WorkStep(w)
    /\ job'[w].pc # "accepted"
    /\ ~(job[w].pc = "accepted" /\ job'[w].pc = "next")

\* HCM answers with the balance after the deduction.
TimedSubmission ==
    /\ UNCHANGED <<call, reading, audit, batchVars>>
    /\ \/ \E w \in Workers :
             \/ SubmitAccepted(w) /\ Hears(w, Now + 1)
             \/ ConfirmSubmission(w) /\ ConfirmsWithoutTime(w)
             \/ OtherWorkStep(w) /\ ForgetLost
             \/ Admitted /\ StartProcessing(w) /\ KeepTimes
       \/ \E r \in Requests : RetryDue(r) /\ KeepTimes

-----------------------------------------------------------------------------
(* The batch.                                                              *)

\* HCM takes the snapshot that batch b will carry.
Export(b) ==
    /\ sent[b] = 0
    /\ sent' = [sent EXCEPT ![b] = Now]
    /\ UNCHANGED <<lastHcmSnapshotAt, origin, heardAt, vars>>

\* Mutant: no row is stale.
NeverStale(k, b) == FALSE

Stale(k, b) == lastHcmSnapshotAt[k] > sent[b]

\* The rows that pass the comparison tell balances of the batch's tick.
FreshRows(b, rows) ==
    \A k \in DOMAIN rows : rows[k] = past[sent[b]][k] /\ ~Stale(k, b)

TimedIngest(d, rows) ==
    /\ FreshRows(d.batch, rows)
    /\ IngestBatch(d, rows)
    /\ origin' = [k \in Keys |-> IF k \in DOMAIN rows THEN sent[d.batch] ELSE origin[k]]
    /\ lastHcmSnapshotAt' = [k \in Keys |->
            IF k \in DOMAIN rows THEN sent[d.batch] ELSE lastHcmSnapshotAt[k]]
    /\ UNCHANGED <<sent, heardAt>>

TimedBatch ==
    /\ \/ \E s \in Senders, b \in Batches :
             Admitted /\ sent[b] # 0 /\ BatchArrives(s, b) /\ KeepTimes
       \/ \E d \in delivery, rows \in RowSets :
             \/ TimedIngest(d, rows)
             \/ FreshRows(d.batch, rows) /\ IngestFails(d, rows) /\ KeepTimes
    /\ UNCHANGED <<call, reading, job, audit>>

-----------------------------------------------------------------------------

TimedDeath == (Restart \/ HandlerDies) /\ ForgetLost

TimedNext ==
    /\ \/ Command /\ KeepTimes
       \/ TimedRefresh
       \/ TimedSubmission
       \/ TimedReconcile
       \/ TimedBatch
       \/ \E b \in Batches : Export(b)
       \/ Now < MaxTicks /\ Hcm /\ KeepTimes
       \/ TimedDeath
    /\ Elapse

TimedSpec == TimedInit /\ [][TimedNext]_timedVars

-----------------------------------------------------------------------------

\* The balance a projection shows is one that HCM had, and had at the time of
\* the answer or snapshot it came from: an answer is never stored for another
\* pair, mixed with another handler's, or stored as it was before the deduction.
BalanceOfItsTime ==
    \A k \in Keys :
        projection[k].syncStatus # "ABSENT"
            => /\ origin[k] \in 1..Now
               /\ projection[k].availableDays = past[origin[k]][k]

-----------------------------------------------------------------------------
(* Properties of a service in which a balance that a handler has heard of  *)
(* is stored before another one of the same pair is.  The handlers may     *)
(* overlap otherwise, commands and deliveries among themselves included.   *)

\* A delivery may have rows of any pair.
AnswersApart == \A k \in Keys : \A a, b \in Holders(k) : a = b /\ delivery = {}

\* The behaviours in which every step leaves the answers apart.  With ~Overlap
\* all behaviours are of this kind.
TimedApartSpec == TimedInit /\ [][TimedNext /\ AnswersApart']_timedVars

\* The snapshot time of a projection never goes back: a late or repeated batch
\* does not undo a refresh or a newer batch.
SnapshotTimesGrow ==
    [][\A k \in Keys : lastHcmSnapshotAt'[k] >= lastHcmSnapshotAt[k]]_timedVars

\* A stored balance is replaced by an older one of HCM in one way only: by a
\* batch, and if the stored balance came with a confirmation, which does not
\* record its time.  Whatever else is stored is newer, or skipped.
OnlyConfirmationsAreUndone ==
    [][\A k \in Keys :
          origin'[k] < origin[k]
              => ingested' # ingested /\ lastHcmSnapshotAt[k] < origin[k]]_timedVars

-----------------------------------------------------------------------------
(* A property of the service as it is meant to be: see the README.         *)

\* A stored balance is never replaced by an older one of HCM.
OlderBalanceNeverWins ==
    [][\A k \in Keys : origin'[k] >= origin[k]]_timedVars

=============================================================================
