# A formal model of the time-off service

TLA+ modules, TLC runs and TLAPS proofs for the time-off service in `src/`: a
NestJS application that keeps employees' time-off requests and a local
projection of their balances, and synchronises both with an HCM, the system of
record, which the repository mocks in the same process.

## The system

| part | state | operations | interacts with |
| --- | --- | --- | --- |
| database (`prisma/schema.prisma`, migrations) | balance projections, requests, ledger entries, sync events | transactions; unique keys and CHECKs | everything |
| time-off-requests | none of its own | create, approve, reject, cancel | reserves and returns days in the projection, queues the submission event on approval |
| balances | none of its own | refresh | reads the HCM, overwrites the projection |
| hcm-integration, outbound | none of its own | process-pending | takes queued events, submits to the HCM, settles request, projection, ledger and event |
| hcm-integration, inbound | batch events | ingest a batch of balances | overwrites projections, writes ledger entries |
| reconciliation | none of its own | reconcile one balance | reads the HCM, settles submitted requests or moves them to `CONFLICT_REVIEW` |
| mock-hcm | balances, configured failures, accepted submissions | set a balance, set failures, submit, clear | called synchronously |
| test-support | none | reset | empties the mock and the tables |

Controllers, DTOs, mappers and the error filter forward calls and hold no state.

One process serves every HTTP request. A handler runs until it awaits the
database; then others run. So what is hard here is:

- **read, then write.** Approve, reject and cancel load a request, let the
  entity decide, and save in a transaction of their own. Approve's and create's
  updates check the `version` that was read; reject's and cancel's do not.
- **select, prepare, submit, record.** A `process-pending` run lists the due
  events once and then works through them with awaits in between. Nothing marks
  an event as taken, so two runs can work on the same one.
- **failures of the HCM** are retried later through `nextAttemptAt`, and one
  `catch` serves both the call and the recording of its answer: a database error
  after HCM has deducted the days makes the service submit the request again.
- **two copies of the balance.** The projection is overwritten by refreshes,
  confirmations, batches and reconciliation, each with an answer it got earlier.
- **compensation.** Each reservation is returned by exactly one of reject,
  cancel, HCM's refusal or its confirmation; the ledger's idempotency keys are
  per kind of return, not per reservation.
- **a list that ages.** Reconciliation lists the submitted requests once and
  settles them by id, without looking at what they have become since.
- **late and repeated batches.** Two deliveries of one batch may both find it
  new, and a batch may be older than what the projection shows.
- **a handler that dies** of a database error leaves what it has committed, and
  **a restart** loses every handler, and with it the mock's balances, failures
  and memory of accepted submissions; the database stays.

What makes each part correct:

- *commands*: reserved days are covered when they are reserved; an approval does
  not overwrite another decision; a cancellation disarms the queued event; a
  submitted request is not withdrawn.
- *book-keeping*: the reserved days are the days of the open requests, and the
  ledger explains them.
- *submissions*: each confirmed request is deducted once, nothing else is
  deducted, a recorded outcome stays, attempts are bounded.
- *refresh, batch, reconciliation*: an older snapshot does not replace a newer
  one; a change by a batch is booked once; a reconciled request is settled like
  a processed one.
- *progress*: a request that waits for HCM keeps its open event and does not
  stay uncertain.

## Modules

| module | models | source |
| --- | --- | --- |
| `TimeOffStore` | the tables, their constraints, the updates that handlers share | `prisma/`, repository |
| `MockHcm` | the HCM: balances, failures, submissions, what it remembers | `mock-hcm.service.ts` |
| `RequestCommands` | create, approve, reject, cancel | the use cases, the entity, `prisma-time-off-request.repository.ts` |
| `BalanceRefresh` | the refresh | `refresh-balance.use-case.ts`, `prisma-balance-projection.repository.ts` |
| `HcmSubmission` | `process-pending` and the retry clock | `hcm-integration.service.ts` |
| `BatchSync` | the ingestion of batches of balances | `hcm-integration.service.ts` |
| `Reconciliation` | the reconciliation of one balance and its requests | `reconciliation.service.ts` |
| `TimeOffService` | all of them over one database and one HCM, with dying handlers and restarts; the properties | |
| `SnapshotTimes` | `TimeOffService` with `lastHcmSnapshotAt` and the time of every answer and batch | `hcm-integration.service.ts`, `prisma-balance-projection.repository.ts` |
| `ServiceProgress` | the fairness of the service's schedule, and liveness | |
| `ReservationBook` | abstract: a reservation is made once and returned, or taken by HCM, once; HCM's answer may get lost | |
| `MCTimeOffService`, `MCSnapshotTimes`, `MCServiceProgress` | small instances for TLC | |
| `TypingProofs`, `CommandProofs`, `LedgerProofs`, `SubmissionProofs`, `BatchProofs`, `ApartProofs` | theorems about `TimeOffService` | |
| `TimeProofs` | theorems about `SnapshotTimes` | |

`TimeOffStore` and `MockHcm` are extended by the components, each of which adds
the variable that holds its handlers' local state: `call`, `reading`, `job`,
`audit`, `delivery`. `TimeOffService` extends them all and says what each of them
leaves unchanged. `ServiceProgress` and `SnapshotTimes` extend `TimeOffService`;
`ReservationBook` is instantiated there.

### From the code to the model

- *Rows.* `projection`, `request` and `event` map a key or a request to its row;
  a row that is not inserted yet has status `"ABSENT"`. The ledger is the set of
  idempotency keys in its table, `<<"confirmed", r>>` for
  `request_confirmed:${r}`; amounts and texts follow from the key.
  `HcmSyncEvent` has one outbound row per request, because the idempotency key
  is made of the request's id. The inbound rows are the set `ingested` of batch
  ids, and `replaced` holds the ledger entries of batches, `<<b, k>>` for
  `hcm_snapshot_replaced:${b}:${k}`.
- *Steps.* An action is one committed transaction, one read outside of a
  transaction, or one synchronous call to the mock. A transaction that fails
  rolls back, so its action leaves the store alone (`...Conflict`,
  `RecordingFails`, `IngestFails`). A handler that fails its first check changes
  nothing and is no step.
- *Errors of the database.* Any query or transaction may throw. Inside the `try`
  of a run that is `RecordingFails`, which needs no reason: the `catch` takes it
  for a failure of the call to HCM. Everywhere else nothing catches it, and the
  handler ends (`HandlerDies`), a run also between two events, or before it has
  scheduled a retry.
- *Isolation.* SQLite serialises writing transactions, so they are atomic. The
  transaction of create is the exception: it compares the balance first and
  updates with a version check afterwards. The model splits it there, which
  allows more than SQLite does, and shows that the version check alone carries
  the property.
- *What a handler remembers.* Commands remember the version they read: the
  entity's check ran at the read, and the save writes constants and increments.
  A refresh remembers the balance, a run the events it selected and the balance
  HCM answered with, a reconciliation the balance and then the requests it
  listed, a delivery that it found no event for its batch.
- *Selection order.* A run takes its events by `createdAt`, a reconciliation its
  requests as the database lists them; in the model in any order, which includes
  those. A batch has one row for a pair.
- *Time.* `nextAttemptAt` is null, ahead of the clock or reached by it;
  `RetryDue` passes it. `TimeOffService` knows no other time: there a batch
  applies any subset of its rows. `SnapshotTimes` adds the comparison with
  `lastHcmSnapshotAt`. It counts time in changes of HCM's balances, and keeps
  with `past` what HCM held at each tick. `origin` is history as well: the tick
  of the balance a projection really shows, which the code does not record.
- *Days* are natural numbers. `HCM` balances change by `UpsertBalance`, failures
  by `ConfigureSubmissionFailure`, at any time.
- `accepted` is the mock's `acceptedSubmissions`, which the reconciliation asks.
  After a restart it is empty.
- Two variables are history, and no action looks at them: `charges` counts the
  deductions per request, and `unrecorded` has the requests of which HCM's
  acceptance was lost, because recording it threw or the process stopped before.

`Overlap` says whether handlers interleave. `FALSE` starts a handler only when
none is running; the service does not enforce this, but its tests and its
scenario script call it so. `Crashes` says whether handlers may die, one by one
or all together with the process. After a restart the mock starts empty, as in
the code, where it is part of the process. `RecordingFails` does not depend on
either.

Several properties do not survive every interleaving, and say what they need
instead:

- `Apart`: no two handlers have one request in hand. `Hands(r)` are those that
  do: a command from its read to its save, a run from the preparation of the
  event to the record of the answer, a reconciliation while it settles the
  request. `ApartSpec` has the behaviours in which every step leaves the handlers
  apart. They overlap otherwise: refreshes and batches with anything, runs and
  reconciliations with each other and with commands on other requests, and with
  lists that others have made stale.
- `AnswersApart` in `SnapshotTimes`: an answer of HCM that a refresh, a run or a
  reconciliation has heard about a pair is stored before another one of the pair
  is heard or a batch arrives. `TimedApartSpec` has these behaviours.

Both are conditions on the schedule that the code does not enforce; they are what
a lock per request, or per balance, would give. Without overlap they hold, which
is proved (`SerialIsApart`, `SerialAnswersAreApart`).

Neither says anything of failures. What a lost acceptance leads to needs no race:
the days are deducted again by the next attempt, or a reconciliation confirms the
request, returns no reservation and books nothing (`Unbooked`), the case that
`test/reconciliation.e2e-spec.ts:130` sets up. The properties under `ApartSpec`
hold without exception of all requests outside of `unrecorded`; of those inside
`ReservedMatchesOpen`, `LedgerTellsFate` and `KeepsTheBook` say what is left:
their reservation comes back at most once, and stays exactly where a
reconciliation was the one to confirm them. `ChargedOnce` and
`ChargesMatchOutcomes` say nothing of them: they may be deducted twice, or
deducted and then refused. The run `unreturned` shows the reservation that stays.

## Runs

All of them have one employee and location, so that requests, refreshes and
batches compete for one balance.

| run | instance | checks | states |
| --- | --- | --- | --- |
| `apart` | overlap and deaths, `ApartSpec`; two requests of one day; two callers, a worker, a reconciliation; balance 2 | `ReservedMatchesOpen`, `ChargedOnce`, `ChargesMatchOutcomes`, `LedgerTellsFate`, `KeepsTheBook`, `SubmittedNotWithdrawn`, `ClosedStaysClosed` | 1,026,825 |
| `commands` | overlap; two requests of one day; two callers, a worker; one batch that is delivered twice, with rows of 0 or 1 days; balance 2 | `TypeOK`, `LedgerExplainsReserved`, `CancelledEventNotPending`, `NoOverbooking`, `ApprovalIsExclusive`, `BatchChangeIsBooked` | 881,404 |
| `submissions` | overlap and deaths; one request; a caller, a reader, two workers, a reconciliation; balance 2; outages of 1 | `ConfirmedWasCharged`, `RunsKeepOutcomes`, `AwaitsHcmIsQueued`, `NoneIsRevived` | 761,480 |
| `snapshots` | `TimedApartSpec`, overlap and deaths; two batches; one request; a caller, a reader, a worker, a reconciliation, a sender; balance 2; three ticks | `BalanceOfItsTime`, `SnapshotTimesGrow`, `OnlyConfirmationsAreUndone` | 728,543 |
| `progress` | `FairSpec`, overlap; one request; a caller, a reader, a worker, a reconciliation; outages of 1, at any time and as often as HCM likes | `UncertaintyEnds` | 99,824 |

Recording an answer may fail in all of them.

What they show:

- *apart*: handlers that keep their hands off each other's requests keep the
  books, whichever of them die. The service implements `ReservationBook`: each day
  is reserved once, handed to HCM, and comes back or is deducted once, until an
  acceptance is lost, and then comes back at most once. The ledger has the entries
  of each request's end and no others, and an event that was closed stays closed,
  although a run or a reconciliation that listed it earlier still comes to it.
- *commands*: the versions, the idempotency keys and the CHECKs are what
  interleaved handlers rely on. Nothing is reserved that is not there, an
  approval overwrites no other decision, a cancelled request has no event left to
  submit, the ledger explains the reserved days, and a batch that is delivered
  twice at once is booked once.
- *submissions*: two runs and a reconciliation may fight over one request, and one
  of them or the process may die in between. A confirmation is always backed by a deduction, a
  run revises no outcome, what was decided never waits again, and a request that
  waits for HCM keeps an open event.
- *snapshots*: `lastHcmSnapshotAt` never goes back, what a projection shows is a
  balance that HCM had when the answer or the batch was made, and only a balance
  that came with a confirmation is ever replaced by an older one.
- *progress*: an approved request is settled or put to review, even if HCM fails
  forever, and recording its answers too.

Seven runs show where the code does not do what its documents, constants or
DTOs say. In each, TLC finds a short behaviour that violates one property:

| run | property | what happens |
| --- | --- | --- |
| `double_charge` | `ChargedOnce` | two runs select one event; the second takes the request, by now submitted, for a retry, and HCM deducts its days twice |
| `late_cancel` | `SubmittedNotWithdrawn` | a cancellation that loaded an approved request saves after its submission, by id alone |
| `double_release` | `ReservedMatchesOpen` | a reject and a cancel that loaded the same request both save; reservedDays now lacks another request's days |
| `exhausted` | `AttemptsBounded` | the third failure sets `nextAttemptAt` to null, which the selection takes for due: there is a fourth attempt. No overlap is needed |
| `unreturned` | `FinishedReleasesDays` | HCM accepts, recording that throws, and the reconciliation that finds the submission confirms the request: its days stay reserved. No overlap is needed |
| `refused_batch` | `EndedDeliveryIsIngested` | a row of 0 days for a new pair makes a ledger entry of 0 days, which the CHECK refuses: the batch can never be ingested. No overlap is needed |
| `stale_batch` | `OlderBalanceNeverWins` | a confirmation stores HCM's newer balance under the old `lastHcmSnapshotAt`, so a batch from before the deduction undoes it. No overlap is needed; while answers are kept apart, it is the only way (`OnlyConfirmationsAreUndone`) |

The first three properties are also those of the `apart` run: they hold as long
as no two handlers have one request in hand. When they do, reconciliation breaks
`KeepsTheBook` and `LedgerTellsFate` in ways of its own: it confirms a request
that HCM accepted while a run is recording that, and it moves to review what was
settled while it looked. `FinishedReleasesDays` is what `ReservedMatchesOpen`
would be if acceptances were never lost.

Two more things a reader of the code should know have no run, because they are
plain from the text: no handler takes a request out of `CONFLICT_REVIEW`, although
`TRD-time-off-microservice.md:616` has transitions out of it, so its days stay
reserved; and every attempt after a recording that threw deducts the days again,
because the mock does not look whether it knows the request, although line 194 of
that document wants no retry to duplicate effects.

### Bounds

- *Two requests on one key* are enough for one request to be settled at the
  expense of another; keys do not interact otherwise. Runs that are about what
  handlers do to one request have one.
- *Two callers, two workers, two senders* are the smallest numbers that race. A
  race of different kinds of handlers needs one of each.
- `MaxVersion` stops refreshes, deaths (`MayDie`), and reconciliations that have
  nothing to settle (`WorthReconciling`): the sources of unboundedly many
  versions. A death is possible up to and at `MaxVersion`, so at every step of
  each handler that a version below it can start. The other writers are bounded by
  the requests and batches. A refresh
  runs at least once in every instance, because only it or a batch inserts a
  projection, and in `submissions` and `snapshots` several times.
- `AttemptsCap` is one above `MAX_SUBMISSION_ATTEMPTS`, so a fourth attempt
  shows; the counter then stays. `MaxCharges` is two, so a second deduction
  shows.
- `MaxDays` bounds the rows of a batch where times do not say what they are, and
  covers all balances in `SnapshotTimes`. `MaxTicks` stops HR after two
  changes of the balance, so that two batches and an answer can all be of
  different times; the deductions of submissions come on top.
- *Symmetry* permutes callers, readers, workers, reconciliations, senders and
  batches, and the requests where they have the same days. It is used where
  invariants and step properties are checked, the steps of `ReservationBook`
  included, which treats requests of the same days alike; not for liveness.
- `apart` has one worker and no outages: `RecordingFails` takes a run to every
  step that an outage does. Two workers that are apart are at different requests,
  and the proofs have any number of them.
- *Deadlock* is checked wherever HR can always act. In `snapshots` and
  `stale_batch` it is not: there `MaxTicks` stops HR, so a behaviour may end when
  nothing is left to do.

### Fairness

`FairSpec` in `ServiceProgress` assumes, each as weak fairness:

- *a handler that has begun goes on* (`HandlersGoOn`). The process awaits
  nothing but its database and the HCM in its own memory;
- *the clock runs* (`ClockRuns`): a retry becomes due;
- *operators call again* (`OperatorsCall`). The code has no scheduler:
  `process-pending` and `reconciliation` are HTTP calls that somebody makes, and
  they are assumed to be made again as long as there is something to do.
  Without that nothing happens at all.

Nothing is assumed of employees, managers and HR, who may never act again, nor
of HCM, which may fail forever, nor of the recording of its answers. Deaths are
not part of it (`Crashes` is `FALSE`): handlers that always die finish nothing.

## Proofs

The theorems hold for every set of keys, requests, batches and handlers, under
the assumptions named beside the constants: requests have a key and more than
zero days, balances, outages and the days of rows are natural numbers, the bounds
are numbers above what they bound, and (in `SnapshotTimes`) handlers of different
kinds have different names. Every property of the passing runs but the liveness
is proved.

For any interleaving, with failed recordings, dying handlers and restarts:

- `Typing` (`TypingProofs`): `Spec => []TypeOK`. The step that is not a matter of
  form is the release of a reservation: `reservedDays` stays a natural number
  because of the CHECK in `CanRelease`. One lemma per action.
- `NeverOverbooks`, `ApprovesOnlyPending`, `OutcomesAreKept` and
  `DecidedStaysDecided` (`CommandProofs`). None of them follows from typing: what a command relies on
  at its second step was read at its first. `CallInv` says what the remembered
  version is worth: it is not ahead of the row's, and as long as it matches, what
  was read still holds (a create's days are covered, an approval's request is
  pending). Versions only grow, so a match excludes any write in between.
  `OutcomeInv` ties the submission status to the request's: a recorded outcome
  never belongs to a request that is pending, approved or submitted.
  `DecidedStaysDecided` needs `CallInv` for the approval, and of a run that it
  looks at the request again before it submits it.
- `LedgerIsComplete` and `AnswersAreBookedOnce` (`LedgerProofs`). `BookInv` adds
  that the ledger is finite and that only requests that exist have a reservation
  in it. A create in flight works on one that does not, and `CanRelease` looks at
  the key, so the entry a transaction writes is new and the sum grows by exactly
  its days. Sums are cardinalities of sets of days, so the lemmas are about finite
  sets and need no recursion. The unique keys alone would let the ledger book a
  confirmation and a refusal of one request; it does not because a run books an
  answer for a submitted request only, and no handler makes it that again
  (`AnswerInv`).
- `CancelledIsNotSubmitted`, `AwaitingIsQueued`, `ConfirmationsAreCharged`
  (`SubmissionProofs`), by an invariant on who can still write a request's event,
  by the fact that an event is closed only together with its request, and by one
  that ties whoever is about to confirm (a run with an answer, a reconciliation
  that found the request among the accepted ones) to a deduction that was made.
- `BatchChangesAreBooked` (`BatchProofs`): only ingested batches have entries, so
  the entries of a batch that passes the unique index are new.
- `TimesRefine` (`TimeProofs`): `SnapshotTimes` implements `TimeOffService`, so
  all of the above holds with times too. `BalancesAreOfTheirTime`: whoever holds
  an answer of HCM holds the balance of the tick it was heard at (`TimeInv`), and
  the past does not change.

When no two handlers have one request in hand (`ApartSpec`, in `ApartProofs`),
for any number of handlers in flight:

- `ApartInv` says why a handler may write what it has decided earlier. Its
  request is still as it read it (`HandlerInv`): pending or cancellable for a
  command, submitted for a run, and for a reconciliation that is about to confirm
  it, confirmed since or `unrecorded`. For that, what HCM has accepted must be
  confirmed, in the hands of the run that heard of it (`Heard`), or lost
  (`AcceptedInv`); an event is `UNCERTAIN` only while its outcome is open
  (`UncertainInv`); and a lost request has been submitted and is open or finished
  by HCM's second answer or a reconciliation (`LostInv`). `LedgerTellsFate`
  provides that no unique key and no CHECK stops the transaction that ends a
  request, and needs `ReservedInv`, the reserved days of the open requests with
  the finiteness of their sum. No part is inductive without the others.
- Each step has one actor (`ActorStep`) and touches nothing of a request that
  another one has in hand (`Untouched`). `Lifecycle` then says that every step
  moves at most one request, along the transitions of the entity, its reservation
  and its ledger entry with it; `ConfirmsLost` is the one of them that moves
  neither. From these follow `ReservationsAreOpen`, `LedgerIsFaithful`,
  `HandedOverStays` and `ClosedEventsStay`.
- `SubmissionsAreChargedOnce` and `OutcomesMatchCharges` follow from `OnceInv`:
  outside of `unrecorded`, the requests that are confirmed or heard of are those
  that were charged, and once. A restart takes from `accepted` what it takes, but
  not this: what was heard of and not recorded is then `unrecorded`
  (`LossStep`).
- `BookIsKept` is the refinement of `ReservationBook`: initial states map to
  initial states, and each step to a move of one request, to the loss of the
  acceptances a restart or a failed recording takes away, or to a stutter
  (`BookStepRefines`).
- `SerialIsApart`: a service whose handlers do not overlap is of this kind.
  `Alone` says that at most one handler is in the middle of something.

When an answer is stored before another balance of its pair is
(`TimedApartSpec`, in `TimeProofs`):

- `TimesGrow` and `BalancesOnlyAgeByBatch`. Whoever holds an answer has heard it
  after all that is stored of the pair, and what is stored is not older than
  `lastHcmSnapshotAt` says (`GrowInv`). A step leaves a balance alone, stores such
  an answer, or ingests a batch that the comparison let pass (`StoresStep`); only
  the last can set a balance back, and only below a `lastHcmSnapshotAt` that a
  confirmation has left behind.
- `SerialAnswersAreApart`: handlers that do not overlap keep the answers apart.

Only model-checked: `UncertaintyEnds`, because liveness under fairness is not
within the prover's reach. Of the properties that TLC finds violated, the three
that hold when handlers are apart have a proof, for that case.

## Not modelled

- *test-support*: the reset empties the mock and the tables between two
  scenarios, while nothing else is called. It returns the service to its initial
  state.
- *presentation and wiring*: controllers, mappers, DTOs, the error filter and
  dependency injection hold no state. Validation of inputs shows up as the
  assumption on `DaysOf` and the ranges of inputs. The scenario script calls the
  endpoints one after the other, which is `Overlap = FALSE`.
- *texts and timestamps* other than those that the code compares.
- *the rounding of fractional days*: the columns are REAL, TLA+ has no floating
  point.
- *a batch with two rows for one pair*: when both change the balance, the second
  runs into the unique index of the ledger and the batch rolls back.
