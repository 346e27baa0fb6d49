# Specifications of the BBPS gateway

TLA+ models of this repository's payment flow, the TLC configurations that check
them, and TLAPS proofs. Paths below are relative to `src/backend-gateway/app/`
unless they start with `src/`.

    tlc -workers 2 -config Gateway.cfg MCPaymentGateway.tla
    tlapm PaymentGatewayProofs.tla

## 1. The system

The backend is one asyncio process (or several, against one PostgreSQL database).
Request handlers and worker loops are coroutines; they interleave at every `await`,
and meet in three tables, in row locks, and in a few in-memory objects.

| Component | State | Operations | Meets the others through | What is hard | What makes it correct |
|---|---|---|---|---|---|
| Payment handler (`services/payment_service.py`) | its session with the objects `tx_log`, `lock_record` | validate, lock the key, create, submit, call the network, commit the outcome | `transaction_logs`, `payment_idempotency`, `reconciliation_logs`, the breaker | duplicates of a request; dying between commits; a network call that outlasts the 15 s cutoff; committing through an object loaded long ago | one request per key gets through; state, lock row and payload change together |
| Idempotency engine (`core/idempotency.py`) | `payment_idempotency` | `acquire_lock`, `update_status` | called by five services | look-up and insert are two steps | the unique key decides; a duplicate is answered or refused as the payment is |
| State machine and repository (`core/state_machine.py`, `database/repositories/transaction_repository.py`, `database/db.py`) | `transaction_logs` | `update_state`, `SELECT ... FOR UPDATE` | every writer | sessions keep their objects over commits (`expire_on_commit=False`) and do not refresh them under a lock | terminal states are final |
| Settlement (`services/settlement_service.py`) | none | `resolve_settlement` | recovery, reconciliation, retry | a second log makes `scalar_one_or_none` raise | one log, with the outcome |
| Recovery worker (`services/recovery_service.py`, `workers/reconciliation_worker.py`) | list of trace ids, row locks | scan, take one by one, commit | all rows in `AMBIGUOUS_TIMEOUT` | the list is old when a row is taken; locks of skipped rows stay | an ambiguous payment is resolved, once |
| Ambiguous state worker (`workers/ambiguous_state_worker.py`) | a batch of loaded rows, their locks | lock all stale rows, move each to `AMBIGUOUS_TIMEOUT` | rows of other requests | its first commit frees all locks; one illegal row aborts the batch | a payment stuck in flight is found |
| Retry worker (`workers/retry_worker.py`) | a batch, attempts, next run | retry, back off, dead-letter | rows in `PENDING_RETRY` | as above; attempts are counted on loaded objects | retries that end, bounded as far as they can be counted |
| Reconciliation API, OneView (`services/reconciliation_service.py`, `services/oneview_service.py`) | a session each | reconcile one trace id; reconcile all ambiguous rows of a customer while listing them | the same rows | OneView reconciles through the objects it has loaded, and swallows exceptions with the locks kept | an outcome is not overwritten |
| Circuit breaker and network simulation (`core/circuit_breaker.py`, `services/network_simulation_service.py`) | state, failure count, last change | `get_state`, `call`, reset | every payment request | the state is read before the network's latency and used after it | trips at its threshold, cools down, lets a single trial through |
| Payment page (`src/frontend-client/src/state/paymentStore.ts`, `pages/BillPayment.tsx`, ...) | payment status, tracked transaction, OneView list | fetch a bill, pay, poll, check now, select a biller | HTTP, 504 and 503 answers | callbacks are closures over an old render; answers and lists come late and out of order; the trace id of an ambiguous payment is guessed | the page tracks its payment and shows an outcome the ledger has had for it |
| File generation (`workers/file_generation_worker.py`, `services/biller_master_service.py`) | queue and registry in memory, archives on disk | enqueue, compile, report, download | event loop, file system | jobs die with the process, archives do not | what is called COMPLETED is complete |
| Middleware (`core/middleware.py`, `security/nonce_cache.py`, `auth/auth_middleware.py`, `main.py`) | nonce cache in memory, `ip_whitelist`, `audit_logs`, `gateway_request_logs` | check the address, read and verify the signed body, require a role, log | every request; the whitelist's own handlers | requests overtake each other while their bodies are read; errors pass through the layers; a restart forgets nonces | a nonce is good once; every answer is logged |
| Telemetry (`services/telemetry_service.py`) | counters in memory | raise | middleware, role check | one event raises counters in several layers, some of which another one skips | the figures are about the same requests |
| Accounts (`api/auth.py`, `auth/jwt_handler.py`, start-up in `main.py`) | `users`, `access_keys`, tokens at the clients | sign-up, activate, keys, roles, deactivate, delete, log in | each other's rows; the seeding at a start | the account is looked up, then changed, without a lock; tokens are not looked up again | a role has a source; who is deactivated is out in the end |
| Favorite billers (`services/favorite_biller_service.py`) | `favorite_billers` | add, update, delete | one row, no locks | check then insert | few duplicates, deletions are final |
| Biller cache (`src/frontend-client/src/cache/db.ts`, `api/stream_router.py`) | IndexedDB, shared by the tabs | hydrate from a stream, search | the table of billers, other tabs | the store is cleared first and written in parts; a stream that fails halfway | never partly filled and called full |
| Prepaid plans, the remaining routers, COU stub, page presentation | see `PROJECT.json` | | | | outside the models |

`PROJECT.json` lists every component with its status, the hazards with their lines,
and for each definition the lines it stands for.

## 2. The models

| Module | Models |
|---|---|
| `TransactionStates` | the states and `ALLOWED_TRANSITIONS` |
| `PaymentStore` | the tables, the row locks sessions keep, and the writes several services share (`SetState`, `WithStatus`, `Resolve`) |
| `PaymentHandler` | `process_payment` and `fetch_bill` |
| `AmbiguousStateWorker`, `RecoveryWorker`, `RetryWorker` | the worker loops |
| `ReconciliationApi` | `reconcile_transaction` and OneView |
| `PaymentGateway` | handler, ambiguous worker, recovery workers, OneView and operators composed on the same rows, with time; the properties |
| `RetryQueue` | retry worker and operators composed |
| `PaymentPromise`, `GatewayRefinement` | what a client is promised, and the mapping under which the gateway implements it |
| `CircuitBreaker` | the breaker and the requests that pass it |
| `PaymentNetwork` | breaker and payment handlers composed: what a handler commits is what `call` answered it |
| `PaymentPage` | the browser against a reduced gateway |
| `FileGeneration` | the worker, its queue and registry, the archives, and the two endpoints |
| `RequestAdmission`, over `Telemetry` | a request's way through the middleware, and the whitelist's handlers |
| `Accounts` | the handlers of `api/auth.py` that write, logins and tokens, and the seeding at a start |
| `FavoriteBillers` | `FavoriteBillerService` for one customer |
| `BillerCache` | seeding and streaming of billers, and the hydration of the browser's cache |
| `CustomerBillers` | the last two composed: a customer adds a biller chosen from the cache |
| `PaymentGatewayProofs`, `CircuitBreakerProofs`, `RetryQueueProofs`, `PaymentPageProofs`, `FileGenerationProofs`, `RequestAdmissionProofs`, `AccountsProofs`, `CustomerBillersProofs` | theorems |
| `MC*` | the instances for TLC |

How state and actions correspond to the code:

- **A database transaction on one payment is one step.** It takes the row's lock,
  so what it reads under the lock and what it commits cannot be separated; the
  network call and every other point at which another session can commit is
  between two steps. `held[a]` are the locks a session keeps *between* steps: those
  of a batch before its first commit, of rows the recovery worker skipped, of a row
  on which OneView swallowed an exception.
- **Loaded objects are state of their own.** `batch`, `todo`/`loaded` and `viewed` are
  what a session remembers of rows. The code validates a transition against these
  and writes over whatever the row has become; so do the actions (`AmbiguousMark`,
  `RetrySettles`, `OneViewReconcile`). Once it has created the payment, a request
  validates against its own object, which is what `pc` says.
- **Database failures and cancellation.** With `Faults` a worker may be cancelled
  or hit an error at any of its steps, which rolls back and drops its locks.
  `CrashAt` names the points at which a request may die.
- **Time** is the action `Age`: 15 seconds pass without an update of a row.
  `Timely` says that no network call lasts that long.
- **Free choices.** What the network answers, what polling a payment resolves it to,
  and which requests fail are nondeterministic, as the simulation's are random.
- In `RetryQueue` the rows are in `PENDING_RETRY` initially: nothing in the gateway
  puts one there, only the seeding script and the tests.
- In `PaymentPage` a row is a number in order of creation, OneView lists all of a
  customer's rows, and `poll` and `check` are the closures of a running poll and a
  running "Check Now", with the transaction of the render that made them and what that
  render's list has for it. A load of OneView is several steps: the gateway reads the
  rows (`OneViewLoad`), resolves those it read as ambiguous (`OneViewReconcile`, any number of
  times), and the list arrives and is stored (`LoadEnds`), or is lost, which keeps the old
  one; `views` are the lists on their way, one for each payment's answer, for the poll and for
  "Check Now". As OneView resolves through what it has read, it may write over an outcome
  (`Resolve`), and so may that of another page (`Reconcile`); `past` keeps the states each
  row has had. The history variable `orderly` is true while the user has waited for what
  was due and every payment was located in a list just loaded.
- In `RetryWorker` a retry is made (`executed`), and the commit after it makes its count the
  row's (`CountAttempt`), or a rollback takes the count back (`RetryUndone`, `undone`).
- In `CircuitBreaker` `cooled` says that the cooldown has passed since the last change of
  state. A call that finds OPEN past its cooldown makes it HALF_OPEN first, so that a failure
  which leaves the breaker OPEN has changed it twice, and the cooldown starts again (`MoveTo`).
- In `FileGeneration` a step is what the worker does between two awaits; writing the
  archive, removing the raw files and marking the job is one, which `Kill` and `Break`
  may interrupt (`Interrupted`). A stop of the worker is the end of its process; only
  tests stop and start it within one.
- In `RequestAdmission` a step ends at an await: reading the body, a query, a commit, the
  inner layers. `req[r].pc` is where in the stack of middlewares a request is. A nonce's age is
  measured by a clock of fractions of a second (`Second` ticks to one), a timestamp in whole
  seconds, as `time.time()` and `int(...)` do. A change
  of the whitelist is a look-up (`Lookup`), a commit (`Insert`, `Refresh`, `Delete`) and the
  commit of its audit row (`AuditChange`). A signature is a flag of the message.
- In `Accounts` a handler is a look-up, a commit and the commit of its audit row, of which
  only the ending is kept. An account or key has an identity, who created it, since the ORM
  writes by primary key the columns that differ from what was loaded: `req[r].seen` is what
  was loaded. A token carries name and role and ends with time (`Leave`); a configured API key
  carries a role (`ApiRoles`) and needs no login. A start seeds the users and keys that are
  missing, all or none.
- In `FavoriteBillers` and `BillerCache` likewise: `request` is what a request has looked up,
  `tab` what a tab has read, gathered and written. The pages of the stream are queries of their
  own without an order, so a line may be any biller (`ReadLine`). `HydratedIsComplete` is about the tab
  that cleared the shared store last (`clearer`, a history variable, like `unlogged` in
  `RequestAdmission` and `overlap` in `Accounts`, which mark the cases a property excludes).

Mutants (`\* Mutant of ...`) stand beside the definitions they change. Each is a
plausible bug that the property named in `PROJECT.json` catches.

## 3. The runs

Runs that hold:

| Run | Instance | Properties | What it shows | States |
|---|---|---|---|---|
| `Gateway` | 3 requests, two with the same key; ambiguous worker, 1 recovery worker, 1 OneView; operators reconcile any open row; slow calls; faults; requests die | `TypeOK` `OneOwner` `ResolvedAgrees` `SuccessHasPayload` `LockedBatchIsFresh` `OverwrittenThroughOldObjects` | in the worst environment one request per key submits, the tables agree on every outcome even after one overwrote another, a SUCCESS has its payload, and an outcome is overwritten only through an object loaded before it, never by a recovery worker or an operator | 862,356 |
| `GatewayWorkers` | 3 requests, a bill, 2 recovery workers; operators act on ambiguous rows; `Timely`; faults; no OneView | `AuditTrail` `TerminalIsFinal` `KeepsPromise` | nominally the gateway implements `PaymentPromise`: accepted once, resolved at most once, in both tables at once; the log is exact | 116,120 |
| `GatewayLiveness` | 3 requests that may die in flight, 1 recovery worker, 1 OneView, `Timely` | `AmbiguousGetsResolved` `SubmittedGetsResolved` | a payment that reached the network is resolved although its request is gone | 21,636 |
| `Breaker` | 2 requests of one payment that may die, a bill, 2 other callers; threshold 3, failures counted to 6 | `TypeOK` `TripsAtThreshold` `AnswersTellNetwork` `OpenIsLeftByCooldown` `OpenEnds` `CallsEnd` | with late answers the breaker trips exactly at its threshold, and an open one waits for its own cooldown, also when a late failure has opened it again, and then ends; the network gets the payment once at most, and clients are told what it did | 79,284 |
| `RetryQueue` | 2 rows, 1 worker, 2 retries, of which up to 2 per row lose their count; operators, faults | `RetriesAreBounded` `ResolvedAgrees` `LockedRowIsFresh` `RetriesEnd` | a retry is added only where a rollback takes back the count of one that was made; no row is lost, dead-lettered early or resolved in one table only | 24,840 |
| `PaymentPage` | 2 payments, 4 rows; lists late, lost and out of order; a OneView that overwrites an outcome | `TracksOwnPayment` `ShowsTheOutcome` `AmbiguityEnds` | the tracker of a user who waits follows the right payment; it shows only outcomes the ledger has had for its row, and gets to show one | 758,682 |
| `FileGeneration` | 3 files, failing disk and database, restarts | `TypeOK` `NothingForgotten` `FetchedIsWhole` `NotifiedIsWhole` `AnswersStay` `JobsEnd` | no job is forgotten or done twice, the registry keeps a cut-off archive from clients while its process lives, and what a client was given stays so | 56,229 |
| `Admission` | 2 requests out of 7 messages (shared nonces and trace ids, stamps early and late, from inside and outside, changes of the whitelist), with headers, without, or signed by the gateway; 2 ticks to a second, window 1 s; 1 restart | `AcceptancesAreApart` `CountersAgree` `AnswersAreLogged` | no nonce is accepted twice within its lifetime although bodies arrive late, the security figures agree, and every answer has its row in the request log | 1,200,621 |
| `Accounts` | 2 requests of every operation, over 4 names and a standalone key; a client that logs in, an API key of an ADMIN; 1 restart | `RolesAreGranted` `OneKeyEach` `RolesBySuperAdmin` `AccessEnds` | interleaved look-ups and commits give nobody a role without a source, and who stays deactivated is out in the end | 261,160 |
| `CustomerBillers` | 2 requests for 2 rows, 2 tabs, 1 seeder, 3 billers, batches of 2, chunks of 1 | `DuplicatesAreBounded` `HydratedIsComplete` `DeletedStays` | concurrent adds make a favorite as often as they are, no more; the tab that cleared the store last has stored every line it read when it says it succeeded | 827,748 |

Runs that are violated, each by what the code does against what it says:

| Run | Property | Behaviour |
|---|---|---|
| `TerminalOverwritten` | `TerminalIsFinal` | OneView loads a payment as ambiguous, the recovery worker settles it, OneView locks the row, still sees its own object, and fails it |
| `StuckInFlight` | `StuckGetsDetected` | a bill nobody paid goes stale as INITIALIZED, which may not become ambiguous; every batch of the worker that contains it is rolled back, and a payment stuck in flight stays there |

**Bounds and why they are enough.** The payments' rows do not interact except in the
batches of the workers, where a second row is what matters: it may be held, skipped,
illegal, or left over after the first commit. Two payments and one bill cover these.
Two requests of one key race each other; a third adds an independent owner. Two
recovery workers cover two processes that list the same rows. Breaker: the threshold
is the code's 3; of four callers some answer late, both before and after a trip, and the
two that are duplicates race for their payment;
`MaxFailures` ends the counting three beyond the threshold, where only HALF_OPEN
trials still count. Retries: 2 instead of 5, with every initial count; `MaxUndone` lets each
row lose the count of two retries, after which a third adds nothing new. Page: two
payments, so that there is an older one to confuse with, and two bills; `MaxLate` lets the user
act while one answer or list is due, which the next one then overtakes or follows,
`MaxLookups` lets a poll or a "Check Now" overlap with the loads of the payments (the
theorems have both at once), and `MaxRewritten` lets one row's outcome be overwritten, as
often as may be, while others are not. Files: one
is done while one is compiled and one waits. Admission: a race over a nonce or a trace id
is between two requests, and the clock runs past the nonce's lifetime, so that a nonce is
forgotten and used again (`LastTick`); a request is handled once. Accounts: a handler is a
look-up and a commit, so two handlers have every interleaving; names are one per kind
(three default users: a SUPER_ADMIN, an ADMIN and a CLIENT, and a name not known before);
`MaxStarts` is one restart, as a second finds nothing new. Billers: three lines are a full
batch and a rest, a batch has two chunks, two tabs clear under each other, and both rows
of the favorites are the same biller when both requests win; requests may follow each
other without end. Symmetry is used where no liveness is checked.

`CHECK_DEADLOCK FALSE` stands where requests are finite in number and all may be
done. The runs `Breaker`, `FileGeneration`, `Admission`, `Accounts` and `CustomerBillers` check
deadlock.

**Fairness.** The event loop runs every coroutine that is ready, so the steps of a
request, of the workers' iterations and of a OneView session are weakly fair; the
loops sleep a few seconds and iterate again; time passes (`Age`, `CoolDown`,
`RetryFallsDue`); on the page the recovery goes on and "Check Now" is answered. A recovery
worker's fairness is per row: it takes its list in some order, to the end. Nothing asks that users, operators or faults act. In `Accounts`
only the ends of tokens are fair (`Leave`: a token is good for an hour, and a login that has
started is answered); nobody must ask for anything. In `Breaker` other requests keep coming,
since the breaker leaves OPEN only when somebody looks at it. Strong fairness is needed in two places.
`RetryRow`: a worker comes to a row again and again, and faults do not hit exactly that
retry each time. The polls of a page: a new one starts every 2 s (`PollStart`, which in the
model may have to let a "Check Now" end first), and not every one of them fails on its way to
the gateway (`OneViewLoad`) or back (`PollEnd`).

## 4. Observations that no run is kept for

- **Slow calls.** When a network call outlasts the cutoff (`Timely` FALSE), the worker
  makes its payment ambiguous, recovery resolves it, and the request then commits its
  own answer over that. `TerminalIsFinal` and `AuditTrail` do not hold in
  `Gateway`'s instance, which is why it does not list them; `ResolvedAgrees` still
  does.
- **A second reconciliation log.** The handler adds a log without looking for one.
  After a slow call there can be two, and every later `resolve_settlement` for the
  trace id raises MultipleResultsFound: recovery tries such a row for ever.
- **Dead letters.** `RetryExhausted` writes only the row: its idempotency key stays
  PENDING, so a client who asks again is told that the payment is in progress.
- **Retry batches.** After the first commit of a batch the rest is unlocked: a row an
  operator has failed is settled by the retry.
- **Retries that are not counted.** The count of a retry stands with the commit after it
  (`retry_worker.py:82-112`): when the database fails or the task is cancelled in between, the
  retry was made and is made again, so that a row may be retried more than `max_retries` times
  (`RetryUndone`).
- **The page of a hurried user.** Selecting another biller while a payment is pending
  lets the late answer change the new page; a failed OneView load lets the page
  track an old row, or UNKNOWN, for ever. The model has these behaviours; the
  properties that exclude them say `orderly`.
- **An outcome the page has shown.** The tracker stops polling at the first outcome. A OneView
  that read the row as ambiguous before may write another one over it (`TerminalOverwritten`),
  and the tracker keeps the old one. `ShowsTheOutcome` therefore speaks of what the ledger has
  had for the row (`past`).
- **Archives and restarts.** A process killed while it writes an archive leaves a
  truncated file; its successor knows no job and answers "Successfully fetched the
  zipped file" with it. `get_file_archive`, which is modelled, asks the registry of its
  process; the download router (`download_router.py:30`), which is not, never asks it.
- **Duplicates of a recovered payment.** Recovery stores a payload that is not a
  `PayBillResponse`; a duplicate request that finds it fails (`payment_service.py:276`;
  `LookupFinal` ends in `error`).
- **Trials of the breaker.** Several requests that find the breaker half-open all go to the
  network, although "HALF_OPEN: Allows a single trial request" (`circuit_breaker.py:15`):
  the state is read before the latency and nothing counts the trials.
- **A 503 on the page.** A 503 of the network is ambiguous for the gateway and a rejection
  for the page; recovery may settle the payment that the page called rejected.
- **A wrong role.** `require_role` is no coroutine, so its check runs in a thread without
  an event loop, where `asyncio.create_task` (`auth_middleware.py:179`) raises: the caller
  gets a 500 and the audit trail no row, where `tests/test_auth_security.py:76` expects a 403.
- **A trace id used twice.** `request_id` is unique and the client chooses it, so the second
  request under one is not logged (`middleware.py:629`; `unlogged`).
- **Keys.** Two activations with one standalone key may both succeed (`auth.py:400`). Two
  regenerations at once leave two keys, and then `scalar_one_or_none` (`main.py:225`) raises
  at every later start. Users and keys are seeded in one transaction, and the exception leaves
  `initialize_database`: no user, key, whitelisted address or report is seeded any more
  (`overlap`).
- **Stale accounts.** Activity, deletions and roles are judged by the account as it was
  loaded: two toggles may become one (`auth.py:743`), and an account promoted to SUPER_ADMIN
  meanwhile may be deleted (`auth.py:583`). Roles are spared only because the ORM writes no
  column that is as it was loaded: what an ADMIN passes is CLIENT for a CLIENT
  (`auth.py:788`), and writes nothing over a promotion committed meanwhile
  (`RolesBySuperAdmin`; `UpdateRoleAlways` is the mutant that does). A default user that was
  deleted is back after a restart (`main.py:208`).
  A token outlives its account's deactivation by up to an hour.
- **Favorites.** Two requests that add a biller at once both insert it; every later look-up
  of it raises MultipleResultsFound (`favorite_biller_service.py:60`).
- **Broken-off hydrations.** The cache is cleared before the stream is read, so one that
  breaks off leaves a part of it (`db.ts:179`), which a later search takes for the whole. A tab
  whose lines another tab has cleared meanwhile still reports success (`db.ts:279`), and pages
  without an order may miss a biller (`stream_router.py:34`).

## 5. What is proved

TLAPS proves, for every value of the constants (numbers of requests, keys, workers,
sessions, rows, files, tabs; thresholds, windows, sizes of batches):

| Theorem | States |
|---|---|
| `PaymentGatewayProofs!TypeCorrect` | `Spec => []TypeOK` |
| `OneOwnerAlways`, `ResolvedAgreesAlways`, `SuccessHasPayloadAlways`, `LockedBatchIsFreshAlways` | the invariants of run `Gateway`, in any environment: slow calls, faults, operators, OneView |
| `OverwrittenThroughOldObjectsAlways` | in any environment an outcome is overwritten only through an object loaded before it |
| `NominalInvariant`, `AuditTrailNominally`, `TerminalIsFinalNominally` | in the nominal environment (`Timely`, no OneView, operators on ambiguous rows) the log is exact and terminal states are final |
| `GatewayKeepsPromise` | in the nominal environment the gateway implements `PaymentPromise` |
| `CircuitBreakerProofs!TypeCorrect`, `TripsAtThresholdAlways`, `OpenIsLeftByCooldownAlways` | the breaker, for every threshold and number of requests; each period of OPEN lasts its own cooldown |
| `NetworkImplementsParts`, `BreakerOfPayments`, `AnswersAreTrue` | the breaker with payments among its callers: it works as it does alone, and answers tell what the network did |
| `RetryQueueProofs!TypeCorrect`, `ResolvedAgreesAlways`, `LockedRowIsFreshAlways` | the retry queue, for any number of workers and rows |
| `RetriesAreBoundedAlways`, `NobodyGivesUpEarly` | one worker retries a row at most `MaxRetries` times, and once more for each retry whose count is rolled back; of any number none gives up earlier |
| `PaymentPageProofs!PageInvariant`, `TracksOwnPaymentAlways`, `ShowsTheOutcomeAlways` | the page, for any number of payments, rows and loads under way, and any OneView that overwrites an outcome |
| `FileGenerationProofs!TypeCorrect`, `NothingForgottenAlways`, `FetchedIsWholeAlways`, `NotifiedIsWholeAlways`, `AnswersStayAlways` | every safety property of run `FileGeneration`, for every number of files |
| `RequestAdmissionProofs!AdmissionTypeCorrect`, `NoReplayWithinLifetime`, `EveryAnswerIsLogged`, `FiguresAreOfTheSameRequests` | the middleware, for any window, clock and requests |
| `AccountsProofs!AccountsTypeCorrect`, `RolesChangeBySuperAdmin`, `RolesHaveASource`, `OneKeyUnlessOverlap` | roles and keys, over any number of requests and starts |
| `CustomerBillersProofs!FavoritesAreBounded`, `NoDuplicatesAlone`, `DeletionsAreFinal` | favorites, for any finite number of requests and rows; none twice when requests come one at a time |
| `HydrationsAreComplete` | hydrations, for any tabs and sizes of batch and chunk: of the tab that cleared the store last |
| `ImplementsParts`, `OnlySeededAreChosen` | the composition implements its parts; a chosen biller was seeded |

Assumptions are those named in the modules. Payments and bills have different trace ids
(`KeysAssumption`), `Ref` maps requests to payments (`RequestsAssumption`), the sessions of
the workers and of OneView differ (`SessionsAssumption`), thresholds and sizes are positive,
and a value that stands for "none" is none of the others (`TimeAssumption`,
`MessageAssumption`, `AccountsAssumption`, `AskAssumption`, `FavoritesAssumption`,
`CacheAssumption`, `RetryAssumption`, `PageAssumption`, ...). `FavoritesAssumption` makes the
requests and rows finite, as the bound counts them; `CustomerAssumption` says that the seeded
billers are billers. TLC evaluates each of them.

*The gateway in any environment.* `GatewayInv` is `TypeOK` with five more parts.
`ResolvedAgrees` alone is not inductive: a step that resolves a row writes the lock row only
if there is one (`update_status` merely logs a missing one), so it must be known that a
payment's log and lock row exist together (`RowsTogether`), and that every row a session
remembers or has locked exists (`RememberedRowsExist`, `LockedRowsExist`). `OneOwner` needs
that an owner's key has its row (`OwnersHaveLock`): then the insert of a second owner fails.
`LockedBatchIsFresh` needs the discipline of the locks. Two lemmas carry the step: a
write of row k keeps the invariant if it leaves an agreeing lock row, and a payload
if it says SUCCESS (`RowWrite`); a step that writes neither table keeps it if what it
remembers and locks exists (`NoWrite`). Each action is then one lemma that shows it to
be of one kind or the other.

`OverwrittenThroughOldObjects` follows step by step from `GatewayInv`: a recovery worker and an
operator read the row again under the lock (`RecoveryOverwrites`, `ApiOverwrites`); of the
ambiguous worker's batch a row with an outcome cannot be one whose lock it still has, as
`LockedBatchIsFresh` would make it in flight (`AmbiguousOverwrites`).

*The gateway in the nominal environment.* `NominalInv` adds to `GatewayInv` that a live
request's row is in the state its session remembers, is not stale, and is in nobody's batch
(`LiveRows`); that a loaded batch is what the rows are, also those whose locks the first
commit freed (`BatchIsFresh`); and that row, lock row and log of a payment are in one of four
combinations (`Story`). The argument: only the ambiguous worker loads rows, only stale ones;
a live row is not stale, so no request writes a loaded one, and the other writers resolve
only AMBIGUOUS_TIMEOUT rows, which a batch does not contain. Every step then leaves a
payment alone, creates it, advances it or concludes it, and at most one payment takes such a
turn (`OneTurn`, lemma `NominalGoes`). The refinement is that a turn is `Accept`, `Succeed`,
`Fail` or a stutter (`TurnKeepsPromise`). The environment is a hypothesis about the constants:
the run `TerminalOverwritten` and the first observation of section 4 show that neither part
of it can be dropped.

*The breaker.* `TripsAtThreshold` speaks of a streak of failures the code does not
keep; `BreakerInv` adds that `failure_count` is that streak (`CountsStreak`).
`OpenIsLeftByCooldown` is two facts about a step: an OPEN breaker whose cooldown is running
takes nobody in and lets nothing end it (`OpenShields`), and a call that fails leaves the
cooldown at its beginning, in whatever state it found the breaker (`FailureRestarts`).

*Payments through the breaker.* Every step of `PaymentNetwork` is a step of the breaker or of
a handler and leaves the other alone (`StepOfParts`), so that what is proved of the breaker
holds of it too. `AnswersTellNetwork` says nothing of the tables, from which duplicates are
answered: `NetworkInv` adds that a request has called only once it has submitted, and commits
what the call answered (`LegsFollow`), that one request owns a payment (`OwnerIsOne`), that a
key with an outcome has it from a request that was told so (`KeysFollow`), and a duplicate
repeats that (`DuplicatesFollow`). The owner made the only call.

*The retry queue.* `RetriesAreBounded` needs that what a worker has loaded counts as many
attempts as the row while it works on it, and that the retries made are those counted and
those whose count was rolled back (`CountsRetries`). This holds for one worker: of two
whose batches overlap, the later commit would write the older count back. Attempts get lost
that way, but none is counted that was not made (`CountsAtMost`), for any number of workers.

*The page.* `PageInv` is the types, `LedgerInv` and, while the user is `orderly`, `Waited`.
`LedgerInv`: whatever list the ledger, the page or a load has, and whatever a closure has found,
tells of a row only what the row has been (`ListsAreKnown`, `ClosuresAreKnown`), and so does
the tracker of an outcome (`TrackedIsKnown`); the history only grows (`PastGrows`), so this
outlives any order of answers and any overwriting. `Waited`: the one call under way
is about the newest row (`OneCall`, `OwnIsNewest`), which is also the last one of the list that
the gateway has read for it (`ViewIsNewest`), since no row is created while the user waits.

*The files.* `FileInv` says where an open file is (`QueueIsOpen`, `JobIsOpen`,
`OpenIsKept`) and, for a file whose work is over, what registry, disk, callback and
answers say of each other (`Settled`). Only the archive of the job can be cut off
(`InterruptedIsOpen`), and an open job was never notified nor handed out.

*The middleware.* `AdmissionInv` adds that an accepted request's nonce is in the cache with
the time of its acceptance or a later one while it is alive (`AcceptedKept`): checking and
adding a nonce is one step of the event loop, and cleaning up drops only those past their
lifetime. For the log it adds that a row belongs to a request that is done, and is that request's
(`RowsAreOfTheDone`).
`CountersInv`, the invariant behind the figures, says that a request gets its verdict
once, on its way out of the signature (`JudgedOnce`), how the security figures follow the number
of requests with each verdict (`FiguresAgree`), and the traffic figures the number of those who
can have been timed and of those who were or will be counted (`TrafficAgrees`). No assumption makes the requests finite: only
finitely many have come, so every set has a size.

*Accounts.* `AccountsInv` adds that a request past its look-up knows the account and the key
it will write (`Informed`). `GrantInv` says of every account, every standalone key and every
key some request holds that its role was granted; grants stay, since a request never forgets
what it asked or found (`GrantsStay`). `OneKeyEach` is about
requests between two commits: regenerating a key deletes the keys it found and then adds one.
`KeysInv` says that what a request knows is past (`AllPast`), that a name has one account and
a key one row (`OneName`, `OneRow`), to whom the keys a request holds belong (`HeldInv`), and
that a regeneration nothing overlaps is about to delete every key its account has (`AloneInv`).

*Billers.* The bound on favorites is inductive: the check of an add finds no active row, so
what may be added is at most one by each request at work. The hydration needs that the store
has the chunks written of the batch and everything before it, for the tab that cleared last.

Every invariant, action property and refinement a passing run checks is stated by one of these
theorems. Only model-checked: liveness, for which TLAPS has no ENABLED.

## 6. What is not modelled

- Amounts, masking, passwords, hashes, the bytes that are signed, the text of answers: no
  property distinguishes them.
- Prepaid plans and the COU stub: look-ups over fixed lists, and a service nothing calls.
- Telemetry's latency sums and health score, encrypted reports and signed download tokens:
  they are read, or computed from one call's data, and decide nothing in the modelled parts.
- Audit rows of account operations; those of the middleware are kept.
- The download router and its tokens: of the archives only `get_file_archive` is modelled. The
  order and the columns of the lines of a stream.
- Deadlock detection of PostgreSQL is assumed: a session in a cycle of lock waits
  fails, which is a fault.
- In the page: answers that come after the client's 15 s timeout, bill answers that
  arrive after another biller was selected, the saved shortcuts, and presentation. The other
  pages store their own lists in the page's store; they appear only as what their OneView does
  to the rows. `AmbiguousStateWorker` making a slow payment ambiguous under the page's request
  is left to `PaymentGateway`.
- More than one gateway process: memory (nonces, breaker, file registry) is that of one. The
  tables' models allow several, as several recovery or retry workers.

## 7. What is left

The parts above exist with their runs and proofs. What would add most is the page with
answers later than the client's timeout.
