# A verification project for crypdog

crypdog watches receiving addresses on several blockchains, matches incoming
transfers to payment intents (orders) by their exact amount, waits for
confirmations and notifies the merchant by webhook. This directory holds TLA+
modules of its core, the TLC configurations that check them on small
instances, and proofs that TLAPS checks for all instances. Paths below are
relative to the repository; `internal/` is left out where it is obvious.

1. [The system](#1-the-system)
2. [Modules](#2-modules)
3. [Runs](#3-runs)
4. [Fairness](#4-fairness)
5. [Proofs](#5-proofs)
6. [Findings](#6-findings)
7. [What is not modelled](#7-what-is-not-modelled)
8. [Plan](#8-plan)

Run a check with `tlc -config <X>.cfg <MC module>.tla`, a proof with
`tlapm <module>_proofs.tla`. `PROJECT.json` lists the components, the runs, a
mutant of the model for every checked property, the source lines of every
definition, the hazards, the findings and the theorems.

## 1. The system

One process (`app/app.go`) starts the HTTP server, one scanner per chain, the
matcher's consumer, the confirmation worker, the cleaner and the webhook retry
worker. All of them share one database; replicas of the process may share it
too. There is no leader and no lock in the database: what replicas agree on
is what single SQL statements and one unique index give them.

| Component | State it keeps | Operations | Speaks to | What is hard | What makes it correct |
|---|---|---|---|---|---|
| Keyed mutex `lock/locker.go` | map of entries: token channel, reference count | Acquire, unlock closure, releaseRef | called by intent service and pool | time-out against token, deletion by key against late arrivals, closure called twice | a mutex per key; no token lost; no entry leaked |
| Intent service `service/intent.go` | rows of `payment_intents` (WATCHING, CANCELLED) | RegisterOrReactivate, AllocateOrReactivate, CancelIntent | locker, pool, database | read-check-write across statements, whole-row `Save`, two different locks | distinct amounts; fixed terms; quarantine of released amounts |
| Micro-amount pool `engine/pool_manager.go` | none but the database | AllocateUniqueAmount, CheckCollision | wallets, intents | check and write apart; quarantine by `updated_at`; the client's spelling in a query; rounding after the check | no amount handed out twice |
| Matcher `engine/matcher.go` | `chain_transfers`, intent rows (CONFIRMING, PAID) | ProcessTransfer, ReprocessUnmatchedTransfer, settle | scanners, verifier, dispatcher | duplicate delivery, order changes between query and save, late recovery | a settled order names its own transfer; keys follow status |
| Confirmation worker `queue/confirmation_worker.go` | intent rows (PAID), matched id | checkConfirmations every 2 s | scanners' height and verifier, dispatcher | stale list, verifier errors, two statements | deep valid payments are settled in the end |
| Cleaner `queue/cleaner.go` | intent rows (EXPIRED) | one UPDATE every 10 s | | races with requests and settlement | overdue orders leave WATCHING |
| Webhook dispatcher `queue/webhook_dispatcher.go` | `webhook_logs` | DispatchEventAsync, retry worker every 3 s, leases | merchant | crash between steps, two replicas, order of events, table of backoffs, dropped errors of lookups | one row per attempt; none after success; none forgotten |
| Start-up `db/db.go`, `app/app.go` | keys of old rows, replay list | backfill, recoverUnmatchedTransfers | matcher | crash anywhere; unique index in the backfill | as above, across restarts |
| Pipeline `app/app.go` | channel of 500 transfers | consume, drain on shutdown | scanners, matcher | back-pressure, push after the drain | a persisted transfer reaches the matcher |
| EVM scanner `scanner/evm_*.go` | cursor, chain height, RPC order | block windows, receipts, fail-over | RPC, channel, database | crash between persist, push and cursor; underflow; ignored query error | no block is skipped |
| Solana scanner `scanner/solana_scanner.go` | newest signature per address | paging backwards, cold start | RPC | bursts, cold start, order of commits | no signature is skipped |
| TRON scanner `scanner/tron_scanner.go` | newest timestamp per address | paging by fingerprint | HTTP API | page limit, equal timestamps, repeated delivery | no transfer is skipped |
| Scanner manager, health `scanner/manager.go`, `health.go` | registry, failure counters | dispatch by chain, health report | API, worker | concurrent updates | health follows the last results |
| HTTP API `api/*.go` | rate limiter's map | validation, translation, wallet administration | services | limits, time-outs of input | calls of the services are well-formed |
| Payment options `service/payment_option.go` | none | one query | API | | |
| Configuration, logging, metrics, signature | values, counters | | | | |

How they interact: scanners push a transfer to the channel (the EVM scanner
records it in `chain_transfers` first, for the others the matcher does); the
consumer hands it to the matcher, which changes the order
and dispatches `get` (and `confirm` if the transfer is deep already); the
worker later changes CONFIRMING to PAID and dispatches `confirm`; requests and
the cleaner change the same rows at any time. Every one of them except the
cleaner reads a row, computes, and writes it back in a later statement; most of
them write the whole row. That is the main source of the hazards listed in
`PROJECT.json`, and the reason why `PaymentIntents` makes every statement an
action of its own.

## 2. Modules

### KeyedMutex, KeyedMutexLocker

`KeyedMutex` is the promise: wait for a key, be granted it while nobody holds
it, or give up, release. `KeyedMutexLocker` is `lock/locker.go`: `locks` is
`l.locks`, `heap` the entries (token in `e.ch`, and `ref`), `pc`, `key` and
`ent` a goroutine's place in the code, its key and the entry its closure
captured. One action per critical section of `l.mu` and per channel operation:

| Action | Code |
|---|---|
| `Register` | find or create the entry, `ref++` (41-51) |
| `TakeToken` | `case <-e.ch` (61-70) |
| `GiveUp`, `ReleaseRef` | time-out or cancelled context, then `releaseRef` (53-67, 83-93) |
| `Unlock`, `ReleaseRef` | the closure returns the token, then `releaseRef` (72-93) |
| `DropClosure` | the caller lets go of the closure; until then it may call it again (`sync.Once`) |

A fresh entry may reuse the address of one that nobody refers to any more. The
detailed module implements `KeyedMutex` under the mapping of `pc` to the
abstract phases (`ImplementsMutex`).

### OrderLife, PaymentIntents

`OrderLife` is the life of the orders with everything in between left out: a
status and the transfer each order is credited with. A request or a cancellation
begun in time may take any order back, a credited one too (finding 1); an order is
credited only while it is not, keeps its transfer until it is taken back, is paid
with the transfer it was confirming, and does not return from PAID to CONFIRMING.
`PaymentIntents` implements it (`ImplementsOrderLife`): `status` and `credit` are
two columns of `rows`. `doc/flow.md:310` draws a stricter graph, which the code
does not keep.

`PaymentIntents` has the tables `payment_intents` (`rows`) and `chain_transfers`
(`matched`) for one chain, token and address, and everybody who writes them. Rows
keep the token as the client spelled it. A
handler between two statements is a record with what it has read:

| Variable | Code |
|---|---|
| `reg[r]` | a register or allocate request under the allocation lock: row read, amount checked or picked, row to be saved |
| `cn` | a cancel request under the lock `order:<id>`, which does not exclude the others |
| `mt` | the matcher's current transfer and the order it chose (`e.mu` serialises transfers) |
| `wk` | the worker's list and the element it verified |
| `recovery` | what the replay at start-up still has to feed the matcher |
| `chain`, `now`, `up`, `restarts` | transfers on chain, the clock, whether start-up gave up, a bound |

`Register`/`Allocate`, `CheckCollision`/`PickAmount`, `SaveRequest` are the three
statements of a request; `Cancel`, `SaveCancel`; `CleanExpired` is the cleaner's
UPDATE; `Receive`/`Reprocess`, `QueryWatching`, `QueryExpired`,
`SettleConfirming`, `SettlePaid`, `SettleFails` the matcher; `ListConfirming`,
`CountConfirmations`, `SkipConfirming`, `VerifyConfirming`, `PayConfirming`,
`MarkTransfer` the worker; `Restart` loses all of the handlers, gives keyless
active rows their key (or dies on the unique index) and reads the unmatched
transfers. A transfer on chain may be received at any time and again, which is
what overlapping windows and restarts of the scanners do.

Choices worth knowing:

* Amounts are integers in units of the matcher's epsilon, so neighbouring
  amounts are those the matcher cannot tell apart. Only the base amount of an
  allocation has a decimal more, so that `Round(6)` (`pool_manager.go:106`) changes
  some: `PickAmount` looks for a tail that is free at the unrounded amount
  (`Takes`) and hands out the rounded one (`Rounded`), as the code does.
* `Spellings` are the ways in which clients write the token, `Upper` the one in
  capitals, which scanners use. The places that read it differ:
  the lock key has the client's spelling (`service/intent.go:61`, `LockFree`), so
  that two spellings run under two locks; `CheckCollision` and the allocation key
  compare in capitals; `AllocateUniqueAmount` compares `UPPER(token)` with the
  client's spelling (`pool_manager.go:82`) and so sees no row at all if that is not
  in capitals (`Counted`). The matcher compares exactly (`Fits`): an order in another
  spelling is never matched.
* `SharedLock` is TRUE for one process. FALSE stands for replicas, each with its
  own locks (`model/models.go:32-33` and `service/intent_test.go:356` speak of
  several services on one database). The runs have TRUE and two spellings, whose
  requests race as those of two replicas do; the theorems cover both.
* The replay at start-up reads some of the unmatched transfers (any subset): those
  of the last 48 hours, 200 at most. What it leaves out is the pipeline's subject.
* A tick is minutes, handlers take seconds: `Tick` waits until no handler is
  half-way (`Quiet`). A fresh order outlives its handler, hence `Timeout > 0`
  (`normalizeTimeout` in `api/intent_handler.go` sees to it).

### NotificationLog, WebhookDispatcher

`NotificationLog` is what all replicas write together, without replicas, leases
or crashes: of each notification the attempts `made`, numbered from 1 without a
gap, whether it is `acked`, and whether the next one is `owed`. One action puts the
next attempt on record; another says what a failed lookup does (`Miss`): a
notification that `missed` an attempt on record may see it repeated, even after an
acknowledgement, but its log still has no gap and still owes the next attempt.
`WebhookDispatcher` implements it (`ImplementsNotificationLog`): `made` and `acked`
are computed from the rows, `owed` from `next_retry_at` of a row that has no
follower, `missed` is `unseen`; all else that workers do, claims and clearing
included, is a stutter.

`logs` is the table `webhook_logs` in order of id, `first` the goroutine of each
notification's first attempt, `wk` the retry worker of each replica. Times are
ages in ticks. `unseen` is a history variable: the notifications of which the
lookup of the next attempt failed although the attempt was on record. The code
drops the error of both of its `Count` queries (172-174, 191-194) and goes on with
0, so such an attempt is made and logged again; the properties say what holds of
all others, and that a failed lookup of the acknowledgement alone does no harm.

| Action | Code (`queue/webhook_dispatcher.go`) |
|---|---|
| `Dispatch`, `PostFirst`, `LogFirst` | `DispatchEventAsync` and `DeliverWithRetry` in its goroutine (212-327) |
| `ReadPending` | the query of due rows, oldest first, `BatchLimit` (20) of them (147-158) |
| `TakeRow` | the next row, settled if the event is acknowledged; lookup and update may fail (160-177) |
| `ClaimRow` | the conditional UPDATE with the lease (179-187) |
| `CheckChild` | the lookup of the next attempt, which may fail and count as none (189-200) |
| `PostRetry`, `LogRetry`, `FinishRow` | delivery, new row, clearing of the old one, which may fail (202-208, 265-308) |
| `LogFirstFails`, `LogRetryFails` | the insert fails (305-308) |
| `LogRetryPanics` | an attempt past the backoff table; `recover` ends the round (140-145, 300) |
| `Crash` | a replica dies with its goroutines |

A batch of at most 20 deliveries, each with a time-out of 5 to 10 seconds, is
over before its five minutes' lease is; `Tick` assumes that (it holds while
`webhook.timeout_sec` is below 15). A notification is dispatched once, and only
for URLs that `ValidateWebhookURL` accepts.

### TransferPipeline, ScannerPipeline

`TransferPipeline` is the part of `app/app.go` that every scanner shares, and the
vocabulary of faults: `mode` is the context ("stopping" once it is cancelled),
`chan` the channel, `table` the rows of `chain_transfers` in order of id, `consumer`
the place of `runPipeline`, the rows it has left to replay and the payments it
leaves for the next start (`later`). A statement or a request under a cancelled
context fails; another one may fail `MaxFaults` times (`Saves`, `SaveFails`,
`Works`, `Fails`).

| Action | Code (`app/app.go`) |
|---|---|
| `ReadUnmatched`, `Reprocess` | `recoverUnmatchedTransfers`: the query of at most 200 rows of the last 48 hours, then each in turn; an error is logged (132-168) |
| `Consume` | `safeProcess`; an error or a panic is logged and the transfer dropped (101-184) |
| `Drained` | after the cancel, the channel is found empty (103-119) |
| `Shutdown`, `Exit` | `waitForShutdown`: cancel, wait for the consumer and for nobody else, the next start (212-241) |
| `Crash` | the process dies anywhere and is started again |

The matcher is one step here, the one that writes the row; `PaymentIntents` has its
inside. Which rows get a `matched_order_id` is therefore left open (a row whose
order is CONFIRMING has none), and so is how long a process is down: `ReadUnmatched`
finds any rows, and what it does not find is too old for every later start.
`ScannerPipeline` extends the three scanners and composes each of them with the
pipeline: `chains` is the set of chains that the configuration enables, `Next` a
step of the consumer, of one scanner or of its chain, or the end of the process,
which makes all of them forget at once.

History variables name what the properties have to except, and a line of code
stands behind each: `givenUp` holds payments that the code leaves behind for good (a
query whose error is dropped, a start from the tip, a burst beyond the page limit,
a hand-over that failed before there was a row, a row older than 48 hours at a
start), `consumer.later` those that wait for another start (rows beyond the limit
of the replay, failed hand-overs), `lost` what a crash took out of the channel
before it had a row, `unwritten` (EVM) what was pushed although its insert had
failed, `coldSkip` (Solana) what a cold start has stepped over and not worked off
since.

### CursorStream

What a scanner wants of its cursor, in two actions: the stream grows and items
are dealt with, but nothing appears, moves or disappears behind the cursor
(`Stream`); the cursor moves over items that have been dealt with (`Move`).
`EvmScanner` implements it with blocks as places (`EvmImplementsCursor`),
`TronScanner` with timestamps (`TronImplementsCursor`); "dealt with" is recorded, in
the channel, given up or lost as below. It says more than that nothing is
skipped at some moment: an item that came into a block or into TronGrid's index
behind the cursor would break it, whether it is found later or not.
`SolanaScanner` does not implement it: a cold start moves the cursor first and
works off what is behind it afterwards (finding 4).

### EvmScanner

`ev` is the scanner: its place in the code, `lastScannedBlock` (`cursor`), the
window in work (`safe`, `to`), the logs found and the transfer in hand.
`evmSaved` is its row of `scan_progress`. The chain is `height`, as each node
sees it, and `block`, that of each payment. `current` and `down` belong to the
RPC client.

| Action | Code (`scanner/evm_scanner.go`, `evm_rpc_client.go`) |
|---|---|
| `InitCursor` | saved cursor, else `StartBlock - 1`, else the tip less the margin (244-288) |
| `ReadTip` | `safeBlock := latest - delay` in `uint64`; nothing new ends the round (299-321) |
| `QueryWallets` | active wallets, their error dropped; without any the cursor moves at once (323-352) |
| `FetchLogs`, `FetchLogsFails` | `GetERC20Logs` of the window (354-394) |
| `PersistTransfer`, `PushTransfer` | row, then channel, one transfer after the other (395-429) |
| `CommitProgress` | the saved cursor, then the one in memory (431-459) |
| `EvmReturns` | the places where the context is looked at |
| `Answers(n)` | `doRPC`: the ring of nodes from the last that answered (249-284) |

`Mine`, `Reorganise`, `EnableWallets`, `NodeFails` and `NodeRecovers` are the
outside world: nodes are at most `MaxLag` blocks apart, and a reorganisation
replaces what is not `Delay` deep.

### SolanaScanner

One address stream. `sol` is the scanner: `mem` its cursor in memory, `last`
the cursor the round started from, `oldest .. newest` what it has fetched and
not worked off. `solSaved` is `scan_progress.last_signature`.

| Action | Code (`scanner/solana_scanner.go`) |
|---|---|
| `SolRestore` | cursor from memory, table or last transfer; failed queries count as empty (144-297) |
| `SolFetch` | one page of signatures, newest first, until the cursor, a short page or 200 (299-322) |
| `SolCold` | no cursor: the newest signature is committed first (324-339) |
| `SolPass`, `SolParse`, `SolPush` | failed, unknown or old transactions; parsing; the channel (342-414, 389-515) |
| `SolCommit` | `commitSignature` after each (350-386) |
| `SolRpcFails` | an error ends the round (303-359) |

### TronScanner

One address. `tron` is the scanner: `mem` its timestamp cursor in memory, `last`
the one of the round, `max` the highest seen, `fp` the fingerprint, `todo` what
is left of the page. `tronSaved` is its row of `scan_progress`, timestamp and
fingerprint.

| Action | Code (`scanner/tron_scanner.go`) |
|---|---|
| `TronStart` | cursor from memory, table, last transfer or half an hour ago (193-338); the time of the last transfer is cut to seconds (327), so the round may start from an earlier one |
| `TronFetch`, `TronFetchFails` | one page, newest first, inclusive `min_timestamp` (346-394) |
| `TronPush` | the transfers of the page to the channel (387-444) |
| `TronPageDone` | a page with a fingerprint: saved with the old cursor; 20 pages end the round (455-465) |
| `TronRoundDone` | the last page: the cursor moves to `max` (445-454) |

Abstractions of the scanners: EVM wallets are enabled all at once and payments
go to enabled wallets; one Solana stream and one TRON address stand for the
independent streams of several addresses, one transfer for a transaction;
`latestBlock` (read by the worker only) and the cache of block timestamps are
left out. TronGrid lists newest first and gives a fingerprint if more follows
and perhaps also if not.

## 3. Runs

Every property of a passing run has a mutant: a plausible bug in the mapped
definition with which TLC finds the property violated under the same
configuration.

| Run | Instance | What it shows |
|---|---|---|
| `locker` | 3 goroutines, 2 keys, 3 entries | mutual exclusion, an entry exists exactly while somebody is registered, one token per entry, every waiter gets out, `KeyedMutex` is implemented |
| `intents_payments` | 2 orders, 1 transfer, 1 amount, 1 request at a time, clock 0..2, 1 restart | key and status agree, settled orders name their transfer, released amounts stay in quarantine, `OrderLife` is implemented, deep payments settle |
| `intents_requests` | 2 orders, 2 neighbouring amounts, 2 requests of one process in 2 spellings, base amounts 9.0 and 9.4 with a tail of 1, clock 0..1, 1 restart | no two watched orders share an amount: the unique index alone is enough; requests that see the others respect the quarantine; terms of a watched order are fixed within a spelling |
| `webhook_retries` | 1 notification, 2 replicas, 4 attempts, backoff table of 2, lease 2, window 8, batches of 1, 2 faults (crash, failed insert, update or lookup) | one row per attempt and no delivery after an acknowledgement, unless a failed lookup missed an attempt on record; exclusive leases; a failed attempt stays scheduled and is followed up, `NotificationLog` is implemented |
| `scanners` | one kind of scanner at a time; channel of 1, replay of 1, 1 stop, 1 fault; EVM: 2 nodes, 2 payments, heights 1..3, delay 1, windows of 1 and 2; Solana: 4 signatures (one failed), pages of 1, at most 3 a round; TRON: 3 transfers (two of one timestamp), pages of 1, at most 2 a round | no saved cursor passes an unrecorded payment; nothing is recorded that can be reorganised away; what has a row reaches the matcher; what is queued before the end of the drain is not dropped; the matcher catches up with every chain; `CursorStream` is implemented by EVM and TRON |
| `paid_is_final`, `one_transfer_one_order`, `no_past_transfer`, `every_attempt_is_logged`, `cold_start_errors`, `tron_page_limit`, `short_chain` | as small as shows it | a statement of the documentation that the code does not keep; see [Findings](#6-findings) |

Why the bounds are enough: the interesting case of the locker is a third goroutine
that arrives while one leaves and one waits, with an entry free for reuse. Two
orders, one transfer and a clock of three values let an order expire, its amount be
released, wait out the quarantine and be taken by the other one, while the matcher
or a cancel request holds an old copy; a quarantine of 0 ticks lasts until the end
of the tick it starts in, so that the amount is both refused and handed out within
the bound; and one order may be revived late while the other holds its key, so that
the start-up fails. `intents_requests` leaves the transfer out, since the race is
between requests. Its bases are chosen so that one is kept by the rounding and one
is not (9.4 + 1 is handed out as 10, where it collides with an order whose distance
from 9.4 takes no tail). Two spellings in one
process race as two replicas would, and compare less: what holds of them for the
unique index holds of replicas, for which it is also a theorem. In `webhook_retries`
the backoff table is shorter than the number of attempts, so that the panic happens;
the window is four times the lease as two faults lose two (in the code the window of
two hours is 24 leases). Two faults are a lost worker or update and the failed
lookup after it, the pair that repeats an attempt. In `scanners` every limit of the
code is below what the instance has: the channel is full after one transfer, a page
after one, a round after fewer transfers than there are, and the replay reads one
row where two can be unmatched. One stop is a signal or a crash at any point of any
window; one fault is a failed statement or request, or all nodes out, at any point.
The scanners meet in the channel only, so that a second kind of scanner adds nothing
but a channel that is full at other times; the channel of one is full whenever the
consumer has not run. `FirstHeight` is not below `Delay` in `scanners`: on a shorter
chain the subtraction wraps, which is a run of its own (`short_chain`, finding 7).
Nodes are at most the delay apart; one further behind would answer for blocks it has
not got, and `EvmNothingSkipped` would not hold. Symmetry is used for orders and
requests in runs without liveness only. `CHECK_DEADLOCK FALSE` is given where the
clock or the number of attempts is bounded and everybody can really be done; the
locker checks for deadlock. The proofs remove the bounds for safety.

## 4. Fairness

* Locker: a holder unlocks (every caller does by `defer`) and leaves (weak
  fairness of `Unlock` and `ReleaseRef`). `TakeToken` is strongly fair: Go hands
  the values of a channel to its waiting receivers in the order they came, so a
  waiter is not overtaken for ever. Nobody is forced to call Acquire, and a
  time-out is possible but not needed: `EveryWaiterLeaves` holds for callers
  that never give up.
* Intents: the worker runs every 2 s (`app.go`, `Run`), a database statement returns
  (weak fairness). The verifier
  may fail any number of times, not for ever (strong fairness of
  `VerifyConfirming`). No fairness for requests, the cleaner, the blockchain,
  the clock or restarts.
* Webhooks: goroutines are scheduled and requests have a time-out, the worker
  runs every 3 s, and time goes on (weak fairness of `Tick`). The merchant need
  not answer. Crashes are not fair and bounded by `MaxFaults`.
* Scanners: each scanner's goroutine and the consumer go on (weak fairness of
  `EvmScan`, `SolScan`, `TronScan`, `Consumer`; their loops have no exit but a
  cancelled context). A process that ends is started again (`Exit`;
  `Restart=always` in `install/crypdog.service` and `restart: always` in
  `docker-compose.yml`). The chain grows, and some node that is out comes back.
  Nothing makes a signal, a crash, a fault or a payment happen; faults are
  finite in number, single nodes may fail any number of times. The `*CatchesUp`
  properties are of the form "again and again", so that they speak of the
  states after the last payment as well as of those between.

## 5. Proofs

Seven modules hold theorems; each follows from an inductive invariant and the
named assumptions on the constants. Constants are arbitrary: any number of
goroutines, orders, transfers, requests, replicas, nodes, signatures, stops and
faults, any sizes of pages, windows and the channel, and any clock settings.

**KeyedMutexLocker_proofs**: `LockerTypeOK`, `LockerMutualExclusion`,
`LockerEntryOwnership`, `LockerTokenConservation` and `LockerImplementsMutex`
(every step is a step of `KeyedMutex` or a stutter). The count of an entry is
tied to the set of goroutines registered for its key, so it is positive while
anybody is and the entry cannot leave the map under a holder. `FiniteAssumption`
is needed for counting.

**PaymentIntents_proofs**: `IntentsTypeOK`, `IntentsKeys`,
`IntentsDistinctAmounts`, `IntentsSettled`, `IntentsQuarantine`,
`IntentsTermsFixed`. The properties speak of rows, but handlers write back
copies, so `IInv` also says what the copies in `mt`, `reg` and `cn` satisfy and
keep satisfying while everybody else moves. `RowChanges` lists the eight ways
in which any step can change a row; every later lemma argues over that list.
`QuarantineInv` says that what the check saw is true until the save, because no tick
falls between them, for a request that saw the other orders at all (`SeesOthers`);
for an allocation this rests on an arithmetic fact, that an order with exactly the
picked amount takes the picked tail. `LockInv` says that of one spelling at most
one request is half-way, which is all that `WatchedTermsAreFixed` needs: an order is
written in another spelling, or not while it is watched.
`IntentsImplementLife` needs one invariant more, `LifeInv`: an order without credit
names no transfer; the order that the matcher chose is still not credited when it
saves its copy of the row; and a cancellation saves a row that names no transfer,
over an order that exists. The second holds because nobody but the matcher credits
an order and the matcher is serial (`e.mu`); with two of them it would not.
`OneOrderMoves` says that a step other than the cleaner's moves at most one order,
`LifeMaps` that every step shows as one of `OrderLife`'s or not at all (the backfill
and the copies do not show).

**WebhookDispatcher_proofs**: `WebhookTypeOK`, `WebhookLease`, `WebhookOneRow`,
`WebhookSettled`. `ClaimInv`: the claim of a row in work is not older than its
worker's batch, and a batch is over before a lease is; so nobody else finds the
claim expired. `ChildInv`: from the child lookup until the new row is written there
is no next attempt, because its only other author would hold the same row, or the
notification is `unseen`. `ChainInv`: the attempts of a notification follow one
another and nothing follows a success, again unless it is `unseen`; with it, the row
a worker holds is the last of its notification and not a success. On top of these,
`LogInv`: a failed attempt below the last is scheduled or has a follower
(`FailuresStayScheduled`, theorem `WebhookScheduled`, inductive together with the
rest), only rows that may be followed are scheduled (`OwedInv`), attempts have no
gaps (`GapInv`), and a worker clears a row only when its follower is on record
(`FinishInv`). These four hold without exception. With them `WebhookImplementsLog`:
a step that adds no row is a stutter (`KeptStutters`), one that does is `Record`
with the attempt after the last, or `Miss` or a repeat for a notification that is
`unseen`.

**ScannerPipeline_proofs**: `ScannersTypeOK`, `DrainKeepsAll`, and what the three
modules below share. `TypeInv` adds to `TypeOK` that the rows and the channel hold real
payments only and a few facts about which variable is set in which phase.
`QuietKeeps`, `ConsumerKeeps` and `EndsKeeps` say what a step of a scanner, of
the consumer and of the end of a process does to the set of payments that are
safe: recorded, given up, lost, or in the channel of a process whose consumer
still reads it. That set never shrinks: the consumer records what it takes out,
the drain ends on an empty channel, and what a crash takes is lost. So each
scanner has to be looked at only in its own steps. `DrainKeepsAll`
(`DrainLosesNothing`) puts the three together; what a scanner pushes when the drain
is over was never accounted for, which is why cursors must not have passed it.

**SolanaScanner_proofs**: `SolanaNothingSkipped`. What is at or before each of
the cursors (`solSaved`, `mem`, `last`) and between `last` and `oldest` is safe,
failed on chain or stepped over by a cold start. While the progress table has no
cursor, the same holds before every signature that is recorded or queued,
because the last row can take the cursor's place (`SolRowsInv`).

**TronScanner_proofs**: `TronNoTransferSkipped`. A timestamp cursor that is
known has only safe transfers below it. Within a round, every transfer older
than `max` is safe, in `todo`, or behind the fingerprint (`TronRoundInv`); this
makes `max` a cursor once the last page is done, and not before. Every
timestamp that the scanner holds is one that TronGrid knows (`TronKnownInv`), so
that nothing older is indexed later. Transfers are indexed in the order of their time
(`TronAssumption`); one that TronGrid indexes late, with an older time, is
outside. `TronCursorIsKept` follows from the same invariants: a transfer that has
been dealt with stays so (`QuietKeeps` and its like), and what is indexed next has
a time no older than any that the scanner knows.

**EvmScanner_proofs**: `EvmRecordsFinal` and `EvmNoPaymentSkipped`. The window in
work ends `Delay` below the highest node (`EvmSafeInv`); what is found there is
final and stays (`EvmFinalInv`); no payment is mined at or below a cursor later
(`ChainBelow`); and what is below a cursor, or in a window and worked off, is
recorded, or was pushed without a row after a failed insert (`EvmCursorInv`,
`EvmWindowInv`). The hypotheses are part of the statements. `LongChain`: the chain
has at least `Delay` blocks, without which the subtraction wraps (finding 7).
`ChainIsSettled`: also, nodes are at most `Delay` apart, without which a node that
lags answers a query for logs it has not got; and `StartBlock` is not beyond the
chain. `EvmCursorIsKept` has the same hypotheses, and adds to `EvmNoPaymentSkipped`
that the chain behind the saved cursor does not change. `RecordedReachMatcher`
(`RowsReachTheMatcher`) needs no hypothesis and is inductive next to `TypeInv`: a
row is with the matcher, in the channel, in the replay, in the scanner's hand, left
for the next start, or was too old at an earlier one (`givenUp`), and each step
hands it from one to the next; the replay's query finds it, leaves it over or is too
late for it. `OneNodeAnswers` is about the operator `Answers` only: for any number
of nodes, one that is first in the ring among those not down exists and is unique,
so `doRPC` fails only when all are down.

Only model-checked: the liveness properties (`EveryWaiterLeaves`,
`DeepPaymentsSettle`, `FailuresAreFollowedUp`,
`EvmCatchesUp`, `SolCatchesUp`, `TronCatchesUp`), since TLAPS does not reason
about fairness and ENABLED.

## 6. Findings

Each is a run that TLC ends with a counterexample; `PROJECT.json` quotes the
line that is contradicted.

1. `paid_is_final`: `CancelIntent`, the matcher and re-activation save whole
   rows read earlier, under locks that do not exclude each other; PAID can be
   overwritten (`service/intent.go:334`; `doc/flow.md:310` calls it final).
2. `one_transfer_one_order`: a transfer whose order is still CONFIRMING is not
   marked as matched; delivered again it is credited to a second order
   (`engine/matcher.go:66`; `doc/flow.md:178-179`).
3. `no_past_transfer`: re-activation keeps `created_at`, so a transfer from
   before the re-activation can pay it (`service/intent.go:167`;
   `engine/matcher.go:237-238`).
4. `cold_start_errors`: on a cold start the newest signature is the cursor before
   any is processed; an error then leaves the older ones behind for good
   (`scanner/solana_scanner.go:328`, against the comment at 358).
5. `every_attempt_is_logged`: with `webhook.max_retries` of 5 the fifth attempt
   panics on the backoff table after the request was sent
   (`queue/webhook_dispatcher.go:300`; `README.md:47`).
6. `tron_page_limit`: the fingerprint saved at the page limit is read back only
   by a process that has restarted; otherwise the next round begins at the first
   page again (`scanner/tron_scanner.go:307`, against the comment at 456-457).
7. `short_chain`: `latest - delay` is computed in `uint64` without comparing the two;
   on a chain shorter than the delay it wraps and the cursor is saved ahead of the
   chain (`scanner/evm_scanner.go:315`; `doc/web3.md:31-33` asks for the comparison).

Not findings but exceptions of the properties, each at its line under "hazards":
a failed wallet query of the EVM scanner moves the cursor, a failed first query
of any scanner replaces its cursor, a burst beyond 200 Solana signatures is
skipped, a hand-over to the matcher that fails is not repeated before the next
start, and by none after 48 hours, a crash takes from the channel what Solana's and
TRON's scanners have put there and their cursors have passed, and a retry of a
webhook whose lookup failed repeats an attempt. An allocation in lower case, or on
a base amount with more than six decimals, may hand out an amount in quarantine:
`QuarantineRespected` without `SeesOthers` is violated for each of the two.

## 7. What is not modelled

* The health tracker and the API's rate limiter: counters behind a mutex that
  no other component depends on.
* Of the scanners: several addresses, several transfers of one transaction (and
  with them the log index of TRON's scanner), the token list, the owner's token
  accounts on Solana, the cache of block timestamps. `VerifyTransaction` and the
  height are answers of the verifier in `PaymentIntents`.
* `SimulateOnChainTransfer` (`api/intent_handler.go:296`), which pushes a made-up
  transfer to the channel: it is off unless `server.enable_simulation` is set. To
  the consumer it is one more producer, without a row or a cursor.
* The pipeline and the orders are modules of their own: `PaymentIntents` stands
  on a weaker assumption than the pipeline gives, that a transfer on chain may
  arrive at any time, any number of times or never.
* The rotation of allocation over several wallets, more than one transfer per
  order, orders registered at several addresses, and reorganisations of blocks
  deeper than the delay.
* HTTP parsing and formatting, configuration loading, logging, metrics,
  signatures, seeding and payment options keep no protocol state. Confirmation
  counts are reduced to "deep enough or not", error texts and responses to the
  branch they lead to. The order in which `get` and `confirm` reach the merchant
  is left open: 200 ms is all the code puts between them.

## 8. Plan

Done: `KeyedMutex`, `KeyedMutexLocker`, `OrderLife`, `PaymentIntents`,
`NotificationLog`, `WebhookDispatcher`, `TransferPipeline`, `CursorStream`,
`EvmScanner`, `SolanaScanner`, `TronScanner`, `ScannerPipeline`, with their runs
and proofs. Next, in this order:

1. Two transfers for one order, with what the worker verified remembered per
   transfer (`queue/confirmation_worker.go:110`), and the invariants that then hold.
2. Several wallets: the rotation of `AllocateUniqueAmount`, several addresses
   per scanner, several transfers per transaction.
3. `PaymentIntents` on top of `TransferPipeline` instead of its own receiving
   step.
4. The health tracker and the rate limiter.
