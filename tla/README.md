# A TLA+ verification project for admin_manager

admin_manager is a set of Python services around the publishing channels of a content business: identities and
sign-in, the ingest of channel figures from outside clients, the analytics built on them, and the distribution of
reward points through a Discord bot. This directory holds TLA+ specifications of the parts of it whose correctness
depends on order, time and failure, TLC configurations that check them, and TLAPS proofs.

Run `tlc -config X.cfg M` for the runs of `PROJECT.json`, and `tlapm M.tla` for the modules with theorems.

## 1. Inventory

| component | state it keeps | operations | what is hard about it | what makes it correct |
|---|---|---|---|---|
| **reward-service, engine** (`engine/job_runner.py`, `reconcile.py`, `recovery.py`, `confirmation.py`, `executor_slash.py`) | `reward_jobs`, `reward_items`, `reward_attempts`, `reward_distributions`; in the process a task per job | claim, send, confirm, settle, sweep, close; reconcile; recover | Discord cannot be asked whether a command was executed; the process dies between a send and its record; replies are late and carry no id | points are granted once; the ledger says what happened; a job is never left running with no task |
| **reward-service, requests** (`api/jobs.py`) | the same rows | run, pause, stop, resolve, reconcile, retry-unknown | they act between any two steps of the task | operators cannot make the engine lie or grant twice unnoticed |
| **reward-service, worker manager** (`engine/worker_manager.py`, `store/repositories/lock.py`) | tasks, a database lock with a heartbeat | start, stop, wait, heartbeat, shutdown, resume after an identity pause | start races, a lock that expires under a live process | one task per job, one process per database |
| **reward-service, token pool** (`engine/token_pool.py`) | usable tokens, last use, last channel of each | acquire, release, disable | pacing over several tokens | no token is used faster than its delay |
| **reward-service, identity link** (`identity_link/`) | projection of users and roles, cursor, dead letters, denylist | poll, apply, dead-letter, replay | events that cannot be applied, replay in another order | the denylist follows the newest event of a kind; the jobs of a denied account stop |
| **integration-service, jobs** (`jobs/`, `maintenance.py`) | `jobs` with a lease | enqueue, claim, heartbeat, complete, fail, cancel, reclaim | a worker that comes back after its lease was given away | one holder at a time, results from the holder only, attempts bounded |
| **integration-service, snapshots** (`snapshots/`, `ingest/`) | snapshots, staged batches, current data, pointer | open, batch, commit, abandon | two snapshots of one source under way, retried batches | newer data wins and the pointer never goes back |
| **integration-service, feed** (`feed/`) and **identity-service, outbox** (`outbox/`) | an append-only table with a sequence | append, read after a cursor | sequence numbers are drawn before they are committed | a reader with a cursor skips nothing |
| **integration-service, clients and credentials** (`clients/`, `credentials/`, `installations/`, `provisioning/`) | clients, credentials with versions, installations, a projection of the accounts | create, rotate, revoke, transfer, provision from events | events that fail and are replayed late, administrators between them | no key works for an account that may not use one |
| **integration-service, idempotency** (`idempotency/`) | keys with a fingerprint and an answer | begin, finish | the same request twice at once | one effect per key |
| **analytics-service, feed consumer and read models** (`feed_consumer/`, `readmodels/`) | cursors, rows, seals, dead letters | poll, apply, seal, replay | an upstream that changes between pages | a sealed state is one the upstream really had |
| **analytics-service, cache** (`cache/store.py`) | results by key and seal | get, compute, put | computing while the read model moves | nothing older than the seal is served |
| **analytics-service, figures** (`kpi/`, `breakdown/`, `traffic/`, `readmodels/aggregate.py`) | none | sums and filters | partial data | totals equal the sum of the parts |
| **identity-service, OIDC** (`oidc/`) | codes, refresh families, sessions, log-out deliveries | authorize, exchange, refresh, revoke, log out, tell clients | the same code or token presented twice at once; workers of several instances deliver one row | one use; a reuse revokes what came of it; every end is told |
| **identity-service, sign-in and accounts** (`auth/`, `accounts/`, `registration_keys/`) | accounts, sessions, refresh tokens, invite keys | register, verify, sign in, refresh, sign out, change, disable | rows are read without a lock and written later; counters with a limit | no session outlives what ended it; the events tell the account as it is |
| **identity-service, signing keys** (`tokens/`) | key pairs by state | rotate, retire, sign, publish | verifiers cache the key set | a token is verifiable for as long as it is valid |
| **api-gateway** (`routing/`, `edge_security/`) | breaker state per upstream, counters per caller | proxy, trip, probe, limit | many requests at once around the trip | an upstream that recovered is used again |
| **manager-web, sign-in session** (`auth.tsx`, `lib/http.ts`, `auth/`) | tokens in memory and in sessionStorage of each tab | sign in and out, refresh, restore after a reload | requests and refreshes of an old session end in a new one | a tab shows one session, and uses a rotating token once |
| **packages, apps, legacy, infra** | none of their own, or user interfaces, or retired | | | |

The services share nothing but HTTP: identity and integration publish their changes in an outbox table; reward and
analytics (and integration's provisioning) read it with a cursor. Each service runs as one asyncio process over
PostgreSQL (identity-service may run in several), so two requests interleave at every `await`. A transaction is an atomic
step unless it reads rows without a lock that it writes later: then the read and the commit are two.

## 2. Plan

Done, each with its MC module, its runs and a mutant for every property:

| module | of what | abstract specification, theorems |
|---|---|---|
| `RewardEngine` | the engine of a job with the requests on it | theorems |
| `LeasedQueue`, `IntegrationJobs` | the queue of jobs | refinement, theorems |
| `AnalyticsSync` | the feed of canonical rows, the read model, the cache | theorems |
| `NewestStore`, `Snapshots` | the ingest and its merge | refinement, theorems |
| `Accounts` | accounts, sessions, invite keys and the outbox of Identity | theorems |
| `OidcSessions`, `WebSession`, `SigningKeys` (composed by `MCSignOn`) | the provider and its back-channel, a tab of manager-web, the signing keys | theorems |
| `AccountLog`, with its readers `Provisioning` and `IdentityLink` (composed by `MCIdentityConsumers`) | the events of an account, what Integration and Reward make of them | theorems |

Every safety property of the passing runs is a theorem of its module (`theorems` in `PROJECT.json`). The five liveness
properties (`RunEnds`, `JobEnds`, `Converges`, `EndIsTold`, `NothingIsHeldUp`) stay with TLC: the proof system has no rules
for fairness and ENABLED. The parts of every inductive invariant were checked by TLC before they were proved; their
states are named with the proofs.

Left, in this order:

1. `RewardWorkers`: start race, cap on concurrent jobs, lock and heartbeat, shutdown; then `TokenPool`.
2. `Gateway`: the breaker under concurrent requests (a late success of an old request closes it; after the cooldown a second
   probe starts while the first is out), and the fixed window of the rate limit.
3. The rotation of a machine credential with overlap, and its reveal.

## 3. RewardEngine

### State and actions

| in the module | in the code |
|---|---|
| `job`, `item`, `attempt`, `ledger` | rows of `reward_jobs`, `reward_items`, the latest row per item of `reward_attempts`, `reward_distributions` |
| `inflight`, `accepted`, `channel`, `aged` | Discord: commands it has accepted and not executed, those it ever accepted, the bot's replies in order, and the items whose latest attempt is older than `reconcile_grace_s` |
| `runner` | the task `JobRunner.run` at its awaits (`pc`), with the local variables and flags it keeps |
| `pass["sweep"]`, `pass["api"]` | `reconcile._one_pass`, called by the runner and by a request |
| `request`, `stopping` | the request that waits for its pass; a stop request that waits for the task |
| `handed`, `retried` | history only: how often an item was put back, by hand and by retry-unknown |

The runner's actions follow its loop: `AcquireToken`, `CheckRoleAndCredential`, `ClaimNext` (the write-ahead
transaction), `SessionError` / `FailBeforeSend` / `Invoke` (the calls), `MarkSent`, `ConfirmSuccess` / `ConfirmFailed`
/ `ConfirmUnknown`, `SettleError`, `StartSweep` and `EndSweep` around the passes, `Judge` and `Close`. A pass reads
its rows, scans the channel, reads the clock, and settles one row per transaction. A request, a fault
(`WorkerError`, `Cancel`, `Crash`, `Recover`) and the bot may step in between any two of them.

Abstractions. A message is its recipient and whether it is a success or a refusal; the pair stands for a user and
an amount, which is what the matching of the code tells apart. Streak lists are sets. The 5 s margin of the scan and
the exact ages are left out: a row is young or of age. The bot answers within the grace period or never, except in
`RewardStop`, where `ScanTakesTime` lets the period end during a scan. `start` is one
step. A stop request is answered before the next run request. `resolve_item` is one step, and the user id that a
failed item keeps is left out. The confirm mode `off` is not modelled, nor is the administration of tokens.

### Runs

| run | instance | what it asks |
|---|---|---|
| `reward_operator` | 1 item, 1 token, every request but pause and stop, put back once | sent once per turn; a retry after a proof credits once; ledger and items agree; a success stays |
| `reward_stop` | 2 items of one recipient, pause and stop, scans that take time | no order leaves a job running with no task, completes one with a queue, or undoes a claim |
| `reward_run_ends` | 2 items, 2 tokens, fairness | a run ends whatever fails |
| `reward_success_lost` | 1 item | a statement of a comment that the code does not keep to (see Findings) |

Bounds: `MaxReopen` (times an item is put back) and `Requests` are the only bounds besides the sets. One item is
enough for what concerns an attempt, two for what concerns who a reply belongs to and whose turn it is; one retry
reaches both sides of the retry budget; a threshold of one or two reaches both streaks.

Fairness (`RewardRunEnds`): the steps of the task and of a pass are scheduled by the event loop, and every await of
theirs has a timeout or is a database call; the grace period ends because time passes; the service is started again
by its supervisor. Nothing is assumed of the operators or of the bot.

### Findings

`SuccessIsAbsorbing` (`reward_success_lost`): a pass writes its verdict on a row it read earlier, over the operator's
success.

Met while modelling and left without a run: the mark `no_reply` outlives the attempt it was made for, so that a later
attempt looks proven (`migrations/003_reward_reconcile.sql:3-4`, `api/jobs.py:520`); the runner's own sweep moves items out of
`unknown`, which `domain/item_state.py` reserves for the operator; a reply may become the evidence of two items, since
the set `used` of a pass is not kept; a pass reads its clock after the scan, so a reply that comes in between is not seen;
an item put back while the run closes stays pending in a completed job; the cancelled task may pause a job that has just
been stopped.

### Proofs (`RewardEngine_proofs`)

For every number of items, recipients, tokens and retries, and any requests:

* `TypeCorrect`: `Spec => []TypeOK`.
* `SentAtMostOnce`: `Spec => []AtMostOnce`. `AtMostOnce` is not inductive: it bounds the commands Discord accepted
  by the turns of the item, and says nothing of where in a turn the item is. `EngineInv` adds that the runner owns
  the item it sends (`SenderOwns`: while it does, the item is not claimable and not unknown, so no request puts it back
  and no recovery claims it) and that an item whose present turn is still unsent has used up one command less
  (`OncePerTurn`). The proof shows that a step either leaves an item's turn alone, or opens a turn and counts it, or
  sends in a turn that was unsent.
* `RunningJobHasTask`: `Spec => []RunningHasTask`.
* `ClaimsAreKept`: `Spec => WriteAheadIsKept`, from `EngineInv` and one lemma per group of actions.

* `CompletedJobsAreSent`: `Spec => []CompletedSentAll`. At the moment a job becomes completed the property needs what was true
  when the task left its loop, so `CompletedInv` carries it through the end of the run: while the task is about to complete
  the job, whatever is claimable was put back (`Completing => AllSent`; `QueueGrows`: the queue only grows by items put back); a
  sweep has a task that waits for it; a completed job has no task.
* `LedgerIsTrue`: `Spec => []LedgerMatchesItems`, and `SuccessesStay`: `Spec => SuccessIsKept`. Runner, passes and operators
  write verdicts on rows that they read earlier, so `LedgerMatchesItems` needs what each of them still knows. `LedgerInv` says
  of an item that it has one record at most, that an item first being sent is `processing`, and of every row a pass holds
  that it is the item's latest attempt unless somebody put it back, and that a success in the meantime has evidence that the
  pass sees as well (`Reads`, `Evidence`); of a pass, that every reply it used explains itself (`Explained`): the replies of the
  other kind that the row could have claimed were used before.
* `FirstRetriesAreSafe`: `~ScanTakesTime /\ OwnRecipients => (Spec => []FirstRetryIsSafe)`. `RetryInv` adds where the replies of an
  item are: one at most as long as it was put back at most once, later than the attempt that waits for it, none and none
  to come for an item a pass declared unanswered, and before the eyes of a pass that takes the grace period for over
  (`SeesAll`). Both hypotheses are needed, and TLC finds the property violated without either. If the grace period can end
  between the last page and the clock reading, the pass calls an item unanswered whose reply it did not read. A reply
  names only user and points, so of two items that have both in common one may be given the other's reply;
  `OwnRecipients` says that no two have. `reward_operator`, which checks the property, satisfies both.

The assumptions are those on the constants (`EngineAssumption`) and those named. TLC checked `CompletedInv`, `LedgerInv` and
`RetryInv` on the instance of `reward_operator` (1,489,210 states), and the first two on that of `reward_stop`, where two items share
a recipient and scans take time (2,670,177 states). Only model-checked: `RunEnds`, a liveness property.

## 4. IntegrationJobs and LeasedQueue

### State and actions

| in the module | in the code |
|---|---|
| `job` | rows of `jobs`: `status`, `attempts`, `claimed_by_client`, `lease_token` as the number of the claim it was drawn for, `result` as the lease it was produced under; `waiting` is `run_after` in the future, `expired` is `lease_until` in the past |
| `fallback` | per resource: active and in the mode of the tools (`resources`) |
| `answers` | `idempotency_keys` |
| `creating` | requests inside `JobService.create`: after the read of the resource, under the owner's advisory lock |
| `work`, `sent` | the tools: the lease each works under; its reports that are on their way, and stay so while it repeats them |
| `failed` | history only: the failures that were acknowledged |

Users create (`ReadResource`, `CheckLocked`, `Insert`), `Cancel`, and change the mode of a resource (`SwitchOff`,
`SwitchOn`). Tools claim (`ClaimJobs`: what has expired is taken back first, in the same transaction), send reports,
and stop working at any time. The server answers `Heartbeat`, `Complete` and `Fail`, each one transaction with the row
of the job locked, the guard of the idempotency key included. Time: `LeaseExpires`, `BackoffEnds`, `Sweep`, `PurgeKey`.
A row locked by another transaction is skipped (`SKIP LOCKED`): the set of skipped rows is any.

`SendsToken` and `FreshKeys` say what the tools do: send the `lease_token` of the claim, use a new `Idempotency-Key`
for every lease. The API allows both; the SDK does neither. Without them the job still ends (`jobs_end`), but the safety
properties of the tools need them: an old holder of the same client is taken for the new one (`jobs/service.py:188`), and
a second failure for the same reason is answered from the store with the job left leased (`integration_client.py:237`).

`LeasedQueue` is the abstract specification: a job is absent, waiting, held or ended, the holds are numbered, and the
result that is kept is the one of the last hold.

Abstractions. The jobs are those of one owner. Which of the due jobs a claim takes (priority, age, `limit`) is any
choice; platforms and capabilities are the set `CanClaim` of a tool. `max_attempts` is one value. A heartbeat carries
no key, as in the local tool. A row whose number is used already is not inserted again (ids are new in the code).

### Runs

| run | instance | what it asks |
|---|---|---|
| `jobs_tools` | 1 job, 2 tools of one client, 2 attempts, all reports | refinement of `LeasedQueue`; an acknowledged failure has ended its lease |
| `jobs_create` | 4 jobs (two with one key, two `collect`), 2 requests at once, limit 2 | the limit and the key hold |
| `jobs_end` | 1 job, 1 tool of the SDK (no token, keys by content), 2 attempts, fairness | a waiting job ends |

Bounds: jobs do not interact but through the limit, the keys and the resource, so the tools are checked on one job and
the creation on four; two attempts reach a lease that is not the first and one that is the last; two tools reach an old
holder and a new one.

Fairness (`JobsEnd`): tools poll for jobs, `maintenance.loop` sweeps again after any error, and time passes. A tool
that holds a lease may do nothing for ever, and the network may lose every answer.

### Met while modelling and left without a run

* A unique violation swallowed in the transaction that changes a resource's mode (`legacy_acl/service.py:161-174`) loses
  the change, which was answered with ok.
* A job that is being created, or is leased, when its resource leaves the mode is claimed afterwards, which
  `collect.py:185-187` takes to be impossible. The resource is read before the owner's lock is waited for (`jobs/service.py:73`).
* The routes that write for a delegated job read it as leased in one connection and write in a later transaction
  (`delegation.py:35`); they are not modelled.
* A batch of items takes the advisory locks of several owners in the order of the request (`legacy_acl/service.py:376`):
  two batches can wait for each other until PostgreSQL aborts one.

### Proofs (`IntegrationJobs_proofs`)

For any sets of jobs, resources, clients, tools and requests, and any limits:

* `TypeCorrect`, and `ImplementsLeasedQueue`: `SendsToken` implies `Spec => Queue!Spec`. One lemma (`StepGood`) says
  that every step moves every row by a move of the abstract queue and keeps `RowInv`: a row that waits has attempts
  left, a leased row's token is its number of attempts, a row that is not leased has no token, only a done row has a
  result. Each operation on a row (`Reclaimed`, `Claimed`, `AfterFail`, ...) has its lemma.
* `LimitHolds` and `KeysAreUnique`: `LockInv` says that one request is past the check, and that what it checked is
  still true; steps that add no job only shrink the set of active ones (`QuietShrinks`), and what is added was checked
  (`StepAdds`). Needs that the set of jobs is finite.
* `FailuresTakeEffect`: with `SendsToken` and `FreshKeys`, the lease of every acknowledged failure, and of every
  stored key of one, is over, and stays so (`FailInv`).

The assumptions are `JobsAssumption` and those named. Only model-checked: `JobEnds`, a liveness property.

## 5. AnalyticsSync

### State and actions

| in the module | in the code |
|---|---|
| `row`, `lastRev`, `lock`, `draft` | integration-service: the revisions of the committed canonical rows, `canonical_revision_seq`, the advisory lock `OUTBOX_LOCK`, the rows of open transactions |
| `read`, `cursor`, `seal` | analytics-service: the revisions in the tables `read_*`, `feed_cursor` for `canonical.<kind>`, the number of `sync_state` |
| `open`, `resolved` | `dead_letters` of canonical items, without and with `replayed_at` |
| `proc` | per process, `_integration_cycle` or `rebuild` at its awaits: the cursors it read, the head, the kind and the revision it pages after, the rows it has pulled. `_lock` lets one of them run at a time |
| `request`, `cache` | `QueryService.run` at its awaits; Redis, by the seal in the key |
| `strict` | whether `to_row` of the running version refuses `Malformed` |

Upstream: `WriteRow` (the lock, then the revision), `Commit`, `Rollback`. A process: `BeginCycle` or `BeginRebuild`,
`ReadHead`, `PullPage` again and again, `ApplyCycle` or `ApplyRebuild` (one transaction), `Fail` anywhere. An operator:
`Replay`, `Upgrade`. The rest of the service: `TakeSeal`. A request: `ReadSeal`, `Hit` or `Miss`, `LoadKind` per
statement, `Store`.

Abstractions. The contents of a row are its revision. The events of the feed carry no rows and are left out; what their
arrival does here is a new seal, which `TakeSeal` takes at any time. A row that is removed is a row like others. A miss
needs no reason, so the age of an entry and every fault of Redis are covered. A kind has any number of pages: the
limit of 10 000 is left out. One endpoint and one filter stand for all, as the key tells them apart.

### Runs

| run | instance | what it asks |
|---|---|---|
| `sync_requests` | 3 rows of 2 kinds, pages of one row, 2 writers, 1 process, 1 request, a refused revision, 1 fault, fairness | nothing below a cursor is lost; no row goes back; the cache is current; the read model converges |

Bounds: `MaxRevision` (revisions drawn), `MaxSeal` (only what operators do and `TakeSeal` wait for it, and a replay may go one
further), `MaxFaults`. Pages of one row make every order of a move and a page reachable with two rows of one kind; two
kinds reach a head that is older than the second kind's pages; two revisions reach a row that
moves past the head of a pull under way, and a pull with one row of each kind.

Fairness (`SyncRequests`): `run_forever` starts a cycle again after any result, and a cycle's calls return or fail. The
faults are finitely many, as are the writes. Nothing is assumed of operators and requests.

### Met while modelling and left without a run

* A rebuild is not safe against another process (`RebuildAlone = FALSE`): `rebuild` reads its head, another process
  applies newer rows, the rebuild truncates them and sets the cursors back to its head; a cycle that the other process
  had begun with the newer cursors then sets them past the rows that are gone, and they come back only when they are
  written again or by another rebuild. `consumer.py:476` says that processes that apply together do not tread on each
  other; the lock there covers the apply and not the pull. With one process, which is what the Dockerfile starts, `_lock` excludes it.
* A kind of more than 10 000 pages ends the loop without an error, and the cursors are set to the head (`consumer.py:268`).
* The events an identity cycle has already processed are looked up outside the lock of the apply (`consumer.py:169`).
* `consumer.py:6` says that there is no half of a snapshot. Rows of one upstream transaction that were written again
  between two pages are left to the next cycle, so half of it may be seen for the time of one cycle.

### Proofs (`AnalyticsSync_proofs`)

For any finite set of rows and any sets of writers, processes and requests, any page size and any revisions refused:

* `TypeCorrect`, and `ReadNeverGoesBack`, which follows from the upsert and the types.
* `CacheStaysCurrent`: `CacheInv` adds that what a request has loaded under the present seal is the present read model.
  The proof rests on `SealCovers`: a step that changes the read model takes a new seal.
* `NothingIsLost`: `RebuildAlone` implies `Spec => []Complete`. `Complete` speaks of cursors and rows; the invariant
  `SyncInv` says why they agree. A revision is *settled* when no transaction that is open, or will be, commits one up to
  it (`UpstreamInv`, from the lock): heads and cursors are (`SettledInv`), so a row that moves goes past all of them
  (`RowMoves`). A process has every row between its cursors and its head that it has been past (`PullInv`; for a page,
  `PageIsDown` and `PageCovers`), and what was below its cursors when it began is held still (`StartInv`, `HeldStays`:
  nothing is newer than the upstream, `NotAhead`).

The assumptions are `SyncAssumption` and the one named. Proved and not run: `TypeOK`. Only model-checked: `Converges`, a
liveness property.

## 6. Snapshots and NewestStore

### State and actions

| in the module | in the code |
|---|---|
| `snap` | rows of `snapshots` with their staging; the pointer is the flag `current` of a row (`repository.flip_current`) |
| `store` | the canonical rows: time of observation, data, removed, the client it came from |
| `req` | a commit request between its database steps |
| `seen`, `byHand`, `direct` | history: the observations that committed transactions contained, keys removed outside snapshots, the number of single writes |

A Tool does `Create` and `Stage`. A commit is `Claim` (building to committing, a transaction of its own), `Merge` (records,
removals and pointer in one transaction) or `MergeFails`, and `Finish`, which reopens or fails the snapshot; `Crash` may
come between any two. `FailStuck`, `Expire` and `Purge` are the sweep. `WriteResource` and `RemoveResource` write outside
snapshots. `NewestStore` is the abstract specification: batches that are applied whole and at most once, and keys that
never go back to an older observation, or, for activity events, never change.

Abstractions. One owner and one type. The kind content, the takeover of resources that were entered by hand, projects
and bindings, ambiguous types, the time zone of days and the limit of open snapshots are left out; a record occurs once
in a snapshot.

### Runs

`snapshot_order`: three snapshots of one Tool (a delta with a resource and a metric, a full one of resources and metrics
that is empty, a full one of events), one commit request at a time, two times, one write on the side. It asks that the
newest observation is kept, that removals are justified, that the pointer stands on the newest snapshot, and for the
refinement of `NewestStore`.

Bounds: two times give older, equal and newer; three snapshots are needed for a delta, a removal by a newer full one and
a third that shares the pointer's slot or the kind; a second request on the same snapshot is reached after a crash of the
first. The module is safe for other values (`Requests`, `Clients`, `Spoiled`), which the run leaves small.

### Met while modelling and left without a run

A row that a full snapshot removed comes back with an observation that is older than the full snapshot and arrives later
(`merge.py:354` compares with the row's own time), against `docs/api/ingest-data-contract-v1.md:41`. `RemovedIsExplained` says
what does hold.

### Proofs (`Snapshots_proofs`)

For any sets of snapshots, requests, keys, Tools, times and data:

* `TypeCorrect`: `Spec => [](TypeOK /\ Opened)`. `Opened` says that a snapshot that was opened has its time and a commit request
  its snapshot: without it nothing is known of the observations that a merge compares.
* `NewestAlwaysWins`, `RemovalsAreExplained`, `PointerIsNewest`: `NewestWins`, `RemovedIsExplained` and `CurrentIsNewest` are inductive
  given the types. The work is in the merge, which is one step for any number of keys: `SettledIs` says what becomes of
  one row under one observation, and lemmas on `Merge` what becomes of every key.
* `ImplementsNewestStore`: `Spec => ImplementsStore`, a simulation. `Merge` is the abstract batch of its snapshot, with the keys that
  it supersedes as witness; `WriteResource` is a single write, or a stutter when it loses to what is there; every other
  step is a stutter, removals included (`KeptOrSuperseded`).

The assumptions are those on the constants. TLC checked `TypeOK` and `Opened` on the instance of the run (2.2 million states).
Nothing here is only model-checked.

## 7. Accounts

### State and actions

| in the module | in the code |
|---|---|
| `key` | the row of an invite key: limit, uses, status |
| `acct`, `grants`, `sess`, `token` | rows of accounts, `account_permissions`, sessions and refresh tokens |
| `req` | what a request has read of the account's row, and what it is asked to do |
| `told` | what the outbox, read to its end, says of an account |
| `late`, `stale`, `proven`, `spent` | history: sign-ins overtaken by a change; columns written on a value that had changed; addresses proven; uses of change codes |

A request is `Read` (rows without a lock) and `Write` (its commit, with the events), or `Rollback`; what an UPDATE checks in
its WHERE it checks again at the commit. Requests whose transaction reads nothing it depends on are one step. Modelled are
registration, verification, sign-in, refresh and sign-out with tokens of the old system, forgotten passwords and change
codes, profile and address, permissions, the status and the role an administrator sets, deletion, and the key's limit and
status.

Abstractions. Token and key expiry are left out; a user name is the name of its account; passwords are generations. The lock
of the outbox makes the order of the events that of the commits, so `told` can stand for the log.

### Runs

`account_requests`: two requests at once of any kind, four commits, one member with a token of the old system, two
accounts that register with one key.

Bounds: `MaxWrites` = 4 reaches the longest story the properties tell apart (register, verify, change, act on what was
read before); two requests at once suffice as every rule relates what one request read to what one other wrote.

### Met while modelling and left without a run

The properties except what was read before it changed (`late`, `stale`). In words:

* Verification while an administrator suspends: the suspension stays, but `status_changed(active)` is announced after it
  (`auth/service.py:197-198` says otherwise). Two changes of status or role that read the same value announce one of them.
* A link resent or opened while the owner changes the address verifies another address than it went to.
* A sign-in that has checked the password survives a reset, a suspension or a change of role that commits first; a reset
  link can be used twice at once; verification after a deletion answers that the account is active.
* Two first refreshes of one token of the old system leave a session that no token names; a sign-out at the time of such
  a refresh ends nothing.
* A suspension takes the outbox lock and then the rows of tokens and sessions, a sign-out the other way round
  (`accounts/service.py:57`): PostgreSQL aborts one of the two, which is `Rollback`.

### Proofs (`Accounts_proofs`)

For any sets of accounts, sessions, roles, permissions and requests, and any limits: `TypeCorrect` (proved and not run),
`KeysAndCodesAreCounted` (`UsesAreCounted`), `OutboxIsComplete` (`OutboxTellsAll`), `SessionsEndInTime` (`SessionsAreCurrent`) and
`LinksProveAddresses` (`VerifiedIsProven`). They have one inductive invariant, as each property leans on what the requests
have read:

* `Typed`: the types, what each kind of request carries (`RequestsOK`), and that what it read of a token, a session or a link
  is still true enough (`RequestKnows`); that a token and its session have one owner (`OwnersAgree`).
* `LinksProve`: a link that stands is for the address the account has, or for one that was proven, or the exception `stale` is
  recorded. Without it a request could pick up, between two of its steps, a link for another address.
* `CodesStand`: a change code that stands was never used and is of one account; `NewAccounts`: an account not yet made has
  nothing, and those that were made are finitely many, which the count of the key's uses needs.

The assumptions are those on the constants. TLC checked the parts on the instance of the run (2.29 million states). Nothing
here is only model-checked.

## 8. OidcSessions, WebSession, SigningKeys

Three parts of signing in that meet only in the tokens they hand on; `MCSignOn` lets a behaviour be one of the three.

### State and actions

| in the module | in the code |
|---|---|
| `sso`, `code`, `sess`, `tokens` | rows of sign-on sessions, codes, sessions with `oidc_session_clients`, and refresh tokens, by grant |
| `held` | a token request that has locked the row of the code or token it presents |
| `unread`, `delivery`, `leased` | outbox events past the back-channel's cursor, rows of deliveries, what workers hold of them |
| `tab`, `stored`, `call`, `flight`, `restore`, `signing` | manager-web: `tokenStore` and `AuthProvider`, sessionStorage, requests, refreshes, the restore effect, a sign-in under way |
| `server` | the sessions of that user at the server |
| `made`, `retired`, `signer`, `token`, `copy` | keys of `keys.py`, the cached key of a process, tokens still valid, the copy of a verifier |

*OidcSessions*: `SsoLogin`, `IssueCode`; `PresentCode`, then `Exchange`, `SpoilCode` or `ReuseCode`; `PresentToken`, then `Rotate`,
`ReuseToken` or `RefuseToken`; `Rollback`; `SignOut` and `EndAccount`. The back-channel: `FanOut` (events into deliveries),
`Lease`, `Delivered`, `Failed`. *WebSession*: `SignIn`, `SignedIn`, `LogOut`, `Reload` and the restoration, `Request` and its
answers, `NeedsRefresh`, `RefreshServed` at the server, `Refreshed`, `Refused` and `RefreshLost`; other tabs are `Leave` (their
broadcast) and `SessionEnds`. *SigningKeys*: `RotateKey`, `IssueToken`, `Fetch`, `Tick`.

Abstractions. *OidcSessions*: one account, whose status is left out as a request can be refused at any time; codes may be
issued after the sign-on session ended, as the code does not look; the two UPDATEs of `_revoke_grant` are one; unread events
are read all at once (the batch is 200); a lease may end at any time; PKCE, userinfo, introspection and expiry are left
out. *WebSession*: an epoch is a mark that says whether what is under way is still of the present one; the overlay, permissions,
the length of timers and aborts are left out. *SigningKeys*: ages are in ticks; `KeysAssumption` asks that the grace covers
the life of a token and the cache of a process, as `docs/api/service-auth-contract-v1.md:31` does; `config.py:144-146` does not
check the one against the other.

### Runs

`sign_on`: two grants under two sign-on sessions, one with a client to be told, two token requests at a time, two
instances, two attempts; or a tab with two sessions, two requests and two refreshes in either mode; or three keys, two
signing processes and a verifier.

Bounds: two requests reach every race for one row; two instances reach an answer later than its lease; two attempts reach
a first that fails and a last one. Two sessions and one rotation reach an answer of the old session in the new one and a
token presented again; two refreshes (in the mode oidc, where tokens rotate; one in the other) are one of the old epoch
and one of the new. Three keys reach a verifier two
rotations behind.

Fairness: the back-channel's loop reads events and leases rows again after any error, and an attempt ends (its HTTP client
has a timeout). Nothing is assumed of users, clients, tabs and verifiers.

### Met while modelling and left without a run

* A code that is exchanged or issued after the sign-out gives a live session under a dead sign-on session
  (`oidc/service.py:330`), and one whose exchange overlaps with a suspension survives it. `TreeEnds` says what does hold.
* An event about the whole account tells clients of sessions opened before it is read. A failure that is recorded late, by
  id, opens a row again that was delivered.
* In the mode oidc the restoration after a reload calls `/v1/auth/refresh` (`auth.tsx:252`), which does not know the tokens of
  the provider: a reload signs out, against `auth.tsx:6-8`.
* `oidcLogout` posts to `/oauth/logout` without the field csrf, which `router.py:382-391` refuses: the session at the server stays,
  against `oidc.ts:276`.
* A 401 of a request that was sent in an earlier session ends the session signed in to since (`http.ts:152-181` has no look
  at the epoch), or sends the request again as the new user.
* The restoration (`auth.tsx:253`) ignores the epoch: a sign-in or a broadcast during it is written over, and its failure
  clears the tokens of a new session (`overrun`). An answer to a rotation that is lost makes the next refresh a reuse (`lost`).
* The broadcast of a sign-out clears other tabs without ending their sessions at the server.
* Tokens of a new key may be refused for `min_refetch` by a verifier that has just tried to fetch.

### Proofs (`OidcSessions_proofs`, `SignOn_proofs`)

Of each of the three parts on its own; in `MCSignOn` the other two stand still.

*OidcSessions*, for any number of grants, tokens, requests, instances and attempts:

* `LocksAndEventsAreTrue`: `Spec => []OidcInv`, with the types. It says what a lock is worth: a locked code is unused and a locked
  token usable (`LocksHold`), no grant has two usable tokens (`OneUsable`), a grant that was presented again is over
  (`ReusedIsOver`), and an unread event or a lease names what it is about (`EventsAreTrue`, `LeasedIsThere`). TLC: 393,341 states.
* `ReusedGrantsAreOver` (`ReuseEndsGrant`), `SignOutEndsTheTree` (`TreeEnds`) and `TheToldAreDead` (`OnlyTheDeadAreTold`) follow from it.

*SigningKeys*, for any number of keys, signers and verifiers and any periods: `KeysAreInTime` is the inductive invariant, which
bounds the ages that nothing in the state compares directly: a signer uses a retired key no longer than it may cache
it (`CachedKeys`), and the time since a key was retired and what is left of a token it signed come to no more than
lifetime and cache (`ValidKeys`). `RotationInterruptsNobody` (`ValidIsAccepted`) is where the grace of `KeysAssumption` is used.

*WebSession*, for any number of sessions and of requests: `TabIsInStep` is the inductive invariant: what memory, sessionStorage and a
refresh of this epoch hold is of the session the tab is in (`InTab`), one refresh of the epoch is under way (`OneRefresh`),
and of a session none of whose answers was lost, tab and server agree on the token or differ by the answer that is on its
way (`InStep`). `TabHoldsOneSession` (`OneSessionInTab`) and `TokensArePresentedOnce` (`NoTokenIsUsedTwice`) follow. TLC checked both
invariants on the instance of the run (253,814 states).

The assumptions are those on the constants. Only model-checked: `EndIsTold`, a liveness property.

## 9. AccountLog, Provisioning, IdentityLink

### State and actions

| in the module | in the code |
|---|---|
| `log` (`AccountLog`) | the outbox of Identity, of one account and of the permission its reader looks at |
| `cursor`, `letters`, `proj`, `client`, `work`, `transfer` (`Provisioning`) | Integration: `feed_cursor`, unresolved dead letters, `account_projection`, personal clients with their number of active keys, what the poller and the replay have read, a transfer under way |
| `linkCursor`, `page`, `at`, `step`, `processed`, `deadLetters`, `deny`, `job`, `replay`, `request` (`IdentityLink`) | Reward: the cursor, the page and the event the poller is at, `processed_events`, dead letters, `account_denylist`, the account's job and its runner, the replay from the command line, an administrator's request |
| `raced`, `excused`, `applied`, `aside`, `crossed` | history: the exceptions named below |

*Provisioning*: the handlers read the projection without a lock, so each of the poller and the replay is a Read and a Commit;
`GivesUp` makes a dead letter of an event that keeps failing. Administrators change the status of a client, issue and revoke
keys, and give the account a client of another (`TransferReads`, `TransferWrites`). *IdentityLink*: an event is handled in three
steps (the transaction on the denylist, the pause of the job, the mark that it is processed), and a crash may come between
any two; the runner looks at the denylist before every item and when it starts. `MCIdentityConsumers` lets a behaviour be one
of either reader, since they share nothing but the log.

Abstractions. One account. Faults are not bounded. Platforms are enabled. One poller (so `processed_events` only matters after a
crash). Left out: transfer away, rotation, reveal, expiry and shared clients in Integration; the projection's row and the
denial of single sessions in Reward; the guard of a grant on an active status; and the `session.revoked` that goes with a
suspension or a deletion, which asks for nothing that the event before it does not.

### Runs

`identity_consumers`: up to five events, two clients, one key each and one letter at a time in Integration; up to four events
and one letter in Reward.

Bounds: five events are the shortest log in which a permission is taken and given again around a suspension; four reach a
denial, its end and another one around a letter. Two clients are the one that is open and the one that a second grant opens.

Fairness: the poller of Integration tries the next event again for ever and an attempt does not fail for ever for want
of the database (weak for reading, strong for ending an attempt); a runner that looks at the denylist goes on to pause. A
letter need never be replayed.

### Met while modelling and left without a run

Integration:

* A permission that is withdrawn while a client is suspended for its account finds no open client, and the end of the
  suspension opens it again (`handlers.py:9-12` says otherwise). A grant at such a time opens a second client; the event that ends
  the suspension then fails on the unique index and is a dead letter for ever.
* A client that was first created while the account was suspended stays pending. A replayed letter of a grant opens a client
  after a revocation or a deletion; a replay that overlaps with the poller leaves an old status (`raced`).
* A transfer reads the status of the account without a lock and does not ask for a verified address; it gives a key to a
  suspended client. `find_pending_reveal` does not look at the status of the key.

Reward:

* An event put aside that comes with a page fetched again is applied after newer ones; so are the administrator's own
  change, which is applied here after Identity's answer, and a replay whose check is not in the transaction that applies
  (`crossed`).
* A start under way is not paused by `session.revoked`, and a pause in its window writes `paused` and releases the lock while the
  runner starts. The replay of an old `account.registered` writes role and status over newer ones.

### Proofs (`Consumers_proofs`)

For any number of events, clients, keys and letters. Both invariants say of the log that registration is its first event
and deletion its last (`LogIs`), where poller and replay are (`WorkIs`; `PassedIs`, `ReplayIs`), and of the row kept that it is what
the *applied* events say, in the order of the log and not of their application. This is stronger than the properties,
which speak only of moments when everything is applied, and is what a late letter preserves.

* `ProjectionIsOfTheApplied`: `ProvisioningSpec => []ProvisioningInv`. Its parts: `ProjectionIs`, as above; an active client needs an
  active account (`ActiveIsAllowed`); after a revocation that nothing newer replaced, what is open or would be opened again
  is excused (`RevokedCloses`). `ProjectionIsCurrent` (`StatusIsCurrent`), `KeysNeedTheAccount` (`AcceptedIsAllowed`) and
  `RevocationCloses` (`RevokedHasNoClient`) follow, the exceptions (`raced`, `excused`) being those of the properties.
* `DenialsAreOfTheApplied`: `LinkSpec => []LinkInv`. Its parts: an event that was passed is processed, or put aside and a letter yet
  unless a newer one replaced it (`PassedIs`); the denylist is that of the newest event applied of each kind (`DenyIs`); a run that
  is owed a pause has the event before it, not yet at its pause (`OwedIs`). `DenylistIsCurrent` (`DenialsAreCurrent`) and
  `PausesAreAsked` (`PauseIsAsked`) follow.

The assumptions are those on the constants. TLC checked both invariants on the instance of the run (1,336,293 states). Only
model-checked: `NothingIsHeldUp`, a liveness property.

## 10. Not modelled

The parts marked `not_modelled` in `PROJECT.json`, with the reason: planned (the gateway), pure I/O, user interfaces, single-row
updates, pure arithmetic over one read (the figures of analytics, the mapping of the old interface), or retired code (the
legacy server, the largest part of the repository's Python). Of the parts marked `partly`, the note says what is left out.
