# A verification of Sanctum's coordination code

Sanctum (`backend/`) is a secrets-management server.  Its API pods are replicas
of one Node.js process over a shared Postgres and a shared Redis.  Most of the
code is request handlers inside one database transaction; what is hard to get
right, and hard to test, is the part in which the pods coordinate through Redis
and Postgres while they crash, redeploy, stall and lose connections.  This
directory holds TLA+ specifications of that part, the TLC configurations that
check them on small instances, and TLAPS proofs of their safety for every
instance.

Paths below are relative to `backend/src/` unless they say otherwise.
`PROJECT.json` maps every definition to the lines it stands for and lists the
hazards of the code, the runs, the theorems and the findings.

| module | what it is |
|---|---|
| `CronSlots`, `CronSlotsProofs`, `MCCronSlots` | which pods take part in cron ticking (`lib/cron/cron-job.ts`) |
| `CronRuns`, `CronRunsProofs`, `MCCronRuns` | a cron job's runs: enqueue, lease, execute, retry, recover, shut down (`lib/cron/cron-job.ts`) |
| `Redlock`, `RedlockProofs`, `MCRedlock` | the quorum lock (`lib/red-lock/index.ts`) |
| `Job` | what the cron manager promises of a job's runs; `CronRuns` implements it |
| `Lease`, `RedlockLease`, `RedlockLeaseProofs` | what a lease promises, and that `Redlock` implements it |
| `Delivery` | what an outbox promises: delivery at least once in a bounded number of attempts; `Outbox` implements it |
| `Outbox`, `OutboxProofs`, `MCOutbox` | the audit log stream outbox (`ee/services/audit-log-stream-outbox`, `ee/services/audit-log`) |
| `IdentityRevocation`, `IdentityRevocationProofs`, `MCIdentityRevocation` | the cached verdict on a machine identity's access token, and its revocation (`services/identity-access-token`) |
| `DynamicSecretLease`, `DynamicSecretLeaseProofs`, `MCDynamicSecretLease` | the leases of a dynamic secret and the jobs that revoke them (`ee/services/dynamic-secret-lease`) |
| `PermissionCache`, `PermissionCacheProofs`, `MCPermissionCache` | the cache of an actor's permissions (`lib/cache/with-cache.ts`, `ee/services/permission`) |

## 1. Inventory

### Components with a life of their own

**Cron manager: slot election** (`lib/cron/cron-job.ts`, 352-386, 575-640).
State: Redis keys `slot:0..N-1` with a TTL; per pod `currentSlot`, `stopped`
and the promise `slotOp` that slot operations are chained on.  Operations:
claim (`SET NX PX`), refresh (`SET XX PX`), release (compare-and-delete script)
on stop.  Hard: a slot operation suspends at every Redis call while timers fire
and `stop()` is called; TTLs run out under live pods; replies get lost.
Correct when: a pod never burns two slots, nobody frees a slot that its owner
believes in, `stop()` leaves nothing behind, dead pods' slots return, and no
more than N pods take part.

**Cron manager: runs** (same file, 100-350, 388-575, 590-640).  State: per run
a Redis hash, a member of the pending zset and a lease key; per pod the
last fire it enqueued, the set `inFlight` and any number of overlapping process
ticks.  Operations: enqueue (Lua script), candidate selection, lease, attempt,
retry with backoff, final failure, clean-up of orphans, handler timeout, drain.
Hard: several ticks of several pods read, lock and write the same run; each
status change is two calls; crash recovery is decided from a hash read before
the lock was taken.  Correct when: a run is executed under its lease by one tick
at a time, is never lost, is settled in the end, and happens once per fire.
Users: some forty jobs of about thirty services, among them the usage flush of
`services/license-client` and the sweeper of the outbox below.

**Redlock** (`lib/red-lock/index.ts`).  State: per node the resource's key and
TTL; per lock its value and expiration.  Operations: `acquire`, `extend`,
`release`, and `using()`, which extends from a timer for as long as a routine
runs.  Hard: votes of several nodes, retries, scripts that are executed late,
connections lost before or after execution, extensions that overlap the
release, clock drift.  Correct when: a lock that believes itself valid is backed
by a quorum for longer than it believes, two locks never both believe, and
everything ends.  Users: the cron manager's leases (one attempt to acquire), and
`keystore.acquireLock` (by default two retries).

**Audit log stream outbox** (`ee/services/audit-log-stream-outbox`,
`ee/services/audit-log/audit-log-queue.ts`).  State: an ingest Redis stream,
rows in Postgres (pending, processing, retry, delivered, dropped), a debounce
key in Redis, a BullMQ job `flush-<streamId>` and its lock.  Operations: ingest
and trim, wake-up, claim (`FOR UPDATE SKIP LOCKED`), delivery, commit of the
outcome, sweep of stale claims and overdue rows, pruning.  Hard: delivery is
at least once over four stores without a common transaction; workers die
between claim and commit, or are so slow that the sweeper takes their rows;
wake-ups get lost.  Correct when: every log that reached the stream is
delivered or given up after exactly the configured attempts, no two workers send
a row at a time, and a delivered row stays delivered.

**Keystore** (`keystore/keystore.ts`).  Wrappers of Redis commands, and three
Lua counters (`incrementByAndRefreshExpiryIfUnderLimit`, `claimLeastLoaded`,
`decrementByOrDelete`).  Correct when a reservation is returned once, and never
goes below zero.

**Queue service** (`queue/queue-service.ts`).  A wrapper of BullMQ.  What BullMQ
does with a fixed job id, a delay and a job lock is modelled as the outbox's
external environment.

**Machine identity access tokens** (`services/identity-access-token`).  State:
revocation markers and memberships in Postgres, the latter read from a replica;
in Redis a verdict per token and a revocation version per identity.  Operations:
`assertTokenIsNotRevoked`; the calls that revoke, remove a membership or restore it,
each a commit followed by a best-effort bump of the version.  Hard: the version is
read, Postgres is asked and the verdict is written in separate calls, while a
revocation commits and bumps; bumps and the version itself get lost.  Correct
when a token is refused to every request that begins after a revocation's bump, is
not refused after a restore's, and follows the truth in the end whatever is lost.

**Dynamic secret leases** (`ee/services/dynamic-secret-lease`).  State: a
credential at an external provider, a row, a BullMQ job that revokes it at
expiry, a retry job and a pruning job.  Operations: create, renew, revoke (also
forced), delete the dynamic secret or its folder, and the three jobs.  Hard: credential, row and
job are created one after the other without a transaction; renewal, revocation and
pruning remove and add the same job; the provider fails after it has acted.  Correct
when a row, the only handle on its credential, outlives the credential; a lease keeps
something that will revoke it; and every credential is revoked or reported.

**Cache with fingerprint** (`lib/cache/with-cache.ts`, used by
`ee/services/permission`).  State: per actor and project the data and a short-lived
marker in Redis; a versioned counter in Postgres that changes of grants and paths
increment.  Operations: the lookup, the invalidations.  Hard: data is stored under
the fingerprint read before it was fetched, however long ago; marker and data are asked
for at once and may be answered in either order; its parts come from primary and replica; the counter's row expires and starts over.  Correct when a
compared answer is as fresh as the replica was when the request began, and a slow
lookup cannot bring older data back under a marker.

**Usage metering** (`services/license-client/usage`), **MFA lockout and
sessions** (`services/auth`, `services/mfa-session`): state in Redis with a TTL that
concurrent requests read and write in several calls.  Not modelled yet.

### The rest

Login, identity authentication methods, permissions, secrets and folders,
approvals, rotation, syncs, KMS, PKI, privileged access, gateways, event bus, audit
log storage, scanning, directory sync, organisations, notifications, HTTP server
and start-up, CLI, SDK and frontend are listed in `PROJECT.json` with the reason
each is not modelled.  They fall in three classes: handlers over one Postgres
transaction (their interleavings are the database's), clients of external
services (their code is formats and I/O), and a few that keep a protocol of
their own and have not been surveyed in depth (approvals, secret rotation,
key rotation): those are candidates for later modules.

### How they interact

```
 requests --push--> ingest stream --consumer--> outbox rows --flush job--> provider
                                       |  wake-up     ^   ^
                                       +--> debounce  |   | stale claims, overdue rows
                                            key, job -+   |
 cron manager: slots --gate--> enqueue, process --lease--> handlers (sweeper, usage flush, ...)
                                             |
                                             +--> Redlock (one Redis, retryCount 0)

 requests --token--> verdict cache --miss--> markers (primary), membership (replica)
          --actor--> permission cache --miss--> memberships, grants, paths
          --lease--> provider, row, BullMQ jobs (expiry, retry, pruning)
```

Shared state is Redis and Postgres only; pods send each other no messages.
Inside a pod the interleaving is that of one event loop: code between two
awaits is one step, and every await is a place where another handler runs.
This is the grain of every action in the specifications.

## 2. Plan

Done, in this order:

1. `CronSlots` and its proofs.
2. `CronRuns` and its proofs; it takes the lease as given (one node, no retry).
3. `Redlock`, its proofs, and `RedlockLease`, which justifies that lease.
4. `Outbox` and its proofs, the account of attempts with overruns among them.
5. `IdentityRevocation` and its proofs.
6. `DynamicSecretLease` and its proofs.
7. `PermissionCache` and its proofs.
8. The proof that `Redlock` with one node implements `Lease`.
9. `Delivery`, and the proof that `Outbox` implements it.
10. What bounds the participants of cron ticking (`CronSlotsProofs`); `Job`, and the
    proof that `CronRuns` implements it.

Candidates for later modules:

- `UsageMetering`; the keystore counters with MFA lockout, the client-secret usage
  limit and the choice of the least loaded gateway.
- Renewal of identity access tokens with its counter of remaining uses.
- `CronManager`, the composition of `CronSlots` and `CronRuns`: a pod that loses
  its slot stops ticking, runs go on to settle as long as some slot is held.
- `CronRuns` with several jobs, some registered on some pods only, and a limit of
  ids per tick.
- Several ingest consumers in `Outbox`, whose lock has a TTL that is not extended.
- Approvals, secret rotation and key rotation, after a survey.

## 3. The modules

Every module uses the code's names where it can.  A *pod* is one life of a
process: `workerId` is drawn when the factory runs, so a restarted process is
another pod.  Time is a step that a TTL, timer or backoff takes: a key may run
out at any moment at which the code does not rule it out.  Constants named
`Max...` with the comment *bound* are bounds of the model and are tested in
the guards of the actions they bound; other constants are parameters of the
code.  Some modules start with *seeded faults*, variants of their actions with
a plausible slip in them; no specification uses them, and `PROJECT.json` pairs each with
the property that must notice it.

### CronSlots

| specification | code |
|---|---|
| `slotKey` | the value of `slot:i` in Redis |
| `currentSlot`, `phase` | the closure variables `currentSlot`, `started`/`stopped` |
| `op[p, o]` | link `o` of the promise chain `slotOp`: absent, chained, waiting for `SET XX` or `SET NX` |
| `Start`, `SlotTimer` | `start()` and the slot interval, both through `runSlotOp` |
| `OpStep` | the continuation of `claimOrRefreshSlot` at each Redis reply |
| `OpFails`, `ClaimReplyLost` | a call that throws, before or after it took effect |
| `Stop`, `StopRelease` | `stop()` up to its await of `slotOp`, and after it |
| `Expire`, `Stall` | the TTL of a key nobody tends, and of one whose owner is alive but late |
| `Crash` | the process dies |

`orphan` is history: keys written by a `SET NX` whose reply was lost.  They are
the one exception to "a pod owns only the key of its `currentSlot`".  A live pod is
*deceived* (`Deceived`) when the key of its `currentSlot` is another pod's or gone:
`DeceivedByStalls` says that this takes a key that ran out under a live pod, one for each
deceived pod, and nothing else.

### CronRuns

| specification | code |
|---|---|
| `status`, `attempts`, `nameless`, `young` | the run's hash; nameless: re-created by a late `HSET` |
| `pending`, `backoff` | the zset and the members scored in the future |
| `lease` | the run's Redlock key |
| `last`, `enq` | `lastEnqueuedAt`, and an enqueue script in flight |
| `th[p, k]` | process tick `k` of pod `p`: ids not yet looked at, the Redis call it waits for, the run and attempt |
| `zombies` | handlers that run on after their timeout |
| `EnqueueTick`, `Enqueue` | the enqueue interval and its script |
| `ProcessTick`, `Step`, ... | `processTick`, `processCandidate`, `executeUnderLease`, `runAttempt`, `markCompleted`, `markPendingRetry`, `markFailedFinal` call by call |
| `HandlerTimesOut`, `ZombieEnds` | the race of handler and timeout |
| the pod actions | `start`, `stop` and its drain, the SIGTERM path of `main.ts:128-135`, crashes |

Every pod of this module has the job registered and holds a slot.  Left out:
validation in `register()`, more than `PROCESS_BATCH_SIZE` pending ids.

`issued`, `settled`, `expired` and `begun` are history: what ever happened to a run, and how
many attempts of it had their handler called.  The hash counts attempts too, but it is
read before the lease, a failing call may have written it, and its TTL clears it.

`Job` is what the owner of a job relies on, without hashes, zset, leases or pods: a run is
new, due, settled or lost; it is executed by one worker at a time; it is settled by a worker
that executes it after an attempt was begun, or given up once all attempts were.  Each
*mishap*, a failed call or a lapsed lease, may cost a run one attempt, and from the first one on
there may be a worker that lost its lease and goes on.  `JobSpec` maps a run's history
to its stage (`Stage`), the ticks that execute it and never lost its lease to its crew
(`Crew`), and `faults + lapses` to the mishaps.

### Redlock, Lease, RedlockLease

`owner[n]`, `left[n]` are the key's value and remaining TTL at node `n`;
`requests` are scripts sent and not yet executed; `pc[a]`, `ext[a]` say where
`using()` and its extension timer are; `exec`, `tries`, `yes`, `no`, `since`
are the locals of `_execute` and `_attemptOperation`; `valid` is
`lock.expiration - Date.now()`, counted down by `Tick`.  `Execute` is a node
executing a script and the client counting its vote; `ConnectionLost` a client that counts
the node against while the script may or may not still be executed; `Resend` the
next attempt after the retry delay.  `Duration`, `Drift`, `Threshold` and `AcquireTries`/
`MaxTries` are the settings.

A call locks one resource (the scripts treat several all-or-nothing, and the only
call of `using()`, in the cron manager, names one).  Ticks are the same at all
clients and nodes; the difference of clocks is what `Drift` pays for.

`Lease` is what a user relies on: at most one holder, and a holder that was followed by
another never holds again.  `RedlockLease` adds the history that `Lease` speaks
of and states `LeaseSpec`.  It is claimed for one node and one attempt to acquire, which is how the
cron manager's lock is built (`server/routes/index.ts:586`, `retryCount: 0`).  With several nodes an
extension that loses its quorum and gets it back is possible in between, and with a
retried acquire the script of an earlier attempt may be executed late and give the lock its
key back after another lock has held it.  So `LeaseSpec` does not cover `keystore.acquireLock`,
which retries twice unless its caller says otherwise (`keystore/keystore.ts:397`); `QuorumBacked` and
`MutualExclusion` do, for any number of retries.

### Outbox

| specification | code |
|---|---|
| `entry` | a log's place in the ingest stream: not pushed, queued, collected, trimmed |
| `caller[c]` | the two callers of the wake-up, ingest consumer and sweeper, between debounce and enqueue |
| `key` | the debounce key: free, set in the window of the delayed job (then it runs out before the job is due), or set while another job existed |
| `job`, `lock` | BullMQ's job `flush-<streamId>` and its lock |
| `status`, `attempts` | the row |
| `wpc`, `claim`, `seen`, `ok`, `bad`, `rounds` | `drainStream`, one per worker slot |
| `Collect`, `Trim`, `SetNX`, `Add` | the ingest consumer and the wake-up |
| `Start`, `Claim`, `NothingDue`, `SendRow`, `Commit`, `Return` | the flush job |
| `FindOverdue`, `Recover`, `Prune` | the sweeper and the clean-up |
| `JobDue`, `JobStalled` | BullMQ's delay and stalled-job check |

`Recover` takes any set of rows in processing whose claim may be old: an
abandoned one, or, `MaxOverruns` times, one whose worker is alive and slow.  The
comment at `audit-log-stream-outbox-service.ts:49-51` considers the second impossible;
the arithmetic of `BATCH_SIZE` and the provider timeout does not rule it out, so the
properties count it as an *overrun* and say what it may cost.

One stream is modelled (streams share nothing but worker slots), one ingest
consumer and one sweep at a time.  Left out: deletion of the stream, product
filters, the `MAXLEN` of the ingest stream, a row that is removed before its
entry is trimmed.  The last is an assumption on time: a removed row would be
inserted afresh if its entry were collected again, but a row is dropped after more than
seven minutes of backoff and pruned after fifteen, while entries are trimmed every
five seconds (the comment at `audit-log-stream-outbox-service.ts:54-61` relies on the same).
The theorems about attempts rest on it.

`Delivery` is what a user of the outbox relies on, without streams, jobs, locks or
workers: a log is new, open, taken by an attempt, delivered or dropped; it is attempted
at most `MaxAttempts` times and dropped only after as many; delivered or dropped is the
end.  Each overrun (`slow`) may cost or save one attempt, and from the first one a late
outcome may override what is not dropped.  `DeliverySpec` maps a row's status to these
stages, the history of claims to the attempts and `overruns` to `slow`.

### IdentityRevocation

| specification | code |
|---|---|
| `marks` | the active revocation markers that cover the token, read from the primary |
| `members`, `replica` | successive values of "the identity is an active member", and how many of them the replica has applied |
| `version`, `verdict` | the identity's revocation version and the token's cached verdict in Redis |
| `clock` | `Date.now()`, which seeds a version that is missing |
| `pending` | calls that have committed and not bumped yet |
| `pc`, `got`, `seen`, `usable`, `stamp`, `deny` | the locals of `assertTokenIsNotRevoked` |
| `Begin`, `ReadVersion`, `ReadVerdict`, `CacheDown`, `Seed`, `ReadBack`, `ReadMarkers`, `ReadMembership`, `Write`, `WriteFails`, `Return` | `assertTokenIsNotRevoked`, await by await; the two reads of a `Promise.all` in either order |
| `Revoke`, `Remove`, `Restore`, `LeaveGroup`, `JoinGroup` | commits of the services that revoke or restore |
| `Bump`, `BumpFails` | `bumpRevocationVersion` after the commit, best effort |
| `Replicate`, `VerdictExpires`, `VersionLost` | the replica catches up; TTLs, eviction and failover in Redis |

The marker `"perm"` stands for the kinds that are never taken back, `"org"` for that of a
lost membership; a group membership has none and is told by the replica only.  History:
`due[r]` is what had been revoked *and bumped for* when request `r` began, `open[r]` that
access was open and bumped for, with the replica up to date.  Left out: issuance and
renewal (with its counter of remaining uses), the trusted-IP cache and its delayed second
delete, markers that expire before their token, a failing Postgres query (the request
fails).

What the model shows beyond its properties: a membership deny read from a replica
behind the restore is stamped with the version of *after* the restore's bump, and stands
for its TTL of some ten minutes, though the comments at
`identity-access-token-service.ts:174-178` and `:301` promise an immediate re-check
(the re-check happens, and reads the replica: `org-dal.ts:880`).  `ReopenedIsAllowed`
excepts exactly these requests; `VerdictsSettle` says that it ends.

### DynamicSecretLease

| specification | code |
|---|---|
| `cred` | the lease's credential at the provider: not issued, live, gone |
| `row`, `cfg` | the lease's row and status; the dynamic secret's row and status |
| `main`, `retry` | BullMQ's job named after the lease, and `<lease>-retry`, with the attempts that failed |
| `mailed` | the mail about a failed revocation is queued |
| `prune`, `listed` | the pruning job, and the leases it (or a deletion in flight) has read |
| `pc`, `target` | a request in flight and the leases it is about |
| `Create`, `Issue`, `Insert`, `Schedule` | `create`, with `IssueFails` and `InsertFails` |
| `Renew`, `Extend`, `Unset`, `SetJob` | `renewLease` |
| `Revoke`, `RevokeNow`, `RevokeNowFails`, `Flag`, `QueueRetry`, `Drop`, `DeleteRow` | `revokeLease`, forced or not |
| `Delete`, `Clear`, `Wipe`, `Erase`, `Mark`, `QueuePrune` | `deleteByName` of the dynamic secret, forced or not |
| `DeleteFolder` | `deleteFolder`, forced: foreign keys take the dynamic secret and the rows |
| `JobStarts`, `JobRevokes`, `JobDeletes`, `JobFails`, `JobStalls` | the scheduled and the retry job |
| `PruneStarts`, ..., `PruneFails`, `PruneStalls` | the pruning job |
| `ClientCrashes` | a pod that dies in the middle of a request |

A provider call that fails may have taken effect.  Three variables are history of where the
code leaves a live credential behind, each set at named places only:

- `lost`, live and without a job: a create that failed at the provider after it took effect, or
  found the dynamic secret gone when it inserted the row; a request that died between two
  steps; a pruning that failed or died after it had removed the jobs; a job that stalled too often;
- `unseen`, its row deleted by cascade from a dynamic secret, though it had been created
  after the leases were read (`Erase`, `PruneDeletes`);
- `forced`, dropped on request whatever the provider says: a forced revocation that failed, a
  forced deletion of the dynamic secret or of its folder.

The properties except them, so that they say what holds *besides* these places; the
places themselves are recorded under "hazards".  `RowOutlivesCredential` excepts `forced` and
`unseen`: neither a crash nor a failure excuses a row deleted too early.  `LeaseWatched` excepts
`forced` and `lost`, `LeaseEnds` all three: they do not catch what a crash between two steps
leaves without a job, which the code never picks up again.
Left out: expiry times and the new credential name of a renewal, sending of the mail,
`DisableRotationErrors`, Redis errors inside a job's failure handler, and the deletion of
environments and projects, whose foreign keys do to the rows what `DeleteFolder` does.

Observations made while modelling, none contradicted by a comment: `MAX_LEASE_LIMIT`
is never enforced (`dynamic-secret-lease-dal.ts:54` parses the row and not its count,
which gives `NaN`); of the three attempts of a pruning job two do nothing, as the first
failure changes the status they ask for (`dynamic-secret-lease-queue.ts:190-193`,
`231-243`); `create` does not look at the status of the dynamic secret, so a lease created
while it is pruned is deleted unseen; a folder deleted by force takes the rows of leases
whose jobs then find nothing to revoke (`secret-folder-service.ts:790`); a job cannot stop itself
(`queue/queue-service.ts:943-948`), so after a failure it and the retry job both
revoke, each with its own attempts; a renewal that overlaps the expiry job extends a
lease that is about to be revoked.

### PermissionCache

| specification | code |
|---|---|
| `log`, `at[r]` | the committed states of Postgres, and the prefix replica `r` has applied |
| a state of `log` | how often memberships, folder grants and paths have changed, and the counter row; `bumps` and `told` are history of its increments |
| `lapsed`, `owed` | counter rows that have expired; renames whose increment is still to come |
| `data`, `marker` | the two Redis keys |
| `pc`, `vouched`, `seen`, `stamp`, `got` | the locals of `withCacheFingerprint` |
| `ReadMarker` and `ReadData`, `ReadDataFirst` and `ReadMarkerLast` | its two reads of one `Promise.all`, in either order |
| `ReadMembership`, `ReadVersion`, `FetchMembers`, `FetchGrants`, `FetchPaths`, `WriteData`, `WriteMarker`, `Return` | its other awaits, with `PrintFails` and `FetchFails` |
| `ChangeMember`, `ChangeGrant`, `ChangeEnvironment`, `Rename`, `BumpAfter` | changes in Postgres: the second and third increment the counter in their transaction, `Rename` after it |
| `Lapse`, `Prune` | the counter row expires and is pruned; the next increment inserts it at 1 |
| `DataExpires`, `MarkerExpires`, `Replicate` | TTLs, replication |

Marker and data are asked for at once (`with-cache.ts:135-138`).  One connection answers in
that order; the nodes of a `Redis.Cluster` (`lib/config/redis.ts:107`), which may keep the two keys
apart as they have no hash tag (`keystore.ts:102-105`), answer in any.  A request that reads the data
first takes it as vouched for by a marker it reads later; if the data key has changed by then, its phase is
"crossed" until it returns.

Grants are read from the primary, the rest from a replica, each query from one of its
own.  `begin[q]` is the state every replica had when request `q` began, `base` that of the
last *quiet* moment, when the marker had run out and no request was under way.
`Lapse` carries what the two days of `FOLDER_PERMISSION_VERSION_TTL` buy
(`LongAgo`): whatever is older than the last increment is gone from replicas, requests and
cache.  The exceptions of the properties are all necessary; TLC refutes them without:

- `revived` (a counter inserted anew has counted up to a value that cached data
  carries): one request, three commits;
- `unwritten` (the data write failed and the marker was written): one request;
- answers in phase "crossed": two requests and two commits, no failure.  One reads old data,
  the other replaces it and writes the marker, which the first reads last and answers with
  the old data.  `NothingOlder` also says of the data key itself that, while there is a marker,
  it is not that old, so nothing of such an answer is kept;
- paths count when announced by an increment, not when committed;
- `Single`: memberships and paths count only if there is one replica.  With two, a payload
  from the one that lags may be stored under the fingerprint of the other and stays up to
  the data's TTL of ten minutes (`db/instance.ts` picks a replica at random for each
  query).  Grants count for any number: they are read at the primary, after the counter.

Left out: `withCache` and TTL jitter, the folder access list that uses the same helper,
temporary access that runs out (its end is a date in the data), unparsable data, project
details and user names that ride along without being part of the fingerprint, reads from
Redis replicas.  The two queries of `findSecretPathByFolderIds` are one step.

## 4. Runs

| run | instance | shows |
|---|---|---|
| `CronSlots` | 2 pods, 2 chained operations, 2 slots, 1 stall, 1 failing or lost call, crashes and stops at any step | `OwnsOnlyCurrent`, `CleanStop`, `NoEviction`, `DeceivedByStalls`; under fairness `IdlePodClaims`, `SlotsReturn`, `StopTerminates` |
| `CronSlotsCapRestored` | 2 pods, 1 slot, 1 stall, no failure | **violated**: two pods share a slot for ever |
| `CronRunsSafety` | 2 pods, 1 fire, 1 attempt, 1 failing or lost call, 1 lapsed lease, a hash that may run out; crashes and shutdown at any step | `LeaseCoversRun`, `NoDroppedRun`, `OneRunPerFire` |
| `CronRunsLive` | 2 pods, 1 fire, 2 attempts, 1 failing or lost call, crashes and shutdown at any step | `JobSpec` (refinement); `EveryRunSettles` |
| `CronRunsReadyWhenExecuted` | 2 pods, no failure | **violated**: a completed run is executed again |
| `Redlock` | 2 nodes, 2 locks, 2 attempts in flight, one retry, 2 connections lost or crashes | `QuorumBacked`, `MutualExclusion` |
| `RedlockCron` | 1 node, no retries, 1 connection lost or crash (the keys an acquire leaves behind are those of a lost reply) | `LeaseSpec` (refinement); `OperationsEnd`, `RoutineTold`, `KeysReturn` |
| `Outbox` | 1 log, 2 workers, 3 attempts, 2 faults, 1 overrun | `SoleClaim`, `SendsCapped`, `NotDroppedEarly`, `DeliveredIsFinal`, `DeliverySpec` (refinement); `EveryLogSettles` |
| `OutboxWakeUp` | 2 logs, 1 worker, no failure | **violated**: a row is pending and no job covers it |
| `IdentityRevocation` | 2 requests, 1 administrator who commits twice, 1 failing call or lost bump or version | `RevokedIsDenied`, `ReopenedIsAllowed`; `VerdictsSettle` |
| `DynamicSecretLease` | 1 lease, 2 requests in flight, 2 renewals, revocations or deletions (of the dynamic secret or its folder), 2 attempts of a job, 2 pods that die | `RowOutlivesCredential`, `LeaseWatched`, `MailDeserved`; `LeaseEnds` |
| `PermissionCache` | 2 requests, marker and data read in either order, 1 replica, 2 commits, 1 failing call | `ValidatedIsFresh`, `NothingOlder` |

Type correctness (`TypeOK`) is an invariant of one run of each module.

**Why the bounds are enough.**  The conflicts of these protocols are between
two parties: two pods over a slot or a run, two locks over a resource, two
workers over a row.  Two slots let a pod skip a held slot and let the claim loop
end; two chained operations are a refresh that overlaps another or `stop()`.  Two
nodes with quorum two make a minority, a partial acquire and a late script
possible.  Three attempts separate the first, a repeated and the last one; with one
attempt every failure of `CronRunsSafety` is final, with two in
`CronRunsLive` it is retried.  One log suffices for the outbox since rows meet only in
a batch, and batches of several are covered by the proofs.  Safety that is
proved (section 6) does not depend on the bounds at all; the instances there show
that the formulas are not true for want of behaviours.  Two requests with one token, one of
them slow, and two commits are a revocation and a restore (or two revocations) around a
verdict under way.  One lease suffices for `DynamicSecretLease`, whose leases meet in a
pruning or deletion only, which treat them as a set; two requests let a renewal overlap a
revocation or deletion (or the deletion of the folder overlap either), and two attempts separate a failure that is retried from the last.
Two lookups are a slow one and the one it overtakes; two commits let one fall before and
one after the fingerprint; a revived counter needs three commits (a smaller run with three
and no failing call passes as well, and the theorems cover any number).
Ticks of one pod
that overlap behave like ticks of two pods, except for the copy of `inFlight` in `stop()`;
the runs have one tick for each of two pods, the proofs any number.  Symmetry is
used in runs without liveness only.  `CHECK_DEADLOCK FALSE` is set where the
system may come to rest: all pods stopped or dead, and no fire left; or every lease
revoked and no request left.

**Fairness.**  Timers fire, Redis and nodes answer (or the call fails, finitely often),
handlers end or time out (every handler has a timeout), TTLs and backoffs run
out, BullMQ notices delays and stalls, the provider answers or times out: weak
fairness of the actions concerned.  Strong fairness is assumed of one thing: that
some sweep finds an abandoned claim old; a sweep may see it young any number
of times before, but the claim's age only grows.  Nothing is assumed of crashes, of `stop()`
being called, of logs being pushed or of routines ending.  In `IdentityRevocation` the
steps of a request, replication and the verdict's TTL are fair, and nobody has to bump; in
`DynamicSecretLease` requests and jobs go on unless their pod dies.  `PermissionCache`
states no fairness and no liveness: that lookups converge once changes cease was too
large to check together with what makes it interesting.

## 5. Findings

Each is a line of documentation or a comment that the code does not live up to;
the run named shows a shortest behaviour.

1. **The cap on participants is not restored** (`CronSlotsCapRestored`,
   `cron-job.ts:354-359`).  The refresh is `SET ... XX` and does not compare
   the owner: after one refresh later than the TTL, the old and the new owner refresh the
   same key for ever and both keep ticking.
2. **A run that is no longer ready is executed** (`CronRunsReadyWhenExecuted`,
   `cron-job.ts:497-531`).  Status and attempts are read before the lease and not
   again under it.
3. **A wake-up can be lost without any failure** (`OutboxWakeUp`,
   `audit-log-stream-outbox-service.ts:103-130, 202`).  BullMQ ignores an `add`
   while a job of that id exists, also one that has made its last claim; the rows wait
   for the sweeper.  `EveryLogSettles` shows that they do not wait for ever.

Further observations, without a run of their own, beside those of section 3:

- The drain misses runs about to start (`cron-job.ts:594-602`): `stop()` awaits a copy
  of `inFlight`, and a tick between two Redis calls adds to the original afterwards.  The
  comment at 594-596 does not promise otherwise.  `EveryRunSettles` and `NoDroppedRun`
  show that such a run is recovered.
- A fire can be enqueued twice (`cron-job.ts:109, 397`): deduplication lives as long as
  the hash; `license-usage-flush` runs daily with a TTL of one hour, so a pod that
  starts later the same day runs it again.
- `_attemptOperation` of Redlock neither resolves nor retries when an even number of
  clients splits evenly; every instance has one client.
- A status write after the hash's TTL leaves a hash without a name or TTL behind.

## 6. Proofs

All theorems are of `Spec` without fairness, for all values of the constants that
satisfy the module's `ASSUME`s (numbers are naturals, or positive where the code needs it;
"no pod", "no worker" and the like are not pods or workers; `Drift < Duration` and finitely many
nodes for Redlock, pods for `CronSlots` and replicas for `PermissionCache`).  Each module's argument is one inductive invariant `IInv`:

**CronSlotsProofs.**  `OwnsOnlyCurrent` and `CleanStop` are not inductive: a
second operation could claim while the first one's reply is under way.  What
excludes it is `Serialized` (one link of the chain runs at a time), `OpsAgree` (what the
running link knows agrees with `currentSlot`) and `Quiet` (a stopped pod has no
link left when it releases).  `IInv` is their conjunction with `TypeOK`.  `NobodyEvicts` follows
step by step from it.  `DeceivedByStalls` counts:
a step leaves the set of deceived pods no larger, passes the deception on (a deceived pod's
refresh takes its slot back from the pod that claimed it), or adds one pod and a stall
(`DeceivedStep`; `Fresh`, no slot before `start()`, completes it); `Exchange` turns that into
cardinalities.  Participants that are not deceived own a key each, so `Cap` follows: at most
`PARTICIPANT_SLOTS + stalls` pods take part.  It is the positive side of finding 1: the cap
is not restored after a late refresh, but nothing else breaks it.

**CronRunsProofs.**  `ThreadInv` says for each place in a tick what is known of its run:
it was enqueued, it was settled before its entry is removed, or it was lost to its
TTL.  `HashInv` ties hashes to the history.  With them `NoDroppedRun` and
`LeaseCoversRun` are inductive; `OneTickPerRun` follows from the latter, for one
key has one value.  `OneRunPerFire` needs only that a run without a hash is lost (`HashInv`).
`Implementation` needs to know how a tick's attempt number, read from the hash before the lease,
relates to what was begun: `Counted` says that a hash is ahead of the history by at
most the calls that failed, `AttemptInv` says the same of each tick and that one past
`markRunning` has begun an attempt.  Both are kept since the history only grows
(`Growing`), whoever writes the hash in between, and are inductive together with `Known` (only issued
runs have a hash or an end).  What one step may do to any tick (`Delta`) then says what it may do
to a crew: nothing, empty it, or, when the lease is free, man it with one tick (`CrewStep`);
and each action is a step of `Job` for each run.  From the same `Delta` follow two results
that no run states: `Crowd`, at most `1 + lapses` ticks execute a run, as the lease covers all
of them but those whose own lease ran out, one per lapse (`LapseStep`); and `Retirement`, a
settled run that no tick has on its way to the lease stays settled until its hash
expires, so that every execution past the end of a run (the `ReadyWhenExecuted` finding)
is by a tick that had read the hash before it.

**RedlockProofs.**  `QuorumBacked` needs to know what late scripts can do:
`YesBacked` says that a node whose vote is counted still carries the value, with a
TTL at least what the attempt's age leaves; `NoReleaseInFlight` that nothing in
flight can delete the key of a lock that is still acquiring or running; `Executing` that
votes belong to an operation under way.  `QuorumsMeet` (two majorities of a finite set
intersect) turns `QuorumBacked` into `MutualExclusion`.  All of it
holds for any number of nodes.

**RedlockLeaseProofs.**  With one node and one attempt to acquire (`Single`),
a lock sends one acquire and is granted only after the node has executed it (`AskedOnce`);
the lock that was valid last is the holder, if there is one (`LastGranted`); and once its key
is another lock's or gone, nothing a lock still sends makes the key its own again
(`PastOver`).  A lock that is valid has its key on the node (`QuorumBacked`), so each step of
`HSpec` is a step of `Lease` or leaves its variables alone.

**OutboxProofs.**  `SoleClaim` is inductive with `TypeOK` and `BatchLeft` (a worker that goes
on has a batch left), up to the first overrun, and gives `DeliveredIsFinal`.  The bounds
on attempts hold for any number of overruns, by an account (`Accounts`) of each log: each
claim pays for one way back to the claimable rows, by the commit of its worker or by its
recovery once the worker is gone, and each overrun for one more.  It relates the row's
counter, the workers' copies of it and the history of claims to the number of workers that
hold the row (`Paid`, `Capped`, `Earned`); `SendsCapped` and `NotDroppedEarly` are two
of its consequences.  `Implementation` says what may become of a row in one step (`Fate`)
and that each fate is a step of `Delivery`: the bounds give its conditions on attempts,
`SoleClaim` that an outcome belongs to a row in processing unless there was an overrun.

**IdentityRevocationProofs.**  A stamp is *old* when no request that reads the version
from now on can find it live; every bump makes all stamps of before old.  While a
revocation is settled, every allow that is cached, read or about to be cached is old
(`AllowsOld`), since a request that reads the markers from then on finds one; while access is reopened, every
membership deny is, unless the replica was behind (`OrgDeniesOld`).  `RevokedMarked`,
`DueDenied`, `DeniesMarked` and `OpenSeen` tie the locals of a request to the markers,
`StampsBounded` says that no version runs ahead of the clock that seeds a missing one:
without it a re-seeded version could meet an old stamp.

**DynamicSecretLeaseProofs.**  `LeaseWatched` is strengthened to `Watched`: a request or
pruning counts as being at the lease only while it has itself removed the job, which it
then owes.  `RevokedGone` (a job past the provider's answer has a dead credential),
`Unissued` and `Uninserted` (nobody but its request knows of a lease in creation) carry
`RowOutlivesCredential`, which makes no use of `lost`; `AttemptsCounted` ties the retry job's counter to the history of
failures, and gives `MailDeserved`.

**PermissionCacheProofs.**  For any number of replicas, of which the one that is furthest
behind counts (`OneIsSlowest`, from the library's induction on the naturals).  `Ordered`: in
the log, the counter orders the changes of grants and announced paths.  A request reads both
halves of the fingerprint before any part of the data, so data under a stamp never lacks the
grants the stamp stands for, as they come from the primary, and with one replica nothing
else either (`Sound`); a match outside `revived` means the same increments, so what is
found to carry the stamp just computed has what every replica had when the request began
(`Recent`, `Fetched`).  A marker is only written by a request that began after the last quiet moment,
and from then on the data key holds what that request compared or wrote, or something
written since (`Vouching`): that is `NothingOlder`.  A request that reads the marker last answers
with the data key's content of that moment, unless it is "crossed".

| module | theorem | states |
|---|---|---|
| `CronSlotsProofs` | `Typing`, `OneSlotPerPod`, `StopIsClean`, `NobodyEvicts`, `Deception`, `Cap` | `TypeOK`, `OwnsOnlyCurrent`, `CleanStop`, `NoEviction`, `DeceivedByStalls`, and a bound on `Participants` |
| `CronRunsProofs` | `Typing`, `LeaseHeld`, `Exclusion`, `NothingDropped`, `EnqueuedOnce`, `Implementation`, `Crowd`, `Retirement` | `TypeOK`, `LeaseCoversRun`, `OneTickPerRun`, `NoDroppedRun`, `OneRunPerFire`, `JobSpec`, a bound on the ticks of a run, and that what is settled and left alone stays settled |
| `RedlockProofs` | `Typing`, `Backing`, `Exclusion` | `TypeOK`, `QuorumBacked`, `MutualExclusion` |
| `RedlockLeaseProofs` | `Refinement` | `HSpec => LeaseSpec` for one node and one attempt to acquire |
| `OutboxProofs` | `Typing`, `Claims`, `Finality`, `Capping`, `Perseverance`, `Implementation` | `TypeOK`, `SoleClaim`, `DeliveredIsFinal`, `SendsCapped`, `NotDroppedEarly`, `DeliverySpec` |
| `IdentityRevocationProofs` | `Typing`, `Revocation`, `Restoring` | `TypeOK`, `RevokedIsDenied`, `ReopenedIsAllowed` |
| `DynamicSecretLeaseProofs` | `Typing`, `Credentials`, `Watching`, `Mails` | `TypeOK`, `RowOutlivesCredential`, `LeaseWatched`, `MailDeserved` |
| `PermissionCacheProofs` | `Typing`, `Validation`, `Settling` | `TypeOK`, `ValidatedIsFresh`, `NothingOlder` |

**Only model-checked:** all liveness (it needs fairness and `ENABLED`, which the prover
does not handle).  Not claimed at all: `LeaseSpec` for several nodes or
retried acquisitions, and the freshness of cached memberships and paths with several
replicas.

**Not modelled:** see the end of section 1 and `PROJECT.json`.  Of the modelled
components: the exits named under each module in section 3.
