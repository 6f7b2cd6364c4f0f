-------------------------------- MODULE Outbox --------------------------------
(***************************************************************************)
(* Delivery of audit logs to one external log stream                       *)
(* (backend/src/ee/services/audit-log-stream-outbox).                      *)
(*                                                                         *)
(* The ingest consumer collects audit logs from a Redis stream, inserts    *)
(* one outbox row per log, wakes the stream's flush job and trims.  The    *)
(* flush job claims due rows, sends them to the provider and commits the   *)
(* outcome; its BullMQ id is fixed, so at most one exists at a time.  A    *)
(* debounce key with a TTL lets one caller per window enqueue it.  A cron  *)
(* sweeper gives claims that are too old back and wakes streams with       *)
(* overdue rows; another cron job prunes delivered rows.                   *)
(*                                                                         *)
(* A row is named by its log.  Logs whose row has been removed are not     *)
(* fanned out again: rows live for minutes, untrimmed entries for seconds. *)
(* The ingest consumer runs under a Redlock and the sweeper under a cron   *)
(* lease: there is one of each.                                            *)
(***************************************************************************)
EXTENDS Naturals, FiniteSets

CONSTANTS
  Logs,        \* audit logs of the stream's organisation that pass its filter
  Workers,     \* slots of the queue's workers (OUTBOX_WORKER_CONCURRENCY per pod)
  NoWorker,    \* the job's lock is free
  BatchSize,   \* BATCH_SIZE
  MaxBatches,  \* MAX_BATCHES_PER_JOB
  MaxAttempts, \* MAX_ATTEMPTS
  MaxFaults,   \* bound: crashes, calls that fail, and job locks lost
  MaxOverruns  \* bound: claims that get too old under a live worker

ASSUME OutboxAssumption ==
  /\ IsFiniteSet(Logs)
  /\ IsFiniteSet(Workers)
  /\ NoWorker \notin Workers
  /\ BatchSize \in Nat \ {0}
  /\ MaxBatches \in Nat \ {0}
  /\ MaxAttempts \in Nat \ {0}
  /\ MaxFaults \in Nat
  /\ MaxOverruns \in Nat

VARIABLES
  entry,    \* log: its place in the ingest stream
  caller,   \* where the ingest consumer and the sweeper are
  key,      \* the debounce key
  job,      \* BullMQ: the flush job
  lock,     \* BullMQ: the worker that holds the job's lock
  status,   \* row: its status; "backoff" is retry before nextRetryAt
  attempts, \* row: attempts
  wpc,      \* worker: where drainStream is
  claim,    \* worker: the claimed rows
  seen,     \* worker: attempts of the claimed rows, as claimed
  ok, bad,  \* worker: rows sent and rows whose sending failed
  rounds,   \* worker: batches of this job
  claims,   \* history: how often a row was claimed
  faults, overruns  \* counters for the two bounds

wakeVars == <<key, job, lock>>
rowVars == <<status, attempts>>
workerVars == <<wpc, claim, seen, ok, bad, rounds>>
bounds == <<faults, overruns>>
vars == <<entry, caller, wakeVars, rowVars, workerVars, claims, bounds>>

-----------------------------------------------------------------------------
(* Types *)

Callers == {"ingest", "sweep"}

Statuses ==
  {"absent", "pending", "processing", "retry", "backoff", "delivered", "dropped", "pruned"}

Settled == {"delivered", "dropped", "pruned"}

TypeOK ==
  /\ entry \in [Logs -> {"none", "queued", "collected", "trimmed"}]
  /\ caller \in [Callers -> {"idle", "find", "setnx", "add", "trim"}]
  /\ key \in {"free", "own", "other"}
  /\ job \in {"none", "delayed", "waiting", "active"}
  /\ lock \in IF job = "active" THEN Workers \union {NoWorker} ELSE {NoWorker}
  /\ status \in [Logs -> Statuses]
  /\ attempts \in [Logs -> Nat]
  /\ wpc \in [Workers -> {"idle", "claiming", "sending", "returning"}]
  /\ claim \in [Workers -> SUBSET Logs]
  /\ seen \in [Workers -> [Logs -> Nat]]
  /\ ok \in [Workers -> SUBSET Logs]
  /\ bad \in [Workers -> SUBSET Logs]
  /\ rounds \in [Workers -> 0 .. MaxBatches]
  /\ claims \in [Logs -> Nat]
  /\ faults \in 0 .. MaxFaults
  /\ overruns \in 0 .. MaxOverruns

Init ==
  /\ entry = [l \in Logs |-> "none"]
  /\ caller = [c \in Callers |-> "idle"]
  /\ key = "free"
  /\ job = "none"
  /\ lock = NoWorker
  /\ status = [l \in Logs |-> "absent"]
  /\ attempts = [l \in Logs |-> 0]
  /\ wpc = [w \in Workers |-> "idle"]
  /\ claim = [w \in Workers |-> {}]
  /\ seen = [w \in Workers |-> [l \in Logs |-> 0]]
  /\ ok = [w \in Workers |-> {}]
  /\ bad = [w \in Workers |-> {}]
  /\ rounds = [w \in Workers |-> 0]
  /\ claims = [l \in Logs |-> 0]
  /\ faults = 0
  /\ overruns = 0

-----------------------------------------------------------------------------
(* Helpers *)

Fail == faults < MaxFaults /\ faults' = faults + 1 /\ UNCHANGED overruns

\* Seeded fault: rows are claimed whoever is working on them.
ClaimableOrClaimed == {l \in Logs : status[l] \in {"pending", "retry", "processing"}}

\* Rows the claim query and the sweeper's overdue query select.
Claimable == {l \in Logs : status[l] \in {"pending", "retry"}}

\* Seeded fault: one attempt too few.
LastAttemptEarly(n) == n + 2 >= MaxAttempts

\* The next failure of a row that was read with n attempts drops it.
LastAttempt(n) == n + 1 >= MaxAttempts

\* What follows the wake-up in its caller.
WakeUpDone(c) == caller' = [caller EXCEPT ![c] = IF c = "ingest" THEN "trim" ELSE "idle"]

\* drainStream is left; what it had claimed and not committed stays processing.
Leave(w, to) ==
  /\ wpc' = [wpc EXCEPT ![w] = to]
  /\ claim' = [claim EXCEPT ![w] = {}]
  /\ ok' = [ok EXCEPT ![w] = {}]
  /\ bad' = [bad EXCEPT ![w] = {}]
  /\ seen' = [seen EXCEPT ![w] = [l \in Logs |-> 0]]

\* Seeded fault: a job that ends is removed whoever works on it by now.
RemoveJobUnchecked(w) ==
  job' = "none" /\ lock' = IF lock = w THEN NoWorker ELSE lock

\* A job that ends is removed (removeOnComplete, removeOnFail) by the worker
\* that holds its lock.
RemoveJob(w) ==
  IF lock = w THEN job' = "none" /\ lock' = NoWorker ELSE UNCHANGED <<job, lock>>

-----------------------------------------------------------------------------
(* Ingest consumer *)

\* A request appends an audit log to the ingest stream.
Push(l) ==
  /\ entry[l] = "none"
  /\ entry' = [entry EXCEPT ![l] = "queued"]
  /\ UNCHANGED <<caller, wakeVars, rowVars, workerVars, claims, bounds>>

\* Seeded fault: a conflicting insert overwrites the row instead of leaving it.
CollectMerges ==
  LET logs == {l \in Logs : entry[l] = "queued"}
  IN /\ caller["ingest"] = "idle"
     /\ logs # {}
     /\ entry' = [l \in Logs |-> IF l \in logs THEN "collected" ELSE entry[l]]
     /\ status' = [l \in Logs |-> IF l \in logs THEN "pending" ELSE status[l]]
     /\ caller' = [caller EXCEPT !["ingest"] = "setnx"]
     /\ UNCHANGED <<wakeVars, attempts, workerVars, claims, bounds>>

\* A tick collects the stream and inserts the rows that are not there yet.
Collect ==
  LET logs == {l \in Logs : entry[l] = "queued"}
      new == {l \in logs : status[l] = "absent"}
  IN /\ caller["ingest"] = "idle"
     /\ logs # {}
     /\ entry' = [l \in Logs |-> IF l \in logs THEN "collected" ELSE entry[l]]
     /\ status' = [l \in Logs |-> IF l \in new THEN "pending" ELSE status[l]]
     /\ caller' = [caller EXCEPT !["ingest"] = "setnx"]
     /\ UNCHANGED <<wakeVars, attempts, workerVars, claims, bounds>>

\* The collected entries are trimmed.
Trim ==
  /\ caller["ingest"] = "trim"
  /\ entry' = [l \in Logs |-> IF entry[l] = "collected" THEN "trimmed" ELSE entry[l]]
  /\ caller' = [caller EXCEPT !["ingest"] = "idle"]
  /\ UNCHANGED <<wakeVars, rowVars, workerVars, claims, bounds>>

-----------------------------------------------------------------------------
(* debounceAndEnqueueFlush *)

\* SET NX of the debounce key; a caller that finds it set leaves it at that.
\* The key is the job's own if the job is added in this window: the job is
\* then delayed until after the key's TTL.
SetNX(c) ==
  /\ caller[c] = "setnx"
  /\ IF key = "free"
     THEN /\ key' = IF job = "none" THEN "own" ELSE "other"
          /\ caller' = [caller EXCEPT ![c] = "add"]
     ELSE WakeUpDone(c) /\ UNCHANGED key
  /\ UNCHANGED <<entry, job, lock, rowVars, workerVars, claims, bounds>>

\* queue.add with a fixed id does nothing while the job exists in any state.
Add(c) ==
  /\ caller[c] = "add"
  /\ IF job = "none"
     THEN job' = "delayed" /\ key' = IF key = "free" THEN "free" ELSE "own"
     ELSE UNCHANGED <<job, key>>
  /\ WakeUpDone(c)
  /\ UNCHANGED <<entry, lock, rowVars, workerVars, claims, bounds>>

\* The call to Redis or to BullMQ fails: allSettled and catch leave the caller
\* going on as if the stream were woken, and a debounce key it has set stays.
WakeUpFails(c) ==
  /\ caller[c] \in {"setnx", "add"}
  /\ Fail
  /\ WakeUpDone(c)
  /\ UNCHANGED <<entry, wakeVars, rowVars, workerVars, claims>>

\* The caller dies, or another call of it throws; the ingest consumer collects the
\* same entries again and the sweeper starts over.
CallerFails(c) ==
  /\ caller[c] # "idle"
  /\ Fail
  /\ caller' = [caller EXCEPT ![c] = "idle"]
  /\ entry' = [l \in Logs |->
       IF c = "ingest" /\ entry[l] = "collected" THEN "queued" ELSE entry[l]]
  /\ UNCHANGED <<wakeVars, rowVars, workerVars, claims>>

KeyExpires ==
  /\ key # "free"
  /\ key' = "free"
  /\ UNCHANGED <<entry, caller, job, lock, rowVars, workerVars, claims, bounds>>

-----------------------------------------------------------------------------
(* BullMQ *)

\* The delay of FLUSH_DEBOUNCE_MS is over, and so is the TTL of the same length
\* that began before it.
JobDue ==
  /\ job = "delayed"
  /\ key # "own"
  /\ job' = "waiting"
  /\ UNCHANGED <<entry, caller, key, lock, rowVars, workerVars, claims, bounds>>

\* A job whose worker is gone is stalled: it is run again, or given up after
\* maxStalledCount.
JobStalled ==
  /\ job = "active"
  /\ lock = NoWorker
  /\ job' \in {"waiting", "none"}
  /\ UNCHANGED <<entry, caller, key, lock, rowVars, workerVars, claims, bounds>>

\* A worker that is alive fails to renew the job's lock in time.
LockLost(w) ==
  /\ lock = w
  /\ Fail
  /\ lock' = NoWorker
  /\ UNCHANGED <<entry, caller, key, job, rowVars, workerVars, claims>>

-----------------------------------------------------------------------------
(* drainStream *)

Start(w) ==
  /\ job = "waiting"
  /\ wpc[w] = "idle"
  /\ job' = "active"
  /\ lock' = w
  /\ wpc' = [wpc EXCEPT ![w] = "claiming"]
  /\ rounds' = [rounds EXCEPT ![w] = 0]
  /\ UNCHANGED <<entry, caller, key, rowVars, claim, seen, ok, bad, claims, bounds>>

\* Up to BatchSize due rows become this worker's.
Claim(w) ==
  /\ wpc[w] = "claiming"
  /\ \E S \in SUBSET Claimable :
       /\ S # {}
       /\ Cardinality(S) = BatchSize \/ (S = Claimable /\ Cardinality(S) < BatchSize)
       /\ status' = [l \in Logs |-> IF l \in S THEN "processing" ELSE status[l]]
       /\ claim' = [claim EXCEPT ![w] = S]
       /\ seen' = [seen EXCEPT ![w] = [l \in Logs |-> IF l \in S THEN attempts[l] ELSE 0]]
       /\ claims' = [l \in Logs |-> IF l \in S THEN claims[l] + 1 ELSE claims[l]]
  /\ wpc' = [wpc EXCEPT ![w] = "sending"]
  /\ UNCHANGED <<entry, caller, wakeVars, attempts, ok, bad, rounds, bounds>>

\* Nothing is due: drainStream returns, and BullMQ has yet to remove the job.
NothingDue(w) ==
  /\ wpc[w] = "claiming"
  /\ Claimable = {}
  /\ wpc' = [wpc EXCEPT ![w] = "returning"]
  /\ UNCHANGED <<entry, caller, wakeVars, rowVars, claim, seen, ok, bad, rounds, claims, bounds>>

\* The provider takes the row, or the request fails.
SendRow(w, l) ==
  /\ wpc[w] = "sending"
  /\ l \in claim[w] \ (ok[w] \union bad[w])
  /\ \/ ok' = [ok EXCEPT ![w] = @ \union {l}] /\ UNCHANGED bad
     \/ bad' = [bad EXCEPT ![w] = @ \union {l}] /\ UNCHANGED ok
  /\ UNCHANGED <<entry, caller, wakeVars, rowVars, wpc, claim, seen, rounds, claims, bounds>>

\* Seeded fault: an outcome is written although the row was given up meanwhile.
ExistsOnceInserted(l) == status[l] # "absent"

\* Rows are updated by id, whatever has become of them since they were claimed.
Exists(l) == status[l] \notin {"absent", "dropped", "pruned"}

\* MAX_BATCHES_PER_JOB is reached with this batch.
LastBatch(w) == rounds[w] + 1 = MaxBatches

\* commitDeliveryResult.  A failure ends the job, and so does the last batch.
Commit(w) ==
  LET delivered == {l \in ok[w] : Exists(l)}
      dropped == {l \in bad[w] : Exists(l) /\ LastAttempt(seen[w][l])}
      retried == {l \in bad[w] : Exists(l) /\ ~LastAttempt(seen[w][l])}
      bail == bad[w] # {} \/ LastBatch(w)
  IN /\ wpc[w] = "sending"
     /\ claim[w] = ok[w] \union bad[w]
     /\ status' = [l \in Logs |->
          IF l \in delivered THEN "delivered"
          ELSE IF l \in dropped THEN "dropped"
          ELSE IF l \in retried THEN "backoff" ELSE status[l]]
     /\ attempts' = [l \in Logs |-> IF l \in retried THEN attempts[l] + 1 ELSE attempts[l]]
     /\ Leave(w, IF bail THEN "returning" ELSE "claiming")
     /\ rounds' = [rounds EXCEPT ![w] = @ + 1]
     /\ UNCHANGED <<entry, caller, wakeVars, claims, bounds>>

\* The job is over.
Return(w) ==
  /\ wpc[w] = "returning"
  /\ wpc' = [wpc EXCEPT ![w] = "idle"]
  /\ rounds' = [rounds EXCEPT ![w] = 0]
  /\ RemoveJob(w)
  /\ UNCHANGED <<entry, caller, key, rowVars, claim, seen, ok, bad, claims, bounds>>

\* A call of drainStream to Postgres throws: the job fails and is removed.
DrainFails(w) ==
  /\ wpc[w] \in {"claiming", "sending"}
  /\ Fail
  /\ Leave(w, "idle")
  /\ rounds' = [rounds EXCEPT ![w] = 0]
  /\ RemoveJob(w)
  /\ UNCHANGED <<entry, caller, key, rowVars, claims>>

\* The worker's process dies.
Crash(w) ==
  /\ wpc[w] # "idle"
  /\ Fail
  /\ Leave(w, "idle")
  /\ rounds' = [rounds EXCEPT ![w] = 0]
  /\ lock' = IF lock = w THEN NoWorker ELSE lock
  /\ UNCHANGED <<entry, caller, key, job, rowVars, claims>>

-----------------------------------------------------------------------------
(* Sweeper and cleanup *)

\* A retry's backoff is over.
BackoffEnds(l) ==
  /\ status[l] = "backoff"
  /\ status' = [status EXCEPT ![l] = "retry"]
  /\ UNCHANGED <<entry, caller, wakeVars, attempts, workerVars, claims, bounds>>

\* Seeded fault: a stale claim does not count as an attempt.
RecoverUncounted(stale) ==
  LET held == stale \intersect UNION {claim[w] : w \in Workers}
  IN /\ caller["sweep"] = "idle"
     /\ \A l \in stale : status[l] = "processing"
     /\ overruns' = overruns + Cardinality(held)
     /\ overruns' <= MaxOverruns
     /\ status' = [l \in Logs |-> IF l \in stale THEN "retry" ELSE status[l]]
     /\ caller' = [caller EXCEPT !["sweep"] = "find"]
     /\ UNCHANGED <<entry, wakeVars, attempts, workerVars, claims, faults>>

\* recoverStaleClaims: a claim older than STALE_CLAIM_THRESHOLD_MS counts as an
\* attempt.  Any claim may be that old by now, its worker dead or not.
Recover(stale) ==
  LET dropped == {l \in stale : LastAttempt(attempts[l])}
      retried == stale \ dropped
      held == stale \intersect UNION {claim[w] : w \in Workers}
  IN /\ caller["sweep"] = "idle"
     /\ \A l \in stale : status[l] = "processing"
     /\ overruns' = overruns + Cardinality(held)
     /\ overruns' <= MaxOverruns
     /\ status' = [l \in Logs |->
          IF l \in dropped THEN "dropped" ELSE IF l \in retried THEN "retry" ELSE status[l]]
     /\ attempts' = [l \in Logs |-> IF l \in retried THEN attempts[l] + 1 ELSE attempts[l]]
     /\ caller' = [caller EXCEPT !["sweep"] = "find"]
     /\ UNCHANGED <<entry, wakeVars, workerVars, claims, faults>>

\* Seeded fault: the sweeper gives claims back and wakes nobody.
FindOverdueNever ==
  /\ caller["sweep"] = "find"
  /\ caller' = [caller EXCEPT !["sweep"] = "idle"]
  /\ UNCHANGED <<entry, wakeVars, rowVars, workerVars, claims, bounds>>

\* findStreamsWithOverdueRows.
FindOverdue ==
  /\ caller["sweep"] = "find"
  /\ caller' = [caller EXCEPT !["sweep"] = IF Claimable # {} THEN "setnx" ELSE "idle"]
  /\ UNCHANGED <<entry, wakeVars, rowVars, workerVars, claims, bounds>>

\* pruneDeliveredRows.  DELIVERED_RETENTION_MS is meant to outlive the time
\* an ingest entry stays untrimmed.
Prune(l) ==
  /\ status[l] = "delivered"
  /\ entry[l] = "trimmed"
  /\ status' = [status EXCEPT ![l] = "pruned"]
  /\ UNCHANGED <<entry, caller, wakeVars, attempts, workerVars, claims, bounds>>

-----------------------------------------------------------------------------

CallerStep(c) == SetNX(c) \/ Add(c) \/ WakeUpFails(c) \/ CallerFails(c)

WorkerStep(w) ==
  \/ Start(w) \/ Claim(w) \/ NothingDue(w) \/ (\E l \in Logs : SendRow(w, l))
  \/ Commit(w) \/ Return(w) \/ DrainFails(w) \/ Crash(w) \/ LockLost(w)

Next ==
  \/ \E l \in Logs : Push(l) \/ BackoffEnds(l) \/ Prune(l)
  \/ Collect \/ Trim \/ FindOverdue
  \/ \E stale \in SUBSET Logs : Recover(stale)
  \/ \E c \in Callers : CallerStep(c)
  \/ KeyExpires \/ JobDue \/ JobStalled
  \/ \E w \in Workers : WorkerStep(w)

Spec == Init /\ [][Next]_vars

\* Nobody works on the claimed row any more.
Abandoned(l) == status[l] = "processing" /\ \A w \in Workers : l \notin claim[w]

\* Cron and the job scheduler tick, TTLs and delays run out, the provider answers
\* or times out, and some sweep finds an abandoned claim old.  No request is
\* forced to push a log.
Fairness ==
  /\ WF_vars(Collect) /\ WF_vars(Trim) /\ WF_vars(FindOverdue)
  /\ WF_vars(\E stale \in SUBSET Logs : Recover(stale))
  /\ SF_vars(Recover({l \in Logs : Abandoned(l)}))
  /\ \A c \in Callers : WF_vars(SetNX(c) \/ Add(c))
  /\ WF_vars(KeyExpires) /\ WF_vars(JobDue) /\ WF_vars(JobStalled)
  /\ \A w \in Workers :
       /\ WF_vars(\E l \in Logs : SendRow(w, l))
       /\ WF_vars(Claim(w) \/ NothingDue(w) \/ Commit(w) \/ Return(w))
  /\ WF_vars(\E w \in Workers : Start(w))
  /\ \A l \in Logs : WF_vars(BackoffEnds(l))

FairSpec == Spec /\ Fairness

-----------------------------------------------------------------------------
(* Properties *)

\* "Even concurrent workers claim disjoint rows": as long as no claim got too old
\* under a live worker, a claimed row has one worker, and is still as that worker
\* read it; two workers do run for the stream once a job's lock was lost.
SoleClaim ==
  overruns = 0 =>
    \A w \in Workers : \A l \in claim[w] :
      /\ status[l] = "processing"
      /\ attempts[l] = seen[w][l]
      /\ \A v \in Workers \ {w} : l \notin claim[v]

\* Rows are committed by id alone.  It still holds that a delivered row is the
\* end of the matter, unless a claim got too old under a live worker.
DeliveredIsFinal ==
  [][overruns' = 0 =>
       \A l \in Logs : status[l] = "delivered" => status'[l] \in {"delivered", "pruned"}]_vars

\* "A poison pill can't loop forever": whatever crashes, a log is claimed at most
\* MAX_ATTEMPTS times; each claim that got too old under a live worker may cost
\* one more.
SendsCapped == \A l \in Logs : claims[l] <= MaxAttempts + overruns

\* A log is given up only after MAX_ATTEMPTS claims; each claim that got too old
\* under a live worker may count for two.
NotDroppedEarly == \A l \in Logs : status[l] = "dropped" => claims[l] + overruns >= MaxAttempts

\* Whatever wake-up is lost, a log that reached the ingest stream is delivered
\* or given up.
EveryLogSettles == \A l \in Logs : entry[l] = "queued" ~> status[l] \in Settled

\* The promise of a row's status, without the ways it is kept.
Stage(s) ==
  CASE s = "absent" -> "new"
    [] s \in {"pending", "retry", "backoff"} -> "open"
    [] s = "processing" -> "taken"
    [] s \in {"delivered", "pruned"} -> "delivered"
    [] s = "dropped" -> "dropped"

D == INSTANCE Delivery WITH
  stage <- [l \in Logs |-> Stage(status[l])], tries <- claims, slow <- overruns

\* Over its four stores, crashes and lost calls, the outbox delivers each log at
\* least once or gives it up, after MAX_ATTEMPTS attempts and not again, up to
\* what claims that got too old under a live worker may cost.
DeliverySpec == D!Spec

\* The wake-up as its comments describe it: once the ingest consumer is done
\* with a log and nobody is about to add the job, a flush job covers the log.
WakeUpCovers ==
  \A l \in Logs :
    status[l] = "pending" /\ entry[l] = "trimmed" /\ (\A c \in Callers : caller[c] # "add")
      => job # "none"

=============================================================================
