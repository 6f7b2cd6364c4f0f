------------------------------ MODULE CronRuns ------------------------------
(***************************************************************************)
(* Runs of one cron job (backend/src/lib/cron/cron-job.ts): enqueue, the   *)
(* race for the lease, execution, retry, crash recovery and shutdown.      *)
(*                                                                         *)
(* A fire of the job's schedule is a number; the run of fire r lives in    *)
(* Redis as a hash, an entry of the pending zset and a lease key.  Every   *)
(* pod of this module has registered the job and holds a participant slot  *)
(* (module CronSlots says how).  A tick is one invocation of processTick;  *)
(* setInterval starts them whether or not the last one has ended, so       *)
(* several ticks of a pod overlap, each suspended at one Redis call.       *)
(*                                                                         *)
(* A pod is one life of a factory instance: a restarted process is         *)
(* another pod.  The lease is a Redlock on one Redis with retryCount 0,    *)
(* extended for as long as its routine runs.                               *)
(***************************************************************************)
EXTENDS Naturals, FiniteSets

CONSTANTS
  Pods,         \* factory instances (workerId)
  Ticks,        \* process ticks of a pod that may overlap
  MaxFires,     \* bound: fires of the schedule
  MaxAttempts,  \* entry.maxAttempts
  NoTick,       \* value of a lease key that does not exist
  MaxFaults,    \* bound: Redis calls that fail
  MaxLapses,    \* bound: leases that run out under a live holder
  Mortal        \* runs old enough for runHashTtlS to run out

Runs == 1 .. MaxFires
NoRun == 0
Threads == Pods \X Ticks

ASSUME RunsAssumption ==
  /\ MaxFires \in Nat
  /\ MaxAttempts \in Nat \ {0}
  /\ NoTick \notin Threads
  /\ MaxFaults \in Nat
  /\ MaxLapses \in Nat
  /\ Mortal \subseteq Runs

VARIABLES
  fire,      \* the latest fire of the schedule (prevFireMs), or NoRun
  status, attempts, nameless, young,
             \* Redis: run hashes; nameless ones were re-created by a late
             \* HSET, young ones are not yet minProcessAgeMs old
  pending, backoff,
             \* Redis: the pending zset, and its members scored in the future
  lease,     \* Redis: the tick that holds each run's lease key
  phase,     \* pod: life cycle
  last, enq, \* pod: lastEnqueuedAt, and the fire whose enqueue script is sent
  th,        \* tick: where it is, see Thread
  zombies,   \* handlers that run on after their timeout
  issued, settled, expired, begun,
             \* history: runs ever enqueued, ever marked completed or failed,
             \* ever lost to their TTL; attempts begun of each, up to MaxAttempts
  faults, lapses

hash == <<status, attempts, nameless, young>>
zset == <<pending, backoff>>
pod == <<phase, last, enq>>
history == <<issued, settled, expired, begun>>
vars == <<fire, hash, zset, lease, pod, th, zombies, history, faults, lapses>>

-----------------------------------------------------------------------------
(* Types *)

Phases == {"new", "up", "draining", "down", "timedOut", "dead", "exited"}

\* The Redis call a tick waits for, or the handler.
Unlocked == {"scan", "exists", "cleanup", "giveUp", "giveUpZ"}
Writing == {"completed", "completedZ", "failed", "failedZ", "retry", "retryZ"}
Holding == {"mark", "handler", "release"} \union Writing
PCs == Unlocked \union {"acquire"} \union Holding

\* todo: ids of zrangebyscore not yet looked at; run, att: the candidate and
\* the attempt it would be; awaited: in stop()'s copy of inFlight; lapsed: its
\* lease ran out while it held it.
Thread == [pc : PCs, todo : SUBSET Runs, run : Runs \union {NoRun},
           att : 0 .. MaxAttempts + 1, awaited : BOOLEAN, lapsed : BOOLEAN]

TypeOK ==
  /\ fire \in Runs \union {NoRun}
  /\ status \in [Runs -> {"absent", "pending", "running", "completed", "failed"}]
  /\ attempts \in [Runs -> 0 .. MaxAttempts]
  /\ nameless \subseteq Runs /\ young \subseteq Runs
  /\ pending \subseteq Runs /\ backoff \subseteq pending
  /\ lease \in [Runs -> Threads \union {NoTick}]
  /\ phase \in [Pods -> Phases]
  /\ last \in [Pods -> Runs \union {NoRun}]
  /\ enq \in [Pods -> Runs \union {NoRun}]
  /\ th \in [Threads -> Thread]
  /\ zombies \subseteq Pods \X Runs
  /\ issued \subseteq Runs /\ settled \subseteq Runs /\ expired \subseteq Runs
  /\ begun \in [Runs -> 0 .. MaxAttempts]
  /\ faults \in 0 .. MaxFaults
  /\ lapses \in 0 .. MaxLapses

Idle == [pc |-> "scan", todo |-> {}, run |-> NoRun, att |-> 0,
         awaited |-> FALSE, lapsed |-> FALSE]

Init ==
  /\ fire = NoRun
  /\ status = [r \in Runs |-> "absent"]
  /\ attempts = [r \in Runs |-> 0]
  /\ nameless = {} /\ young = {}
  /\ pending = {} /\ backoff = {}
  /\ lease = [r \in Runs |-> NoTick]
  /\ phase = [p \in Pods |-> "new"]
  /\ last = [p \in Pods |-> NoRun]
  /\ enq = [p \in Pods |-> NoRun]
  /\ th = [t \in Threads |-> Idle]
  /\ zombies = {}
  /\ issued = {} /\ settled = {} /\ expired = {}
  /\ begun = [r \in Runs |-> 0]
  /\ faults = 0
  /\ lapses = 0

-----------------------------------------------------------------------------
(* Helpers *)

\* The event loop of the pod runs.  A stopped pod's ticks go on until the
\* process exits: processTick does not look at `stopped`.
Alive(p) == phase[p] \in {"up", "draining", "down", "timedOut"}

InFlight(t) == th[t].pc \in Holding \union {"acquire"}

Executes(t, r) == th[t].run = r /\ th[t].pc \in Holding

\* Tick `t` waits for another call of the same candidate.
Goto(t, pc) == th' = [th EXCEPT ![t] = [th[t] EXCEPT !.pc = pc]]

\* The state of a tick that has read candidate r.
Looking(pc, todo, r, n) ==
  [pc |-> pc, todo |-> todo, run |-> r, att |-> n, awaited |-> FALSE, lapsed |-> FALSE]

\* processCandidate settles and the loop of tick `t` goes on with `todo`.
Scan(t, todo) == th' = [th EXCEPT ![t] = [Idle EXCEPT !.todo = todo]]

\* Seeded fault: one attempt too many.
GateOffByOne(att) == IF att > MaxAttempts + 1 THEN "giveUp" ELSE "acquire"

\* Seeded fault: one attempt too few.
GateEarly(att) == IF att >= MaxAttempts THEN "giveUp" ELSE "acquire"

\* Where a candidate goes that passed the status checks: the attempts gate.
Gate(att) == IF att > MaxAttempts THEN "giveUp" ELSE "acquire"

\* HSET of a status: on a hash that has expired it makes a new one that has
\* neither a name nor a TTL.
HSet(r, s, n) ==
  /\ status' = [status EXCEPT ![r] = s]
  /\ attempts' = [attempts EXCEPT ![r] = n]
  /\ nameless' = IF status[r] = "absent" THEN nameless \union {r} ELSE nameless
  /\ UNCHANGED young

ZRem(r) == pending' = pending \ {r} /\ backoff' = backoff \ {r}

-----------------------------------------------------------------------------
(* Seeded faults: the bugs the properties below are expected to notice.  No  *)
(* specification uses them.                                                  *)

\* The enqueue script does not ask whether the hash exists.
EnqueueRunBlindly(r) ==
  /\ status' = [status EXCEPT ![r] = "pending"]
  /\ attempts' = [attempts EXCEPT ![r] = 0]
  /\ young' = young \union {r}
  /\ pending' = pending \union {r}
  /\ backoff' = backoff \ {r}
  /\ issued' = issued \union {r}
  /\ UNCHANGED nameless

\* Runs whose status is "running" are taken for somebody else's business.
LeaseExistsNeverStalled(t) ==
  /\ th[t].pc = "exists"
  /\ Scan(t, th[t].todo)
  /\ UNCHANGED <<fire, hash, zset, lease, pod, zombies, history, faults, lapses>>

\* A run leaves the zset when it starts, as a queue entry would.
MarkRunningDequeues(t) ==
  /\ th[t].pc = "mark"
  /\ HSet(th[t].run, "running", th[t].att)
  /\ ZRem(th[t].run)
  /\ UNCHANGED settled

\* The release deletes the key whoever holds it.
ReleaseUnchecked(t) ==
  /\ th[t].pc = "release"
  /\ lease' = [lease EXCEPT ![th[t].run] = NoTick]
  /\ Scan(t, th[t].todo)
  /\ UNCHANGED <<fire, hash, zset, pod, zombies, history, faults, lapses>>

-----------------------------------------------------------------------------
(* Schedule and enqueue *)

Fire ==
  /\ fire < MaxFires
  /\ fire' = fire + 1
  /\ UNCHANGED <<hash, zset, lease, pod, th, zombies, history, faults, lapses>>

Start(p) ==
  /\ phase[p] = "new"
  /\ phase' = [phase EXCEPT ![p] = "up"]
  /\ UNCHANGED <<fire, hash, zset, lease, last, enq, th, zombies, history, faults, lapses>>

\* The enqueue tick computes the fire that is due and sends the script, unless
\* this pod remembers having sent it for that fire.
EnqueueTick(p) ==
  /\ phase[p] = "up"
  /\ fire # NoRun
  /\ last[p] # fire
  /\ enq[p] = NoRun
  /\ enq' = [enq EXCEPT ![p] = fire]
  /\ UNCHANGED <<fire, hash, zset, lease, phase, last, th, zombies, history, faults, lapses>>

\* ENQUEUE_RUN_LUA: nothing if the hash exists, else hash, TTL and zset entry.
EnqueueRun(r) ==
  IF status[r] = "absent"
  THEN /\ status' = [status EXCEPT ![r] = "pending"]
       /\ attempts' = [attempts EXCEPT ![r] = 0]
       /\ young' = young \union {r}
       /\ pending' = pending \union {r}
       /\ backoff' = backoff \ {r}
       /\ issued' = issued \union {r}
       /\ UNCHANGED nameless
  ELSE UNCHANGED <<hash, zset, issued>>

Enqueue(p) ==
  /\ Alive(p)
  /\ enq[p] # NoRun
  /\ EnqueueRun(enq[p])
  /\ last' = [last EXCEPT ![p] = enq[p]]
  /\ enq' = [enq EXCEPT ![p] = NoRun]
  /\ UNCHANGED <<fire, lease, phase, th, zombies, settled, expired, begun, faults, lapses>>

\* The script call rejects, with or without effect: lastEnqueuedAt is not set
\* and the next tick sends it again.
EnqueueFails(p) ==
  /\ faults < MaxFaults
  /\ Alive(p)
  /\ enq[p] # NoRun
  /\ EnqueueRun(enq[p]) \/ UNCHANGED <<hash, zset, issued>>
  /\ enq' = [enq EXCEPT ![p] = NoRun]
  /\ faults' = faults + 1
  /\ UNCHANGED <<fire, lease, phase, last, th, zombies, settled, expired, begun, lapses>>

-----------------------------------------------------------------------------
(* Process ticks *)

\* The process timer fires and zrangebyscore answers.
ProcessTick(t) ==
  /\ phase[t[1]] = "up"
  /\ th[t] = Idle
  /\ pending \ backoff # {}
  /\ Scan(t, pending \ backoff)
  /\ UNCHANGED <<fire, hash, zset, lease, pod, zombies, history, faults, lapses>>

\* HGETALL of the next candidate answers; from here on the tick goes by this
\* answer, except for the lease.  The ids are shuffled: any may be next.
Candidate(t, r) ==
  /\ Alive(t[1])
  /\ th[t].pc = "scan"
  /\ r \in th[t].todo
  /\ LET rest == th[t].todo \ {r}
         att == attempts[r] + 1
         Pick(pc, n) == th' = [th EXCEPT ![t] = Looking(pc, rest, r, n)]
     IN  IF status[r] = "absent" \/ r \in nameless THEN Pick("cleanup", 0)
         ELSE IF status[r] = "pending" /\ r \notin young THEN Pick(Gate(att), att)
         ELSE IF status[r] = "running" THEN Pick("exists", att)
         ELSE Scan(t, rest)
  /\ UNCHANGED <<fire, hash, zset, lease, pod, zombies, history, faults, lapses>>

\* EXISTS of the lease key: a running run without a lease is stalled.
LeaseExists(t) ==
  /\ th[t].pc = "exists"
  /\ IF lease[th[t].run] = NoTick
     THEN Goto(t, Gate(th[t].att))
     ELSE Scan(t, th[t].todo)
  /\ UNCHANGED <<fire, hash, zset, lease, pod, zombies, history, faults, lapses>>

\* The lease script succeeds only on a key that does not exist; if it does,
\* redlock.using() rejects with "resource locked", which is swallowed.
Acquire(t) ==
  LET r == th[t].run IN
  /\ th[t].pc = "acquire"
  /\ IF lease[r] = NoTick
     THEN lease' = [lease EXCEPT ![r] = t] /\ Goto(t, "mark")
     ELSE UNCHANGED lease /\ Scan(t, th[t].todo)
  /\ UNCHANGED <<fire, hash, zset, pod, zombies, history, faults, lapses>>

\* The status write tick `t` has sent, as Redis executes it.
MarkRunning(t) ==
  /\ th[t].pc = "mark"
  /\ HSet(th[t].run, "running", th[t].att)
  /\ UNCHANGED <<zset, settled>>

MarkCompleted(t) ==
  LET r == th[t].run IN
  /\ th[t].pc = "completed"
  /\ HSet(r, "completed", attempts[r])
  /\ settled' = settled \union {r}
  /\ UNCHANGED zset

MarkFailedFinal(t) ==
  LET r == th[t].run IN
  /\ th[t].pc \in {"failed", "giveUp"}
  /\ HSet(r, "failed", attempts[r])
  /\ settled' = settled \union {r}
  /\ UNCHANGED zset

MarkPendingRetry(t) ==
  LET r == th[t].run IN
  /\ th[t].pc = "retry"
  /\ HSet(r, "pending", attempts[r])
  /\ UNCHANGED <<zset, settled>>

RemovePending(t) ==
  /\ th[t].pc \in {"completedZ", "failedZ", "giveUpZ", "cleanup"}
  /\ ZRem(th[t].run)
  /\ UNCHANGED <<hash, settled>>

AddBackoff(t) ==
  /\ th[t].pc = "retryZ"
  /\ pending' = pending \union {th[t].run}
  /\ backoff' = backoff \union {th[t].run}
  /\ UNCHANGED <<hash, settled>>

Write(t) ==
  \/ MarkRunning(t)
  \/ MarkCompleted(t)
  \/ MarkFailedFinal(t)
  \/ MarkPendingRetry(t)
  \/ RemovePending(t)
  \/ AddBackoff(t)

\* What follows a status write that succeeds, or rejects.
Then(pc) ==
  CASE pc = "mark" -> "handler"
    [] pc = "completed" -> "completedZ"
    [] pc = "failed" -> "failedZ"
    [] pc = "giveUp" -> "giveUpZ"
    [] pc = "retry" -> "retryZ"
    [] pc \in {"completedZ", "failedZ", "retryZ"} -> "release"
    [] OTHER -> "scan"

\* The catch block of executeUnderLease: final at the last attempt, and when
\* the retry would not fit before the next fire.
AfterError(t) == {"failed"} \union IF th[t].att < MaxAttempts THEN {"retry"} ELSE {}

Continue(t, pc) == IF pc = "scan" THEN Scan(t, th[t].todo) ELSE Goto(t, pc)

\* Once markRunning has resolved the handler is called: an attempt has begun.
Counts(t) ==
  IF th[t].pc = "mark" /\ begun[th[t].run] < MaxAttempts
  THEN begun' = [begun EXCEPT ![th[t].run] = @ + 1]
  ELSE UNCHANGED begun

Written(t) ==
  /\ Write(t)
  /\ Continue(t, Then(th[t].pc))
  /\ Counts(t)
  /\ UNCHANGED <<fire, lease, pod, zombies, issued, expired, faults, lapses>>

\* A status write rejects, with or without effect.  A failing markCompleted is
\* caught together with the handler's own errors.
WriteFails(t) ==
  /\ faults < MaxFaults
  /\ th[t].pc \in {"mark", "giveUp", "giveUpZ", "cleanup"} \union Writing
  /\ Write(t) \/ UNCHANGED <<hash, zset, settled>>
  /\ CASE th[t].pc \in {"completed", "completedZ"} -> \E pc \in AfterError(t) : Goto(t, pc)
       [] th[t].pc \in Holding \ {"completed", "completedZ"} -> Goto(t, "release")
       [] OTHER -> Scan(t, th[t].todo)
  /\ faults' = faults + 1
  /\ UNCHANGED <<fire, lease, pod, zombies, issued, expired, begun, lapses>>

\* HGETALL, EXISTS or the lease call rejects: the candidate is skipped.  A
\* lease whose reply is lost stays until its TTL runs out or redlock's own
\* clean-up deletes it.
ReadFails(t) ==
  /\ faults < MaxFaults
  /\ Alive(t[1])
  /\ \/ th[t].pc = "scan" /\ \E r \in th[t].todo : Scan(t, th[t].todo \ {r})
     \/ th[t].pc \in {"exists", "acquire"} /\ Scan(t, th[t].todo)
  /\ \/ UNCHANGED lease
     \/ /\ th[t].pc = "acquire"
        /\ lease[th[t].run] = NoTick
        /\ lease' = [lease EXCEPT ![th[t].run] = t]
  /\ faults' = faults + 1
  /\ UNCHANGED <<fire, hash, zset, pod, zombies, history, lapses>>

HandlerReturns(t) ==
  /\ th[t].pc = "handler"
  /\ Goto(t, "completed")
  /\ UNCHANGED <<fire, hash, zset, lease, pod, zombies, history, faults, lapses>>

HandlerThrows(t) ==
  /\ th[t].pc = "handler"
  /\ \E pc \in AfterError(t) : Goto(t, pc)
  /\ UNCHANGED <<fire, hash, zset, lease, pod, zombies, history, faults, lapses>>

\* The timeout wins the race: the run is failed for good and the handler runs
\* on as a zombie.
HandlerTimesOut(t) ==
  /\ th[t].pc = "handler"
  /\ Goto(t, "failed")
  /\ zombies' = zombies \union {<<t[1], th[t].run>>}
  /\ UNCHANGED <<fire, hash, zset, lease, pod, history, faults, lapses>>

ZombieEnds(p, r) ==
  /\ <<p, r>> \in zombies
  /\ zombies' = zombies \ {<<p, r>>}
  /\ UNCHANGED <<fire, hash, zset, lease, pod, th, history, faults, lapses>>

\* redlock.using() releases with compare-and-delete; the loop goes on.
Release(t) ==
  LET r == th[t].run IN
  /\ th[t].pc = "release"
  /\ lease' = IF lease[r] = t THEN [lease EXCEPT ![r] = NoTick] ELSE lease
  /\ Scan(t, th[t].todo)
  /\ UNCHANGED <<fire, hash, zset, pod, zombies, history, faults, lapses>>

\* The release rejects; Lock.release swallows it and the TTL will do.
ReleaseFails(t) ==
  /\ faults < MaxFaults
  /\ th[t].pc = "release"
  /\ Scan(t, th[t].todo)
  /\ faults' = faults + 1
  /\ UNCHANGED <<fire, hash, zset, lease, pod, zombies, history, lapses>>

-----------------------------------------------------------------------------
(* Shutdown and crashes *)

\* stop() clears the timers and takes a copy of inFlight to wait for.
Stop(p) ==
  /\ phase[p] = "up"
  /\ phase' = [phase EXCEPT ![p] = "draining"]
  /\ th' = [t \in Threads |->
              IF t[1] = p /\ InFlight(t) THEN [th[t] EXCEPT !.awaited = TRUE] ELSE th[t]]
  /\ UNCHANGED <<fire, hash, zset, lease, last, enq, zombies, history, faults, lapses>>

\* Every run of that copy has settled: stop() resolves.
StopResolves(p) ==
  /\ phase[p] = "draining"
  /\ \A k \in Ticks : ~th[<<p, k>>].awaited
  /\ phase' = [phase EXCEPT ![p] = "down"]
  /\ UNCHANGED <<fire, hash, zset, lease, last, enq, th, zombies, history, faults, lapses>>

DrainTimeout(p) ==
  /\ phase[p] = "draining"
  /\ \E k \in Ticks : th[<<p, k>>].awaited
  /\ phase' = [phase EXCEPT ![p] = "timedOut"]
  /\ UNCHANGED <<fire, hash, zset, lease, last, enq, th, zombies, history, faults, lapses>>

\* The process is gone, and what it was doing with it.
Vanish(p, how) ==
  /\ phase' = [phase EXCEPT ![p] = how]
  /\ th' = [t \in Threads |-> IF t[1] = p THEN Idle ELSE th[t]]
  /\ enq' = [enq EXCEPT ![p] = NoRun]
  /\ zombies' = {z \in zombies : z[1] # p}
  /\ UNCHANGED <<fire, hash, zset, lease, last, history, faults, lapses>>

\* The onClose hook that awaited stop() is followed by process.exit().
Exit(p) == phase[p] \in {"down", "timedOut"} /\ Vanish(p, "exited")

Crash(p) == phase[p] \in {"up", "draining"} /\ Vanish(p, "dead")

-----------------------------------------------------------------------------
(* Time in Redis *)

\* A lease runs out; redlock extends it as long as its routine has not ended.
LeaseExpires(r) ==
  /\ lease[r] # NoTick
  /\ ~Executes(lease[r], r)
  /\ lease' = [lease EXCEPT ![r] = NoTick]
  /\ UNCHANGED <<fire, hash, zset, pod, th, zombies, history, faults, lapses>>

\* The extension of a live holder comes too late: its abort signal is not
\* passed to the handler, which goes on.
LeaseLapses(r) ==
  /\ lapses < MaxLapses
  /\ lease[r] # NoTick
  /\ Executes(lease[r], r)
  /\ lease' = [lease EXCEPT ![r] = NoTick]
  /\ th' = [th EXCEPT ![lease[r]] = [th[lease[r]] EXCEPT !.lapsed = TRUE]]
  /\ lapses' = lapses + 1
  /\ UNCHANGED <<fire, hash, zset, pod, zombies, history, faults>>

\* The TTL of a hash runs out.  A nameless hash has none.
HashExpires(r) ==
  /\ r \in Mortal
  /\ status[r] # "absent"
  /\ r \notin nameless
  /\ status' = [status EXCEPT ![r] = "absent"]
  /\ attempts' = [attempts EXCEPT ![r] = 0]
  /\ young' = young \ {r}
  /\ expired' = expired \union {r}
  /\ UNCHANGED <<fire, nameless, zset, lease, pod, th, zombies, issued, settled, begun, faults, lapses>>

Ages(r) ==
  /\ r \in young
  /\ young' = young \ {r}
  /\ UNCHANGED <<fire, status, attempts, nameless, zset, lease, pod, th, zombies, history, faults, lapses>>

BackoffElapses(r) ==
  /\ r \in backoff
  /\ backoff' = backoff \ {r}
  /\ UNCHANGED <<fire, hash, pending, lease, pod, th, zombies, history, faults, lapses>>

-----------------------------------------------------------------------------

\* What a tick does as long as Redis answers and handlers end.
Step(t) ==
  \/ \E r \in Runs : Candidate(t, r)
  \/ LeaseExists(t)
  \/ Acquire(t)
  \/ Written(t)
  \/ Release(t)

PodNext(p) ==
  \/ Start(p) \/ EnqueueTick(p) \/ Enqueue(p) \/ EnqueueFails(p)
  \/ Stop(p) \/ StopResolves(p) \/ DrainTimeout(p) \/ Exit(p) \/ Crash(p)

TickNext(t) ==
  \/ ProcessTick(t) \/ Step(t)
  \/ HandlerReturns(t) \/ HandlerThrows(t) \/ HandlerTimesOut(t)
  \/ WriteFails(t) \/ ReadFails(t) \/ ReleaseFails(t)

TimeNext(r) ==
  \/ LeaseExpires(r) \/ LeaseLapses(r) \/ HashExpires(r)
  \/ Ages(r) \/ BackoffElapses(r)

Next ==
  \/ Fire
  \/ \E p \in Pods : PodNext(p)
  \/ \E t \in Threads : TickNext(t)
  \/ \E r \in Runs : TimeNext(r)
  \/ \E p \in Pods, r \in Runs : ZombieEnds(p, r)

Spec == Init /\ [][Next]_vars

\* Fairness: timers fire, Redis answers, every handler has a timeout, keys and
\* backoffs run out.  Failures and lapses are finitely many; nothing is
\* assumed of crashes, of stop() or of the schedule.
Fairness ==
  /\ \A p \in Pods :
       /\ WF_vars(EnqueueTick(p))
       /\ WF_vars(Enqueue(p))
       /\ WF_vars(\E k \in Ticks : ProcessTick(<<p, k>>))
  /\ \A t \in Threads : WF_vars(Step(t)) /\ WF_vars(HandlerTimesOut(t))
  /\ \A r \in Runs :
       /\ WF_vars(LeaseExpires(r))
       /\ WF_vars(HashExpires(r))
       /\ WF_vars(Ages(r))
       /\ WF_vars(BackoffElapses(r))

FairSpec == Spec /\ Fairness

-----------------------------------------------------------------------------
(* Properties *)

\* A tick that executes a run holds the run's lease, whatever other ticks do
\* with the lease of that run, until its own lease has run out under it.
LeaseCoversRun ==
  \A t \in Threads, r \in Runs :
    Executes(t, r) /\ ~th[t].lapsed => lease[r] = t

\* Two ticks execute the same run only after one of them lost its lease.
OneTickPerRun ==
  \A t, u \in Threads, r \in Runs :
    t # u /\ Executes(t, r) /\ Executes(u, r) => th[t].lapsed \/ th[u].lapsed

\* A run that was enqueued and has not been marked completed or failed for
\* good can be found by a process tick, whoever crashes or fails between the
\* two writes of a status change; only its TTL takes it away.
NoDroppedRun == issued \ (settled \union expired) \subseteq pending

\* "multiple pods racing to enqueue the same fire produce exactly one run":
\* a run that was enqueued is never enqueued again, unless its TTL has run out.
OneRunPerFire == [][(issued \ expired) \intersect (young' \ young) = {}]_vars

\* How far a run has come, and the ticks that execute it under its lease.
Stage(r) ==
  CASE r \in expired -> "lost"
    [] r \in settled \ expired -> "settled"
    [] r \in issued \ (settled \union expired) -> "due"
    [] OTHER -> "new"

Crew(r) == {t \in Threads : Executes(t, r) /\ ~th[t].lapsed}

J == INSTANCE Job WITH
  Workers <- Threads,
  stage <- [r \in Runs |-> Stage(r)],
  crew <- [r \in Runs |-> Crew(r)],
  mishaps <- faults + lapses

\* Over two Redis structures written one after the other, leases and crashes,
\* the manager keeps the promise of Job: in particular no run is settled that
\* nobody attempted, and none given up before its attempts were made, although
\* attempts are counted from a hash that was read before the lease.
JobSpec == J!Spec

\* Every run found in the zset is settled, or is lost to its TTL, as long as
\* some pod keeps running: crashed attempts are taken over, failed ones retried.
EveryRunSettles ==
  \A r \in Runs :
    r \in pending ~>
      r \in settled \union expired \/ \A p \in Pods : phase[p] # "up"

\* "we only ever hand a 'ready, attempt-eligible' run to executeUnderLease":
\* the tick that has just got the lease finds the run still to be done.
ReadyWhenExecuted ==
  [][\A t \in Threads :
       th[t].pc = "acquire" /\ th'[t].pc = "mark" =>
         status[th[t].run] \in {"pending", "running"}]_vars

=============================================================================
