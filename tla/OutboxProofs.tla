---------------------------- MODULE OutboxProofs ----------------------------
(***************************************************************************)
(* Safety of the outbox, for any number of logs and workers, any batch     *)
(* size, and any number of crashes, failing calls and lost job locks, up   *)
(* to the first claim that gets too old under a live worker; and what such *)
(* claims may cost, the two bounds on the attempts of a log, for any       *)
(* number of them.                                                         *)
(*                                                                         *)
(* The argument of the second part is an account.  Each claim pays for one *)
(* way back to the claimable rows, by the commit of its worker or by its   *)
(* recovery once the worker is gone, and each claim that got too old for   *)
(* one more.                                                               *)
(***************************************************************************)
EXTENDS Outbox, FiniteSetTheorems, TLAPS

\* A worker that goes on has a batch left.
BatchLeft ==
  \A w \in Workers : wpc[w] \in {"claiming", "sending"} => rounds[w] < MaxBatches

\* DeliveredIsFinal, of one step.
DeliveredStays ==
  overruns' = 0 =>
    \A l \in Logs : status[l] = "delivered" => status'[l] \in {"delivered", "pruned"}

IInv == TypeOK /\ BatchLeft /\ SoleClaim

-----------------------------------------------------------------------------

LEMMA InitIInv == Init => IInv
  BY OutboxAssumption
  DEF Init, IInv, TypeOK, BatchLeft, SoleClaim, Statuses, Callers

\* Rows and claims are what SoleClaim speaks of.
LEMMA RowsUntouched ==
  ASSUME IInv, UNCHANGED <<rowVars, claim, seen, overruns>>
  PROVE  SoleClaim'
  BY DEF IInv, SoleClaim, rowVars

\* A worker that leaves drops its claim, and nobody else's.
LEMMA Leaving ==
  ASSUME IInv, NEW w \in Workers, NEW to \in {"idle", "claiming", "returning"}, Leave(w, to)
  PROVE  /\ wpc' \in [Workers -> {"idle", "claiming", "sending", "returning"}]
         /\ claim' \in [Workers -> SUBSET Logs] /\ ok' \in [Workers -> SUBSET Logs]
         /\ bad' \in [Workers -> SUBSET Logs] /\ seen' \in [Workers -> [Logs -> Nat]]
         /\ wpc'[w] = to /\ claim'[w] = {}
         /\ \A v \in Workers \ {w} : wpc'[v] = wpc[v] /\ claim'[v] = claim[v] /\ seen'[v] = seen[v]
  BY DEF IInv, TypeOK, Leave

\* The steps that leave the rows and the claims alone.
LEMMA CallerStepIInv ==
  ASSUME IInv, NEW c \in Callers, CallerStep(c)
  PROVE  IInv'
<1>1. CASE SetNX(c)
  <2>1. TypeOK'
    BY <1>1 DEF IInv, TypeOK, SetNX, WakeUpDone, bounds, rowVars, workerVars
  <2> QED
    BY <1>1, <2>1, RowsUntouched DEF IInv, BatchLeft, SetNX, bounds, rowVars, workerVars
<1>2. CASE Add(c)
  <2>1. TypeOK'
    BY <1>2 DEF IInv, TypeOK, Add, WakeUpDone, bounds, rowVars, workerVars
  <2> QED
    BY <1>2, <2>1, RowsUntouched DEF IInv, BatchLeft, Add, bounds, rowVars, workerVars
<1>3. CASE WakeUpFails(c)
  <2>1. TypeOK'
    BY <1>3, OutboxAssumption DEF IInv, TypeOK, WakeUpFails, Fail, WakeUpDone, wakeVars, rowVars, workerVars
  <2> QED
    BY <1>3, <2>1, RowsUntouched DEF IInv, BatchLeft, WakeUpFails, Fail, rowVars, workerVars
<1>4. CASE CallerFails(c)
  <2>1. TypeOK'
    BY <1>4, OutboxAssumption DEF IInv, TypeOK, CallerFails, Fail, wakeVars, rowVars, workerVars
  <2> QED
    BY <1>4, <2>1, RowsUntouched DEF IInv, BatchLeft, CallerFails, Fail, rowVars, workerVars
<1> QED BY <1>1, <1>2, <1>3, <1>4 DEF CallerStep

\* drainStream, step by step.
LEMMA ClaimIInv ==
  ASSUME IInv, NEW w \in Workers, Claim(w)
  PROVE  IInv'
<1>1. PICK S \in SUBSET Claimable :
        /\ status' = [l \in Logs |-> IF l \in S THEN "processing" ELSE status[l]]
        /\ claim' = [claim EXCEPT ![w] = S]
        /\ seen' = [seen EXCEPT ![w] = [l \in Logs |-> IF l \in S THEN attempts[l] ELSE 0]]
        /\ claims' = [l \in Logs |-> IF l \in S THEN claims[l] + 1 ELSE claims[l]]
  BY DEF Claim
<1>2. UNCHANGED <<attempts, overruns, rounds>> /\ wpc' = [wpc EXCEPT ![w] = "sending"] /\ wpc[w] = "claiming"
  BY DEF Claim, bounds
<1>3. S \subseteq Logs /\ \A l \in S : status[l] \in {"pending", "retry"}
  BY DEF Claimable
<1>4. TypeOK'
  BY <1>1, <1>2, <1>3 DEF Claim, IInv, TypeOK, Statuses, bounds, wakeVars
<1>5. BatchLeft'
  BY <1>2 DEF IInv, BatchLeft, TypeOK
<1>6. SoleClaim'
  <2> SUFFICES ASSUME overruns = 0, NEW v \in Workers, NEW l \in claim'[v]
               PROVE  /\ status'[l] = "processing"
                      /\ attempts'[l] = seen'[v][l]
                      /\ \A u \in Workers \ {v} : l \notin claim'[u]
    BY <1>2 DEF SoleClaim
  <2>0. l \in Logs
    BY <1>4 DEF TypeOK
  <2>1. \A u \in Workers : claim'[u] = IF u = w THEN S ELSE claim[u]
    BY <1>1 DEF IInv, TypeOK
  <2>2. \A u \in Workers \ {w} : seen'[u] = seen[u]
    BY <1>1 DEF IInv, TypeOK
  <2>3. \A u \in Workers : \A k \in claim[u] : status[k] = "processing"
    BY DEF IInv, SoleClaim
  <2>4. CASE v = w
    <3>1. l \in S
      BY <2>1, <2>4
    <3>2. \A u \in Workers \ {v} : l \notin claim'[u]
      BY <1>3, <2>1, <2>3, <2>4, <3>1
    <3>3. seen'[v][l] = attempts[l]
      BY <1>1, <2>0, <2>4, <3>1 DEF IInv, TypeOK
    <3> QED BY <1>1, <1>2, <2>0, <3>1, <3>2, <3>3
  <2>5. CASE v # w
    <3>1. l \in claim[v] /\ status[l] = "processing"
      BY <2>1, <2>3, <2>5
    <3>2. l \notin S
      BY <1>3, <3>1
    <3>3. \A u \in Workers \ {v} : l \notin claim'[u]
      BY <2>1, <3>1, <3>2 DEF IInv, SoleClaim
    <3>4. attempts[l] = seen[v][l]
      BY <3>1 DEF IInv, SoleClaim
    <3> QED BY <1>1, <1>2, <2>0, <2>2, <2>5, <3>1, <3>2, <3>3, <3>4
  <2> QED BY <2>4, <2>5
<1> QED BY <1>4, <1>5, <1>6 DEF IInv

LEMMA CommitIInv ==
  ASSUME IInv, NEW w \in Workers, Commit(w)
  PROVE  IInv' /\ DeliveredStays
<1> DEFINE
  delivered == {l \in ok[w] : Exists(l)}
  dropped == {l \in bad[w] : Exists(l) /\ LastAttempt(seen[w][l])}
  retried == {l \in bad[w] : Exists(l) /\ ~LastAttempt(seen[w][l])}
  to == IF bad[w] # {} \/ LastBatch(w) THEN "returning" ELSE "claiming"
<1>1. /\ status' = [l \in Logs |->
             IF l \in delivered THEN "delivered"
             ELSE IF l \in dropped THEN "dropped"
             ELSE IF l \in retried THEN "backoff" ELSE status[l]]
      /\ attempts' = [l \in Logs |-> IF l \in retried THEN attempts[l] + 1 ELSE attempts[l]]
      /\ Leave(w, to)
      /\ rounds' = [rounds EXCEPT ![w] = @ + 1]
      /\ wpc[w] = "sending"
      /\ claim[w] = ok[w] \union bad[w]
      /\ UNCHANGED <<entry, caller, key, job, lock, claims, overruns, faults>>
  BY DEF Commit, wakeVars, bounds
<1>2. to \in {"idle", "claiming", "returning"}
  OBVIOUS
<1>3. claim[w] \subseteq Logs /\ rounds[w] \in 0 .. MaxBatches /\ rounds[w] < MaxBatches
  BY <1>1 DEF IInv, TypeOK, BatchLeft
<1>4. TypeOK'
  BY <1>1, <1>2, <1>3, Leaving, OutboxAssumption DEF IInv, TypeOK, Statuses
<1>5. BatchLeft'
  <2>1. wpc'[w] = to /\ \A v \in Workers \ {w} : wpc'[v] = wpc[v] /\ rounds'[v] = rounds[v]
    BY <1>1, <1>2, Leaving DEF IInv, TypeOK
  <2>2. to = "claiming" => rounds'[w] < MaxBatches
    <3>1. rounds'[w] = rounds[w] + 1
      BY <1>1 DEF IInv, TypeOK
    <3>2. to = "claiming" => rounds[w] + 1 # MaxBatches
      BY DEF LastBatch
    <3> HIDE DEF to
    <3> QED BY <1>3, <3>1, <3>2, OutboxAssumption
  <2>3. to # "sending"
    OBVIOUS
  <2> QED BY <2>1, <2>2, <2>3 DEF IInv, BatchLeft
<1>6. ASSUME overruns = 0, NEW l \in claim[w]
      PROVE  l \in Logs /\ status[l] = "processing" /\ attempts[l] = seen[w][l]
  BY <1>3, <1>6 DEF IInv, SoleClaim
<1>7. \A l \in Logs \ claim[w] : status'[l] = status[l] /\ attempts'[l] = attempts[l]
  BY <1>1
<1>8. SoleClaim'
  <2> SUFFICES ASSUME overruns = 0, NEW v \in Workers, NEW l \in claim'[v]
               PROVE  /\ status'[l] = "processing"
                      /\ attempts'[l] = seen'[v][l]
                      /\ \A u \in Workers \ {v} : l \notin claim'[u]
    BY <1>1 DEF SoleClaim
  <2>1. /\ claim'[w] = {}
        /\ \A u \in Workers \ {w} : claim'[u] = claim[u] /\ seen'[u] = seen[u]
    BY <1>1, <1>2, Leaving
  <2>2. v # w /\ l \in claim[v] /\ l \in Logs
    BY <2>1 DEF IInv, TypeOK
  <2>3. l \notin claim[w] /\ status[l] = "processing" /\ attempts[l] = seen[v][l]
    BY <2>2 DEF IInv, SoleClaim
  <2>4. \A u \in Workers \ {v} : l \notin claim'[u]
    BY <2>1, <2>2 DEF IInv, SoleClaim
  <2> QED BY <1>7, <2>1, <2>2, <2>3, <2>4
<1>9. DeliveredStays
  <2> SUFFICES ASSUME overruns = 0, NEW l \in Logs, status[l] = "delivered"
               PROVE  status'[l] = "delivered"
    BY <1>1 DEF DeliveredStays
  <2>1. l \notin claim[w]
    BY <1>6
  <2> QED BY <1>7, <2>1
<1> QED BY <1>4, <1>5, <1>8, <1>9 DEF IInv

LEMMA WorkerStepIInv ==
  ASSUME IInv, NEW w \in Workers, WorkerStep(w)
  PROVE  IInv' /\ DeliveredStays
<1> USE OutboxAssumption
<1>1. CASE Start(w)
  <2>1. TypeOK'
    BY <1>1 DEF IInv, TypeOK, Start, bounds, rowVars
  <2>2. BatchLeft'
    BY <1>1 DEF IInv, TypeOK, BatchLeft, Start
  <2>3. SoleClaim'
    BY <1>1, RowsUntouched DEF Start, bounds, rowVars
  <2>4. DeliveredStays
    BY <1>1 DEF DeliveredStays, Start, rowVars
  <2> QED BY <2>1, <2>2, <2>3, <2>4 DEF IInv
<1>2. CASE Claim(w)
  <2>1. IInv'
    BY <1>2, ClaimIInv
  <2>2. PICK S \in SUBSET Claimable :
          status' = [l \in Logs |-> IF l \in S THEN "processing" ELSE status[l]]
    BY <1>2 DEF Claim
  <2>3. DeliveredStays
    BY <2>2 DEF DeliveredStays, Claimable
  <2> QED BY <2>1, <2>3
<1>3. CASE NothingDue(w)
  <2>1. TypeOK'
    BY <1>3 DEF IInv, TypeOK, NothingDue, bounds, rowVars, wakeVars
  <2>2. BatchLeft'
    BY <1>3 DEF IInv, TypeOK, BatchLeft, NothingDue
  <2> QED
    BY <1>3, <2>1, <2>2, RowsUntouched DEF IInv, DeliveredStays, NothingDue, bounds, rowVars
<1>4. CASE \E l \in Logs : SendRow(w, l)
  <2>1. TypeOK'
    <3>1. PICK l \in Logs : SendRow(w, l)
      BY <1>4
    <3>2. ok' \in [Workers -> SUBSET Logs] /\ bad' \in [Workers -> SUBSET Logs]
      <4>1. /\ ok \in [Workers -> SUBSET Logs] /\ bad \in [Workers -> SUBSET Logs]
            /\ \/ ok' = [ok EXCEPT ![w] = @ \union {l}] /\ bad' = bad
               \/ bad' = [bad EXCEPT ![w] = @ \union {l}] /\ ok' = ok
        BY <3>1 DEF IInv, TypeOK, SendRow
      <4> QED BY <4>1
    <3>3. UNCHANGED <<entry, caller, key, job, lock, status, attempts, wpc, claim, seen, rounds,
                      claims, faults, overruns>>
      BY <3>1 DEF SendRow, bounds, rowVars, wakeVars
    <3> QED
      BY <3>2, <3>3 DEF IInv, TypeOK
  <2>2. BatchLeft'
    BY <1>4 DEF IInv, BatchLeft, SendRow
  <2> QED
    BY <1>4, <2>1, <2>2, RowsUntouched DEF IInv, DeliveredStays, SendRow, bounds, rowVars
<1>5. CASE Commit(w)
  BY <1>5, CommitIInv
<1>6. CASE Return(w)
  <2>1. TypeOK'
    BY <1>6 DEF IInv, TypeOK, Return, RemoveJob, bounds, rowVars
  <2>2. BatchLeft'
    BY <1>6 DEF IInv, TypeOK, BatchLeft, Return
  <2> QED
    BY <1>6, <2>1, <2>2, RowsUntouched DEF IInv, DeliveredStays, Return, bounds, rowVars
<1>7. CASE DrainFails(w) \/ Crash(w)
  <2>1. /\ Leave(w, "idle") /\ rounds' = [rounds EXCEPT ![w] = 0]
        /\ UNCHANGED <<entry, caller, key, status, attempts, claims, overruns>>
        /\ faults' \in 0 .. MaxFaults
    BY <1>7 DEF DrainFails, Crash, Fail, rowVars, IInv, TypeOK
  <2>2. job' \in {"none", "delayed", "waiting", "active"}
        /\ lock' \in IF job' = "active" THEN Workers \union {NoWorker} ELSE {NoWorker}
    BY <1>7 DEF DrainFails, Crash, RemoveJob, IInv, TypeOK
  <2>3. TypeOK'
    BY <2>1, <2>2, Leaving DEF IInv, TypeOK
  <2>4. BatchLeft'
    BY <2>1, Leaving DEF IInv, TypeOK, BatchLeft
  <2>5. SoleClaim'
    <3>1. /\ claim'[w] = {}
          /\ \A v \in Workers \ {w} : claim'[v] = claim[v] /\ seen'[v] = seen[v]
      BY <2>1, Leaving
    <3> QED BY <2>1, <3>1 DEF IInv, SoleClaim
  <2>6. DeliveredStays
    BY <2>1 DEF DeliveredStays
  <2> QED BY <2>3, <2>4, <2>5, <2>6 DEF IInv
<1>8. CASE LockLost(w)
  <2>1. TypeOK'
    BY <1>8 DEF IInv, TypeOK, LockLost, Fail, rowVars, workerVars
  <2> QED
    BY <1>8, <2>1, RowsUntouched
    DEF IInv, BatchLeft, DeliveredStays, LockLost, Fail, rowVars, workerVars
<1> QED BY <1>1, <1>2, <1>3, <1>4, <1>5, <1>6, <1>7, <1>8 DEF WorkerStep

\* Collection, backoff, pruning, and the sweeper.
LEMMA RowStepIInv ==
  ASSUME IInv, NEW l \in Logs, Push(l) \/ BackoffEnds(l) \/ Prune(l)
  PROVE  IInv' /\ DeliveredStays
<1>1. CASE Push(l)
  <2>1. TypeOK'
    BY <1>1 DEF IInv, TypeOK, Push, bounds, rowVars, wakeVars, workerVars
  <2> QED
    BY <1>1, <2>1, RowsUntouched
    DEF IInv, BatchLeft, DeliveredStays, Push, bounds, rowVars, workerVars
<1>2. CASE BackoffEnds(l)
  <2>1. TypeOK'
    BY <1>2 DEF IInv, TypeOK, Statuses, BackoffEnds, bounds, wakeVars, workerVars
  <2>2. SoleClaim'
    BY <1>2 DEF IInv, TypeOK, SoleClaim, BackoffEnds, bounds, workerVars
  <2> QED
    BY <1>2, <2>1, <2>2 DEF IInv, TypeOK, BatchLeft, DeliveredStays, BackoffEnds, workerVars
<1>3. CASE Prune(l)
  <2>1. TypeOK'
    BY <1>3 DEF IInv, TypeOK, Statuses, Prune, bounds, wakeVars, workerVars
  <2>2. SoleClaim'
    BY <1>3 DEF IInv, TypeOK, SoleClaim, Prune, bounds, workerVars
  <2> QED
    BY <1>3, <2>1, <2>2 DEF IInv, TypeOK, BatchLeft, DeliveredStays, Prune, workerVars
<1> QED BY <1>1, <1>2, <1>3

LEMMA CollectIInv ==
  ASSUME IInv, Collect
  PROVE  IInv' /\ DeliveredStays
<1> DEFINE new == {l \in Logs : entry[l] = "queued" /\ status[l] = "absent"}
<1>1. /\ status' = [l \in Logs |-> IF l \in new THEN "pending" ELSE status[l]]
      /\ entry' = [l \in Logs |-> IF entry[l] = "queued" THEN "collected" ELSE entry[l]]
      /\ caller' = [caller EXCEPT !["ingest"] = "setnx"]
      /\ UNCHANGED <<wakeVars, attempts, workerVars, claims, bounds>>
  BY DEF Collect
<1>2. TypeOK'
  BY <1>1 DEF IInv, TypeOK, Statuses, bounds, wakeVars, workerVars
<1>3. SoleClaim'
  BY <1>1 DEF IInv, TypeOK, SoleClaim, bounds, workerVars
<1> QED
  BY <1>1, <1>2, <1>3 DEF IInv, TypeOK, BatchLeft, DeliveredStays, workerVars

LEMMA RecoverIInv ==
  ASSUME IInv, NEW stale \in SUBSET Logs, Recover(stale)
  PROVE  IInv' /\ DeliveredStays
<1> USE OutboxAssumption
<1> DEFINE
  dropped == {l \in stale : LastAttempt(attempts[l])}
  retried == stale \ dropped
  held == stale \intersect UNION {claim[w] : w \in Workers}
<1>1. /\ \A l \in stale : status[l] = "processing"
      /\ overruns' = overruns + Cardinality(held)
      /\ overruns' <= MaxOverruns
      /\ status' = [l \in Logs |->
           IF l \in dropped THEN "dropped" ELSE IF l \in retried THEN "retry" ELSE status[l]]
      /\ attempts' = [l \in Logs |-> IF l \in retried THEN attempts[l] + 1 ELSE attempts[l]]
      /\ caller' = [caller EXCEPT !["sweep"] = "find"]
      /\ UNCHANGED <<entry, wakeVars, workerVars, claims, faults>>
  BY DEF Recover
<1>2. IsFiniteSet(held) /\ Cardinality(held) \in Nat /\ (Cardinality(held) = 0 <=> held = {})
  BY FS_Subset, FS_CardinalityType, FS_EmptySet
<1>3. overruns' \in 0 .. MaxOverruns /\ (overruns' = 0 => overruns = 0 /\ held = {})
  <2> DEFINE k == Cardinality(held)
  <2>1. k \in Nat /\ overruns' = overruns + k /\ overruns' <= MaxOverruns /\ overruns \in Nat
    BY <1>1, <1>2 DEF IInv, TypeOK
  <2> HIDE DEF k
  <2>2. overruns' \in 0 .. MaxOverruns /\ (overruns' = 0 => overruns = 0 /\ k = 0)
    BY <2>1
  <2> QED BY <1>2, <2>2 DEF k
<1>4. TypeOK'
  <2>1. status' \in [Logs -> Statuses]
    BY <1>1 DEF IInv, TypeOK, Statuses
  <2>2. attempts' \in [Logs -> Nat]
    BY <1>1 DEF IInv, TypeOK
  <2>3. caller' \in [Callers -> {"idle", "find", "setnx", "add", "trim"}]
    BY <1>1 DEF IInv, TypeOK
  <2>4. UNCHANGED <<entry, key, job, lock, wpc, claim, seen, ok, bad, rounds, claims, faults>>
    BY <1>1 DEF wakeVars, workerVars
  <2> QED BY <1>3, <2>1, <2>2, <2>3, <2>4 DEF IInv, TypeOK
<1>5. \A l \in Logs \ stale : status'[l] = status[l] /\ attempts'[l] = attempts[l]
  BY <1>1
<1>6. SoleClaim'
  <2> SUFFICES ASSUME overruns' = 0, NEW v \in Workers, NEW l \in claim[v]
               PROVE  /\ status'[l] = "processing"
                      /\ attempts'[l] = seen[v][l]
                      /\ \A u \in Workers \ {v} : l \notin claim[u]
    BY <1>1 DEF SoleClaim, workerVars
  <2>1. l \in Logs \ stale
    BY <1>3 DEF IInv, TypeOK
  <2> QED BY <1>3, <1>5, <2>1 DEF IInv, SoleClaim
<1>7. DeliveredStays
  BY <1>1, <1>5 DEF DeliveredStays
<1>8. BatchLeft'
  BY <1>1 DEF IInv, BatchLeft, workerVars
<1> QED BY <1>4, <1>6, <1>7, <1>8 DEF IInv

LEMMA NextIInv == IInv /\ [Next]_vars => IInv' /\ [DeliveredStays]_vars
<1> SUFFICES ASSUME IInv, [Next]_vars
             PROVE  IInv' /\ (DeliveredStays \/ UNCHANGED vars)
  OBVIOUS
<1>1. CASE \E l \in Logs : Push(l) \/ BackoffEnds(l) \/ Prune(l)
  BY <1>1, RowStepIInv
<1>2. CASE Collect
  BY <1>2, CollectIInv
<1>3. CASE Trim
  <2>1. TypeOK'
    BY <1>3 DEF IInv, TypeOK, Trim, bounds, rowVars, wakeVars, workerVars
  <2> QED
    BY <1>3, <2>1, RowsUntouched
    DEF IInv, BatchLeft, DeliveredStays, Trim, bounds, rowVars, workerVars
<1>4. CASE FindOverdue
  <2>1. TypeOK'
    BY <1>4 DEF IInv, TypeOK, FindOverdue, bounds, rowVars, wakeVars, workerVars
  <2> QED
    BY <1>4, <2>1, RowsUntouched
    DEF IInv, BatchLeft, DeliveredStays, FindOverdue, bounds, rowVars, workerVars
<1>5. CASE \E stale \in SUBSET Logs : Recover(stale)
  BY <1>5, RecoverIInv
<1>6. CASE \E c \in Callers : CallerStep(c)
  <2>1. UNCHANGED status
    BY <1>6 DEF CallerStep, SetNX, Add, WakeUpFails, CallerFails, rowVars
  <2> QED BY <1>6, <2>1, CallerStepIInv DEF DeliveredStays
<1>7. CASE KeyExpires \/ JobDue \/ JobStalled
  <2>1. TypeOK'
    BY <1>7 DEF IInv, TypeOK, KeyExpires, JobDue, JobStalled, bounds, rowVars, workerVars
  <2> QED
    BY <1>7, <2>1, RowsUntouched
    DEF IInv, BatchLeft, DeliveredStays, KeyExpires, JobDue, JobStalled, bounds, rowVars, workerVars
<1>8. CASE \E w \in Workers : WorkerStep(w)
  BY <1>8, WorkerStepIInv
<1>9. CASE UNCHANGED vars
  <2>1. TypeOK'
    BY <1>9 DEF IInv, TypeOK, vars, bounds, rowVars, wakeVars, workerVars
  <2> QED
    BY <1>9, <2>1, RowsUntouched DEF IInv, BatchLeft, vars, bounds, rowVars, workerVars
<1> QED BY <1>1, <1>2, <1>3, <1>4, <1>5, <1>6, <1>7, <1>8, <1>9 DEF Next

-----------------------------------------------------------------------------

THEOREM Invariance == Spec => []IInv
<1>1. Init => IInv
  BY InitIInv
<1>2. IInv /\ [Next]_vars => IInv'
  BY NextIInv
<1> QED BY <1>1, <1>2, PTL DEF Spec

\* Every variable keeps its type; a job takes at most MAX_BATCHES_PER_JOB batches
\* and only an active job has a lock.
THEOREM Typing == Spec => []TypeOK
<1>1. IInv => TypeOK
  BY DEF IInv
<1> QED BY <1>1, Invariance, PTL

\* Two workers of one stream never have the same row, whatever is lost or dies,
\* and the outcome is committed to the row as it was claimed.
THEOREM Claims == Spec => []SoleClaim
<1>1. IInv => SoleClaim
  BY DEF IInv
<1> QED BY <1>1, Invariance, PTL

\* No step takes a delivered row back: it is never sent again.
THEOREM Finality == Spec => DeliveredIsFinal
<1>1. IInv /\ [Next]_vars => [DeliveredStays]_vars
  BY NextIInv
<1> QED BY <1>1, Invariance, PTL DEF Spec, DeliveredIsFinal, DeliveredStays

-----------------------------------------------------------------------------
(* The account of attempts *)

\* The workers that have the row, and those of them that would give it back.
Holders(l) == {w \in Workers : l \in claim[w]}
Early(l) == {w \in Holders(l) : ~LastAttempt(seen[w][l])}

\* The row was never claimed or may be claimed again.
Open(l) == status[l] \in {"absent", "pending", "retry", "backoff"}

\* No claim without an attempt that was counted before it.
Paid(l) ==
  /\ claims[l] <= attempts[l] + 1
  /\ Open(l) => claims[l] <= attempts[l]

\* What workers can still give back, and claims past the last attempt, are
\* covered by the claims that got too old.
Capped(l) ==
  /\ Cardinality(Early(l)) <= overruns + 1
  /\ Cardinality(Early(l)) + claims[l] <= MaxAttempts + overruns
  /\ Open(l) => /\ Cardinality(Early(l)) <= overruns
                /\ Cardinality(Early(l)) + claims[l] + 1 <= MaxAttempts + overruns

\* No attempt is counted that was not claimed or too old, and those of the
\* present holders are not counted yet.
Earned(l) ==
  /\ attempts[l] + Cardinality(Holders(l)) <= claims[l] + overruns
  /\ status[l] = "processing" => attempts[l] + 1 <= claims[l] + overruns
  /\ \A w \in Holders(l) : seen[w][l] + 1 <= claims[l] + overruns
  /\ status[l] = "dropped" => MaxAttempts <= claims[l] + overruns

Account(l) == Paid(l) /\ Capped(l) /\ Earned(l)

Accounts == \A l \in Logs : Account(l)

CInv == IInv /\ Accounts

-----------------------------------------------------------------------------
(* Counting workers *)

LEMMA Counts ==
  ASSUME NEW l \in Logs
  PROVE  /\ IsFiniteSet(Holders(l)) /\ Cardinality(Holders(l)) \in Nat
         /\ IsFiniteSet(Early(l)) /\ Cardinality(Early(l)) \in Nat
         /\ IsFiniteSet(Holders(l)') /\ Cardinality(Holders(l)') \in Nat
         /\ IsFiniteSet(Early(l)') /\ Cardinality(Early(l)') \in Nat
<1>1. /\ Holders(l) \subseteq Workers /\ Early(l) \subseteq Workers
      /\ Holders(l)' \subseteq Workers /\ Early(l)' \subseteq Workers
  BY DEF Holders, Early
<1> QED BY <1>1, OutboxAssumption, FS_Subset, FS_CardinalityType

LEMMA Fewer ==
  ASSUME NEW S, IsFiniteSet(S), NEW T, T \subseteq S
  PROVE  Cardinality(T) <= Cardinality(S)
  BY FS_Subset

\* A worker more, and a worker less.
LEMMA OneMore ==
  ASSUME NEW S, IsFiniteSet(S), NEW T, NEW w, T \subseteq S \union {w}
  PROVE  Cardinality(T) <= Cardinality(S) + 1
<1>1. IsFiniteSet(S \union {w})
      /\ Cardinality(S \union {w}) = IF w \in S THEN Cardinality(S) ELSE Cardinality(S) + 1
  BY FS_AddElement
<1>2. Cardinality(T) <= Cardinality(S \union {w}) /\ Cardinality(T) \in Nat
  BY <1>1, FS_Subset, FS_CardinalityType
<1> QED BY <1>1, <1>2, FS_CardinalityType

LEMMA OneLess ==
  ASSUME NEW S, IsFiniteSet(S), NEW w \in S, NEW T, T \subseteq S \ {w}
  PROVE  Cardinality(T) + 1 <= Cardinality(S)
<1>1. IsFiniteSet(S \ {w}) /\ Cardinality(S \ {w}) = Cardinality(S) - 1
  BY FS_RemoveElement
<1>2. Cardinality(T) <= Cardinality(S \ {w}) /\ Cardinality(T) \in Nat
  BY <1>1, FS_Subset, FS_CardinalityType
<1> QED BY <1>1, <1>2, FS_CardinalityType

-----------------------------------------------------------------------------
(* The account of one log in one step *)

\* Workers may drop the row, and claims of other rows get too old.
LEMMA RowKept ==
  ASSUME IInv, IInv', NEW l \in Logs, Account(l),
         status'[l] = status[l], attempts'[l] = attempts[l], claims'[l] = claims[l],
         \A w \in Holders(l)' : w \in Holders(l) /\ seen'[w][l] = seen[w][l],
         overruns <= overruns'
  PROVE  Account(l)'
<1>1. Holders(l)' \subseteq Holders(l)
  OBVIOUS
<1>2. Early(l)' \subseteq Early(l)
  BY DEF Early, LastAttempt
<1>3. Cardinality(Holders(l)') <= Cardinality(Holders(l)) /\ Cardinality(Early(l)') <= Cardinality(Early(l))
  BY <1>1, <1>2, Counts, Fewer
<1>4. /\ attempts[l] \in Nat /\ claims[l] \in Nat /\ overruns \in Nat /\ overruns' \in Nat
      /\ \A w \in Workers : seen[w][l] \in Nat
  BY DEF IInv, TypeOK
<1>5. Paid(l)'
  BY DEF Account, Paid, Open
<1>6. Capped(l)'
  BY <1>3, <1>4, Counts, OutboxAssumption DEF Account, Capped, Open
<1>7. Earned(l)'
  <2>1. \A w \in Holders(l)' : seen'[w][l] + 1 <= claims[l] + overruns'
    BY <1>1, <1>4 DEF Account, Earned, Holders
  <2> QED BY <1>3, <1>4, <2>1, Counts, OutboxAssumption DEF Account, Earned
<1> QED BY <1>5, <1>6, <1>7 DEF Account

\* Steps that touch no row and take no claim.
LEMMA RowsKept ==
  ASSUME CInv, IInv', UNCHANGED <<status, attempts, claim, seen, claims, overruns>>
  PROVE  Accounts'
<1> SUFFICES ASSUME NEW l \in Logs PROVE Account(l)'
  BY DEF Accounts
<1>1. \A w \in Holders(l)' : w \in Holders(l) /\ seen'[w][l] = seen[w][l]
  BY DEF Holders
<1>2. overruns <= overruns'
  BY DEF CInv, IInv, TypeOK
<1> QED BY <1>1, <1>2, RowKept DEF CInv, Accounts

\* A row changes its state with nothing counted: it is inserted, its backoff
\* ends, or it is pruned.
LEMMA RowMoves ==
  ASSUME CInv, IInv', UNCHANGED <<attempts, claim, seen, claims, overruns>>,
         \A l \in Logs : status'[l] # status[l] =>
           \/ status[l] \in {"absent", "backoff"} /\ status'[l] \in {"pending", "retry"}
           \/ status[l] = "delivered" /\ status'[l] = "pruned"
  PROVE  Accounts'
<1> SUFFICES ASSUME NEW l \in Logs PROVE Account(l)'
  BY DEF Accounts
<1>1. Holders(l)' = Holders(l) /\ Early(l)' = Early(l)
  BY DEF Holders, Early, LastAttempt
<1>2. CASE status'[l] = status[l]
  BY <1>1, <1>2, RowKept DEF CInv, Accounts, Holders, IInv, TypeOK
<1>3. CASE status'[l] # status[l]
  <2>1. /\ Open(l)' => Open(l)
        /\ status'[l] \notin {"processing", "dropped"}
    BY <1>3 DEF Open
  <2>2. Account(l)
    BY DEF CInv, Accounts
  <2>3. Paid(l)'
    BY <2>1, <2>2 DEF Account, Paid
  <2>4. Capped(l)'
    BY <1>1, <2>1, <2>2 DEF Account, Capped
  <2>5. Earned(l)'
    BY <1>1, <2>1, <2>2 DEF Account, Earned
  <2> QED BY <2>3, <2>4, <2>5 DEF Account
<1> QED BY <1>2, <1>3

-----------------------------------------------------------------------------
(* The steps of drainStream and of the sweeper *)

\* A claim leaves the row with one holder more.
LEMMA ClaimAccounts ==
  ASSUME CInv, IInv', NEW w \in Workers, Claim(w)
  PROVE  Accounts'
<1> SUFFICES ASSUME NEW l \in Logs PROVE Account(l)'
  BY DEF Accounts
<1>1. PICK S \in SUBSET Claimable :
        /\ status' = [k \in Logs |-> IF k \in S THEN "processing" ELSE status[k]]
        /\ claim' = [claim EXCEPT ![w] = S]
        /\ seen' = [seen EXCEPT ![w] = [k \in Logs |-> IF k \in S THEN attempts[k] ELSE 0]]
        /\ claims' = [k \in Logs |-> IF k \in S THEN claims[k] + 1 ELSE claims[k]]
  BY DEF Claim
<1>2. UNCHANGED <<attempts, overruns>>
  BY DEF Claim, bounds
<1>3. \A v \in Workers \ {w} : claim'[v] = claim[v] /\ seen'[v] = seen[v]
  BY <1>1 DEF CInv, IInv, TypeOK
<1>4. claim'[w] = S /\ \A k \in S : seen'[w][k] = attempts[k]
  BY <1>1 DEF CInv, IInv, TypeOK, Claimable
<1>5. CASE l \notin S
  <2>1. \A v \in Holders(l)' : v \in Holders(l) /\ seen'[v][l] = seen[v][l]
    BY <1>3, <1>4, <1>5 DEF Holders
  <2>2. overruns <= overruns'
    BY <1>2 DEF CInv, IInv, TypeOK
  <2> QED BY <1>1, <1>2, <1>5, <2>1, <2>2, RowKept DEF CInv, Accounts
<1>6. CASE l \in S
  <2>1. Account(l) /\ Open(l)
    BY <1>1, <1>6 DEF CInv, Accounts, Claimable, Open
  <2>2. /\ attempts[l] \in Nat /\ claims[l] \in Nat /\ overruns \in Nat
        /\ \A v \in Workers : seen[v][l] \in Nat
    BY DEF CInv, IInv, TypeOK
  <2>3. status'[l] = "processing" /\ claims'[l] = claims[l] + 1 /\ seen'[w][l] = attempts[l]
    BY <1>1, <1>4, <1>6
  <2>4. Holders(l)' \subseteq Holders(l) \union {w}
    BY <1>3 DEF Holders
  <2>5. Cardinality(Holders(l)') <= Cardinality(Holders(l)) + 1
    BY <2>4, Counts, OneMore
  <2>6. claims[l] <= attempts[l]
    BY <2>1 DEF Account, Paid
  <2>7. Paid(l)'
    BY <1>2, <2>2, <2>3, <2>6 DEF Paid, Open
  <2>8. Capped(l)'
    <3>1. Early(l)' \subseteq Early(l) \union {w}
      BY <1>3, <2>4 DEF Early, Holders, LastAttempt
    <3>2. Cardinality(Early(l)') <= Cardinality(Early(l)) + 1
      BY <3>1, Counts, OneMore
    <3>3. ~Open(l)'
      BY <2>3 DEF Open
    <3>4. CASE LastAttempt(attempts[l])
      <4>1. Early(l)' \subseteq Early(l)
        BY <2>3, <3>1, <3>4 DEF Early, LastAttempt
      <4>2. Cardinality(Early(l)') <= Cardinality(Early(l))
        BY <4>1, Counts, Fewer
      <4> QED
        BY <1>2, <2>1, <2>2, <2>3, <3>3, <4>2, Counts, OutboxAssumption DEF Account, Capped
    <3>5. CASE ~LastAttempt(attempts[l])
      <4>1. claims[l] + 1 < MaxAttempts
        BY <2>2, <2>6, <3>5, OutboxAssumption DEF LastAttempt
      <4> QED
        BY <1>2, <2>1, <2>2, <2>3, <3>2, <3>3, <4>1, Counts, OutboxAssumption
        DEF Account, Capped
    <3> QED BY <3>4, <3>5
  <2>9. Earned(l)'
    <3>1. attempts[l] + Cardinality(Holders(l)) <= claims[l] + overruns
      BY <2>1 DEF Account, Earned
    <3>2. attempts[l] + 1 <= claims[l] + 1 + overruns
      BY <2>2, <3>1, Counts
    <3>3. \A v \in Holders(l)' : seen'[v][l] + 1 <= claims[l] + 1 + overruns
      <4> SUFFICES ASSUME NEW v \in Holders(l)'
                   PROVE  seen'[v][l] + 1 <= claims[l] + 1 + overruns
        OBVIOUS
      <4>1. CASE v = w
        BY <2>3, <3>2, <4>1
      <4>2. CASE v # w
        <5>1. v \in Workers /\ v \in Holders(l) /\ seen'[v] = seen[v]
          BY <1>3, <2>4, <4>2 DEF Holders
        <5>2. seen[v][l] + 1 <= claims[l] + overruns
          BY <2>1, <5>1 DEF Account, Earned
        <5> QED BY <2>2, <5>1, <5>2
      <4> QED BY <4>1, <4>2
    <3>4. attempts[l] + Cardinality(Holders(l)') <= claims[l] + 1 + overruns
      BY <2>2, <2>5, <3>1, Counts
    <3> QED BY <1>2, <2>3, <3>2, <3>3, <3>4 DEF Earned
  <2> QED BY <2>7, <2>8, <2>9 DEF Account
<1> QED BY <1>5, <1>6

\* A commit settles the row or pays for its way back; the worker leaves.
LEMMA CommitAccounts ==
  ASSUME CInv, IInv', NEW w \in Workers, Commit(w)
  PROVE  Accounts'
<1> SUFFICES ASSUME NEW l \in Logs PROVE Account(l)'
  BY DEF Accounts
<1> DEFINE
  delivered == {k \in ok[w] : Exists(k)}
  dropped == {k \in bad[w] : Exists(k) /\ LastAttempt(seen[w][k])}
  retried == {k \in bad[w] : Exists(k) /\ ~LastAttempt(seen[w][k])}
  to == IF bad[w] # {} \/ LastBatch(w) THEN "returning" ELSE "claiming"
<1>1. /\ status' = [k \in Logs |->
             IF k \in delivered THEN "delivered"
             ELSE IF k \in dropped THEN "dropped"
             ELSE IF k \in retried THEN "backoff" ELSE status[k]]
      /\ attempts' = [k \in Logs |-> IF k \in retried THEN attempts[k] + 1 ELSE attempts[k]]
      /\ Leave(w, to)
      /\ claim[w] = ok[w] \union bad[w]
      /\ UNCHANGED <<claims, overruns>>
  BY DEF Commit, bounds
<1>2. to \in {"idle", "claiming", "returning"}
  OBVIOUS
<1>3. claim'[w] = {} /\ \A v \in Workers \ {w} : claim'[v] = claim[v] /\ seen'[v] = seen[v]
  BY <1>1, <1>2, Leaving DEF CInv
<1>4. \A v \in Holders(l)' : v \in Holders(l) \ {w} /\ seen'[v][l] = seen[v][l]
  BY <1>3 DEF Holders
<1>5. CASE l \notin delivered \union dropped \union retried
  <2>1. status'[l] = status[l] /\ attempts'[l] = attempts[l] /\ claims'[l] = claims[l]
    BY <1>1, <1>5
  <2>2. overruns <= overruns'
    BY <1>1 DEF CInv, IInv, TypeOK
  <2> QED BY <1>4, <2>1, <2>2, RowKept DEF CInv, Accounts
<1>6. CASE l \in delivered \union dropped \union retried
  <2>1. Account(l) /\ w \in Holders(l)
    BY <1>1, <1>6 DEF CInv, Accounts, Holders
  <2>2. /\ attempts[l] \in Nat /\ claims[l] \in Nat /\ overruns \in Nat
        /\ \A v \in Workers : seen[v][l] \in Nat
    BY DEF CInv, IInv, TypeOK
  <2>3. Holders(l)' \subseteq Holders(l) \ {w} /\ Early(l)' \subseteq Early(l) \ {w}
    BY <1>4 DEF Early, LastAttempt
  <2>4. Cardinality(Holders(l)') + 1 <= Cardinality(Holders(l))
    BY <2>1, <2>3, Counts, OneLess
  <2>5. Cardinality(Early(l)') <= Cardinality(Early(l))
    BY <2>3, Counts, Fewer
  <2>6. \A v \in Holders(l)' : seen'[v][l] + 1 <= claims[l] + overruns
    BY <1>4, <2>1 DEF Account, Earned
  <2>7. \/ status'[l] = "delivered" /\ attempts'[l] \in {attempts[l], attempts[l] + 1}
        \/ status'[l] = "dropped" /\ l \in dropped /\ attempts'[l] \in {attempts[l], attempts[l] + 1}
        \/ status'[l] = "backoff" /\ l \in retried /\ attempts'[l] = attempts[l] + 1
    BY <1>1, <1>6
  <2>8. /\ attempts[l] <= attempts'[l] /\ attempts'[l] <= attempts[l] + 1
        /\ status'[l] = "backoff" => attempts'[l] = attempts[l] + 1
        /\ status'[l] \in {"delivered", "dropped", "backoff"}
    <3> HIDE DEF delivered, dropped, retried
    <3> QED BY <2>2, <2>7
  <2>9. attempts'[l] \in Nat
    BY <2>2, <2>7
  <2>10. Paid(l)'
    <3>1. claims[l] <= attempts[l] + 1
      BY <2>1 DEF Account, Paid
    <3>2. claims[l] <= attempts'[l] + 1 /\ (status'[l] = "backoff" => claims[l] <= attempts'[l])
      BY <2>2, <2>8, <2>9, <3>1
    <3> QED BY <1>1, <2>8, <3>2 DEF Paid, Open
  <2>11. Capped(l)'
    <3>1. CASE status'[l] = "backoff"
      <4>1. w \in Early(l)
        <5>1. l \in retried
          BY <2>7, <3>1
        <5> QED BY <2>1, <5>1 DEF Early
      <4>2. Cardinality(Early(l)') + 1 <= Cardinality(Early(l))
        BY <2>3, <4>1, Counts, OneLess
      <4> HIDE DEF delivered, dropped, retried, to
      <4> QED
        BY <1>1, <2>1, <2>2, <4>2, Counts, OutboxAssumption DEF Account, Capped
    <3>2. CASE status'[l] # "backoff"
      <4>1. ~Open(l)'
        BY <2>8, <3>2 DEF Open
      <4> HIDE DEF delivered, dropped, retried, to
      <4> QED
        BY <1>1, <2>1, <2>2, <2>5, <4>1, Counts, OutboxAssumption DEF Account, Capped
    <3> QED BY <3>1, <3>2
  <2>12. Earned(l)'
    <3>1. attempts'[l] + Cardinality(Holders(l)') <= claims[l] + overruns
      <4>1. attempts[l] + Cardinality(Holders(l)) <= claims[l] + overruns
        BY <2>1 DEF Account, Earned
      <4> QED BY <2>2, <2>4, <2>8, <2>9, <4>1, Counts
    <3>2. status'[l] = "dropped" => MaxAttempts <= claims[l] + overruns
      <4> SUFFICES ASSUME status'[l] = "dropped" PROVE MaxAttempts <= claims[l] + overruns
        OBVIOUS
      <4>1. LastAttempt(seen[w][l])
        BY <2>7
      <4>2. seen[w][l] + 1 <= claims[l] + overruns
        BY <2>1 DEF Account, Earned
      <4> QED BY <2>2, <4>1, <4>2, OutboxAssumption DEF LastAttempt
    <3> QED BY <1>1, <2>6, <2>8, <3>1, <3>2 DEF Earned
  <2> QED BY <2>10, <2>11, <2>12 DEF Account
<1> QED BY <1>5, <1>6

\* A recovery is paid for by a claim that got too old under a live worker, or by
\* the claim whose worker is gone.
LEMMA RecoverAccounts ==
  ASSUME CInv, IInv', NEW stale \in SUBSET Logs, Recover(stale)
  PROVE  Accounts'
<1> SUFFICES ASSUME NEW l \in Logs PROVE Account(l)'
  BY DEF Accounts
<1> DEFINE
  dropped == {k \in stale : LastAttempt(attempts[k])}
  retried == stale \ dropped
  held == stale \intersect UNION {claim[w] : w \in Workers}
<1>1. /\ \A k \in stale : status[k] = "processing"
      /\ overruns' = overruns + Cardinality(held)
      /\ status' = [k \in Logs |->
           IF k \in dropped THEN "dropped" ELSE IF k \in retried THEN "retry" ELSE status[k]]
      /\ attempts' = [k \in Logs |-> IF k \in retried THEN attempts[k] + 1 ELSE attempts[k]]
      /\ UNCHANGED <<claim, seen, claims>>
  BY DEF Recover, workerVars
<1>2. IsFiniteSet(held) /\ Cardinality(held) \in Nat /\ (Cardinality(held) = 0 <=> held = {})
  BY OutboxAssumption, FS_Subset, FS_CardinalityType, FS_EmptySet
<1>3. /\ attempts[l] \in Nat /\ claims[l] \in Nat /\ overruns \in Nat /\ overruns' \in Nat
      /\ \A v \in Workers : seen[v][l] \in Nat
  BY DEF CInv, IInv, TypeOK
<1>4. overruns <= overruns' /\ (held # {} => overruns + 1 <= overruns')
  <2> DEFINE n == Cardinality(held)
  <2>1. n \in Nat /\ overruns' = overruns + n /\ (held # {} => n # 0)
    BY <1>1, <1>2
  <2> HIDE DEF n
  <2> QED BY <1>3, <2>1
<1>5. Holders(l)' = Holders(l) /\ Early(l)' = Early(l)
  BY <1>1 DEF Holders, Early, LastAttempt
<1>6. CASE l \notin stale
  <2>1. status'[l] = status[l] /\ attempts'[l] = attempts[l] /\ claims'[l] = claims[l]
    BY <1>1, <1>6
  <2> QED BY <1>1, <1>4, <1>5, <2>1, RowKept DEF CInv, Accounts
<1>7. CASE l \in stale
  <2>1. Account(l) /\ status[l] = "processing"
    BY <1>1, <1>7 DEF CInv, Accounts
  <2>2. /\ claims[l] <= attempts[l] + 1
        /\ attempts[l] + Cardinality(Holders(l)) <= claims[l] + overruns
        /\ attempts[l] + 1 <= claims[l] + overruns
        /\ Cardinality(Early(l)) <= overruns + 1
        /\ Cardinality(Early(l)) + claims[l] <= MaxAttempts + overruns
    BY <2>1 DEF Account, Paid, Capped, Earned
  <2>3. \/ overruns + 1 <= overruns'
        \/ Cardinality(Holders(l)) = 0 /\ Cardinality(Early(l)) = 0
    <3>1. CASE Holders(l) = {}
      <4>1. Early(l) = {}
        BY <3>1 DEF Early
      <4> QED BY <3>1, <4>1, FS_EmptySet
    <3>2. CASE Holders(l) # {}
      <4>1. l \in held
        BY <1>7, <3>2 DEF Holders
      <4> QED BY <1>4, <4>1
    <3> QED BY <3>1, <3>2
  <2>4. \A v \in Holders(l) : seen[v][l] + 1 <= claims[l] + overruns'
    <3> SUFFICES ASSUME NEW v \in Holders(l) PROVE seen[v][l] + 1 <= claims[l] + overruns'
      OBVIOUS
    <3>1. seen[v][l] + 1 <= claims[l] + overruns /\ seen[v][l] \in Nat
      BY <1>3, <2>1 DEF Account, Earned, Holders
    <3> QED BY <1>3, <1>4, <3>1
  <2>5. CASE LastAttempt(attempts[l])
    <3>1. status'[l] = "dropped" /\ attempts'[l] = attempts[l]
      BY <1>1, <1>7, <2>5
    <3>2. Paid(l)'
      BY <1>1, <2>2, <3>1 DEF Paid, Open
    <3> HIDE DEF dropped, retried, held
    <3>3. Capped(l)'
      BY <1>1, <1>3, <1>4, <1>5, <2>2, <3>1, Counts, OutboxAssumption DEF Capped, Open
    <3>4. MaxAttempts <= attempts[l] + 1
      BY <1>3, <2>5, OutboxAssumption DEF LastAttempt
    <3>5. /\ attempts[l] + Cardinality(Holders(l)) <= claims[l] + overruns'
          /\ MaxAttempts <= claims[l] + overruns'
      BY <1>3, <1>4, <2>2, <3>4, Counts, OutboxAssumption
    <3>6. Earned(l)'
      BY <1>1, <1>5, <2>4, <3>1, <3>5 DEF Earned
    <3> QED BY <3>2, <3>3, <3>6 DEF Account
  <2>6. CASE ~LastAttempt(attempts[l])
    <3>1. status'[l] = "retry" /\ attempts'[l] = attempts[l] + 1
      BY <1>1, <1>7, <2>6
    <3> HIDE DEF dropped, retried, held
    <3>2. Paid(l)'
      BY <1>1, <1>3, <2>2, <3>1 DEF Paid, Open
    <3>3. claims[l] + 1 <= MaxAttempts
      BY <1>3, <2>2, <2>6, OutboxAssumption DEF LastAttempt
    <3>4. /\ Cardinality(Early(l)) <= overruns'
          /\ Cardinality(Early(l)) + claims[l] + 1 <= MaxAttempts + overruns'
      BY <1>3, <1>4, <2>2, <2>3, <3>3, Counts, OutboxAssumption
    <3>5. Capped(l)'
      BY <1>1, <1>3, <1>5, <3>4, Counts, OutboxAssumption DEF Capped
    <3>6. attempts[l] + 1 + Cardinality(Holders(l)) <= claims[l] + overruns'
      BY <1>3, <1>4, <2>2, <2>3, Counts
    <3>7. Earned(l)'
      BY <1>1, <1>5, <2>4, <3>1, <3>6 DEF Earned
    <3> QED BY <3>2, <3>5, <3>7 DEF Account
  <2> QED BY <2>5, <2>6
<1> QED BY <1>6, <1>7

-----------------------------------------------------------------------------

LEMMA InitAccounts == Init => Accounts
<1> SUFFICES ASSUME Init, NEW l \in Logs PROVE Account(l)
  BY DEF Accounts
<1>1. Holders(l) = {} /\ Early(l) = {}
  BY DEF Init, Holders, Early
<1>2. Cardinality(Holders(l)) = 0 /\ Cardinality(Early(l)) = 0
  BY <1>1, FS_EmptySet
<1> QED
  BY <1>1, <1>2, OutboxAssumption DEF Init, Account, Paid, Capped, Earned, Open

LEMMA WorkerStepAccounts ==
  ASSUME CInv, IInv', NEW w \in Workers, WorkerStep(w)
  PROVE  Accounts'
<1>1. CASE Start(w)
  BY <1>1, RowsKept DEF Start, rowVars, bounds
<1>2. CASE Claim(w)
  BY <1>2, ClaimAccounts
<1>3. CASE NothingDue(w)
  BY <1>3, RowsKept DEF NothingDue, rowVars, bounds
<1>4. CASE \E l \in Logs : SendRow(w, l)
  BY <1>4, RowsKept DEF SendRow, rowVars, bounds
<1>5. CASE Commit(w)
  BY <1>5, CommitAccounts
<1>6. CASE Return(w)
  BY <1>6, RowsKept DEF Return, rowVars, bounds
<1>7. CASE DrainFails(w) \/ Crash(w)
  <2>1. Leave(w, "idle") /\ UNCHANGED <<status, attempts, claims, overruns>>
    BY <1>7 DEF DrainFails, Crash, Fail, rowVars
  <2>2. claim'[w] = {} /\ \A v \in Workers \ {w} : claim'[v] = claim[v] /\ seen'[v] = seen[v]
    BY <2>1, Leaving DEF CInv
  <2> SUFFICES ASSUME NEW l \in Logs PROVE Account(l)'
    BY DEF Accounts
  <2>3. \A v \in Holders(l)' : v \in Holders(l) /\ seen'[v][l] = seen[v][l]
    BY <2>2 DEF Holders
  <2>4. overruns <= overruns'
    BY <2>1 DEF CInv, IInv, TypeOK
  <2> QED BY <2>1, <2>3, <2>4, RowKept DEF CInv, Accounts
<1>8. CASE LockLost(w)
  BY <1>8, RowsKept DEF LockLost, Fail, rowVars, workerVars
<1> QED BY <1>1, <1>2, <1>3, <1>4, <1>5, <1>6, <1>7, <1>8 DEF WorkerStep

LEMMA NextAccounts == CInv /\ [Next]_vars => CInv'
<1> SUFFICES ASSUME CInv, [Next]_vars PROVE Accounts'
  BY NextIInv DEF CInv
<1>0. IInv'
  BY NextIInv DEF CInv
<1>1. CASE \E l \in Logs : Push(l)
  BY <1>0, <1>1, RowsKept DEF Push, rowVars, workerVars, bounds
<1>2. CASE \E l \in Logs : BackoffEnds(l)
  <2>1. PICK l \in Logs : BackoffEnds(l)
    BY <1>2
  <2>2. \A k \in Logs : status'[k] # status[k] => status[k] = "backoff" /\ status'[k] = "retry"
    BY <2>1 DEF BackoffEnds, CInv, IInv, TypeOK
  <2> QED BY <1>0, <2>1, <2>2, RowMoves DEF BackoffEnds, workerVars, bounds
<1>3. CASE \E l \in Logs : Prune(l)
  <2>1. PICK l \in Logs : Prune(l)
    BY <1>3
  <2>2. \A k \in Logs : status'[k] # status[k] => status[k] = "delivered" /\ status'[k] = "pruned"
    BY <2>1 DEF Prune, CInv, IInv, TypeOK
  <2> QED BY <1>0, <2>1, <2>2, RowMoves DEF Prune, workerVars, bounds
<1>4. CASE Collect
  <2>1. \A k \in Logs : status'[k] # status[k] => status[k] = "absent" /\ status'[k] = "pending"
    BY <1>4 DEF Collect, CInv, IInv, TypeOK
  <2> QED BY <1>0, <1>4, <2>1, RowMoves DEF Collect, workerVars, bounds
<1>5. CASE Trim \/ FindOverdue
  BY <1>0, <1>5, RowsKept DEF Trim, FindOverdue, rowVars, workerVars, bounds
<1>6. CASE \E stale \in SUBSET Logs : Recover(stale)
  BY <1>0, <1>6, RecoverAccounts
<1>7. CASE \E c \in Callers : CallerStep(c)
  BY <1>0, <1>7, RowsKept
  DEF CallerStep, SetNX, Add, WakeUpFails, CallerFails, Fail, rowVars, workerVars, bounds
<1>8. CASE KeyExpires \/ JobDue \/ JobStalled
  BY <1>0, <1>8, RowsKept DEF KeyExpires, JobDue, JobStalled, rowVars, workerVars, bounds
<1>9. CASE \E w \in Workers : WorkerStep(w)
  BY <1>0, <1>9, WorkerStepAccounts
<1>10. CASE UNCHANGED vars
  BY <1>0, <1>10, RowsKept DEF vars, rowVars, workerVars, bounds
<1> QED
  BY <1>1, <1>2, <1>3, <1>4, <1>5, <1>6, <1>7, <1>8, <1>9, <1>10 DEF Next

THEOREM AccountsKept == Spec => []CInv
<1>1. Init => CInv
  BY InitIInv, InitAccounts DEF CInv
<1>2. CInv /\ [Next]_vars => CInv'
  BY NextAccounts
<1> QED BY <1>1, <1>2, PTL DEF Spec

-----------------------------------------------------------------------------

LEMMA AccountsBound == CInv => SendsCapped /\ NotDroppedEarly
<1> SUFFICES ASSUME CInv, NEW l \in Logs
             PROVE  /\ claims[l] <= MaxAttempts + overruns
                    /\ status[l] = "dropped" => claims[l] + overruns >= MaxAttempts
  BY DEF SendsCapped, NotDroppedEarly
<1>1. /\ Cardinality(Early(l)) + claims[l] <= MaxAttempts + overruns
      /\ status[l] = "dropped" => MaxAttempts <= claims[l] + overruns
  BY DEF CInv, Accounts, Account, Capped, Earned
<1> QED BY <1>1, Counts, OutboxAssumption DEF CInv, IInv, TypeOK

\* "A poison pill can't loop forever": however often the sweeper takes a row from
\* a live worker, each time costs at most one claim above MAX_ATTEMPTS.
THEOREM Capping == Spec => []SendsCapped
<1> QED BY AccountsBound, AccountsKept, PTL

\* A log is given up after MAX_ATTEMPTS claims, less one for each time the
\* sweeper took a row from a live worker.
THEOREM Perseverance == Spec => []NotDroppedEarly
<1> QED BY AccountsBound, AccountsKept, PTL

-----------------------------------------------------------------------------
(* The outbox implements Delivery *)

\* What may become of a row in one step.
Fate(l) ==
  \/ status'[l] = status[l] /\ claims'[l] = claims[l]
  \/ /\ claims'[l] = claims[l]
     /\ \/ status[l] = "absent" /\ status'[l] = "pending"
        \/ status[l] = "backoff" /\ status'[l] = "retry"
        \/ status[l] = "delivered" /\ status'[l] = "pruned"
  \/ /\ status[l] \in {"pending", "retry"} /\ status'[l] = "processing"
     /\ claims'[l] = claims[l] + 1
  \/ /\ status[l] = "processing" \/ (overruns' > 0 /\ Exists(l))
     /\ status'[l] \in {"delivered", "dropped", "backoff", "retry"}
     /\ claims'[l] = claims[l]

LEMMA ClaimFate ==
  ASSUME IInv, NEW w \in Workers, Claim(w), NEW l \in Logs
  PROVE  Fate(l)
<1>1. PICK S \in SUBSET Claimable :
        /\ status' = [k \in Logs |-> IF k \in S THEN "processing" ELSE status[k]]
        /\ claims' = [k \in Logs |-> IF k \in S THEN claims[k] + 1 ELSE claims[k]]
  BY DEF Claim
<1> QED BY <1>1 DEF Fate, Claimable

\* The outcome of a claim that is the worker's, or of one that was too old.
LEMMA CommitFate ==
  ASSUME IInv, NEW w \in Workers, Commit(w), NEW l \in Logs
  PROVE  Fate(l)
<1>1. /\ claim[w] = ok[w] \union bad[w]
      /\ UNCHANGED <<claims, overruns>>
      /\ \/ status'[l] = status[l]
         \/ /\ l \in ok[w] \union bad[w] /\ Exists(l)
            /\ status'[l] \in {"delivered", "dropped", "backoff"}
  BY DEF Commit, bounds
<1>2. l \in claim[w] /\ overruns = 0 => status[l] = "processing"
  BY DEF IInv, SoleClaim
<1>3. overruns \in Nat
  BY OutboxAssumption DEF IInv, TypeOK
<1> QED BY <1>1, <1>2, <1>3 DEF Fate

LEMMA RecoverFate ==
  ASSUME IInv, NEW stale \in SUBSET Logs, Recover(stale), NEW l \in Logs
  PROVE  Fate(l)
<1>1. /\ \A k \in stale : status[k] = "processing"
      /\ claims' = claims
      /\ l \notin stale => status'[l] = status[l]
      /\ l \in stale => status'[l] \in {"dropped", "retry"}
  BY DEF Recover
<1> QED BY <1>1 DEF Fate

LEMMA NextFate ==
  ASSUME IInv, [Next]_vars, NEW l \in Logs
  PROVE  Fate(l)
<1>1. CASE \E k \in Logs : Push(k) \/ BackoffEnds(k) \/ Prune(k)
  BY <1>1 DEF Push, BackoffEnds, Prune, Fate, IInv, TypeOK, rowVars
<1>2. CASE Collect
  BY <1>2 DEF Collect, Fate
<1>3. CASE Trim \/ FindOverdue \/ KeyExpires \/ JobDue \/ JobStalled \/ UNCHANGED vars
  BY <1>3 DEF Trim, FindOverdue, KeyExpires, JobDue, JobStalled, vars, Fate, rowVars
<1>4. CASE \E stale \in SUBSET Logs : Recover(stale)
  BY <1>4, RecoverFate
<1>5. CASE \E c \in Callers : CallerStep(c)
  BY <1>5 DEF CallerStep, SetNX, Add, WakeUpFails, CallerFails, Fate, rowVars
<1>6. ASSUME NEW w \in Workers, WorkerStep(w) PROVE Fate(l)
  <2>1. CASE Claim(w)
    BY <2>1, ClaimFate
  <2>2. CASE Commit(w)
    BY <2>2, CommitFate
  <2>3. CASE ~Claim(w) /\ ~Commit(w)
    BY <1>6, <2>3
    DEF WorkerStep, Start, NothingDue, SendRow, Return, DrainFails, Crash, LockLost, Fate, rowVars
  <2> QED BY <2>1, <2>2, <2>3
<1> QED BY <1>1, <1>2, <1>3, <1>4, <1>5, <1>6 DEF Next

\* Claims that got too old are not forgotten.
LEMMA OverrunsGrow == IInv /\ [Next]_vars => overruns' >= overruns
<1> SUFFICES ASSUME IInv, [Next]_vars PROVE overruns' >= overruns
  OBVIOUS
<1>0. overruns \in Nat
  BY OutboxAssumption DEF IInv, TypeOK
<1>1. CASE \E stale \in SUBSET Logs : Recover(stale)
  <2>1. PICK stale \in SUBSET Logs : Recover(stale)
    BY <1>1
  <2> DEFINE held == stale \intersect UNION {claim[w] : w \in Workers}
  <2>2. IsFiniteSet(held)
    BY FS_Subset, OutboxAssumption
  <2>3. Cardinality(held) \in Nat /\ overruns' = overruns + Cardinality(held)
    BY <2>1, <2>2, FS_CardinalityType DEF Recover
  <2> QED BY <1>0, <2>3
<1>2. CASE ~\E stale \in SUBSET Logs : Recover(stale)
  <2>1. overruns' = overruns
    BY <1>2 DEF Next, CallerStep, WorkerStep, Push, BackoffEnds, Prune, Collect, Trim, FindOverdue,
      SetNX, Add, WakeUpFails, CallerFails, KeyExpires, JobDue, JobStalled, Start, Claim, NothingDue,
      SendRow, Commit, Return, DrainFails, Crash, LockLost, Fail, vars, bounds
  <2> QED BY <1>0, <2>1
<1> QED BY <1>1, <1>2

\* Each fate of a row is a step of Delivery.
LEMMA FateImplements ==
  ASSUME IInv, CInv', NEW l \in Logs, Fate(l)
  PROVE  D!Accept(l) \/ D!Attempt(l) \/ D!Conclude(l) \/ D!ConcludeLate(l) \/ D!Rest(l)
<1>1. /\ claims'[l] <= MaxAttempts + overruns'
      /\ status'[l] = "dropped" => claims'[l] + overruns' >= MaxAttempts
  <2>1. (SendsCapped /\ NotDroppedEarly)'
    BY AccountsBound, PTL
  <2> QED BY <2>1 DEF SendsCapped, NotDroppedEarly
<1>2. status[l] \in Statuses
  BY DEF IInv, TypeOK
<1>3. CASE status'[l] = status[l] /\ claims'[l] = claims[l]
  BY <1>3 DEF D!Rest
<1>4. CASE status[l] = "absent" /\ status'[l] = "pending" /\ claims'[l] = claims[l]
  BY <1>4 DEF D!Accept, D!Turns, Stage
<1>5. CASE /\ claims'[l] = claims[l]
           /\ \/ status[l] = "backoff" /\ status'[l] = "retry"
              \/ status[l] = "delivered" /\ status'[l] = "pruned"
  BY <1>5 DEF D!Rest, Stage
<1>6. CASE /\ status[l] \in {"pending", "retry"} /\ status'[l] = "processing"
           /\ claims'[l] = claims[l] + 1
  BY <1>1, <1>6 DEF D!Attempt, Stage
<1>7. CASE /\ status[l] = "processing" \/ (overruns' > 0 /\ Exists(l))
           /\ status'[l] \in {"delivered", "dropped", "backoff", "retry"}
           /\ claims'[l] = claims[l]
  <2>1. /\ Stage(status'[l]) \in {"delivered", "open", "dropped"}
        /\ Stage(status'[l]) = "dropped" => status'[l] = "dropped"
    BY <1>7 DEF Stage
  <2>2. CASE status[l] = "processing"
    BY <1>1, <1>7, <2>1, <2>2 DEF D!Conclude, D!Turns, Stage
  <2>3. CASE overruns' > 0 /\ Exists(l)
    <3>1. Stage(status[l]) \in {"open", "taken", "delivered"}
      BY <1>2, <2>3 DEF Exists, Statuses, Stage
    <3> QED BY <1>1, <1>7, <2>1, <2>3, <3>1 DEF D!ConcludeLate, D!Turns
  <2> QED BY <1>7, <2>2, <2>3
<1> QED BY <1>3, <1>4, <1>5, <1>6, <1>7 DEF Fate

\* The outbox delivers each log at least once or gives it up, after MAX_ATTEMPTS
\* attempts and not again, up to what claims that got too old may cost.
THEOREM Implementation == Spec => DeliverySpec
<1>1. Init => D!Init
  BY DEF Init, D!Init, Stage
<1>2. CInv /\ [Next]_vars /\ CInv' =>
        [D!Next]_<<[l \in Logs |-> Stage(status[l])], claims, overruns>>
  <2> SUFFICES ASSUME CInv, [Next]_vars, CInv' PROVE D!Next
    OBVIOUS
  <2>1. IInv
    BY DEF CInv
  <2> QED BY <2>1, NextFate, FateImplements, OverrunsGrow DEF D!Next
<1> QED BY <1>1, <1>2, AccountsKept, PTL DEF Spec, DeliverySpec, D!Spec

=============================================================================
