---------------------------- MODULE CronRunsProofs ----------------------------
(***************************************************************************)
(* Safety of the run life cycle, for any number of pods, overlapping       *)
(* ticks, fires and attempts, and any number of failures and lapses.       *)
(***************************************************************************)
EXTENDS CronRuns, FiniteSetTheorems, TLAPS

\* What a tick's state says about the runs it deals with: they were enqueued,
\* and what it is about to remove from the zset is settled or lost.
ThreadInv(x) ==
  /\ x.todo \subseteq issued
  /\ x.pc # "scan" => x.run \in issued
  /\ x.pc = "exists" => x.att # 0
  /\ x.pc \in Holding \union {"acquire"} => x.att \in 1 .. MaxAttempts
  /\ x.pc \in {"completedZ", "failedZ", "giveUpZ"} => x.run \in settled
  /\ x.pc = "cleanup" => x.run \in expired

\* An enqueued run without a hash, or with a re-created one, was lost to its TTL.
HashInv ==
  /\ pending \subseteq issued
  /\ nameless \subseteq expired
  /\ \A r \in issued : status[r] = "absent" => r \in expired

IInv ==
  /\ TypeOK
  /\ \A t \in Threads : ThreadInv(th[t])
  /\ HashInv
  /\ NoDroppedRun
  /\ LeaseCoversRun

-----------------------------------------------------------------------------

LEMMA IdleThread ==
  ASSUME NEW T \in SUBSET Runs
  PROVE  LET y == [Idle EXCEPT !.todo = T] IN
         /\ y \in Thread /\ y.todo = T /\ y.pc = "scan" /\ y.run = NoRun
         /\ Idle \in Thread /\ Idle.todo = {} /\ Idle.pc = "scan" /\ Idle.run = NoRun
<1>1. 0 \in 0 .. MaxAttempts + 1 /\ NoRun \in Runs \union {NoRun} /\ "scan" \in PCs
  BY RunsAssumption DEF PCs, Unlocked
<1> QED BY <1>1 DEF Idle, Thread

LEMMA PickedThread ==
  ASSUME NEW T \in SUBSET Runs, NEW r \in Runs, NEW pc \in PCs, NEW n \in 0 .. MaxAttempts + 1
  PROVE  LET y == Looking(pc, T, r, n) IN
         y \in Thread /\ y.todo = T /\ y.pc = pc /\ y.run = r /\ y.att = n
  BY DEF Looking, Thread

LEMMA MovedThread ==
  ASSUME NEW x \in Thread, NEW pc \in PCs
  PROVE  LET y == [x EXCEPT !.pc = pc] IN
         /\ y \in Thread /\ y.pc = pc
         /\ y.todo = x.todo /\ y.run = x.run /\ y.att = x.att /\ y.lapsed = x.lapsed
  BY DEF Thread

LEMMA FlaggedThread ==
  ASSUME NEW x \in Thread
  PROVE  LET y == [x EXCEPT !.awaited = TRUE]
             z == [x EXCEPT !.lapsed = TRUE]
         IN
         /\ y \in Thread /\ y.pc = x.pc /\ y.todo = x.todo /\ y.run = x.run
         /\ y.att = x.att /\ y.lapsed = x.lapsed
         /\ z \in Thread /\ z.pc = x.pc /\ z.todo = x.todo /\ z.run = x.run
         /\ z.att = x.att /\ z.lapsed = TRUE
  BY DEF Thread

LEMMA ThreadFields ==
  ASSUME NEW x \in Thread
  PROVE  /\ x.pc \in PCs /\ x.todo \in SUBSET Runs /\ x.run \in Runs \union {NoRun}
         /\ x.att \in 0 .. MaxAttempts + 1
  BY DEF Thread

\* The three kinds of tick state the code can be at are disjoint.
LEMMA Kinds ==
  /\ "scan" \notin Holding /\ "acquire" \notin Holding
  /\ Unlocked \intersect Holding = {}
  /\ Unlocked \subseteq PCs /\ Holding \subseteq PCs /\ "acquire" \in PCs
  BY DEF PCs, Unlocked, Holding, Writing

LEMMA InitIInv == Init => IInv
<1> SUFFICES ASSUME Init PROVE IInv
  OBVIOUS
<1>1. /\ Idle \in Thread /\ Idle.todo = {} /\ Idle.pc = "scan"
  <2>1. {} \in SUBSET Runs
    OBVIOUS
  <2> QED BY <2>1, IdleThread
<1>2. TypeOK
  BY <1>1, RunsAssumption DEF Init, TypeOK, Phases, Runs
<1>3. \A t \in Threads : ThreadInv(th[t])
  BY <1>1, Kinds DEF Init, ThreadInv
<1>4. HashInv /\ NoDroppedRun
  BY DEF Init, HashInv, NoDroppedRun
<1>5. LeaseCoversRun
  BY <1>1, Kinds DEF Init, LeaseCoversRun, Executes
<1> QED BY <1>2, <1>3, <1>4, <1>5 DEF IInv

-----------------------------------------------------------------------------
(* Ticks *)

\* History only grows.
LEMMA History ==
  Next => issued \subseteq issued' /\ settled \subseteq settled' /\ expired \subseteq expired'
<1> SUFFICES ASSUME Next
             PROVE  issued \subseteq issued' /\ settled \subseteq settled' /\ expired \subseteq expired'
  OBVIOUS
<1> USE DEF history
<1>1. CASE Fire
  BY <1>1 DEF Fire
<1>2. ASSUME NEW p \in Pods, PodNext(p)
      PROVE  issued \subseteq issued' /\ settled \subseteq settled' /\ expired \subseteq expired'
  BY <1>2 DEF PodNext, Start, EnqueueTick, Enqueue, EnqueueFails, EnqueueRun, Stop,
     StopResolves, DrainTimeout, Exit, Crash, Vanish
<1>3. ASSUME NEW t \in Threads, TickNext(t)
      PROVE  issued \subseteq issued' /\ settled \subseteq settled' /\ expired \subseteq expired'
  <2>1. Write(t) => settled \subseteq settled'
    BY DEF Write, MarkRunning, MarkCompleted, MarkFailedFinal, MarkPendingRetry, RemovePending,
       AddBackoff
  <2>2. CASE Written(t) \/ WriteFails(t)
    BY <2>1, <2>2 DEF Written, WriteFails
  <2>3. CASE ~(Written(t) \/ WriteFails(t))
    BY <1>3, <2>3 DEF TickNext, Step, ProcessTick, Candidate, LeaseExists, Acquire, Release,
       HandlerReturns, HandlerThrows, HandlerTimesOut, ReadFails, ReleaseFails
  <2> QED BY <2>1, <2>2, <2>3
<1>4. ASSUME NEW r \in Runs, TimeNext(r)
      PROVE  issued \subseteq issued' /\ settled \subseteq settled' /\ expired \subseteq expired'
  BY <1>4 DEF TimeNext, LeaseExpires, LeaseLapses, HashExpires, Ages, BackoffElapses
<1>5. ASSUME NEW p \in Pods, NEW r \in Runs, ZombieEnds(p, r)
      PROVE  issued \subseteq issued' /\ settled \subseteq settled' /\ expired \subseteq expired'
  BY <1>5 DEF ZombieEnds
<1> QED BY <1>1, <1>2, <1>3, <1>4, <1>5 DEF Next

\* So what a tick knows about the past of its runs stays true.
LEMMA Remembered ==
  ASSUME Next, NEW x, ThreadInv(x)
  PROVE  ThreadInv(x)'
  BY History DEF ThreadInv

\* Writing the state of one tick leaves all the others as they were.
LEMMA ThreadWrite ==
  ASSUME th \in [Threads -> Thread], NEW t \in Threads, NEW y \in Thread,
         th' = [th EXCEPT ![t] = y]
  PROVE  /\ th' \in [Threads -> Thread]
         /\ \A u \in Threads : th'[u] = IF u = t THEN y ELSE th[u]
  OBVIOUS

\* Tick `t` alone moves, to a sound state covered by the lease.
TickMove(t) ==
  \E y \in Thread :
    /\ th' = [th EXCEPT ![t] = y]
    /\ ThreadInv(y)'
    /\ y.pc \in Holding /\ ~y.lapsed => lease'[y.run] = t

LEMMA ScanMove ==
  ASSUME NEW t \in Threads, NEW T \in SUBSET Runs, T \subseteq issued', Scan(t, T)
  PROVE  TickMove(t)
<1> DEFINE y == [Idle EXCEPT !.todo = T]
<1>1. y \in Thread /\ y.todo = T /\ y.pc = "scan"
  BY IdleThread
<1>2. th' = [th EXCEPT ![t] = y]
  BY DEF Scan
<1> HIDE DEF y
<1>3. ThreadInv(y)'
  BY <1>1, Kinds DEF ThreadInv
<1> QED BY <1>1, <1>2, <1>3, Kinds DEF TickMove

LEMMA GotoMove ==
  ASSUME NEW t \in Threads, NEW x \in Thread, x = th[t], ThreadInv(x)',
         NEW pc \in PCs, Goto(t, pc), x.pc # "scan", pc \notin {"cleanup", "exists"},
         pc \in Holding \union {"acquire"} => x.att \in 1 .. MaxAttempts,
         pc \in {"completedZ", "failedZ", "giveUpZ"} => x.run \in settled',
         pc \in Holding => x.lapsed \/ lease'[x.run] = t
  PROVE  TickMove(t)
<1> DEFINE y == [x EXCEPT !.pc = pc]
<1>1. y \in Thread /\ y.pc = pc /\ y.todo = x.todo /\ y.run = x.run /\ y.att = x.att
      /\ y.lapsed = x.lapsed
  BY MovedThread
<1>2. th' = [th EXCEPT ![t] = y]
  BY DEF Goto
<1> HIDE DEF y
<1>3. x.todo \subseteq issued' /\ x.run \in issued'
  BY DEF ThreadInv
<1>4. ThreadInv(y)'
  BY <1>1, <1>3 DEF ThreadInv
<1> QED BY <1>1, <1>2, <1>4 DEF TickMove

LEMMA PickMove ==
  ASSUME NEW t \in Threads, NEW T \in SUBSET Runs, T \subseteq issued',
         NEW r \in Runs, r \in issued', NEW pc \in Unlocked \union {"acquire"},
         NEW n \in 0 .. MaxAttempts + 1, pc # "giveUpZ",
         pc = "exists" => n # 0,
         pc = "acquire" => n \in 1 .. MaxAttempts,
         pc = "cleanup" => r \in expired',
         th' = [th EXCEPT ![t] = Looking(pc, T, r, n)]
  PROVE  TickMove(t)
<1> DEFINE y == Looking(pc, T, r, n)
<1>1. y \in Thread /\ y.todo = T /\ y.pc = pc /\ y.run = r /\ y.att = n
  <2>1. pc \in PCs
    BY DEF PCs
  <2> QED BY <2>1, PickedThread
<1>2. th' = [th EXCEPT ![t] = y]
  OBVIOUS
<1> HIDE DEF y
<1>3. pc \notin Holding /\ pc \notin {"completedZ", "failedZ", "giveUpZ"}
  BY Kinds DEF Unlocked
<1>4. ThreadInv(y)'
  BY <1>1, <1>3 DEF ThreadInv
<1> QED BY <1>1, <1>2, <1>3, <1>4 DEF TickMove

\* The attempts gate hands on only attempts that entry.maxAttempts allows.
LEMMA Gates ==
  ASSUME NEW n \in 1 .. MaxAttempts + 1
  PROVE  /\ Gate(n) \in {"giveUp", "acquire"}
         /\ Gate(n) = "acquire" => n \in 1 .. MaxAttempts
  BY RunsAssumption DEF Gate

\* Every step of a tick is such a move.
LEMMA TickMoves ==
  ASSUME TypeOK, HashInv, LeaseCoversRun, \A u \in Threads : ThreadInv(th[u]),
         Next, NEW t \in Threads, TickNext(t)
  PROVE  TickMove(t)
<1>1. PICK x \in Thread : x = th[t]
  BY DEF TypeOK
<1>2. ThreadInv(x) /\ ThreadInv(x)' /\ x.todo \in SUBSET Runs /\ x.todo \subseteq issued'
  <2>1. ThreadInv(x)
    BY <1>1
  <2>2. ThreadInv(x)'
    BY <2>1, Remembered
  <2> QED BY <2>1, <2>2, ThreadFields DEF ThreadInv
<1>3. /\ x.pc # "scan" => x.run \in Runs
      /\ x.pc \in Holding \union {"acquire"} => x.att \in 1 .. MaxAttempts
  BY <1>2 DEF ThreadInv, TypeOK
<1>4. x.pc \in Holding => x.lapsed \/ lease[x.run] = t
  BY <1>1, <1>3, Kinds DEF LeaseCoversRun, Executes
<1>5. ASSUME Scan(t, x.todo) PROVE TickMove(t)
  BY <1>2, <1>5, ScanMove
<1>6. ASSUME NEW pc \in Holding, Goto(t, pc), x.pc \in Holding, UNCHANGED lease,
             pc \in {"completedZ", "failedZ"} => x.run \in settled'
      PROVE  TickMove(t)
  <2>1. pc \in PCs /\ pc \notin {"cleanup", "exists", "giveUpZ"} /\ x.pc # "scan"
    BY <1>6 DEF PCs, Holding, Writing
  <2> QED BY <1>1, <1>2, <1>3, <1>4, <1>6, <2>1, GotoMove
<1>7. CASE ProcessTick(t)
  <2>1. pending \ backoff \in SUBSET Runs /\ pending \ backoff \subseteq issued'
    BY <1>7 DEF ProcessTick, HashInv, TypeOK, history
  <2> QED BY <1>7, <2>1, ScanMove DEF ProcessTick
<1>8. ASSUME NEW r \in Runs, Candidate(t, r) PROVE TickMove(t)
  <2> DEFINE rest == x.todo \ {r}
             n == attempts[r] + 1
  <2>1. issued' = issued /\ expired' = expired /\ r \in issued' /\ rest \in SUBSET Runs
        /\ rest \subseteq issued'
    BY <1>1, <1>2, <1>8 DEF Candidate, history
  <2>2. /\ n \in 1 .. MaxAttempts + 1 /\ n \in 0 .. MaxAttempts + 1 /\ n # 0
        /\ 0 \in 0 .. MaxAttempts + 1
    BY RunsAssumption DEF TypeOK
  <2>3. \/ /\ status[r] = "absent" \/ r \in nameless
           /\ th' = [th EXCEPT ![t] = Looking("cleanup", rest, r, 0)]
        \/ th' = [th EXCEPT ![t] = Looking(Gate(n), rest, r, n)]
        \/ th' = [th EXCEPT ![t] = Looking("exists", rest, r, n)]
        \/ Scan(t, rest)
    BY <1>1, <1>8 DEF Candidate
  <2> HIDE DEF rest, n
  <2>4. CASE /\ status[r] = "absent" \/ r \in nameless
             /\ th' = [th EXCEPT ![t] = Looking("cleanup", rest, r, 0)]
    <3>1. r \in expired'
      BY <2>1, <2>4 DEF HashInv
    <3>2. "cleanup" \in Unlocked \union {"acquire"}
      BY DEF Unlocked
    <3> QED BY <2>1, <2>2, <2>4, <3>1, <3>2, PickMove
  <2>5. CASE th' = [th EXCEPT ![t] = Looking(Gate(n), rest, r, n)]
    <3>1. Gate(n) \in Unlocked \union {"acquire"} /\ Gate(n) \notin {"cleanup", "exists", "giveUpZ"}
          /\ (Gate(n) = "acquire" => n \in 1 .. MaxAttempts)
      BY <2>2, Gates DEF Unlocked
    <3> QED BY <2>1, <2>2, <2>5, <3>1, PickMove
  <2>6. CASE th' = [th EXCEPT ![t] = Looking("exists", rest, r, n)]
    <3>1. "exists" \in Unlocked \union {"acquire"}
      BY DEF Unlocked
    <3> QED BY <2>1, <2>2, <2>6, <3>1, PickMove
  <2>7. CASE Scan(t, rest)
    BY <2>1, <2>7, ScanMove
  <2> QED BY <2>3, <2>4, <2>5, <2>6, <2>7
<1>9. CASE LeaseExists(t)
  <2>1. CASE lease[x.run] = NoTick
    <3>1. x.pc = "exists" /\ Goto(t, Gate(x.att))
      BY <1>1, <1>9, <2>1 DEF LeaseExists
    <3>2. x.att \in 0 .. MaxAttempts + 1 /\ (x.pc = "exists" => x.att # 0)
      BY <1>2, ThreadFields DEF ThreadInv
    <3>3. x.att \in 1 .. MaxAttempts + 1
      BY <3>1, <3>2, RunsAssumption
    <3>4. Gate(x.att) \in PCs /\ Gate(x.att) \notin Holding
          /\ Gate(x.att) \notin {"cleanup", "exists", "completedZ", "failedZ", "giveUpZ"}
          /\ (Gate(x.att) = "acquire" => x.att \in 1 .. MaxAttempts)
      BY <3>3, Gates, Kinds DEF Unlocked
    <3> QED BY <1>1, <1>2, <3>1, <3>4, GotoMove
  <2>2. CASE lease[x.run] # NoTick
    BY <1>1, <1>5, <1>9, <2>2 DEF LeaseExists
  <2> QED BY <2>1, <2>2
<1>10. CASE Acquire(t)
  <2>1. x.pc = "acquire" /\ x.run \in Runs
    BY <1>1, <1>3, <1>10 DEF Acquire
  <2>2. CASE lease[x.run] = NoTick
    <3>1. Goto(t, "mark") /\ lease'[x.run] = t
      BY <1>1, <1>10, <2>1, <2>2 DEF Acquire, TypeOK
    <3>2. "mark" \in PCs /\ "mark" \in Holding
      BY DEF PCs, Holding
    <3> QED BY <1>1, <1>2, <1>3, <2>1, <3>1, <3>2, GotoMove
  <2>3. CASE lease[x.run] # NoTick
    BY <1>1, <1>5, <1>10, <2>3 DEF Acquire
  <2> QED BY <2>2, <2>3
<1>11. CASE Written(t)
  <2>1. Continue(t, Then(x.pc)) /\ Write(t) /\ UNCHANGED lease
    BY <1>1, <1>11 DEF Written
  <2>2. CASE x.pc = "giveUp"
    <3>1. Goto(t, "giveUpZ") /\ x.run \in settled'
      BY <1>1, <2>1, <2>2 DEF Continue, Then, Write, MarkRunning, MarkCompleted,
         MarkFailedFinal, MarkPendingRetry, RemovePending, AddBackoff
    <3>2. "giveUpZ" \in PCs /\ "giveUpZ" \notin Holding /\ "giveUpZ" # "acquire"
      BY Kinds DEF Unlocked
    <3> QED BY <1>1, <1>2, <2>2, <3>1, <3>2, GotoMove
  <2>3. CASE x.pc \in {"giveUpZ", "cleanup"}
    BY <1>1, <1>5, <2>1, <2>3 DEF Continue, Then
  <2>4. CASE x.pc \in {"mark"} \union Writing
    <3>1. Goto(t, Then(x.pc)) /\ Then(x.pc) \in Holding /\ x.pc \in Holding
      BY <2>1, <2>4 DEF Continue, Then, Holding, Writing
    <3>2. Then(x.pc) \in {"completedZ", "failedZ"} => x.pc \in {"completed", "failed"}
      BY <2>4 DEF Then, Writing
    <3>3. x.pc \in {"completed", "failed"} => x.run \in settled'
      BY <1>1, <2>1 DEF Write, MarkRunning, MarkCompleted, MarkFailedFinal,
         MarkPendingRetry, RemovePending, AddBackoff
    <3> QED BY <1>6, <2>1, <3>1, <3>2, <3>3
  <2>5. x.pc \in {"giveUp", "giveUpZ", "cleanup", "mark"} \union Writing
    BY <1>1, <2>1 DEF Write, MarkRunning, MarkCompleted, MarkFailedFinal,
       MarkPendingRetry, RemovePending, AddBackoff, Writing
  <2> QED BY <2>2, <2>3, <2>4, <2>5
<1>12. CASE Release(t) \/ ReleaseFails(t)
  BY <1>1, <1>5, <1>12 DEF Release, ReleaseFails
<1>13. CASE HandlerReturns(t)
  BY <1>1, <1>6, <1>13 DEF HandlerReturns, Holding, Writing
<1>14. CASE HandlerThrows(t)
  <2>1. AfterError(t) \subseteq {"failed", "retry"}
    BY DEF AfterError
  <2> QED BY <1>1, <1>6, <1>14, <2>1 DEF HandlerThrows, Holding, Writing
<1>15. CASE HandlerTimesOut(t)
  BY <1>1, <1>6, <1>15 DEF HandlerTimesOut, Holding, Writing
<1>16. CASE WriteFails(t)
  <2>1. x.pc \in {"mark", "giveUp", "giveUpZ", "cleanup"} \union Writing /\ UNCHANGED lease
    BY <1>1, <1>16 DEF WriteFails
  <2>2. CASE x.pc \in {"completed", "completedZ"}
    <3>1. PICK pc \in {"failed", "retry"} : Goto(t, pc)
      BY <1>1, <1>16, <2>2 DEF WriteFails, AfterError
    <3> QED BY <1>6, <2>1, <2>2, <3>1 DEF Holding, Writing
  <2>3. CASE x.pc \in Holding \ {"completed", "completedZ"}
    <3>1. Goto(t, "release")
      BY <1>1, <1>16, <2>3 DEF WriteFails
    <3> QED BY <1>6, <2>1, <2>3, <3>1 DEF Holding
  <2>4. CASE x.pc \notin Holding
    <3>1. Scan(t, x.todo)
      BY <1>1, <1>16, <2>4 DEF WriteFails, Holding, Writing
    <3> QED BY <1>5, <3>1
  <2> QED BY <2>2, <2>3, <2>4
<1>17. CASE ReadFails(t)
  <2>1. CASE Scan(t, x.todo)
    BY <1>5, <2>1
  <2>2. ASSUME NEW r \in x.todo, Scan(t, x.todo \ {r}) PROVE TickMove(t)
    <3>1. x.todo \ {r} \in SUBSET Runs /\ x.todo \ {r} \subseteq issued'
      BY <1>2
    <3> QED BY <2>2, <3>1, ScanMove
  <2> QED BY <1>1, <1>17, <2>1, <2>2 DEF ReadFails
<1> QED BY <1>7, <1>8, <1>9, <1>10, <1>11, <1>12, <1>13, <1>14, <1>15, <1>16, <1>17
        DEF TickNext, Step

\* A step leaves every tick where it was, idles the ticks of a pod, flags
\* ticks as awaited or lapsed, or moves one tick.
LEMMA ThreadStep ==
  ASSUME TypeOK, HashInv, LeaseCoversRun, \A u \in Threads : ThreadInv(th[u]), Next
  PROVE  th' \in [Threads -> Thread] /\ \A u \in Threads : ThreadInv(th[u])'
<1> DEFINE Sound == th' \in [Threads -> Thread] /\ \A u \in Threads : ThreadInv(th[u])'
<1>1. th \in [Threads -> Thread]
  BY DEF TypeOK
<1>2. ASSUME UNCHANGED th PROVE Sound
  BY <1>1, <1>2, History DEF ThreadInv
<1>3. CASE Fire
  BY <1>2, <1>3 DEF Fire
<1>4. ASSUME NEW p \in Pods, PodNext(p) PROVE Sound
  <2>1. CASE Start(p) \/ EnqueueTick(p) \/ Enqueue(p) \/ EnqueueFails(p) \/ StopResolves(p)
             \/ DrainTimeout(p)
    BY <1>2, <2>1 DEF Start, EnqueueTick, Enqueue, EnqueueFails, StopResolves, DrainTimeout
  <2>2. CASE Stop(p)
    <3>1. \A u \in Threads : /\ th'[u] \in Thread
                             /\ th'[u].pc = th[u].pc /\ th'[u].todo = th[u].todo
                             /\ th'[u].run = th[u].run /\ th'[u].att = th[u].att
      BY <1>1, <2>2, FlaggedThread DEF Stop
    <3>2. th' \in [Threads -> Thread]
      BY <2>2, <3>1 DEF Stop
    <3> QED BY <3>1, <3>2, History DEF ThreadInv
  <2>3. CASE Exit(p) \/ Crash(p)
    <3>1. \A u \in Threads : th'[u] = Idle \/ th'[u] = th[u]
      BY <2>3 DEF Exit, Crash, Vanish
    <3>2. Idle \in Thread /\ Idle.todo = {} /\ Idle.pc = "scan"
      <4>1. {} \in SUBSET Runs
        OBVIOUS
      <4> QED BY <4>1, IdleThread
    <3>3. th' \in [Threads -> Thread]
      BY <1>1, <2>3, <3>2 DEF Exit, Crash, Vanish
    <3>4. ASSUME NEW u \in Threads, th'[u] = Idle PROVE ThreadInv(th[u])'
      BY <3>2, <3>4, Kinds DEF ThreadInv
    <3>5. ASSUME NEW u \in Threads, th'[u] = th[u] PROVE ThreadInv(th[u])'
      BY <3>5, History DEF ThreadInv
    <3> QED BY <3>1, <3>3, <3>4, <3>5
  <2> QED BY <1>4, <2>1, <2>2, <2>3 DEF PodNext
<1>5. ASSUME NEW t \in Threads, TickNext(t) PROVE Sound
  <2>1. PICK y \in Thread : th' = [th EXCEPT ![t] = y] /\ ThreadInv(y)'
    BY <1>5, TickMoves DEF TickMove
  <2>2. \A u \in Threads : th'[u] = IF u = t THEN y ELSE th[u]
    BY <1>1, <2>1, ThreadWrite
  <2>3. ThreadInv(th[t])'
    BY <2>1, <2>2 DEF ThreadInv
  <2>4. ASSUME NEW u \in Threads, u # t PROVE ThreadInv(th[u])'
    BY <2>2, <2>4, History DEF ThreadInv
  <2> QED BY <1>1, <2>1, <2>3, <2>4, ThreadWrite
<1>6. ASSUME NEW r \in Runs, TimeNext(r) PROVE Sound
  <2>1. CASE LeaseExpires(r) \/ HashExpires(r) \/ Ages(r) \/ BackoffElapses(r)
    BY <1>2, <2>1 DEF LeaseExpires, HashExpires, Ages, BackoffElapses
  <2>2. CASE LeaseLapses(r)
    <3>1. lease[r] \in Threads
      BY <2>2 DEF LeaseLapses, TypeOK
    <3>2. PICK x \in Thread : x = th[lease[r]]
      BY <1>1, <3>1
    <3> DEFINE z == [x EXCEPT !.lapsed = TRUE]
    <3>3. z \in Thread /\ z.pc = x.pc /\ z.todo = x.todo /\ z.run = x.run /\ z.att = x.att
      BY FlaggedThread
    <3>4. th' = [th EXCEPT ![lease[r]] = z]
      BY <2>2, <3>2 DEF LeaseLapses
    <3> HIDE DEF z
    <3>5. /\ th' \in [Threads -> Thread]
          /\ \A u \in Threads : th'[u] = IF u = lease[r] THEN z ELSE th[u]
      BY <1>1, <3>1, <3>3, <3>4
    <3>6. \A u \in Threads : /\ th'[u].pc = th[u].pc /\ th'[u].todo = th[u].todo
                             /\ th'[u].run = th[u].run /\ th'[u].att = th[u].att
      BY <3>2, <3>3, <3>5
    <3> QED BY <3>5, <3>6, History DEF ThreadInv
  <2> QED BY <1>6, <2>1, <2>2 DEF TimeNext
<1>7. ASSUME NEW p \in Pods, NEW r \in Runs, ZombieEnds(p, r) PROVE Sound
  BY <1>2, <1>7 DEF ZombieEnds
<1> QED BY <1>3, <1>4, <1>5, <1>6, <1>7 DEF Next

-----------------------------------------------------------------------------
(* The lease *)

\* A tick writes a lease key only when it is free or its own.
LEMMA OwnLeaseOnly ==
  ASSUME TypeOK, NEW t \in Threads, ThreadInv(th[t]), TickNext(t)
  PROVE  /\ lease' \in [Runs -> Threads \union {NoTick}]
         /\ \A r \in Runs : lease[r] \notin {NoTick, t} => lease'[r] = lease[r]
<1> DEFINE Own == /\ lease' \in [Runs -> Threads \union {NoTick}]
                  /\ \A r \in Runs : lease[r] \notin {NoTick, t} => lease'[r] = lease[r]
<1>1. lease \in [Runs -> Threads \union {NoTick}]
  BY DEF TypeOK
<1>2. th[t].pc # "scan" => th[t].run \in Runs
  BY DEF ThreadInv, TypeOK
<1>3. CASE Acquire(t)
  BY <1>1, <1>2, <1>3 DEF Acquire
<1>4. CASE Release(t)
  BY <1>1, <1>2, <1>4 DEF Release
<1>5. CASE ReadFails(t)
  BY <1>1, <1>2, <1>5 DEF ReadFails
<1>6. CASE UNCHANGED lease
  BY <1>1, <1>6
<1>7. Acquire(t) \/ Release(t) \/ ReadFails(t) \/ UNCHANGED lease
  BY DEF TickNext, Step, ProcessTick, Candidate, LeaseExists, Written, HandlerReturns,
     HandlerThrows, HandlerTimesOut, WriteFails, ReleaseFails
<1> QED BY <1>3, <1>4, <1>5, <1>6, <1>7

LEMMA LeaseStep ==
  ASSUME IInv, Next
  PROVE  LeaseCoversRun'
<1> SUFFICES ASSUME NEW u \in Threads, NEW r \in Runs, Executes(u, r)', ~th'[u].lapsed
             PROVE  lease'[r] = u
  BY DEF LeaseCoversRun
<1>1. /\ th \in [Threads -> Thread] /\ lease \in [Runs -> Threads \union {NoTick}]
      /\ NoTick \notin Threads
  BY RunsAssumption DEF IInv, TypeOK
<1>2. th'[u].pc \in Holding /\ th'[u].run = r
  BY DEF Executes
<1>3. th[u].pc \in Holding /\ th[u].run = r /\ ~th[u].lapsed => lease[r] = u
  BY DEF IInv, LeaseCoversRun, Executes
<1>4. CASE UNCHANGED <<th, lease>>
  BY <1>2, <1>3, <1>4
<1>5. ASSUME NEW p \in Pods, PodNext(p) PROVE lease'[r] = u
  <2>1. CASE Stop(p)
    <3>1. th'[u].pc = th[u].pc /\ th'[u].run = th[u].run /\ th'[u].lapsed = th[u].lapsed
      BY <1>1, <2>1, FlaggedThread DEF Stop
    <3> QED BY <1>2, <1>3, <2>1, <3>1 DEF Stop
  <2>2. CASE Exit(p) \/ Crash(p)
    <3>1. lease' = lease /\ (th'[u] = Idle \/ th'[u] = th[u])
      BY <2>2 DEF Exit, Crash, Vanish
    <3>2. Idle.pc \notin Holding
      BY Kinds DEF Idle
    <3> QED BY <1>2, <1>3, <3>1, <3>2
  <2>3. CASE Start(p) \/ EnqueueTick(p) \/ Enqueue(p) \/ EnqueueFails(p) \/ StopResolves(p)
             \/ DrainTimeout(p)
    BY <1>4, <2>3 DEF Start, EnqueueTick, Enqueue, EnqueueFails, StopResolves, DrainTimeout
  <2> QED BY <1>5, <2>1, <2>2, <2>3 DEF PodNext
<1>6. ASSUME NEW t \in Threads, TickNext(t) PROVE lease'[r] = u
  <2>1. PICK y \in Thread : /\ th' = [th EXCEPT ![t] = y]
                            /\ y.pc \in Holding /\ ~y.lapsed => lease'[y.run] = t
    BY <1>6, TickMoves DEF TickMove, IInv
  <2>2. th'[u] = IF u = t THEN y ELSE th[u]
    BY <1>1, <2>1, ThreadWrite
  <2>3. CASE u = t
    BY <1>2, <2>1, <2>2, <2>3
  <2>4. CASE u # t
    <3>1. lease[r] = u
      BY <1>2, <1>3, <2>2, <2>4
    <3>2. lease'[r] = lease[r]
      BY <1>1, <1>6, <2>4, <3>1, OwnLeaseOnly DEF IInv
    <3> QED BY <3>1, <3>2
  <2> QED BY <2>3, <2>4
<1>7. ASSUME NEW s \in Runs, TimeNext(s) PROVE lease'[r] = u
  <2>1. CASE LeaseExpires(s)
    <3>1. th' = th /\ lease[r] = u
      BY <1>2, <1>3, <2>1 DEF LeaseExpires
    <3>2. r # s
      BY <1>2, <2>1, <3>1 DEF LeaseExpires, Executes
    <3> QED BY <1>1, <2>1, <3>1, <3>2 DEF LeaseExpires
  <2>2. CASE LeaseLapses(s)
    <3>1. lease[s] \in Threads
      BY <1>1, <2>2 DEF LeaseLapses
    <3>2. PICK x \in Thread : x = th[lease[s]]
      BY <1>1, <3>1
    <3>3. th' = [th EXCEPT ![lease[s]] = [x EXCEPT !.lapsed = TRUE]]
      BY <2>2, <3>2 DEF LeaseLapses
    <3>4. u # lease[s] /\ th'[u] = th[u]
      <4> DEFINE z == [x EXCEPT !.lapsed = TRUE]
      <4>1. z.lapsed = TRUE /\ z \in Thread
        BY FlaggedThread
      <4>2. th' = [th EXCEPT ![lease[s]] = z]
        BY <3>3
      <4> HIDE DEF z
      <4>3. th'[u] = IF u = lease[s] THEN z ELSE th[u]
        BY <1>1, <3>1, <4>1, <4>2
      <4> QED BY <4>1, <4>3
    <3>5. lease[r] = u /\ r # s
      BY <1>2, <1>3, <3>4
    <3> QED BY <1>1, <2>2, <3>5 DEF LeaseLapses
  <2>3. CASE HashExpires(s) \/ Ages(s) \/ BackoffElapses(s)
    BY <1>4, <2>3 DEF HashExpires, Ages, BackoffElapses
  <2> QED BY <1>7, <2>1, <2>2, <2>3 DEF TimeNext
<1>8. CASE Fire
  BY <1>4, <1>8 DEF Fire
<1>9. ASSUME NEW p \in Pods, NEW s \in Runs, ZombieEnds(p, s) PROVE lease'[r] = u
  BY <1>4, <1>9 DEF ZombieEnds
<1> QED BY <1>5, <1>6, <1>7, <1>8, <1>9 DEF Next

-----------------------------------------------------------------------------
(* Hashes and the zset *)

\* A status write removes from the zset only what is settled or lost, and
\* re-creates only hashes that were lost.
LEMMA WriteKeepsData ==
  ASSUME TypeOK, HashInv, NoDroppedRun, NEW t \in Threads, ThreadInv(th[t]),
         Write(t), issued' = issued, expired' = expired
  PROVE  HashInv' /\ NoDroppedRun'
<1> DEFINE r == th[t].run
<1>1. r \in issued /\ r \in Runs
  BY DEF Write, MarkRunning, MarkCompleted, MarkFailedFinal, MarkPendingRetry, RemovePending,
     AddBackoff, ThreadInv, TypeOK
<1>2. status \in [Runs -> {"absent", "pending", "running", "completed", "failed"}]
  BY DEF TypeOK
<1>3. ASSUME NEW s \in {"running", "completed", "failed", "pending"}, NEW n, HSet(r, s, n),
             UNCHANGED zset, settled \subseteq settled'
      PROVE  HashInv' /\ NoDroppedRun'
  <2>1. status' = [status EXCEPT ![r] = s] /\ pending' = pending
    BY <1>3 DEF HSet, zset
  <2>2. nameless' \subseteq expired
    BY <1>1, <1>3 DEF HSet, HashInv
  <2>3. \A q \in issued : status'[q] = "absent" => q \in expired
    BY <1>1, <1>2, <2>1 DEF HashInv, TypeOK
  <2>4. HashInv'
    BY <2>1, <2>2, <2>3 DEF HashInv
  <2> QED BY <1>3, <2>1, <2>4 DEF NoDroppedRun
<1>4. CASE MarkRunning(t)
  <2>1. HSet(r, "running", th[t].att) /\ UNCHANGED zset /\ settled \subseteq settled'
    BY <1>4 DEF MarkRunning
  <2> QED BY <1>3, <2>1
<1>5. CASE MarkCompleted(t)
  <2>1. HSet(r, "completed", attempts[r]) /\ UNCHANGED zset /\ settled \subseteq settled'
    BY <1>5 DEF MarkCompleted
  <2> QED BY <1>3, <2>1
<1>6. CASE MarkFailedFinal(t)
  <2>1. HSet(r, "failed", attempts[r]) /\ UNCHANGED zset /\ settled \subseteq settled'
    BY <1>6 DEF MarkFailedFinal
  <2> QED BY <1>3, <2>1
<1>7. CASE MarkPendingRetry(t)
  <2>1. HSet(r, "pending", attempts[r]) /\ UNCHANGED zset /\ settled \subseteq settled'
    BY <1>7 DEF MarkPendingRetry
  <2> QED BY <1>3, <2>1
<1>8. CASE RemovePending(t)
  <2>1. r \in settled \union expired
    BY <1>8 DEF RemovePending, ThreadInv
  <2>2. pending' = pending \ {r} /\ UNCHANGED <<hash, settled>>
    BY <1>8 DEF RemovePending, ZRem
  <2> QED BY <2>1, <2>2 DEF HashInv, NoDroppedRun, hash
<1>9. CASE AddBackoff(t)
  <2>1. pending' = pending \union {r} /\ UNCHANGED <<hash, settled>>
    BY <1>9 DEF AddBackoff
  <2> QED BY <1>1, <2>1 DEF HashInv, NoDroppedRun, hash
<1> QED BY <1>4, <1>5, <1>6, <1>7, <1>8, <1>9 DEF Write

\* The enqueue script adds a run to the zset together with its hash.
LEMMA EnqueueKeepsData ==
  ASSUME TypeOK, HashInv, NoDroppedRun, NEW r \in Runs, EnqueueRun(r),
         settled' = settled, expired' = expired
  PROVE  HashInv' /\ NoDroppedRun'
<1>1. CASE status[r] = "absent"
  <2>1. /\ status' = [status EXCEPT ![r] = "pending"] /\ nameless' = nameless
        /\ pending' = pending \union {r} /\ issued' = issued \union {r}
    BY <1>1 DEF EnqueueRun
  <2>2. \A q \in issued' : status'[q] = "absent" => q \in expired
    BY <2>1 DEF HashInv, TypeOK
  <2>3. HashInv'
    BY <2>1, <2>2 DEF HashInv
  <2> QED BY <2>1, <2>3 DEF NoDroppedRun
<1>2. CASE status[r] # "absent"
  BY <1>2 DEF EnqueueRun, HashInv, NoDroppedRun, hash, zset
<1> QED BY <1>1, <1>2

LEMMA DataStep ==
  ASSUME IInv, Next
  PROVE  HashInv' /\ NoDroppedRun'
<1> DEFINE Kept == HashInv' /\ NoDroppedRun'
<1>1. TypeOK /\ HashInv /\ NoDroppedRun /\ \A t \in Threads : ThreadInv(th[t])
  BY DEF IInv
<1>2. ASSUME UNCHANGED <<status, nameless, pending>>, issued' = issued, settled' = settled,
             expired' = expired
      PROVE  Kept
  BY <1>1, <1>2 DEF HashInv, NoDroppedRun
<1>3. CASE Fire
  BY <1>2, <1>3 DEF Fire, hash, zset, history
<1>4. ASSUME NEW p \in Pods, PodNext(p) PROVE Kept
  <2>1. CASE Enqueue(p) \/ EnqueueFails(p)
    <3>1. enq[p] \in Runs /\ settled' = settled /\ expired' = expired
      BY <1>1, <2>1 DEF Enqueue, EnqueueFails, TypeOK
    <3>2. CASE EnqueueRun(enq[p])
      BY <1>1, <3>1, <3>2, EnqueueKeepsData
    <3>3. CASE UNCHANGED <<hash, zset, issued>>
      BY <1>2, <3>1, <3>3 DEF hash, zset
    <3> QED BY <2>1, <3>2, <3>3 DEF Enqueue, EnqueueFails
  <2>2. CASE ~(Enqueue(p) \/ EnqueueFails(p))
    BY <1>2, <1>4, <2>2 DEF PodNext, Start, EnqueueTick, Stop, StopResolves, DrainTimeout,
       Exit, Crash, Vanish, hash, zset, history
  <2> QED BY <2>1, <2>2
<1>5. ASSUME NEW t \in Threads, TickNext(t) PROVE Kept
  <2>1. CASE Written(t) \/ WriteFails(t)
    <3>1. issued' = issued /\ expired' = expired
      BY <2>1 DEF Written, WriteFails
    <3>2. CASE Write(t)
      BY <1>1, <3>1, <3>2, WriteKeepsData
    <3>3. CASE UNCHANGED <<hash, zset, settled>>
      BY <1>2, <3>1, <3>3 DEF hash, zset
    <3> QED BY <2>1, <3>2, <3>3 DEF Written, WriteFails
  <2>2. CASE ~(Written(t) \/ WriteFails(t))
    <3>1. UNCHANGED <<hash, zset, history>>
      BY <1>5, <2>2 DEF TickNext, Step, ProcessTick, Candidate, LeaseExists, Acquire, Release,
         HandlerReturns, HandlerThrows, HandlerTimesOut, ReadFails, ReleaseFails
    <3> QED BY <1>2, <3>1 DEF hash, zset, history
  <2> QED BY <2>1, <2>2
<1>6. ASSUME NEW r \in Runs, TimeNext(r) PROVE Kept
  <2>1. CASE HashExpires(r)
    BY <1>1, <2>1 DEF HashExpires, HashInv, NoDroppedRun, TypeOK, zset
  <2>2. CASE LeaseExpires(r) \/ LeaseLapses(r) \/ Ages(r) \/ BackoffElapses(r)
    <3>1. UNCHANGED <<status, nameless, pending, issued, settled, expired>>
      BY <2>2 DEF LeaseExpires, LeaseLapses, Ages, BackoffElapses, hash, zset, history
    <3> QED BY <1>2, <3>1
  <2> QED BY <1>6, <2>1, <2>2 DEF TimeNext
<1>7. ASSUME NEW p \in Pods, NEW r \in Runs, ZombieEnds(p, r) PROVE Kept
  BY <1>2, <1>7 DEF ZombieEnds, hash, zset, history
<1> QED BY <1>3, <1>4, <1>5, <1>6, <1>7 DEF Next

-----------------------------------------------------------------------------
(* Types *)

\* TypeOK in groups that the actions change together.
PodTypes ==
  /\ fire \in Runs \union {NoRun}
  /\ phase \in [Pods -> Phases]
  /\ last \in [Pods -> Runs \union {NoRun}]
  /\ enq \in [Pods -> Runs \union {NoRun}]
  /\ zombies \subseteq Pods \X Runs

DataTypes ==
  /\ status \in [Runs -> {"absent", "pending", "running", "completed", "failed"}]
  /\ attempts \in [Runs -> 0 .. MaxAttempts]
  /\ nameless \subseteq Runs /\ young \subseteq Runs
  /\ pending \subseteq Runs /\ backoff \subseteq pending
  /\ issued \subseteq Runs /\ settled \subseteq Runs /\ expired \subseteq Runs

LEMMA Groups ==
  TypeOK <=> /\ PodTypes /\ DataTypes
             /\ lease \in [Runs -> Threads \union {NoTick}]
             /\ th \in [Threads -> Thread]
             /\ begun \in [Runs -> 0 .. MaxAttempts]
             /\ faults \in 0 .. MaxFaults
             /\ lapses \in 0 .. MaxLapses
  BY DEF TypeOK, PodTypes, DataTypes

LEMMA PodTypeStep ==
  ASSUME IInv, Next
  PROVE  PodTypes'
<1>1. PodTypes /\ TypeOK
  BY Groups DEF IInv
<1>2. ASSUME UNCHANGED <<fire, phase, last, enq>>, zombies' \subseteq Pods \X Runs
      PROVE  PodTypes'
  BY <1>1, <1>2 DEF PodTypes
<1>3. CASE Fire
  <2>1. fire' \in Runs
    BY <1>1, <1>3, RunsAssumption DEF Fire, PodTypes, Runs, NoRun
  <2> QED BY <1>1, <1>3, <2>1 DEF Fire, PodTypes, pod
<1>4. ASSUME NEW p \in Pods, PodNext(p) PROVE PodTypes'
  <2>1. CASE Start(p) \/ Stop(p) \/ StopResolves(p) \/ DrainTimeout(p)
    BY <1>1, <2>1 DEF Start, Stop, StopResolves, DrainTimeout, PodTypes, Phases
  <2>2. CASE EnqueueTick(p) \/ Enqueue(p) \/ EnqueueFails(p)
    BY <1>1, <2>2 DEF EnqueueTick, Enqueue, EnqueueFails, PodTypes, pod
  <2>3. CASE Exit(p) \/ Crash(p)
    BY <1>1, <2>3 DEF Exit, Crash, Vanish, PodTypes, Phases
  <2> QED BY <1>4, <2>1, <2>2, <2>3 DEF PodNext
<1>5. ASSUME NEW t \in Threads, TickNext(t) PROVE PodTypes'
  <2>1. CASE HandlerTimesOut(t)
    <3>1. ThreadInv(th[t])
      BY DEF IInv
    <3>2. th[t].run \in Runs
      BY <1>1, <2>1, <3>1 DEF HandlerTimesOut, TypeOK, ThreadInv
    <3>3. t[1] \in Pods
      BY DEF Threads
    <3>4. zombies' \subseteq Pods \X Runs
      BY <1>1, <2>1, <3>2, <3>3 DEF HandlerTimesOut, PodTypes
    <3> QED BY <1>2, <2>1, <3>4 DEF HandlerTimesOut, pod
  <2>2. CASE ~HandlerTimesOut(t)
    <3>1. UNCHANGED <<fire, pod, zombies>>
      BY <1>5, <2>2 DEF TickNext, Step, ProcessTick, Candidate, LeaseExists, Acquire, Written,
         Release, HandlerReturns, HandlerThrows, WriteFails, ReadFails, ReleaseFails
    <3> QED BY <1>1, <1>2, <3>1 DEF pod, PodTypes
  <2> QED BY <2>1, <2>2
<1>6. ASSUME NEW r \in Runs, TimeNext(r) PROVE PodTypes'
  BY <1>1, <1>2, <1>6 DEF TimeNext, LeaseExpires, LeaseLapses, HashExpires, Ages, BackoffElapses,
     pod, PodTypes
<1>7. ASSUME NEW p \in Pods, NEW r \in Runs, ZombieEnds(p, r) PROVE PodTypes'
  BY <1>1, <1>2, <1>7 DEF ZombieEnds, pod, PodTypes
<1> QED BY <1>3, <1>4, <1>5, <1>6, <1>7 DEF Next

LEMMA DataTypeStep ==
  ASSUME IInv, Next
  PROVE  DataTypes'
<1>1. DataTypes /\ TypeOK
  BY Groups DEF IInv
<1>2. ASSUME UNCHANGED <<hash, zset, history>> PROVE DataTypes'
  BY <1>1, <1>2 DEF DataTypes, hash, zset, history
<1>3. ASSUME NEW r \in Runs, EnqueueRun(r), settled' = settled, expired' = expired
      PROVE  DataTypes'
  <2>1. 0 \in 0 .. MaxAttempts
    BY RunsAssumption
  <2> QED BY <1>1, <1>3, <2>1 DEF EnqueueRun, DataTypes, hash, zset
<1>4. ASSUME NEW t \in Threads, Write(t), issued' = issued, expired' = expired
      PROVE  DataTypes'
  <2> DEFINE r == th[t].run
  <2>1. ThreadInv(th[t])
    BY DEF IInv
  <2>2. r \in Runs
    BY <1>1, <1>4, <2>1 DEF Write, MarkRunning, MarkCompleted, MarkFailedFinal, MarkPendingRetry,
       RemovePending, AddBackoff, ThreadInv, TypeOK
  <2>3. ASSUME NEW s \in {"pending", "running", "completed", "failed"}, NEW n \in 0 .. MaxAttempts,
               HSet(r, s, n), UNCHANGED zset, settled' \subseteq settled \union {r}
        PROVE  DataTypes'
    BY <1>1, <1>4, <2>2, <2>3 DEF HSet, DataTypes, zset
  <2>4. attempts[r] \in 0 .. MaxAttempts
    BY <1>1, <2>2 DEF DataTypes
  <2>5. CASE MarkRunning(t)
    <3>1. th[t].att \in 0 .. MaxAttempts
      BY <2>1, <2>5 DEF MarkRunning, ThreadInv, Holding
    <3>2. HSet(r, "running", th[t].att) /\ UNCHANGED zset /\ settled' \subseteq settled \union {r}
      BY <2>5 DEF MarkRunning
    <3> QED BY <2>3, <3>1, <3>2
  <2>6. CASE MarkCompleted(t)
    <3>1. HSet(r, "completed", attempts[r]) /\ UNCHANGED zset /\ settled' \subseteq settled \union {r}
      BY <2>6 DEF MarkCompleted
    <3> QED BY <2>3, <2>4, <3>1
  <2>7. CASE MarkFailedFinal(t)
    <3>1. HSet(r, "failed", attempts[r]) /\ UNCHANGED zset /\ settled' \subseteq settled \union {r}
      BY <2>7 DEF MarkFailedFinal
    <3> QED BY <2>3, <2>4, <3>1
  <2>8. CASE MarkPendingRetry(t)
    <3>1. HSet(r, "pending", attempts[r]) /\ UNCHANGED zset /\ settled' \subseteq settled \union {r}
      BY <2>8 DEF MarkPendingRetry
    <3> QED BY <2>3, <2>4, <3>1
  <2>9. CASE RemovePending(t) \/ AddBackoff(t)
    BY <1>1, <1>4, <2>2, <2>9 DEF RemovePending, AddBackoff, ZRem, DataTypes, hash
  <2> QED BY <1>4, <2>5, <2>6, <2>7, <2>8, <2>9 DEF Write
<1>5. CASE Fire
  BY <1>2, <1>5 DEF Fire
<1>6. ASSUME NEW p \in Pods, PodNext(p) PROVE DataTypes'
  <2>1. CASE Enqueue(p) \/ EnqueueFails(p)
    <3>1. enq[p] \in Runs /\ settled' = settled /\ expired' = expired
      BY <1>1, <2>1 DEF Enqueue, EnqueueFails, TypeOK
    <3> QED BY <1>2, <1>3, <2>1, <3>1 DEF Enqueue, EnqueueFails, history
  <2>2. CASE ~(Enqueue(p) \/ EnqueueFails(p))
    BY <1>2, <1>6, <2>2 DEF PodNext, Start, EnqueueTick, Stop, StopResolves, DrainTimeout,
       Exit, Crash, Vanish
  <2> QED BY <2>1, <2>2
<1>7. ASSUME NEW t \in Threads, TickNext(t) PROVE DataTypes'
  <2>1. CASE Written(t) \/ WriteFails(t)
    BY <1>2, <1>4, <2>1 DEF Written, WriteFails, history
  <2>2. CASE ~(Written(t) \/ WriteFails(t))
    BY <1>2, <1>7, <2>2 DEF TickNext, Step, ProcessTick, Candidate, LeaseExists, Acquire, Release,
         HandlerReturns, HandlerThrows, HandlerTimesOut, ReadFails, ReleaseFails
  <2> QED BY <2>1, <2>2
<1>8. ASSUME NEW r \in Runs, TimeNext(r) PROVE DataTypes'
  <2>1. CASE HashExpires(r)
    <3>1. 0 \in 0 .. MaxAttempts
      BY RunsAssumption
    <3> QED BY <1>1, <2>1, <3>1 DEF HashExpires, DataTypes, zset
  <2>2. CASE Ages(r) \/ BackoffElapses(r)
    BY <1>1, <2>2 DEF Ages, BackoffElapses, DataTypes, hash, zset, history
  <2>3. CASE LeaseExpires(r) \/ LeaseLapses(r)
    BY <1>2, <2>3 DEF LeaseExpires, LeaseLapses
  <2> QED BY <1>8, <2>1, <2>2, <2>3 DEF TimeNext
<1>9. ASSUME NEW p \in Pods, NEW r \in Runs, ZombieEnds(p, r) PROVE DataTypes'
  BY <1>2, <1>9 DEF ZombieEnds
<1> QED BY <1>5, <1>6, <1>7, <1>8, <1>9 DEF Next

LEMMA BoundStep ==
  ASSUME IInv, Next
  PROVE  /\ lease' \in [Runs -> Threads \union {NoTick}]
         /\ faults' \in 0 .. MaxFaults
         /\ lapses' \in 0 .. MaxLapses
<1> DEFINE Bounded == /\ lease' \in [Runs -> Threads \union {NoTick}]
                      /\ faults' \in 0 .. MaxFaults
                      /\ lapses' \in 0 .. MaxLapses
<1>1. /\ lease \in [Runs -> Threads \union {NoTick}]
      /\ faults \in 0 .. MaxFaults
      /\ lapses \in 0 .. MaxLapses
  BY DEF IInv, TypeOK
<1>2. faults < MaxFaults => faults + 1 \in 0 .. MaxFaults
  BY <1>1, RunsAssumption
<1>3. lapses < MaxLapses => lapses + 1 \in 0 .. MaxLapses
  BY <1>1, RunsAssumption
<1>4. CASE Fire
  BY <1>1, <1>4 DEF Fire
<1>5. ASSUME NEW p \in Pods, PodNext(p) PROVE Bounded
  BY <1>1, <1>2, <1>5 DEF PodNext, Start, EnqueueTick, Enqueue, EnqueueFails, Stop, StopResolves,
     DrainTimeout, Exit, Crash, Vanish
<1>6. ASSUME NEW t \in Threads, TickNext(t) PROVE Bounded
  <2>1. lease' \in [Runs -> Threads \union {NoTick}]
    BY <1>6, OwnLeaseOnly DEF IInv
  <2>2. \/ UNCHANGED <<faults, lapses>>
        \/ lapses' = lapses /\ faults < MaxFaults /\ faults' = faults + 1
    <3>1. WriteFails(t) \/ ReadFails(t) \/ ReleaseFails(t)
            => lapses' = lapses /\ faults < MaxFaults /\ faults' = faults + 1
      BY DEF WriteFails, ReadFails, ReleaseFails
    <3>2. \A r \in Runs : Candidate(t, r) => UNCHANGED <<faults, lapses>>
      BY DEF Candidate
    <3>3. LeaseExists(t) \/ Acquire(t) \/ Written(t) \/ Release(t) => UNCHANGED <<faults, lapses>>
      BY DEF LeaseExists, Acquire, Written, Release
    <3>4. ProcessTick(t) \/ HandlerReturns(t) \/ HandlerThrows(t) \/ HandlerTimesOut(t)
            => UNCHANGED <<faults, lapses>>
      BY DEF ProcessTick, HandlerReturns, HandlerThrows, HandlerTimesOut
    <3> QED BY <1>6, <3>1, <3>2, <3>3, <3>4 DEF TickNext, Step
  <2> QED BY <1>1, <1>2, <2>1, <2>2
<1>7. ASSUME NEW r \in Runs, TimeNext(r) PROVE Bounded
  BY <1>1, <1>3, <1>7 DEF TimeNext, LeaseExpires, LeaseLapses, HashExpires, Ages, BackoffElapses
<1>8. ASSUME NEW p \in Pods, NEW r \in Runs, ZombieEnds(p, r) PROVE Bounded
  BY <1>1, <1>8 DEF ZombieEnds
<1> QED BY <1>4, <1>5, <1>6, <1>7, <1>8 DEF Next

\* Attempts are only begun by a status write that resolves, one at a time.
LEMMA BegunStep ==
  ASSUME IInv, Next
  PROVE  \/ begun' = begun
         \/ \E t \in Threads :
              /\ Written(t) /\ th[t].pc = "mark" /\ begun[th[t].run] < MaxAttempts
              /\ begun' = [begun EXCEPT ![th[t].run] = @ + 1]
<1>1. CASE Fire
  BY <1>1 DEF Fire, history
<1>2. ASSUME NEW p \in Pods, PodNext(p) PROVE begun' = begun
  BY <1>2 DEF PodNext, Start, EnqueueTick, Enqueue, EnqueueFails, Stop, StopResolves,
     DrainTimeout, Exit, Crash, Vanish, history
<1>3. ASSUME NEW t \in Threads, TickNext(t)
      PROVE  begun' = begun \/ (Written(t) /\ Counts(t))
  <2>1. CASE Written(t)
    BY <2>1 DEF Written
  <2>2. WriteFails(t) \/ ReadFails(t) \/ ReleaseFails(t) \/ (\E r \in Runs : Candidate(t, r))
          => begun' = begun
    BY DEF WriteFails, ReadFails, ReleaseFails, Candidate, history
  <2>3. ProcessTick(t) \/ LeaseExists(t) \/ Acquire(t) \/ Release(t) => begun' = begun
    BY DEF ProcessTick, LeaseExists, Acquire, Release, history
  <2>4. HandlerReturns(t) \/ HandlerThrows(t) \/ HandlerTimesOut(t) => begun' = begun
    BY DEF HandlerReturns, HandlerThrows, HandlerTimesOut, history
  <2> QED BY <1>3, <2>1, <2>2, <2>3, <2>4 DEF TickNext, Step
<1>4. ASSUME NEW r \in Runs, TimeNext(r) PROVE begun' = begun
  BY <1>4 DEF TimeNext, LeaseExpires, LeaseLapses, HashExpires, Ages, BackoffElapses, history
<1>5. ASSUME NEW p \in Pods, NEW r \in Runs, ZombieEnds(p, r) PROVE begun' = begun
  BY <1>5 DEF ZombieEnds, history
<1> QED BY <1>1, <1>2, <1>3, <1>4, <1>5 DEF Next, Counts

LEMMA BegunType ==
  ASSUME IInv, Next
  PROVE  begun' \in [Runs -> 0 .. MaxAttempts]
<1>1. begun \in [Runs -> 0 .. MaxAttempts]
  BY DEF IInv, TypeOK
<1>2. \A n \in 0 .. MaxAttempts : n < MaxAttempts => n + 1 \in 0 .. MaxAttempts
  BY RunsAssumption
<1>3. ASSUME NEW r, begun[r] < MaxAttempts, begun' = [begun EXCEPT ![r] = @ + 1]
      PROVE  begun' \in [Runs -> 0 .. MaxAttempts]
  BY <1>1, <1>2, <1>3
<1> QED BY <1>1, <1>3, BegunStep

-----------------------------------------------------------------------------

LEMMA NextIInv == IInv /\ [Next]_vars => IInv'
<1>1. ASSUME IInv, Next PROVE IInv'
  <2>1. th' \in [Threads -> Thread] /\ \A u \in Threads : ThreadInv(th[u])'
    BY <1>1, ThreadStep DEF IInv
  <2>2. HashInv' /\ NoDroppedRun' /\ LeaseCoversRun'
    BY <1>1, DataStep, LeaseStep
  <2>3. TypeOK'
    BY <1>1, <2>1, PodTypeStep, DataTypeStep, BoundStep, BegunType
       DEF TypeOK, PodTypes, DataTypes
  <2> QED BY <2>1, <2>2, <2>3 DEF IInv
<1>2. ASSUME IInv, UNCHANGED vars PROVE IInv'
  <2>1. TypeOK'
    BY <1>2 DEF IInv, TypeOK, vars, hash, zset, pod, history
  <2>2. \A u \in Threads : ThreadInv(th[u])'
    BY <1>2 DEF IInv, ThreadInv, vars, history
  <2>3. HashInv' /\ NoDroppedRun'
    BY <1>2 DEF IInv, HashInv, NoDroppedRun, vars, hash, zset, history
  <2>4. LeaseCoversRun'
    BY <1>2 DEF IInv, LeaseCoversRun, Executes, vars
  <2> QED BY <2>1, <2>2, <2>3, <2>4 DEF IInv
<1> QED BY <1>1, <1>2

LEMMA Invariant == Spec => []IInv
  BY InitIInv, NextIInv, PTL DEF Spec

\* Every variable keeps its type; in particular no attempt beyond
\* entry.maxAttempts is ever written to a run hash.
THEOREM Typing == Spec => []TypeOK
<1>1. IInv => TypeOK
  BY DEF IInv
<1> QED BY <1>1, Invariant, PTL

\* A tick executes a run only under the run's lease, until the lease has run
\* out under that very tick.
THEOREM LeaseHeld == Spec => []LeaseCoversRun
<1>1. IInv => LeaseCoversRun
  BY DEF IInv
<1> QED BY <1>1, Invariant, PTL

\* Therefore no two ticks, of one pod or of two, execute the same run unless
\* one of them lost its lease.
THEOREM Exclusion == Spec => []OneTickPerRun
<1>1. IInv => OneTickPerRun
  BY DEF IInv, LeaseCoversRun, OneTickPerRun
<1> QED BY <1>1, Invariant, PTL

\* An enqueued run stays in the zset until it is settled or lost to its TTL,
\* whatever crashes or fails between two writes.
THEOREM NothingDropped == Spec => []NoDroppedRun
<1>1. IInv => NoDroppedRun
  BY DEF IInv
<1> QED BY <1>1, Invariant, PTL
-----------------------------------------------------------------------------
(* Enqueueing once *)

\* A run that was enqueued is never enqueued again as long as its hash has not
\* run out, whichever pods remember having sent the script.
THEOREM EnqueuedOnce == Spec => OneRunPerFire
<1> DEFINE Once == (issued \ expired) \intersect (young' \ young) = {}
<1>1. IInv /\ [Next]_vars => [Once]_vars
  <2> SUFFICES ASSUME IInv, Next PROVE Once
    OBVIOUS
  <2>1. ASSUME NEW r \in Runs, EnqueueRun(r) PROVE Once
    <3>1. CASE status[r] = "absent"
      <4>1. young' = young \union {r} /\ r \notin issued \ expired
        BY <2>1, <3>1 DEF EnqueueRun, IInv, HashInv
      <4> QED BY <4>1
    <3>2. CASE status[r] # "absent"
      BY <2>1, <3>2 DEF EnqueueRun, hash
    <3> QED BY <3>1, <3>2
  <2>2. CASE Fire
    BY <2>2 DEF Fire, hash
  <2>3. ASSUME NEW p \in Pods, PodNext(p) PROVE Once
    <3>1. CASE Enqueue(p) \/ EnqueueFails(p)
      <4>1. enq[p] \in Runs
        BY <3>1 DEF Enqueue, EnqueueFails, IInv, TypeOK
      <4>2. EnqueueRun(enq[p]) \/ young' = young
        BY <3>1 DEF Enqueue, EnqueueFails, hash
      <4> QED BY <2>1, <4>1, <4>2
    <3>2. CASE ~(Enqueue(p) \/ EnqueueFails(p))
      <4>1. young' = young
        BY <2>3, <3>2 DEF PodNext, Start, EnqueueTick, Stop, StopResolves, DrainTimeout,
           Exit, Crash, Vanish, hash
      <4> QED BY <4>1
    <3> QED BY <3>1, <3>2
  <2>4. ASSUME NEW t \in Threads, TickNext(t) PROVE young' = young
    <3>1. Write(t) => young' = young
      BY DEF Write, MarkRunning, MarkCompleted, MarkFailedFinal, MarkPendingRetry, RemovePending,
         AddBackoff, HSet, hash
    <3>2. Written(t) \/ WriteFails(t) => young' = young
      BY <3>1 DEF Written, WriteFails, hash
    <3>3. ReadFails(t) \/ ReleaseFails(t) \/ (\E r \in Runs : Candidate(t, r)) => young' = young
      BY DEF ReadFails, ReleaseFails, Candidate, hash
    <3>4. ProcessTick(t) \/ LeaseExists(t) \/ Acquire(t) \/ Release(t) => young' = young
      BY DEF ProcessTick, LeaseExists, Acquire, Release, hash
    <3>5. HandlerReturns(t) \/ HandlerThrows(t) \/ HandlerTimesOut(t) => young' = young
      BY DEF HandlerReturns, HandlerThrows, HandlerTimesOut, hash
    <3> QED BY <2>4, <3>2, <3>3, <3>4, <3>5 DEF TickNext, Step
  <2>5. ASSUME NEW r \in Runs, TimeNext(r) PROVE young' \subseteq young
    BY <2>5 DEF TimeNext, LeaseExpires, LeaseLapses, HashExpires, Ages, BackoffElapses, hash
  <2>6. ASSUME NEW p \in Pods, NEW r \in Runs, ZombieEnds(p, r) PROVE young' = young
    BY <2>6 DEF ZombieEnds, hash
  <2>7. young' \subseteq young => Once
    OBVIOUS
  <2> HIDE DEF Once
  <2> QED BY <2>2, <2>3, <2>4, <2>5, <2>6, <2>7 DEF Next, Once
<1> QED BY <1>1, Invariant, PTL DEF Spec, OneRunPerFire

-----------------------------------------------------------------------------
(* The attempts of a run *)

Started == {"handler"} \union Writing
Counting == {"exists", "acquire", "mark", "giveUp"}

\* What a step does to the tick that takes it: it goes on with its list, looks
\* at a candidate, or waits for another call about the same one.
Shift(t, x, y) ==
  \/ y.pc = "scan" /\ ~y.lapsed /\ x.pc \notin {"mark"} \union Started
  \/ /\ x.pc = "scan" /\ y.pc \in Unlocked \union {"acquire"} /\ ~y.lapsed
     /\ y.run \in Runs
     /\ y.pc \in Counting => y.att = attempts[y.run] + 1
     /\ y.pc = "giveUp" => y.att > MaxAttempts
     /\ y.pc # "cleanup" => status[y.run] \in {"pending", "running"}
  \/ /\ y.run = x.run /\ y.att = x.att /\ y.lapsed = x.lapsed
     /\ \/ x.pc = "exists" /\ y.pc \in {"giveUp", "acquire"} /\ (y.pc = "giveUp" => y.att > MaxAttempts)
        \/ x.pc = "acquire" /\ y.pc = "mark" /\ lease[x.run] = NoTick
        \/ x.pc = "giveUp" /\ y.pc = "giveUpZ"
        \/ x.pc = "mark" /\ y.pc = "handler" /\ Written(t)
        \/ x.pc = "mark" /\ y.pc = "release"
        \/ x.pc \in Started /\ y.pc \in Started \union {"release"}

TickShift(t) == \E y \in Thread : th' = [th EXCEPT ![t] = y] /\ Shift(t, th[t], y)

LEMMA ScanShift ==
  ASSUME NEW t \in Threads, NEW T \in SUBSET Runs, Scan(t, T), th[t].pc \notin {"mark"} \union Started
  PROVE  TickShift(t)
<1> DEFINE y == [Idle EXCEPT !.todo = T]
<1>1. y \in Thread /\ y.pc = "scan"
  BY IdleThread
<1>2. ~y.lapsed
  BY DEF Idle
<1>3. th' = [th EXCEPT ![t] = y]
  BY DEF Scan
<1> HIDE DEF y
<1> QED BY <1>1, <1>2, <1>3 DEF TickShift, Shift

LEMMA GotoShift ==
  ASSUME NEW t \in Threads, NEW x \in Thread, x = th[t], NEW pc \in PCs, Goto(t, pc),
         \/ x.pc = "exists" /\ pc \in {"giveUp", "acquire"} /\ (pc = "giveUp" => x.att > MaxAttempts)
         \/ x.pc = "acquire" /\ pc = "mark" /\ lease[x.run] = NoTick
         \/ x.pc = "giveUp" /\ pc = "giveUpZ"
         \/ x.pc = "mark" /\ pc = "handler" /\ Written(t)
         \/ x.pc = "mark" /\ pc = "release"
         \/ x.pc \in Started /\ pc \in Started \union {"release"}
  PROVE  TickShift(t)
<1> DEFINE y == [x EXCEPT !.pc = pc]
<1>1. y \in Thread /\ y.pc = pc /\ y.run = x.run /\ y.att = x.att /\ y.lapsed = x.lapsed
  BY MovedThread
<1>2. th' = [th EXCEPT ![t] = y]
  BY DEF Goto
<1> HIDE DEF y
<1>3. Shift(t, x, y)
  BY <1>1 DEF Shift
<1> QED BY <1>1, <1>2, <1>3 DEF TickShift

LEMMA PickShift ==
  ASSUME NEW t \in Threads, th[t].pc = "scan", NEW T \in SUBSET Runs, NEW r \in Runs,
         NEW pc \in Unlocked \union {"acquire"}, NEW n \in 0 .. MaxAttempts + 1,
         pc \in Counting => n = attempts[r] + 1,
         pc = "giveUp" => n > MaxAttempts,
         pc # "cleanup" => status[r] \in {"pending", "running"},
         th' = [th EXCEPT ![t] = Looking(pc, T, r, n)]
  PROVE  TickShift(t)
<1> DEFINE y == Looking(pc, T, r, n)
<1>1. y \in Thread /\ y.pc = pc /\ y.run = r /\ y.att = n
  <2>1. pc \in PCs
    BY DEF PCs
  <2> QED BY <2>1, PickedThread
<1>2. ~y.lapsed
  BY DEF Looking
<1>3. th' = [th EXCEPT ![t] = y]
  OBVIOUS
<1> HIDE DEF y
<1> QED BY <1>1, <1>2, <1>3 DEF TickShift, Shift

\* The places in a tick, told apart.
LEMMA Places ==
  /\ Started \subseteq Holding /\ Holding = Started \union {"mark", "release"}
  /\ "handler" \in Started /\ "mark" \notin Started /\ "release" \notin Started /\ "scan" \notin Started
  /\ Unlocked \intersect Started = {} /\ "acquire" \notin Started
  /\ "mark" \notin Unlocked /\ "release" \notin Unlocked /\ "release" # "mark"
  /\ {"scan", "exists", "giveUp", "giveUpZ"} \subseteq Unlocked
  BY DEF Started, Holding, Writing, Unlocked

LEMMA TickShifts ==
  ASSUME TypeOK, NEW t \in Threads, ThreadInv(th[t]), TickNext(t)
  PROVE  TickShift(t)
<1>1. PICK x \in Thread : x = th[t]
  BY DEF TypeOK
<1>2. x.todo \in SUBSET Runs /\ x.att \in 0 .. MaxAttempts + 1 /\ (x.pc = "exists" => x.att # 0)
  BY <1>1, ThreadFields DEF ThreadInv
<1>3. ASSUME Scan(t, x.todo), x.pc \notin {"mark"} \union Started PROVE TickShift(t)
  BY <1>1, <1>2, <1>3, ScanShift
<1>4. ASSUME NEW pc \in Started \union {"release"}, Goto(t, pc), x.pc \in Started PROVE TickShift(t)
  <2>1. pc \in PCs
    BY <1>4, Places, Kinds
  <2> QED BY <1>1, <1>4, <2>1, GotoShift
<1>5. CASE ProcessTick(t)
  <2>1. pending \ backoff \in SUBSET Runs
    BY DEF TypeOK
  <2>2. x.pc = "scan"
    BY <1>1, <1>5 DEF ProcessTick, Idle
  <2> QED BY <1>1, <1>5, <2>1, <2>2, Places, ScanShift DEF ProcessTick
<1>6. ASSUME NEW r \in Runs, Candidate(t, r) PROVE TickShift(t)
  <2> DEFINE rest == x.todo \ {r}
             n == attempts[r] + 1
  <2>1. rest \in SUBSET Runs /\ x.pc = "scan"
    BY <1>1, <1>2, <1>6 DEF Candidate
  <2>2. n \in 1 .. MaxAttempts + 1 /\ n \in 0 .. MaxAttempts + 1 /\ 0 \in 0 .. MaxAttempts + 1
    BY RunsAssumption DEF TypeOK
  <2>3. \/ th' = [th EXCEPT ![t] = Looking("cleanup", rest, r, 0)]
        \/ status[r] = "pending" /\ th' = [th EXCEPT ![t] = Looking(Gate(n), rest, r, n)]
        \/ status[r] = "running" /\ th' = [th EXCEPT ![t] = Looking("exists", rest, r, n)]
        \/ Scan(t, rest)
    BY <1>1, <1>6 DEF Candidate
  <2>4. n = attempts[r] + 1
    OBVIOUS
  <2> HIDE DEF rest, n
  <2>5. CASE th' = [th EXCEPT ![t] = Looking("cleanup", rest, r, 0)]
    <3>1. "cleanup" \in Unlocked \union {"acquire"} /\ "cleanup" \notin Counting /\ "cleanup" # "giveUp"
      BY DEF Unlocked, Counting
    <3> QED BY <1>1, <2>1, <2>2, <2>5, <3>1, PickShift
  <2>6. CASE status[r] = "pending" /\ th' = [th EXCEPT ![t] = Looking(Gate(n), rest, r, n)]
    <3>1. Gate(n) \in Unlocked \union {"acquire"} /\ (Gate(n) = "giveUp" => n > MaxAttempts)
      BY DEF Gate, Unlocked
    <3> QED BY <1>1, <2>1, <2>2, <2>4, <2>6, <3>1, PickShift
  <2>7. CASE status[r] = "running" /\ th' = [th EXCEPT ![t] = Looking("exists", rest, r, n)]
    <3>1. "exists" \in Unlocked \union {"acquire"} /\ "exists" # "giveUp"
      BY DEF Unlocked
    <3> QED BY <1>1, <2>1, <2>2, <2>4, <2>7, <3>1, PickShift
  <2>8. CASE Scan(t, rest)
    BY <1>1, <2>1, <2>8, Places, ScanShift
  <2> QED BY <2>3, <2>5, <2>6, <2>7, <2>8
<1>7. CASE LeaseExists(t)
  <2>1. x.pc = "exists" /\ x.pc \notin {"mark"} \union Started
    BY <1>1, <1>7, Places DEF LeaseExists, Unlocked
  <2>2. CASE lease[x.run] = NoTick
    <3>1. Goto(t, Gate(x.att)) /\ Gate(x.att) \in {"giveUp", "acquire"}
          /\ (Gate(x.att) = "giveUp" => x.att > MaxAttempts)
      BY <1>1, <1>7, <2>2 DEF LeaseExists, Gate
    <3>2. Gate(x.att) \in PCs
      BY <3>1, Kinds DEF Unlocked
    <3> QED BY <1>1, <2>1, <3>1, <3>2, GotoShift
  <2>3. CASE lease[x.run] # NoTick
    BY <1>1, <1>3, <1>7, <2>1, <2>3 DEF LeaseExists
  <2> QED BY <2>2, <2>3
<1>8. CASE Acquire(t)
  <2>1. x.pc = "acquire" /\ x.pc \notin {"mark"} \union Started
    BY <1>1, <1>8, Places DEF Acquire
  <2>2. CASE lease[x.run] = NoTick
    <3>1. Goto(t, "mark") /\ "mark" \in PCs
      BY <1>1, <1>8, <2>2, Kinds DEF Acquire, Holding
    <3> QED BY <1>1, <2>1, <2>2, <3>1, GotoShift
  <2>3. CASE lease[x.run] # NoTick
    BY <1>1, <1>3, <1>8, <2>1, <2>3 DEF Acquire
  <2> QED BY <2>2, <2>3
<1>9. CASE Written(t)
  <2>1. Continue(t, Then(x.pc))
    BY <1>1, <1>9 DEF Written
  <2>2. CASE x.pc = "giveUp"
    <3>1. Goto(t, "giveUpZ") /\ "giveUpZ" \in PCs
      BY <2>1, <2>2, Kinds DEF Continue, Then, Unlocked
    <3> QED BY <1>1, <2>2, <3>1, GotoShift
  <2>3. CASE x.pc \in {"giveUpZ", "cleanup"}
    <3>1. x.pc \notin {"mark"} \union Started
      BY <2>3 DEF Started, Writing
    <3>2. Then(x.pc) = "scan"
      BY <2>3 DEF Then
    <3>3. Scan(t, x.todo)
      BY <1>1, <2>1, <3>2 DEF Continue
    <3> QED BY <1>3, <3>1, <3>3
  <2>4. CASE x.pc = "mark"
    <3>1. Goto(t, "handler") /\ "handler" \in PCs
      BY <2>1, <2>4, Kinds DEF Continue, Then, Holding
    <3> QED BY <1>1, <1>9, <2>4, <3>1, GotoShift
  <2>5. CASE x.pc \in Writing
    <3>1. Goto(t, Then(x.pc)) /\ Then(x.pc) \in Started \union {"release"} /\ x.pc \in Started
      BY <2>1, <2>5 DEF Continue, Then, Started, Writing
    <3> QED BY <1>4, <3>1
  <2>6. x.pc \in {"giveUp", "giveUpZ", "cleanup", "mark"} \union Writing
    BY <1>1, <1>9 DEF Written, Write, MarkRunning, MarkCompleted, MarkFailedFinal, MarkPendingRetry,
       RemovePending, AddBackoff, Writing
  <2> QED BY <2>2, <2>3, <2>4, <2>5, <2>6
<1>10. CASE Release(t) \/ ReleaseFails(t)
  <2>1. x.pc = "release" /\ Scan(t, x.todo)
    BY <1>1, <1>10 DEF Release, ReleaseFails
  <2> QED BY <1>3, <2>1, Places
<1>11. CASE HandlerReturns(t) \/ HandlerThrows(t) \/ HandlerTimesOut(t)
  <2>1. x.pc = "handler"
    BY <1>1, <1>11 DEF HandlerReturns, HandlerThrows, HandlerTimesOut
  <2>2. PICK pc \in {"completed", "failed", "retry"} : Goto(t, pc)
    BY <1>11 DEF HandlerReturns, HandlerThrows, HandlerTimesOut, AfterError
  <2> QED BY <1>4, <2>1, <2>2 DEF Started, Writing
<1>12. CASE WriteFails(t)
  <2>1. x.pc \in {"mark", "giveUp", "giveUpZ", "cleanup"} \union Writing
    BY <1>1, <1>12 DEF WriteFails
  <2>2. CASE x.pc \in {"completed", "completedZ"}
    <3>1. PICK pc \in {"failed", "retry"} : Goto(t, pc)
      BY <1>1, <1>12, <2>2 DEF WriteFails, AfterError
    <3> QED BY <1>4, <2>2, <3>1 DEF Started, Writing
  <2>3. CASE x.pc = "mark"
    <3>1. Goto(t, "release") /\ "release" \in PCs
      BY <1>1, <1>12, <2>3, Kinds DEF WriteFails, Holding
    <3> QED BY <1>1, <2>3, <3>1, GotoShift
  <2>4. CASE x.pc \in Writing \ {"completed", "completedZ"}
    <3>1. Goto(t, "release") /\ x.pc \in Started
      BY <1>1, <1>12, <2>4 DEF WriteFails, Holding, Started
    <3> QED BY <1>4, <3>1
  <2>5. CASE x.pc \in {"giveUp", "giveUpZ", "cleanup"}
    <3>1. Scan(t, x.todo) /\ x.pc \notin {"mark"} \union Started
      BY <1>1, <1>12, <2>5 DEF WriteFails, Holding, Writing, Started
    <3> QED BY <1>3, <3>1
  <2> QED BY <2>1, <2>2, <2>3, <2>4, <2>5
<1>13. CASE ReadFails(t)
  <2>1. x.pc \in {"scan", "exists", "acquire"}
    BY <1>1, <1>13 DEF ReadFails
  <2>2. x.pc \notin {"mark"} \union Started
    BY <2>1 DEF Started, Writing
  <2>3. CASE Scan(t, x.todo)
    BY <1>3, <2>2, <2>3
  <2>4. ASSUME NEW r \in x.todo, Scan(t, x.todo \ {r}) PROVE TickShift(t)
    <3>1. x.todo \ {r} \in SUBSET Runs
      BY <1>2
    <3> QED BY <1>1, <2>2, <2>4, <3>1, ScanShift
  <2> QED BY <1>1, <1>13, <2>3, <2>4 DEF ReadFails
<1> QED BY <1>5, <1>6, <1>7, <1>8, <1>9, <1>10, <1>11, <1>12, <1>13 DEF TickNext, Step

\* What any step does to any tick: it ends, is taken by the tick, or only finds
\* it waited for or without its lease.
Delta(t) ==
  \/ th'[t].pc = "scan" /\ ~th'[t].lapsed
  \/ Shift(t, th[t], th'[t])
  \/ /\ th'[t].pc = th[t].pc /\ th'[t].run = th[t].run /\ th'[t].att = th[t].att
     /\ th'[t].lapsed = th[t].lapsed \/ (th'[t].lapsed = TRUE /\ lapses' = lapses + 1)

LEMMA Deltas ==
  ASSUME IInv, Next, NEW t \in Threads
  PROVE  Delta(t)
<1>1. th \in [Threads -> Thread] /\ lease \in [Runs -> Threads \union {NoTick}]
  BY DEF IInv, TypeOK
<1>2. ASSUME th' = th PROVE Delta(t)
  BY <1>2 DEF Delta
<1>3. CASE Fire
  BY <1>2, <1>3 DEF Fire
<1>4. ASSUME NEW p \in Pods, PodNext(p) PROVE Delta(t)
  <2>1. CASE Start(p) \/ EnqueueTick(p) \/ Enqueue(p) \/ EnqueueFails(p) \/ StopResolves(p)
             \/ DrainTimeout(p)
    BY <1>2, <2>1 DEF Start, EnqueueTick, Enqueue, EnqueueFails, StopResolves, DrainTimeout
  <2>2. CASE Stop(p)
    BY <1>1, <2>2, FlaggedThread DEF Stop, Delta
  <2>3. CASE Exit(p) \/ Crash(p)
    <3>1. th'[t] = Idle \/ th'[t] = th[t]
      BY <2>3 DEF Exit, Crash, Vanish
    <3> QED BY <3>1 DEF Idle, Delta
  <2> QED BY <1>4, <2>1, <2>2, <2>3 DEF PodNext
<1>5. ASSUME NEW u \in Threads, TickNext(u) PROVE Delta(t)
  <2>1. PICK y \in Thread : th' = [th EXCEPT ![u] = y] /\ Shift(u, th[u], y)
    BY <1>5, TickShifts DEF TickShift, IInv
  <2>2. th'[t] = IF t = u THEN y ELSE th[t]
    BY <1>1, <2>1, ThreadWrite
  <2>3. CASE t = u
    BY <2>1, <2>2, <2>3 DEF Delta
  <2>4. CASE t # u
    BY <2>2, <2>4 DEF Delta
  <2> QED BY <2>3, <2>4
<1>6. ASSUME NEW r \in Runs, TimeNext(r) PROVE Delta(t)
  <2>1. CASE LeaseExpires(r) \/ HashExpires(r) \/ Ages(r) \/ BackoffElapses(r)
    BY <1>2, <2>1 DEF LeaseExpires, HashExpires, Ages, BackoffElapses
  <2>2. CASE LeaseLapses(r)
    <3>1. PICK x \in Thread : x = th[lease[r]]
      BY <1>1, <2>2 DEF LeaseLapses
    <3> DEFINE z == [x EXCEPT !.lapsed = TRUE]
    <3>2. z \in Thread /\ z.pc = x.pc /\ z.run = x.run /\ z.att = x.att /\ z.lapsed = TRUE
      BY FlaggedThread
    <3>3. th' = [th EXCEPT ![lease[r]] = z] /\ lapses' = lapses + 1
      BY <2>2, <3>1 DEF LeaseLapses
    <3> HIDE DEF z
    <3>4. th'[t] = IF t = lease[r] THEN z ELSE th[t]
      BY <1>1, <3>3
    <3> QED BY <3>1, <3>2, <3>3, <3>4 DEF Delta
  <2> QED BY <1>6, <2>1, <2>2 DEF TimeNext
<1>7. ASSUME NEW p \in Pods, NEW r \in Runs, ZombieEnds(p, r) PROVE Delta(t)
  BY <1>2, <1>7 DEF ZombieEnds
<1> QED BY <1>3, <1>4, <1>5, <1>6, <1>7 DEF Next

\* A tick counts attempts from a hash that may lag behind what was begun, but
\* by no more than the calls that failed; it gives up only past the last one.
AttemptInv(x) ==
  /\ x.pc \in Counting => x.att <= begun[x.run] + faults + 1
  /\ x.pc = "giveUp" => x.att > MaxAttempts
  /\ x.pc \in Started => begun[x.run] > 0
  /\ x.lapsed => lapses > 0

Counted == \A r \in Runs : attempts[r] <= begun[r] + faults

\* Only runs that were enqueued are settled, lost, or have a hash.
Known ==
  /\ settled \subseteq issued /\ expired \subseteq issued
  /\ \A r \in Runs : status[r] # "absent" => r \in issued

CInv == IInv /\ Counted /\ Known /\ \A t \in Threads : AttemptInv(th[t])

LEMMA InitCInv == Init => CInv
<1> SUFFICES ASSUME Init PROVE CInv
  OBVIOUS
<1>1. \A t \in Threads : AttemptInv(th[t])
  BY DEF Init, Idle, AttemptInv, Counting, Started, Writing
<1>2. Counted /\ Known
  BY DEF Init, Counted, Known
<1> QED BY <1>1, <1>2, InitIInv DEF CInv

\* What the counts only ever do.
LEMMA Growing ==
  ASSUME IInv, Next
  PROVE  /\ faults \in Nat /\ faults' \in Nat /\ faults <= faults'
         /\ lapses \in Nat /\ lapses' \in Nat /\ lapses <= lapses'
         /\ \A r \in Runs : begun[r] \in Nat /\ begun'[r] \in Nat /\ begun[r] <= begun'[r]
<1>1. /\ faults \in Nat /\ lapses \in Nat /\ begun \in [Runs -> 0 .. MaxAttempts]
      /\ faults' \in Nat /\ lapses' \in Nat /\ begun' \in [Runs -> 0 .. MaxAttempts]
  BY BoundStep, BegunType DEF IInv, TypeOK
<1>2. \A r \in Runs : begun[r] \in Nat /\ begun'[r] \in Nat
  BY <1>1, RunsAssumption
<1>3. ASSUME NEW r \in Runs PROVE begun[r] <= begun'[r]
  <2>1. CASE begun' = begun
    BY <1>2, <2>1
  <2>2. ASSUME NEW s, begun' = [begun EXCEPT ![s] = @ + 1] PROVE begun[r] <= begun'[r]
    BY <1>1, <1>2, <2>2
  <2> QED BY <2>1, <2>2, BegunStep
<1>4. (faults' = faults \/ faults' = faults + 1) /\ (lapses' = lapses \/ lapses' = lapses + 1)
  <2> DEFINE Slow == /\ faults' = faults \/ faults' = faults + 1
                     /\ lapses' = lapses \/ lapses' = lapses + 1
  <2>1. CASE Fire
    BY <2>1 DEF Fire
  <2>2. ASSUME NEW p \in Pods, PodNext(p) PROVE Slow
    BY <2>2 DEF PodNext, Start, EnqueueTick, Enqueue, EnqueueFails, Stop, StopResolves,
       DrainTimeout, Exit, Crash, Vanish
  <2>3. ASSUME NEW t \in Threads, TickNext(t) PROVE Slow
    <3>1. WriteFails(t) \/ ReadFails(t) \/ ReleaseFails(t) => Slow
      BY DEF WriteFails, ReadFails, ReleaseFails
    <3>2. (\E r \in Runs : Candidate(t, r)) \/ LeaseExists(t) \/ Acquire(t) \/ Written(t) => Slow
      BY DEF Candidate, LeaseExists, Acquire, Written
    <3>3. ProcessTick(t) \/ Release(t) => Slow
      BY DEF ProcessTick, Release
    <3>4. HandlerReturns(t) \/ HandlerThrows(t) \/ HandlerTimesOut(t) => Slow
      BY DEF HandlerReturns, HandlerThrows, HandlerTimesOut
    <3> QED BY <2>3, <3>1, <3>2, <3>3, <3>4 DEF TickNext, Step
  <2>4. ASSUME NEW r \in Runs, TimeNext(r) PROVE Slow
    BY <2>4 DEF TimeNext, LeaseExpires, LeaseLapses, HashExpires, Ages, BackoffElapses
  <2>5. ASSUME NEW p \in Pods, NEW r \in Runs, ZombieEnds(p, r) PROVE Slow
    BY <2>5 DEF ZombieEnds
  <2> QED BY <2>1, <2>2, <2>3, <2>4, <2>5 DEF Next
<1> QED BY <1>1, <1>2, <1>3, <1>4

\* What a tick knows of the attempts stays true.
LEMMA CountedStep ==
  ASSUME CInv, Next, NEW t \in Threads
  PROVE  AttemptInv(th[t])'
<1> DEFINE x == th[t]
           y == th'[t]
<1>1. /\ x \in Thread /\ y \in Thread
      /\ x.att \in Nat /\ y.att \in Nat
      /\ x.pc # "scan" => x.run \in Runs
      /\ y.pc # "scan" => y.run \in Runs
  <2>1. x \in Thread /\ y \in Thread
    BY ThreadStep DEF CInv, IInv, TypeOK
  <2>2. x.att \in Nat /\ y.att \in Nat
    BY <2>1, ThreadFields
  <2>3. (x.pc # "scan" => x.run \in Runs) /\ (y.pc # "scan" => y.run \in Runs)
    BY ThreadStep, DataTypeStep DEF CInv, IInv, TypeOK, ThreadInv, DataTypes
  <2> QED BY <2>1, <2>2, <2>3
<1>2. AttemptInv(x) /\ Delta(t)
  BY Deltas DEF CInv
<1>3. /\ faults \in Nat /\ faults' \in Nat /\ faults <= faults'
      /\ lapses \in Nat /\ lapses' \in Nat /\ lapses <= lapses'
      /\ \A r \in Runs : begun[r] \in Nat /\ begun'[r] \in Nat /\ begun[r] <= begun'[r]
  BY Growing DEF CInv
<1>4. "scan" \notin Counting /\ "scan" \notin Started /\ Counting \intersect Started = {}
  BY DEF Counting, Started, Writing
<1> HIDE DEF x, y
<1> DEFINE Due(z) == /\ z.pc \in Counting => z.att <= begun'[z.run] + faults' + 1
                     /\ z.pc = "giveUp" => z.att > MaxAttempts
                     /\ z.pc \in Started => begun'[z.run] > 0
                     /\ z.lapsed => lapses' > 0
<1>5. SUFFICES Due(y)
  BY DEF AttemptInv, y
<1>6. Due(x)
  <2>1. ASSUME x.pc \in Counting PROVE x.att <= begun'[x.run] + faults' + 1
    <3>1. x.run \in Runs /\ x.att <= begun[x.run] + faults + 1
      BY <1>1, <1>2, <1>4, <2>1 DEF AttemptInv
    <3> QED BY <1>1, <1>3, <3>1
  <2>2. ASSUME x.pc \in Started PROVE begun'[x.run] > 0
    <3>1. x.run \in Runs /\ begun[x.run] > 0
      BY <1>1, <1>2, <1>4, <2>2 DEF AttemptInv
    <3> QED BY <1>3, <3>1
  <2>3. ASSUME x.lapsed PROVE lapses' > 0
    BY <1>2, <1>3, <2>3 DEF AttemptInv
  <2> QED BY <1>2, <2>1, <2>2, <2>3 DEF AttemptInv
<1>7. CASE y.pc = "scan" /\ ~y.lapsed
  BY <1>4, <1>7
<1>8. CASE /\ y.pc = x.pc /\ y.run = x.run /\ y.att = x.att
           /\ y.lapsed = x.lapsed \/ (y.lapsed = TRUE /\ lapses' = lapses + 1)
  BY <1>3, <1>6, <1>8
<1>9. CASE /\ x.pc = "scan" /\ y.pc \in Unlocked \union {"acquire"} /\ ~y.lapsed /\ y.run \in Runs
           /\ y.pc \in Counting => y.att = attempts[y.run] + 1
           /\ y.pc = "giveUp" => y.att > MaxAttempts
  <2>1. y.pc \notin Started
    BY <1>9, Places
  <2>2. attempts[y.run] \in Nat /\ attempts[y.run] <= begun[y.run] + faults
    BY <1>9, RunsAssumption DEF CInv, IInv, TypeOK, Counted
  <2>3. attempts[y.run] + 1 <= begun'[y.run] + faults' + 1
    BY <1>3, <1>9, <2>2
  <2> QED BY <1>9, <2>1, <2>3
<1>10. CASE /\ y.run = x.run /\ y.att = x.att /\ y.lapsed = x.lapsed
            /\ \/ x.pc = "exists" /\ y.pc \in {"giveUp", "acquire"}
                  /\ (y.pc = "giveUp" => y.att > MaxAttempts)
               \/ x.pc = "acquire" /\ y.pc = "mark" /\ lease[x.run] = NoTick
               \/ x.pc = "giveUp" /\ y.pc = "giveUpZ"
               \/ x.pc = "mark" /\ y.pc = "release"
               \/ x.pc \in Started /\ y.pc \in Started \union {"release"}
  BY <1>6, <1>10 DEF Counting, Started, Writing
<1>11. CASE /\ y.run = x.run /\ y.att = x.att /\ y.lapsed = x.lapsed
            /\ x.pc = "mark" /\ y.pc = "handler" /\ Written(t)
  <2>1. begun'[y.run] > 0
    <3>1. /\ x.run \in Runs /\ begun \in [Runs -> 0 .. MaxAttempts]
          /\ IF begun[x.run] < MaxAttempts THEN begun' = [begun EXCEPT ![x.run] = @ + 1]
             ELSE begun' = begun
      BY <1>1, <1>11 DEF x, Written, Counts, CInv, IInv, TypeOK
    <3> QED BY <1>3, <1>11, <3>1, RunsAssumption
  <2> QED BY <1>6, <1>11, <2>1 DEF Counting, Started, Writing
<1> QED BY <1>2, <1>7, <1>8, <1>9, <1>10, <1>11 DEF Delta, Shift, x, y

\* A hash carries a higher count only when the attempt was begun or the call
\* that wrote it was taken for a failure.
LEMMA WriteCounts ==
  ASSUME CInv, NEW t \in Threads, Written(t) \/ WriteFails(t), Write(t), Next
  PROVE  Counted'
<1> DEFINE s == th[t].run
<1>1. /\ th[t].pc # "scan" => s \in Runs
      /\ attempts \in [Runs -> 0 .. MaxAttempts] /\ status \in [Runs -> {"absent", "pending", "running", "completed", "failed"}]
      /\ begun \in [Runs -> 0 .. MaxAttempts]
  BY DEF CInv, IInv, TypeOK, ThreadInv
<1>2. /\ faults \in Nat /\ faults' \in Nat /\ faults <= faults'
      /\ \A r \in Runs : begun[r] \in Nat /\ begun'[r] \in Nat /\ begun[r] <= begun'[r]
  BY Growing DEF CInv
<1>3. \A r \in Runs : attempts[r] \in Nat /\ attempts[r] <= begun'[r] + faults'
  <2> TAKE r \in Runs
  <2>1. attempts[r] \in Nat /\ attempts[r] <= begun[r] + faults
    BY <1>1, RunsAssumption DEF CInv, Counted
  <2> QED BY <1>2, <2>1
<1>4. CASE th[t].pc # "mark"
  <2>1. attempts' = attempts \/ (s \in Runs /\ attempts' = [attempts EXCEPT ![s] = attempts[s]])
    <3>1. CASE MarkRunning(t)
      BY <1>4, <3>1 DEF MarkRunning
    <3>2. CASE MarkCompleted(t) \/ MarkFailedFinal(t) \/ MarkPendingRetry(t)
      BY <1>1, <3>2 DEF MarkCompleted, MarkFailedFinal, MarkPendingRetry, HSet
    <3>3. CASE RemovePending(t) \/ AddBackoff(t)
      BY <3>3 DEF RemovePending, AddBackoff, hash
    <3> QED BY <3>1, <3>2, <3>3 DEF Write
  <2>2. attempts' = attempts
    BY <1>1, <2>1
  <2> QED BY <1>3, <2>2 DEF Counted
<1>5. CASE th[t].pc = "mark"
  <2>1. s \in Runs /\ attempts' = [attempts EXCEPT ![s] = th[t].att]
    <3>1. MarkRunning(t)
      BY <1>5 DEF Write, MarkCompleted, MarkFailedFinal, MarkPendingRetry, RemovePending, AddBackoff
    <3> QED BY <1>1, <1>5, <3>1 DEF MarkRunning, HSet
  <2>2. th[t].att \in 1 .. MaxAttempts /\ th[t].att <= begun[s] + faults + 1
    <3>1. th[t].att \in 1 .. MaxAttempts
      BY <1>5 DEF CInv, IInv, ThreadInv, Holding
    <3>2. th[t].att <= begun[s] + faults + 1
      BY <1>5 DEF CInv, AttemptInv, Counting
    <3> QED BY <3>1, <3>2
  <2>3. th[t].att <= begun'[s] + faults'
    <3>1. CASE Written(t)
      <4>1. IF begun[s] < MaxAttempts THEN begun' = [begun EXCEPT ![s] = @ + 1] ELSE begun' = begun
        BY <1>5, <3>1 DEF Written, Counts
      <4>2. begun[s] \in 0 .. MaxAttempts /\ begun[s] \in Nat /\ begun'[s] \in Nat
        BY <1>1, <1>2, <2>1
      <4>3. CASE begun[s] < MaxAttempts
        <5>1. begun'[s] = begun[s] + 1
          BY <1>1, <2>1, <4>1, <4>3
        <5> QED BY <1>2, <2>2, <4>2, <5>1, RunsAssumption
      <4>4. CASE ~(begun[s] < MaxAttempts)
        <5>1. begun'[s] = MaxAttempts
          BY <4>1, <4>2, <4>4, RunsAssumption
        <5> QED BY <1>2, <2>2, <4>2, <5>1, RunsAssumption
      <4> QED BY <4>3, <4>4
    <3>2. CASE WriteFails(t)
      <4>1. begun' = begun /\ faults' = faults + 1
        BY <3>2 DEF WriteFails
      <4> QED BY <1>2, <2>1, <2>2, <4>1, RunsAssumption
    <3> QED BY <3>1, <3>2
  <2>4. \A r \in Runs : attempts'[r] = IF r = s THEN th[t].att ELSE attempts[r]
    BY <1>1, <2>1
  <2> HIDE DEF s
  <2> QED BY <1>3, <2>3, <2>4 DEF Counted
<1> QED BY <1>4, <1>5

LEMMA DataCounts ==
  ASSUME CInv, Next
  PROVE  Counted'
<1>1. \A r \in Runs : /\ begun'[r] \in Nat /\ faults' \in Nat
                      /\ attempts[r] \in Nat /\ attempts[r] <= begun'[r] + faults'
  <2> TAKE r \in Runs
  <2>1. attempts[r] \in Nat /\ attempts[r] <= begun[r] + faults
    BY RunsAssumption DEF CInv, Counted, IInv, TypeOK
  <2>2. IInv
    BY DEF CInv
  <2>3. /\ faults \in Nat /\ faults' \in Nat /\ faults <= faults'
        /\ begun[r] \in Nat /\ begun'[r] \in Nat /\ begun[r] <= begun'[r]
    BY <2>2, Growing
  <2> QED BY <2>1, <2>3
<1>2. attempts \in [Runs -> 0 .. MaxAttempts]
  BY DEF CInv, IInv, TypeOK
<1>3. ASSUME attempts' = attempts PROVE Counted'
  BY <1>1, <1>3 DEF Counted
<1>4. ASSUME NEW s \in Runs, attempts' = [attempts EXCEPT ![s] = 0] PROVE Counted'
  <2>1. \A r \in Runs : attempts'[r] = IF r = s THEN 0 ELSE attempts[r]
    BY <1>2, <1>4
  <2> QED BY <1>1, <2>1 DEF Counted
<1>5. CASE Fire
  BY <1>3, <1>5 DEF Fire, hash
<1>6. ASSUME NEW p \in Pods, PodNext(p) PROVE Counted'
  <2>1. CASE Enqueue(p) \/ EnqueueFails(p)
    <3>1. enq[p] \in Runs
      BY <2>1 DEF Enqueue, EnqueueFails, CInv, IInv, TypeOK
    <3>2. attempts' = attempts \/ attempts' = [attempts EXCEPT ![enq[p]] = 0]
      BY <2>1 DEF Enqueue, EnqueueFails, EnqueueRun, hash
    <3> QED BY <1>3, <1>4, <3>1, <3>2
  <2>2. CASE ~(Enqueue(p) \/ EnqueueFails(p))
    BY <1>3, <1>6, <2>2 DEF PodNext, Start, EnqueueTick, Stop, StopResolves, DrainTimeout,
       Exit, Crash, Vanish, hash
  <2> QED BY <2>1, <2>2
<1>7. ASSUME NEW t \in Threads, TickNext(t) PROVE Counted'
  <2>1. CASE Written(t) \/ WriteFails(t)
    <3>1. Write(t) \/ attempts' = attempts
      BY <2>1 DEF Written, WriteFails, hash
    <3> QED BY <1>3, <2>1, <3>1, WriteCounts
  <2>2. CASE ~(Written(t) \/ WriteFails(t))
    <3>1. ReadFails(t) \/ ReleaseFails(t) \/ (\E r \in Runs : Candidate(t, r)) => attempts' = attempts
      BY DEF ReadFails, ReleaseFails, Candidate, hash
    <3>2. ProcessTick(t) \/ LeaseExists(t) \/ Acquire(t) \/ Release(t) => attempts' = attempts
      BY DEF ProcessTick, LeaseExists, Acquire, Release, hash
    <3>3. HandlerReturns(t) \/ HandlerThrows(t) \/ HandlerTimesOut(t) => attempts' = attempts
      BY DEF HandlerReturns, HandlerThrows, HandlerTimesOut, hash
    <3> QED BY <1>3, <1>7, <2>2, <3>1, <3>2, <3>3 DEF TickNext, Step
  <2> QED BY <2>1, <2>2
<1>8. ASSUME NEW r \in Runs, TimeNext(r) PROVE Counted'
  BY <1>3, <1>4, <1>8 DEF TimeNext, LeaseExpires, LeaseLapses, HashExpires, Ages,
     BackoffElapses, hash
<1>9. ASSUME NEW p \in Pods, NEW r \in Runs, ZombieEnds(p, r) PROVE Counted'
  BY <1>3, <1>9 DEF ZombieEnds, hash
<1> QED BY <1>5, <1>6, <1>7, <1>8, <1>9 DEF Next

LEMMA KnownStep ==
  ASSUME CInv, Next
  PROVE  Known'
<1>1. Known /\ issued \subseteq issued'
  BY History DEF CInv
<1>2. status \in [Runs -> {"absent", "pending", "running", "completed", "failed"}]
  BY DEF CInv, IInv, TypeOK
<1>3. ASSUME settled' = settled, expired' = expired, status' = status PROVE Known'
  BY <1>1, <1>3 DEF Known
<1>4. CASE Fire
  BY <1>3, <1>4 DEF Fire, hash, history
<1>5. ASSUME NEW p \in Pods, PodNext(p) PROVE Known'
  <2>1. CASE Enqueue(p) \/ EnqueueFails(p)
    <3>1. settled' = settled /\ expired' = expired
      BY <2>1 DEF Enqueue, EnqueueFails
    <3>2. status' = status \/ (status' = [status EXCEPT ![enq[p]] = "pending"] /\ enq[p] \in issued')
      BY <2>1 DEF Enqueue, EnqueueFails, EnqueueRun, hash
    <3> QED BY <1>1, <1>2, <3>1, <3>2 DEF Known
  <2>2. CASE ~(Enqueue(p) \/ EnqueueFails(p))
    BY <1>3, <1>5, <2>2 DEF PodNext, Start, EnqueueTick, Stop, StopResolves, DrainTimeout,
       Exit, Crash, Vanish, hash, history
  <2> QED BY <2>1, <2>2
<1>6. ASSUME NEW t \in Threads, TickNext(t) PROVE Known'
  <2>1. CASE Written(t) \/ WriteFails(t)
    <3>1. th[t].pc # "scan" => th[t].run \in issued
      BY DEF CInv, IInv, ThreadInv
    <3>2. Write(t) => /\ settled' \subseteq settled \union {th[t].run} /\ th[t].pc # "scan"
                      /\ \/ status' = status
                         \/ \E s : status' = [status EXCEPT ![th[t].run] = s]
      BY DEF Write, MarkRunning, MarkCompleted, MarkFailedFinal, MarkPendingRetry, RemovePending,
         AddBackoff, HSet, hash
    <3>3. expired' = expired /\ (Write(t) \/ (settled' = settled /\ status' = status))
      BY <2>1 DEF Written, WriteFails, hash
    <3> QED BY <1>1, <1>2, <1>3, <3>1, <3>2, <3>3 DEF Known
  <2>2. CASE ~(Written(t) \/ WriteFails(t))
    <3> DEFINE Same == settled' = settled /\ expired' = expired /\ status' = status
    <3>1. ReadFails(t) \/ ReleaseFails(t) \/ (\E r \in Runs : Candidate(t, r)) => Same
      BY DEF ReadFails, ReleaseFails, Candidate, hash, history
    <3>2. ProcessTick(t) \/ LeaseExists(t) \/ Acquire(t) \/ Release(t) => Same
      BY DEF ProcessTick, LeaseExists, Acquire, Release, hash, history
    <3>3. HandlerReturns(t) \/ HandlerThrows(t) \/ HandlerTimesOut(t) => Same
      BY DEF HandlerReturns, HandlerThrows, HandlerTimesOut, hash, history
    <3> QED BY <1>3, <1>6, <2>2, <3>1, <3>2, <3>3 DEF TickNext, Step
  <2> QED BY <2>1, <2>2
<1>7. ASSUME NEW r \in Runs, TimeNext(r) PROVE Known'
  <2>1. CASE HashExpires(r)
    BY <1>1, <1>2, <2>1 DEF HashExpires, Known
  <2>2. CASE ~HashExpires(r)
    BY <1>3, <1>7, <2>2 DEF TimeNext, LeaseExpires, LeaseLapses, Ages, BackoffElapses, hash, history
  <2> QED BY <2>1, <2>2
<1>8. ASSUME NEW p \in Pods, NEW r \in Runs, ZombieEnds(p, r) PROVE Known'
  BY <1>3, <1>8 DEF ZombieEnds, hash, history
<1> QED BY <1>4, <1>5, <1>6, <1>7, <1>8 DEF Next

LEMMA NextCInv == CInv /\ [Next]_vars => CInv'
<1>1. ASSUME CInv, Next PROVE CInv'
  BY <1>1, NextIInv, CountedStep, DataCounts, KnownStep DEF CInv
<1>2. ASSUME CInv, UNCHANGED vars PROVE CInv'
  <2>1. IInv'
    BY <1>2, NextIInv DEF CInv
  <2>2. \A t \in Threads : AttemptInv(th[t])'
    BY <1>2 DEF CInv, AttemptInv, vars, history
  <2>3. Counted' /\ Known'
    BY <1>2 DEF CInv, Counted, Known, vars, hash, history
  <2> QED BY <2>1, <2>2, <2>3 DEF CInv
<1> QED BY <1>1, <1>2

LEMMA Attempts == Spec => []CInv
  BY InitCInv, NextCInv, PTL DEF Spec

-----------------------------------------------------------------------------
(* The promise *)

\* A run's crew is at most the holder of its lease.
LEMMA CrewHolds ==
  ASSUME LeaseCoversRun, NEW r \in Runs
  PROVE  Crew(r) \subseteq {lease[r]}
  BY DEF LeaseCoversRun, Crew

LEMMA CrewStep ==
  ASSUME IInv, Next, NEW r \in Runs
  PROVE  \/ Crew(r)' = Crew(r)
         \/ Crew(r)' = {}
         \/ r \in issued /\ Crew(r) = {} /\ \E w \in Threads : Crew(r)' = {w}
<1>1. Crew(r) \subseteq {lease[r]} /\ Crew(r)' \subseteq {lease'[r]}
  BY LeaseStep, CrewHolds DEF IInv, LeaseCoversRun, Crew
<1>2. ASSUME NEW w \in Threads, w \in Crew(r)', w \notin Crew(r)
      PROVE  r \in issued /\ Crew(r) = {}
  <2>1. th'[w].run = r /\ th'[w].pc \in Holding /\ ~th'[w].lapsed
    BY <1>2 DEF Crew, Executes
  <2>2. ~(th[w].run = r /\ th[w].pc \in Holding /\ ~th[w].lapsed)
    BY <1>2 DEF Crew, Executes
  <2>3. th[w].pc = "acquire" /\ th[w].run = r /\ lease[r] = NoTick
    <3>1. Delta(w)
      BY Deltas
    <3>2. CASE th'[w].pc = "scan" /\ ~th'[w].lapsed
      BY <2>1, <3>2, Kinds
    <3>3. CASE /\ th'[w].pc = th[w].pc /\ th'[w].run = th[w].run
               /\ th'[w].lapsed = th[w].lapsed \/ th'[w].lapsed = TRUE
      BY <2>1, <2>2, <3>3
    <3>4. CASE Shift(w, th[w], th'[w])
      BY <2>1, <2>2, <3>4, Places, Kinds DEF Shift
    <3> QED BY <3>1, <3>2, <3>3, <3>4 DEF Delta
  <2>4. r \in issued
    BY <2>3 DEF IInv, ThreadInv
  <2>5. Crew(r) = {}
    BY <1>1, <2>3, RunsAssumption DEF Crew
  <2> QED BY <2>4, <2>5
<1>3. Crew(r) \subseteq Threads /\ Crew(r)' \subseteq Threads
  BY DEF Crew
<1> QED BY <1>1, <1>2, <1>3

\* A status write changes nobody's lease and nobody's run.
LEMMA CrewStays ==
  ASSUME IInv, Next, NEW t \in Threads, Written(t) \/ WriteFails(t), NEW r \in Runs
  PROVE  Crew(r)' = Crew(r)
<1>1. th[t].pc \notin {"acquire", "release"}
  BY DEF Written, WriteFails, Write, MarkRunning, MarkCompleted, MarkFailedFinal,
     MarkPendingRetry, RemovePending, AddBackoff, Writing
<1>2. PICK y \in Thread : th' = [th EXCEPT ![t] = y] /\ Shift(t, th[t], y)
  BY TickShifts DEF TickShift, IInv, TickNext, Step
<1>3. \A u \in Threads : th'[u] = IF u = t THEN y ELSE th[u]
  BY <1>2, ThreadWrite DEF IInv, TypeOK
<1>4. ASSUME NEW u \in Threads
      PROVE  Executes(u, r)' /\ ~th'[u].lapsed <=> Executes(u, r) /\ ~th[u].lapsed
  <2>1. CASE u # t
    BY <1>3, <2>1 DEF Executes
  <2>2. CASE u = t
    <3>1. th'[t] = y
      BY <1>3
    <3>2. \/ y.pc \notin Holding /\ th[t].pc \notin Holding
          \/ /\ y.pc \in Holding /\ th[t].pc \in Holding
             /\ y.run = th[t].run /\ y.lapsed = th[t].lapsed
      BY <1>1, <1>2, Places, Kinds DEF Shift
    <3> QED BY <2>2, <3>1, <3>2 DEF Executes
  <2> QED BY <2>1, <2>2
<1> QED BY <1>4 DEF Crew

\* How far a run has come, from what has ever happened to it.
LEMMA Stages ==
  ASSUME CInv, NEW r \in Runs
  PROVE  /\ Stage(r) = "lost" <=> r \in expired
         /\ Stage(r) = "settled" <=> r \in settled \ expired
         /\ Stage(r) = "due" <=> r \in issued \ (settled \union expired)
         /\ Stage(r) = "new" <=> r \notin issued
  BY DEF CInv, Known, Stage

JobStep(r) ==
  J!Issue(r) \/ J!Enter(r) \/ J!Leave(r) \/ J!Begin(r) \/ J!Settle(r) \/ J!Lose(r) \/ J!Rest(r)

\* A step that neither issues, begins, settles nor loses the run.
LEMMA CrewMoves ==
  ASSUME CInv, Next, NEW r \in Runs, Stage(r)' = Stage(r), begun'[r] = begun[r]
  PROVE  JobStep(r)
<1>1. CASE Crew(r)' = Crew(r)
  BY <1>1 DEF J!Rest, JobStep
<1>2. CASE Crew(r)' = {}
  BY <1>2 DEF J!Leave, JobStep
<1>3. ASSUME r \in issued, Crew(r) = {}, NEW w \in Threads, Crew(r)' = {w} PROVE JobStep(r)
  BY <1>3, Stages DEF J!Enter, JobStep
<1> QED BY <1>1, <1>2, <1>3, CrewStep DEF CInv

\* Without news of a run, all that can change is who executes it.
LEMMA Uneventful ==
  ASSUME CInv, Next, NEW r \in Runs, UNCHANGED <<issued, settled, expired>>, begun'[r] = begun[r]
  PROVE  JobStep(r)
<1>1. Stage(r)' = Stage(r)
  BY DEF Stage
<1> QED BY <1>1, CrewMoves

LEMMA EnqueueIssues ==
  ASSUME CInv, CInv', Next, NEW p \in Pods, Enqueue(p) \/ EnqueueFails(p), NEW r \in Runs
  PROVE  JobStep(r)
<1>1. /\ th' = th /\ settled' = settled /\ expired' = expired /\ begun' = begun
      /\ \/ issued' = issued
         \/ status[enq[p]] = "absent" /\ issued' = issued \union {enq[p]}
  BY DEF Enqueue, EnqueueFails, EnqueueRun
<1>2. CASE issued' = issued \/ enq[p] # r \/ r \in issued
  <2>1. Stage(r)' = Stage(r)
    BY <1>1, <1>2 DEF Stage
  <2> QED BY <1>1, <2>1, CrewMoves
<1>3. CASE issued' = issued \union {r} /\ r \notin issued
  <2>1. Crew(r)' = Crew(r)
    BY <1>1 DEF Crew, Executes
  <2>2. Stage(r) = "new"
    BY <1>3, Stages
  <2>3. r \notin settled /\ r \notin expired
    BY <1>3 DEF CInv, Known
  <2>4. Stage(r)' = "due"
    BY <1>1, <1>3, <2>3 DEF Stage
  <2> QED BY <1>1, <2>1, <2>2, <2>4 DEF J!Issue, JobStep
<1> QED BY <1>1, <1>2, <1>3

\* An attempt begins under the run's lease, or after a mishap.
LEMMA WriteMans ==
  ASSUME CInv, NEW t \in Threads, th[t].pc \in Started \union {"mark"}
  PROVE  th[t].run \in issued /\ J!Manned(th[t].run)
<1>1. th[t].pc \in Holding /\ th[t].pc # "scan"
  BY Places, Kinds
<1>2. th[t].run \in issued /\ issued \subseteq Runs
  BY <1>1 DEF CInv, IInv, ThreadInv, TypeOK
<1>3. CASE ~th[t].lapsed
  <2>1. t \in Crew(th[t].run)
    BY <1>1, <1>3 DEF Crew, Executes
  <2> QED BY <1>2, <2>1 DEF J!Manned
<1>4. CASE th[t].lapsed
  <2>1. faults \in Nat /\ lapses \in Nat /\ lapses > 0
    BY <1>4, RunsAssumption DEF CInv, AttemptInv, IInv, TypeOK
  <2> QED BY <1>2, <2>1 DEF J!Manned
<1> QED BY <1>3, <1>4

\* Marking a run running begins an attempt of it.
LEMMA MarkBegins ==
  ASSUME CInv, CInv', Next, NEW t \in Threads, Written(t), th[t].pc = "mark", NEW r \in Runs
  PROVE  JobStep(r)
<1>1. UNCHANGED <<issued, settled, expired>> /\ Counts(t)
  BY DEF Written, Write, MarkRunning, MarkCompleted, MarkFailedFinal, MarkPendingRetry,
     RemovePending, AddBackoff, Writing
<1>2. begun \in [Runs -> 0 .. MaxAttempts]
  BY DEF CInv, IInv, TypeOK
<1>3. CASE r # th[t].run
  <2>1. begun'[r] = begun[r]
    BY <1>1, <1>2, <1>3 DEF Counts
  <2> QED BY <1>1, <2>1, Uneventful
<1>4. CASE r = th[t].run
  <2>1. r \in issued /\ J!Manned(r)
    BY <1>4, WriteMans
  <2>2. begun'[r] = IF begun[r] < MaxAttempts THEN begun[r] + 1 ELSE begun[r]
    BY <1>1, <1>2, <1>4 DEF Counts
  <2>3. Stage(r)' = Stage(r) /\ Crew(r)' = Crew(r) /\ Stage(r) # "new"
    <3>1. Stage(r)' = Stage(r)
      BY <1>1 DEF Stage
    <3>2. Crew(r)' = Crew(r)
      BY CrewStays DEF CInv
    <3> QED BY <2>1, <3>1, <3>2, Stages
  <2> QED BY <2>1, <2>2, <2>3 DEF J!Begin, JobStep
<1> QED BY <1>3, <1>4

\* A run is marked completed or failed by a tick that attempted it, or by one
\* that counted all its attempts.
LEMMA WriteSettles ==
  ASSUME CInv, CInv', Next, NEW t \in Threads, Written(t) \/ WriteFails(t),
         ~(Written(t) /\ th[t].pc = "mark"), NEW r \in Runs
  PROVE  JobStep(r)
<1>1. issued' = issued /\ expired' = expired /\ begun' = begun
  BY DEF Written, WriteFails, Counts
<1>2. \/ settled' = settled
      \/ settled' = settled \union {th[t].run} /\ th[t].pc \in {"completed", "failed", "giveUp"}
  BY DEF Written, WriteFails, Write, MarkRunning, MarkCompleted, MarkFailedFinal,
     MarkPendingRetry, RemovePending, AddBackoff
<1>3. CASE settled' = settled \/ r # th[t].run \/ Stage(r) # "due"
  <2>1. CASE settled' = settled
    BY <1>1, <2>1, Uneventful
  <2>2. CASE /\ settled' = settled \union {th[t].run}
             /\ th[t].pc \in {"completed", "failed", "giveUp"}
             /\ r # th[t].run \/ Stage(r) # "due"
    <3>1. th[t].run \in issued
      BY <2>2 DEF CInv, IInv, ThreadInv
    <3>2. Stage(r)' = Stage(r)
      BY <1>1, <2>2, <3>1, Stages DEF Stage
    <3> QED BY <1>1, <3>2, CrewMoves
  <2> QED BY <1>2, <1>3, <2>1, <2>2
<1>4. CASE /\ settled' = settled \union {th[t].run}
           /\ th[t].pc \in {"completed", "failed", "giveUp"}
           /\ r = th[t].run /\ Stage(r) = "due"
  <2>1. Crew(r)' = Crew(r)
    BY CrewStays DEF CInv
  <2>2. Stage(r)' = "settled"
    <3>1. r \notin expired
      BY <1>4, Stages
    <3> QED BY <1>1, <1>4, <3>1 DEF Stage
  <2>3. (J!Manned(r) /\ begun[r] > 0) \/ begun[r] + (faults + lapses) >= MaxAttempts
    <3>1. CASE th[t].pc \in {"completed", "failed"}
      <4>1. th[t].pc \in Started
        BY <3>1 DEF Started, Writing
      <4> QED BY <1>4, <4>1, WriteMans DEF CInv, AttemptInv
    <3>2. CASE th[t].pc = "giveUp"
      <4>1. th[t].att > MaxAttempts /\ th[t].att <= begun[r] + faults + 1
        BY <1>4, <3>2 DEF CInv, AttemptInv, Counting
      <4>2. /\ begun[r] \in Nat /\ faults \in Nat /\ lapses \in Nat /\ th[t].att \in Nat
        BY ThreadFields, RunsAssumption DEF CInv, IInv, TypeOK
      <4> QED BY <4>1, <4>2, RunsAssumption
    <3> QED BY <1>4, <3>1, <3>2
  <2> QED BY <1>1, <1>4, <2>1, <2>2, <2>3 DEF J!Settle, JobStep
<1> QED BY <1>2, <1>3, <1>4

LEMMA ExpiryLoses ==
  ASSUME CInv, CInv', Next, NEW s \in Runs, HashExpires(s), NEW r \in Runs
  PROVE  JobStep(r)
<1>1. /\ th' = th /\ begun' = begun /\ issued' = issued /\ settled' = settled
      /\ expired' = expired \union {s} /\ s \in issued
  BY DEF HashExpires, CInv, Known
<1>2. CASE r # s
  <2>1. Stage(r)' = Stage(r)
    BY <1>1, <1>2 DEF Stage
  <2> QED BY <1>1, <2>1, CrewMoves
<1>3. CASE r = s
  <2>1. Crew(r)' = Crew(r)
    BY <1>1 DEF Crew, Executes
  <2>2. Stage(r)' = "lost" /\ Stage(r) # "new"
    BY <1>1, <1>3, Stages DEF Stage
  <2> QED BY <1>1, <2>1, <2>2 DEF J!Lose, JobStep
<1> QED BY <1>2, <1>3

\* Every step is a step of Job for every run.
LEMMA JobSteps ==
  ASSUME CInv, CInv', Next, NEW r \in Runs
  PROVE  JobStep(r)
<1>1. ASSUME UNCHANGED history PROVE JobStep(r)
  BY <1>1, Uneventful DEF history
<1>2. CASE Fire
  BY <1>1, <1>2 DEF Fire
<1>3. ASSUME NEW p \in Pods, PodNext(p) PROVE JobStep(r)
  <2>1. CASE Enqueue(p) \/ EnqueueFails(p)
    BY <2>1, EnqueueIssues
  <2>2. CASE ~(Enqueue(p) \/ EnqueueFails(p))
    BY <1>1, <1>3, <2>2 DEF PodNext, Start, EnqueueTick, Stop, StopResolves, DrainTimeout,
       Exit, Crash, Vanish
  <2> QED BY <2>1, <2>2
<1>4. ASSUME NEW t \in Threads, TickNext(t) PROVE JobStep(r)
  <2>1. CASE Written(t) /\ th[t].pc = "mark"
    BY <2>1, MarkBegins
  <2>2. CASE (Written(t) \/ WriteFails(t)) /\ ~(Written(t) /\ th[t].pc = "mark")
    BY <2>2, WriteSettles
  <2>3. CASE ~(Written(t) \/ WriteFails(t))
    <3>1. ReadFails(t) \/ ReleaseFails(t) \/ (\E s \in Runs : Candidate(t, s)) => UNCHANGED history
      BY DEF ReadFails, ReleaseFails, Candidate
    <3>2. ProcessTick(t) \/ LeaseExists(t) \/ Acquire(t) \/ Release(t) => UNCHANGED history
      BY DEF ProcessTick, LeaseExists, Acquire, Release
    <3>3. HandlerReturns(t) \/ HandlerThrows(t) \/ HandlerTimesOut(t) => UNCHANGED history
      BY DEF HandlerReturns, HandlerThrows, HandlerTimesOut
    <3> QED BY <1>1, <1>4, <2>3, <3>1, <3>2, <3>3 DEF TickNext, Step
  <2> QED BY <2>1, <2>2, <2>3
<1>5. ASSUME NEW s \in Runs, TimeNext(s) PROVE JobStep(r)
  <2>1. CASE HashExpires(s)
    BY <2>1, ExpiryLoses
  <2>2. CASE ~HashExpires(s)
    BY <1>1, <1>5, <2>2 DEF TimeNext, LeaseExpires, LeaseLapses, Ages, BackoffElapses
  <2> QED BY <2>1, <2>2
<1>6. ASSUME NEW p \in Pods, NEW s \in Runs, ZombieEnds(p, s) PROVE JobStep(r)
  BY <1>1, <1>6 DEF ZombieEnds
<1> QED BY <1>2, <1>3, <1>4, <1>5, <1>6 DEF Next

\* The manager keeps the promise of Job for any number of pods and ticks: a
\* run is executed by one tick at a time, settled only after an attempt of it
\* was begun and given up only after all of them, up to what failed calls and
\* lapsed leases may cost.
THEOREM Implementation == Spec => JobSpec
<1>1. Init => J!Init
  <2> SUFFICES ASSUME Init PROVE J!Init
    OBVIOUS
  <2>1. \A r \in Runs : Stage(r) = "new" /\ Crew(r) = {}
    BY DEF Init, Stage, Crew, Executes, Idle, Holding, Writing
  <2> QED BY <2>1 DEF Init, J!Init
<1>2. CInv /\ [Next]_vars /\ CInv' =>
        [J!Next]_<<[r \in Runs |-> Stage(r)], begun, [r \in Runs |-> Crew(r)], faults + lapses>>
  <2>1. ASSUME CInv, CInv', Next PROVE J!Next
    <3>1. (faults + lapses)' >= faults + lapses
      BY <2>1, Growing DEF CInv
    <3>2. \A r \in Runs : JobStep(r)
      BY <2>1, JobSteps
    <3> QED BY <3>1, <3>2 DEF J!Next, JobStep
  <2>2. ASSUME UNCHANGED vars
        PROVE  UNCHANGED <<[r \in Runs |-> Stage(r)], begun, [r \in Runs |-> Crew(r)], faults + lapses>>
    BY <2>2 DEF vars, history, Stage, Crew, Executes
  <2> QED BY <2>1, <2>2
<1> QED BY <1>1, <1>2, Attempts, PTL DEF Spec, JobSpec, J!Spec

-----------------------------------------------------------------------------
(* What is over stays over *)

\* The run is marked completed or failed, and no tick has read its hash before
\* that and is still on its way to the lease or under it.
Over(r) ==
  /\ status[r] \in {"completed", "failed"}
  /\ \A t \in Threads : th[t].run = r => th[t].pc \in {"scan", "cleanup"}

\* Nothing but the hash's TTL opens such a run again.
StaysOver == \A r \in Runs : Over(r) => Over(r)' \/ status'[r] = "absent"

LEMMA NobodyReturns ==
  ASSUME IInv, Next, NEW r \in Runs, Over(r), NEW t \in Threads, th'[t].run = r
  PROVE  th'[t].pc \in {"scan", "cleanup"}
<1>1. th[t].run = r => th[t].pc \in {"scan", "cleanup"}
  BY DEF Over
<1>2. CASE Shift(t, th[t], th'[t])
  BY <1>1, <1>2, Places DEF Shift, Over, Counting, Unlocked, Started, Writing
<1> QED BY <1>1, <1>2, Deltas DEF Delta

\* A write changes the status of a run only through a tick that is about it.
LEMMA OtherWrites ==
  ASSUME TypeOK, NEW t \in Threads, Write(t), NEW r \in Runs,
         th[t].run = r => th[t].pc \in {"scan", "cleanup"}
  PROVE  status'[r] = status[r]
<1>1. CASE RemovePending(t) \/ AddBackoff(t)
  BY <1>1 DEF RemovePending, AddBackoff, hash
<1>2. CASE MarkRunning(t) \/ MarkCompleted(t) \/ MarkFailedFinal(t) \/ MarkPendingRetry(t)
  <2>1. th[t].run # r
    BY <1>2 DEF MarkRunning, MarkCompleted, MarkFailedFinal, MarkPendingRetry
  <2>2. \E s : status' = [status EXCEPT ![th[t].run] = s]
    BY <1>2 DEF MarkRunning, MarkCompleted, MarkFailedFinal, MarkPendingRetry, HSet
  <2> QED BY <2>1, <2>2 DEF TypeOK
<1> QED BY <1>1, <1>2 DEF Write

LEMMA StatusStays ==
  ASSUME IInv, Next, NEW r \in Runs, Over(r), status'[r] # "absent"
  PROVE  status'[r] = status[r]
<1>1. status \in [Runs -> {"absent", "pending", "running", "completed", "failed"}]
      /\ status[r] # "absent"
  BY DEF IInv, TypeOK, Over
<1>2. CASE Fire
  BY <1>2 DEF Fire, hash
<1>3. ASSUME NEW p \in Pods, PodNext(p) PROVE status'[r] = status[r]
  <2>1. CASE Enqueue(p) \/ EnqueueFails(p)
    <3>1. EnqueueRun(enq[p]) \/ UNCHANGED hash
      BY <2>1 DEF Enqueue, EnqueueFails
    <3>2. ASSUME EnqueueRun(enq[p]) PROVE status'[r] = status[r]
      BY <1>1, <3>2 DEF EnqueueRun, hash
    <3> QED BY <3>1, <3>2 DEF hash
  <2>2. CASE ~(Enqueue(p) \/ EnqueueFails(p))
    BY <1>3, <2>2 DEF PodNext, Start, EnqueueTick, Stop, StopResolves, DrainTimeout,
       Exit, Crash, Vanish, hash
  <2> QED BY <2>1, <2>2
<1>4. ASSUME NEW t \in Threads, TickNext(t) PROVE status'[r] = status[r]
  <2>1. Write(t) => status'[r] = status[r]
    BY OtherWrites DEF IInv, Over
  <2>2. CASE Written(t) \/ WriteFails(t)
    BY <2>1, <2>2 DEF Written, WriteFails, hash
  <2>3. CASE ~(Written(t) \/ WriteFails(t))
    BY <1>4, <2>3 DEF TickNext, Step, ProcessTick, Candidate, LeaseExists, Acquire, Release,
       HandlerReturns, HandlerThrows, HandlerTimesOut, ReadFails, ReleaseFails, hash
  <2> QED BY <2>2, <2>3
<1>5. ASSUME NEW s \in Runs, TimeNext(s) PROVE status'[r] = status[r]
  <2>1. CASE HashExpires(s)
    BY <1>1, <2>1 DEF HashExpires
  <2>2. CASE ~HashExpires(s)
    BY <1>5, <2>2 DEF TimeNext, LeaseExpires, LeaseLapses, Ages, BackoffElapses, hash
  <2> QED BY <2>1, <2>2
<1>6. ASSUME NEW p \in Pods, NEW s \in Runs, ZombieEnds(p, s) PROVE status'[r] = status[r]
  BY <1>6 DEF ZombieEnds, hash
<1> QED BY <1>2, <1>3, <1>4, <1>5, <1>6 DEF Next

\* A run that is settled, and that no tick has on its way, is never executed
\* again before its hash expires, whoever crashes, retries or enqueues: what is
\* executed twice is executed by a tick that had read the hash before.
THEOREM Retirement == Spec => [][StaysOver]_vars
<1>1. IInv /\ [Next]_vars => [StaysOver]_vars
  <2> SUFFICES ASSUME IInv, Next PROVE StaysOver
    OBVIOUS
  <2> SUFFICES ASSUME NEW r \in Runs, Over(r), status'[r] # "absent" PROVE Over(r)'
    BY DEF StaysOver
  <2>1. status'[r] = status[r]
    BY StatusStays
  <2>2. \A t \in Threads : th'[t].run = r => th'[t].pc \in {"scan", "cleanup"}
    BY NobodyReturns
  <2> QED BY <2>1, <2>2 DEF Over
<1> QED BY <1>1, Invariant, PTL DEF Spec

-----------------------------------------------------------------------------
(* How many may execute a run *)

Lapsed == {t \in Threads : th[t].lapsed}
Executors(r) == {t \in Threads : Executes(t, r)}

FewExecute ==
  \A r \in Runs : IsFiniteSet(Executors(r)) /\ Cardinality(Executors(r)) <= 1 + lapses

LapsesCounted == IsFiniteSet(Lapsed) /\ Cardinality(Lapsed) <= lapses

\* A lease runs out under one tick at a time.
LEMMA LapseStep ==
  ASSUME IInv, Next
  PROVE  \/ Lapsed' \subseteq Lapsed /\ lapses' = lapses
         \/ \E u \in Threads : Lapsed' \subseteq Lapsed \union {u} /\ lapses' = lapses + 1
<1>1. th \in [Threads -> Thread] /\ lapses \in Nat
  BY RunsAssumption DEF IInv, TypeOK
<1>2. ASSUME NEW r \in Runs, LeaseLapses(r)
      PROVE  \E u \in Threads : Lapsed' \subseteq Lapsed \union {u} /\ lapses' = lapses + 1
  <2>1. lease[r] \in Threads /\ lapses' = lapses + 1
    BY <1>2 DEF LeaseLapses, IInv, TypeOK
  <2>2. \A t \in Threads : t # lease[r] => th'[t] = th[t]
    BY <1>1, <1>2 DEF LeaseLapses
  <2>3. Lapsed' \subseteq Lapsed \union {lease[r]}
    BY <2>2 DEF Lapsed
  <2> QED BY <2>1, <2>3
<1>3. ASSUME lapses' = lapses PROVE Lapsed' \subseteq Lapsed
  <2>1. \A t \in Threads : Delta(t)
    BY Deltas
  <2>2. \A t \in Threads : th'[t].lapsed => th[t].lapsed
    BY <1>1, <1>3, <2>1 DEF Delta, Shift
  <2> QED BY <2>2 DEF Lapsed
<1>4. CASE \A r \in Runs : ~LeaseLapses(r)
  <2>1. CASE Fire
    BY <1>3, <2>1 DEF Fire
  <2>2. ASSUME NEW p \in Pods, PodNext(p) PROVE lapses' = lapses
    BY <2>2 DEF PodNext, Start, EnqueueTick, Enqueue, EnqueueFails, Stop, StopResolves,
       DrainTimeout, Exit, Crash, Vanish
  <2>3. ASSUME NEW t \in Threads, TickNext(t) PROVE lapses' = lapses
    BY <2>3 DEF TickNext, Step, ProcessTick, Candidate, LeaseExists, Acquire, Written, Release,
       HandlerReturns, HandlerThrows, HandlerTimesOut, WriteFails, ReadFails, ReleaseFails
  <2>4. ASSUME NEW r \in Runs, TimeNext(r) PROVE lapses' = lapses
    BY <1>4, <2>4 DEF TimeNext, LeaseExpires, HashExpires, Ages, BackoffElapses
  <2>5. ASSUME NEW p \in Pods, NEW r \in Runs, ZombieEnds(p, r) PROVE lapses' = lapses
    BY <2>5 DEF ZombieEnds
  <2> QED BY <1>3, <2>1, <2>2, <2>3, <2>4, <2>5 DEF Next
<1> QED BY <1>2, <1>4

LEMMA NextLapsesCounted == IInv /\ LapsesCounted /\ [Next]_vars => LapsesCounted'
<1> SUFFICES ASSUME IInv, LapsesCounted, [Next]_vars PROVE LapsesCounted'
  OBVIOUS
<1>1. lapses \in Nat
  BY RunsAssumption DEF IInv, TypeOK
<1>2. CASE UNCHANGED vars
  BY <1>2 DEF vars, LapsesCounted, Lapsed
<1>3. CASE Lapsed' \subseteq Lapsed /\ lapses' = lapses
  <2>1. IsFiniteSet(Lapsed') /\ Cardinality(Lapsed') <= Cardinality(Lapsed)
    BY <1>3, FS_Subset DEF LapsesCounted
  <2>2. Cardinality(Lapsed) \in Nat /\ Cardinality(Lapsed') \in Nat
    BY <2>1, FS_CardinalityType DEF LapsesCounted
  <2> QED BY <1>1, <1>3, <2>1, <2>2 DEF LapsesCounted
<1>4. ASSUME NEW u \in Threads, Lapsed' \subseteq Lapsed \union {u}, lapses' = lapses + 1
      PROVE  LapsesCounted'
  <2>1. /\ IsFiniteSet(Lapsed \union {u})
        /\ Cardinality(Lapsed \union {u}) \in {Cardinality(Lapsed), Cardinality(Lapsed) + 1}
    BY FS_AddElement DEF LapsesCounted
  <2>2. IsFiniteSet(Lapsed') /\ Cardinality(Lapsed') <= Cardinality(Lapsed \union {u})
    BY <1>4, <2>1, FS_Subset
  <2>3. Cardinality(Lapsed) \in Nat /\ Cardinality(Lapsed') \in Nat
    BY <2>2, FS_CardinalityType DEF LapsesCounted
  <2> QED BY <1>1, <1>4, <2>1, <2>2, <2>3 DEF LapsesCounted
<1> QED BY <1>2, <1>3, <1>4, LapseStep

\* No more ticks execute a run than one and as many as have lost a lease while
\* they executed, however often pods crash and calls fail.
THEOREM Crowd == Spec => []FewExecute
<1>1. Init => LapsesCounted
  <2> SUFFICES ASSUME Init PROVE LapsesCounted
    OBVIOUS
  <2>1. Lapsed = {}
    BY DEF Init, Idle, Lapsed
  <2>2. IsFiniteSet({}) /\ Cardinality({}) = 0
    BY FS_EmptySet
  <2> QED BY <2>1, <2>2 DEF Init, LapsesCounted
<1>2. IInv /\ LapsesCounted => FewExecute
  <2> SUFFICES ASSUME IInv, LapsesCounted, NEW r \in Runs
               PROVE  IsFiniteSet(Executors(r)) /\ Cardinality(Executors(r)) <= 1 + lapses
    BY DEF FewExecute
  <2>1. Executors(r) \subseteq Lapsed \union {lease[r]}
    BY DEF IInv, LeaseCoversRun, Executors, Lapsed
  <2>2. /\ IsFiniteSet(Lapsed \union {lease[r]})
        /\ Cardinality(Lapsed \union {lease[r]}) \in {Cardinality(Lapsed), Cardinality(Lapsed) + 1}
    BY FS_AddElement DEF LapsesCounted
  <2>3. /\ IsFiniteSet(Executors(r))
        /\ Cardinality(Executors(r)) <= Cardinality(Lapsed \union {lease[r]})
    BY <2>1, <2>2, FS_Subset
  <2>4. Cardinality(Lapsed) \in Nat /\ Cardinality(Executors(r)) \in Nat /\ lapses \in Nat
    BY <2>3, FS_CardinalityType, RunsAssumption DEF LapsesCounted, IInv, TypeOK
  <2> QED BY <2>2, <2>3, <2>4 DEF LapsesCounted
<1> QED BY <1>1, <1>2, NextLapsesCounted, Invariant, PTL DEF Spec

=============================================================================
