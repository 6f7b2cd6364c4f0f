------------------------------- MODULE Redlock -------------------------------
(***************************************************************************)
(* The distributed lock of backend/src/lib/red-lock/index.ts on one        *)
(* resource.                                                               *)
(*                                                                         *)
(* A lock is one call of using(): it draws a random value, asks every      *)
(* Redis node to set the resource's key to it, runs a routine once a       *)
(* quorum agreed, extends the key from a timer while the routine runs and  *)
(* deletes it at the end.  A script is sent to all nodes at once; requests *)
(* of one lock to one node may be executed out of order, because a script  *)
(* that the node does not know yet is sent a second time (evalsha, then    *)
(* eval), and a client that lost its connection does not know whether the  *)
(* node will still execute what it sent.                                   *)
(*                                                                         *)
(* Time is relative: what is left of each key, what is left of each lock's *)
(* validity as its owner computes it, and the age of the running attempt.  *)
(* A node may drop a key up to Drift ticks early, or keep it longer.       *)
(***************************************************************************)
EXTENDS Integers, FiniteSets

CONSTANTS
  Nodes,      \* Redis clients of the Redlock instance
  Locks,      \* calls of using()
  Flights,    \* attempts of one lock that may have requests in flight at a time
  NoLock,     \* value of the resource's key where it does not exist
  Duration,   \* TTL asked for
  Drift,      \* Math.round(driftFactor * duration) + 2
  Threshold,  \* automaticExtensionThreshold
  MaxTries,   \* retryCount + 1 of the Redlock instance
  AcquireTries, \* retryCount + 1 of the settings given to using()
  MaxFaults   \* bound: lost connections and crashed processes

ASSUME RedlockAssumption ==
  /\ IsFiniteSet(Nodes)
  /\ NoLock \notin Locks
  /\ Flights \in Nat
  /\ Duration \in Nat
  /\ Drift \in Nat
  /\ Drift < Duration
  /\ Threshold \in Nat
  /\ Threshold < Duration
  /\ MaxTries \in Nat \ {0}
  /\ AcquireTries \in Nat \ {0}
  /\ MaxFaults \in Nat

VARIABLES
  owner,     \* node: the value of the resource's key
  left,      \* node: what is left of the key's TTL
  requests,  \* scripts sent and not executed
  pc,        \* lock: where using() is
  ext,       \* lock: the extension timer
  exec,      \* lock: the attempt _execute waits for, Delay between two, or None
  tries,     \* lock: attempts of this _execute
  yes, no,   \* lock: votes of the current attempt
  since,     \* lock: age of the current acquire or extension, up to Expired
  valid,     \* lock: lock.expiration - Date.now(), counted down to -1
  aborted,   \* locks whose routine has been told
  faults     \* counter for the bound

nodeVars == <<owner, left>>
voteVars == <<exec, tries, yes, no, since>>
vars == <<nodeVars, requests, pc, ext, voteVars, valid, aborted, faults>>

-----------------------------------------------------------------------------
(* Types *)

\* An attempt is known by a number that no request in flight of the lock bears.
Attempts == 1 .. Flights

None == 0
Delay == -1

Request == [lock : Locks, node : Nodes, op : {"acquire", "extend", "release"},
            attempt : Attempts]

Phases == {"idle", "acquiring", "undoing", "failed",
           "running", "finishing", "releasing", "done", "dead"}

MostTries == IF AcquireTries > MaxTries THEN AcquireTries ELSE MaxTries

Expired == Duration - Drift + 1

TypeOK ==
  /\ owner \in [Nodes -> Locks \union {NoLock}]
  /\ left \in [Nodes -> 0 .. Duration]
  /\ requests \subseteq Request
  /\ pc \in [Locks -> Phases]
  /\ ext \in [Locks -> {"off", "timer", "extending"}]
  /\ exec \in [Locks -> Attempts \union {None, Delay}]
  /\ tries \in [Locks -> 0 .. MostTries]
  /\ yes \in [Locks -> SUBSET Nodes]
  /\ no \in [Locks -> SUBSET Nodes]
  /\ since \in [Locks -> 0 .. Expired]
  /\ valid \in [Locks -> -1 .. Duration - Drift]
  /\ aborted \subseteq Locks
  /\ faults \in 0 .. MaxFaults

Init ==
  /\ owner = [n \in Nodes |-> NoLock]
  /\ left = [n \in Nodes |-> 0]
  /\ requests = {}
  /\ pc = [a \in Locks |-> "idle"]
  /\ ext = [a \in Locks |-> "off"]
  /\ exec = [a \in Locks |-> None]
  /\ tries = [a \in Locks |-> 0]
  /\ yes = [a \in Locks |-> {}]
  /\ no = [a \in Locks |-> {}]
  /\ since = [a \in Locks |-> 0]
  /\ valid = [a \in Locks |-> -1]
  /\ aborted = {}
  /\ faults = 0

-----------------------------------------------------------------------------
(* Helpers *)

\* Seeded fault: half of the nodes are enough.
HalfIsQuorum(S) == Cardinality(S) >= Cardinality(Nodes) \div 2

\* quorumSize
IsQuorum(S) == Cardinality(S) >= (Cardinality(Nodes) \div 2) + 1

\* The lock is asked for or held: its attempts are acquires and extensions.
Owning == {"acquiring", "running", "finishing"}

\* The lock tells its owner that the resource is its own.
Holds(a) == pc[a] \in {"running", "finishing"} /\ valid[a] > 0

\* The script _execute is running for the lock.
Script(a) ==
  IF pc[a] = "acquiring" THEN "acquire"
  ELSE IF pc[a] \in {"running", "finishing"} THEN "extend" ELSE "release"

\* The settings of the call go to acquire only; the release of a failed
\* acquire asks for retryCount 0.
TriesOf(a) ==
  IF pc[a] = "acquiring" THEN AcquireTries ELSE IF pc[a] = "undoing" THEN 1 ELSE MaxTries

InFlight(a, t) == \E r \in requests : r.lock = a /\ r.attempt = t

\* One attempt: the script goes to every node and the votes start from zero.
Send(a, op, k) ==
  \E t \in Attempts :
    /\ ~InFlight(a, t)
    /\ \A u \in 1 .. t - 1 : InFlight(a, u)
    /\ requests' = requests \union
         {[lock |-> a, node |-> n, op |-> op, attempt |-> t] : n \in Nodes}
    /\ exec' = [exec EXCEPT ![a] = t]
    /\ tries' = [tries EXCEPT ![a] = k]
    /\ yes' = [yes EXCEPT ![a] = {}]
    /\ no' = [no EXCEPT ![a] = {}]
    /\ since' = [since EXCEPT ![a] = 0]

\* The end of an attempt; later replies to it are of no consequence.
Close(a, to, k) ==
  /\ exec' = [exec EXCEPT ![a] = to]
  /\ yes' = [yes EXCEPT ![a] = {}]
  /\ no' = [no EXCEPT ![a] = {}]
  /\ since' = [since EXCEPT ![a] = 0]
  /\ tries' = [tries EXCEPT ![a] = k]
  /\ UNCHANGED requests

\* A reply to this request still counts.
Awaited(r) ==
  /\ exec[r.lock] = r.attempt
  /\ r.node \notin no[r.lock]

-----------------------------------------------------------------------------
(* Seeded faults: each stands for a slip in the definition it is named after, *)
(* and is used only to see that a property notices it.                        *)

\* The EXTEND script sets a key that has expired.
AcceptsLateExtend(n, r) ==
  \/ owner[n] = IF r.op = "acquire" THEN NoLock ELSE r.lock
  \/ r.op = "extend" /\ owner[n] = NoLock

\* The key is set without PX.
ExpireNever(n) == FALSE /\ UNCHANGED vars

\* Validity is counted from the reply.
RemainingFromReply(a) == Duration - Drift

\* One attempt more than retryCount + 1.
RetryOnceMore(a) ==
  /\ exec[a] \in Attempts
  /\ IsQuorum(no[a])
  /\ tries[a] <= TriesOf(a)
  /\ Close(a, Delay, tries[a])
  /\ UNCHANGED <<nodeVars, pc, ext, valid, aborted, faults>>

\* A failed release is started over.
ReleaseDeniedAgain(a) ==
  /\ exec[a] \in Attempts
  /\ IsQuorum(no[a])
  /\ pc[a] \in {"undoing", "releasing"}
  /\ Send(a, "release", 1)
  /\ UNCHANGED <<nodeVars, pc, ext, valid, aborted, faults>>

\* The error of extending an expired lock is dropped.
TimerFiresSilently(a) ==
  /\ pc[a] = "running"
  /\ ext[a] = "timer"
  /\ valid[a] <= Threshold
  /\ \/ /\ valid[a] >= 0
        /\ ext' = [ext EXCEPT ![a] = "extending"]
        /\ Send(a, "extend", 1)
     \/ /\ valid[a] < 0
        /\ ext' = [ext EXCEPT ![a] = "off"]
        /\ UNCHANGED <<requests, voteVars>>
  /\ UNCHANGED <<nodeVars, pc, valid, aborted, faults>>

-----------------------------------------------------------------------------
(* Redis nodes *)

\* ACQUIRE_SCRIPT wants no key; EXTEND_SCRIPT and RELEASE_SCRIPT want the
\* lock's own value in it.
Accepts(n, r) == owner[n] = IF r.op = "acquire" THEN NoLock ELSE r.lock

\* A node executes a script and its vote reaches the client.
Execute(r) ==
  LET n == r.node
      a == r.lock
  IN /\ requests' = requests \ {r}
     /\ IF Accepts(n, r)
        THEN /\ owner' = [owner EXCEPT ![n] = IF r.op = "release" THEN NoLock ELSE a]
             /\ left' = [left EXCEPT ![n] = IF r.op = "release" THEN 0 ELSE Duration]
        ELSE UNCHANGED nodeVars
     /\ IF ~Awaited(r) THEN UNCHANGED <<yes, no>>
        ELSE IF Accepts(n, r) THEN yes' = [yes EXCEPT ![a] = @ \union {n}] /\ UNCHANGED no
        ELSE no' = [no EXCEPT ![a] = @ \union {n}] /\ UNCHANGED yes
     /\ UNCHANGED <<pc, ext, exec, tries, since, valid, aborted, faults>>

\* The client loses its connection and counts the node against; the node
\* executes the script later, or never.
ConnectionLost(r) ==
  /\ faults < MaxFaults
  /\ Awaited(r)
  /\ requests' \in {requests, requests \ {r}}
  /\ no' = [no EXCEPT ![r.lock] = @ \union {r.node}]
  /\ faults' = faults + 1
  /\ UNCHANGED <<nodeVars, pc, ext, exec, tries, yes, since, valid, aborted>>

\* A key's TTL runs out.
Expire(n) ==
  /\ owner[n] # NoLock
  /\ left[n] <= Drift
  /\ owner' = [owner EXCEPT ![n] = NoLock]
  /\ left' = [left EXCEPT ![n] = 0]
  /\ UNCHANGED <<requests, pc, ext, voteVars, valid, aborted, faults>>

-----------------------------------------------------------------------------
(* using() *)

\* acquire sends its first attempt.
Acquire(a) ==
  /\ pc[a] = "idle"
  /\ pc' = [pc EXCEPT ![a] = "acquiring"]
  /\ Send(a, "acquire", 1)
  /\ UNCHANGED <<nodeVars, ext, valid, aborted, faults>>

\* The retry delay is over.
Resend(a) ==
  /\ exec[a] = Delay
  /\ Send(a, Script(a), tries[a] + 1)
  /\ UNCHANGED <<nodeVars, pc, ext, valid, aborted, faults>>

\* start + duration - drift - Date.now() of an attempt that succeeds now.
Remaining(a) == Duration - Drift - since[a]

\* A quorum is in favour: the lock, or its extension, is valid for the
\* duration counted from the start of the attempt.
Granted(a) ==
  /\ exec[a] \in Attempts
  /\ IsQuorum(yes[a])
  /\ Close(a, None, 0)
  /\ IF pc[a] \in Owning
     THEN /\ pc' = [pc EXCEPT ![a] = IF @ = "finishing" THEN @ ELSE "running"]
          /\ ext' = [ext EXCEPT ![a] = "timer"]
          /\ valid' = [valid EXCEPT ![a] = Remaining(a)]
     ELSE /\ pc' = [pc EXCEPT ![a] = IF @ = "undoing" THEN "failed" ELSE "done"]
          /\ UNCHANGED <<ext, valid>>
  /\ UNCHANGED <<nodeVars, aborted, faults>>

\* A quorum is against and _execute has tries left.
Retry(a) ==
  /\ exec[a] \in Attempts
  /\ IsQuorum(no[a])
  /\ tries[a] < TriesOf(a)
  /\ Close(a, Delay, tries[a])
  /\ UNCHANGED <<nodeVars, pc, ext, valid, aborted, faults>>

\* A quorum is against and _execute throws.
Denied(a) ==
  /\ exec[a] \in Attempts
  /\ IsQuorum(no[a])
  /\ tries[a] >= TriesOf(a)

\* acquire deletes what it may have written on a minority of the nodes.
AcquireDenied(a) ==
  /\ Denied(a)
  /\ pc[a] = "acquiring"
  /\ pc' = [pc EXCEPT ![a] = "undoing"]
  /\ Send(a, "release", 1)
  /\ UNCHANGED <<nodeVars, ext, valid, aborted, faults>>

\* extend tries again at once while the lock is still valid.
ExtendAgain(a) ==
  /\ Denied(a)
  /\ ext[a] = "extending"
  /\ valid[a] > 0
  /\ Send(a, "extend", 1)
  /\ UNCHANGED <<nodeVars, pc, ext, valid, aborted, faults>>

\* extend tells the routine that the lock was lost.
ExtendDenied(a) ==
  /\ Denied(a)
  /\ ext[a] = "extending"
  /\ valid[a] <= 0
  /\ ext' = [ext EXCEPT ![a] = "off"]
  /\ aborted' = aborted \union {a}
  /\ Close(a, None, 0)
  /\ UNCHANGED <<nodeVars, pc, valid, faults>>

\* A failed release is logged and swallowed; the keys are left to their TTL.
ReleaseDenied(a) ==
  /\ Denied(a)
  /\ pc[a] \in {"undoing", "releasing"}
  /\ pc' = [pc EXCEPT ![a] = IF @ = "undoing" THEN "failed" ELSE "done"]
  /\ Close(a, None, 0)
  /\ UNCHANGED <<nodeVars, ext, valid, aborted, faults>>

\* The timer set by queue() fires: a lock that has expired is not extended.
TimerFires(a) ==
  /\ pc[a] = "running"
  /\ ext[a] = "timer"
  /\ valid[a] <= Threshold
  /\ \/ /\ valid[a] >= 0
        /\ ext' = [ext EXCEPT ![a] = "extending"]
        /\ Send(a, "extend", 1)
        /\ UNCHANGED aborted
     \/ /\ valid[a] < 0
        /\ ext' = [ext EXCEPT ![a] = "off"]
        /\ aborted' = aborted \union {a}
        /\ UNCHANGED <<requests, voteVars>>
  /\ UNCHANGED <<nodeVars, pc, valid, faults>>

\* The routine settles while an extension is in flight, which is awaited.
RoutineEnds(a) ==
  /\ pc[a] = "running"
  /\ ext[a] = "extending"
  /\ pc' = [pc EXCEPT ![a] = "finishing"]
  /\ UNCHANGED <<nodeVars, requests, ext, voteVars, valid, aborted, faults>>

\* The routine settles with no extension in flight, or the extension is over:
\* the timer is cleared, the lock invalidated and its keys deleted.  A timer
\* that an awaited extension armed is not cleared, and finds the lock invalid.
Release(a) ==
  /\ pc[a] \in {"running", "finishing"}
  /\ ext[a] # "extending"
  /\ pc' = [pc EXCEPT ![a] = "releasing"]
  /\ ext' = [ext EXCEPT ![a] = "off"]
  /\ valid' = [valid EXCEPT ![a] = -1]
  /\ Send(a, "release", 1)
  /\ UNCHANGED <<nodeVars, aborted, faults>>

\* The process dies.
Crash(a) ==
  /\ faults < MaxFaults
  /\ pc[a] \notin {"idle", "failed", "done", "dead"}
  /\ pc' = [pc EXCEPT ![a] = "dead"]
  /\ ext' = [ext EXCEPT ![a] = "off"]
  /\ valid' = [valid EXCEPT ![a] = -1]
  /\ faults' = faults + 1
  /\ Close(a, None, 0)
  /\ UNCHANGED <<nodeVars, aborted>>

-----------------------------------------------------------------------------
(* Time *)

Less(k, floor) == IF k > floor THEN k - 1 ELSE k

Tick ==
  /\ left' = [n \in Nodes |-> Less(left[n], 0)]
  /\ valid' = [a \in Locks |-> Less(valid[a], -1)]
  /\ since' = [a \in Locks |->
       IF exec[a] \in Attempts /\ pc[a] \in Owning /\ since[a] < Expired
       THEN since[a] + 1 ELSE since[a]]
  /\ UNCHANGED <<owner, requests, pc, ext, exec, tries, yes, no, aborted, faults>>

-----------------------------------------------------------------------------

LockStep(a) ==
  \/ Acquire(a) \/ Resend(a) \/ Granted(a) \/ Retry(a)
  \/ AcquireDenied(a) \/ ExtendAgain(a) \/ ExtendDenied(a) \/ ReleaseDenied(a)
  \/ TimerFires(a) \/ RoutineEnds(a) \/ Release(a) \/ Crash(a)

Next ==
  \/ \E r \in requests : Execute(r) \/ ConnectionLost(r)
  \/ \E n \in Nodes : Expire(n)
  \/ \E a \in Locks : LockStep(a)
  \/ Tick

Spec == Init /\ [][Next]_vars

\* Timers fire, nodes answer, keys run out and time passes.  Nothing says that
\* a routine ends or that a lock is asked for.
Fairness ==
  /\ WF_vars(Tick)
  /\ \A n \in Nodes : WF_vars(Expire(n))
  /\ \A a \in Locks :
       /\ WF_vars(\E r \in requests : r.lock = a /\ Execute(r))
       /\ WF_vars(Resend(a)) /\ WF_vars(Granted(a)) /\ WF_vars(Retry(a))
       /\ WF_vars(AcquireDenied(a) \/ ExtendAgain(a) \/ ExtendDenied(a) \/ ReleaseDenied(a))
       /\ WF_vars(TimerFires(a)) /\ WF_vars(pc[a] = "finishing" /\ Release(a))

FairSpec == Spec /\ Fairness

-----------------------------------------------------------------------------
(* Properties *)

\* A lock that believes itself valid has its value on a quorum of the nodes,
\* with a TTL that outlives the belief even on a clock that runs Drift fast.
\* This is what start + duration - drift is for: attempts that took long,
\* retries, late executions and extensions must not stretch the belief.
QuorumBacked ==
  \A a \in Locks : Holds(a) =>
    \E Q \in SUBSET Nodes :
      /\ IsQuorum(Q)
      /\ \A n \in Q : owner[n] = a /\ left[n] >= valid[a] + Drift

\* Two routines never both believe that the resource is theirs.
MutualExclusion == \A a, b \in Locks : Holds(a) /\ Holds(b) => a = b

\* Every acquire is answered and every release ends.
OperationsEnd ==
  \A a \in Locks : pc[a] \in {"acquiring", "undoing", "releasing"}
                     ~> pc[a] \notin {"acquiring", "undoing", "releasing"}

\* A routine that outlives its lock is told, unless an extension that was in
\* flight brings the lock back.
RoutineTold ==
  \A a \in Locks : pc[a] = "running" /\ valid[a] < 0
                     ~> a \in aborted \/ pc[a] # "running" \/ valid[a] >= 0

\* Once using() is over, its keys go away, also those that a late request writes.
KeysReturn ==
  \A n \in Nodes, a \in Locks :
    owner[n] = a /\ pc[a] \in {"failed", "done", "dead"} ~> owner[n] # a

=============================================================================
