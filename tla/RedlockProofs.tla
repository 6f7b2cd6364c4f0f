---------------------------- MODULE RedlockProofs ----------------------------
(***************************************************************************)
(* Mutual exclusion of Redlock, for any number of nodes, locks, retries    *)
(* and failures and for any duration, drift and extension threshold.       *)
(*                                                                         *)
(* The argument: a vote in favour is a key of the lock whose TTL counts    *)
(* from after the start of the attempt (YesBacked), so when a quorum of    *)
(* votes makes the lock valid the keys outlive the validity (QuorumBacked) *)
(* and two quorums share a node, which holds one value.  Nothing frees     *)
(* such a key before: other locks' scripts compare values, and the lock's  *)
(* own release is not sent before the lock is invalidated                  *)
(* (NoReleaseInFlight).                                                    *)
(***************************************************************************)
EXTENDS Redlock, FiniteSetTheorems, TLAPS

NoReleaseInFlight ==
  \A r \in requests : pc[r.lock] \in Owning \union {"idle"} => r.op # "release"

\* Votes are only counted while an attempt runs, attempts run only inside an
\* operation, and a retry is only waited for when a try is left.
Executing ==
  \A a \in Locks :
    /\ yes[a] # {} => exec[a] \in Attempts
    /\ exec[a] # None => pc[a] \in Owning \union {"undoing", "releasing"}
    /\ exec[a] = Delay => tries[a] < MostTries

YesBacked ==
  \A a \in Locks : pc[a] \in Owning /\ Remaining(a) > 0 =>
    \A n \in yes[a] : owner[n] = a /\ left[n] >= Duration - since[a]

IInv ==
  /\ TypeOK
  /\ NoReleaseInFlight
  /\ Executing
  /\ YesBacked
  /\ QuorumBacked

-----------------------------------------------------------------------------

LEMMA Numbers ==
  /\ Attempts \subseteq Nat \ {0}
  /\ None \notin Attempts /\ Delay \notin Attempts /\ None # Delay
  /\ Expired \in Nat /\ Expired = Duration - Drift + 1
  /\ Duration - Drift \in Nat \ {0}
  /\ MostTries \in Nat \ {0} /\ \A a \in Locks : TriesOf(a) \in 1 .. MostTries
  BY RedlockAssumption DEF Attempts, None, Delay, Expired, MostTries, TriesOf

\* Two quorums share a node.
LEMMA QuorumsMeet ==
  ASSUME NEW S \in SUBSET Nodes, NEW T \in SUBSET Nodes, IsQuorum(S), IsQuorum(T)
  PROVE  \E n \in Nodes : n \in S /\ n \in T
<1>1. IsFiniteSet(Nodes) /\ IsFiniteSet(S) /\ IsFiniteSet(T)
  BY FS_Subset, RedlockAssumption
<1>2. Cardinality(Nodes) \in Nat /\ Cardinality(S) \in Nat /\ Cardinality(T) \in Nat
  BY <1>1, FS_CardinalityType
<1>3. Cardinality(S) + Cardinality(T) > Cardinality(Nodes)
  BY <1>2 DEF IsQuorum
<1>4. S \intersect T # {}
  BY <1>1, <1>3, FS_MajoritiesIntersect
<1> QED BY <1>4

LEMMA InitIInv == Init => IInv
  BY Numbers, RedlockAssumption
     DEF Init, IInv, TypeOK, NoReleaseInFlight, Executing, YesBacked, QuorumBacked,
         Phases, Owning, Holds

\* What an attempt sent by a lock changes.
LEMMA Sending ==
  ASSUME TypeOK, NEW a \in Locks, NEW op \in {"acquire", "extend", "release"},
         NEW k \in 0 .. MostTries, Send(a, op, k)
  PROVE  /\ requests' \subseteq Request
         /\ \A r \in requests' : r \in requests \/ (r.lock = a /\ r.op = op)
         /\ exec' \in [Locks -> Attempts \union {None, Delay}]
         /\ exec'[a] \in Attempts /\ yes'[a] = {}
         /\ \A b \in Locks : b # a =>
              exec'[b] = exec[b] /\ yes'[b] = yes[b] /\ since'[b] = since[b] /\ tries'[b] = tries[b]
         /\ tries' \in [Locks -> 0 .. MostTries]
         /\ yes' \in [Locks -> SUBSET Nodes] /\ no' \in [Locks -> SUBSET Nodes]
         /\ since' \in [Locks -> 0 .. Expired]
<1> PICK t \in Attempts :
      /\ requests' = requests \union
           {[lock |-> a, node |-> n, op |-> op, attempt |-> t] : n \in Nodes}
      /\ exec' = [exec EXCEPT ![a] = t]
      /\ tries' = [tries EXCEPT ![a] = k]
      /\ yes' = [yes EXCEPT ![a] = {}]
      /\ no' = [no EXCEPT ![a] = {}]
      /\ since' = [since EXCEPT ![a] = 0]
  BY DEF Send
<1>1. /\ requests' \subseteq Request
      /\ \A r \in requests' : r \in requests \/ (r.lock = a /\ r.op = op)
  BY DEF TypeOK, Request
<1>2. /\ exec' \in [Locks -> Attempts \union {None, Delay}]
      /\ exec'[a] \in Attempts
      /\ \A b \in Locks : b # a => exec'[b] = exec[b]
  BY DEF TypeOK
<1>3. /\ yes' \in [Locks -> SUBSET Nodes] /\ no' \in [Locks -> SUBSET Nodes]
      /\ tries' \in [Locks -> 0 .. MostTries]
      /\ since' \in [Locks -> 0 .. Expired]
      /\ yes'[a] = {}
      /\ \A b \in Locks : b # a =>
           yes'[b] = yes[b] /\ since'[b] = since[b] /\ tries'[b] = tries[b]
  BY Numbers DEF TypeOK
<1> QED BY <1>1, <1>2, <1>3

\* What the end of an attempt changes.
LEMMA Closing ==
  ASSUME TypeOK, NEW a \in Locks, NEW to \in {None, Delay}, NEW k \in 0 .. MostTries,
         Close(a, to, k)
  PROVE  /\ requests' = requests
         /\ exec' \in [Locks -> Attempts \union {None, Delay}]
         /\ exec'[a] = to /\ yes'[a] = {} /\ tries'[a] = k
         /\ \A b \in Locks : b # a =>
              exec'[b] = exec[b] /\ yes'[b] = yes[b] /\ since'[b] = since[b] /\ tries'[b] = tries[b]
         /\ tries' \in [Locks -> 0 .. MostTries]
         /\ yes' \in [Locks -> SUBSET Nodes] /\ no' \in [Locks -> SUBSET Nodes]
         /\ since' \in [Locks -> 0 .. Expired]
  BY Numbers DEF Close, TypeOK

\* Most steps leave the nodes alone: then the invariant is kept if only the
\* acting lock's state changed, and in one of the ways below.
LEMMA ActingLock ==
  ASSUME IInv, TypeOK', NEW a \in Locks,
         UNCHANGED nodeVars,
         \A r \in requests' : r \in requests \/ (r.lock = a /\ (r.op = "release" => pc'[a] \notin Owning \union {"idle"})),
         pc'[a] \in Owning \union {"idle"} => pc[a] \in Owning \union {"idle"},
         \A b \in Locks : b # a =>
           /\ pc'[b] = pc[b] /\ valid'[b] = valid[b]
           /\ exec'[b] = exec[b] /\ yes'[b] = yes[b] /\ since'[b] = since[b] /\ tries'[b] = tries[b],
         yes'[a] = {} \/ (exec'[a] \in Attempts /\ yes'[a] = yes[a] /\ since'[a] = since[a] /\ pc[a] \in Owning),
         exec'[a] # None => pc'[a] \in Owning \union {"undoing", "releasing"},
         exec'[a] = Delay => tries'[a] < MostTries,
         \/ ~Holds(a)'
         \/ Holds(a) /\ valid'[a] = valid[a]
         \/ \E Q \in SUBSET Nodes :
              /\ IsQuorum(Q)
              /\ \A n \in Q : owner[n] = a /\ left[n] >= valid'[a] + Drift
  PROVE  IInv'
<1>1. NoReleaseInFlight'
  <2> SUFFICES ASSUME NEW r \in requests', pc'[r.lock] \in Owning \union {"idle"}
               PROVE  r.op # "release"
    BY DEF NoReleaseInFlight
  <2>1. r.lock \in Locks
    BY DEF TypeOK, Request
  <2> QED BY <2>1 DEF IInv, NoReleaseInFlight
<1>2. Executing'
  BY DEF IInv, Executing
<1>3. YesBacked'
  <2> SUFFICES ASSUME NEW b \in Locks, pc'[b] \in Owning, Remaining(b)' > 0, NEW n \in yes'[b]
               PROVE  owner'[n] = b /\ left'[n] >= Duration - since'[b]
    BY DEF YesBacked
  <2> QED BY DEF IInv, YesBacked, Remaining, nodeVars
<1>4. QuorumBacked'
  <2> SUFFICES ASSUME NEW b \in Locks, Holds(b)'
               PROVE  \E Q \in SUBSET Nodes :
                        IsQuorum(Q) /\ \A n \in Q : owner'[n] = b /\ left'[n] >= valid'[b] + Drift
    BY DEF QuorumBacked, IsQuorum
  <2>1. Holds(b) /\ valid'[b] = valid[b] =>
          \E Q \in SUBSET Nodes :
            IsQuorum(Q) /\ \A n \in Q : owner'[n] = b /\ left'[n] >= valid'[b] + Drift
    BY DEF IInv, QuorumBacked, nodeVars
  <2>2. CASE b # a
    BY <2>1, <2>2 DEF Holds
  <2>3. CASE b = a
    BY <2>1, <2>3 DEF nodeVars
  <2> QED BY <2>2, <2>3
<1> QED BY <1>1, <1>2, <1>3, <1>4 DEF IInv

\* The steps of a lock, one by one.
LEMMA LockStepIInv ==
  ASSUME IInv, NEW a \in Locks, LockStep(a)
  PROVE  IInv'
<1> USE Numbers, RedlockAssumption
<1>0. TypeOK /\ pc[a] \in Phases /\ tries[a] \in 0 .. MostTries /\ 1 \in 0 .. MostTries
  BY DEF IInv, TypeOK
<1>1. CASE Acquire(a)
  <2>1. Send(a, "acquire", 1)
    BY <1>1 DEF Acquire
  <2>2. TypeOK'
    BY <1>0, <1>1, <2>1, Sending DEF Acquire, TypeOK, nodeVars, Phases
  <2>3. pc[a] = "idle" /\ pc'[a] = "acquiring" /\ ~Holds(a)'
    BY <1>0, <1>1 DEF Acquire, TypeOK, Holds
  <2>4. UNCHANGED nodeVars /\ \A b \in Locks : b # a => pc'[b] = pc[b] /\ valid'[b] = valid[b]
    BY <1>0, <1>1 DEF Acquire, TypeOK
  <2> QED
    BY <1>0, <2>1, <2>2, <2>3, <2>4, Sending, ActingLock DEF Owning
<1>2. CASE Resend(a)
  <2>1. pc[a] \in Owning \union {"undoing", "releasing"} /\ tries[a] + 1 \in 0 .. MostTries
    BY <1>0, <1>2 DEF IInv, Executing, Resend
  <2>2. Script(a) \in {"acquire", "extend", "release"}
    BY DEF Script
  <2>3. Send(a, Script(a), tries[a] + 1)
    BY <1>2 DEF Resend
  <2>4. TypeOK'
    BY <1>0, <1>2, <2>1, <2>2, <2>3, Sending DEF Resend, TypeOK, nodeVars
  <2>5. Script(a) = "release" => pc'[a] \notin Owning \union {"idle"}
    BY <1>2, <2>1 DEF Script, Owning, Resend
  <2>6. UNCHANGED <<nodeVars, pc, valid>>
    BY <1>2 DEF Resend
  <2>7. Holds(a)' => Holds(a) /\ valid'[a] = valid[a]
    BY <2>6 DEF Holds
  <2> QED
    BY <1>0, <2>1, <2>2, <2>3, <2>4, <2>5, <2>6, <2>7, Sending, ActingLock
<1>3. CASE Granted(a)
  <2>1. Close(a, None, 0) /\ yes[a] \in SUBSET Nodes
    BY <1>0, <1>3 DEF Granted, TypeOK
  <2>2. CASE pc[a] \in Owning
    <3>1. Remaining(a) \in -1 .. Duration - Drift
      BY <1>0 DEF Remaining, TypeOK
    <3>2. pc' = [pc EXCEPT ![a] = IF @ = "finishing" THEN @ ELSE "running"]
          /\ ext' = [ext EXCEPT ![a] = "timer"] /\ valid' = [valid EXCEPT ![a] = Remaining(a)]
          /\ UNCHANGED <<nodeVars, aborted, faults>>
      BY <1>3, <2>2 DEF Granted
    <3>3. TypeOK'
      BY <1>0, <2>1, <3>1, <3>2, Closing DEF TypeOK, nodeVars, Phases
    <3>4. Holds(a)' => \A n \in yes[a] : owner[n] = a /\ left[n] >= valid'[a] + Drift
      <4> SUFFICES ASSUME Holds(a)', NEW n \in yes[a]
                   PROVE  owner[n] = a /\ left[n] >= valid'[a] + Drift
        OBVIOUS
      <4>1. valid'[a] = Remaining(a) /\ Remaining(a) > 0
        BY <1>0, <3>2 DEF TypeOK, Holds
      <4>2. owner[n] = a /\ left[n] >= Duration - since[a]
        BY <2>2, <4>1 DEF IInv, YesBacked
      <4>3. n \in Nodes /\ left[n] \in Nat /\ since[a] \in Nat
        BY <1>0, <2>1 DEF TypeOK
      <4> QED BY <4>1, <4>2, <4>3 DEF Remaining
    <3>5. IsQuorum(yes[a])
      BY <1>3 DEF Granted
    <3>6. pc'[a] \in Owning
      BY <1>0, <3>2, <2>2 DEF TypeOK, Owning
    <3>7. ~Holds(a)' \/ \E Q \in SUBSET Nodes :
            IsQuorum(Q) /\ \A n \in Q : owner[n] = a /\ left[n] >= valid'[a] + Drift
      BY <2>1, <3>4, <3>5
    <3>8. UNCHANGED nodeVars /\ \A b \in Locks : b # a => pc'[b] = pc[b] /\ valid'[b] = valid[b]
      BY <1>0, <3>2 DEF TypeOK
    <3> QED
      BY <2>1, <2>2, <3>3, <3>6, <3>7, <3>8, <1>0, Closing, ActingLock
  <2>3. CASE pc[a] \notin Owning
    <3>1. pc' = [pc EXCEPT ![a] = IF @ = "undoing" THEN "failed" ELSE "done"]
          /\ UNCHANGED <<nodeVars, ext, valid, aborted, faults>>
      BY <1>3, <2>3 DEF Granted
    <3>2. TypeOK'
      BY <1>0, <2>1, <3>1, Closing DEF TypeOK, nodeVars, Phases
    <3> QED
      <4>1. ~Holds(a)' /\ pc'[a] \notin Owning \union {"idle"}
        BY <1>0, <3>1 DEF TypeOK, Owning, Holds
      <4>2. UNCHANGED nodeVars /\ \A b \in Locks : b # a => pc'[b] = pc[b] /\ valid'[b] = valid[b]
        BY <1>0, <3>1 DEF TypeOK
      <4> QED BY <1>0, <2>1, <3>2, <4>1, <4>2, Closing, ActingLock
  <2> QED BY <2>2, <2>3
<1>4. CASE Retry(a)
  <2>1. Close(a, Delay, tries[a]) /\ tries[a] < MostTries
    BY <1>0, <1>4, Numbers DEF Retry
  <2>2. TypeOK'
    BY <1>0, <1>4, <2>1, Closing DEF Retry, TypeOK, nodeVars
  <2>3. pc[a] \in Owning \union {"undoing", "releasing"}
    BY <1>4 DEF IInv, Executing, Retry
  <2> QED
    BY <1>0, <1>4, <2>1, <2>2, <2>3, Closing, ActingLock DEF Retry, TypeOK, Holds
<1>5. CASE AcquireDenied(a)
  <2>1. Send(a, "release", 1)
    BY <1>5 DEF AcquireDenied
  <2>2. TypeOK'
    BY <1>0, <1>5, <2>1, Sending DEF AcquireDenied, TypeOK, nodeVars, Phases
  <2>3. ~Holds(a)' /\ pc'[a] = "undoing"
    BY <1>0, <1>5 DEF AcquireDenied, TypeOK, Holds
  <2>4. UNCHANGED nodeVars /\ \A b \in Locks : b # a => pc'[b] = pc[b] /\ valid'[b] = valid[b]
    BY <1>0, <1>5 DEF AcquireDenied, TypeOK
  <2> QED
    BY <1>0, <2>1, <2>2, <2>3, <2>4, Sending, ActingLock DEF Owning
<1>6. CASE ExtendAgain(a)
  <2>1. Send(a, "extend", 1)
    BY <1>6 DEF ExtendAgain
  <2>2. TypeOK'
    BY <1>0, <1>6, <2>1, Sending DEF ExtendAgain, TypeOK, nodeVars
  <2>3. pc[a] \in Owning \union {"undoing", "releasing"}
    BY <1>6 DEF IInv, Executing, ExtendAgain, Denied
  <2>4. UNCHANGED <<nodeVars, pc, valid>>
    BY <1>6 DEF ExtendAgain
  <2>5. Holds(a)' => Holds(a) /\ valid'[a] = valid[a]
    BY <2>4 DEF Holds
  <2> QED
    BY <1>0, <2>1, <2>2, <2>3, <2>4, <2>5, Sending, ActingLock
<1>7. CASE ExtendDenied(a)
  <2>1. Close(a, None, 0)
    BY <1>7 DEF ExtendDenied
  <2>2. TypeOK'
    BY <1>0, <1>7, <2>1, Closing DEF ExtendDenied, TypeOK, nodeVars
  <2>3. UNCHANGED <<nodeVars, pc, valid>>
    BY <1>7 DEF ExtendDenied
  <2>4. Holds(a)' => Holds(a) /\ valid'[a] = valid[a]
    BY <2>3 DEF Holds
  <2> QED
    BY <1>0, <2>1, <2>2, <2>3, <2>4, Closing, ActingLock
<1>8. CASE ReleaseDenied(a)
  <2>1. Close(a, None, 0)
    BY <1>8 DEF ReleaseDenied
  <2>2. TypeOK'
    BY <1>0, <1>8, <2>1, Closing DEF ReleaseDenied, TypeOK, nodeVars, Phases
  <2>3. ~Holds(a)' /\ pc'[a] \notin Owning \union {"idle"}
    BY <1>0, <1>8 DEF ReleaseDenied, TypeOK, Owning, Holds
  <2>4. UNCHANGED nodeVars /\ \A b \in Locks : b # a => pc'[b] = pc[b] /\ valid'[b] = valid[b]
    BY <1>0, <1>8 DEF ReleaseDenied, TypeOK
  <2> QED
    BY <1>0, <2>1, <2>2, <2>3, <2>4, Closing, ActingLock
<1>9. CASE TimerFires(a)
  <2>1. CASE valid[a] >= 0
    <3>1. Send(a, "extend", 1) /\ ext' = [ext EXCEPT ![a] = "extending"]
          /\ UNCHANGED <<nodeVars, pc, valid, faults, aborted>> /\ pc[a] = "running"
      BY <1>0, <1>9, <2>1 DEF TimerFires, TypeOK
    <3>2. TypeOK'
      BY <1>0, <3>1, Sending DEF TypeOK, nodeVars
    <3>3. pc[a] \in Owning /\ (Holds(a)' => Holds(a) /\ valid'[a] = valid[a])
      BY <3>1 DEF Owning, Holds
    <3> QED
      BY <1>0, <3>1, <3>2, <3>3, Sending, ActingLock
  <2>2. CASE valid[a] < 0
    <3>1. ext' = [ext EXCEPT ![a] = "off"] /\ aborted' = aborted \union {a}
          /\ UNCHANGED <<nodeVars, pc, valid, faults, requests, voteVars>>
      BY <1>0, <1>9, <2>2 DEF TimerFires, TypeOK
    <3>2. TypeOK'
      BY <1>0, <3>1 DEF TypeOK, nodeVars, voteVars
    <3> QED
      BY <3>1, <3>2 DEF IInv, NoReleaseInFlight, Executing, YesBacked, QuorumBacked,
         Remaining, Holds, nodeVars, voteVars
  <2> QED BY <1>0, <2>1, <2>2 DEF TypeOK
<1>10. CASE RoutineEnds(a)
  <2>1. TypeOK'
    BY <1>0, <1>10 DEF RoutineEnds, TypeOK, nodeVars, voteVars, Phases
  <2>2. /\ pc[a] = "running" /\ pc' = [pc EXCEPT ![a] = "finishing"]
        /\ UNCHANGED <<nodeVars, requests, voteVars, valid>>
    BY <1>10 DEF RoutineEnds
  <2>3. \A b \in Locks : /\ pc'[b] \in Owning <=> pc[b] \in Owning
                         /\ pc'[b] = "idle" <=> pc[b] = "idle"
                         /\ Holds(b)' <=> Holds(b)
                         /\ pc'[b] \in {"undoing", "releasing"} <=> pc[b] \in {"undoing", "releasing"}
    BY <1>0, <2>2 DEF TypeOK, Owning, Holds
  <2>4. NoReleaseInFlight' /\ Executing'
    BY <2>2, <2>3, <1>0 DEF IInv, NoReleaseInFlight, Executing, voteVars, TypeOK, Request
  <2>5. YesBacked' /\ QuorumBacked'
    BY <2>2, <2>3 DEF IInv, YesBacked, QuorumBacked, Remaining, nodeVars, voteVars
  <2> QED BY <2>1, <2>4, <2>5 DEF IInv
<1>11. CASE Release(a)
  <2>1. Send(a, "release", 1)
    BY <1>11 DEF Release
  <2>2. TypeOK'
    BY <1>0, <1>11, <2>1, Sending DEF Release, TypeOK, nodeVars, Phases
  <2>3. ~Holds(a)' /\ pc'[a] = "releasing"
    BY <1>0, <1>11 DEF Release, TypeOK, Holds
  <2>4. UNCHANGED nodeVars /\ \A b \in Locks : b # a => pc'[b] = pc[b] /\ valid'[b] = valid[b]
    BY <1>0, <1>11 DEF Release, TypeOK
  <2> QED
    BY <1>0, <2>1, <2>2, <2>3, <2>4, Sending, ActingLock DEF Owning
<1>12. CASE Crash(a)
  <2>1. Close(a, None, 0)
    BY <1>12 DEF Crash
  <2>2. TypeOK'
    BY <1>0, <1>12, <2>1, Closing DEF Crash, TypeOK, nodeVars, Phases
  <2>3. ~Holds(a)' /\ pc'[a] \notin Owning \union {"idle"}
    BY <1>0, <1>12 DEF Crash, TypeOK, Owning, Holds
  <2>4. UNCHANGED nodeVars /\ \A b \in Locks : b # a => pc'[b] = pc[b] /\ valid'[b] = valid[b]
    BY <1>0, <1>12 DEF Crash, TypeOK
  <2> QED
    BY <1>0, <2>1, <2>2, <2>3, <2>4, Closing, ActingLock
<1> QED
  BY <1>1, <1>2, <1>3, <1>4, <1>5, <1>6, <1>7, <1>8, <1>9, <1>10, <1>11, <1>12 DEF LockStep

\* A node executes a script: a key that counts for a lock is rewritten only
\* by an extension of that lock.
LEMMA ExecuteIInv ==
  ASSUME IInv, NEW r \in requests, Execute(r)
  PROVE  IInv'
<1> USE Numbers, RedlockAssumption
<1> DEFINE n == r.node
           a == r.lock
<1>0. TypeOK /\ n \in Nodes /\ a \in Locks
  BY DEF IInv, TypeOK, Request
<1>1. /\ requests' = requests \ {r}
      /\ UNCHANGED <<pc, ext, exec, tries, since, valid, aborted, faults>>
      /\ yes' = yes \/ (exec[a] \in Attempts /\ Accepts(n, r) /\ yes' = [yes EXCEPT ![a] = @ \union {n}])
      /\ no' = no \/ no' = [no EXCEPT ![a] = @ \union {n}]
  BY DEF Execute, Awaited, IInv, TypeOK, Request
<1>2. \/ ~Accepts(n, r) /\ UNCHANGED nodeVars
      \/ /\ Accepts(n, r)
         /\ owner' = [owner EXCEPT ![n] = IF r.op = "release" THEN NoLock ELSE a]
         /\ left' = [left EXCEPT ![n] = IF r.op = "release" THEN 0 ELSE Duration]
  BY DEF Execute
<1>3. TypeOK'
  <2>1. owner' \in [Nodes -> Locks \union {NoLock}] /\ left' \in [Nodes -> 0 .. Duration]
    BY <1>0, <1>2 DEF TypeOK, nodeVars
  <2>2. yes' \in [Locks -> SUBSET Nodes]
    BY <1>0, <1>1 DEF TypeOK
  <2>3. no' \in [Locks -> SUBSET Nodes]
    BY <1>0, <1>1 DEF TypeOK
  <2> QED BY <1>0, <1>1, <2>1, <2>2, <2>3 DEF TypeOK
\* What a script that is no release of b does to a node whose key is b's.
<1>4. ASSUME NEW b \in Locks, NEW m \in Nodes, owner[m] = b,
             pc[b] \in Owning
      PROVE  owner'[m] = b /\ (left'[m] = left[m] \/ left'[m] = Duration)
  <2>1. a = b => r.op # "release"
    BY <1>4 DEF IInv, NoReleaseInFlight
  <2>2. CASE UNCHANGED nodeVars
    BY <1>4, <2>2 DEF nodeVars
  <2>3. CASE m # n /\ ~UNCHANGED nodeVars
    BY <1>0, <1>2, <1>4, <2>3 DEF TypeOK
  <2>4. CASE m = n /\ ~UNCHANGED nodeVars
    <3>1. Accepts(n, r) /\ owner' = [owner EXCEPT ![n] = IF r.op = "release" THEN NoLock ELSE a]
          /\ left' = [left EXCEPT ![n] = IF r.op = "release" THEN 0 ELSE Duration]
      BY <1>2, <2>4
    <3>2. a = b
      BY <1>4, <2>4, <3>1 DEF Accepts
    <3> QED BY <1>0, <2>1, <2>4, <3>1, <3>2 DEF TypeOK
  <2> QED BY <2>2, <2>3, <2>4
<1>5. NoReleaseInFlight' /\ Executing'
  BY <1>0, <1>1 DEF IInv, NoReleaseInFlight, Executing, TypeOK
<1>6. YesBacked'
  <2> SUFFICES ASSUME NEW b \in Locks, pc[b] \in Owning, Remaining(b) > 0, NEW m \in yes'[b]
               PROVE  owner'[m] = b /\ left'[m] >= Duration - since[b]
    BY <1>1 DEF YesBacked, Remaining
  <2>0. since[b] \in Nat /\ m \in Nodes
    BY <1>0, <1>3 DEF TypeOK
  <2>1. CASE m \in yes[b]
    <3>1. owner[m] = b /\ left[m] >= Duration - since[b]
      BY <2>1 DEF IInv, YesBacked
    <3> QED BY <1>4, <2>0, <3>1
  <2>2. CASE m \notin yes[b]
    <3>1. b = a /\ m = n /\ Accepts(n, r)
      BY <1>0, <1>1, <2>2 DEF TypeOK
    <3>2. r.op # "release"
      BY <3>1 DEF IInv, NoReleaseInFlight
    <3>3. /\ owner' = [owner EXCEPT ![n] = IF r.op = "release" THEN NoLock ELSE a]
          /\ left' = [left EXCEPT ![n] = IF r.op = "release" THEN 0 ELSE Duration]
      BY <1>2, <3>1
    <3> QED BY <1>0, <2>0, <3>1, <3>2, <3>3 DEF TypeOK
  <2> QED BY <2>1, <2>2
<1>7. QuorumBacked'
  <2> SUFFICES ASSUME NEW b \in Locks, Holds(b)
               PROVE  \E Q \in SUBSET Nodes :
                        IsQuorum(Q) /\ \A m \in Q : owner'[m] = b /\ left'[m] >= valid[b] + Drift
    BY <1>1 DEF QuorumBacked, IsQuorum, Holds
  <2>1. PICK Q \in SUBSET Nodes :
          IsQuorum(Q) /\ \A m \in Q : owner[m] = b /\ left[m] >= valid[b] + Drift
    BY DEF IInv, QuorumBacked
  <2>2. valid[b] + Drift <= Duration /\ pc[b] \in Owning
    BY <1>0 DEF TypeOK, Holds, Owning
  <2>3. \A m \in Q : owner'[m] = b /\ left'[m] >= valid[b] + Drift
    BY <1>4, <2>1, <2>2
  <2> QED BY <2>1, <2>3
<1> QED BY <1>3, <1>5, <1>6, <1>7 DEF IInv

LEMMA ConnectionLostIInv ==
  ASSUME IInv, NEW r \in requests, ConnectionLost(r)
  PROVE  IInv'
<1> USE Numbers, RedlockAssumption
<1>1. requests' \subseteq requests
      /\ UNCHANGED <<nodeVars, pc, ext, exec, tries, yes, since, valid, aborted>>
  BY DEF ConnectionLost
<1>2. TypeOK'
  BY <1>1 DEF ConnectionLost, IInv, TypeOK, Request, nodeVars
<1>3. NoReleaseInFlight' /\ Executing'
  BY <1>1 DEF IInv, NoReleaseInFlight, Executing
<1>4. YesBacked' /\ QuorumBacked'
  BY <1>1 DEF IInv, YesBacked, QuorumBacked, Remaining, Holds, nodeVars
<1> QED BY <1>2, <1>3, <1>4 DEF IInv

\* A TTL that runs out early frees no key that counts for a lock.
LEMMA ExpireIInv ==
  ASSUME IInv, NEW n \in Nodes, Expire(n)
  PROVE  IInv'
<1> USE Numbers, RedlockAssumption
<1>0. TypeOK
  BY DEF IInv
<1>1. /\ left[n] <= Drift
      /\ owner' = [owner EXCEPT ![n] = NoLock] /\ left' = [left EXCEPT ![n] = 0]
      /\ UNCHANGED <<requests, pc, ext, voteVars, valid, aborted, faults>>
  BY DEF Expire
<1>2. TypeOK'
  BY <1>0, <1>1 DEF TypeOK, voteVars
<1>3. NoReleaseInFlight' /\ Executing'
  BY <1>1 DEF IInv, NoReleaseInFlight, Executing, voteVars
<1>4. YesBacked'
  <2> SUFFICES ASSUME NEW b \in Locks, pc[b] \in Owning, Remaining(b) > 0, NEW m \in yes[b]
               PROVE  owner'[m] = b /\ left'[m] >= Duration - since[b]
    BY <1>1 DEF YesBacked, Remaining, voteVars
  <2>1. owner[m] = b /\ left[m] >= Duration - since[b] /\ m \in Nodes
    BY <1>0 DEF IInv, YesBacked, TypeOK
  <2>2. left[m] > Drift
    BY <1>0, <2>1 DEF TypeOK, Remaining
  <2> QED BY <1>0, <1>1, <2>1, <2>2 DEF TypeOK
<1>5. QuorumBacked'
  <2> SUFFICES ASSUME NEW b \in Locks, Holds(b)
               PROVE  \E Q \in SUBSET Nodes :
                        IsQuorum(Q) /\ \A m \in Q : owner'[m] = b /\ left'[m] >= valid[b] + Drift
    BY <1>1 DEF QuorumBacked, IsQuorum, Holds
  <2>1. PICK Q \in SUBSET Nodes :
          IsQuorum(Q) /\ \A m \in Q : owner[m] = b /\ left[m] >= valid[b] + Drift
    BY DEF IInv, QuorumBacked
  <2>2. n \notin Q
    BY <1>0, <1>1, <2>1 DEF TypeOK, Holds
  <2> QED BY <1>0, <1>1, <2>1, <2>2 DEF TypeOK
<1> QED BY <1>2, <1>3, <1>4, <1>5 DEF IInv

\* Validity, attempts and TTLs age together.
LEMMA TickIInv ==
  ASSUME IInv, Tick
  PROVE  IInv'
<1> USE Numbers, RedlockAssumption
<1>0. TypeOK
  BY DEF IInv
<1>1. /\ \A n \in Nodes : left'[n] = IF left[n] > 0 THEN left[n] - 1 ELSE left[n]
      /\ \A a \in Locks : valid'[a] = IF valid[a] > -1 THEN valid[a] - 1 ELSE valid[a]
      /\ \A a \in Locks : since'[a] =
           IF exec[a] \in Attempts /\ pc[a] \in Owning /\ since[a] < Expired
           THEN since[a] + 1 ELSE since[a]
      /\ UNCHANGED <<owner, requests, pc, ext, exec, tries, yes, no, aborted, faults>>
  BY DEF Tick, Less
<1>2. TypeOK'
  <2>1. left' \in [Nodes -> 0 .. Duration]
    BY <1>0 DEF TypeOK, Tick, Less
  <2>2. valid' \in [Locks -> -1 .. Duration - Drift]
    BY <1>0 DEF TypeOK, Tick, Less
  <2>3. since' \in [Locks -> 0 .. Expired]
    BY <1>0 DEF TypeOK, Tick
  <2> QED BY <1>0, <1>1, <2>1, <2>2, <2>3 DEF TypeOK
<1>3. NoReleaseInFlight' /\ Executing'
  BY <1>1 DEF IInv, NoReleaseInFlight, Executing
<1>4. YesBacked'
  <2> SUFFICES ASSUME NEW b \in Locks, pc[b] \in Owning, Remaining(b)' > 0, NEW m \in yes[b]
               PROVE  owner[m] = b /\ left'[m] >= Duration - since'[b]
    BY <1>1 DEF YesBacked
  <2>1. exec[b] \in Attempts /\ since[b] \in 0 .. Expired /\ m \in Nodes
    BY <1>0 DEF IInv, Executing, TypeOK
  <2>2. since'[b] = since[b] + 1
    BY <1>1, <2>1 DEF Remaining
  <2>3. owner[m] = b /\ left[m] >= Duration - since[b]
    BY <2>1, <2>2 DEF IInv, YesBacked, Remaining
  <2> QED BY <1>0, <1>1, <2>1, <2>2, <2>3 DEF TypeOK, Remaining
<1>5. QuorumBacked'
  <2> SUFFICES ASSUME NEW b \in Locks, Holds(b)'
               PROVE  \E Q \in SUBSET Nodes :
                        IsQuorum(Q) /\ \A m \in Q : owner[m] = b /\ left'[m] >= valid'[b] + Drift
    BY <1>1 DEF QuorumBacked, IsQuorum
  <2>0. valid[b] \in -1 .. Duration - Drift /\ valid'[b] = valid[b] - 1 /\ Holds(b)
    BY <1>0, <1>1 DEF TypeOK, Holds
  <2>1. PICK Q \in SUBSET Nodes :
          IsQuorum(Q) /\ \A m \in Q : owner[m] = b /\ left[m] >= valid[b] + Drift
    BY <2>0 DEF IInv, QuorumBacked
  <2>2. \A m \in Q : left'[m] >= valid'[b] + Drift
    BY <1>0, <1>1, <2>0, <2>1 DEF TypeOK
  <2> QED BY <2>1, <2>2
<1> QED BY <1>2, <1>3, <1>4, <1>5 DEF IInv

LEMMA NextIInv ==
  ASSUME IInv, [Next]_vars
  PROVE  IInv'
<1>1. CASE UNCHANGED vars
  BY <1>1 DEF vars, nodeVars, voteVars, IInv, TypeOK, NoReleaseInFlight, Executing, YesBacked,
     QuorumBacked, Remaining, Holds, IsQuorum
<1> QED
  BY <1>1, ExecuteIInv, ConnectionLostIInv, ExpireIInv, LockStepIInv, TickIInv DEF Next

\* Every variable of the lock keeps its type: validity never exceeds
\* duration - drift, and no operation makes more than retryCount + 1 attempts.
THEOREM Typing == Spec => []TypeOK
<1>1. IInv => TypeOK
  BY DEF IInv
<1> QED BY <1>1, InitIInv, NextIInv, PTL DEF Spec

\* A lock that believes itself valid has its value on a quorum of the nodes
\* for at least as long as it believes so.
THEOREM Backing == Spec => []QuorumBacked
<1>1. IInv => QuorumBacked
  BY DEF IInv
<1> QED BY <1>1, InitIInv, NextIInv, PTL DEF Spec

\* So two routines never both believe that the resource is theirs.
THEOREM Exclusion == Spec => []MutualExclusion
<1>1. QuorumBacked => MutualExclusion
  <2> SUFFICES ASSUME QuorumBacked, NEW a \in Locks, NEW b \in Locks, Holds(a), Holds(b)
               PROVE  a = b
    BY DEF MutualExclusion
  <2>1. PICK S \in SUBSET Nodes : IsQuorum(S) /\ \A n \in S : owner[n] = a
    BY DEF QuorumBacked
  <2>2. PICK T \in SUBSET Nodes : IsQuorum(T) /\ \A n \in T : owner[n] = b
    BY DEF QuorumBacked
  <2> QED BY <2>1, <2>2, QuorumsMeet
<1> QED BY <1>1, Backing, PTL

=============================================================================
