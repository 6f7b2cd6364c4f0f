-------------------------- MODULE RedlockLeaseProofs --------------------------
(***************************************************************************)
(* A Redlock of one node whose acquires are not retried is a lease, for    *)
(* any number of locks and failures and any duration, drift, threshold and *)
(* number of tries of an extension.                                        *)
(*                                                                         *)
(* The argument: such a lock sends one acquire and is granted only after   *)
(* the node has executed it (AskedOnce).  Once its key is another lock's   *)
(* or gone, nothing it still sends makes the key its own again (PastOver), *)
(* and a lock that is valid has its key on the node (QuorumBacked).        *)
(***************************************************************************)
EXTENDS RedlockLease, RedlockProofs

\* How the cron manager builds its Redlock and calls using().
Single == Cardinality(Nodes) = 1 /\ AcquireTries = 1

\* A lock that is not asked for has sent nothing, one that is asked for its
\* acquire only, without a retry.
Beginning ==
  /\ \A r \in requests : pc[r.lock] # "idle" /\ (pc[r.lock] = "acquiring" => r.op = "acquire")
  /\ \A a \in Locks : pc[a] \in {"idle", "acquiring"} =>
       ext[a] = "off" /\ exec[a] # Delay /\ (exec[a] \in Attempts => tries[a] >= 1)

\* An acquire that the node has not executed has no vote and no successor.
AskedOnce ==
  \A r \in requests : r.op = "acquire" =>
    /\ pc[r.lock] \notin {"running", "finishing"}
    /\ pc[r.lock] = "acquiring" => yes[r.lock] = {}
    /\ \A s \in requests : s.op = "acquire" /\ s.lock = r.lock => s = r

OneInv == IInv /\ Beginning /\ AskedOnce

\* A lock that has been granted sends no acquire any more.
Granting(b) ==
  /\ pc[b] \notin {"idle", "acquiring"}
  /\ \A r \in requests : r.op = "acquire" => r.lock # b

\* The lock that was valid last is the holder's, if there is a holder.
LastGranted ==
  /\ last \in Locks \union {NoLock}
  /\ last # NoLock => Granting(last)
  /\ \A a \in Locks : Holds(a) => last = a

\* A lock that was followed by another has no key and gets none.
PastOver ==
  /\ past \subseteq Locks
  /\ last \notin past
  /\ \A b \in past : Granting(b) /\ \A n \in Nodes : owner[n] # b

HInv == OneInv /\ LastGranted /\ PastOver

-----------------------------------------------------------------------------
(* A lock's own steps *)

LEMMA OneNode == Single => \E n \in Nodes : Nodes = {n}
<1> SUFFICES ASSUME Single PROVE \E n \in Nodes : Nodes = {n}
  OBVIOUS
<1>1. \E n : Nodes = {n}
  BY FS_Singleton, RedlockAssumption DEF Single
<1> QED BY <1>1

LEMMA EmptyNoQuorum == ~IsQuorum({})
<1>1. Cardinality({}) = 0 /\ Cardinality(Nodes) \in Nat
  BY FS_EmptySet, FS_CardinalityType, RedlockAssumption
<1> QED BY <1>1 DEF IsQuorum

\* The one node gets one request.
LEMMA SentOnce ==
  ASSUME Single, NEW a \in Locks, NEW op, NEW k, Send(a, op, k)
  PROVE  /\ \A r \in requests' \ requests : r.lock = a /\ r.op = op
         /\ \A r, s \in requests' \ requests : r = s
         /\ requests \subseteq requests'
<1>1. PICK t \in Attempts :
        requests' = requests \union
          {[lock |-> a, node |-> n, op |-> op, attempt |-> t] : n \in Nodes}
  BY DEF Send
<1>2. PICK n \in Nodes : Nodes = {n}
  BY OneNode
<1>3. requests' = requests \union {[lock |-> a, node |-> n, op |-> op, attempt |-> t]}
  BY <1>1, <1>2
<1> QED BY <1>3

\* The first step of a lock: its acquire is sent.
LEMMA AcquireOneInv ==
  ASSUME Single, OneInv, IInv', NEW a \in Locks, Acquire(a)
  PROVE  OneInv'
<1> USE Numbers
<1>1. /\ TypeOK /\ Send(a, "acquire", 1) /\ pc[a] = "idle"
      /\ pc' = [pc EXCEPT ![a] = "acquiring"] /\ UNCHANGED ext /\ 1 \in 0 .. MostTries
  BY RedlockAssumption DEF OneInv, IInv, Acquire
<1>2. /\ pc'[a] = "acquiring"
      /\ \A b \in Locks : b # a => pc'[b] = pc[b]
  BY <1>1 DEF TypeOK
<1>3. /\ exec'[a] \in Attempts /\ yes'[a] = {} /\ tries'[a] = 1
      /\ \A b \in Locks : b # a =>
           exec'[b] = exec[b] /\ yes'[b] = yes[b] /\ tries'[b] = tries[b]
  <2>1. tries'[a] = 1
    BY <1>1 DEF Send, TypeOK
  <2> QED BY <1>1, <2>1, Sending
<1>4. \A r \in requests : r.lock \in Locks /\ r.lock # a
  BY <1>1 DEF OneInv, Beginning, TypeOK, Request
<1>5. /\ \A r \in requests' \ requests : r.lock = a /\ r.op = "acquire"
      /\ \A r, s \in requests' \ requests : r = s
  BY <1>1, SentOnce
<1>6. Beginning'
  <2>1. \A r \in requests' : pc'[r.lock] # "idle" /\ (pc'[r.lock] = "acquiring" => r.op = "acquire")
    BY <1>2, <1>4, <1>5 DEF OneInv, Beginning
  <2>2. \A b \in Locks : pc'[b] \in {"idle", "acquiring"} =>
          ext'[b] = "off" /\ exec'[b] # Delay /\ (exec'[b] \in Attempts => tries'[b] >= 1)
    BY <1>1, <1>2, <1>3 DEF OneInv, Beginning
  <2> QED BY <2>1, <2>2 DEF Beginning
<1>7. AskedOnce'
  <2> SUFFICES ASSUME NEW r \in requests', r.op = "acquire"
               PROVE  /\ pc'[r.lock] \notin {"running", "finishing"}
                      /\ pc'[r.lock] = "acquiring" => yes'[r.lock] = {}
                      /\ \A s \in requests' : s.op = "acquire" /\ s.lock = r.lock => s = r
    BY DEF AskedOnce
  <2>1. CASE r \in requests
    BY <1>2, <1>3, <1>4, <1>5, <2>1 DEF OneInv, AskedOnce
  <2>2. CASE r \notin requests
    BY <1>2, <1>3, <1>4, <1>5, <2>2
  <2> QED BY <2>1, <2>2
<1> QED BY <1>6, <1>7 DEF OneInv

\* Later on no acquire is sent, and the lock is granted by votes alone.
LEMMA LaterStep ==
  ASSUME Single, OneInv, NEW a \in Locks, LockStep(a), ~Acquire(a)
  PROVE  /\ pc'[a] \notin {"idle", "acquiring"}
         /\ pc'[a] \in {"running", "finishing"} =>
              pc[a] \in {"running", "finishing"} \/ (pc[a] = "acquiring" /\ yes[a] # {})
         /\ \A r \in requests' : r \in requests \/ (r.lock = a /\ r.op # "acquire")
         /\ \A b \in Locks : b # a =>
              /\ pc'[b] = pc[b] /\ ext'[b] = ext[b] /\ valid'[b] = valid[b]
              /\ exec'[b] = exec[b] /\ tries'[b] = tries[b] /\ yes'[b] = yes[b]
<1> USE Numbers
<1>0. /\ TypeOK /\ pc[a] \in Phases /\ tries[a] \in 0 .. MostTries /\ 1 \in 0 .. MostTries
      /\ exec[a] # None => pc[a] \in Owning \union {"undoing", "releasing"}
      /\ exec[a] = Delay => tries[a] < MostTries
  BY RedlockAssumption DEF OneInv, IInv, TypeOK, Executing
<1>1. pc[a] \in {"idle", "acquiring"} =>
        ext[a] = "off" /\ exec[a] # Delay /\ (exec[a] \in Attempts => tries[a] >= 1)
  BY DEF OneInv, Beginning
<1>2. pc[a] = "acquiring" => TriesOf(a) = 1
  BY DEF TriesOf, Single
<1>3. CASE Resend(a)
  <2>1. pc[a] \notin {"idle", "acquiring"} /\ Script(a) \in {"extend", "release"}
    BY <1>1, <1>3 DEF Resend, Script
  <2>2. Send(a, Script(a), tries[a] + 1) /\ tries[a] + 1 \in 0 .. MostTries
    BY <1>0, <1>3 DEF Resend
  <2>3. UNCHANGED <<pc, ext, valid>>
    BY <1>3 DEF Resend
  <2> QED BY <1>0, <2>1, <2>2, <2>3, Sending
<1>4. CASE Granted(a)
  <2>1. Close(a, None, 0) /\ pc[a] # "idle" /\ yes[a] # {}
    BY <1>0, <1>4, EmptyNoQuorum DEF Granted, Owning
  <2>2. /\ pc'[a] \in {"running", "finishing", "failed", "done"}
        /\ pc'[a] \in {"running", "finishing"} => pc[a] \in Owning
        /\ \A b \in Locks : b # a => pc'[b] = pc[b] /\ ext'[b] = ext[b] /\ valid'[b] = valid[b]
    BY <1>0, <1>4 DEF Granted, TypeOK
  <2> QED BY <1>0, <2>1, <2>2, Closing DEF Owning
<1>5. CASE Retry(a)
  <2>1. Close(a, Delay, tries[a]) /\ tries[a] < TriesOf(a) /\ exec[a] \in Attempts
    BY <1>5 DEF Retry
  <2>2. pc[a] \notin {"idle", "acquiring"}
    BY <1>0, <1>1, <1>2, <2>1 DEF Owning
  <2>3. UNCHANGED <<pc, ext, valid>>
    BY <1>5 DEF Retry
  <2> QED BY <1>0, <2>1, <2>2, <2>3, Closing
<1>6. CASE AcquireDenied(a)
  <2>1. /\ Send(a, "release", 1) /\ pc'[a] = "undoing"
        /\ \A b \in Locks : b # a => pc'[b] = pc[b] /\ ext'[b] = ext[b] /\ valid'[b] = valid[b]
    BY <1>0, <1>6 DEF AcquireDenied, TypeOK
  <2> QED BY <1>0, <2>1, Sending
<1>7. CASE ExtendAgain(a)
  <2>1. Send(a, "extend", 1) /\ UNCHANGED <<pc, ext, valid>> /\ ext[a] = "extending"
    BY <1>7 DEF ExtendAgain
  <2> QED BY <1>0, <1>1, <2>1, Sending
<1>8. CASE ExtendDenied(a)
  <2>1. /\ Close(a, None, 0) /\ ext[a] = "extending"
        /\ UNCHANGED <<pc, valid>>
        /\ \A b \in Locks : b # a => ext'[b] = ext[b]
    BY <1>0, <1>8 DEF ExtendDenied, TypeOK
  <2> QED BY <1>0, <1>1, <2>1, Closing
<1>9. CASE ReleaseDenied(a)
  <2>1. /\ Close(a, None, 0) /\ pc'[a] \in {"failed", "done"}
        /\ \A b \in Locks : b # a => pc'[b] = pc[b] /\ ext'[b] = ext[b] /\ valid'[b] = valid[b]
    BY <1>0, <1>9 DEF ReleaseDenied, TypeOK
  <2> QED BY <1>0, <2>1, Closing
<1>10. CASE TimerFires(a)
  <2>1. /\ pc[a] = "running" /\ UNCHANGED <<pc, valid>>
        /\ \A b \in Locks : b # a => ext'[b] = ext[b]
        /\ Send(a, "extend", 1) \/ UNCHANGED <<requests, voteVars>>
    BY <1>0, <1>10 DEF TimerFires, TypeOK
  <2>2. CASE Send(a, "extend", 1)
    BY <1>0, <2>1, <2>2, Sending
  <2>3. CASE UNCHANGED <<requests, voteVars>>
    BY <2>1, <2>3 DEF voteVars
  <2> QED BY <2>1, <2>2, <2>3
<1>11. CASE RoutineEnds(a)
  <2>1. /\ pc[a] = "running" /\ pc'[a] = "finishing"
        /\ \A b \in Locks : b # a => pc'[b] = pc[b]
        /\ UNCHANGED <<requests, ext, voteVars, valid>>
    BY <1>0, <1>11 DEF RoutineEnds, TypeOK
  <2> QED BY <2>1 DEF voteVars
<1>12. CASE Release(a)
  <2>1. /\ Send(a, "release", 1) /\ pc'[a] = "releasing"
        /\ \A b \in Locks : b # a => pc'[b] = pc[b] /\ ext'[b] = ext[b] /\ valid'[b] = valid[b]
    BY <1>0, <1>12 DEF Release, TypeOK
  <2> QED BY <1>0, <2>1, Sending
<1>13. CASE Crash(a)
  <2>1. /\ Close(a, None, 0) /\ pc'[a] = "dead"
        /\ \A b \in Locks : b # a => pc'[b] = pc[b] /\ ext'[b] = ext[b] /\ valid'[b] = valid[b]
    BY <1>0, <1>13 DEF Crash, TypeOK
  <2> QED BY <1>0, <2>1, Closing
<1> QED
  BY <1>3, <1>4, <1>5, <1>6, <1>7, <1>8, <1>9, <1>10, <1>11, <1>12, <1>13 DEF LockStep

LEMMA LaterOneInv ==
  ASSUME Single, OneInv, IInv', NEW a \in Locks, LockStep(a), ~Acquire(a)
  PROVE  OneInv'
<1>0. \A r \in requests : r.lock \in Locks
  BY DEF OneInv, IInv, TypeOK, Request
<1>1. /\ pc'[a] \notin {"idle", "acquiring"}
      /\ pc'[a] \in {"running", "finishing"} =>
           pc[a] \in {"running", "finishing"} \/ (pc[a] = "acquiring" /\ yes[a] # {})
      /\ \A r \in requests' : r \in requests \/ (r.lock = a /\ r.op # "acquire")
      /\ \A b \in Locks : b # a =>
           /\ pc'[b] = pc[b] /\ ext'[b] = ext[b]
           /\ exec'[b] = exec[b] /\ tries'[b] = tries[b] /\ yes'[b] = yes[b]
  BY LaterStep
<1>2. Beginning'
  BY <1>0, <1>1 DEF OneInv, Beginning
<1>3. AskedOnce'
  <2> SUFFICES ASSUME NEW r \in requests', r.op = "acquire"
               PROVE  /\ pc'[r.lock] \notin {"running", "finishing"}
                      /\ pc'[r.lock] = "acquiring" => yes'[r.lock] = {}
                      /\ \A s \in requests' : s.op = "acquire" /\ s.lock = r.lock => s = r
    BY DEF AskedOnce
  <2>1. r \in requests /\ r.lock \in Locks
    BY <1>0, <1>1
  <2>2. /\ pc[r.lock] \notin {"running", "finishing"}
        /\ pc[r.lock] = "acquiring" => yes[r.lock] = {}
        /\ \A s \in requests : s.op = "acquire" /\ s.lock = r.lock => s = r
    BY <2>1 DEF OneInv, AskedOnce
  <2> QED BY <1>1, <2>1, <2>2
<1> QED BY <1>2, <1>3 DEF OneInv

\* The node's and the network's steps.
LEMMA OtherOneInv ==
  ASSUME Single, OneInv, IInv',
         \/ \E r \in requests : Execute(r) \/ ConnectionLost(r)
         \/ \E n \in Nodes : Expire(n)
         \/ Tick \/ UNCHANGED vars
  PROVE  OneInv'
<1>0. TypeOK /\ \A r \in requests : r.lock \in Locks /\ r.node \in Nodes
  BY DEF OneInv, IInv, TypeOK, Request
<1>1. /\ requests' \subseteq requests
      /\ UNCHANGED <<pc, ext, exec, tries>>
  BY DEF Execute, ConnectionLost, Expire, Tick, vars, voteVars
<1>2. Beginning'
  BY <1>1 DEF OneInv, Beginning
<1>3. AskedOnce'
  <2> SUFFICES ASSUME NEW r \in requests', r.op = "acquire", pc[r.lock] = "acquiring"
               PROVE  yes'[r.lock] = {}
    BY <1>1 DEF OneInv, AskedOnce
  <2>1. yes[r.lock] = {} /\ \A s \in requests : s.lock = r.lock => s = r
    BY <1>1 DEF OneInv, AskedOnce, Beginning
  <2>2. CASE yes' = yes
    BY <2>1, <2>2
  <2>3. CASE yes' # yes
    <3>1. PICK q \in requests : Execute(q)
      BY <2>3 DEF ConnectionLost, Expire, Tick, vars, voteVars
    <3>2. requests' = requests \ {q} /\ (yes' = [yes EXCEPT ![q.lock] = @ \union {q.node}])
      BY <2>3, <3>1 DEF Execute
    <3>3. q.lock # r.lock
      BY <2>1, <3>2
    <3> QED BY <1>0, <1>1, <2>1, <3>2, <3>3 DEF TypeOK
  <2> QED BY <2>2, <2>3
<1> QED BY <1>2, <1>3 DEF OneInv

LEMMA NextOneInv ==
  ASSUME Single, OneInv, [Next]_vars
  PROVE  OneInv'
<1>1. IInv'
  BY NextIInv DEF OneInv
<1> QED BY <1>1, AcquireOneInv, LaterOneInv, OtherOneInv DEF Next

LEMMA InitOneInv == Init => OneInv
<1> SUFFICES ASSUME Init PROVE OneInv
  OBVIOUS
<1> QED BY InitIInv, Numbers DEF Init, OneInv, Beginning, AskedOnce

-----------------------------------------------------------------------------
(* The holder and its predecessors *)

\* What a step does to locks that have been granted, and to those that hold.
LEMMA Progress ==
  ASSUME Single, OneInv, [Next]_vars
  PROVE  /\ \A b \in Locks : Granting(b) => Granting(b)'
         /\ \A b \in Locks, n \in Nodes : Granting(b) /\ owner[n] # b => owner'[n] # b
         /\ \A a \in Locks : Holds(a)' /\ ~Holds(a) =>
              \A b \in Locks \ {a} : Holds(b) => Holds(b)'
<1>0. TypeOK /\ \A r \in requests : r.lock \in Locks /\ r.node \in Nodes
  BY DEF OneInv, IInv, TypeOK, Request
<1>1. CASE \E a \in Locks : LockStep(a)
  <2>1. PICK a \in Locks : LockStep(a)
    BY <1>1
  <2>2. UNCHANGED nodeVars
    BY <2>1 DEF LockStep, Acquire, Resend, Granted, Retry, AcquireDenied, ExtendAgain, ExtendDenied,
       ReleaseDenied, TimerFires, RoutineEnds, Release, Crash
  <2>3. CASE Acquire(a)
    <3>1. /\ Send(a, "acquire", 1) /\ pc[a] = "idle" /\ pc' = [pc EXCEPT ![a] = "acquiring"]
          /\ UNCHANGED valid
      BY <2>3 DEF Acquire
    <3>2. \A r \in requests' \ requests : r.lock = a
      BY <3>1, SentOnce
    <3>3. \A b \in Locks : b # a => pc'[b] = pc[b] /\ valid'[b] = valid[b]
      BY <1>0, <3>1 DEF TypeOK
    <3> QED BY <2>2, <3>1, <3>2, <3>3 DEF Granting, Holds, nodeVars
  <2>4. CASE ~Acquire(a)
    <3>1. /\ pc'[a] \notin {"idle", "acquiring"}
          /\ \A r \in requests' : r \in requests \/ (r.lock = a /\ r.op # "acquire")
          /\ \A b \in Locks : b # a => pc'[b] = pc[b] /\ valid'[b] = valid[b]
      BY <2>1, <2>4, LaterStep
    <3>2. \A b \in Locks : Granting(b) => Granting(b)'
      BY <3>1 DEF Granting
    <3>3. \A b \in Locks \ {a} : Holds(b)' <=> Holds(b)
      BY <3>1 DEF Holds
    <3> QED BY <2>2, <3>2, <3>3 DEF nodeVars
  <2> QED BY <2>3, <2>4
<1>2. CASE \E r \in requests : Execute(r)
  <2>1. PICK r \in requests : Execute(r)
    BY <1>2
  <2>2. /\ requests' \subseteq requests /\ UNCHANGED <<pc, valid>>
        /\ \/ UNCHANGED owner
           \/ /\ Accepts(r.node, r)
              /\ owner' = [owner EXCEPT ![r.node] = IF r.op = "release" THEN NoLock ELSE r.lock]
    BY <2>1 DEF Execute, nodeVars
  <2>3. ASSUME NEW b \in Locks, NEW n \in Nodes, Granting(b), owner[n] # b
        PROVE  owner'[n] # b
    <3>1. owner'[n] \in {owner[n], NoLock} \/ (owner'[n] = r.lock /\ n = r.node /\ Accepts(n, r))
      BY <1>0, <2>2 DEF TypeOK
    <3>2. r.lock = b => r.op # "acquire"
      BY <2>3 DEF Granting
    <3>3. NoLock # b
      BY RedlockAssumption
    <3> QED BY <2>3, <3>1, <3>2, <3>3 DEF Accepts
  <2> QED BY <2>2, <2>3 DEF Granting, Holds
<1>3. CASE \E r \in requests : ConnectionLost(r)
  <2>1. requests' \subseteq requests /\ UNCHANGED <<owner, pc, valid>>
    BY <1>3 DEF ConnectionLost, nodeVars
  <2> QED BY <2>1 DEF Granting, Holds
<1>4. CASE \E n \in Nodes : Expire(n)
  <2>1. PICK m \in Nodes : Expire(m)
    BY <1>4
  <2>2. UNCHANGED <<requests, pc, valid>> /\ owner' = [owner EXCEPT ![m] = NoLock]
    BY <2>1 DEF Expire
  <2>3. \A n \in Nodes : owner'[n] \in {owner[n], NoLock}
    BY <1>0, <2>2 DEF TypeOK
  <2> QED BY <2>2, <2>3, RedlockAssumption DEF Granting, Holds
<1>5. CASE Tick
  <2>1. UNCHANGED <<owner, requests, pc>> /\ \A b \in Locks : valid'[b] > 0 => valid[b] > 0
    BY <1>0, <1>5, RedlockAssumption DEF Tick, Less, TypeOK
  <2> QED BY <2>1 DEF Granting, Holds
<1>6. CASE UNCHANGED vars
  BY <1>6 DEF vars, nodeVars, Granting, Holds
<1> QED BY <1>1, <1>2, <1>3, <1>4, <1>5, <1>6 DEF Next

\* A lock that holds is granted and its key is on the node: there is one at most,
\* and it is the holder.
Held ==
  /\ \A a \in Locks : Holds(a) => Granting(a) /\ \A n \in Nodes : owner[n] = a
  /\ Holder \in Locks \union {NoLock}
  /\ \A a \in Locks : Holder = a <=> Holds(a)

LEMMA Holding == Single /\ OneInv => Held
<1> SUFFICES ASSUME Single, OneInv PROVE Held
  OBVIOUS
<1>1. PICK n \in Nodes : Nodes = {n}
  BY OneNode
<1>2. ASSUME NEW a \in Locks, Holds(a) PROVE Granting(a) /\ \A m \in Nodes : owner[m] = a
  <2>1. Granting(a)
    BY <1>2 DEF OneInv, AskedOnce, Granting, Holds
  <2>2. PICK Q \in SUBSET Nodes : IsQuorum(Q) /\ \A m \in Q : owner[m] = a
    BY <1>2 DEF OneInv, IInv, QuorumBacked
  <2>3. Q = {n}
    BY <1>1, <2>2, EmptyNoQuorum
  <2> QED BY <1>1, <2>1, <2>2, <2>3
<1>3. \A a, b \in Locks : Holds(a) /\ Holds(b) => a = b
  BY <1>2
<1>4. CASE \E a \in Locks : Holds(a)
  <2>1. Holder \in Locks /\ Holds(Holder)
    BY <1>4 DEF Holder
  <2> QED BY <1>2, <1>3, <2>1 DEF Held
<1>5. CASE ~\E a \in Locks : Holds(a)
  BY <1>5, RedlockAssumption DEF Holder, Held
<1> QED BY <1>4, <1>5

\* Every step keeps the history in order, and is a step of the lease.
LEMMA NextHInv ==
  ASSUME Single, HInv, [HNext]_hvars
  PROVE  HInv' /\ [L!Next]_<<Holder, last, past>>
<1>0. [Next]_vars /\ OneInv /\ OneInv'
  BY NextOneInv DEF HInv, HNext, hvars
<1>1. Held /\ Held'
  BY <1>0, Holding, PTL
<1>2. /\ \A b \in Locks : Granting(b) => Granting(b)'
      /\ \A b \in Locks, n \in Nodes : Granting(b) /\ owner[n] # b => owner'[n] # b
  BY <1>0, Progress
<1>3. \A a \in Locks : Holder' = a /\ Holder # a => Holder = NoLock
  <2> SUFFICES ASSUME NEW a \in Locks, Holder' = a, Holder # a, Holder # NoLock PROVE FALSE
    OBVIOUS
  <2>1. PICK b \in Locks : Holder = b
    BY <1>1 DEF Held
  <2>2. Holds(b)'
    BY <1>0, <1>1, <2>1, Progress DEF Held
  <2> QED BY <1>1, <2>1, <2>2 DEF Held
<1>4. PICK n \in Nodes : Nodes = {n}
  BY OneNode
<1>5. \A a \in Locks : Holder' = a => Granting(a)' /\ owner'[n] = a
  BY <1>1 DEF Held
<1>6. CASE UNCHANGED <<last, past>> /\ Holder' \in {NoLock, Holder}
  <2>1. LastGranted'
    <3>1. last' \in Locks \union {NoLock} /\ (last' # NoLock => Granting(last)')
      BY <1>2, <1>6 DEF HInv, LastGranted, Granting
    <3>2. \A a \in Locks : Holds(a)' => last' = a
      BY <1>1, <1>6, RedlockAssumption DEF HInv, LastGranted, Held
    <3> QED BY <3>1, <3>2 DEF LastGranted
  <2>2. PastOver'
    BY <1>2, <1>6 DEF HInv, PastOver
  <2>3. Holder' = Holder \/ L!Lapse
    BY <1>6 DEF L!Lapse
  <2> QED BY <1>0, <1>6, <2>1, <2>2, <2>3 DEF HInv, L!Next
<1>7. CASE Holder' \in Locks /\ Holder' # Holder /\ last' = Holder'
           /\ past' = (past \union {last}) \ {Holder', NoLock}
  <2>1. PICK a \in Locks : Holder' = a
    BY <1>7
  <2>2. Holder = NoLock /\ owner'[n] = a /\ Granting(a)'
    BY <1>3, <1>5, <1>7, <2>1
  <2>3. a \notin past
    BY <1>2, <2>2 DEF HInv, PastOver
  <2>4. LastGranted'
    BY <1>1, <1>7, <2>1, <2>2 DEF LastGranted, Held
  <2>5. PastOver'
    <3>1. past' \subseteq Locks /\ last' \notin past'
      BY <1>7 DEF HInv, LastGranted, PastOver
    <3>2. ASSUME NEW b \in past' PROVE Granting(b)' /\ \A m \in Nodes : owner'[m] # b
      <4>1. b \in Locks /\ b # a /\ Granting(b)
        BY <1>7, <2>1, <3>1 DEF HInv, LastGranted, PastOver
      <4> QED BY <1>2, <1>4, <2>2, <4>1
    <3> QED BY <3>1, <3>2 DEF PastOver
  <2>6. L!Grant(a)
    BY <1>7, <2>1, <2>2, <2>3 DEF L!Grant
  <2> QED BY <1>0, <2>1, <2>4, <2>5, <2>6 DEF HInv, L!Next
<1> QED
  <2>1. CASE UNCHANGED hvars
    <3>1. UNCHANGED <<last, past>> /\ UNCHANGED Holder
      BY <2>1 DEF hvars, vars, Holder, Holds
    <3> QED BY <1>6, <3>1
  <2>2. CASE HNext
    <3>1. CASE Holder' = NoLock \/ Holder' = Holder
      <4>1. Holder' \in Locks => last = Holder'
        BY <1>1, <3>1, RedlockAssumption DEF HInv, LastGranted, Held
      <4> QED BY <1>1, <1>6, <2>2, <3>1, <4>1 DEF HNext, Held
    <3>2. CASE Holder' # NoLock /\ Holder' # Holder
      BY <1>1, <1>7, <2>2, <3>2 DEF HNext, Held
    <3> QED BY <3>1, <3>2
  <2> QED BY <2>1, <2>2

-----------------------------------------------------------------------------

\* A Redlock of one node whose acquires are not retried is a lease: it is granted
\* only while nobody holds it, and a lock that was followed by another is never
\* valid again, whatever acquire, extension or release of it is still in flight.
THEOREM Refinement == ASSUME Single PROVE HSpec => LeaseSpec
<1>1. HInit => HInv /\ L!Init
  <2> SUFFICES ASSUME HInit PROVE HInv /\ L!Init
    OBVIOUS
  <2>1. OneInv /\ ~\E a \in Locks : Holds(a)
    BY InitOneInv DEF HInit, Init, Holds
  <2>2. Holder = NoLock
    BY <2>1 DEF Holder
  <2> QED BY <2>1, <2>2 DEF HInit, HInv, LastGranted, PastOver, L!Init
<1>2. HInv /\ [HNext]_hvars => HInv' /\ [L!Next]_<<Holder, last, past>>
  BY NextHInv
<1> QED BY <1>1, <1>2, PTL DEF HSpec, LeaseSpec, L!Spec

=============================================================================
