------------------------------ MODULE CronSlots ------------------------------
(***************************************************************************)
(* Slot election of the cron manager (backend/src/lib/cron/cron-job.ts).   *)
(*                                                                         *)
(* Every API pod builds one cron manager.  Only pods that hold one of the  *)
(* NSlots keys `slot:i` take part in cron ticking: a pod claims a key with *)
(* SET NX PX, keeps it with SET XX PX from a timer, and releases it from   *)
(* stop() with a compare-and-delete script.  Slot operations of one pod    *)
(* are chained on the promise `slotOp`; Ops are the links of that chain,   *)
(* each of which suspends at every Redis call.                             *)
(*                                                                         *)
(* A pod is one life of a factory instance: workerId is drawn at random    *)
(* when the factory runs, so a restarted process is another pod.           *)
(***************************************************************************)
EXTENDS Naturals, FiniteSets

CONSTANTS
  Pods,       \* factory instances (workerId)
  Ops,        \* links a pod's slotOp chain can hold at a time
  NSlots,     \* PARTICIPANT_SLOTS
  NoPod,      \* value of a slot key that does not exist
  NoSlot,     \* currentSlot = null
  MaxStalls,  \* bound: TTL expiries suffered by a pod that is still alive
  MaxFaults   \* bound: slot operations that fail because of Redis

Slots == 0 .. NSlots - 1

ASSUME PodsAssumption == IsFiniteSet(Pods)

ASSUME SlotsAssumption ==
  /\ NSlots \in Nat \ {0}
  /\ NoPod \notin Pods
  /\ NoSlot \notin Slots
  /\ MaxStalls \in Nat
  /\ MaxFaults \in Nat

VARIABLES
  slotKey,      \* Redis: the owner written in slot:i, or NoPod
  currentSlot,  \* pod: the slot it believes it holds, or NoSlot
  phase,        \* pod: life cycle of the factory instance
  op,           \* pod: its chained slot operations
  orphan,       \* history: keys whose value was written by a SET NX whose reply was lost
  stalls, faults\* counters for the two bounds

vars == <<slotKey, currentSlot, phase, op, orphan, stalls, faults>>

-----------------------------------------------------------------------------
(* Types *)

Phases == {"new", "up", "stopping", "down", "dead"}

\* An operation is absent, chained behind others, or waiting for the reply to
\* SET XX or to SET NX on slot `at`.
Operation == [pc : {"none", "queued", "refresh", "claim"}, at : Slots]

NoOp == [pc |-> "none", at |-> 0]
Queued == [pc |-> "queued", at |-> 0]
SetXX(i) == [pc |-> "refresh", at |-> i]
SetNX(i) == [pc |-> "claim", at |-> i]

TypeOK ==
  /\ slotKey \in [Slots -> Pods \union {NoPod}]
  /\ currentSlot \in [Pods -> Slots \union {NoSlot}]
  /\ phase \in [Pods -> Phases]
  /\ op \in [Pods \X Ops -> Operation]
  /\ orphan \subseteq Slots
  /\ stalls \in 0 .. MaxStalls
  /\ faults \in 0 .. MaxFaults

Init ==
  /\ slotKey = [i \in Slots |-> NoPod]
  /\ currentSlot = [p \in Pods |-> NoSlot]
  /\ phase = [p \in Pods |-> "new"]
  /\ op = [x \in Pods \X Ops |-> NoOp]
  /\ orphan = {}
  /\ stalls = 0
  /\ faults = 0

-----------------------------------------------------------------------------
(* Helpers *)

Alive(p) == phase[p] \in {"up", "stopping"}

Running(p, o) == op[<<p, o>>].pc \in {"refresh", "claim"}

Stopped(p) == phase[p] # "up"

\* The pods whose enqueue and process ticks pass the `currentSlot === null` gate.
Participants == {p \in Pods : phase[p] = "up" /\ currentSlot[p] # NoSlot}

\* Live pods that believe in a slot whose key is another pod's or gone.
Deceived == {p \in Pods : Alive(p) /\ currentSlot[p] # NoSlot /\ slotKey[currentSlot[p]] # p}

\* The operation `o` of `p` settles: its promise resolves, or its error is
\* logged by runSlotOp, and the next link of the chain may start.
Settle(p, o) == op' = [op EXCEPT ![<<p, o>>] = NoOp]

-----------------------------------------------------------------------------
(* Seeded faults: the bugs the properties below are expected to notice.  No  *)
(* specification uses them.                                                  *)

\* runSlotOp starts the operation at once instead of chaining it.
BeginOpUnchained(p, o) ==
  /\ Alive(p)
  /\ op[<<p, o>>].pc = "queued"
  /\ op' = [op EXCEPT ![<<p, o>>] =
              IF Stopped(p) THEN NoOp
              ELSE IF currentSlot[p] # NoSlot THEN SetXX(currentSlot[p])
              ELSE SetNX(0)]
  /\ UNCHANGED <<slotKey, currentSlot, phase, orphan, stalls, faults>>

\* The claim loop stops at the first slot that is held.
ClaimHeldGivesUp(p, o) ==
  /\ op[<<p, o>>].pc = "claim"
  /\ slotKey[op[<<p, o>>].at] # NoPod
  /\ Settle(p, o)
  /\ UNCHANGED <<slotKey, currentSlot, phase, orphan, stalls, faults>>

\* The claim loop runs one slot too far.
ClaimHeldOffByOne(p, o) ==
  /\ op[<<p, o>>].pc = "claim"
  /\ op[<<p, o>>].at \in Slots
  /\ slotKey[op[<<p, o>>].at] # NoPod
  /\ op' = [op EXCEPT ![<<p, o>>].at = @ + 1]
  /\ UNCHANGED <<slotKey, currentSlot, phase, orphan, stalls, faults>>

\* The claim is sent without NX.
ClaimTakenWithoutNX(p, o) ==
  LET i == op[<<p, o>>].at IN
  /\ op[<<p, o>>].pc = "claim"
  /\ slotKey' = [slotKey EXCEPT ![i] = p]
  /\ orphan' = orphan \ {i}
  /\ currentSlot' = [currentSlot EXCEPT ![p] = i]
  /\ Settle(p, o)
  /\ UNCHANGED <<phase, stalls, faults>>

\* stop() leaves the slot timer set.
SlotTimerNotCleared(p, o) ==
  /\ Alive(p)
  /\ op[<<p, o>>].pc = "none"
  /\ op' = [op EXCEPT ![<<p, o>>] = Queued]
  /\ UNCHANGED <<slotKey, currentSlot, phase, orphan, stalls, faults>>

\* stop() deletes its slot key without comparing the owner.
ReleaseSlotUnchecked(p) ==
  /\ IF currentSlot[p] # NoSlot
     THEN /\ slotKey' = [slotKey EXCEPT ![currentSlot[p]] = NoPod]
          /\ orphan' = orphan \ {currentSlot[p]}
     ELSE UNCHANGED <<slotKey, orphan>>
  /\ currentSlot' = [currentSlot EXCEPT ![p] = NoSlot]

\* stop() releases without waiting for the tail of the chain.
StopReleaseEarly(p) ==
  LET i == currentSlot[p] IN
  /\ phase[p] = "stopping"
  /\ phase' = [phase EXCEPT ![p] = "down"]
  /\ IF i # NoSlot /\ slotKey[i] = p
     THEN /\ slotKey' = [slotKey EXCEPT ![i] = NoPod]
          /\ orphan' = orphan \ {i}
     ELSE UNCHANGED <<slotKey, orphan>>
  /\ currentSlot' = [currentSlot EXCEPT ![p] = NoSlot]
  /\ UNCHANGED <<op, stalls, faults>>

\* SET is sent without PX: the key never expires.
ExpireNever(i) ==
  /\ i \notin Slots
  /\ UNCHANGED vars

-----------------------------------------------------------------------------
(* Pod steps *)

\* start(): timers are set and the initial claim is chained at once.
Start(p) ==
  /\ phase[p] = "new"
  /\ phase' = [phase EXCEPT ![p] = "up"]
  /\ \E o \in Ops : op' = [op EXCEPT ![<<p, o>>] = Queued]
  /\ UNCHANGED <<slotKey, currentSlot, orphan, stalls, faults>>

\* The slot timer fires (only while it is set) and chains another operation.
SlotTimer(p, o) ==
  /\ phase[p] = "up"
  /\ op[<<p, o>>].pc = "none"
  /\ op' = [op EXCEPT ![<<p, o>>] = Queued]
  /\ UNCHANGED <<slotKey, currentSlot, phase, orphan, stalls, faults>>

\* The chain reaches `o`: nothing to do when stopped; otherwise
\* claimOrRefreshSlot() reads currentSlot and sends its first SET.
BeginOp(p, o) ==
  /\ Alive(p)
  /\ op[<<p, o>>].pc = "queued"
  /\ \A other \in Ops : ~Running(p, other)
  /\ op' = [op EXCEPT ![<<p, o>>] =
              IF Stopped(p) THEN NoOp
              ELSE IF currentSlot[p] # NoSlot THEN SetXX(currentSlot[p])
              ELSE SetNX(0)]
  /\ UNCHANGED <<slotKey, currentSlot, phase, orphan, stalls, faults>>

\* SET slot:i <workerId> XX: it succeeds on any existing key, whoever wrote it.
Refresh(p, o) ==
  /\ op[<<p, o>>].pc = "refresh"
  /\ LET i == op[<<p, o>>].at IN
     \/ /\ slotKey[i] # NoPod
        /\ slotKey' = [slotKey EXCEPT ![i] = p]
        /\ orphan' = orphan \ {i}
        /\ Settle(p, o)
        /\ UNCHANGED currentSlot
     \/ /\ slotKey[i] = NoPod
        /\ currentSlot' = [currentSlot EXCEPT ![p] = NoSlot]
        /\ op' = [op EXCEPT ![<<p, o>>] = SetNX(0)]
        /\ UNCHANGED <<slotKey, orphan>>
  /\ UNCHANGED <<phase, stalls, faults>>

\* SET slot:i <workerId> NX takes a free key.
ClaimTaken(p, o) ==
  LET i == op[<<p, o>>].at IN
  /\ op[<<p, o>>].pc = "claim"
  /\ slotKey[i] = NoPod
  /\ slotKey' = [slotKey EXCEPT ![i] = p]
  /\ orphan' = orphan \ {i}
  /\ currentSlot' = [currentSlot EXCEPT ![p] = i]
  /\ Settle(p, o)
  /\ UNCHANGED <<phase, stalls, faults>>

\* SET NX finds the key held: the loop moves on, and gives up after the last slot.
ClaimHeld(p, o) ==
  LET i == op[<<p, o>>].at IN
  /\ op[<<p, o>>].pc = "claim"
  /\ slotKey[i] # NoPod
  /\ op' = [op EXCEPT ![<<p, o>>] =
              IF i + 1 < NSlots THEN SetNX(i + 1) ELSE NoOp]
  /\ UNCHANGED <<slotKey, currentSlot, phase, orphan, stalls, faults>>

\* A SET call rejects before reaching Redis: the error is caught and logged.
OpFails(p, o) ==
  /\ faults < MaxFaults
  /\ Running(p, o)
  /\ faults' = faults + 1
  /\ Settle(p, o)
  /\ UNCHANGED <<slotKey, currentSlot, phase, orphan, stalls>>

\* SET NX takes effect but the call rejects: the key carries this pod's id and
\* the pod does not know it.
ClaimReplyLost(p, o) ==
  LET i == op[<<p, o>>].at IN
  /\ faults < MaxFaults
  /\ op[<<p, o>>].pc = "claim"
  /\ slotKey[i] = NoPod
  /\ slotKey' = [slotKey EXCEPT ![i] = p]
  /\ orphan' = orphan \union {i}
  /\ faults' = faults + 1
  /\ Settle(p, o)
  /\ UNCHANGED <<currentSlot, phase, stalls>>

\* stop() sets `stopped` and clears the timers.
Stop(p) ==
  /\ phase[p] = "up"
  /\ phase' = [phase EXCEPT ![p] = "stopping"]
  /\ UNCHANGED <<slotKey, currentSlot, op, orphan, stalls, faults>>

\* RELEASE_SLOT_IF_MINE_LUA on currentSlot, if any.
ReleaseSlot(p) ==
  LET i == currentSlot[p] IN
  /\ IF i # NoSlot /\ slotKey[i] = p
     THEN /\ slotKey' = [slotKey EXCEPT ![i] = NoPod]
          /\ orphan' = orphan \ {i}
     ELSE UNCHANGED <<slotKey, orphan>>
  /\ currentSlot' = [currentSlot EXCEPT ![p] = NoSlot]

\* stop() has awaited the tail of the chain, releases the slot and resolves.
StopRelease(p) ==
  /\ phase[p] = "stopping"
  /\ \A o \in Ops : op[<<p, o>>].pc = "none"
  /\ phase' = [phase EXCEPT ![p] = "down"]
  /\ ReleaseSlot(p)
  /\ UNCHANGED <<op, stalls, faults>>

\* The process dies, or stop() rejects because the release script fails.
Crash(p) ==
  /\ Alive(p)
  /\ phase' = [phase EXCEPT ![p] = "dead"]
  /\ currentSlot' = [currentSlot EXCEPT ![p] = NoSlot]
  /\ op' = [x \in Pods \X Ops |-> IF x[1] = p THEN NoOp ELSE op[x]]
  /\ UNCHANGED <<slotKey, orphan, stalls, faults>>

-----------------------------------------------------------------------------
(* Redis *)

\* The key's owner still runs and believes in it: its TTL can only lapse if
\* the refresh timer was late by more than slotTtlMs - slotRefreshMs.
Tended(i) == \E p \in Pods : slotKey[i] = p /\ Alive(p) /\ currentSlot[p] = i

\* The TTL of an untended key lapses.
Expire(i) ==
  /\ slotKey[i] # NoPod
  /\ ~Tended(i)
  /\ slotKey' = [slotKey EXCEPT ![i] = NoPod]
  /\ orphan' = orphan \ {i}
  /\ UNCHANGED <<currentSlot, phase, op, stalls, faults>>

\* The TTL of a tended key lapses: a stalled event loop or an unreachable Redis.
Stall(i) ==
  /\ stalls < MaxStalls
  /\ Tended(i)
  /\ slotKey' = [slotKey EXCEPT ![i] = NoPod]
  /\ orphan' = orphan \ {i}
  /\ stalls' = stalls + 1
  /\ UNCHANGED <<currentSlot, phase, op, faults>>

-----------------------------------------------------------------------------

OpStep(p, o) ==
  \/ BeginOp(p, o)
  \/ Refresh(p, o)
  \/ ClaimTaken(p, o)
  \/ ClaimHeld(p, o)

Next ==
  \/ \E p \in Pods : Start(p) \/ Stop(p) \/ StopRelease(p) \/ Crash(p)
  \/ \E p \in Pods, o \in Ops :
        \/ SlotTimer(p, o)
        \/ OpStep(p, o)
        \/ OpFails(p, o)
        \/ ClaimReplyLost(p, o)
  \/ \E i \in Slots : Expire(i) \/ Stall(i)

Spec == Init /\ [][Next]_vars

\* Fairness: timers fire, Redis answers, chained operations settle, stop()
\* goes on once the chain is empty, and keys nobody tends run out.  Nothing
\* is assumed of crashes or of stop() being called; failures and stalls are
\* finitely many.
Fairness ==
  /\ \A p \in Pods :
       /\ WF_vars(Start(p))
       /\ WF_vars(StopRelease(p))
       /\ WF_vars(\E o \in Ops : SlotTimer(p, o))
       /\ WF_vars(\E o \in Ops : OpStep(p, o))
  /\ \A i \in Slots : WF_vars(Expire(i))

FairSpec == Spec /\ Fairness

-----------------------------------------------------------------------------
(* Properties *)

\* A live pod owns no slot key but that of its currentSlot, unless the reply
\* of the claim was lost: however many timer ticks overlap, it never burns two
\* of the participant slots (the reason runSlotOp chains its operations).
OwnsOnlyCurrent ==
  \A p \in Pods, i \in Slots \ orphan :
    Alive(p) /\ slotKey[i] = p => currentSlot[p] = i

\* Once stop() has resolved the pod owns no slot key: no late claim re-created
\* one after the release (again, up to claims whose reply was lost).
CleanStop ==
  \A p \in Pods, i \in Slots \ orphan : phase[p] = "down" => slotKey[i] # p

\* A slot key whose owner is alive and believes in it is only ever deleted by
\* the TTL or by that owner's own stop(): another pod's late stop() or failed
\* refresh never frees it.
NoEviction ==
  [][\A i \in Slots :
       Tended(i) /\ slotKey'[i] = NoPod =>
         stalls' > stalls \/ \E p \in Pods : slotKey[i] = p /\ phase'[p] = "down"]_vars

\* "Caps the number of pods that participate in cron ticking": a pod believes in
\* a slot whose key is not its own only because a key ran out under a live pod,
\* and each such expiry deceives one pod at most, however SET XX passes the key
\* to and fro.
DeceivedByStalls == Cardinality(Deceived) <= stalls

\* A running pod keeps looking for a slot: it gets one unless every key is
\* taken at some moment by somebody else, or it stops.
IdlePodClaims ==
  \A p \in Pods :
    phase[p] = "up" /\ currentSlot[p] = NoSlot ~>
      \/ phase[p] # "up" \/ currentSlot[p] # NoSlot
      \/ \A i \in Slots : slotKey[i] \notin {NoPod, p}

\* A dead or stopped pod's slot goes back to the pool.
SlotsReturn ==
  \A p \in Pods, i \in Slots :
    phase[p] \in {"down", "dead"} ~> slotKey[i] # p

\* stop() terminates: the chain it awaits drains because no operation can be
\* added to it any more.
StopTerminates ==
  \A p \in Pods : phase[p] = "stopping" ~> phase[p] # "stopping"

\* "Caps the number of pods that participate in cron ticking": stalls are
\* finitely many, so from some point on at most NSlots pods take part: the
\* participants can be given distinct slots.
CapRestored ==
  <>[](\A p, q \in Participants : p # q => currentSlot[p] # currentSlot[q])

=============================================================================
