--------------------------- MODULE CronSlotsProofs ---------------------------
(***************************************************************************)
(* Safety of the slot election, for any number of pods, slots and chained  *)
(* operations and for any number of stalls and failures.                   *)
(***************************************************************************)
EXTENDS CronSlots, FiniteSetTheorems, TLAPS

\* At most one link of a pod's chain has a Redis call outstanding.
Serialized ==
  \A p \in Pods : \A o1, o2 \in Ops : Running(p, o1) /\ Running(p, o2) => o1 = o2

\* What an operation in flight knows about currentSlot stays true, because no
\* other operation of the pod can change it meanwhile.
OpsAgree ==
  \A p \in Pods, o \in Ops :
    /\ op[<<p, o>>].pc = "claim" => currentSlot[p] = NoSlot
    /\ op[<<p, o>>].pc = "refresh" => currentSlot[p] = op[<<p, o>>].at

\* Outside its life a pod has no operations, and before it owns no key.
Quiet ==
  \A p \in Pods :
    /\ ~Alive(p) => \A o \in Ops : op[<<p, o>>].pc = "none"
    /\ phase[p] = "new" => \A i \in Slots : slotKey[i] # p

IInv ==
  /\ TypeOK
  /\ Serialized
  /\ OpsAgree
  /\ Quiet
  /\ OwnsOnlyCurrent
  /\ CleanStop

-----------------------------------------------------------------------------

\* The four shapes an operation takes.
LEMMA Shapes ==
  /\ NoOp \in Operation /\ NoOp.pc = "none"
  /\ Queued \in Operation /\ Queued.pc = "queued"
  /\ \A i \in Slots :
       /\ SetXX(i) \in Operation /\ SetXX(i).pc = "refresh" /\ SetXX(i).at = i
       /\ SetNX(i) \in Operation /\ SetNX(i).pc = "claim" /\ SetNX(i).at = i
  /\ \A x \in Operation : x.at \in Slots
  /\ 0 \in Slots
  /\ \A i \in Slots : i + 1 < NSlots => i + 1 \in Slots
  BY SlotsAssumption DEF Slots, Operation, NoOp, Queued, SetXX, SetNX

LEMMA InitIInv == Init => IInv
  BY SlotsAssumption, Shapes DEF Init, IInv, TypeOK, Serialized, OpsAgree, Quiet,
     OwnsOnlyCurrent, CleanStop, Phases, Running, Alive

\* Writing one operation of one pod leaves all the others as they were.
LEMMA Write ==
  ASSUME op \in [Pods \X Ops -> Operation], NEW p \in Pods, NEW o \in Ops, NEW v \in Operation,
         op' = [op EXCEPT ![<<p, o>>] = v]
  PROVE  /\ op' \in [Pods \X Ops -> Operation]
         /\ \A q \in Pods, r \in Ops :
              op'[<<q, r>>] = IF q = p /\ r = o THEN v ELSE op[<<q, r>>]
  OBVIOUS

\* What each step of an operation leaves in its place in the chain.
LEMMA OpWrites ==
  ASSUME TypeOK, NEW p \in Pods, NEW o \in Ops
  PROVE  /\ op[<<p, o>>] \in Operation /\ op[<<p, o>>].at \in Slots
         /\ SlotTimer(p, o) => op' = [op EXCEPT ![<<p, o>>] = Queued]
         /\ BeginOp(p, o) =>
              \/ op' = [op EXCEPT ![<<p, o>>] = NoOp]
              \/ /\ currentSlot[p] \in Slots
                 /\ op' = [op EXCEPT ![<<p, o>>] = SetXX(currentSlot[p])]
              \/ /\ currentSlot[p] = NoSlot
                 /\ op' = [op EXCEPT ![<<p, o>>] = SetNX(0)]
         /\ ClaimHeld(p, o) =>
              \/ op' = [op EXCEPT ![<<p, o>>] = NoOp]
              \/ /\ op[<<p, o>>].at + 1 \in Slots
                 /\ op' = [op EXCEPT ![<<p, o>>] = SetNX(op[<<p, o>>].at + 1)]
         /\ Refresh(p, o) =>
              \/ op' = [op EXCEPT ![<<p, o>>] = NoOp]
              \/ op' = [op EXCEPT ![<<p, o>>] = SetNX(0)]
         /\ ClaimTaken(p, o) \/ ClaimReplyLost(p, o) \/ OpFails(p, o) =>
              op' = [op EXCEPT ![<<p, o>>] = NoOp]
<1>1. op[<<p, o>>] \in Operation /\ op[<<p, o>>].at \in Slots
  BY Shapes DEF TypeOK
<1>2. currentSlot[p] \in Slots \union {NoSlot}
  BY DEF TypeOK
<1>3. ASSUME BeginOp(p, o)
      PROVE  \/ op' = [op EXCEPT ![<<p, o>>] = NoOp]
             \/ /\ currentSlot[p] \in Slots
                /\ op' = [op EXCEPT ![<<p, o>>] = SetXX(currentSlot[p])]
             \/ /\ currentSlot[p] = NoSlot
                /\ op' = [op EXCEPT ![<<p, o>>] = SetNX(0)]
  <2>1. CASE Stopped(p)
    BY <1>3, <2>1 DEF BeginOp
  <2>2. CASE ~Stopped(p) /\ currentSlot[p] # NoSlot
    BY <1>2, <1>3, <2>2 DEF BeginOp
  <2>3. CASE ~Stopped(p) /\ currentSlot[p] = NoSlot
    BY <1>3, <2>3 DEF BeginOp
  <2> QED BY <2>1, <2>2, <2>3
<1>4. ASSUME ClaimHeld(p, o)
      PROVE  \/ op' = [op EXCEPT ![<<p, o>>] = NoOp]
             \/ /\ op[<<p, o>>].at + 1 \in Slots
                /\ op' = [op EXCEPT ![<<p, o>>] = SetNX(op[<<p, o>>].at + 1)]
  <2>1. CASE op[<<p, o>>].at + 1 < NSlots
    BY <1>1, <1>4, <2>1, Shapes DEF ClaimHeld
  <2>2. CASE ~(op[<<p, o>>].at + 1 < NSlots)
    BY <1>4, <2>2 DEF ClaimHeld
  <2> QED BY <2>1, <2>2
<1>5. SlotTimer(p, o) => op' = [op EXCEPT ![<<p, o>>] = Queued]
  BY DEF SlotTimer
<1>6. Refresh(p, o) =>
        \/ op' = [op EXCEPT ![<<p, o>>] = NoOp]
        \/ op' = [op EXCEPT ![<<p, o>>] = SetNX(0)]
  BY DEF Refresh, Settle
<1>7. ClaimTaken(p, o) \/ ClaimReplyLost(p, o) \/ OpFails(p, o) =>
        op' = [op EXCEPT ![<<p, o>>] = NoOp]
  BY DEF ClaimTaken, ClaimReplyLost, OpFails, Settle
<1> QED BY <1>1, <1>3, <1>4, <1>5, <1>6, <1>7

\* So the chains keep their type.
LEMMA OpType ==
  ASSUME TypeOK, NEW p \in Pods, NEW o \in Ops,
         SlotTimer(p, o) \/ OpStep(p, o) \/ OpFails(p, o) \/ ClaimReplyLost(p, o)
  PROVE  op' \in [Pods \X Ops -> Operation]
<1>1. PICK v \in Operation : op' = [op EXCEPT ![<<p, o>>] = v]
  BY OpWrites, Shapes DEF OpStep
<1> QED BY <1>1, Write DEF TypeOK

\* The types are preserved by every step.
LEMMA TypeStep == TypeOK /\ [Next]_vars => TypeOK'
<1> SUFFICES ASSUME TypeOK, [Next]_vars PROVE TypeOK'
  OBVIOUS
<1> USE SlotsAssumption, Shapes DEF TypeOK, Phases
<1>0. ASSUME NEW p \in Pods, Start(p) PROVE TypeOK'
  <2>1. PICK o \in Ops : op' = [op EXCEPT ![<<p, o>>] = Queued]
    BY <1>0 DEF Start
  <2>2. op' \in [Pods \X Ops -> Operation]
    BY <2>1, Write
  <2> QED BY <1>0, <2>2 DEF Start
<1>1. ASSUME NEW p \in Pods, Stop(p) PROVE TypeOK'
  BY <1>1 DEF Stop
<1>2. ASSUME NEW p \in Pods, StopRelease(p) PROVE TypeOK'
  BY <1>2 DEF StopRelease, ReleaseSlot
<1>3. ASSUME NEW p \in Pods, Crash(p) PROVE TypeOK'
  BY <1>3 DEF Crash
<1>4. ASSUME NEW p \in Pods, NEW o \in Ops,
             SlotTimer(p, o) \/ OpStep(p, o) \/ OpFails(p, o) \/ ClaimReplyLost(p, o)
      PROVE TypeOK'
  <2>1. op' \in [Pods \X Ops -> Operation] /\ op[<<p, o>>].at \in Slots
    BY <1>4, OpWrites, OpType
  <2>2. CASE SlotTimer(p, o) \/ BeginOp(p, o) \/ ClaimHeld(p, o)
    <3>1. UNCHANGED <<slotKey, currentSlot, phase, orphan, stalls, faults>>
      BY <2>2 DEF SlotTimer, BeginOp, ClaimHeld
    <3> QED BY <2>1, <3>1
  <2>3. CASE Refresh(p, o)
    BY <2>1, <2>3 DEF Refresh
  <2>4. CASE ClaimTaken(p, o)
    BY <2>1, <2>4 DEF ClaimTaken
  <2>5. CASE ClaimReplyLost(p, o)
    BY <2>1, <2>5 DEF ClaimReplyLost
  <2>6. CASE OpFails(p, o)
    BY <2>1, <2>6 DEF OpFails
  <2> QED BY <1>4, <2>2, <2>3, <2>4, <2>5, <2>6 DEF OpStep
<1>7. ASSUME NEW i \in Slots, Expire(i) \/ Stall(i) PROVE TypeOK'
  BY <1>7 DEF Expire, Stall
<1>8. CASE UNCHANGED vars
  BY <1>8 DEF vars
<1> QED BY <1>0, <1>1, <1>2, <1>3, <1>4, <1>7, <1>8 DEF Next, OpStep

\* Every step of every pod, and every expiry, preserves the invariant.
LEMMA NextIInv == IInv /\ [Next]_vars => IInv'
<1> SUFFICES ASSUME IInv, [Next]_vars PROVE IInv'
  OBVIOUS
<1>0. TypeOK /\ TypeOK'
  BY TypeStep DEF IInv
<1> DEFINE Chains == Serialized /\ OpsAgree /\ Quiet
           Owners == OwnsOnlyCurrent /\ CleanStop
<1> SUFFICES Chains' /\ Owners'
  BY <1>0 DEF IInv
<1>a. Chains /\ Owners
  BY DEF IInv
<1>b. op \in [Pods \X Ops -> Operation]
  BY <1>0 DEF TypeOK
<1> USE DEF Running, Alive, Serialized, OpsAgree, Quiet, OwnsOnlyCurrent, CleanStop
<1>1. ASSUME NEW p \in Pods, Start(p) PROVE Chains' /\ Owners'
  <2>1. PICK o \in Ops : op' = [op EXCEPT ![<<p, o>>] = Queued]
    BY <1>1 DEF Start
  <2>2. \A q \in Pods, r \in Ops :
          op'[<<q, r>>] = IF q = p /\ r = o THEN Queued ELSE op[<<q, r>>]
    BY <1>b, <2>1
  <2> QED BY <1>0, <1>a, SlotsAssumption, <1>1, <2>2, Shapes DEF Start, TypeOK
<1>2. ASSUME NEW p \in Pods, Stop(p) PROVE Chains' /\ Owners'
  BY <1>0, <1>a, SlotsAssumption, <1>2 DEF Stop, TypeOK
<1>3. ASSUME NEW p \in Pods, StopRelease(p) PROVE Chains' /\ Owners'
  BY <1>0, <1>a, SlotsAssumption, <1>3 DEF StopRelease, ReleaseSlot, TypeOK
<1>4. ASSUME NEW p \in Pods, Crash(p) PROVE Chains' /\ Owners'
  <2>1. \A q \in Pods, r \in Ops :
          op'[<<q, r>>] = IF q = p THEN NoOp ELSE op[<<q, r>>]
    BY <1>4 DEF Crash
  <2>2. phase' = [phase EXCEPT ![p] = "dead"] /\ currentSlot' = [currentSlot EXCEPT ![p] = NoSlot]
        /\ UNCHANGED <<slotKey, orphan>>
    BY <1>4 DEF Crash
  <2>3. Chains'
    BY <1>0, <1>a, <2>1, <2>2, Shapes DEF TypeOK
  <2>4. Owners'
    BY <1>0, <1>a, <2>2 DEF TypeOK
  <2> QED BY <2>3, <2>4
<1>5. ASSUME NEW p \in Pods, NEW o \in Ops,
             SlotTimer(p, o) \/ OpStep(p, o) \/ OpFails(p, o) \/ ClaimReplyLost(p, o)
      PROVE Chains' /\ Owners'
  <2>0. /\ op[<<p, o>>] \in Operation
        /\ op[<<p, o>>].at \in Slots
    BY <1>0, OpWrites
  <2> DEFINE Wrote(v) ==
        \A q \in Pods, r \in Ops : op'[<<q, r>>] = IF q = p /\ r = o THEN v ELSE op[<<q, r>>]
  <2>w. \A v \in Operation : op' = [op EXCEPT ![<<p, o>>] = v] => Wrote(v)
    BY <1>b
  <2> HIDE DEF Wrote
  <2>1. CASE SlotTimer(p, o)
    <3>1. Wrote(Queued)
      BY <2>1, <2>w, <1>0, OpWrites, Shapes
    <3> QED BY <1>0, <1>a, SlotsAssumption, <2>1, <3>1, Shapes DEF SlotTimer, TypeOK, Wrote
  <2>2. CASE BeginOp(p, o)
    <3>1. \/ Wrote(NoOp)
          \/ currentSlot[p] \in Slots /\ Wrote(SetXX(currentSlot[p]))
          \/ currentSlot[p] = NoSlot /\ Wrote(SetNX(0))
      BY <2>2, <2>w, <1>0, OpWrites, Shapes
    <3>2. /\ UNCHANGED <<slotKey, currentSlot, phase, orphan>>
          /\ Alive(p)
          /\ \A other \in Ops : ~Running(p, other)
      BY <2>2 DEF BeginOp
    <3> QED BY <1>0, <1>a, SlotsAssumption, <3>1, <3>2, Shapes DEF Wrote
  <2>3. CASE Refresh(p, o)
    <3>1. CASE slotKey[op[<<p, o>>].at] # NoPod
      <4>1. Wrote(NoOp)
        BY <2>3, <2>w, <3>1, Shapes DEF Refresh, Settle
      <4>2. /\ slotKey' = [slotKey EXCEPT ![currentSlot[p]] = p]
            /\ orphan' = orphan \ {currentSlot[p]}
            /\ Alive(p) /\ currentSlot[p] \in Slots
            /\ UNCHANGED <<currentSlot, phase>>
        BY <1>a, <2>0, <2>3, <3>1 DEF Refresh
      <4>3. Chains'
        BY <1>0, <1>a, <4>1, <4>2, Shapes DEF TypeOK, Wrote
      <4>4. Owners'
        BY <1>0, <1>a, <4>2, SlotsAssumption DEF TypeOK
      <4> QED BY <4>3, <4>4
    <3>2. CASE slotKey[op[<<p, o>>].at] = NoPod
      <4>1. Wrote(SetNX(0))
        BY <2>3, <2>w, <3>2, Shapes DEF Refresh
      <4> QED BY <1>0, <1>a, SlotsAssumption, <2>0, <2>3, <3>2, <4>1, Shapes DEF Refresh, TypeOK, Wrote
    <3> QED BY <3>1, <3>2
  <2>4. CASE ClaimTaken(p, o)
    <3>1. Wrote(NoOp)
      BY <2>4, <2>w, <1>0, OpWrites, Shapes
    <3> DEFINE i == op[<<p, o>>].at
    <3>2. /\ slotKey[i] = NoPod
          /\ slotKey' = [slotKey EXCEPT ![i] = p]
          /\ currentSlot' = [currentSlot EXCEPT ![p] = i]
          /\ orphan' = orphan \ {i}
          /\ Alive(p) /\ currentSlot[p] = NoSlot
          /\ i \in Slots
          /\ \A other \in Ops : other # o => ~Running(p, other)
          /\ UNCHANGED phase
      BY <1>a, <2>0, <2>4 DEF ClaimTaken
    <3> HIDE DEF i
    <3>3. Chains'
      BY <1>0, <1>a, <3>1, <3>2, Shapes DEF TypeOK, Wrote
    <3>4. Owners'
      BY <1>0, <1>a, <3>2, SlotsAssumption DEF TypeOK
    <3> QED BY <3>3, <3>4
  <2>5. CASE ClaimHeld(p, o)
    <3>1. Wrote(NoOp) \/ (op[<<p, o>>].at + 1 \in Slots /\ Wrote(SetNX(op[<<p, o>>].at + 1)))
      BY <2>5, <2>w, <1>0, OpWrites, Shapes
    <3>2. UNCHANGED <<slotKey, currentSlot, phase, orphan>> /\ op[<<p, o>>].pc = "claim"
      BY <2>5 DEF ClaimHeld
    <3> QED BY <1>0, <1>a, SlotsAssumption, <3>1, <3>2, Shapes DEF Wrote
  <2>6. CASE OpFails(p, o)
    <3>1. Wrote(NoOp)
      BY <2>6, <2>w, <1>0, OpWrites, Shapes
    <3> QED BY <1>0, <1>a, SlotsAssumption, <2>6, <3>1, Shapes DEF OpFails, Wrote
  <2>7. CASE ClaimReplyLost(p, o)
    <3>1. Wrote(NoOp)
      BY <2>7, <2>w, <1>0, OpWrites, Shapes
    <3> DEFINE i == op[<<p, o>>].at
    <3>2. /\ slotKey' = [slotKey EXCEPT ![i] = p]
          /\ orphan' = orphan \union {i}
          /\ Alive(p)
          /\ i \in Slots
          /\ UNCHANGED <<currentSlot, phase>>
      BY <1>a, <2>0, <2>7 DEF ClaimReplyLost
    <3> HIDE DEF i
    <3>3. Chains'
      BY <1>0, <1>a, <3>1, <3>2, Shapes DEF TypeOK, Wrote
    <3>4. Owners'
      BY <1>0, <1>a, <3>2, SlotsAssumption DEF TypeOK
    <3> QED BY <3>3, <3>4
  <2> HIDE DEF Chains, Owners
  <2> QED BY <1>5, <2>1, <2>2, <2>3, <2>4, <2>5, <2>6, <2>7 DEF OpStep
<1>6. ASSUME NEW i \in Slots, Expire(i) \/ Stall(i) PROVE Chains' /\ Owners'
  <2>1. /\ slotKey' = [slotKey EXCEPT ![i] = NoPod]
        /\ orphan' = orphan \ {i}
        /\ UNCHANGED <<currentSlot, phase, op>>
    BY <1>6 DEF Expire, Stall
  <2> QED BY <1>0, <1>a, <2>1, SlotsAssumption DEF TypeOK
<1>7. CASE UNCHANGED vars
  BY <1>0, <1>a, SlotsAssumption, <1>7 DEF vars
<1> HIDE DEF Chains, Owners
<1> QED BY <1>1, <1>2, <1>3, <1>4, <1>5, <1>6, <1>7 DEF Next

LEMMA Invariant == Spec => []IInv
<1>1. Init => IInv
  BY InitIInv
<1>2. IInv /\ [Next]_vars => IInv'
  BY NextIInv
<1> QED BY <1>1, <1>2, PTL DEF Spec

-----------------------------------------------------------------------------

\* The state of every pod and of Redis keeps its type.
THEOREM Typing == Spec => []TypeOK
<1>1. IInv => TypeOK
  BY DEF IInv
<1> QED BY <1>1, Invariant, PTL

\* A live pod never owns a slot key other than its currentSlot, whatever
\* timer ticks overlap (claims whose reply was lost excepted).
THEOREM OneSlotPerPod == Spec => []OwnsOnlyCurrent
<1>1. IInv => OwnsOnlyCurrent
  BY DEF IInv
<1> QED BY <1>1, Invariant, PTL

\* After stop() resolves nothing re-creates the released key.
THEOREM StopIsClean == Spec => []CleanStop
<1>1. IInv => CleanStop
  BY DEF IInv
<1> QED BY <1>1, Invariant, PTL

\* No step of another pod frees the key of a pod that is alive and believes in it.
THEOREM NobodyEvicts == Spec => NoEviction
<1> DEFINE Keeps ==
      \A i \in Slots :
        Tended(i) /\ slotKey'[i] = NoPod =>
          stalls' > stalls \/ \E p \in Pods : slotKey[i] = p /\ phase'[p] = "down"
<1>1. IInv /\ [Next]_vars => [Keeps]_vars
  <2> SUFFICES ASSUME IInv, Next PROVE Keeps
    BY DEF vars
  <2> SUFFICES ASSUME NEW i \in Slots, Tended(i), slotKey'[i] = NoPod
               PROVE stalls' > stalls \/ \E p \in Pods : slotKey[i] = p /\ phase'[p] = "down"
    OBVIOUS
  <2> USE SlotsAssumption DEF IInv, TypeOK, Tended
  <2>1. ASSUME NEW p \in Pods, Start(p) \/ Stop(p) \/ Crash(p) PROVE FALSE
    BY <2>1 DEF Start, Stop, Crash
  <2>2. ASSUME NEW p \in Pods, StopRelease(p)
        PROVE slotKey[i] = p /\ phase'[p] = "down"
    BY <2>2 DEF StopRelease, ReleaseSlot
  <2>3. ASSUME NEW p \in Pods, NEW o \in Ops,
               SlotTimer(p, o) \/ OpStep(p, o) \/ OpFails(p, o) \/ ClaimReplyLost(p, o)
        PROVE FALSE
    BY <2>3 DEF SlotTimer, OpStep, BeginOp, Refresh, ClaimTaken, ClaimHeld, OpFails, ClaimReplyLost
  <2>4. ASSUME NEW j \in Slots, Expire(j) PROVE FALSE
    BY <2>4 DEF Expire
  <2>5. ASSUME NEW j \in Slots, Stall(j) PROVE stalls' > stalls
    BY <2>5 DEF Stall
  <2> QED BY <2>1, <2>2, <2>3, <2>4, <2>5 DEF Next
<1> QED BY <1>1, Invariant, PTL DEF Spec, NoEviction

-----------------------------------------------------------------------------
(* The cap on participants *)

LEMMA AddOne ==
  ASSUME NEW S, IsFiniteSet(S), NEW x
  PROVE  /\ IsFiniteSet(S \union {x}) /\ Cardinality(S \union {x}) \in Nat
         /\ Cardinality(S \union {x}) <= Cardinality(S) + 1
<1>1. Cardinality(S) \in Nat
  BY FS_CardinalityType
<1>2. IsFiniteSet(S \union {x})
      /\ Cardinality(S \union {x}) \in {Cardinality(S), Cardinality(S) + 1}
  BY FS_AddElement
<1> QED BY <1>1, <1>2

\* Adding one element raises a cardinality by one at most, and exchanging one
\* element for another does not raise it.
LEMMA Exchange ==
  ASSUME NEW S, IsFiniteSet(S), NEW T, NEW x
  PROVE  /\ T \subseteq S => Cardinality(T) <= Cardinality(S)
         /\ T \subseteq S \union {x} => Cardinality(T) <= Cardinality(S) + 1
         /\ \A y \in S : T \subseteq (S \ {y}) \union {x} => Cardinality(T) <= Cardinality(S)
         /\ Cardinality(S) \in Nat
<1>1. Cardinality(S) \in Nat
  BY FS_CardinalityType
<1>2. T \subseteq S => Cardinality(T) <= Cardinality(S)
  BY FS_Subset
<1>3. ASSUME T \subseteq S \union {x} PROVE Cardinality(T) <= Cardinality(S) + 1
  <2>1. IsFiniteSet(S \union {x}) /\ Cardinality(S \union {x}) \in Nat
        /\ Cardinality(S \union {x}) <= Cardinality(S) + 1
    BY AddOne
  <2>2. Cardinality(T) <= Cardinality(S \union {x}) /\ Cardinality(T) \in Nat
    BY <1>3, <2>1, FS_Subset, FS_CardinalityType
  <2> QED BY <1>1, <2>1, <2>2
<1>4. ASSUME NEW y \in S, T \subseteq (S \ {y}) \union {x} PROVE Cardinality(T) <= Cardinality(S)
  <2> DEFINE R == S \ {y}
  <2>1. IsFiniteSet(R) /\ Cardinality(R) = Cardinality(S) - 1 /\ Cardinality(R) \in Nat
    BY FS_RemoveElement, FS_CardinalityType
  <2> HIDE DEF R
  <2>2. IsFiniteSet(R \union {x}) /\ Cardinality(R \union {x}) \in Nat
        /\ Cardinality(R \union {x}) <= Cardinality(R) + 1
    BY <2>1, AddOne
  <2>3. Cardinality(T) <= Cardinality(R \union {x}) /\ Cardinality(T) \in Nat
    BY <1>4, <2>2, FS_Subset, FS_CardinalityType DEF R
  <2> QED BY <1>1, <2>1, <2>2, <2>3
<1> QED BY <1>1, <1>2, <1>3, <1>4

\* A pod that has not started believes in no slot.
Fresh == \A p \in Pods : phase[p] = "new" => currentSlot[p] = NoSlot

LEMMA FreshStep == IInv /\ Fresh /\ [Next]_vars => Fresh'
<1> SUFFICES ASSUME IInv, Fresh, [Next]_vars PROVE Fresh'
  OBVIOUS
<1> USE DEF Fresh, IInv, TypeOK
<1>1. ASSUME NEW p \in Pods, Start(p) \/ Stop(p) \/ StopRelease(p) \/ Crash(p) PROVE Fresh'
  BY <1>1 DEF Start, Stop, StopRelease, ReleaseSlot, Crash
<1>2. ASSUME NEW p \in Pods, NEW o \in Ops, Refresh(p, o) \/ ClaimTaken(p, o) PROVE Fresh'
  <2>1. phase[p] # "new"
    BY <1>2 DEF Refresh, ClaimTaken, Quiet, Alive
  <2> QED BY <1>2, <2>1 DEF Refresh, ClaimTaken
<1>3. ASSUME NEW p \in Pods, NEW o \in Ops,
             \/ SlotTimer(p, o) \/ BeginOp(p, o) \/ ClaimHeld(p, o)
             \/ OpFails(p, o) \/ ClaimReplyLost(p, o)
      PROVE Fresh'
  BY <1>3 DEF SlotTimer, BeginOp, ClaimHeld, OpFails, ClaimReplyLost
<1>4. ASSUME NEW i \in Slots, Expire(i) \/ Stall(i) PROVE Fresh'
  BY <1>4 DEF Expire, Stall
<1>5. CASE UNCHANGED vars
  BY <1>5 DEF vars
<1> QED BY <1>1, <1>2, <1>3, <1>4, <1>5 DEF Next, OpStep

\* A step deceives nobody, or passes the deception on with a refresh, or costs
\* a stall.
LEMMA DeceivedStep ==
  ASSUME IInv, Fresh, Next
  PROVE  \/ Deceived' \subseteq Deceived /\ stalls' = stalls
         \/ /\ \E y \in Deceived, x \in Pods : Deceived' \subseteq (Deceived \ {y}) \union {x}
            /\ stalls' = stalls
         \/ /\ \E x \in Pods : Deceived' \subseteq Deceived \union {x}
            /\ stalls' = stalls + 1
<1> DEFINE Spared == Deceived' \subseteq Deceived /\ stalls' = stalls
<1> USE SlotsAssumption DEF IInv, TypeOK, Deceived, Alive
<1>1. ASSUME NEW p \in Pods, Start(p) PROVE Spared
  BY <1>1 DEF Start, Fresh
<1>2. ASSUME NEW p \in Pods, Stop(p) \/ Crash(p) PROVE Spared
  BY <1>2 DEF Stop, Crash
<1>3. ASSUME NEW p \in Pods, StopRelease(p) PROVE Spared
  BY <1>3 DEF StopRelease, ReleaseSlot
<1>4. ASSUME NEW p \in Pods, NEW o \in Ops,
             SlotTimer(p, o) \/ BeginOp(p, o) \/ ClaimHeld(p, o) \/ OpFails(p, o)
      PROVE  Spared
  BY <1>4 DEF SlotTimer, BeginOp, ClaimHeld, OpFails
<1>5. ASSUME NEW p \in Pods, NEW o \in Ops, Refresh(p, o)
      PROVE  \/ Spared
             \/ /\ \E y \in Deceived, x \in Pods : Deceived' \subseteq (Deceived \ {y}) \union {x}
                /\ stalls' = stalls
  <2> DEFINE i == op[<<p, o>>].at
  <2>1. i \in Slots /\ currentSlot[p] = i /\ Alive(p)
    BY <1>5, OpWrites DEF Refresh, OpsAgree, Quiet
  <2>2. CASE slotKey[i] = NoPod
    BY <1>5, <2>1, <2>2 DEF Refresh
  <2>3. CASE slotKey[i] = p
    BY <1>5, <2>1, <2>3 DEF Refresh
  <2>4. CASE slotKey[i] \notin {NoPod, p}
    <3>1. slotKey[i] \in Pods /\ p \in Deceived
      BY <2>1, <2>4
    <3>2. Deceived' \subseteq (Deceived \ {p}) \union {slotKey[i]} /\ stalls' = stalls
      BY <1>5, <2>1, <2>4 DEF Refresh
    <3> QED BY <3>1, <3>2
  <2> QED BY <2>2, <2>3, <2>4
<1>6. ASSUME NEW p \in Pods, NEW o \in Ops, ClaimTaken(p, o) \/ ClaimReplyLost(p, o)
      PROVE  Spared
  <2>1. op[<<p, o>>].at \in Slots /\ currentSlot[p] = NoSlot
    BY <1>6, OpWrites DEF ClaimTaken, ClaimReplyLost, OpsAgree
  <2> QED BY <1>6, <2>1 DEF ClaimTaken, ClaimReplyLost
<1>7. ASSUME NEW i \in Slots, Expire(i) PROVE Spared
  BY <1>7 DEF Expire, Tended
<1>8. ASSUME NEW i \in Slots, Stall(i)
      PROVE  /\ \E x \in Pods : Deceived' \subseteq Deceived \union {x}
             /\ stalls' = stalls + 1
  <2>1. slotKey[i] \in Pods
    BY <1>8 DEF Stall, Tended
  <2>2. Deceived' \subseteq Deceived \union {slotKey[i]} /\ stalls' = stalls + 1
    BY <1>8 DEF Stall
  <2> QED BY <2>1, <2>2
<1> HIDE DEF Spared
<1>9. Spared \/ ~Spared
  OBVIOUS
<1> QED BY <1>1, <1>2, <1>3, <1>4, <1>5, <1>6, <1>7, <1>8 DEF Next, OpStep, Spared

LEMMA CapStep == IInv /\ Fresh /\ DeceivedByStalls /\ [Next]_vars => DeceivedByStalls'
<1> SUFFICES ASSUME IInv, Fresh, DeceivedByStalls, Next PROVE DeceivedByStalls'
  BY DEF DeceivedByStalls, Deceived, Alive, vars
<1>1. Deceived \subseteq Pods /\ Deceived' \subseteq Pods
  BY DEF Deceived
<1>2. IsFiniteSet(Deceived) /\ IsFiniteSet(Deceived')
  BY <1>1, PodsAssumption, FS_Subset
<1>3. Cardinality(Deceived) \in Nat /\ Cardinality(Deceived') \in Nat
  BY <1>2, FS_CardinalityType
<1>4. stalls \in Nat
  BY SlotsAssumption DEF IInv, TypeOK
<1>5. Cardinality(Deceived) <= stalls
  BY DEF DeceivedByStalls
<1>6. \/ Cardinality(Deceived') <= Cardinality(Deceived) /\ stalls' = stalls
      \/ Cardinality(Deceived') <= Cardinality(Deceived) + 1 /\ stalls' = stalls + 1
  BY <1>2, DeceivedStep, Exchange
<1>7. Cardinality(Deceived') <= stalls'
  BY <1>3, <1>4, <1>5, <1>6
<1> QED BY <1>7 DEF DeceivedByStalls

\* A live pod believes in a slot whose key is not its own only because a key ran
\* out under a live pod; each such expiry deceives one pod at most.
THEOREM Deception == Spec => []DeceivedByStalls
<1>1. Init => Fresh
  BY DEF Init, Fresh
<1>2. Init => DeceivedByStalls
  <2>1. Init => Deceived = {} /\ stalls = 0
    BY DEF Init, Deceived, Alive
  <2> QED BY <2>1, FS_EmptySet DEF DeceivedByStalls
<1> QED BY <1>1, <1>2, Invariant, FreshStep, CapStep, PTL DEF Spec

\* So the slots cap the pods that take part in cron ticking: there are never more
\* than PARTICIPANT_SLOTS of them, and one for each key that ran out under a live
\* pod.
THEOREM Cap == Spec => [](Cardinality(Participants) <= NSlots + stalls)
<1>1. IInv /\ DeceivedByStalls => Cardinality(Participants) <= NSlots + stalls
  <2> SUFFICES ASSUME IInv, DeceivedByStalls PROVE Cardinality(Participants) <= NSlots + stalls
    OBVIOUS
  <2> DEFINE Backed == Participants \ Deceived
             slot == [p \in Backed |-> currentSlot[p]]
  <2>1. IsFiniteSet(Participants) /\ IsFiniteSet(Deceived) /\ IsFiniteSet(Backed)
    BY PodsAssumption, FS_Subset DEF Participants, Deceived
  <2>2. IsFiniteSet(Slots) /\ Cardinality(Slots) = NSlots
    BY SlotsAssumption, FS_Interval DEF Slots
  <2>3. \A p \in Backed : currentSlot[p] \in Slots /\ slotKey[currentSlot[p]] = p
    BY DEF Participants, Deceived, Alive, IInv, TypeOK
  <2>4. slot \in Injection(Backed, Slots)
    BY <2>3 DEF Injection, IsInjective
  <2>5. Cardinality(Backed) <= NSlots
    BY <2>2, <2>4, FS_Injection
  <2>6. Cardinality(Participants \union Deceived)
          = Cardinality(Backed) + Cardinality(Deceived) - Cardinality(Backed \intersect Deceived)
    <3>1. Participants \union Deceived = Backed \union Deceived
      OBVIOUS
    <3> QED BY <2>1, <3>1, FS_Union
  <2>7. Backed \intersect Deceived = {}
    OBVIOUS
  <2>8. Cardinality(Participants) <= Cardinality(Participants \union Deceived)
    BY <2>1, FS_Union, FS_Subset
  <2>9. /\ Cardinality(Participants) \in Nat /\ Cardinality(Participants \union Deceived) \in Nat
        /\ Cardinality(Backed) \in Nat /\ Cardinality(Deceived) \in Nat
    BY <2>1, FS_Union, FS_CardinalityType
  <2>10. Cardinality(Backed \intersect Deceived) = 0
    BY <2>7, FS_EmptySet
  <2>11. stalls \in Nat /\ NSlots \in Nat /\ Cardinality(Deceived) <= stalls
    BY SlotsAssumption DEF IInv, TypeOK, DeceivedByStalls
  <2> HIDE DEF Backed, slot
  <2> QED BY <2>5, <2>6, <2>8, <2>9, <2>10, <2>11
<1> QED BY <1>1, Invariant, Deception, PTL

=============================================================================
