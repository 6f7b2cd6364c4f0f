--------------------------------- MODULE Job ---------------------------------
(***************************************************************************)
(* What the cron manager promises of the runs of a job: a run that was     *)
(* issued is executed by one worker at a time, is settled only after an    *)
(* attempt was begun, and is given up without an attempt of its own only   *)
(* after as many as were allowed.  Runs are independent and any number of  *)
(* them may move in a step.                                                *)
(*                                                                         *)
(* Not promised: that a settled run is never attempted again.              *)
(*                                                                         *)
(* Each mishap, a call that failed or a lease that ran out under a worker, *)
(* may cost a run an attempt, and lets a worker go on that nobody counts.  *)
(***************************************************************************)
EXTENDS Naturals

CONSTANTS Runs, Workers, MaxAttempts

VARIABLES
  stage,   \* run: new, due, settled or lost
  begun,   \* run: attempts begun, as far as MaxAttempts
  crew,    \* run: workers that execute it and never lost its lease
  mishaps

Init ==
  /\ stage = [r \in Runs |-> "new"]
  /\ begun = [r \in Runs |-> 0]
  /\ crew = [r \in Runs |-> {}]
  /\ mishaps = 0

Issue(r) ==
  /\ stage[r] = "new" /\ stage'[r] = "due"
  /\ begun'[r] = begun[r] /\ crew'[r] = crew[r]

Enter(r) ==
  /\ stage[r] # "new"
  /\ crew[r] = {}
  /\ \E w \in Workers : crew'[r] = {w}
  /\ stage'[r] = stage[r] /\ begun'[r] = begun[r]

Leave(r) ==
  /\ crew'[r] = {}
  /\ stage'[r] = stage[r] /\ begun'[r] = begun[r]

\* Somebody executes the run.
Manned(r) == crew[r] # {} \/ mishaps > 0

Begin(r) ==
  /\ stage[r] # "new"
  /\ Manned(r)
  /\ begun'[r] = IF begun[r] < MaxAttempts THEN begun[r] + 1 ELSE begun[r]
  /\ stage'[r] = stage[r] /\ crew'[r] = crew[r]

\* A run is settled by who executes it, or given up.
Settle(r) ==
  /\ stage[r] = "due" /\ stage'[r] = "settled"
  /\ \/ Manned(r) /\ begun[r] > 0
     \/ begun[r] + mishaps >= MaxAttempts
  /\ begun'[r] = begun[r] /\ crew'[r] = crew[r]

Lose(r) ==
  /\ stage[r] # "new" /\ stage'[r] = "lost"
  /\ begun'[r] = begun[r] /\ crew'[r] = crew[r]

Rest(r) == stage'[r] = stage[r] /\ begun'[r] = begun[r] /\ crew'[r] = crew[r]

Next ==
  /\ mishaps' >= mishaps
  /\ \A r \in Runs :
       Issue(r) \/ Enter(r) \/ Leave(r) \/ Begin(r) \/ Settle(r) \/ Lose(r) \/ Rest(r)

Spec == Init /\ [][Next]_<<stage, begun, crew, mishaps>>

=============================================================================
