------------------------------- MODULE Delivery -------------------------------
(***************************************************************************)
(* What an outbox promises of its logs: delivery at least once, with a     *)
(* bounded number of attempts, and an end that is final.  Logs are         *)
(* independent and any number of them may move in a step.                  *)
(*                                                                         *)
(* An attempt that takes longer than was thought possible is given back    *)
(* while it goes on.  Each such slow attempt may cost or save an attempt   *)
(* of a log, and may have the last word on a log that is not given up.     *)
(***************************************************************************)
EXTENDS Naturals

CONSTANTS Logs, MaxAttempts

VARIABLES
  stage,  \* log: new, open, taken by an attempt, delivered or dropped
  tries,  \* log: attempts begun
  slow    \* attempts given back while they went on

Init ==
  /\ stage = [l \in Logs |-> "new"]
  /\ tries = [l \in Logs |-> 0]
  /\ slow = 0

Turns(l, from, to) ==
  /\ stage[l] \in from
  /\ stage'[l] \in to
  /\ tries'[l] = tries[l]
  /\ stage'[l] = "dropped" => tries[l] + slow' >= MaxAttempts

Accept(l) == Turns(l, {"new"}, {"open"})

Attempt(l) ==
  /\ stage[l] = "open"
  /\ stage'[l] = "taken"
  /\ tries'[l] = tries[l] + 1
  /\ tries'[l] <= MaxAttempts + slow'

\* An attempt succeeds, or fails for now or for good.
Conclude(l) == Turns(l, {"taken"}, {"delivered", "open", "dropped"})

\* So does one that had been given back.
ConcludeLate(l) ==
  /\ slow' > 0
  /\ Turns(l, {"open", "taken", "delivered"}, {"delivered", "open", "dropped"})

Rest(l) == stage'[l] = stage[l] /\ tries'[l] = tries[l]

Next ==
  /\ slow' >= slow
  /\ \A l \in Logs : Accept(l) \/ Attempt(l) \/ Conclude(l) \/ ConcludeLate(l) \/ Rest(l)

Spec == Init /\ [][Next]_<<stage, tries, slow>>

=============================================================================
