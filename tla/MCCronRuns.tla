----------------------------- MODULE MCCronRuns -----------------------------
(***************************************************************************)
(* Small instances of CronRuns.                                            *)
(***************************************************************************)
EXTENDS CronRuns, TLC

\* Pods and ticks are interchangeable in the safety runs.
Symmetry == Permutations(Pods) \union Permutations(Ticks)

=============================================================================
