---------------------------- MODULE MCCronSlots ----------------------------
(***************************************************************************)
(* Small instances of CronSlots.                                           *)
(***************************************************************************)
EXTENDS CronSlots, TLC

\* Pods and operations are interchangeable in the safety run.
Symmetry == Permutations(Pods) \union Permutations(Ops)

=============================================================================
