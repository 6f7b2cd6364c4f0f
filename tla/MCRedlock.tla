-------------------------- MODULE MCRedlock --------------------------
(***************************************************************************)
(* A small instance of Redlock with several nodes.                         *)
(***************************************************************************)
EXTENDS Redlock, TLC

\* Nodes and locks are interchangeable.
Symmetry == Permutations(Nodes) \union Permutations(Locks)

=============================================================================
