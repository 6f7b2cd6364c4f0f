--------------------------- MODULE MCPermissionCache ---------------------------
EXTENDS PermissionCache, TLC

Symmetry == Permutations(Requests)

=============================================================================
