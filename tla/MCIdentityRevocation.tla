------------------------- MODULE MCIdentityRevocation -------------------------
(***************************************************************************)
(* Small instances of IdentityRevocation.                                  *)
(***************************************************************************)
EXTENDS IdentityRevocation, TLC

=============================================================================
