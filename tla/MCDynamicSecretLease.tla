------------------------- MODULE MCDynamicSecretLease -------------------------
(***************************************************************************)
(* Small instances of DynamicSecretLease.                                  *)
(***************************************************************************)
EXTENDS DynamicSecretLease, TLC

=============================================================================
