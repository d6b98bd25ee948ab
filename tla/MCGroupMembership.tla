-------------------------- MODULE MCGroupMembership --------------------------
(* Model-checking definitions for GroupMembership. *)
EXTENDS GroupMembership, TLC

MCSymmetry == Permutations(User \ Superuser)
=============================================================================
