--------------------------- MODULE MCGroupSharing ---------------------------
(* Model-checking definitions for GroupSharing. *)
EXTENDS GroupSharing, TLC

(* The users who are not administrators are interchangeable. *)
MCSymmetry == Permutations(User \ Superuser)
=============================================================================
