-------------------------- MODULE MCResourceSharing --------------------------
(* Model-checking definitions for ResourceSharing. *)
EXTENDS ResourceSharing, TLC

(* The users who are neither administrators nor in groups are interchangeable. *)
MCSymmetry == Permutations(User \ (Superuser \cup GroupMember))
=============================================================================
