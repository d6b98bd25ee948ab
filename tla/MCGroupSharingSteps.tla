------------------------ MODULE MCGroupSharingSteps ------------------------
(* Model-checking definitions for GroupSharingSteps. *)
EXTENDS GroupSharingSteps, TLC

(* Workers are interchangeable, and so are users who are not administrators. *)
MCSymmetry == Permutations(User \ Superuser) \cup Permutations(Worker)
=============================================================================
