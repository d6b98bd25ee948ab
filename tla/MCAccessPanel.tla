--------------------------- MODULE MCAccessPanel ---------------------------
(* The access panel of user 1, who shares with user 2 and with a group. *)
EXTENDS AccessPanel
=============================================================================
