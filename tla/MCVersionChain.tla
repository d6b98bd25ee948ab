--------------------------- MODULE MCVersionChain ---------------------------
(* Model-checking definitions for VersionChain. *)
EXTENDS VersionChain
=============================================================================
