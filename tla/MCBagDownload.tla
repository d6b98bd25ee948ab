--------------------------- MODULE MCBagDownload ---------------------------
(* Model-checking definitions for BagDownload. *)
EXTENDS BagDownload
=============================================================================
