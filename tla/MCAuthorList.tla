---------------------------- MODULE MCAuthorList ----------------------------
(* Up to three authors, in any order to begin with. *)
EXTENDS AuthorList
=============================================================================
