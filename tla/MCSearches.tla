----------------------------- MODULE MCSearches -----------------------------
(***************************************************************************)
(* Up to four entries in pages of two: the last page is full or not.       *)
(***************************************************************************)
EXTENDS Searches
=============================================================================
