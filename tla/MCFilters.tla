----------------------------- MODULE MCFilters -----------------------------
(* A small instance of Filters for TLC: the constants are in the .cfg files. *)
EXTENDS Filters
=============================================================================
