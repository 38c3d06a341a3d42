------------------------------ MODULE MCReaper ------------------------------
(* A small instance of Reaper, and of Timespec on top of it, for TLC: the  *)
(* constants are in the .cfg files.                                        *)
EXTENDS Timespec
=============================================================================
