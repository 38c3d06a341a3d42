----------------------------- MODULE MCResponseBuf -----------------------------
(* A small instance of ResponseBuf for TLC. *)
EXTENDS ResponseBuf

(* Lines which start with a dot, ends of lines whole and halved, and others. *)
MCPieces == {<<"r", "n">>, <<"r", "n", ".">>, <<".">>, <<"n">>, <<"x", "x", "r">>}
=============================================================================
