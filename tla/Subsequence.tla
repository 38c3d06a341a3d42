----------------------------- MODULE Subsequence -----------------------------
(***************************************************************************)
(* The members of a sequence which are in a set, in their order: what      *)
(* SelectSeq does, with a set for its test, and defined by a recursive     *)
(* function so that it can be reasoned about.                              *)
(***************************************************************************)
EXTENDS Naturals, Sequences

Only(s, S) ==
  LET only[i \in 0 .. Len(s)] ==
        IF i = 0 THEN <<>>
        ELSE IF s[i] \in S THEN Append(only[i - 1], s[i]) ELSE only[i - 1]
  IN only[Len(s)]
=============================================================================
