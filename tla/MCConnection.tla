----------------------------- MODULE MCConnection -----------------------------
(* A small instance of Connection for TLC. *)
EXTENDS Connection

(* "a" names a file of five octets, "b" one of one; "x" is malformed as a *)
(* header line.  The terminator is CR LF.                                  *)
MCText == {"a", "b", "x", "r", "n"}
MCEndline == <<"r", "n">>
MCSize == [t \in MCText |-> CASE t = "a" -> 5 [] t = "b" -> 1 [] OTHER -> 0]

Lines(ls) == FlattenSeq([i \in DOMAIN ls |-> ls[i] \o MCEndline])

(* Requests for one, two and three files, the last of them with too little *)
(* room in the buffers for what comes between a greedy client and its      *)
(* answers; a request half-closed within its last line; a broken one       *)
(* behind a good one; and lines that do not fit in TextReader::buf.        *)
MCStreams ==
  {<<>>, Lines(<<<<"a">>, <<>>>>),
   Lines(<<<<"a">>, <<>>, <<"b">>, <<>>>>),
   Lines(<<<<"a">>, <<>>, <<"a">>, <<"b">>, <<>>, <<"b">>, <<>>>>),
   Lines(<<<<"b">>, <<>>, <<"a">>>>) \o <<"r">>,
   Lines(<<<<"a">>, <<>>, <<"b">>, <<"x">>, <<>>, <<"a">>, <<>>>>),
   Lines(<<<<"a">>, <<>>>>) \o [i \in 1 .. 10 |-> "b"]}
=============================================================================
