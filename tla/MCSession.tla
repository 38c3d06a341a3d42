------------------------------ MODULE MCSession ------------------------------
(* Small instances of Session for TLC. *)
EXTENDS Session

(* "a" and "b" name files of three octets and of one and are fine header   *)
(* lines; "x" names no file and is not a header line.  "r" and "n" are CR  *)
(* and LF.                                                                 *)
MCText == {"a", "b", "x", " ", "r", "n"}
MCEndline == <<"r", "n">>
MCSize == [t \in MCText |-> CASE t = "a" -> 3 [] t = "b" -> 1 [] OTHER -> 0]

(* In the sequences below "|" stands for the terminator. *)
Sent(S) == {FlattenSeq([i \in DOMAIN s |-> IF s[i] = "|" THEN MCEndline ELSE <<s[i]>>]) : s \in S}

(* All that can be sent in a few symbols, of one file. *)
Short == UNION {[1 .. n -> {"a", "x", "|"}] : n \in 0 .. 5}

(* Two requests and part of a third; the first two fit in the buffer       *)
(* together.  Three requests, the first of them with no name.              *)
Pipelined == {<<"a", "|", "|", "b", "|", "|", "x">>,
              <<"|", "a", "|", "|", "b", "|", "|", "a", "|", "|">>}

(* Broken requests on their own, behind a good one, and incomplete. *)
Broken == {<<"a", "|", "x", "|", "|">>, <<"b", "|", "|", "a", "|", "x", "|", "|">>,
           <<"b", "|", "|", "a", "|", "x", "|", "a">>}

(* White space: at the end without a terminator, in the line that ends a   *)
(* request and in continuation lines, which a malformed text does not      *)
(* break unless there is nothing to continue.                              *)
Spaced == UNION {[1 .. n -> {"a", " ", "|"}] : n \in 0 .. 3}
          \cup {<<"a", "|", "b", "|", " ", "x", "|", "|">>, <<"a", "|", " ", "x", "|", "|">>,
                <<"a", "|", "|", "b", "|", " ">>}

(* CR and LF that make no terminator, or half of one at the end. *)
Halved == UNION {[1 .. n -> {"a", "r", "n"}] : n \in 0 .. 4}
          \cup {<<"a", "r", "|", "r", "|">>, <<"a", "|", "b", "n", "r", "|", "|">>,
                <<"a", "|", "n", "|", "b", "|", "r">>, <<"b", "|", "|", "a", "|", "r">>}

(* A line which does not fit in the buffer, first and behind a request,    *)
(* the terminator of one being cut by the end of the buffer.               *)
Overlong == {[i \in 1 .. 9 |-> "a"] \o <<"|", "|">>,
             <<"b", "|", "|">> \o [i \in 1 .. 12 |-> "x"] \o <<"|", "|">>}

MCStreams == Sent(Short \cup Spaced \cup Halved \cup Pipelined \cup Broken \cup Overlong)
MCBroken == Sent(Broken)
=============================================================================
