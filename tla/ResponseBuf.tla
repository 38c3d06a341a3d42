------------------------------ MODULE ResponseBuf ------------------------------
(***************************************************************************)
(* The buffer of responsebuf.cc: text is queued through an ostream, each   *)
(* multi-line response is dot-stuffed where it lies when its terminator is *)
(* put, and all is written by flush(), one write(2) at a time.  The class  *)
(* comes from a news server, and only its test uses it here.               *)
(*                                                                         *)
(* Text consists of CR ("r"), LF ("n"), dots and other octets.             *)
(***************************************************************************)
EXTENDS Naturals, Sequences, SequencesExt, FiniteSetsExt

CONSTANTS
  VecSize,    \* the first size of vec_
  Pieces,     \* what one << may put
  MaxPieces,  \* how many there are, and how many terminators: bounds for TLC
  MaxTerminators

(* A third of the size is at least what put_terminator() may ask for. *)
ASSUME ResponseBufAssumption ==
  /\ VecSize \in Nat /\ VecSize >= 10
  /\ Pieces \subseteq Seq({"r", "n", ".", "x"})
  /\ \A piece \in Pieces : Len(piece) < 5
  /\ MaxPieces \in Nat /\ MaxTerminators \in Nat

VARIABLES
  vec,          \* what vec_ holds up to pptr
  size,         \* vec_.size(), the offset of epptr
  pbase, z,     \* offsets in vec
  flushing,     \* a flush() has left something
  wire,         \* what has been written
  text,         \* for the properties: put since the last terminator or flush
  promised,     \* for the properties: all responses before that, as they should be sent
  pieces, terminators  \* counters

vars == <<vec, size, pbase, z, flushing, wire, text, promised, pieces, terminators>>

Init ==
  /\ vec = <<>> /\ size = VecSize
  /\ pbase = 0 /\ z = 0
  /\ flushing = FALSE /\ wire = <<>>
  /\ text = <<>> /\ promised = <<>>
  /\ pieces = 0 /\ terminators = 0

Grown == (size * 3) \div 2

Fits == Len(vec) <= size
-----------------------------------------------------------------------------
(* The ostream and overflow().  The client must not use it between         *)
(* flushes (responsebuf.h:30-33).                                          *)
Put(piece) ==
  /\ ~flushing /\ Fits /\ pieces < MaxPieces
  /\ vec' = vec \o piece
  /\ size' = IF Len(vec) + Len(piece) > size THEN Grown ELSE size
  /\ text' = text \o piece
  /\ pieces' = pieces + 1
  /\ UNCHANGED <<pbase, z, flushing, wire, promised, terminators>>

(* Where CR LF dot starts in m, at offset a or later and before b. *)
DotsIn(m, a, b) == {i \in a .. b - 3 : SubSeq(m, i + 1, i + 3) = <<"r", "n", ".">>}

(* Move [a, b) right by n positions. *)
MoveRight(m, a, b, n) == [i \in DOMAIN m |-> IF a + n < i /\ i <= b + n THEN m[i - n] ELSE m[i]]

(* What would break WireRight: the moved dot line is not moved far enough. *)
StuffedShort(m, p, dots) ==
  LET at[d \in 0 .. dots] ==
        IF d = dots THEN [m |-> m, p |-> p]
        ELSE LET q     == Max(DotsIn(at[d + 1].m, z, at[d + 1].p))
                 moved == MoveRight(at[d + 1].m, q + 3, at[d + 1].p, d + 1)
             IN [m |-> [moved EXCEPT ![q + 4] = "."], p |-> q]
  IN at[0].m

(* The loop in put_terminator(), over the dots not yet doubled, from the   *)
(* last to the first: m has room for them all after the text up to p.      *)
Stuffed(m, p, dots) ==
  LET at[d \in 0 .. dots] ==
        IF d = dots THEN [m |-> m, p |-> p]
        ELSE LET q     == Max(DotsIn(at[d + 1].m, z, at[d + 1].p))
                 moved == MoveRight(at[d + 1].m, q + 3, at[d + 1].p, d + 1)
             IN [m |-> MoveRight([moved EXCEPT ![q + 4] = "."], q, q + 4, d), p |-> q]
  IN at[0].m

Dots == Cardinality(DotsIn(vec, z, Len(vec)))

IsCrlfTerminated(s) == Len(s) >= 2 /\ SubSeq(s, Len(s) - 1, Len(s)) = <<"r", "n">>

AddExtraCrlf == ~IsCrlfTerminated(SubSeq(vec, pbase + 1, Len(vec)))

(* What would break TerminatorFits: only the terminator itself. *)
GrowthOfTerminator == 3

(* dots + add_extra_crlf? 2+3: 3 *)
Growth == IF Dots > 0 \/ AddExtraCrlf THEN 2 + 3 ELSE 3

(* What the response should be like: a dot which starts a line is doubled, *)
(* but for one in its first, and the last line is terminated.              *)
Terminated(s) ==
  FlattenSeq([i \in DOMAIN s |->
      IF s[i] = "." /\ i > 2 /\ SubSeq(s, i - 2, i - 1) = <<"r", "n">> THEN <<".", ".">> ELSE <<s[i]>>])
  \o (IF IsCrlfTerminated(s) THEN <<>> ELSE <<"r", "n">>) \o <<".", "r", "n">>

(* put_terminator(), after a response of at least one line.  If the growth *)
(* was too small this writes behind the end of vec_.                       *)
PutTerminator ==
  /\ ~flushing /\ Fits /\ text # <<>> /\ terminators < MaxTerminators
  /\ LET room == [i \in 1 .. Dots |-> "x"] IN
     vec' = Stuffed(vec \o room, Len(vec), Dots)
            \o (IF AddExtraCrlf THEN <<"r", "n">> ELSE <<>>) \o <<".", "r", "n">>
  /\ size' = IF Len(vec) + Growth > size THEN Grown ELSE size
  /\ z' = Len(vec')
  /\ promised' = promised \o Terminated(text) /\ text' = <<>>
  /\ terminators' = terminators + 1
  /\ UNCHANGED <<pbase, flushing, wire, pieces>>

ClearBuf == vec' = <<>> /\ pbase' = 0 /\ z' = 0

(* What would break Drained: not noticing that nothing is left. *)
FlushOn(n) ==
  /\ Fits /\ n <= Len(vec) - pbase
  /\ wire' = wire \o SubSeq(vec, pbase + 1, pbase + n)
  /\ promised' = promised \o text /\ text' = <<>>
  /\ flushing' = (pbase + n <= Len(vec))
  /\ IF flushing' THEN pbase' = pbase + n /\ UNCHANGED <<vec, z>> ELSE ClearBuf
  /\ UNCHANGED <<size, pieces, terminators>>

(* flush(): one write(2), which takes n octets, or none because of an      *)
(* error.  What is queued without a terminator is sent as it is.           *)
Flush(n) ==
  /\ Fits /\ n <= Len(vec) - pbase
  /\ wire' = wire \o SubSeq(vec, pbase + 1, pbase + n)
  /\ promised' = promised \o text /\ text' = <<>>
  /\ flushing' = (pbase + n < Len(vec))
  /\ IF flushing' THEN pbase' = pbase + n /\ UNCHANGED <<vec, z>> ELSE ClearBuf
  /\ UNCHANGED <<size, pieces, terminators>>

Next ==
  \/ \E piece \in Pieces : Put(piece)
  \/ PutTerminator
  \/ \E n \in 0 .. Len(vec) : Flush(n)

Spec == Init /\ [][Next]_vars

(* The client goes on until all is flushed, and the socket takes it. *)
Fairness == WF_vars(flushing /\ \E n \in 1 .. Len(vec) : Flush(n))

FairSpec == Spec /\ Fairness
-----------------------------------------------------------------------------
(* What is written and what is still to be written make up the responses   *)
(* in order, each dot-stuffed and terminated right where it should be,     *)
(* through growth of the buffer and partial writes.                        *)
WireRight == Fits => wire \o SubSeq(vec, pbase + 1, Len(vec)) = promised \o text

(* The buffer has room for what put_terminator() writes, if there is not   *)
(* more than the 2 octets which it counts beside the terminator: two dots, *)
(* or the end of the last line.  Three dots, or one and the end of the     *)
(* line, may not fit, although responsebuf.cc:102-104 says that "a single  *)
(* grow() is always enough": responsebuf.cc:110 does not count the dots,   *)
(* and it may not grow() at all.                                           *)
TerminatorFits ==
  [][Dots + (IF AddExtraCrlf THEN 2 ELSE 0) <= 2 => Len(vec') <= size']_vars

(* "repeatedly until it's all gone": flushing comes to an end. *)
Drained == flushing ~> ~flushing /\ vec = <<>> /\ wire = promised
=============================================================================
