------------------------------- MODULE Filters -------------------------------
(***************************************************************************)
(* The filters a response may be written through (filter.h, filter.cc,     *)
(* deflate.cc), in the four chains of filter.h:146-155: P for Plain, C for *)
(* Chunked, Z for Zlib and CZ for Zlib on Chunked.  One response is        *)
(* written the way filter.h:55-60 says: a series of writes, then one or    *)
(* more calls of end(), until one returns true.                            *)
(*                                                                         *)
(* What comes out is a sequence of tokens: the n-th octet of the response  *)
(* as it is, or deflated; and marks for the size and the end of a chunk,   *)
(* the last chunk, and the end of the deflated stream.  The socket takes   *)
(* some of them; where inside a mark it stops makes no difference.         *)
(***************************************************************************)
EXTENDS Naturals, Sequences, SequencesExt, Subsequence

CONSTANTS
  Chains,      \* the chains to look at
  MaxBlob,     \* the largest blob written at a time (a bound of the model)
  MaxWritten,  \* the longest response (a bound of the model)
  MaxEnds      \* the calls of end() (a bound of the model)

ASSUME FiltersAssumption ==
  /\ Chains \subseteq {"P", "C", "Z", "CZ"}
  /\ MaxBlob \in Nat \ {0} /\ MaxWritten \in Nat /\ MaxEnds \in Nat

VARIABLES
  chain,
  backlog, wire,     \* Backlog::v, and what the socket has taken
  ending,            \* Zlib::ending
  written, emitted,  \* octets pushed by the user, and popped out by Deflate
  phase,             \* "writing", "ending", "done", or "lost" by an exception
  result,            \* what the last call returned
  ends               \* how many calls of end() there were

vars == <<chain, backlog, wire, ending, written, emitted, phase, result, ends>>

Zipped  == chain \in {"Z", "CZ"}
Chunked == chain \in {"C", "CZ"}

Size(n)   == <<"size", n>>
CrLf      == <<"crlf", 0>>
LastChunk == <<"last", 0>>
Trailer   == <<"trailer", 0>>
Kind(t)   == t[1]

(* The tokens which are octets, those that belong in chunks, and all.      *)
OctetToken == {"data", "deflated"} \X Nat
Payload    == OctetToken \cup {Trailer}
Token      == ({"size"} \X Nat) \cup {CrLf, LastChunk} \cup Payload

(* The octets of the response from one position to another. *)
Octets(from, to) ==
  [k \in 1 .. to - from |-> <<IF Zipped THEN "deflated" ELSE "data", from + k>>]
-----------------------------------------------------------------------------
Init ==
  /\ chain \in Chains
  /\ backlog = <<>> /\ wire = <<>>
  /\ ending = FALSE
  /\ written = 0 /\ emitted = 0
  /\ phase = "writing" /\ result = TRUE /\ ends = 0

(* What would break InOrder: EAGAIN taken for success when salvaging.       *)
PutOrDrop(first, then) ==
  \E w \in 0 .. Len(then) :
    /\ wire' = wire \o first \o SubSeq(then, 1, w)
    /\ backlog' = IF w = 0 THEN <<>> ELSE SubSeq(then, w + 1, Len(then))
    /\ result' = (w = Len(then))

(* What would break TrueUnlessKept: true for any progress.                  *)
PutSome(first, then) ==
  \E w \in 0 .. Len(then) :
    /\ wire' = wire \o first \o SubSeq(then, 1, w)
    /\ backlog' = SubSeq(then, w + 1, Len(then))
    /\ result' = (w > 0 \/ then = <<>>)

(* writev() takes all of one part and some of another, and the rest of it  *)
(* is the backlog.                                                         *)
Put(first, then) ==
  \E w \in 0 .. Len(then) :
    /\ wire' = wire \o first \o SubSeq(then, 1, w)
    /\ backlog' = SubSeq(then, w + 1, Len(then))
    /\ result' = (w = Len(then))

(* What would break Framed: a chunk without its end. *)
FrameUnended(data) == IF Chunked THEN <<Size(Len(data))>> \o data ELSE data

(* What the filter below Zlib, or the only one, makes of some data. *)
Frame(data) == IF Chunked THEN <<Size(Len(data))>> \o data \o <<CrLf>> ELSE data

(* How much has popped out when n octets have been pushed. *)
Emits(n) == IF Zipped THEN emitted .. n ELSE {n}

(* write(fd, data).  The deflater may keep what it gets; if it keeps all,  *)
(* Zlib does not ask the filter below it, and is happy.  The data is never *)
(* empty, which Chunked would make a last chunk of: Response::write asks   *)
(* for none unless it has some (response.cc:57-63).                        *)
Write ==
  /\ phase = "writing"
  /\ \E n \in 1 .. MaxBlob :
       /\ written + n <= MaxWritten
       /\ written' = written + n
  /\ emitted' \in Emits(written')
  /\ \/ /\ emitted' = emitted
        /\ result' = TRUE
        /\ UNCHANGED <<backlog, wire>>
     \/ /\ emitted' # emitted
        /\ Put(<<>>, backlog \o Frame(Octets(emitted, emitted')))
  /\ UNCHANGED <<chain, ending, phase, ends>>

(* write(fd): there is no more data at the moment. *)
Flush ==
  /\ phase = "writing"
  /\ Put(<<>>, backlog)
  /\ UNCHANGED <<chain, ending, written, emitted, phase, ends>>

(* What Deflate::finish() adds to its output: all of it.                   *)
Rest == Octets(emitted, written) \o <<Trailer>>

(* What end() of the filter below Zlib, or of the only one, writes. *)
EndMark == IF Chunked THEN <<LastChunk>> ELSE <<>>

(* What would break EndedRight: done whatever end() returns. *)
DoneAtOnce == "done"

(* Response::write goes by what end() returns. *)
Done == IF result' THEN "done" ELSE "ending"

(* end(fd).  The first time, Zlib finishes the stream; only if all of it   *)
(* could be written, or later, does it go on to the filter below.          *)
End ==
  /\ phase \in {"writing", "ending"} /\ ends < MaxEnds
  /\ \/ /\ Zipped /\ ~ending
        /\ \/ Put(<<>>, backlog \o Frame(Rest)) /\ ~result'
           \/ Put(backlog \o Frame(Rest), EndMark)
     \/ /\ ~Zipped \/ ending
        /\ Put(<<>>, backlog \o EndMark)
  /\ ending' = Zipped
  /\ emitted' = written
  /\ phase' = Done
  /\ ends' = ends + 1
  /\ UNCHANGED <<chain, written>>

(* writev() or deflate() fails: an exception, and the session ends and the *)
(* filter with it, so that nobody sees the backlog Backlog::write emptied. *)
Fail ==
  /\ phase \in {"writing", "ending"}
  /\ phase' = "lost"
  /\ UNCHANGED <<chain, backlog, wire, ending, written, emitted, result, ends>>

Next == Write \/ Flush \/ End \/ Fail

Spec == Init /\ [][Next]_vars
-----------------------------------------------------------------------------
Out == wire \o backlog

(* Through short writes, chunks, and a deflater which keeps data back, the *)
(* octets of the response come out each once and in order: on the wire and *)
(* in the backlog is what was pushed and has popped out (filter.h:49-53).  *)
InOrder == Only(Out, OctetToken) = Octets(0, emitted)

(* How many times the end of a chunked response is marked. *)
Lasts(tokens) == Len(Only(tokens, {LastChunk}))

(* In a chunked response every octet is in a chunk, every chunk holds as   *)
(* many as it says, and behind a last chunk there is nothing but more of   *)
(* those, no more of them in all than there were calls of end()            *)
(* (filter.cc:149-166).  That there should be one is OneLastChunk.         *)
Framed ==
  LET Starts(i) == i <= Len(Out) => Kind(Out[i]) \in {"size", "last"} IN
  Chunked =>
    /\ Starts(1)
    /\ \A i \in DOMAIN Out :
         /\ Kind(Out[i]) = "size" =>
              LET n == Out[i][2] IN
              /\ n > 0
              /\ i + n + 1 <= Len(Out)
              /\ \A j \in 1 .. n : Out[i + j] \in Payload
              /\ Out[i + n + 1] = CrLf
         /\ Kind(Out[i]) = "crlf" => Starts(i + 1)
         /\ Kind(Out[i]) = "last" => \A j \in i .. Len(Out) : Kind(Out[j]) = "last"
    /\ Lasts(Out) <= ends

(* When end() returns true, all of the response is on the wire, its octets *)
(* and then, once, the end of the deflated stream, whether it was the      *)
(* first call of end() or a later one; and if it is chunked its end is     *)
(* marked, and no more often than end() was called: so once, if once.      *)
EndedRight ==
  phase = "done" =>
    /\ backlog = <<>> /\ emitted = written
    /\ Chunked => Lasts(wire) \in 1 .. ends
    /\ Only(wire, Payload) = Octets(0, written) \o (IF Zipped THEN <<Trailer>> ELSE <<>>)

(* write() and end() return true, as filter.h:62-64 says, only if they     *)
(* leave an empty backlog, but for one case: the deflater kept all that    *)
(* this call gave it, and so the backlog from before was not looked at     *)
(* (filter.cc:186).                                                        *)
TrueUnlessKept ==
  [][result' /\ backlog' # <<>> /\ phase' # "lost" =>
       Zipped /\ written' > written /\ UNCHANGED <<emitted, backlog, wire>>]_vars

(* filter.h:105 claims the chunked coding of RFC 2616 3.6.1, where a       *)
(* response ends in one last chunk, and filter.h:55-60 allows "one or more *)
(* end(fd) calls".  Each call writes another (filter.cc:161-166): violated.*)
OneLastChunk == phase = "done" /\ Chunked => Lasts(wire) = 1
=============================================================================
