----------------------------- MODULE RequestQueue -----------------------------
(***************************************************************************)
(* The requests a session has received and not taken up: requestqueue.cc.  *)
(* Of each this holds what a session acts on: the first line, where the    *)
(* request ends and whether it is broken; the module Request has the rest. *)
(*                                                                         *)
(* A line is a sequence of symbols.  Its first word decides whether it is  *)
(* malformed as a header line.  White space before it makes a continuation *)
(* line, and a line of white space only ends a request.                    *)
(***************************************************************************)
EXTENDS Naturals, Sequences, SequencesExt

CONSTANTS
  Text,      \* the symbols
  Blank,     \* those which are white space
  Malformed  \* the words which make a header line without a colon

ASSUME QueueAssumption == Blank \subseteq Text /\ Malformed \subseteq Text \ Blank

Line    == Seq(Text)
Request == [line : Line, complete : BOOLEAN, broken : BOOLEAN, headed : BOOLEAN]

IsBlank(line) == \A i \in DOMAIN line : line[i] \in Blank

(* The first word of a line that has one. *)
Word(line) ==
  line[CHOOSE i \in DOMAIN line :
         line[i] \notin Blank /\ \A j \in 1 .. i - 1 : line[j] \in Blank]

(* Request::add on a new Request: the first line is anything.              *)
FirstLine(line) == [line |-> line, complete |-> FALSE, broken |-> FALSE, headed |-> FALSE]

(* Request::add after that: the end line, or a plain header line, good or  *)
(* malformed, or the continuation of an earlier good one.                  *)
HeaderLine(r, line) ==
  LET plain == ~IsBlank(line) /\ (Head(line) \notin Blank \/ ~r.headed)
  IN [r EXCEPT !.complete = IsBlank(line),
               !.broken = @ \/ (plain /\ Word(line) \in Malformed),
               !.headed = @ \/ (plain /\ Word(line) \notin Malformed)]

(* What would break RequestsIntact: a line added to the first request      *)
(* rather than to the last.                                                *)
AddLineToFront(q, line) ==
  IF q = <<>> \/ Head(q).complete
    THEN Append(q, FirstLine(line))
    ELSE [q EXCEPT ![1] = HeaderLine(@, line)]

(* RequestQueue::add.                                                      *)
AddLine(q, line) ==
  IF q = <<>> \/ Last(q).complete
    THEN Append(q, FirstLine(line))
    ELSE [q EXCEPT ![Len(q)] = HeaderLine(@, line)]

(* What would break ImplementsPipeline: answering a request in the making. *)
HasRequest(q) == q # <<>>

(* The requests that can be answered. *)
Complete == {r \in Request : r.complete}

IsComplete(q) == q # <<>> /\ Head(q).complete
IsBroken(q)   == q # <<>> /\ Head(q).broken
=============================================================================
