-------------------------------- MODULE Request --------------------------------
(***************************************************************************)
(* One HTTP request as it is fed line by line: request.cc, and the names   *)
(* it looks up in names.cc.  The values of the headers, and the URI, share *)
(* one vector, with an array of their offsets, which are of Width values   *)
(* (an unsigned short) and wrap.                                           *)
(*                                                                         *)
(* A line is a sequence of symbols: words, white space, and separators,    *)
(* which end a token.  Session abstracts all this to where a request ends, *)
(* what it asks for and whether it is broken.                              *)
(***************************************************************************)
EXTENDS Naturals, Sequences, SequencesExt, FiniteSetsExt

CONSTANTS
  Symbol,      \* what lines consist of
  Blank,       \* white space, " " among it
  Separator,   \* the others which end a token, "," and ":" among them
  Property,    \* Request::Property, UNKNOWN, END and Request_URI among them
  Named,       \* names.cc, init[]: the properties which have names, in order
  Printed,     \* names.cc, operator<<: the name of a property, one symbol
  Width,       \* the number of values of an unsigned short
  FirstLines,  \* what may be fed first
  OtherLines,  \* and what may be fed after that
  MaxLines     \* how many lines there are at most: a bound for TLC

Lines == FirstLines \cup OtherLines

ASSUME RequestAssumption ==
  /\ Blank \subseteq Symbol /\ Separator \subseteq Symbol /\ Blank \cap Separator = {}
  /\ " " \in Blank /\ {",", ":"} \subseteq Separator
  /\ {"UNKNOWN", "END", "Request_URI"} \subseteq Property
  /\ Named \in Seq(Property \ {"UNKNOWN", "END"})
  /\ Printed \in [Property -> Symbol \ (Blank \cup Separator)]
  /\ Lines \subseteq Seq(Symbol)
  /\ Width \in Nat \ {0}
  /\ \A line \in Lines : Len(line) < Width
  /\ MaxLines \in Nat

VARIABLES
  v,           \* the URI and the values, one after the other
  properties,  \* what they are, and where in v they start
  complete, broken,
  method, version,
  lines,       \* for the properties: what was fed
  seen,        \* for the properties: what RequestQueue makes of it
  fields       \* for the properties: which header fields there are in it

vars == <<v, properties, complete, broken, method, version, lines, seen, fields>>

-----------------------------------------------------------------------------
(* The first place in line, from i on, with a symbol in S; else its end.   *)
Find(line, i, S) == Min({j \in i .. Len(line) : line[j] \in S} \cup {Len(line) + 1})

ws(line, i)     == Find(line, i, Symbol \ Blank)
non_ws(line, i) == Find(line, i, Blank)
token(line, i)  == Find(line, i, Blank \cup Separator)

(* [a, b) of a line, and the same without the white space to the right.    *)
Between(line, a, b) == SubSeq(line, a, b - 1)
trimr(line, a, b) == Max({j \in a .. b - 1 : line[j] \notin Blank} \cup {a - 1}) + 1

(* Names::lookup in what Names::Names made of init[]: a later property of  *)
(* the same name replaces an earlier one.                                  *)
lookup(s) ==
  LET found == {i \in DOMAIN Named : s = <<Printed[Named[i]]>>}
  IN IF found = {} THEN "UNKNOWN" ELSE Named[Max(found)]
-----------------------------------------------------------------------------
(* What a line should be taken for: name : value or not, in these words.   *)
IsHeader(line) ==
  \E i, j, k \in 0 .. Len(line) :
    /\ i <= j /\ j <= k /\ k < Len(line) /\ line[k + 1] = ":"
    /\ \A n \in 1 .. k : line[n] \in IF i < n /\ n <= j THEN Symbol \ (Blank \cup Separator)
                                                        ELSE Blank

Stripped(s) ==
  LET black == {i \in DOMAIN s : s[i] \notin Blank}
  IN IF black = {} THEN <<>> ELSE SubSeq(s, Min(black), Max(black))

(* What Session makes of a line. *)
Shape(line) ==
  (IF line = <<>> \/ line[1] \in Blank THEN <<"blank">> ELSE <<>>)
  \o (IF Stripped(line) = <<>> THEN <<>> ELSE IF IsHeader(line) THEN <<"good">> ELSE <<"bad">>)

(* The URI in a first line: all between the first word and the last, or    *)
(* the second of two.                                                      *)
Uri(line) ==
  LET words  == {i \in DOMAIN line : line[i] \notin Blank /\ (i = 1 \/ line[i - 1] \in Blank)}
      others == {i \in words : \E j \in words : j < i}
      inner  == {i \in others : \E j \in others : i < j}
      last   == IF inner = {} THEN Min(others) ELSE Max(inner)
  IN IF others = {} THEN <<>> ELSE Between(line, Min(others), non_ws(line, last))

(* The header field in a line, and what a continuation line adds to it.    *)
Field(line) ==
  LET colon == Min({i \in DOMAIN line : line[i] = ":"})
  IN [prop |-> lookup(Stripped(SubSeq(line, 1, colon - 1))),
      value |-> Stripped(SubSeq(line, colon + 1, Len(line)))]

Continuation(line) == <<line[ws(line, 1) - 1]>> \o Stripped(line)

(* The header fields in the lines so far, the URI in the first line being  *)
(* one of them, and in one line more.                                      *)
FirstField(line) == <<[prop |-> "Request_URI", value |-> Uri(line)]>>

MoreFields(fs, line) ==
  IF Stripped(line) = <<>> THEN fs
  ELSE IF line[1] \in Blank /\ Len(fs) > 1
    THEN [fs EXCEPT ![Len(fs)].value = @ \o Continuation(line)]
    ELSE IF IsHeader(line) THEN Append(fs, Field(line)) ELSE fs

Q == INSTANCE RequestQueue WITH
       Text <- {"blank", "good", "bad"}, Blank <- {"blank"}, Malformed <- {"bad"}
-----------------------------------------------------------------------------
Init ==
  /\ v = <<>> /\ properties = <<>>
  /\ complete = FALSE /\ broken = FALSE
  /\ method = "END" /\ version = "UNKNOWN"
  /\ lines = <<>> /\ seen = Q!FirstLine(<<>>) /\ fields = <<>>

insert(prop, text) ==
  /\ v' = v \o text
  /\ properties' = Append(properties, [prop |-> prop, start |-> Len(v) % Width])

(* \s* (\S+) \s+ (.+) \s+ http/(\S+) \s* -- the URI extends to the last    *)
(* word but one, or is the last if there is only one after the method.     *)
first_line(line) ==
  LET meth  == ws(line, 1)
      uri   == ws(line, non_ws(line, meth))
      words == {i \in uri .. Len(line) : /\ line[i] \notin Blank
                                         /\ line[i - 1] \in Blank}
      q == Max(words \cup {uri})
      p == Max((words \ {q}) \cup {uri})
  IN /\ method' = lookup(Between(line, meth, non_ws(line, meth)))
     /\ version' = lookup(Between(line, q, non_ws(line, q)))
     /\ insert("Request_URI", Between(line, uri, non_ws(line, p)))
     /\ UNCHANGED <<complete, broken>>

(* name : value, which is a header, or appended to the one before if that  *)
(* has the same name.                                                      *)
plain_line(line) ==
  LET name  == ws(line, 1)
      end   == token(line, name)
      prop  == lookup(Between(line, name, end))
      colon == ws(line, end)
      good  == colon <= Len(line) /\ line[colon] = ":"
      value == ws(line, colon + 1)
      text  == Between(line, value, trimr(line, value, Len(line) + 1))
  IN /\ \/ /\ ~good
           /\ broken' = TRUE
           /\ UNCHANGED <<v, properties>>
        \/ /\ good
           /\ IF properties # <<>> /\ Last(properties).prop = prop
                THEN v' = v \o <<",", " ">> \o text /\ UNCHANGED properties
                ELSE insert(prop, text)
           /\ UNCHANGED broken
     /\ UNCHANGED <<complete, method, version>>

(* More of the value before, with one blank of those in front of it.       *)
cont_line(line) ==
  LET a == ws(line, 1) - 1 IN
  /\ v' = v \o Between(line, a, trimr(line, a, Len(line) + 1))
  /\ UNCHANGED <<properties, complete, broken, method, version>>

(* What would break SessionAgrees: forgetting an earlier malformed line.   *)
EndLineAfresh ==
  /\ complete' = TRUE
  /\ broken' = (Len(v) > Width - 1)
  /\ insert("END", <<>>)
  /\ UNCHANGED <<method, version>>

(* What would break HeadersRight: a limit which is one too high.           *)
EndLineLate ==
  /\ complete' = TRUE
  /\ broken' = (broken \/ Len(v) > Width)
  /\ insert("END", <<>>)
  /\ UNCHANGED <<method, version>>

(* What would break UriKept: no END unless there is a header.              *)
EndLineOfHeaders ==
  /\ complete' = TRUE
  /\ broken' = (broken \/ Len(v) > Width - 1)
  /\ IF Len(properties) = 1 THEN UNCHANGED <<v, properties>> ELSE insert("END", <<>>)
  /\ UNCHANGED <<method, version>>

(* The offset of END is good only if all of v can be reached.              *)
end_line ==
  /\ complete' = TRUE
  /\ broken' = (broken \/ Len(v) > Width - 1)
  /\ insert("END", <<>>)
  /\ UNCHANGED <<method, version>>

(* Request::add.  RequestQueue feeds a complete request no more.           *)
add(line) ==
  LET p == ws(line, 1) IN
  /\ ~complete
  /\ lines' = Append(lines, line)
  /\ seen' = IF lines = <<>> THEN Q!FirstLine(Shape(line)) ELSE Q!HeaderLine(seen, Shape(line))
  /\ fields' = IF lines = <<>> THEN FirstField(line) ELSE MoreFields(fields, line)
  /\ \/ method = "END" /\ first_line(line)
     \/ method # "END" /\ p > Len(line) /\ end_line
     \/ method # "END" /\ p <= Len(line) /\ (p = 1 \/ Len(properties) = 1) /\ plain_line(line)
     \/ method # "END" /\ p <= Len(line) /\ ~(p = 1 \/ Len(properties) = 1) /\ cont_line(line)

Next ==
  /\ Len(lines) < MaxLines
  /\ \E line \in IF lines = <<>> THEN FirstLines ELSE OtherLines : add(line)

Spec == Init /\ [][Next]_vars
-----------------------------------------------------------------------------
(* Request::header and request_uri: what is stored from one offset to the  *)
(* next.  The last entry is END.                                           *)
Stored(i)   == SubSeq(v, properties[i].start + 1, properties[i + 1].start)
Found(prop) == {i \in 1 .. Len(properties) - 1 : properties[i].prop = prop}

header(prop) == IF Found(prop) = {} THEN <<>> ELSE Stored(Min(Found(prop)))
request_uri  == Stored(1)

(* The first unbroken series of fields with the same name, "val, val, ..." *)
FirstSeries(fs, prop) ==
  LET first == Min({i \in DOMAIN fs : fs[i].prop = prop})
      after == Min({i \in first .. Len(fs) : fs[i].prop # prop} \cup {Len(fs) + 1})
      more  == [i \in 1 .. after - first - 1 |-> <<",", " ">> \o fs[first + i].value]
  IN fs[first].value \o FlattenSeq(more)

(* The first header line that is one looks like another URI: see UriAlways. *)
NamesUri ==
  \E i \in 2 .. Len(lines) :
    /\ IsHeader(lines[i]) /\ \A j \in 2 .. i - 1 : ~IsHeader(lines[j])
    /\ lookup(Stripped(SubSeq(lines[i], 1, token(lines[i], ws(lines[i], 1)) - 1))) = "Request_URI"

(* A request that is complete and not broken yields for each name the      *)
(* first series of its values, continuation lines included, and nothing if *)
(* there is none (request.cc:209-222), up to the largest that fits.        *)
HeadersRight ==
  complete /\ ~broken /\ ~NamesUri =>
    \A prop \in Property \ {"END"} :
      header(prop) = IF \E i \in DOMAIN fields : fields[i].prop = prop
                       THEN FirstSeries(fields, prop) ELSE <<>>

(* Also of a request that is broken, even one that is too large for the    *)
(* offsets: Session::write answers those.                                  *)
UriKept == complete /\ ~NamesUri => Len(properties) > 1 /\ request_uri = Uri(lines[1])

(* "Return the Request-URI.  Undefined unless complete." (request.cc:238)  *)
UriAlways == complete => request_uri = Uri(lines[1])

(* RequestQueue, and so Session, rightly takes a request for complete or   *)
(* broken - except for one which grew too large, which it does not see.    *)
SessionAgrees ==
  lines # <<>> /\ ~NamesUri =>
    /\ complete = seen.complete
    /\ broken = (seen.broken \/ (complete /\ Len(v) >= Width))
    /\ ~complete => seen.headed = (Len(properties) > 1)
=============================================================================
