---------------------------- MODULE SessionProofs ----------------------------
(***************************************************************************)
(* Theorems about Session, for every size of the buffer, every file, every *)
(* stream of input and every way to cut it; first about what the operators *)
(* of Session and RequestQueue compute: reading lines does not depend on   *)
(* how the input is cut.  Then, on top of them, theorems about Connection: *)
(* what the loop, epoll and a session have to keep to each other.          *)
(***************************************************************************)
EXTENDS Connection, SequenceProofs

(* A line as far as it has been read, and what has been made of the rest.  *)
Progress == [queue : Seq(Request), line : Line]
-----------------------------------------------------------------------------
(* TLC's way of evaluating an operator's argument once does not matter. *)
LEMMA TakeOne ==
  ASSUME NEW y, NEW x
  PROVE  (CHOOSE r \in {Take(p, x) : p \in {y}} : TRUE) = Take(y, x)
OBVIOUS

(* f is the function that Drain(q, b) is defined by. *)
Steps(q, b, f) ==
  f = [i \in 0 .. Len(b) |->
         IF i = 0 THEN [queue |-> q, line |-> <<>>]
                  ELSE CHOOSE r \in {Take(p, b[i]) : p \in {f[i - 1]}} : TRUE]

LEMMA StepsAre ==
  ASSUME NEW q, NEW b \in Seq(Text), NEW f
  PROVE  Steps(q, b, f) <=>
           f = [i \in 0 .. Len(b) |->
                  IF i = 0 THEN [queue |-> q, line |-> <<>>] ELSE Take(f[i - 1], b[i])]
<1>1. \A i \in 0 .. Len(b) :
        (CHOOSE r \in {Take(p, b[i]) : p \in {f[i - 1]}} : TRUE) = Take(f[i - 1], b[i])
  BY TakeOne
<1> QED BY <1>1 DEF Steps

LEMMA StepsValue ==
  ASSUME NEW q, NEW b \in Seq(Text), NEW f, Steps(q, b, f)
  PROVE  \A i \in 0 .. Len(b) :
           f[i] = IF i = 0 THEN [queue |-> q, line |-> <<>>] ELSE Take(f[i - 1], b[i])
<1>1. f = [i \in 0 .. Len(b) |->
             IF i = 0 THEN [queue |-> q, line |-> <<>>] ELSE Take(f[i - 1], b[i])]
  BY StepsAre
<1> QED BY <1>1

LEMMA StepsExtend ==
  ASSUME NEW q, NEW b \in Seq(Text), NEW x \in Text, NEW f, Steps(q, b, f)
  PROVE  \E g : Steps(q, Append(b, x), g)
<1> DEFINE n == Len(b)
           c == Append(b, x)
           g == [i \in 0 .. n + 1 |-> IF i <= n THEN f[i] ELSE Take(f[n], x)]
<1>1. c \in Seq(Text) /\ n \in Nat /\ Len(c) = n + 1 /\ c[n + 1] = x
      /\ \A i \in 1 .. n : c[i] = b[i]
  BY AppendProperties
<1>2. f = [i \in 0 .. n |-> IF i = 0 THEN [queue |-> q, line |-> <<>>] ELSE Take(f[i - 1], b[i])]
  BY StepsAre
<1>3. ASSUME NEW i \in 0 .. n + 1
      PROVE  g[i] = IF i = 0 THEN [queue |-> q, line |-> <<>>] ELSE Take(g[i - 1], c[i])
  <2>1. CASE i = 0
    BY <1>1, <1>2, <2>1
  <2>2. CASE i \in 1 .. n
    <3>1. g[i] = f[i] /\ g[i - 1] = f[i - 1] /\ c[i] = b[i]
      BY <1>1, <2>2
    <3>2. f[i] = Take(f[i - 1], b[i])
      BY <1>1, <1>2, <2>2
    <3> QED BY <3>1, <3>2, <2>2
  <2>3. CASE i = n + 1
    <3>1. g[i] = Take(f[n], x) /\ g[i - 1] = f[n] /\ c[i] = x
      BY <1>1, <2>3
    <3> QED BY <1>1, <2>3, <3>1
  <2> QED BY <1>1, <2>1, <2>2, <2>3
<1>4. g = [i \in 0 .. Len(c) |-> IF i = 0 THEN [queue |-> q, line |-> <<>>] ELSE Take(g[i - 1], c[i])]
  <2> HIDE DEF c
  <2> QED BY <1>1, <1>3
<1> HIDE DEF g, c
<1>5. Steps(q, c, g)
  BY <1>1, <1>4, StepsAre
<1> QED BY <1>5 DEF c

LEMMA StepsExist ==
  ASSUME NEW q
  PROVE  \A b \in Seq(Text) : \E f : Steps(q, b, f)
<1> DEFINE P == {b \in Seq(Text) : \E f : Steps(q, b, f)}
<1>1. <<>> \in P
  <2>1. Len(<<>>) = 0 /\ <<>> \in Seq(Text)
    BY EmptySeq
  <2>2. DEFINE f == [i \in 0 .. 0 |-> [queue |-> q, line |-> <<>>]]
  <2>3. f = [i \in 0 .. 0 |-> IF i = 0 THEN [queue |-> q, line |-> <<>>] ELSE Take(f[i - 1], <<>>[i])]
    BY \A i \in 0 .. 0 : i = 0
  <2> HIDE DEF f
  <2>4. Steps(q, <<>>, f)
    BY <2>1, <2>3, StepsAre
  <2> QED BY <2>1, <2>4
<1>2. \A b \in P : \A x \in Text : Append(b, x) \in P
  BY StepsExtend, AppendProperties
<1>3. \A b \in Seq(Text) : b \in P
  <2> HIDE DEF P
  <2>1. P \in SUBSET Seq(Text)
    BY DEF P
  <2> QED BY <1>1, <1>2, <2>1, AllSeq
<1> QED BY <1>3

LEMMA StepsUnique ==
  ASSUME NEW q, NEW b \in Seq(Text), NEW f, NEW g, Steps(q, b, f), Steps(q, b, g)
  PROVE  \A i \in 0 .. Len(b) : f[i] = g[i]
<1> DEFINE S == {n \in Nat : n <= Len(b) => f[n] = g[n]}
<1>1. \A i \in 0 .. Len(b) :
        /\ f[i] = IF i = 0 THEN [queue |-> q, line |-> <<>>] ELSE Take(f[i - 1], b[i])
        /\ g[i] = IF i = 0 THEN [queue |-> q, line |-> <<>>] ELSE Take(g[i - 1], b[i])
  BY StepsValue
<1>2. Len(b) \in Nat
  BY LenProperties
<1>3. 0 \in S
  BY <1>1, <1>2
<1>4. ASSUME NEW n \in S PROVE n + 1 \in S
  <2>1. SUFFICES ASSUME n + 1 <= Len(b) PROVE f[n + 1] = g[n + 1]
    OBVIOUS
  <2>2. n + 1 \in 0 .. Len(b) /\ n + 1 # 0 /\ (n + 1) - 1 = n /\ f[n] = g[n]
    BY <1>2, <2>1
  <2> QED BY <1>1, <2>2
<1>5. \A n \in Nat : n \in S
  <2>1. S \in SUBSET Nat
    OBVIOUS
  <2> HIDE DEF S
  <2> QED BY <1>3, <1>4, <2>1, AllNat
<1> QED BY <1>2, <1>5

LEMMA DrainIs ==
  ASSUME NEW q, NEW b \in Seq(Text)
  PROVE  \E f : Steps(q, b, f) /\ Drain(q, b) = f[Len(b)]
<1> DEFINE after == CHOOSE f : Steps(q, b, f)
<1>1. Steps(q, b, after)
  BY StepsExist
<1>2. Drain(q, b) = after[Len(b)]
  BY DEF Drain, Steps
<1> QED BY <1>1, <1>2

LEMMA DrainNil ==
  ASSUME NEW q
  PROVE  Drain(q, <<>>) = [queue |-> q, line |-> <<>>]
<1>1. ASSUME NEW b \in Seq(Text), Len(b) = 0
      PROVE  Drain(q, b) = [queue |-> q, line |-> <<>>]
  <2>1. PICK f : Steps(q, b, f) /\ Drain(q, b) = f[Len(b)]
    BY DrainIs
  <2>2. \A i \in 0 .. Len(b) :
          f[i] = IF i = 0 THEN [queue |-> q, line |-> <<>>] ELSE Take(f[i - 1], b[i])
    BY <2>1, StepsValue
  <2>3. f[0] = [queue |-> q, line |-> <<>>]
    BY <1>1, <2>2
  <2> QED BY <1>1, <2>1, <2>3
<1> QED BY <1>1, EmptySeq

(* One octet more is taken as if it came alone. *)
LEMMA DrainSnoc ==
  ASSUME NEW q, NEW b \in Seq(Text), NEW x \in Text
  PROVE  Drain(q, Append(b, x)) = Take(Drain(q, b), x)
<1> DEFINE n == Len(b)
           c == Append(b, x)
<1>1. c \in Seq(Text) /\ n \in Nat /\ Len(c) = n + 1 /\ c[n + 1] = x
      /\ \A i \in 1 .. n : c[i] = b[i]
  BY AppendProperties
<1>2. PICK g : Steps(q, c, g) /\ Drain(q, c) = g[Len(c)]
  BY <1>1, DrainIs
<1>3. PICK f : Steps(q, b, f) /\ Drain(q, b) = f[Len(b)]
  BY <1>1, DrainIs
<1> DEFINE h == [i \in 0 .. n |-> g[i]]
<1>4. \A i \in 0 .. Len(c) :
        g[i] = IF i = 0 THEN [queue |-> q, line |-> <<>>] ELSE Take(g[i - 1], c[i])
  <2> HIDE DEF c
  <2> QED BY <1>1, <1>2, StepsValue
<1>5. ASSUME NEW i \in 0 .. n
      PROVE  h[i] = IF i = 0 THEN [queue |-> q, line |-> <<>>] ELSE Take(h[i - 1], b[i])
  <2> HIDE DEF c
  <2>1. h[i] = g[i] /\ i \in 0 .. Len(c)
    BY <1>1
  <2>2. CASE i = 0
    BY <1>4, <2>1, <2>2
  <2>3. CASE i # 0
    <3>1. h[i - 1] = g[i - 1] /\ c[i] = b[i]
      BY <1>1, <2>3
    <3>2. g[i] = Take(g[i - 1], c[i])
      BY <1>4, <2>1, <2>3
    <3> QED BY <2>1, <2>3, <3>1, <3>2
  <2> QED BY <2>2, <2>3
<1>6. Steps(q, b, h)
  <2>1. h = [i \in 0 .. Len(b) |->
               IF i = 0 THEN [queue |-> q, line |-> <<>>] ELSE Take(h[i - 1], b[i])]
    BY <1>5
  <2> HIDE DEF h
  <2> QED BY <2>1, StepsAre
<1>7. g[n] = f[n]
  <2>1. h[n] = f[n]
    <3> HIDE DEF h
    <3> QED BY <1>1, <1>3, <1>6, StepsUnique
  <2> QED BY <1>1, <2>1
<1>8. g[n + 1] = Take(g[n], x)
  <2> HIDE DEF c
  <2>1. n + 1 \in 0 .. Len(c) /\ n + 1 # 0 /\ (n + 1) - 1 = n
    BY <1>1
  <2> QED BY <1>1, <1>4, <2>1
<1> HIDE DEF c
<1>9. Drain(q, c) = Take(Drain(q, b), x)
  BY <1>1, <1>2, <1>3, <1>7, <1>8
<1> QED BY <1>9 DEF c

LEMMA DrainCatSnoc ==
  ASSUME NEW q, NEW b \in Seq(Text), NEW c \in Seq(Text), NEW x \in Text
  PROVE  Drain(q, b \o Append(c, x)) = Take(Drain(q, b \o c), x)
<1>1. b \o c \in Seq(Text)
  BY ConcatProperties
<1>2. b \o Append(c, x) = Append(b \o c, x)
  BY ONLY b \in Seq(Text), c \in Seq(Text), x \in Text, CatSnoc
<1> QED BY <1>1, <1>2, DrainSnoc
-----------------------------------------------------------------------------
LEMMA AddLineType ==
  ASSUME NEW q \in Seq(Request), NEW line \in Line
  PROVE  AddLine(q, line) \in Seq(Request) /\ AddLine(q, line) # <<>>
<1>1. FirstLine(line) \in Request /\ \A r \in Request : HeaderLine(r, line) \in Request
  <2>1. IsBlank(line) \in BOOLEAN
    BY DEF IsBlank
  <2> QED BY <2>1 DEF FirstLine, HeaderLine, Request
<1>2. CASE q = <<>> \/ Last(q).complete
  <2>1. AddLine(q, line) = Append(q, FirstLine(line))
    BY <1>2 DEF AddLine
  <2> QED BY <1>1, <2>1, AppendProperties
<1>3. CASE ~(q = <<>> \/ Last(q).complete)
  <2>1. AddLine(q, line) = [q EXCEPT ![Len(q)] = HeaderLine(q[Len(q)], line)]
    BY <1>3 DEF AddLine
  <2>2. Len(q) \in 1 .. Len(q) /\ q[Len(q)] \in Request
    BY <1>3, EmptySeq, ElementOfSeq
  <2>3. AddLine(q, line) \in Seq(Request) /\ Len(AddLine(q, line)) = Len(q)
    BY <1>1, <2>1, <2>2, ExceptSeq
  <2> QED BY <2>2, <2>3, EmptySeq
<1> QED BY <1>2, <1>3

(* The requests which have been taken from the queue were complete, so it  *)
(* is as if they had never been there.                                     *)
LEMMA AddLineBehind ==
  ASSUME NEW u \in Seq(Request), NEW q \in Seq(Request), NEW line \in Line,
         u # <<>> => Last(u).complete
  PROVE  AddLine(u \o q, line) = u \o AddLine(q, line)
<1>1. FirstLine(line) \in Request /\ \A r \in Request : HeaderLine(r, line) \in Request
  <2>1. IsBlank(line) \in BOOLEAN
    BY DEF IsBlank
  <2> QED BY <2>1 DEF FirstLine, HeaderLine, Request
<1> DEFINE w == u \o q
<1>2. /\ w \in Seq(Request) /\ Len(w) = Len(u) + Len(q) /\ Len(u) \in Nat /\ Len(q) \in Nat
      /\ \A i \in 1 .. Len(u) + Len(q) : w[i] = IF i <= Len(u) THEN u[i] ELSE q[i - Len(u)]
  BY ConcatProperties, LenProperties
<1>3. CASE q = <<>>
  <2>1. w = u /\ u \o <<FirstLine(line)>> = Append(u, FirstLine(line))
    BY <1>1, <1>3, ConcatEmptySeq, AppendIsConcat
  <2>2. AddLine(q, line) = <<FirstLine(line)>>
    BY <1>3 DEF AddLine
  <2>3. AddLine(u, line) = Append(u, FirstLine(line))
    BY DEF AddLine
  <2> QED BY <2>1, <2>2, <2>3
<1>4. CASE q # <<>>
  <2>1. Len(q) >= 1 /\ w # <<>> /\ Last(w) = Last(q)
    BY <1>2, <1>4, EmptySeq DEF Last
  <2>2. CASE Last(q).complete
    <3> DEFINE F == FirstLine(line)
    <3>1. AddLine(w, line) = Append(w, F) /\ AddLine(q, line) = Append(q, F)
      BY <2>1, <2>2 DEF AddLine
    <3>2. Append(w, F) = w \o <<F>> /\ Append(q, F) = q \o <<F>> /\ <<F>> \in Seq(Request)
      BY <1>1, <1>2, AppendIsConcat
    <3>3. w \o <<F>> = u \o (q \o <<F>>)
      <4>1. PICK g \in Seq(Request) : g = <<F>>
        BY <3>2
      <4>2. Cat(Cat(u, q), g) = Cat(u, Cat(q, g))
        BY CatAssociates
      <4> QED BY <4>1, <4>2 DEF Cat
    <3> QED BY <3>1, <3>2, <3>3
  <2>3. CASE ~Last(q).complete
    <3> DEFINE r == HeaderLine(q[Len(q)], line)
               v == [q EXCEPT ![Len(q)] = r]
               z == [w EXCEPT ![Len(w)] = r]
    <3>1. AddLine(q, line) = v
      BY <1>4, <2>3 DEF AddLine
    <3>2. AddLine(w, line) = z
      <4>1. w[Len(w)] = q[Len(q)]
        BY <2>1 DEF Last
      <4> HIDE DEF w
      <4>2. AddLine(w, line) = [w EXCEPT ![Len(w)] = HeaderLine(w[Len(w)], line)]
        BY <2>1, <2>3 DEF AddLine
      <4> QED BY <4>1, <4>2
    <3>3. r \in Request
      BY <1>1, <1>2, <2>1, ElementOfSeq
    <3>4. /\ v \in Seq(Request) /\ Len(v) = Len(q)
          /\ \A j \in 1 .. Len(q) : v[j] = IF j = Len(q) THEN r ELSE q[j]
      <4> HIDE DEF r
      <4>1. q \in Seq(Request) /\ Len(q) \in 1 .. Len(q)
        BY <1>2, <2>1
      <4> QED BY ONLY <3>3, <4>1, ExceptSeq
    <3>5. /\ z \in Seq(Request) /\ Len(z) = Len(w)
          /\ \A j \in 1 .. Len(w) : z[j] = IF j = Len(w) THEN r ELSE w[j]
      <4> HIDE DEF r, w
      <4>1. w \in Seq(Request) /\ Len(w) \in 1 .. Len(w)
        BY <1>2, <2>1
      <4> QED BY ONLY <3>3, <4>1, ExceptSeq
    <3> HIDE DEF v, z, r, w
    <3>6. /\ u \o v \in Seq(Request) /\ Len(u \o v) = Len(u) + Len(q)
          /\ \A i \in 1 .. Len(u) + Len(q) : (u \o v)[i] = IF i <= Len(u) THEN u[i] ELSE v[i - Len(u)]
      <4>1. v \in Seq(Request) /\ Len(v) = Len(q)
        BY <3>4
      <4>2. /\ u \o v \in Seq(Request) /\ Len(u \o v) = Len(u) + Len(v)
            /\ \A i \in 1 .. Len(u) + Len(v) :
                 (u \o v)[i] = IF i <= Len(u) THEN u[i] ELSE v[i - Len(u)]
        BY ONLY <4>1, u \in Seq(Request), ConcatProperties
      <4> QED BY ONLY <4>1, <4>2
    <3>7. ASSUME NEW i \in 1 .. Len(z) PROVE z[i] = (u \o v)[i]
      <4>1. CASE i <= Len(u)
        BY <4>1, <1>2, <2>1, <3>5, <3>6
      <4>2. CASE i > Len(u)
        <5>1. i - Len(u) \in 1 .. Len(q) /\ i \in 1 .. Len(u) + Len(q) /\ ~(i <= Len(u))
          BY <4>2, <1>2, <3>5
        <5>2. z[i] = IF i - Len(u) = Len(q) THEN r ELSE q[i - Len(u)]
          BY <5>1, <1>2, <3>5
        <5> QED BY <5>1, <5>2, <3>4, <3>6
      <4>3. i <= Len(u) \/ i > Len(u)
        BY <1>2
      <4> QED BY <4>1, <4>2, <4>3
    <3>8. z = u \o v
      <4>1. PICK y \in Seq(Request) : y = u \o v /\ Len(z) = Len(y)
        BY <1>2, <3>5, <3>6
      <4>2. z \in Seq(Request) /\ \A i \in 1 .. Len(z) : z[i] = y[i]
        BY <3>5, <3>7, <4>1
      <4> QED BY ONLY <4>1, <4>2, SeqEqual
    <3> QED BY <3>1, <3>2, <3>8 DEF w
  <2> QED BY <2>2, <2>3
<1> QED BY <1>3, <1>4
-----------------------------------------------------------------------------
LEMMA DrainType ==
  ASSUME NEW q \in Seq(Request)
  PROVE  \A b \in Seq(Text) : Drain(q, b) \in Progress
<1> DEFINE P == {b \in Seq(Text) : Drain(q, b) \in Progress}
<1>1. <<>> \in P
  <2>1. <<>> \in Line /\ <<>> \in Seq(Text)
    BY EmptySeq DEF Line
  <2>2. Drain(q, <<>>) \in Progress
    BY <2>1, DrainNil DEF Progress
  <2> QED BY <2>1, <2>2
<1>2. ASSUME NEW b \in P, NEW x \in Text PROVE Append(b, x) \in P
  <2>1. \A p \in Progress : Take(p, x) \in Progress
    <3>1. SUFFICES ASSUME NEW p \in Progress PROVE Take(p, x) \in Progress
      OBVIOUS
    <3>2. Append(p.line, x) \in Line /\ <<>> \in Line /\ p.queue \in Seq(Request) /\ p.line \in Line
      BY AppendProperties, EmptySeq DEF Progress, Line
    <3>3. AddLine(p.queue, Append(p.line, x)) \in Seq(Request)
      BY <3>2, AddLineType
    <3> QED BY <3>2, <3>3 DEF Take, Progress
  <2>2. Drain(q, Append(b, x)) = Take(Drain(q, b), x)
    BY DrainSnoc
  <2> QED BY <2>1, <2>2, AppendProperties
<1>3. P \in SUBSET Seq(Text)
  OBVIOUS
<1> HIDE DEF P
<1>4. \A b \in Seq(Text) : b \in P
  BY <1>1, <1>2, <1>3, AllSeq
<1> QED BY <1>4 DEF P

(* No part of an unterminated line is a line.                              *)
Unterminated(l) == \A q : Drain(q, l) = [queue |-> q, line |-> l]

LEMMA DrainLeaves ==
  ASSUME NEW q \in Seq(Request)
  PROVE  \A b \in Seq(Text) : Unterminated(Drain(q, b).line)
<1> DEFINE P == {b \in Seq(Text) : Unterminated(Drain(q, b).line)}
<1>1. Unterminated(<<>>)
  BY DrainNil DEF Unterminated
<1>2. <<>> \in P
  BY <1>1, DrainNil, EmptySeq
<1>3. ASSUME NEW b \in P, NEW x \in Text PROVE Append(b, x) \in P
  <2> DEFINE p == Drain(q, b)
             l == Append(p.line, x)
  <2>1. p \in Progress /\ p.line \in Seq(Text) /\ Unterminated(p.line)
    BY DrainType DEF Progress, Line
  <2>2. Drain(q, Append(b, x)) = Take(p, x)
    BY DrainSnoc
  <2> HIDE DEF p
  <2>3. CASE Ends(l)
    <3>1. Take(p, x).line = <<>>
      BY <2>3 DEF Take
    <3> QED BY <1>1, <2>2, <3>1, AppendProperties
  <2>4. CASE ~Ends(l)
    <3>1. Take(p, x).line = l
      BY <2>4 DEF Take
    <3>2. ASSUME NEW r PROVE Drain(r, l) = [queue |-> r, line |-> l]
      <4>1. Drain(r, l) = Take(Drain(r, p.line), x)
        BY <2>1, DrainSnoc
      <4>2. Drain(r, p.line) = [queue |-> r, line |-> p.line]
        BY <2>1 DEF Unterminated
      <4>3. Take([queue |-> r, line |-> p.line], x) = [queue |-> r, line |-> l]
        BY <2>4 DEF Take
      <4> QED BY <4>1, <4>2, <4>3
    <3>3. Unterminated(l)
      BY <3>2 DEF Unterminated
    <3> QED BY <2>2, <3>1, <3>3, AppendProperties
  <2> QED BY <2>3, <2>4
<1>4. P \in SUBSET Seq(Text)
  OBVIOUS
<1> HIDE DEF P
<1>5. \A b \in Seq(Text) : b \in P
  BY <1>2, <1>3, <1>4, AllSeq
<1> QED BY <1>5 DEF P

(* What has been made of the input so far does not depend on when it was   *)
(* looked at: reading on from there is reading all of it at once.          *)
LEMMA DrainOn ==
  ASSUME NEW q \in Seq(Request), NEW b \in Seq(Text)
  PROVE  \A c \in Seq(Text) :
           Drain(q, b \o c) = Drain(Drain(q, b).queue, Drain(q, b).line \o c)
<1> DEFINE p == Drain(q, b)
           P == {c \in Seq(Text) : Drain(q, b \o c) = Drain(p.queue, p.line \o c)}
<1>1. p \in Progress /\ p.line \in Seq(Text) /\ Unterminated(p.line)
  BY DrainType, DrainLeaves DEF Progress, Line
<1>2. <<>> \in P
  <2>1. b \o <<>> = b /\ p.line \o <<>> = p.line /\ <<>> \in Seq(Text)
    BY <1>1, ConcatEmptySeq, EmptySeq
  <2>2. Drain(p.queue, p.line) = p
    BY <1>1 DEF Unterminated, Progress
  <2> HIDE DEF p
  <2>3. Drain(q, b) = p
    BY DEF p
  <2> QED BY <2>1, <2>2, <2>3
<1>3. ASSUME NEW c \in P, NEW x \in Text PROVE Append(c, x) \in P
  <2>1. c \in Seq(Text) /\ Append(c, x) \in Seq(Text)
    BY AppendProperties
  <2> HIDE DEF p
  <2>3. Drain(q, b \o Append(c, x)) = Take(Drain(q, b \o c), x)
    BY <2>1, DrainCatSnoc
  <2>4. Drain(p.queue, p.line \o Append(c, x)) = Take(Drain(p.queue, p.line \o c), x)
    BY <1>1, <2>1, DrainCatSnoc
  <2>5. Drain(q, b \o c) = Drain(p.queue, p.line \o c)
    OBVIOUS
  <2> QED BY <2>1, <2>3, <2>4, <2>5
<1>4. P \in SUBSET Seq(Text)
  OBVIOUS
<1> HIDE DEF P
<1>5. \A c \in Seq(Text) : c \in P
  BY <1>2, <1>3, <1>4, AllSeq
<1> QED BY <1>5 DEF P

(* The requests taken up are out of the way of those being read.           *)
LEMMA DrainBehind ==
  ASSUME NEW u \in Seq(Request), NEW q \in Seq(Request), u # <<>> => Last(u).complete
  PROVE  \A b \in Seq(Text) :
           Drain(u \o q, b) = [queue |-> u \o Drain(q, b).queue, line |-> Drain(q, b).line]
<1> DEFINE Behind(p) == [queue |-> u \o p.queue, line |-> p.line]
           P == {b \in Seq(Text) : Drain(u \o q, b) = Behind(Drain(q, b))}
<1>1. <<>> \in P
  <2>1. Drain(u \o q, <<>>) = [queue |-> u \o q, line |-> <<>>]
    BY DrainNil
  <2>2. Drain(q, <<>>) = [queue |-> q, line |-> <<>>]
    BY DrainNil
  <2>3. <<>> \in Seq(Text)
    BY EmptySeq
  <2> QED BY <2>1, <2>2, <2>3
<1>2. ASSUME NEW b \in P, NEW x \in Text PROVE Append(b, x) \in P
  <2>1. ASSUME NEW p \in Progress PROVE Take(Behind(p), x) = Behind(Take(p, x))
    <3>1. p.queue \in Seq(Request) /\ Append(p.line, x) \in Line
      BY AppendProperties DEF Progress, Line
    <3>2. AddLine(u \o p.queue, Append(p.line, x)) = u \o AddLine(p.queue, Append(p.line, x))
      BY <3>1, AddLineBehind
    <3> QED BY <3>2 DEF Take
  <2>2. Drain(q, Append(b, x)) = Take(Drain(q, b), x)
    BY DrainSnoc
  <2>3. Drain(u \o q, Append(b, x)) = Take(Behind(Drain(q, b)), x)
    BY DrainSnoc
  <2>4. Drain(q, b) \in Progress
    BY DrainType
  <2> HIDE DEF Behind
  <2>5. Drain(u \o q, Append(b, x)) = Behind(Drain(q, Append(b, x)))
    BY <2>1, <2>2, <2>3, <2>4
  <2> QED BY <2>5, AppendProperties
<1>3. P \in SUBSET Seq(Text)
  OBVIOUS
<1> HIDE DEF P
<1>4. \A b \in Seq(Text) : b \in P
  BY <1>1, <1>2, <1>3, AllSeq
<1> QED BY <1>4 DEF P

LEMMA DrainShort ==
  ASSUME NEW q \in Seq(Request)
  PROVE  \A b \in Seq(Text) : Len(Drain(q, b).line) <= Len(b)
<1> DEFINE P == {b \in Seq(Text) : Len(Drain(q, b).line) <= Len(b)}
<1>1. <<>> \in P
  BY DrainNil, EmptySeq
<1>2. ASSUME NEW b \in P, NEW x \in Text PROVE Append(b, x) \in P
  <2>1. Drain(q, b) \in Progress /\ Drain(q, Append(b, x)) = Take(Drain(q, b), x)
    BY DrainType, DrainSnoc
  <2>2. ASSUME NEW p \in Progress
        PROVE  Len(Take(p, x).line) <= Len(p.line) + 1 /\ Len(p.line) \in Nat
               /\ Len(Take(p, x).line) \in Nat
    <3>1. p.line \in Seq(Text) /\ Len(p.line) \in Nat /\ Len(Append(p.line, x)) = Len(p.line) + 1
      BY AppendProperties, LenProperties DEF Progress, Line
    <3>2. Take(p, x).line = Append(p.line, x) \/ Take(p, x).line = <<>>
      BY DEF Take
    <3> QED BY <3>1, <3>2, EmptySeq
  <2>3. Append(b, x) \in Seq(Text) /\ Len(Append(b, x)) = Len(b) + 1 /\ Len(b) \in Nat
    BY AppendProperties, LenProperties
  <2>4. Len(Drain(q, b).line) <= Len(b)
    OBVIOUS
  <2>5. Len(Drain(q, Append(b, x)).line) <= Len(Append(b, x))
    BY <2>1, <2>2, <2>3, <2>4
  <2> QED BY <2>3, <2>5
<1>3. P \in SUBSET Seq(Text)
  OBVIOUS
<1> HIDE DEF P
<1>4. \A b \in Seq(Text) : b \in P
  BY <1>1, <1>2, <1>3, AllSeq
<1> QED BY <1>4 DEF P
-----------------------------------------------------------------------------
(* A queue with requests that can be answered, and perhaps one being made. *)
Orderly(q) == \A i \in 1 .. Len(q) - 1 : q[i].complete

(* b is a, or a and something more. *)
Continues(a, b) == \E s \in Seq(Request) : b = a \o s

LEMMA ContinuesSame ==
  ASSUME NEW a \in Seq(Request)
  PROVE  Continues(a, a)
<1>1. a = a \o <<>> /\ <<>> \in Seq(Request)
  BY ConcatEmptySeq, EmptySeq
<1> QED BY <1>1 DEF Continues

LEMMA RequestsAssociate ==
  \A s, t, u \in Seq(Request) : Cat(Cat(s, t), u) = Cat(s, Cat(t, u))
BY CatAssociates

LEMMA ContinuesOn ==
  ASSUME NEW a \in Seq(Request), NEW b \in Seq(Request), NEW c \in Seq(Request),
         Continues(a, b), Continues(b, c)
  PROVE  Continues(a, c)
<1>1. PICK s \in Seq(Request) : b = a \o s
  BY DEF Continues
<1>2. PICK t \in Seq(Request) : c = b \o t
  BY DEF Continues
<1>3. s \o t \in Seq(Request)
  BY ONLY s \in Seq(Request), t \in Seq(Request), ConcatProperties
<1>4. (a \o s) \o t = a \o (s \o t)
  <2>1. Cat(Cat(a, s), t) = Cat(a, Cat(s, t))
    BY RequestsAssociate
  <2> QED BY ONLY <2>1 DEF Cat
<1> QED BY <1>1, <1>2, <1>3, <1>4 DEF Continues

LEMMA ContinuesBehind ==
  ASSUME NEW u \in Seq(Request), NEW a \in Seq(Request), NEW b \in Seq(Request), Continues(a, b)
  PROVE  Continues(u \o a, u \o b)
<1>1. PICK s \in Seq(Request) : b = a \o s
  BY DEF Continues
<1>2. u \o (a \o s) = (u \o a) \o s
  <2>1. Cat(Cat(u, a), s) = Cat(u, Cat(a, s))
    BY RequestsAssociate
  <2> QED BY ONLY <2>1 DEF Cat
<1> QED BY <1>1, <1>2 DEF Continues

LEMMA ContinuesPrefix ==
  ASSUME NEW a \in Seq(Request), NEW b \in Seq(Request), Continues(a, b)
  PROVE  IsPrefix(a, b)
<1>1. PICK s \in Seq(Request) : b = a \o s
  BY DEF Continues
<1> DEFINE m == Len(a)
           n == Len(s)
<1>2. /\ m \in Nat /\ n \in Nat /\ Len(b) = m + n
      /\ \A i \in 1 .. m : b[i] = a[i]
  BY <1>1, CatIs, LenProperties
<1>3. SubSeq(a, 1, m) = a
  BY SubSeqFull
<1>4. SubSeq(b, 1, m) = a
  <2>1. /\ SubSeq(b, 1, m) \in Seq(Request) /\ Len(SubSeq(b, 1, m)) = m
        /\ \A i \in 1 .. m : SubSeq(b, 1, m)[i] = b[i]
    <3>1. \A i \in 1 .. m : b[i] \in Request
      BY <1>2, ElementOfSeq
    <3>2. 1 \in Int /\ m \in Int /\ (IF 1 <= m THEN m - 1 + 1 ELSE 0) = m
      BY <1>2
    <3>3. \A i \in 1 .. m - 1 + 1 : SubSeq(b, 1, m)[i] = b[1 + i - 1]
      BY <3>1, <3>2, SubSeqProperties
    <3>4. SubSeq(b, 1, m) \in Seq(Request) /\ Len(SubSeq(b, 1, m)) = m
      BY <3>1, <3>2, SubSeqProperties
    <3>5. \A i \in 1 .. m : i \in 1 .. m - 1 + 1 /\ 1 + i - 1 = i
      BY <1>2
    <3> QED BY <3>3, <3>4, <3>5
  <2> QED BY <1>2, <2>1, SeqEqual
<1> QED BY <1>2, <1>3, <1>4 DEF IsPrefix

(* A line goes into a request behind the others, a new one or the one      *)
(* which has no end yet.                                                   *)
LEMMA AddLineIs ==
  ASSUME NEW q \in Seq(Request), NEW line \in Line
  PROVE  \E f \in Seq(Request), r \in Request :
           /\ AddLine(q, line) = Append(f, r)
           /\ \/ q = f /\ (q # <<>> => Last(q).complete)
              \/ \E o \in Request : q = Append(f, o) /\ ~o.complete
<1>1. FirstLine(line) \in Request /\ \A r \in Request : HeaderLine(r, line) \in Request
  <2>1. IsBlank(line) \in BOOLEAN
    BY DEF IsBlank
  <2> QED BY <2>1 DEF FirstLine, HeaderLine, Request
<1>2. CASE q = <<>> \/ Last(q).complete
  <2>1. AddLine(q, line) = Append(q, FirstLine(line))
    BY <1>2 DEF AddLine
  <2> QED BY <1>1, <1>2, <2>1
<1>3. CASE ~(q = <<>> \/ Last(q).complete)
  <2> DEFINE n == Len(q)
             f == SubSeq(q, 1, n - 1)
             o == q[n]
             r == HeaderLine(o, line)
             z == [q EXCEPT ![n] = r]
  <2>1. n \in Nat /\ n >= 1 /\ n \in 1 .. n /\ o \in Request /\ ~o.complete
    BY <1>3, LenProperties, EmptySeq, ElementOfSeq DEF Last
  <2>2. r \in Request
    BY <1>1, <2>1
  <2>3. AddLine(q, line) = z
    BY <1>3 DEF AddLine
  <2>4. /\ f \in Seq(Request) /\ Len(f) = n - 1
        /\ \A i \in 1 .. n - 1 : f[i] = q[i]
    <3>1. \A i \in 1 .. n - 1 : q[i] \in Request
      BY <2>1, ElementOfSeq
    <3>2. 1 \in Int /\ n - 1 \in Int /\ (IF 1 <= n - 1 THEN (n - 1) - 1 + 1 ELSE 0) = n - 1
      <4> HIDE DEF n, f, o, r, z
      <4> QED BY <2>1
    <3>3. \A i \in 1 .. (n - 1) - 1 + 1 : f[i] = q[1 + i - 1]
      BY <3>1, <3>2, SubSeqProperties
    <3>4. f \in Seq(Request) /\ Len(f) = n - 1
      BY <3>1, <3>2, SubSeqProperties
    <3>5. \A i \in 1 .. n - 1 : i \in 1 .. (n - 1) - 1 + 1 /\ 1 + i - 1 = i
      BY <2>1
    <3> QED BY <3>3, <3>4, <3>5
  <2> HIDE DEF f, r
  <2>5. z \in Seq(Request) /\ Len(z) = n /\ \A j \in 1 .. n : z[j] = IF j = n THEN r ELSE q[j]
    BY <2>1, <2>2, ExceptSeq
  <2> HIDE DEF z, n, o
  <2>6. ASSUME NEW x \in Request, NEW s \in Seq(Request), Len(s) = n, s[n] = x,
               \A j \in 1 .. n - 1 : s[j] = q[j]
        PROVE  s = Append(f, x)
    <3>1. /\ Append(f, x) \in Seq(Request) /\ Len(Append(f, x)) = n
          /\ Append(f, x)[n] = x /\ \A j \in 1 .. n - 1 : Append(f, x)[j] = f[j]
      BY <2>1, <2>4, AppendProperties
    <3>2. \A j \in 1 .. n : s[j] = Append(f, x)[j]
      <4>1. \A j \in 1 .. n : j = n \/ j \in 1 .. n - 1
        BY <2>1
      <4> QED BY <2>4, <2>6, <3>1, <4>1
    <3> QED BY <2>6, <3>1, <3>2, SeqEqual
  <2>7. z = Append(f, r)
    <3>1. z[n] = r /\ \A j \in 1 .. n - 1 : z[j] = q[j]
      BY <2>1, <2>5
    <3> QED BY <2>2, <2>5, <2>6, <3>1
  <2>8. q = Append(f, o)
    <3>1. Len(q) = n /\ q[n] = o
      BY DEF n, o
    <3> QED BY <2>1, <2>6, <3>1
  <2> QED BY <2>1, <2>2, <2>3, <2>4, <2>7, <2>8
<1> QED BY <1>2, <1>3

LEMMA AddLineContinues ==
  ASSUME NEW q \in Seq(Request), NEW line \in Line
  PROVE  /\ Continues(Only(q, Complete), Only(AddLine(q, line), Complete))
         /\ Orderly(q) => Orderly(AddLine(q, line))
<1>1. PICK f \in Seq(Request), r \in Request :
           /\ AddLine(q, line) = Append(f, r)
           /\ \/ q = f /\ (q # <<>> => Last(q).complete)
              \/ \E o \in Request : q = Append(f, o) /\ ~o.complete
  BY AddLineIs
<1> DEFINE n == Len(f)
<1>2. /\ n \in Nat /\ Len(Append(f, r)) = n + 1
      /\ \A i \in 1 .. n : Append(f, r)[i] = f[i]
  BY AppendProperties
<1>3. Only(q, Complete) = Only(f, Complete)
  <2>1. ASSUME NEW o \in Request, q = Append(f, o), ~o.complete
        PROVE  Only(q, Complete) = Only(f, Complete)
    BY <2>1, OnlySnoc DEF Complete
  <2> QED BY <1>1, <2>1
<1>4. Continues(Only(f, Complete), Only(Append(f, r), Complete))
  <2> DEFINE a == Only(f, Complete)
             b == Only(Append(f, r), Complete)
  <2>1. a \in Seq(Request)
    BY OnlyType
  <2>2. b = IF r \in Complete THEN Append(a, r) ELSE a
    BY OnlySnoc
  <2> HIDE DEF a, b
  <2>3. b = a => Continues(a, b)
    BY <2>1, ContinuesSame
  <2>4. ASSUME b = Append(a, r) PROVE Continues(a, b)
    <3>1. b = a \o <<r>> /\ <<r>> \in Seq(Request)
      BY <2>1, <2>4, AppendIsConcat
    <3> QED BY <3>1 DEF Continues
  <2>5. Continues(a, b)
    BY <2>2, <2>3, <2>4
  <2> QED BY <2>5 DEF a, b
<1>5. ASSUME Orderly(q) PROVE Orderly(Append(f, r))
  <2>1. ASSUME NEW i \in 1 .. n PROVE f[i].complete
    <3>1. CASE q = f /\ (q # <<>> => Last(q).complete)
      <4>1. q # <<>>
        BY <1>2, <3>1, EmptySeq
      <4>2. i = n \/ i \in 1 .. Len(q) - 1
        BY <1>2, <3>1
      <4> QED BY <1>5, <3>1, <4>1, <4>2 DEF Orderly, Last
    <3>2. ASSUME NEW o \in Request, q = Append(f, o)
          PROVE  f[i].complete
      <4>1. Len(q) = n + 1 /\ q[i] = f[i]
        BY <3>2, AppendProperties
      <4>2. i \in 1 .. Len(q) - 1
        BY <1>2, <4>1
      <4> QED BY <1>5, <4>1, <4>2 DEF Orderly
    <3> QED BY <1>1, <3>1, <3>2
  <2>2. \A i \in 1 .. Len(Append(f, r)) - 1 : i \in 1 .. n
    BY <1>2
  <2> QED BY <1>2, <2>1, <2>2 DEF Orderly
<1> QED BY <1>1, <1>3, <1>4, <1>5

(* Reading makes requests of what comes, behind those there are: none that *)
(* can be answered goes away or changes.                                   *)
LEMMA DrainContinues ==
  ASSUME NEW q \in Seq(Request)
  PROVE  \A b \in Seq(Text) :
           /\ Continues(Only(q, Complete), Only(Drain(q, b).queue, Complete))
           /\ Orderly(q) => Orderly(Drain(q, b).queue)
<1> DEFINE Keeps(p) == /\ Continues(Only(q, Complete), Only(p.queue, Complete))
                       /\ Orderly(q) => Orderly(p.queue)
           P == {b \in Seq(Text) : Keeps(Drain(q, b))}
<1>1. <<>> \in P
  <2>1. Only(q, Complete) \in Seq(Request)
    BY OnlyType
  <2>2. Continues(Only(q, Complete), Only(q, Complete))
    BY <2>1, ContinuesSame
  <2>3. Drain(q, <<>>).queue = q
    BY DrainNil
  <2> QED BY <2>2, <2>3, EmptySeq
<1>2. ASSUME NEW b \in P, NEW x \in Text PROVE Append(b, x) \in P
  <2>1. ASSUME NEW p \in Progress, Keeps(p) PROVE Keeps(Take(p, x))
    <3> DEFINE line == Append(p.line, x)
    <3>1. p.queue \in Seq(Request) /\ line \in Line
      BY AppendProperties DEF Progress, Line
    <3>2. CASE ~Ends(line)
      BY <2>1, <3>2 DEF Take
    <3>3. CASE Ends(line)
      <4> DEFINE n == AddLine(p.queue, line)
      <4>1. Take(p, x).queue = n
        BY <3>3 DEF Take
      <4> HIDE DEF line
      <4>2. /\ Continues(Only(p.queue, Complete), Only(n, Complete))
            /\ Orderly(p.queue) => Orderly(n)
        BY <3>1, AddLineContinues
      <4>3. n \in Seq(Request)
        BY <3>1, AddLineType
      <4> HIDE DEF n
      <4>4. /\ Only(q, Complete) \in Seq(Request) /\ Only(p.queue, Complete) \in Seq(Request)
            /\ Only(n, Complete) \in Seq(Request)
        BY <3>1, <4>3, OnlyType
      <4>5. Continues(Only(q, Complete), Only(n, Complete))
        BY <2>1, <4>2, <4>4, ContinuesOn
      <4> QED BY <2>1, <4>1, <4>2, <4>5
    <3> QED BY <3>2, <3>3
  <2>2. Drain(q, b) \in Progress /\ Keeps(Drain(q, b))
    BY DrainType
  <2>3. Drain(q, Append(b, x)) = Take(Drain(q, b), x)
    BY DrainSnoc
  <2> HIDE DEF Keeps
  <2>4. Keeps(Drain(q, Append(b, x)))
    BY <2>1, <2>2, <2>3
  <2> QED BY <2>4, AppendProperties
<1>3. P \in SUBSET Seq(Text)
  OBVIOUS
<1> HIDE DEF P
<1>4. \A b \in Seq(Text) : b \in P
  BY <1>1, <1>2, <1>3, AllSeq
<1> QED BY <1>4 DEF P
-----------------------------------------------------------------------------
(* What the response in progress has read of its file. *)
FilesRead ==
  response # NoResponse =>
    /\ response.pos <= FileSize(response.line)
    /\ response.alive \/ response.err \/ response.pos = FileSize(response.line)
-----------------------------------------------------------------------------
LEMMA WordIsText ==
  ASSUME NEW line \in Line, ~IsBlank(line)
  PROVE  Word(line) \in Text
<1> DEFINE S == {i \in DOMAIN line : line[i] \notin Blank}
<1>1. DOMAIN line = 1 .. Len(line) /\ Len(line) \in Nat
  BY LenProperties DEF Line
<1>2. S # {} /\ S \in SUBSET Nat
  BY <1>1 DEF IsBlank
<1>3. PICK i \in S : \A j \in S : i <= j
  <2> HIDE DEF S
  <2> QED BY <1>2, LeastNat
<1>4. i \in DOMAIN line /\ line[i] \notin Blank /\ \A j \in 1 .. i - 1 : line[j] \in Blank
  BY <1>1, <1>3
<1> DEFINE c == CHOOSE c \in DOMAIN line : line[c] \notin Blank /\ \A j \in 1 .. c - 1 : line[j] \in Blank
<1>5. c \in DOMAIN line
  BY <1>4
<1>6. Word(line) = line[c]
  BY DEF Word
<1> HIDE DEF c
<1> QED BY <1>1, <1>5, <1>6, ElementOfSeq DEF Line

LEMMA FileSizeIsNat ==
  ASSUME NEW line \in Line
  PROVE  FileSize(line) \in Nat /\ (FileSize(line) # 0 => ~IsBlank(line))
BY WordIsText, SessionAssumption DEF FileSize

(* The octets of a file: from one place to the next they add up. *)
LEMMA OctetsType ==
  ASSUME NEW line \in Line, NEW from \in Nat, NEW to \in from .. FileSize(line)
  PROVE  /\ Octets(line, from, to) \in Seq(Octet)
         /\ Len(Octets(line, from, to)) = to - from
         /\ \A k \in 1 .. to - from : Octets(line, from, to)[k] = <<Word(line), from + k>>
<1>1. FileSize(line) \in Nat /\ to - from \in Nat
  BY FileSizeIsNat
<1>2. ASSUME NEW k \in 1 .. to - from PROVE <<Word(line), from + k>> \in Octet
  <2>1. Word(line) \in Text
    BY <1>1, FileSizeIsNat, WordIsText
  <2>2. from + k \in Nat \ {0}
    BY <1>1
  <2> QED BY <2>1, <2>2 DEF Octet
<1>3. Octets(line, from, to) \in [1 .. to - from -> Octet]
  BY <1>2 DEF Octets
<1> QED BY <1>1, <1>3 DEF Octets

LEMMA OctetsNone ==
  ASSUME NEW line \in Line
  PROVE  Octets(line, 0, 0) = <<>>
<1>1. 0 \in Nat /\ 0 \in 0 .. FileSize(line) /\ 0 - 0 = 0
  BY FileSizeIsNat
<1>2. Octets(line, 0, 0) \in Seq(Octet) /\ Len(Octets(line, 0, 0)) = 0
  BY <1>1, OctetsType
<1> QED BY <1>2, EmptySeq

LEMMA OctetsAdd ==
  ASSUME NEW line \in Line, NEW a \in Nat, NEW c \in a .. FileSize(line), NEW b \in a .. c
  PROVE  Octets(line, a, b) \o Octets(line, b, c) = Octets(line, a, c)
<1> DEFINE x == Octets(line, a, b)
           y == Octets(line, b, c)
           z == Octets(line, a, c)
<1>1. a \in Nat /\ b \in Nat /\ c \in Nat /\ a <= b /\ b <= c /\ c <= FileSize(line)
      /\ FileSize(line) \in Nat
      /\ b \in a .. FileSize(line) /\ c \in b .. FileSize(line) /\ c \in a .. FileSize(line)
  BY FileSizeIsNat
<1>2. x \in Seq(Octet) /\ Len(x) = b - a /\ \A k \in 1 .. b - a : x[k] = <<Word(line), a + k>>
  BY <1>1, OctetsType
<1>3. y \in Seq(Octet) /\ Len(y) = c - b /\ \A k \in 1 .. c - b : y[k] = <<Word(line), b + k>>
  BY <1>1, OctetsType
<1>4. z \in Seq(Octet) /\ Len(z) = c - a /\ \A k \in 1 .. c - a : z[k] = <<Word(line), a + k>>
  BY <1>1, OctetsType
<1> HIDE DEF x, y, z
<1>5. /\ x \o y \in Seq(Octet) /\ Len(x \o y) = c - a
      /\ \A k \in 1 .. c - a : (x \o y)[k] = IF k <= b - a THEN x[k] ELSE y[k - (b - a)]
  <2>1. /\ x \o y \in Seq(Octet) /\ Len(x \o y) = Len(x) + Len(y)
        /\ \A k \in 1 .. Len(x) + Len(y) : (x \o y)[k] = IF k <= Len(x) THEN x[k] ELSE y[k - Len(x)]
    BY <1>2, <1>3, ConcatProperties
  <2>2. Len(x) + Len(y) = c - a
    BY <1>1, <1>2, <1>3
  <2> QED BY <1>2, <2>1, <2>2
<1>6. ASSUME NEW k \in 1 .. c - a PROVE (x \o y)[k] = z[k]
  <2>1. CASE k <= b - a
    <3>1. k \in 1 .. b - a
      BY <1>1, <2>1
    <3> QED BY <1>2, <1>4, <1>5, <2>1, <3>1
  <2>2. CASE k > b - a
    <3>1. k - (b - a) \in 1 .. c - b /\ b + (k - (b - a)) = a + k /\ ~(k <= b - a)
      BY <1>1, <2>2
    <3>2. y[k - (b - a)] = <<Word(line), a + k>>
      BY <1>3, <3>1
    <3> QED BY <1>4, <1>5, <3>1, <3>2
  <2>3. k <= b - a \/ k > b - a
    BY <1>1
  <2> QED BY <2>1, <2>2, <2>3
<1>7. x \o y = z
  BY <1>4, <1>5, <1>6, SeqEqual
<1> QED BY <1>7 DEF x, y, z
-----------------------------------------------------------------------------
(* A request taken up. *)
LEMMA Begun ==
  ASSUME NEW q \in Seq(Request), q # <<>>, NEW m \in Nat, popped \in Seq(Request), Begin(q, m)
  PROVE  /\ response' \in Response /\ response' # NoResponse
         /\ response'.pos = 0 /\ response'.alive /\ response'.backlog = <<>> /\ ~response'.err
         /\ response'.line = Head(q).line
         /\ e' = m + 1 /\ state' = "WRITING"
         /\ queue' \in Seq(Request) /\ popped' \in Seq(Request) /\ popped' # <<>>
         /\ Last(popped') = Head(q) /\ Len(popped') = Len(popped) + 1
         /\ popped' \o queue' = popped \o q
<1>1. Head(q) \in Request /\ Tail(q) \in Seq(Request)
  BY HeadTailProperties
<1>2. NewResponse(Head(q)) \in Response
  BY <1>1, EmptySeq DEF NewResponse, Response, Request, Line
<1>3. /\ response' = NewResponse(Head(q)) /\ e' = m + 1 /\ state' = "WRITING"
      /\ popped' = Append(popped, Head(q)) /\ queue' = Tail(q)
  BY DEF Begin
<1>4. /\ popped' \in Seq(Request) /\ popped' # <<>> /\ Len(popped') = Len(popped) + 1
      /\ popped'[Len(popped) + 1] = Head(q)
  BY <1>1, <1>3, AppendProperties
<1>5. <<Head(q)>> \in Seq(Request) /\ q = <<Head(q)>> \o Tail(q)
  <2>1. <<Head(q)>> \in Seq(Request)
    BY <1>1
  <2>2. q = <<Head(q)>> \o Tail(q)
    BY <1>1
  <2> QED BY <2>1, <2>2
<1>6. popped' \o queue' = popped \o q
  <2>1. popped' = popped \o <<Head(q)>>
    BY <1>1, <1>3, AppendIsConcat
  <2>2. (popped \o <<Head(q)>>) \o Tail(q) = popped \o (<<Head(q)>> \o Tail(q))
    BY <1>1, <1>5, ConcatAssociative
  <2> QED BY <1>3, <1>5, <2>1, <2>2
<1>7. Last(popped') = Head(q)
  BY <1>4 DEF Last
<1> QED BY <1>1, <1>2, <1>3, <1>4, <1>6, <1>7, SessionAssumption DEF NewResponse

(* What read() does, one thing at a time.  b is what it has to look at, p  *)
(* what it makes of that, q the queue before a request is taken up.        *)
ReadFacts(n, end, b, p, q) ==
  /\ n \in Nat /\ got + n <= Len(stream) /\ (~end => n <= Capacity - Len(buf)) /\ (end => n = 0)
  /\ b = buf \o SubSeq(stream, got + 1, got + n)
  /\ SubSeq(stream, got + 1, got + n) \in Seq(Text)
  /\ b \in Seq(Text) /\ Len(b) = Len(buf) + n
  /\ p = Drain(queue, b)
  /\ q = IF (eof \/ end) /\ p.line # <<>> THEN AddLine(p.queue, p.line) ELSE p.queue
  /\ got' = got + n
  /\ buf' = IF (eof \/ end) /\ p.line # <<>> THEN <<>> ELSE p.line
  /\ eof' = (eof \/ end \/ Len(p.line) = Capacity)
  /\ \/ /\ response = NoResponse /\ Answerable(q)
        /\ Begin(q, e)
     \/ /\ response # NoResponse \/ ~Answerable(q)
        /\ state' = CASE response # NoResponse -> "WRITING"
                        [] response = NoResponse /\ (IsBroken(q) \/ eof') -> "DIE"
                        [] OTHER -> "READING"
        /\ queue' = q
        /\ UNCHANGED <<response, e, popped>>
  /\ UNCHANGED <<stream, looping, wire, due>>

LEMMA ReadSteps ==
  ASSUME TypeOK, NEW n \in Nat, NEW end \in BOOLEAN, Feed(n, end), ReadOnce(n, end)
  PROVE  \E b \in Seq(Text), p \in Progress, q \in Seq(Request) : ReadFacts(n, end, b, p, q)
<1> DEFINE s == SubSeq(stream, got + 1, got + n)
           b == buf \o s
           p == Drain(queue, b)
           q == IF (eof \/ end) /\ p.line # <<>> THEN AddLine(p.queue, p.line) ELSE p.queue
<1>1. stream \in Seq(Text) /\ Len(stream) \in Nat /\ got \in 0 .. Len(stream)
  BY SessionAssumption, LenProperties DEF TypeOK
<1>2. got + n <= Len(stream) /\ (~end => n <= Capacity - Len(buf)) /\ (end => n = 0)
  BY <1>1 DEF Feed
<1>3. s \in Seq(Text) /\ Len(s) = n
  <2>1. \A i \in got + 1 .. got + n : stream[i] \in Text
    BY <1>1, <1>2, ElementOfSeq
  <2>2. got + 1 \in Int /\ got + n \in Int
    BY <1>1
  <2>3. s \in Seq(Text) /\ Len(s) = IF got + 1 <= got + n THEN (got + n) - (got + 1) + 1 ELSE 0
    BY <2>1, <2>2, SubSeqProperties
  <2> QED BY <1>1, <2>3
<1>4. buf \in Seq(Text)
  BY DEF TypeOK, Line
<1>5. b \in Seq(Text) /\ Len(b) = Len(buf) + n
  BY <1>3, <1>4, ConcatProperties
<1>6. p \in Progress
  <2> HIDE DEF b
  <2> QED BY <1>5, DrainType DEF TypeOK
<1>7. q \in Seq(Request)
  <2> HIDE DEF p
  <2> QED BY <1>6, AddLineType DEF Progress
<1>8. ReadFacts(n, end, b, p, q)
  BY <1>2, <1>3, <1>5 DEF ReadOnce, ReadFacts
<1> HIDE DEF b, p, q
<1> QED BY <1>5, <1>6, <1>7, <1>8

LEMMA PendingType ==
  ASSUME TypeOK, FilesRead, response # NoResponse, NEW err \in BOOLEAN
  PROVE  /\ Wanted(err) \in Nat /\ response.pos + Wanted(err) <= FileSize(response.line)
         /\ Wanted(err) = 0 => err \/ ~response.alive \/ response.pos = FileSize(response.line)
         /\ Pending(Wanted(err)) \in Seq(Octet)
<1> DEFINE k == Wanted(err)
           line == response.line
           pos == response.pos
<1>1. /\ response \in Response /\ line \in Line /\ pos \in Nat /\ FileSize(line) \in Nat
      /\ pos <= FileSize(line) /\ response.backlog \in Seq(Octet)
  BY FileSizeIsNat DEF TypeOK, FilesRead, Response
<1>2. /\ k \in Nat /\ pos + k <= FileSize(line)
      /\ k = 0 => err \/ ~response.alive \/ pos = FileSize(line)
  BY <1>1, SessionAssumption DEF Wanted
<1>3. Pending(k) \in Seq(Octet)
  <2>1. pos + k \in pos .. FileSize(line)
    BY <1>1, <1>2
  <2> HIDE DEF k
  <2>2. Octets(line, pos, pos + k) \in Seq(Octet)
    BY <1>1, <2>1, OctetsType
  <2> QED BY <1>1, <2>2, ConcatProperties DEF Pending
<1> QED BY <1>2, <1>3

(* What a turn of the loop of write() does, k octets being read and rest   *)
(* being left.                                                             *)
WriteFacts(err, k, rest) ==
  /\ k \in Nat /\ response.pos + k <= FileSize(response.line)
  /\ k = 0 => err \/ ~response.alive \/ response.pos = FileSize(response.line)
  /\ rest \in Seq(Octet) /\ wire' \in Seq(Octet)
  /\ wire' \o rest = wire \o Pending(k)
  /\ \/ /\ ~IsDone(k, rest)
        /\ response' = Advanced(k, err, rest)
        /\ looping' = (rest = <<>>)
        /\ UNCHANGED <<queue, state, e, popped, due>>
     \/ /\ IsDone(k, rest)
        /\ due' = due \o Octets(response.line, 0,
             IF err \/ response.err THEN response.pos ELSE FileSize(response.line))
        /\ \/ /\ IsComplete(queue)
              /\ Begin(queue, e + 1)
              /\ looping' = TRUE
           \/ /\ ~IsComplete(queue)
              /\ response' = NoResponse
              /\ state' = AfterResponses
              /\ e' = e + 1
              /\ looping' = FALSE
              /\ UNCHANGED <<queue, popped>>
  /\ UNCHANGED input

LEMMA WriteSteps ==
  ASSUME TypeOK, FilesRead, response # NoResponse,
         NEW err \in BOOLEAN, NEW w \in Nat, WriteOnce(err, w)
  PROVE  /\ \E k \in Nat, rest \in Seq(Octet) : WriteFacts(err, k, rest)
         /\ Len(wire') = Len(wire) + w
<1> DEFINE k == Wanted(err)
           pending == Pending(k)
           rest == SubSeq(pending, w + 1, Len(pending))
<1>2. /\ k \in Nat /\ response.pos + k <= FileSize(response.line)
      /\ k = 0 => err \/ ~response.alive \/ response.pos = FileSize(response.line)
  BY PendingType
<1>3. pending \in Seq(Octet)
  BY PendingType
<1>4. w <= Len(pending) /\ wire' = wire \o SubSeq(pending, 1, w)
  BY DEF WriteOnce
<1> HIDE DEF pending, k
<1>5. /\ SubSeq(pending, 1, w) \in Seq(Octet) /\ rest \in Seq(Octet)
      /\ SubSeq(pending, 1, w) \o rest = pending
  <2>1. Len(pending) \in Nat /\ w \in 0 .. Len(pending)
    BY <1>3, <1>4, LenProperties
  <2>2. \A i \in 1 .. Len(pending) : pending[i] \in Octet
    BY <1>3, ElementOfSeq
  <2>3. SubSeq(pending, 1, w) \in Seq(Octet) /\ rest \in Seq(Octet)
    BY <2>1, <2>2, SubSeqProperties
  <2>4. 1 \in 1 .. Len(pending) + 1 /\ w \in 1 - 1 .. Len(pending) /\ Len(pending) \in w .. Len(pending)
    BY <2>1
  <2>5. SubSeq(pending, 1, w) \o rest = SubSeq(pending, 1, Len(pending))
    BY <1>3, <2>4, ConcatAdjacentSubSeq
  <2> QED BY <1>3, <2>3, <2>5, SubSeqFull
<1> HIDE DEF rest
<1>6. wire \in Seq(Octet)
  BY DEF TypeOK
<1>7. wire' \in Seq(Octet) /\ wire' \o rest = wire \o pending
  <2> DEFINE x == SubSeq(pending, 1, w)
  <2>1. x \in Seq(Octet) /\ x \o rest = pending /\ wire' = wire \o x
    BY <1>4, <1>5
  <2> HIDE DEF x
  <2>2. (wire \o x) \o rest = wire \o (x \o rest)
    <3>1. wire \in Seq(Octet) /\ x \in Seq(Octet) /\ rest \in Seq(Octet)
      BY <1>5, <1>6, <2>1
    <3> QED BY <3>1, ConcatAssociative
  <2> QED BY <1>6, <2>1, <2>2, ConcatProperties
<1>8. WriteFacts(err, k, rest)
  BY <1>2, <1>5, <1>7 DEF WriteOnce, WriteFacts, k, pending, rest
<1>9. Len(wire') = Len(wire) + w
  <2> DEFINE x == SubSeq(pending, 1, w)
  <2>1. Len(pending) \in Nat /\ w \in 0 .. Len(pending)
    BY <1>3, <1>4, LenProperties
  <2>2. \A i \in 1 .. w : pending[i] \in Octet
    BY <1>3, <2>1, ElementOfSeq
  <2>3. Len(x) = w
    <3>1. Len(x) = IF 1 <= w THEN w - 1 + 1 ELSE 0
      BY <2>2, SubSeqProperties
    <3> QED BY <2>1, <3>1
  <2>4. x \in Seq(Octet) /\ wire' = wire \o x
    BY <1>4, <1>5
  <2> HIDE DEF x
  <2> QED BY <1>6, <2>3, <2>4, ConcatProperties
<1> QED BY <1>2, <1>5, <1>8, <1>9

LEMMA AdvancedType ==
  ASSUME response \in Response, NEW k \in Nat, NEW err \in BOOLEAN, NEW rest \in Seq(Octet)
  PROVE  /\ Advanced(k, err, rest) \in Response /\ Advanced(k, err, rest) # NoResponse
         /\ Advanced(k, err, rest).line = response.line
         /\ Advanced(k, err, rest).pos = response.pos + k
         /\ Advanced(k, err, rest).backlog = rest
         /\ Advanced(k, err, rest).alive = (response.alive /\ k > 0)
         /\ Advanced(k, err, rest).err = (response.err \/ err)
<1> DEFINE pos == response.pos + k
           alive == response.alive /\ k > 0
           failed == response.err \/ err
<1>1. pos \in Nat /\ alive \in BOOLEAN /\ failed \in BOOLEAN
  BY DEF Response
<1>2. Advanced(k, err, rest) =
        [response EXCEPT !.pos = pos, !.alive = alive, !.err = failed, !.backlog = rest]
  BY DEF Advanced
<1> HIDE DEF pos, alive, failed
<1>3. /\ Advanced(k, err, rest) \in Response /\ Advanced(k, err, rest).line = response.line
      /\ Advanced(k, err, rest).pos = pos /\ Advanced(k, err, rest).backlog = rest
      /\ Advanced(k, err, rest).alive = alive /\ Advanced(k, err, rest).err = failed
  BY <1>1, <1>2 DEF Response
<1> QED BY <1>3, SessionAssumption DEF pos, alive, failed
-----------------------------------------------------------------------------
(* Whoever calls it, a read() or a turn of write() keeps the types and the *)
(* bounds of the response's place in its file.                             *)
LEMMA ReadTyped ==
  ASSUME TypeOK, FilesRead, state \in {"READING", "WRITING"},
         NEW n \in Nat, NEW end \in BOOLEAN, Feed(n, end), ReadOnce(n, end)
  PROVE  TypeOK' /\ FilesRead'
<1>1. PICK b \in Seq(Text), p \in Progress, q \in Seq(Request) : ReadFacts(n, end, b, p, q)
  BY ReadSteps
<1>2. stream' \in Streams /\ got' \in 0 .. Len(stream') /\ Len(stream) \in Nat
  <2>1. Len(stream) \in Nat
    BY SessionAssumption, LenProperties DEF TypeOK
  <2> QED BY <1>1, <2>1 DEF ReadFacts, TypeOK
<1>3. buf' \in Line /\ eof' \in BOOLEAN
  <2>1. <<>> \in Line /\ p.line \in Line
    BY EmptySeq DEF Line, Progress
  <2> QED BY <1>1, <2>1 DEF ReadFacts, TypeOK
<1>4. looping' \in BOOLEAN /\ wire' \in Seq(Octet) /\ due' \in Seq(Octet)
  BY <1>1 DEF ReadFacts, TypeOK
<1>5. CASE Answerable(q) /\ Begin(q, e)
  <2>1. q # <<>>
    BY <1>5 DEF Answerable, IsComplete
  <2>2. /\ response' \in Response /\ response' # NoResponse
        /\ response'.pos = 0 /\ response'.alive /\ response'.line \in Line
        /\ e' = e + 1 /\ state' = "WRITING"
        /\ queue' \in Seq(Request) /\ popped' \in Seq(Request)
    BY <1>5, <2>1, Begun DEF TypeOK, Response
  <2>3. FileSize(response'.line) \in Nat
    BY <2>2, FileSizeIsNat
  <2> QED BY <1>2, <1>3, <1>4, <2>2, <2>3 DEF TypeOK, FilesRead
<1>6. CASE queue' = q /\ UNCHANGED <<response, e, popped>> /\ state' \in {"READING", "WRITING", "DIE"}
  BY <1>2, <1>3, <1>4, <1>6 DEF TypeOK, FilesRead
<1> QED BY <1>1, <1>5, <1>6 DEF ReadFacts

LEMMA WriteTyped ==
  ASSUME TypeOK, FilesRead, response # NoResponse, state \in {"READING", "WRITING"},
         NEW err \in BOOLEAN, NEW w \in Nat, WriteOnce(err, w)
  PROVE  TypeOK' /\ FilesRead'
<1>1. PICK k \in Nat, rest \in Seq(Octet) : WriteFacts(err, k, rest)
  BY WriteSteps
<1>2. /\ response \in Response /\ response.line \in Line /\ response.pos \in Nat
      /\ FileSize(response.line) \in Nat /\ response.pos <= FileSize(response.line)
      /\ response.alive \in BOOLEAN /\ response.err \in BOOLEAN
  BY FileSizeIsNat DEF TypeOK, FilesRead, Response
<1>3. stream' \in Streams /\ got' \in 0 .. Len(stream') /\ buf' \in Line /\ eof' \in BOOLEAN
      /\ wire' \in Seq(Octet)
  BY <1>1 DEF WriteFacts, TypeOK, input
<1>4. CASE ~IsDone(k, rest)
  <2>1. response' = Advanced(k, err, rest)
    BY <1>1, <1>4 DEF WriteFacts
  <2>2. response' \in Response
    BY <1>2, <2>1, AdvancedType
  <2>3. FilesRead'
    <3>1. /\ response'.line = response.line /\ response'.pos = response.pos + k
          /\ response'.alive = (response.alive /\ k > 0) /\ response'.err = (response.err \/ err)
      BY <1>2, <2>1, AdvancedType
    <3>2. response.pos + k <= FileSize(response.line)
          /\ (k = 0 => err \/ ~response.alive \/ response.pos = FileSize(response.line))
      BY <1>1 DEF WriteFacts
    <3>3. response.alive \/ response.err \/ response.pos = FileSize(response.line)
      BY DEF FilesRead
    <3> QED BY <1>2, <3>1, <3>2, <3>3 DEF FilesRead
  <2>4. queue' \in Seq(Request) /\ state' \in {"READING", "WRITING"} /\ e' \in Nat
        /\ popped' \in Seq(Request) /\ due' \in Seq(Octet) /\ looping' \in BOOLEAN
    BY <1>1, <1>4 DEF WriteFacts, TypeOK
  <2> QED BY <1>3, <2>2, <2>3, <2>4 DEF TypeOK
<1>5. CASE IsDone(k, rest)
  <2>1. due' \in Seq(Octet)
    <3> DEFINE to == IF err \/ response.err THEN response.pos ELSE FileSize(response.line)
    <3>1. 0 \in Nat /\ to \in 0 .. FileSize(response.line)
      BY <1>2
    <3>2. due' = due \o Octets(response.line, 0, to)
      BY <1>1, <1>5 DEF WriteFacts
    <3> HIDE DEF to
    <3>3. Octets(response.line, 0, to) \in Seq(Octet)
      BY <1>2, <3>1, OctetsType
    <3> QED BY <3>2, <3>3, ConcatProperties DEF TypeOK
  <2>2. CASE IsComplete(queue) /\ Begin(queue, e + 1) /\ looping' = TRUE
    <3>1. queue # <<>> /\ e + 1 \in Nat
      BY <2>2 DEF IsComplete, TypeOK
    <3>2. /\ response' \in Response /\ response' # NoResponse
          /\ response'.pos = 0 /\ response'.alive /\ response'.line \in Line
          /\ e' \in Nat /\ state' = "WRITING"
          /\ queue' \in Seq(Request) /\ popped' \in Seq(Request)
      <4>1. queue \in Seq(Request) /\ popped \in Seq(Request) /\ Begin(queue, e + 1)
        BY <2>2 DEF TypeOK
      <4>2. PICK m \in Nat : m = e + 1
        BY <3>1
      <4>3. /\ response' \in Response /\ response' # NoResponse /\ response'.pos = 0
            /\ response'.alive /\ e' = m + 1 /\ state' = "WRITING"
            /\ queue' \in Seq(Request) /\ popped' \in Seq(Request)
        BY ONLY <3>1, <4>1, <4>2, Begun
      <4> QED BY <4>3 DEF Response
    <3>3. FileSize(response'.line) \in Nat
      BY <3>2, FileSizeIsNat
    <3> QED BY <1>3, <2>1, <2>2, <3>2, <3>3 DEF TypeOK, FilesRead
  <2>3. CASE response' = NoResponse /\ state' = AfterResponses /\ e' = e + 1 /\ looping' = FALSE
             /\ UNCHANGED <<queue, popped>>
    <3>1. queue' \in Seq(Request) /\ popped' \in Seq(Request) /\ e' \in Nat
      BY <2>3 DEF TypeOK
    <3>2. state' \in {"READING", "DIE"} /\ looping' \in BOOLEAN /\ response' = NoResponse
      BY <2>3 DEF AfterResponses
    <3> QED BY <1>3, <2>1, <3>1, <3>2 DEF TypeOK, FilesRead
  <2> QED BY <1>1, <1>5, <2>2, <2>3 DEF WriteFacts
<1> QED BY <1>4, <1>5
-----------------------------------------------------------------------------
(* A step is a read, a turn of write(), the end from outside, or nothing.  *)
LEMMA StepIsOne ==
  ASSUME TypeOK, [Next]_vars
  PROVE  \/ state = "READING" /\ \E n \in Nat, end \in BOOLEAN : Feed(n, end) /\ ReadOnce(n, end)
         \/ state = "WRITING" /\ \E err \in BOOLEAN, w \in Nat : WriteOnce(err, w)
         \/ /\ state \in {"READING", "WRITING"} /\ state' = "LOST"
            /\ UNCHANGED <<input, queue, output>>
         \/ UNCHANGED vars
<1>1. CASE Read
  <2>1. 0 .. Capacity \subseteq Nat
    OBVIOUS
  <2> QED BY <1>1, <2>1 DEF Read
<1>2. CASE Write
  <2>1. \A err : 0 .. Len(Pending(Wanted(err))) \subseteq Nat
    OBVIOUS
  <2> QED BY <1>2, <2>1 DEF Write
<1>3. CASE WriteFails \/ Reconsider
  BY <1>3 DEF WriteFails, Reconsider
<1> QED BY <1>1, <1>2, <1>3 DEF Next
-----------------------------------------------------------------------------
(* What is in the buffer is no line yet, and it is not full unless that    *)
(* ended the session's reading; only complete requests have been taken up. *)
Reader ==
  /\ Unterminated(buf) /\ Len(buf) <= Capacity /\ (~eof => Len(buf) < Capacity)
  /\ popped # <<>> => Last(popped).complete

SessionInv == TypeOK /\ FilesRead /\ Reader /\ Wakeable

LEMMA InvInit == Init => SessionInv /\ GracefulClose /\ HistoryMatches /\ WireIsAnswers
<1> SUFFICES ASSUME Init
             PROVE  SessionInv /\ GracefulClose /\ HistoryMatches /\ WireIsAnswers
  OBVIOUS
<1>1. <<>> \in Line /\ <<>> \in Seq(Request) /\ <<>> \in Seq(Octet) /\ Len(<<>>) = 0
  BY EmptySeq DEF Line
<1>2. got \in 0 .. Len(stream)
  <2>1. stream \in Seq(Text)
    BY SessionAssumption DEF Init
  <2> QED BY <2>1, LenProperties DEF Init
<1>3. TypeOK /\ FilesRead
  BY <1>1, <1>2 DEF Init, TypeOK, FilesRead
<1>4. Unterminated(<<>>) /\ Drain(<<>>, <<>>).queue = <<>>
  BY DrainNil DEF Unterminated
<1>5. Reader
  BY <1>1, <1>4, SessionAssumption DEF Init, Reader
<1>6. Wakeable
  BY <1>1, <1>4, SessionAssumption DEF Init, Wakeable
<1>7. GracefulClose /\ HistoryMatches /\ WireIsAnswers
  BY <1>1 DEF Init, GracefulClose, HistoryMatches, WireIsAnswers
<1> QED BY <1>3, <1>5, <1>6, <1>7 DEF SessionInv

(* What a read() leaves in the buffer. *)
LEMMA ReadBuffers ==
  ASSUME TypeOK, Reader, NEW n \in Nat, NEW end \in BOOLEAN,
         NEW b \in Seq(Text), NEW p \in Progress, NEW q \in Seq(Request), ReadFacts(n, end, b, p, q)
  PROVE  /\ Unterminated(buf') /\ Len(buf') <= Capacity /\ (~eof' => Len(buf') < Capacity)
         /\ Drain(<<>>, buf').queue = <<>>
<1>1. Unterminated(<<>>)
  BY DrainNil DEF Unterminated
<1>2. p = Drain(queue, b) /\ queue \in Seq(Request)
  BY DEF ReadFacts, TypeOK
<1>3. Unterminated(p.line) /\ Len(p.line) <= Len(b)
  BY <1>2, DrainLeaves, DrainShort
<1>4. Len(b) <= Capacity /\ Len(p.line) \in Nat /\ Len(b) \in Nat /\ Capacity \in Nat \ {0}
  <2>1. Len(b) = Len(buf) + n /\ (~end => n <= Capacity - Len(buf)) /\ (end => n = 0)
    BY DEF ReadFacts
  <2>2. Len(buf) \in Nat /\ Len(buf) <= Capacity
    BY LenProperties DEF TypeOK, Line, Reader
  <2>3. Len(p.line) \in Nat
    BY LenProperties DEF Progress, Line
  <2> QED BY <2>1, <2>2, <2>3, SessionAssumption
<1>5. Unterminated(buf') /\ Len(buf') <= Capacity /\ (~eof' => Len(buf') < Capacity)
  <2>1. buf' = p.line \/ buf' = <<>>
    BY DEF ReadFacts
  <2>2. eof' = (eof \/ end \/ Len(p.line) = Capacity)
    BY DEF ReadFacts
  <2>3. Len(<<>>) = 0
    BY EmptySeq
  <2>4. Len(p.line) <= Capacity
    BY <1>3, <1>4
  <2>5. CASE buf' = p.line
    <3>1. ~eof' => Len(p.line) # Capacity
      BY <2>2
    <3>2. ~eof' => Len(p.line) < Capacity
      BY <1>4, <2>4, <3>1
    <3> QED BY <2>5, <1>3, <2>4, <3>2
  <2>6. CASE buf' = <<>>
    BY <2>6, <1>1, <1>4, <2>3
  <2> QED BY <2>1, <2>5, <2>6
<1> QED BY <1>5 DEF Unterminated

LEMMA ReadWakeable ==
  ASSUME SessionInv, state = "READING",
         NEW n \in Nat, NEW end \in BOOLEAN, Feed(n, end), ReadOnce(n, end)
  PROVE  Reader' /\ Wakeable' /\ GracefulClose'
<1>1. TypeOK /\ Reader /\ response = NoResponse
  BY DEF SessionInv, Wakeable
<1>2. PICK b \in Seq(Text), p \in Progress, q \in Seq(Request) : ReadFacts(n, end, b, p, q)
  BY <1>1, ReadSteps
<1>3. /\ Unterminated(buf') /\ Len(buf') <= Capacity /\ (~eof' => Len(buf') < Capacity)
      /\ Drain(<<>>, buf').queue = <<>>
  BY <1>1, <1>2, ReadBuffers
<1>4. CASE Answerable(q) /\ Begin(q, e)
  <2>1. q # <<>> /\ Head(q).complete
    BY <1>4 DEF Answerable, IsComplete
  <2>2. response' # NoResponse /\ state' = "WRITING" /\ Last(popped') = Head(q)
    BY <1>1, <1>4, <2>1, Begun DEF TypeOK
  <2> QED BY <1>3, <2>1, <2>2 DEF Reader, Wakeable, GracefulClose
<1>5. CASE /\ ~Answerable(q) /\ queue' = q /\ UNCHANGED <<response, e, popped>>
           /\ state' = IF IsBroken(q) \/ eof' THEN "DIE" ELSE "READING"
  <2>1. Reader'
    BY <1>1, <1>3, <1>5 DEF Reader
  <2>2. q # <<>> /\ Head(q).complete => Head(q).broken
    BY <1>5 DEF Answerable, IsComplete, IsBroken
  <2>3. state' = "READING" => /\ ~eof'
                              /\ (q # <<>> => ~Head(q).complete)
    BY <1>5 DEF Answerable, IsComplete, IsBroken
  <2>4. state' \in {"READING", "DIE"} /\ response' = NoResponse
    BY <1>1, <1>5
  <2> QED BY <1>3, <1>5, <2>1, <2>2, <2>3, <2>4 DEF Wakeable, GracefulClose
<1> QED BY <1>1, <1>2, <1>4, <1>5 DEF ReadFacts

LEMMA WriteWakeable ==
  ASSUME SessionInv, state = "WRITING",
         NEW err \in BOOLEAN, NEW w \in Nat, WriteOnce(err, w)
  PROVE  Reader' /\ Wakeable' /\ GracefulClose'
<1>1. TypeOK /\ FilesRead /\ Reader /\ response # NoResponse
  BY DEF SessionInv, Wakeable
<1>2. PICK k \in Nat, rest \in Seq(Octet) : WriteFacts(err, k, rest)
  BY <1>1, WriteSteps
<1>3. buf' = buf /\ eof' = eof
  BY <1>2 DEF WriteFacts, input
<1>4. CASE response' = Advanced(k, err, rest) /\ UNCHANGED <<queue, state, e, popped, due>>
  <2>1. response' # NoResponse
    BY <1>1, <1>4, AdvancedType DEF TypeOK
  <2> QED BY <1>1, <1>3, <1>4, <2>1 DEF Reader, Wakeable, GracefulClose
<1>5. CASE IsComplete(queue) /\ Begin(queue, e + 1)
  <2>1. queue # <<>> /\ Head(queue).complete /\ e + 1 \in Nat
    BY <1>1, <1>5 DEF IsComplete, TypeOK
  <2>2. response' # NoResponse /\ state' = "WRITING" /\ Last(popped') = Head(queue)
    BY <1>1, <1>5, <2>1, Begun DEF TypeOK
  <2> QED BY <1>1, <1>3, <2>1, <2>2 DEF Reader, Wakeable, GracefulClose
<1>6. CASE /\ ~IsComplete(queue) /\ response' = NoResponse /\ state' = AfterResponses
           /\ UNCHANGED <<queue, popped>>
  <2>1. queue # <<>> => ~Head(queue).complete
    BY <1>6 DEF IsComplete
  <2>2. state' = IF eof THEN "DIE" ELSE "READING"
    BY <1>6 DEF AfterResponses
  <2>3. Drain(<<>>, buf).queue = <<>>
    BY <1>1 DEF Reader, Unterminated
  <2> QED BY <1>1, <1>3, <1>6, <2>1, <2>2, <2>3 DEF Reader, Wakeable, GracefulClose
<1> QED BY <1>2, <1>4, <1>5, <1>6 DEF WriteFacts

LEMMA InvStep == SessionInv /\ GracefulClose /\ [Next]_vars => SessionInv' /\ GracefulClose'
<1> SUFFICES ASSUME SessionInv, GracefulClose, [Next]_vars PROVE SessionInv' /\ GracefulClose'
  OBVIOUS
<1>1. TypeOK /\ FilesRead /\ Reader /\ Wakeable
  BY DEF SessionInv
<1>2. CASE state = "READING" /\ \E n \in Nat, end \in BOOLEAN : Feed(n, end) /\ ReadOnce(n, end)
  BY <1>1, <1>2, ReadTyped, ReadWakeable DEF SessionInv
<1>3. CASE state = "WRITING" /\ \E err \in BOOLEAN, w \in Nat : WriteOnce(err, w)
  <2>1. response # NoResponse
    BY <1>1, <1>3 DEF Wakeable
  <2> QED BY <1>1, <1>3, <2>1, WriteTyped, WriteWakeable DEF SessionInv
<1>4. CASE state' = "LOST" /\ UNCHANGED <<input, queue, output>>
  BY <1>1, <1>4 DEF SessionInv, TypeOK, FilesRead, Reader, Wakeable, GracefulClose, input, output
<1>5. CASE UNCHANGED vars
  BY <1>1, <1>5 DEF SessionInv, TypeOK, FilesRead, Reader, Wakeable, GracefulClose, vars, input, output
<1> QED BY <1>1, <1>2, <1>3, <1>4, <1>5, StepIsOne

LEMMA SessionSafe == Spec => [](SessionInv /\ GracefulClose)
BY InvInit, InvStep, PTL DEF Spec

(* The session's variables always have their types (TypeOK): whatever a    *)
(* short write leaves behind or a file turns out to hold.                  *)
THEOREM SessionTyped == Spec => []TypeOK
<1>1. SessionInv => TypeOK
  BY DEF SessionInv
<1> QED BY <1>1, SessionSafe, PTL

(* No wakeup is lost (Wakeable): the table at session.cc:82-91 leaves no   *)
(* session waiting for input that it has already got.                      *)
THEOREM NoWakeupLost == Spec => []Wakeable
<1>1. SessionInv => Wakeable
  BY DEF SessionInv
<1> QED BY <1>1, SessionSafe, PTL

(* A session that closes itself owes no response (GracefulClose,           *)
(* session.cc:101 and 134).                                                *)
THEOREM ClosesGracefully == Spec => []GracefulClose
BY SessionSafe, PTL
-----------------------------------------------------------------------------
LEMMA HistoryStep == SessionInv /\ HistoryMatches /\ [Next]_vars => HistoryMatches'
<1> SUFFICES ASSUME SessionInv, HistoryMatches, [Next]_vars PROVE HistoryMatches'
  OBVIOUS
<1>1. TypeOK /\ FilesRead /\ Wakeable /\ e \in Nat /\ Len(popped) \in Nat
  BY LenProperties DEF SessionInv, TypeOK
<1>2. ASSUME NEW q \in Seq(Request), q # <<>>, NEW m \in Nat, Begin(q, m),
             m % 2 = 0, Len(popped) = m \div 2
      PROVE  HistoryMatches'
  <2>1. response' # NoResponse /\ e' = m + 1 /\ Len(popped') = Len(popped) + 1
    BY <1>1, <1>2, Begun DEF TypeOK
  <2>2. (m + 1) % 2 = 1 /\ m \div 2 + 1 = ((m + 1) + 1) \div 2
    BY <1>2
  <2> QED BY <1>2, <2>1, <2>2 DEF HistoryMatches
<1>3. CASE state = "READING" /\ \E n \in Nat, end \in BOOLEAN : Feed(n, end) /\ ReadOnce(n, end)
  <2>1. PICK n \in Nat, end \in BOOLEAN : Feed(n, end) /\ ReadOnce(n, end)
    BY <1>3
  <2>2. PICK b \in Seq(Text), p \in Progress, q \in Seq(Request) : ReadFacts(n, end, b, p, q)
    BY <1>1, <2>1, ReadSteps
  <2>3. CASE Answerable(q) /\ Begin(q, e)
    <3>1. q # <<>> /\ response = NoResponse
      BY <1>1, <1>3, <2>3 DEF Answerable, IsComplete, Wakeable
    <3>2. e % 2 = 0 /\ Len(popped) = e \div 2
      BY <1>1, <3>1 DEF HistoryMatches
    <3> QED BY <1>1, <1>2, <2>3, <3>1, <3>2
  <2>4. CASE UNCHANGED <<response, e, popped>>
    BY <2>4 DEF HistoryMatches
  <2> QED BY <2>2, <2>3, <2>4 DEF ReadFacts
<1>4. CASE state = "WRITING" /\ \E err \in BOOLEAN, w \in Nat : WriteOnce(err, w)
  <2>1. PICK err \in BOOLEAN, w \in Nat : WriteOnce(err, w)
    BY <1>4
  <2>2. response # NoResponse /\ e % 2 = 1 /\ Len(popped) = (e + 1) \div 2
    BY <1>1, <1>4 DEF Wakeable, HistoryMatches
  <2>3. PICK k \in Nat, rest \in Seq(Octet) : WriteFacts(err, k, rest)
    BY <1>1, <2>1, <2>2, WriteSteps
  <2>4. (e + 1) % 2 = 0 /\ e + 1 \in Nat /\ (e + 1) \div 2 = ((e + 1) + 1) \div 2
    BY <1>1, <2>2
  <2>5. CASE response' = Advanced(k, err, rest) /\ UNCHANGED <<e, popped>>
    <3>1. response' # NoResponse
      BY <1>1, <2>2, <2>5, AdvancedType DEF TypeOK
    <3> QED BY <2>2, <2>5, <3>1 DEF HistoryMatches
  <2>6. CASE IsComplete(queue) /\ Begin(queue, e + 1)
    BY <1>1, <1>2, <2>2, <2>4, <2>6 DEF IsComplete, TypeOK
  <2>7. CASE response' = NoResponse /\ e' = e + 1 /\ popped' = popped
    BY <2>2, <2>4, <2>7 DEF HistoryMatches
  <2> QED BY <2>3, <2>5, <2>6, <2>7 DEF WriteFacts
<1>5. CASE UNCHANGED output
  BY <1>5 DEF output, HistoryMatches
<1> QED BY <1>1, <1>3, <1>4, <1>5, StepIsOne DEF vars

(* The assertions in History hold (HistoryMatches, history.cc).            *)
THEOREM HistoryRight == Spec => []HistoryMatches
BY HistoryStep, InvInit, SessionSafe, PTL DEF Spec
-----------------------------------------------------------------------------
LEMMA AnswerStep == SessionInv /\ WireIsAnswers /\ [Next]_vars => WireIsAnswers'
<1> SUFFICES ASSUME SessionInv, WireIsAnswers, [Next]_vars PROVE WireIsAnswers'
  OBVIOUS
<1>1. TypeOK /\ FilesRead /\ Wakeable /\ wire \in Seq(Octet) /\ due \in Seq(Octet)
  BY DEF SessionInv, TypeOK
<1>2. ASSUME NEW q \in Seq(Request), q # <<>>, NEW m \in Nat, Begin(q, m),
             wire' = due', wire' \in Seq(Octet)
      PROVE  WireIsAnswers'
  <2>1. /\ response' # NoResponse /\ response'.pos = 0 /\ response'.backlog = <<>>
        /\ response'.line \in Line
    BY <1>1, <1>2, Begun DEF TypeOK, Response
  <2>3. Octets(response'.line, 0, 0) = <<>>
    BY <2>1, OctetsNone
  <2>4. wire' \o <<>> = due' \o <<>>
    BY <1>2
  <2> QED BY <2>1, <2>3, <2>4 DEF WireIsAnswers
<1>3. CASE state = "READING" /\ \E n \in Nat, end \in BOOLEAN : Feed(n, end) /\ ReadOnce(n, end)
  <2>1. PICK n \in Nat, end \in BOOLEAN : Feed(n, end) /\ ReadOnce(n, end)
    BY <1>3
  <2>2. PICK b \in Seq(Text), p \in Progress, q \in Seq(Request) : ReadFacts(n, end, b, p, q)
    BY <1>1, <2>1, ReadSteps
  <2>3. wire' = wire /\ due' = due /\ response = NoResponse /\ wire = due
    BY <1>1, <1>3, <2>2 DEF ReadFacts, Wakeable, WireIsAnswers
  <2>4. CASE Answerable(q) /\ Begin(q, e)
    BY <1>1, <1>2, <2>3, <2>4 DEF Answerable, IsComplete, TypeOK
  <2>5. CASE UNCHANGED response
    BY <2>3, <2>5 DEF WireIsAnswers
  <2> QED BY <2>2, <2>4, <2>5 DEF ReadFacts
<1>4. CASE state = "WRITING" /\ \E err \in BOOLEAN, w \in Nat : WriteOnce(err, w)
  <2>1. PICK err \in BOOLEAN, w \in Nat : WriteOnce(err, w)
    BY <1>4
  <2> DEFINE line == response.line
             pos == response.pos
  <2>2. response # NoResponse /\ wire \o response.backlog = due \o Octets(line, 0, pos)
    BY <1>1, <1>4 DEF Wakeable, WireIsAnswers
  <2>3. /\ response \in Response /\ line \in Line /\ pos \in Nat /\ pos <= FileSize(line)
        /\ FileSize(line) \in Nat /\ response.backlog \in Seq(Octet)
        /\ response.alive \/ response.err \/ pos = FileSize(line)
    BY <1>1, <2>2, FileSizeIsNat DEF TypeOK, FilesRead, Response
  <2>4. PICK k \in Nat, rest \in Seq(Octet) : WriteFacts(err, k, rest)
    BY <1>1, <2>1, <2>2, WriteSteps
  <2>5. /\ pos + k <= FileSize(line) /\ wire' \in Seq(Octet) /\ wire' \o rest = wire \o Pending(k)
        /\ k = 0 => err \/ ~response.alive \/ pos = FileSize(line)
    BY <2>4 DEF WriteFacts
  <2>6. wire' \o rest = due \o Octets(line, 0, pos + k)
    <3> DEFINE x == Octets(line, 0, pos)
               y == Octets(line, pos, pos + k)
    <3>1. /\ pos + k \in pos .. FileSize(line) /\ pos \in 0 .. FileSize(line) /\ 0 \in Nat
          /\ pos + k \in 0 .. FileSize(line) /\ pos \in 0 .. pos + k
      BY <2>3, <2>5
    <3>2. x \in Seq(Octet) /\ y \in Seq(Octet)
      BY <2>3, <3>1, OctetsType
    <3>3. x \o y = Octets(line, 0, pos + k)
      BY <2>3, <3>1, OctetsAdd
    <3> HIDE DEF x
    <3>4. wire' \o rest = wire \o (response.backlog \o y)
      BY <2>5 DEF Pending
    <3> HIDE DEF y
    <3>5. wire \o (response.backlog \o y) = (wire \o response.backlog) \o y
      <4>1. wire \in Seq(Octet) /\ response.backlog \in Seq(Octet) /\ y \in Seq(Octet)
        BY <1>1, <2>3, <3>2
      <4>2. Cat(Cat(wire, response.backlog), y) = Cat(wire, Cat(response.backlog, y))
        BY ONLY <4>1, CatAssociates
      <4> QED BY ONLY <4>2 DEF Cat
    <3>6. (due \o x) \o y = due \o (x \o y)
      <4>1. due \in Seq(Octet) /\ x \in Seq(Octet) /\ y \in Seq(Octet)
        BY <1>1, <3>2
      <4>2. Cat(Cat(due, x), y) = Cat(due, Cat(x, y))
        BY ONLY <4>1, CatAssociates
      <4> QED BY ONLY <4>2 DEF Cat
    <3>7. wire \o response.backlog = due \o x
      BY <2>2 DEF x
    <3> QED BY <3>3, <3>4, <3>5, <3>6, <3>7
  <2>7. CASE response' = Advanced(k, err, rest) /\ due' = due
    <3>1. /\ response' # NoResponse /\ response'.line = line /\ response'.pos = pos + k
          /\ response'.backlog = rest
      BY <2>3, <2>7, AdvancedType
    <3> QED BY <2>6, <2>7, <3>1 DEF WireIsAnswers
  <2>8. ASSUME IsDone(k, rest),
               due' = due \o Octets(line, 0, IF err \/ response.err THEN pos ELSE FileSize(line))
        PROVE  wire' = due'
    <3>1. k = 0 /\ rest = <<>>
      BY <2>8 DEF IsDone
    <3>2. wire' \o rest = wire'
      BY <2>5, <3>1, ConcatEmptySeq
    <3>3. err \/ response.err \/ pos = FileSize(line)
      BY <2>3, <2>5, <3>1
    <3>4. pos + k = pos /\ pos = IF err \/ response.err THEN pos ELSE FileSize(line)
      BY <2>3, <3>1, <3>3
    <3> QED BY <2>6, <2>8, <3>2, <3>4
  <2>9. CASE /\ IsDone(k, rest) /\ IsComplete(queue) /\ Begin(queue, e + 1)
             /\ due' = due \o Octets(line, 0, IF err \/ response.err THEN pos ELSE FileSize(line))
    <3>1. wire' = due' /\ queue # <<>> /\ queue \in Seq(Request) /\ e + 1 \in Nat
      BY <1>1, <2>8, <2>9 DEF IsComplete, TypeOK
    <3> QED BY <1>2, <2>5, <2>9, <3>1
  <2>10. CASE /\ IsDone(k, rest) /\ response' = NoResponse
              /\ due' = due \o Octets(line, 0, IF err \/ response.err THEN pos ELSE FileSize(line))
    BY <2>8, <2>10 DEF WireIsAnswers
  <2> QED BY <2>4, <2>7, <2>9, <2>10 DEF WriteFacts
<1>5. CASE UNCHANGED output
  BY <1>5 DEF output, WireIsAnswers
<1> QED BY <1>1, <1>3, <1>4, <1>5, StepIsOne DEF vars

(* The client gets the files it asked for, whole and in order              *)
(* (WireIsAnswers), whatever the sizes of files, reads and writes are:     *)
(* Filter::Plain and Backlog lose and repeat nothing.                      *)
THEOREM AnswersWhole == Spec => []WireIsAnswers
BY AnswerStep, InvInit, SessionSafe, PTL DEF Spec
-----------------------------------------------------------------------------
LEMMA ParsedIs ==
  ASSUME NEW s \in Streams, NEW n \in 0 .. Len(s)
  PROVE  Parsed[s][n] = Drain(<<>>, SubSeq(s, 1, n))
BY DEF Parsed

(* What is read of the input is what would be read of it in one piece.     *)
LEMMA ReadsOn ==
  ASSUME SessionInv, RequestsIntact, ~eof, NEW n \in Nat, NEW end \in BOOLEAN,
         NEW b \in Seq(Text), NEW p \in Progress, NEW q \in Seq(Request), ReadFacts(n, end, b, p, q)
  PROVE  Received' = [queue |-> popped \o p.queue, line |-> p.line]
<1> DEFINE s == SubSeq(stream, 1, got)
           t == SubSeq(stream, got + 1, got + n)
<1>1. /\ TypeOK /\ stream \in Streams /\ stream \in Seq(Text) /\ Len(stream) \in Nat
      /\ got \in 0 .. Len(stream) /\ popped \in Seq(Request) /\ queue \in Seq(Request)
      /\ (popped # <<>> => Last(popped).complete)
  <2>1. TypeOK /\ Reader
    BY DEF SessionInv
  <2>2. stream \in Streams /\ stream \in Seq(Text)
    BY <2>1, SessionAssumption DEF TypeOK
  <2> QED BY <2>1, <2>2, LenProperties DEF TypeOK, Reader
<1>2. /\ t \in Seq(Text) /\ b = buf \o t /\ p = Drain(queue, b) /\ got + n <= Len(stream)
      /\ got' = got + n /\ stream' = stream
  BY DEF ReadFacts
<1>3. s \in Seq(Text)
  <2>1. \A i \in 1 .. got : stream[i] \in Text
    BY <1>1, ElementOfSeq
  <2> QED BY <1>1, <2>1, SubSeqProperties
<1>4. s \o t = SubSeq(stream, 1, got + n)
  <2>1. 1 \in 1 .. Len(stream) + 1 /\ got \in 1 - 1 .. Len(stream) /\ got + n \in got .. Len(stream)
    BY <1>1, <1>2
  <2> QED BY <1>1, <2>1, ConcatAdjacentSubSeq
<1> HIDE DEF s, t
<1>5. Received' = Drain(<<>>, s \o t)
  <2>1. got + n \in 0 .. Len(stream)
    BY <1>1, <1>2
  <2>2. Received' = Parsed[stream][got + n]
    BY <1>2 DEF Received
  <2> QED BY <1>1, <1>4, <2>1, <2>2, ParsedIs
<1>6. Drain(<<>>, s).queue = popped \o queue /\ Drain(<<>>, s).line = buf
  <2>1. Received = Drain(<<>>, s)
    BY <1>1, ParsedIs DEF Received, s
  <2> QED BY <2>1 DEF RequestsIntact, Heard
<1>7. Drain(<<>>, s \o t) = Drain(popped \o queue, buf \o t)
  <2>1. <<>> \in Seq(Request)
    BY EmptySeq
  <2>2. Drain(<<>>, s \o t) = Drain(Drain(<<>>, s).queue, Drain(<<>>, s).line \o t)
    BY <1>2, <1>3, <2>1, DrainOn
  <2> QED BY <1>6, <2>2
<1>8. Drain(popped \o queue, b) = [queue |-> popped \o p.queue, line |-> p.line]
  BY <1>1, <1>2, DrainBehind
<1> QED BY <1>2, <1>5, <1>7, <1>8

LEMMA IntactInit == Init => RequestsIntact
<1> SUFFICES ASSUME Init PROVE RequestsIntact
  OBVIOUS
<1>1. stream \in Streams /\ 0 \in 0 .. Len(stream) /\ SubSeq(stream, 1, 0) = <<>>
  <2>1. stream \in Seq(Text)
    BY SessionAssumption DEF Init
  <2>2. SubSeq(stream, 1, 0) = <<>>
    BY SubSeqEmpty
  <2> QED BY <2>1, <2>2, LenProperties DEF Init
<1>2. Received = [queue |-> <<>>, line |-> <<>>]
  <2>1. Received = Parsed[stream][0]
    BY DEF Init, Received
  <2>2. Parsed[stream][0] = Drain(<<>>, <<>>)
    BY <1>1, ParsedIs
  <2> QED BY <2>1, <2>2, DrainNil
<1>3. <<>> \o <<>> = <<>>
  BY EmptySeq, ConcatEmptySeq
<1> QED BY <1>2, <1>3 DEF Init, RequestsIntact, Heard

LEMMA IntactStep == SessionInv /\ RequestsIntact /\ [Next]_vars => RequestsIntact'
<1> SUFFICES ASSUME SessionInv, RequestsIntact, [Next]_vars PROVE RequestsIntact'
  OBVIOUS
<1>1. TypeOK /\ FilesRead /\ Wakeable /\ Reader /\ popped \in Seq(Request)
  BY DEF SessionInv, TypeOK
<1>2. ASSUME UNCHANGED input, popped' \o queue' = popped \o queue PROVE RequestsIntact'
  BY <1>2 DEF input, RequestsIntact, Heard, Received
<1>3. CASE state = "READING" /\ \E n \in Nat, end \in BOOLEAN : Feed(n, end) /\ ReadOnce(n, end)
  <2>1. PICK n \in Nat, end \in BOOLEAN : Feed(n, end) /\ ReadOnce(n, end)
    BY <1>3
  <2>2. PICK b \in Seq(Text), p \in Progress, q \in Seq(Request) : ReadFacts(n, end, b, p, q)
    BY <1>1, <2>1, ReadSteps
  <2>3. ~eof
    BY <1>1, <1>3 DEF Wakeable
  <2>4. Received' = [queue |-> popped \o p.queue, line |-> p.line]
    BY <2>2, <2>3, ReadsOn
  <2>5. popped' \o queue' = popped \o q
    <3>1. CASE Answerable(q) /\ Begin(q, e)
      BY <1>1, <3>1, Begun DEF TypeOK, Answerable, IsComplete
    <3>2. CASE queue' = q /\ popped' = popped
      BY <3>2
    <3> QED BY <2>2, <3>1, <3>2 DEF ReadFacts
  <2>6. Heard' = popped \o q
    <3>1. CASE end /\ p.line # <<>>
      <4>1. q = AddLine(p.queue, p.line) /\ buf' = <<>> /\ eof'
        BY <2>2, <3>1 DEF ReadFacts
      <4>2. Heard' = AddLine(popped \o p.queue, p.line)
        BY <2>4, <3>1, <4>1 DEF Heard
      <4>3. AddLine(popped \o p.queue, p.line) = popped \o AddLine(p.queue, p.line)
        BY <1>1, AddLineBehind DEF Progress, Reader
      <4> QED BY <4>1, <4>2, <4>3
    <3>2. CASE ~(end /\ p.line # <<>>)
      <4>1. q = p.queue /\ buf' = p.line
        BY <2>2, <2>3, <3>2 DEF ReadFacts
      <4> QED BY <2>4, <4>1 DEF Heard
    <3> QED BY <3>1, <3>2
  <2>7. ~eof' => buf' = Received'.line
    BY <2>2, <2>3, <2>4 DEF ReadFacts
  <2> QED BY <2>5, <2>6, <2>7 DEF RequestsIntact
<1>4. CASE state = "WRITING" /\ \E err \in BOOLEAN, w \in Nat : WriteOnce(err, w)
  <2>1. PICK err \in BOOLEAN, w \in Nat : WriteOnce(err, w)
    BY <1>4
  <2>2. response # NoResponse
    BY <1>1, <1>4 DEF Wakeable
  <2>3. PICK k \in Nat, rest \in Seq(Octet) : WriteFacts(err, k, rest)
    BY <1>1, <2>1, <2>2, WriteSteps
  <2>4. popped' \o queue' = popped \o queue
    <3>1. CASE IsComplete(queue) /\ Begin(queue, e + 1)
      <4>1. queue \in Seq(Request) /\ queue # <<>> /\ e + 1 \in Nat
        BY <1>1, <3>1 DEF TypeOK, IsComplete
      <4> QED BY <1>1, <3>1, <4>1, Begun
    <3>2. CASE queue' = queue /\ popped' = popped
      BY <3>2
    <3> QED BY <2>3, <3>1, <3>2 DEF WriteFacts
  <2> QED BY <1>2, <2>3, <2>4 DEF WriteFacts
<1>5. CASE UNCHANGED <<input, queue, output>>
  BY <1>2, <1>5 DEF output
<1> QED BY <1>1, <1>3, <1>4, <1>5, StepIsOne DEF vars

(* Cutting the input into segments, reading, and taking up requests in any *)
(* order: the session sees the requests that were sent (RequestsIntact).   *)
(* This is why RequestQueue need not know what has been answered.          *)
THEOREM CutsDoNotMatter == Spec => []RequestsIntact
BY IntactInit, IntactStep, SessionSafe, PTL DEF Spec
-----------------------------------------------------------------------------
(* Requests are taken up when they are complete, and only the last in the  *)
(* queue can be incomplete; at the end of input the buffer is empty, or    *)
(* full; a session ends itself for that or for a broken request.           *)
Answering ==
  /\ \A i \in 1 .. Len(popped) : popped[i] \in Complete
  /\ Orderly(queue)
  /\ eof => buf = <<>> \/ Len(buf) = Capacity
  /\ state = "DIE" => eof \/ IsBroken(queue)

(* A complete request is taken up from a queue. *)
LEMMA BegunAnswering ==
  ASSUME NEW q \in Seq(Request), IsComplete(q), NEW m, Begin(q, m), popped \in Seq(Request),
         \A i \in 1 .. Len(popped) : popped[i] \in Complete, Orderly(q)
  PROVE  /\ \A i \in 1 .. Len(popped') : popped'[i] \in Complete
         /\ Orderly(queue') /\ state' = "WRITING"
<1>1. q # <<>> /\ Head(q) \in Complete /\ Head(q) \in Request
  BY HeadTailProperties DEF IsComplete, Complete
<1>2. popped' = Append(popped, Head(q)) /\ queue' = Tail(q) /\ state' = "WRITING"
  BY DEF Begin
<1>3. \A i \in 1 .. Len(popped') : popped'[i] \in Complete
  <2>1. /\ Len(popped) \in Nat /\ Len(popped') = Len(popped) + 1
        /\ popped'[Len(popped) + 1] = Head(q)
        /\ \A i \in 1 .. Len(popped) : popped'[i] = popped[i]
    BY <1>1, <1>2, AppendProperties, LenProperties
  <2>2. \A i \in 1 .. Len(popped') : i = Len(popped) + 1 \/ i \in 1 .. Len(popped)
    BY <2>1
  <2> QED BY <1>1, <2>1, <2>2
<1>4. Orderly(Tail(q))
  <2>1. /\ Len(q) \in Nat /\ Len(Tail(q)) = Len(q) - 1
        /\ \A i \in 1 .. Len(Tail(q)) : Tail(q)[i] = q[i + 1]
    BY <1>1, HeadTailProperties, LenProperties
  <2>2. \A i \in 1 .. Len(Tail(q)) - 1 : i \in 1 .. Len(Tail(q)) /\ i + 1 \in 1 .. Len(q) - 1
    BY <2>1
  <2> QED BY <2>1, <2>2 DEF Orderly
<1> QED BY <1>2, <1>3, <1>4

(* What a read makes of the queue. *)
LEMMA ReadContinues ==
  ASSUME TypeOK, NEW n \in Nat, NEW end \in BOOLEAN,
         NEW b \in Seq(Text), NEW p \in Progress, NEW q \in Seq(Request), ReadFacts(n, end, b, p, q)
  PROVE  /\ Continues(Only(queue, Complete), Only(q, Complete))
         /\ Orderly(queue) => Orderly(q)
<1>1. /\ queue \in Seq(Request) /\ p = Drain(queue, b) /\ p.queue \in Seq(Request) /\ p.line \in Line
      /\ q = p.queue \/ q = AddLine(p.queue, p.line)
  BY DEF TypeOK, ReadFacts, Progress
<1>2. /\ Continues(Only(queue, Complete), Only(p.queue, Complete))
      /\ Orderly(queue) => Orderly(p.queue)
  BY <1>1, DrainContinues
<1>3. CASE q = AddLine(p.queue, p.line)
  <2>1. /\ Continues(Only(p.queue, Complete), Only(q, Complete))
        /\ Orderly(p.queue) => Orderly(q)
    BY <1>1, <1>3, AddLineContinues
  <2>2. /\ Only(queue, Complete) \in Seq(Request) /\ Only(p.queue, Complete) \in Seq(Request)
        /\ Only(q, Complete) \in Seq(Request)
    BY <1>1, OnlyType
  <2>3. Continues(Only(queue, Complete), Only(q, Complete))
    BY <1>2, <2>1, <2>2, ContinuesOn
  <2> QED BY <1>2, <2>1, <2>3
<1> QED BY <1>1, <1>2, <1>3

LEMMA AnsweringStep == SessionInv /\ Answering /\ [Next]_vars => Answering'
<1> SUFFICES ASSUME SessionInv, Answering, [Next]_vars PROVE Answering'
  OBVIOUS
<1>1. TypeOK /\ FilesRead /\ Reader /\ Wakeable /\ popped \in Seq(Request) /\ queue \in Seq(Request)
  BY DEF SessionInv, TypeOK
<1>2. CASE state = "READING" /\ \E n \in Nat, end \in BOOLEAN : Feed(n, end) /\ ReadOnce(n, end)
  <2>1. PICK n \in Nat, end \in BOOLEAN : Feed(n, end) /\ ReadOnce(n, end)
    BY <1>2
  <2>2. PICK b \in Seq(Text), p \in Progress, q \in Seq(Request) : ReadFacts(n, end, b, p, q)
    BY <1>1, <2>1, ReadSteps
  <2>3. Orderly(q)
    BY <1>1, <2>2, ReadContinues DEF Answering
  <2>4. eof' => buf' = <<>> \/ Len(buf') = Capacity
    BY <2>2 DEF ReadFacts
  <2>5. CASE Answerable(q) /\ Begin(q, e)
    <3>1. /\ \A i \in 1 .. Len(popped') : popped'[i] \in Complete
          /\ Orderly(queue') /\ state' = "WRITING"
      BY <1>1, <2>3, <2>5, BegunAnswering DEF Answerable, Answering
    <3> QED BY <2>4, <3>1 DEF Answering
  <2>6. CASE /\ queue' = q /\ popped' = popped
             /\ state' = "DIE" => IsBroken(q) \/ eof'
    BY <2>3, <2>4, <2>6 DEF Answering
  <2>7. response = NoResponse
    BY <1>1, <1>2 DEF Wakeable
  <2> QED BY <2>2, <2>5, <2>6, <2>7 DEF ReadFacts
<1>3. CASE state = "WRITING" /\ \E err \in BOOLEAN, w \in Nat : WriteOnce(err, w)
  <2>1. PICK err \in BOOLEAN, w \in Nat : WriteOnce(err, w)
    BY <1>3
  <2>2. response # NoResponse
    BY <1>1, <1>3 DEF Wakeable
  <2>3. PICK k \in Nat, rest \in Seq(Octet) : WriteFacts(err, k, rest)
    BY <1>1, <2>1, <2>2, WriteSteps
  <2>4. buf' = buf /\ eof' = eof
    BY <2>3 DEF WriteFacts, input
  <2>5. CASE UNCHANGED <<queue, state, popped>>
    BY <1>3, <2>4, <2>5 DEF Answering
  <2>6. CASE IsComplete(queue) /\ Begin(queue, e + 1)
    <3>1. /\ \A i \in 1 .. Len(popped') : popped'[i] \in Complete
          /\ Orderly(queue') /\ state' = "WRITING"
      BY <1>1, <2>6, BegunAnswering DEF Answering
    <3> QED BY <2>4, <3>1 DEF Answering
  <2>7. CASE UNCHANGED <<queue, popped>> /\ state' = AfterResponses
    BY <2>4, <2>7 DEF Answering, AfterResponses
  <2> QED BY <2>3, <2>5, <2>6, <2>7 DEF WriteFacts
<1>4. CASE state' = "LOST" /\ UNCHANGED <<input, queue, output>>
  BY <1>4 DEF Answering, input, output
<1>5. CASE UNCHANGED vars
  BY <1>5 DEF Answering, vars, input, output
<1> QED BY <1>1, <1>2, <1>3, <1>4, <1>5, StepIsOne

(* All that is known of a session. *)
WholeInv ==
  SessionInv /\ GracefulClose /\ HistoryMatches /\ WireIsAnswers /\ RequestsIntact /\ Answering

LEMMA WholeInit == Init => WholeInv
<1> SUFFICES ASSUME Init PROVE WholeInv
  OBVIOUS
<1>1. Len(<<>>) = 0
  BY EmptySeq
<1>2. Answering
  BY <1>1 DEF Init, Answering, Orderly
<1> QED BY <1>2, InvInit, IntactInit DEF WholeInv

LEMMA WholeStep == WholeInv /\ [Next]_vars => WholeInv'
BY InvStep, HistoryStep, AnswerStep, IntactStep, AnsweringStep DEF WholeInv
-----------------------------------------------------------------------------
(* The requests asked for are those taken up, and those in the queue which *)
(* can be.                                                                 *)
LEMMA AskedIs ==
  ASSUME NEW u \in Seq(Request), NEW q \in Seq(Request), \A i \in 1 .. Len(u) : u[i] \in Complete
  PROVE  Only(u \o q, Complete) = u \o Only(q, Complete)
<1>1. Only(u \o q, Complete) = Only(u, Complete) \o Only(q, Complete)
  BY OnlyCat
<1>2. Only(u, Complete) = u
  BY OnlyAll
<1> QED BY <1>1, <1>2

(* What is asked for next, when a request has been taken up.               *)
LEMMA BegunAsked ==
  ASSUME NEW q \in Seq(Request), q # <<>>, NEW m \in Nat, Begin(q, m),
         popped \in Seq(Request), NEW a, a = popped' \o Only(queue', Complete)
  PROVE  /\ Len(popped) < Len(a)
         /\ popped' = Append(popped, a[Len(popped) + 1])
<1>1. popped' = Append(popped, Head(q)) /\ queue' \in Seq(Request) /\ popped' \in Seq(Request)
  BY Begun DEF Begin
<1>2. Head(q) \in Request
  BY HeadTailProperties
<1>3. Len(popped) \in Nat /\ Len(popped') = Len(popped) + 1 /\ popped'[Len(popped) + 1] = Head(q)
  BY <1>1, <1>2, AppendProperties, LenProperties
<1>4. Only(queue', Complete) \in Seq(Request)
  BY <1>1, OnlyType
<1> DEFINE u == popped'
           o == Only(queue', Complete)
<1>5. u \in Seq(Request) /\ o \in Seq(Request) /\ Len(u) \in Nat /\ Len(o) \in Nat
  BY <1>1, <1>4, LenProperties
<1>6. Len(u \o o) = Len(u) + Len(o) /\ \A i \in 1 .. Len(u) : (u \o o)[i] = u[i]
  <2> HIDE DEF u, o
  <2> QED BY <1>5, CatIs
<1>7. Len(popped) + 1 \in 1 .. Len(u)
  BY <1>3
<1>8. a = u \o o
  OBVIOUS
<1>9. u[Len(popped) + 1] = Head(q) /\ Len(u) = Len(popped) + 1
  BY <1>3
<1> HIDE DEF u, o
<1> QED BY <1>1, <1>3, <1>5, <1>6, <1>7, <1>8, <1>9

asked == Only(Heard, Complete)

LEMMA WholeAsked ==
  ASSUME WholeInv
  PROVE  /\ asked = popped \o Only(queue, Complete)
         /\ popped \in Seq(Request) /\ queue \in Seq(Request)
         /\ Only(queue, Complete) \in Seq(Request) /\ asked \in Seq(Request)
<1>1. popped \in Seq(Request) /\ queue \in Seq(Request) /\ popped \o queue = Heard
      /\ \A i \in 1 .. Len(popped) : popped[i] \in Complete
  BY DEF WholeInv, SessionInv, TypeOK, RequestsIntact, Answering
<1>2. asked = popped \o Only(queue, Complete)
  BY <1>1, AskedIs DEF asked
<1>3. Only(queue, Complete) \in Seq(Request)
  BY <1>1, OnlyType
<1>4. asked \in Seq(Request)
  BY ONLY <1>1, <1>2, <1>3, ConcatProperties
<1> QED BY <1>1, <1>2, <1>3, <1>4

(* A step of a session is a step of Pipeline, or none: what Promise!Next   *)
(* says, in the session's own terms.                                       *)
LEMMA PromiseStep ==
  ASSUME WholeInv, [Next]_vars
  PROVE  \/ /\ state \in {"READING", "WRITING"} /\ IsPrefix(asked, asked')
            /\ \/ /\ e' \div 2 = Len(popped)
                  /\ Len(popped) < Len(asked')
                  /\ popped' = Append(popped, asked'[Len(popped) + 1])
               \/ e' \div 2 = Len(popped) /\ popped' = popped
               \/ popped' = popped /\ e' \div 2 = e \div 2
         \/ UNCHANGED vars
<1>1. /\ TypeOK /\ FilesRead /\ Wakeable /\ HistoryMatches /\ e \in Nat
      /\ popped \in Seq(Request) /\ queue \in Seq(Request)
      /\ \A i \in 1 .. Len(popped) : popped[i] \in Complete
  BY DEF WholeInv, SessionInv, TypeOK, Answering
<1>2. /\ asked = popped \o Only(queue, Complete) /\ asked \in Seq(Request)
      /\ Only(queue, Complete) \in Seq(Request)
  BY WholeAsked
<1>3. WholeInv'
  BY WholeStep
<1>4. /\ asked' = popped' \o Only(queue', Complete) /\ asked' \in Seq(Request)
      /\ RequestsIntact'
  <2>1. popped' \in Seq(Request) /\ queue' \in Seq(Request) /\ popped' \o queue' = Heard'
        /\ RequestsIntact' /\ \A i \in 1 .. Len(popped') : popped'[i] \in Complete
    BY <1>3 DEF WholeInv, SessionInv, TypeOK, RequestsIntact, Answering
  <2>2. asked' = popped' \o Only(queue', Complete)
    BY <2>1, AskedIs DEF asked
  <2>3. Only(queue', Complete) \in Seq(Request)
    BY <2>1, OnlyType
  <2>4. asked' \in Seq(Request)
    BY ONLY <2>1, <2>2, <2>3, ConcatProperties
  <2> QED BY <2>1, <2>2, <2>4
<1>5. CASE state = "READING" /\ \E n \in Nat, end \in BOOLEAN : Feed(n, end) /\ ReadOnce(n, end)
  <2>1. PICK n \in Nat, end \in BOOLEAN : Feed(n, end) /\ ReadOnce(n, end)
    BY <1>5
  <2>2. PICK b \in Seq(Text), p \in Progress, q \in Seq(Request) : ReadFacts(n, end, b, p, q)
    BY <1>1, <2>1, ReadSteps
  <2>3. popped' \o queue' = popped \o q
    <3>1. CASE Answerable(q) /\ Begin(q, e)
      BY <1>1, <3>1, Begun DEF Answerable, IsComplete
    <3>2. CASE queue' = q /\ popped' = popped
      BY <3>2
    <3> QED BY <2>2, <3>1, <3>2 DEF ReadFacts
  <2>4. asked' = popped \o Only(q, Complete)
    <3>1. Heard' = popped \o q
      BY <1>4, <2>3 DEF RequestsIntact
    <3> QED BY <1>1, <3>1, AskedIs DEF asked
  <2>5. IsPrefix(asked, asked')
    <3>1. Continues(Only(queue, Complete), Only(q, Complete))
      BY <1>1, <2>2, ReadContinues
    <3>2. Only(q, Complete) \in Seq(Request)
      BY OnlyType
    <3>3. Continues(asked, asked')
      BY <1>1, <1>2, <2>4, <3>1, <3>2, ContinuesBehind
    <3> QED BY <1>2, <1>4, <3>3, ContinuesPrefix
  <2>6. response = NoResponse /\ Len(popped) = (e + 1) \div 2 /\ e % 2 = 0
    BY <1>1, <1>5 DEF Wakeable, HistoryMatches
  <2>7. CASE Answerable(q) /\ Begin(q, e)
    <3>1. q # <<>> /\ e' = e + 1
      BY <2>7 DEF Answerable, IsComplete, Begin
    <3>2. Len(popped) < Len(asked') /\ popped' = Append(popped, asked'[Len(popped) + 1])
      BY <1>1, <1>4, <2>7, <3>1, BegunAsked
    <3> QED BY <1>5, <2>5, <2>6, <3>1, <3>2
  <2>8. CASE e' = e /\ popped' = popped
    BY <1>5, <2>5, <2>8
  <2> QED BY <2>2, <2>7, <2>8 DEF ReadFacts
<1>6. CASE state = "WRITING" /\ \E err \in BOOLEAN, w \in Nat : WriteOnce(err, w)
  <2>1. PICK err \in BOOLEAN, w \in Nat : WriteOnce(err, w)
    BY <1>6
  <2>2. response # NoResponse /\ Len(popped) = (e + 1) \div 2 /\ e % 2 = 1
    BY <1>1, <1>6 DEF Wakeable, HistoryMatches
  <2>3. PICK k \in Nat, rest \in Seq(Octet) : WriteFacts(err, k, rest)
    BY <1>1, <2>1, <2>2, WriteSteps
  <2>4. IsPrefix(asked, asked')
    <3>1. asked' = asked
      BY <2>3 DEF WriteFacts, input, asked, Heard, Received
    <3> QED BY <1>2, <3>1, ContinuesSame, ContinuesPrefix
  <2>5. CASE IsComplete(queue) /\ Begin(queue, e + 1)
    <3>1. queue # <<>> /\ e' = (e + 1) + 1 /\ e + 1 \in Nat
      BY <1>1, <2>5 DEF IsComplete, Begin
    <3>2. Len(popped) < Len(asked') /\ popped' = Append(popped, asked'[Len(popped) + 1])
      BY <1>1, <1>4, <2>5, <3>1, BegunAsked
    <3>3. e' \div 2 = Len(popped)
      BY <1>1, <2>2, <3>1
    <3> QED BY <1>6, <2>4, <3>2, <3>3
  <2>6. CASE e' = e + 1 /\ popped' = popped
    BY <1>6, <2>2, <2>4, <2>6
  <2>7. CASE e' = e /\ popped' = popped
    BY <1>6, <2>4, <2>7
  <2> QED BY <2>3, <2>5, <2>6, <2>7 DEF WriteFacts
<1>7. CASE state \in {"READING", "WRITING"} /\ UNCHANGED <<input, queue, output>>
  <2>1. popped' = popped /\ e' = e /\ asked' = asked
    BY <1>7 DEF input, output, asked, Heard, Received
  <2>2. IsPrefix(asked, asked')
    BY <1>2, <2>1, ContinuesSame, ContinuesPrefix
  <2> QED BY <1>7, <2>1, <2>2
<1>8. CASE UNCHANGED vars
  BY <1>8
<1> QED BY <1>1, <1>5, <1>6, <1>7, <1>8, StepIsOne

(* Requests are answered one at a time, in order, once each, only when     *)
(* complete, and not after the session has closed (ImplementsPipeline).    *)
THEOREM KeepsItsPromise == Spec => ImplementsPipeline
<1>1. Init => Promise!Init
  <2> SUFFICES ASSUME Init PROVE Promise!Init
    OBVIOUS
  <2>1. asked = <<>>
    <3>1. asked = <<>> \o Only(<<>>, Complete)
      BY WholeInit, WholeAsked DEF Init
    <3>2. Only(<<>>, Complete) = <<>> /\ <<>> \o <<>> = <<>>
      BY OnlyNil, EmptySeq, ConcatEmptySeq
    <3> QED BY <3>1, <3>2
  <2>2. popped = <<>> /\ e \div 2 = 0 /\ state = "READING"
    BY DEF Init
  <2> QED BY <2>1, <2>2 DEF Promise!Init, asked
<1>2. WholeInv /\ [Next]_vars => [Promise!Next]_(Promise!vars)
  <2> SUFFICES ASSUME WholeInv, [Next]_vars PROVE [Promise!Next]_(Promise!vars)
    OBVIOUS
  <2>1. CASE UNCHANGED vars
    <3>1. UNCHANGED Promise!vars
      BY <2>1 DEF vars, input, output, Promise!vars, Heard, Received
    <3> QED BY <3>1
  <2>2. ASSUME IsPrefix(asked, asked')
        PROVE  Promise!IsPrefix(Only(Heard, Complete), Only(Heard, Complete)')
    BY <2>2 DEF IsPrefix, Promise!IsPrefix, asked
  <2>3. CASE ~UNCHANGED vars
    BY <2>2, <2>3, PromiseStep
       DEF Promise!Next, Promise!Hear, Promise!Begin, Promise!End, Promise!Keep, asked
  <2> QED BY <2>1, <2>3
<1> QED BY <1>1, <1>2, WholeInit, WholeStep, PTL DEF Spec, ImplementsPipeline, Promise!Spec
-----------------------------------------------------------------------------
(***************************************************************************)
(* Connection: the loop, epoll, the client and the session together.       *)
(***************************************************************************)

(* epoll watches for what the session waits for, unless the first MOD was  *)
(* missed; and it never watches for more than Entry::events says.          *)
Watched ==
  /\ IsOpen => (state = "WRITING" <=> response # NoResponse)
  /\ IsOpen /\ looping => state = "WRITING" /\ watched = "WRITING"
  /\ IsOpen /\ ~looping => watched = state \/ (Missed /\ cached = "WRITING")
  /\ watched = cached \/ watched = "READING"

(* Why a session takes its input for ended. *)
Ended ==
  /\ IsOpen /\ eof => got = Len(stream) \/ Len(buf) = Capacity \/ link = "reset" \/ Missed
  /\ state = "DIE" => got = Len(stream) \/ Excused

ConnInv == SessionInv /\ ConnTypeOK /\ Watched /\ Ended

LEMMA Quantities ==
  ASSUME SessionInv, ConnTypeOK
  PROVE  /\ Len(stream) \in Nat /\ got \in Nat /\ sent \in Nat /\ taken \in Nat /\ Len(wire) \in Nat
         /\ Len(buf) \in Nat /\ Len(buf) <= Capacity /\ Capacity \in Nat \ {0}
         /\ InRoom \in Nat \ {0} /\ OutRoom \in Nat \ {0}
         /\ got <= sent /\ sent <= Len(stream) /\ taken <= Len(wire)
<1>1. TypeOK /\ Reader
  BY DEF SessionInv
<1>2. stream \in Seq(Text) /\ buf \in Seq(Text) /\ wire \in Seq(Octet)
  BY <1>1, SessionAssumption DEF TypeOK, Line
<1>3. Len(stream) \in Nat /\ Len(buf) \in Nat /\ Len(wire) \in Nat
  BY <1>2, LenProperties
<1> QED BY <1>1, <1>3, SessionAssumption, ConnectionAssumption DEF TypeOK, ConnTypeOK, Reader
-----------------------------------------------------------------------------
(* The client's steps leave the session alone. *)
LEMMA ClientStep ==
  ASSUME ConnInv, Send \/ HalfClose \/ Receive \/ Leave
  PROVE  ConnInv' /\ UNCHANGED vars /\ (Missed => Missed')
<1>1. SessionInv /\ ConnTypeOK /\ Watched /\ Ended
  BY DEF ConnInv
<1>2. UNCHANGED vars /\ watched' = watched /\ cached' = cached /\ greedy' = greedy
  BY DEF Send, HalfClose, Receive, Leave
<1>3. /\ stream' = stream /\ got' = got /\ buf' = buf /\ eof' = eof /\ queue' = queue
      /\ response' = response /\ e' = e /\ state' = state /\ looping' = looping
      /\ wire' = wire /\ popped' = popped /\ due' = due
  BY <1>2 DEF vars, input, output
<1>4. SessionInv' /\ Watched' /\ (Missed => Missed')
  BY <1>1, <1>2, <1>3
     DEF SessionInv, TypeOK, FilesRead, Reader, Wakeable, Watched, Missed, IsOpen
<1>5. ConnTypeOK'
  <2>1. sent' \in got .. Len(stream) /\ sent' - got <= InRoom
    BY <1>1, <1>3, Quantities DEF ConnTypeOK, Send, HalfClose, Receive, Leave
  <2>2. taken' \in 0 .. Len(wire) /\ Len(wire) - taken' <= OutRoom
    BY <1>1, <1>3, Quantities DEF ConnTypeOK, Send, HalfClose, Receive, Leave
  <2>3. link' \in {"open", "half", "reset"} /\ (link' = "half" => sent' = Len(stream))
    BY <1>1 DEF ConnTypeOK, Send, HalfClose, Receive, Leave
  <2> QED BY <1>1, <1>2, <1>3, <2>1, <2>2, <2>3 DEF ConnTypeOK
<1>6. Ended'
  <2>1. link' = link \/ link' = "reset" \/ (link = "open" /\ link' = "half")
    BY DEF Send, HalfClose, Receive, Leave
  <2>2. Excused => Excused'
    BY <1>3, <2>1 DEF Excused, IsBroken
  <2> QED BY <1>1, <1>2, <1>3, <2>1, <2>2 DEF Ended, IsOpen, Missed
<1> QED BY <1>2, <1>4, <1>5, <1>6 DEF ConnInv

LEMMA ReadStep ==
  ASSUME ConnInv, ServeRead
  PROVE  ConnInv' /\ (Missed => Missed' /\ wire' = wire) /\ (~Missed => Read)
<1> DEFINE room == Capacity - Len(buf)
           n == IF link = "reset" THEN 0 ELSE IF sent - got < room THEN sent - got ELSE room
           end == n = 0
<1>1. SessionInv /\ ConnTypeOK /\ Watched /\ Ended /\ TypeOK /\ FilesRead /\ Reader /\ Wakeable
  BY DEF ConnInv, SessionInv
<1>2. /\ IsOpen /\ ~looping /\ watched = "READING" /\ Readable /\ Settle
      /\ ReadOnce(n, end)
      /\ sent' = sent /\ taken' = taken /\ link' = link /\ greedy' = greedy
  BY DEF ServeRead, Reported
<1>3. n \in Nat /\ end \in BOOLEAN /\ n <= sent - got /\ n <= room
  BY <1>1, Quantities
<1>4. Feed(n, end)
  BY <1>1, <1>3, Quantities DEF Feed
<1>5. /\ end => link = "reset" \/ got = Len(stream) \/ Len(buf) = Capacity
  <2>1. link # "open" \/ sent > got
    BY <1>2 DEF Readable
  <2> QED BY <1>1, <2>1, Quantities DEF ConnTypeOK
<1> HIDE DEF n, end
<1>6. PICK b \in Seq(Text), p \in Progress, q \in Seq(Request) : ReadFacts(n, end, b, p, q)
  BY <1>1, <1>2, <1>3, <1>4, ReadSteps
<1>7. TypeOK' /\ FilesRead'
  BY <1>1, <1>2, <1>3, <1>4, ReadTyped DEF IsOpen
<1>8. got' = got + n /\ looping' = FALSE /\ wire' = wire /\ stream' = stream
  BY <1>2, <1>6 DEF ReadFacts, TypeOK
<1>9. ConnTypeOK'
  <2>1. state' \in {"READING", "WRITING", "DIE", "LOST"}
    BY <1>7 DEF TypeOK
  <2>2. watched' \in {"READING", "WRITING"} /\ cached' \in Garbage \cup {"READING", "WRITING"}
    BY <1>1, <1>2, <2>1 DEF Settle, Ctl, IsOpen, ConnTypeOK
  <2>3. sent' \in got' .. Len(stream') /\ sent' - got' <= InRoom
    <3>1. /\ Len(stream) \in Nat /\ got \in Nat /\ sent \in Nat /\ InRoom \in Nat
          /\ sent <= Len(stream) /\ sent - got <= InRoom
      BY <1>1, Quantities DEF ConnTypeOK
    <3>2. sent' = sent /\ got' = got + n /\ Len(stream') = Len(stream) /\ n <= sent - got
      BY <1>2, <1>3, <1>8
    <3> QED BY <1>3, <3>1, <3>2
  <2>4. taken' \in 0 .. Len(wire') /\ Len(wire') - taken' <= OutRoom
    BY <1>1, <1>2, <1>8 DEF ConnTypeOK
  <2>5. link' \in {"open", "half", "reset"} /\ (link' = "half" => sent' = Len(stream'))
        /\ greedy' \in BOOLEAN
    BY <1>1, <1>2, <1>8 DEF ConnTypeOK
  <2> QED BY <2>2, <2>3, <2>4, <2>5 DEF ConnTypeOK
<1>10. CASE Missed
  <2>1. response # NoResponse /\ cached = "WRITING" /\ state = "WRITING"
    BY <1>1, <1>2, <1>10 DEF Watched, Missed
  <2>2. state' = "WRITING" /\ UNCHANGED <<response, e, popped>> /\ queue' = q
    BY <1>6, <2>1 DEF ReadFacts
  <2>3. watched' = "READING" /\ cached' = "WRITING"
    BY <1>2, <1>8, <2>1, <2>2 DEF Settle, Ctl, IsOpen
  <2>4. Missed' /\ Watched' /\ Ended'
    BY <1>8, <2>1, <2>2, <2>3 DEF Missed, Watched, Ended, IsOpen
  <2>5. Reader' /\ Wakeable'
    <3>1. Unterminated(buf') /\ Len(buf') <= Capacity /\ (~eof' => Len(buf') < Capacity)
      BY <1>1, <1>3, <1>6, ReadBuffers
    <3> QED BY <1>1, <2>1, <2>2, <3>1 DEF Reader, Wakeable
  <2> QED BY <1>7, <1>8, <1>9, <1>10, <2>4, <2>5 DEF ConnInv, SessionInv
<1>11. CASE ~Missed
  <2>1. state = "READING" /\ response = NoResponse /\ ~eof /\ Len(buf) < Capacity
    BY <1>1, <1>2, <1>11 DEF IsOpen, Missed, Wakeable
  <2>2. Read
    <3>1. n \in 0 .. Capacity
      BY <1>1, <1>3, Quantities
    <3> QED BY <1>2, <1>3, <1>4, <2>1, <3>1 DEF Read
  <2>3. Reader' /\ Wakeable'
    BY <1>1, <1>2, <1>3, <1>4, <2>1, ReadWakeable
  <2>4. state' \in {"READING", "WRITING", "DIE"} /\ (state' = "WRITING" <=> response' # NoResponse)
    <3>1. CASE Answerable(q) /\ Begin(q, e)
      BY <1>1, <3>1, Begun DEF TypeOK, Answerable, IsComplete
    <3>2. CASE ~(Answerable(q) /\ Begin(q, e))
      BY <1>6, <2>1, <3>2 DEF ReadFacts
    <3> QED BY <3>1, <3>2
  <2>5. Watched'
    <3>1. CASE IsOpen'
      <4>1. watched' = IF state' # cached THEN state' ELSE "READING"
        BY <1>2, <1>8, <3>1 DEF Settle, Ctl
      <4>2. cached' = state'
        BY <1>2, <1>8, <3>1 DEF Settle, Ctl
      <4> QED BY <1>8, <2>4, <3>1, <4>1, <4>2 DEF Watched, Missed, IsOpen
    <3>2. CASE ~IsOpen'
      BY <1>1, <1>2, <3>2 DEF Settle, Watched
    <3> QED BY <3>1, <3>2
  <2>6. eof' => got' = Len(stream') \/ Len(buf') = Capacity \/ link' = "reset"
    <3>1. CASE end
      <4>1. n = 0
        BY <1>6, <3>1 DEF ReadFacts
      <4> QED BY <1>1, <1>2, <1>5, <1>8, <2>1, <3>1, <4>1, Quantities
    <3>2. CASE ~end
      BY <1>6, <2>1, <3>2 DEF ReadFacts
    <3> QED BY <3>1, <3>2
  <2>7. state' = "DIE" => IsBroken(queue') \/ eof'
    <3>1. CASE Answerable(q) /\ Begin(q, e)
      BY <3>1 DEF Begin
    <3>2. CASE ~(Answerable(q) /\ Begin(q, e))
      BY <1>6, <2>1, <3>2 DEF ReadFacts
    <3> QED BY <3>1, <3>2
  <2>8. Ended'
    BY <2>6, <2>7 DEF Ended, Excused
  <2> QED BY <1>7, <1>9, <1>11, <2>2, <2>3, <2>5, <2>8 DEF ConnInv, SessionInv
<1> QED BY <1>10, <1>11

LEMMA WriteStep ==
  ASSUME ConnInv, ServeWrite
  PROVE  /\ ConnInv' /\ ~Missed
         /\ \/ Write /\ state = "WRITING" /\ \E w \in Nat : WriteOnce(FALSE, w)
            \/ WriteFails
<1> DEFINE room == OutRoom - (Len(wire) - taken)
           pending == Len(Pending(Wanted(FALSE)))
           w == IF pending < room THEN pending ELSE room
<1>1. SessionInv /\ ConnTypeOK /\ Watched /\ Ended /\ TypeOK /\ FilesRead /\ Reader /\ Wakeable
  BY DEF ConnInv, SessionInv
<1>2. /\ IsOpen /\ (looping \/ (~looping /\ watched = "WRITING")) /\ response # NoResponse /\ Settle
      /\ IF link = "reset" /\ pending > 0 THEN WriteFails ELSE WriteOnce(FALSE, w)
      /\ sent' = sent /\ taken' = taken /\ link' = link /\ greedy' = greedy
  BY DEF ServeWrite, Reported
<1>3. state = "WRITING" /\ watched = "WRITING" /\ cached = "WRITING" /\ ~Missed
  BY <1>1, <1>2 DEF Watched, Missed
<1>4. CASE link = "reset" /\ pending > 0
  <2>1. WriteFails /\ state' = "LOST"
    BY <1>2, <1>4 DEF WriteFails
  <2>2. /\ stream' = stream /\ got' = got /\ buf' = buf /\ eof' = eof /\ queue' = queue
        /\ response' = response /\ e' = e /\ looping' = looping
        /\ wire' = wire /\ popped' = popped /\ due' = due
    BY <2>1 DEF WriteFails, input, output
  <2>3. watched' = watched /\ cached' = cached
    BY <1>2, <2>1 DEF Settle, IsOpen
  <2>4. TypeOK' /\ FilesRead' /\ Reader' /\ Wakeable'
    BY <1>1, <2>1, <2>2 DEF TypeOK, FilesRead, Reader, Wakeable
  <2>5. ConnTypeOK' /\ Watched' /\ Ended'
    BY <1>1, <1>2, <2>1, <2>2, <2>3 DEF ConnTypeOK, Watched, Ended, IsOpen
  <2> QED BY <1>3, <2>1, <2>4, <2>5 DEF ConnInv, SessionInv
<1>5. CASE ~(link = "reset" /\ pending > 0)
  <2>1. WriteOnce(FALSE, w)
    BY <1>2, <1>5
  <2>2. w \in Nat /\ w <= room /\ w \in 0 .. pending
    <3>1. Pending(Wanted(FALSE)) \in Seq(Octet)
      BY <1>1, <1>2, PendingType
    <3>2. pending \in Nat
      BY <3>1, LenProperties
    <3> HIDE DEF pending
    <3>3. room \in Nat
      BY <1>1, Quantities DEF ConnTypeOK
    <3> QED BY <3>2, <3>3
  <2>3. Write
    BY <1>3, <2>1, <2>2 DEF Write
  <2> HIDE DEF w
  <2>4. PICK k \in Nat, rest \in Seq(Octet) : WriteFacts(FALSE, k, rest)
    BY <1>1, <1>2, <2>1, <2>2, WriteSteps
  <2>5. Len(wire') = Len(wire) + w
    BY <1>1, <1>2, <2>1, <2>2, WriteSteps
  <2>6. TypeOK' /\ FilesRead'
    BY <1>1, <1>2, <1>3, <2>1, <2>2, WriteTyped
  <2>7. Reader' /\ Wakeable'
    BY <1>1, <1>3, <2>1, <2>2, WriteWakeable
  <2>8. stream' = stream /\ got' = got /\ buf' = buf /\ eof' = eof
    BY <2>4 DEF WriteFacts, input
  <2>9. /\ state' \in {"READING", "WRITING", "DIE"}
        /\ (state' = "WRITING" <=> response' # NoResponse)
        /\ (looping' => state' = "WRITING")
        /\ (state' = "DIE" => eof)
    <3>1. CASE response' = Advanced(k, FALSE, rest) /\ UNCHANGED <<queue, state, e, popped, due>>
      <4>1. response' # NoResponse
        BY <1>1, <1>2, <3>1, AdvancedType DEF TypeOK
      <4> QED BY <1>3, <3>1, <4>1
    <3>2. CASE IsComplete(queue) /\ Begin(queue, e + 1)
      <4>1. queue \in Seq(Request) /\ queue # <<>> /\ e + 1 \in Nat /\ popped \in Seq(Request)
        BY <1>1, <3>2 DEF TypeOK, IsComplete
      <4> QED BY <3>2, <4>1, Begun
    <3>3. CASE response' = NoResponse /\ state' = AfterResponses /\ looping' = FALSE
      BY <3>3 DEF AfterResponses
    <3> QED BY <2>4, <3>1, <3>2, <3>3 DEF WriteFacts
  <2>10. ConnTypeOK'
    <3>1. watched' \in {"READING", "WRITING"} /\ cached' \in Garbage \cup {"READING", "WRITING"}
      BY <1>1, <1>2, <2>9 DEF Settle, Ctl, IsOpen, ConnTypeOK
    <3>2. taken' \in 0 .. Len(wire') /\ Len(wire') - taken' <= OutRoom
      BY <1>1, <1>2, <2>2, <2>5, Quantities
    <3> QED BY <1>1, <1>2, <2>8, <3>1, <3>2 DEF ConnTypeOK
  <2>11. Watched'
    <3>1. CASE looping' \/ ~IsOpen'
      <4>1. watched' = watched /\ cached' = cached
        BY <1>2, <3>1 DEF Settle
      <4> QED BY <1>3, <2>9, <3>1, <4>1 DEF Watched, Missed, IsOpen
    <3>2. CASE ~looping' /\ IsOpen'
      <4>1. (watched' = IF state' # cached THEN state' ELSE watched) /\ cached' = state'
        BY <1>2, <3>2 DEF Settle, Ctl
      <4> QED BY <1>3, <2>9, <3>2, <4>1 DEF Watched, Missed, IsOpen
    <3>3. looping' \in BOOLEAN
      BY <2>6 DEF TypeOK
    <3> QED BY <3>1, <3>2, <3>3
  <2>12. Ended'
    <3>1. eof => got = Len(stream) \/ Len(buf) = Capacity \/ link = "reset"
      BY <1>1, <1>2, <1>3 DEF Ended
    <3> QED BY <1>2, <2>8, <2>9, <3>1 DEF Ended, Excused
  <2> QED BY <1>3, <2>1, <2>2, <2>3, <2>6, <2>7, <2>10, <2>11, <2>12 DEF ConnInv, SessionInv
<1> QED BY <1>4, <1>5
-----------------------------------------------------------------------------
LEMMA ConnStep ==
  ASSUME ConnInv, [ConnNext]_cvars
  PROVE  /\ ConnInv'
         /\ [Missed \/ Next]_vars
         /\ Missed => Missed'
         /\ [Missed /\ IsOpen' => Missed' /\ wire' = wire]_cvars
<1>1. CASE Send \/ HalfClose \/ Receive \/ Leave
  <2>1. ConnInv' /\ UNCHANGED vars /\ (Missed => Missed')
    BY <1>1, ClientStep
  <2> QED BY <2>1 DEF vars, output
<1>2. CASE ServeRead
  BY <1>2, ReadStep DEF Next
<1>3. CASE ServeWrite
  BY <1>3, WriteStep DEF Next
<1>4. CASE UNCHANGED cvars
  <2>1. /\ UNCHANGED vars
        /\ stream' = stream /\ got' = got /\ buf' = buf /\ eof' = eof /\ queue' = queue
        /\ response' = response /\ e' = e /\ state' = state /\ looping' = looping
        /\ wire' = wire /\ popped' = popped /\ due' = due
        /\ sent' = sent /\ taken' = taken /\ link' = link /\ greedy' = greedy
        /\ watched' = watched /\ cached' = cached
    BY <1>4 DEF cvars, conn, vars, input, output
  <2>2. SessionInv'
    BY <2>1 DEF ConnInv, SessionInv, TypeOK, FilesRead, Reader, Wakeable
  <2>3. ConnTypeOK' /\ Watched' /\ Ended'
    BY <2>1 DEF ConnInv, ConnTypeOK, Watched, Ended, Missed, Excused, IsBroken, IsOpen
  <2> QED BY <1>4, <2>1, <2>2, <2>3 DEF ConnInv, Missed
<1> QED BY <1>1, <1>2, <1>3, <1>4 DEF ConnNext

LEMMA ConnStart == ConnInit => ConnInv
<1> SUFFICES ASSUME ConnInit PROVE ConnInv
  OBVIOUS
<1>1. SessionInv /\ Init
  BY InvInit DEF ConnInit
<1>2. Len(<<>>) = 0 /\ Len(stream) \in Nat
  <2>1. stream \in Seq(Text)
    BY <1>1, SessionAssumption DEF SessionInv, TypeOK
  <2> QED BY <2>1, LenProperties, EmptySeq
<1>3. ConnTypeOK
  BY <1>1, <1>2, ConnectionAssumption DEF ConnInit, Init, ConnTypeOK
<1>4. Watched /\ Ended
  BY <1>1 DEF ConnInit, Init, Watched, Ended, IsOpen
<1> QED BY <1>1, <1>3, <1>4 DEF ConnInv

LEMMA ConnSafe == ConnSpec => []ConnInv
BY ConnStart, ConnStep, PTL DEF ConnSpec

(* The sockets' buffers hold no more than they have room for, and the      *)
(* variables have their types (ConnTypeOK).                                *)
THEOREM ConnTyped == ConnSpec => []ConnTypeOK
<1>1. ConnInv => ConnTypeOK
  BY DEF ConnInv
<1> QED BY <1>1, ConnSafe, PTL

(* What read() and write() assume of their caller (session.cc:67-69,       *)
(* 107-109) holds in the loop, with this client and this epoll, unless the *)
(* first MOD was missed (ImplementsSession).                               *)
THEOREM CalledAsAssumed == ConnSpec => ImplementsSession
<1>1. ConnInit => Init
  BY DEF ConnInit
<1> QED BY <1>1, ConnSafe, ConnStep, PTL DEF ConnSpec, ImplementsSession

(* Once missed, the MOD is never made up for (MissedIsMute): server.cc:169 *)
(* then compares the session's state with itself.                          *)
THEOREM MissedForGood == ConnSpec => MissedIsMute
BY ConnSafe, ConnStep, PTL DEF ConnSpec, MissedIsMute

(* Only a client which does not read while it writes can be deadlocked     *)
(* (DeadlockOnlyByGreed): the answer to the question in TODO.              *)
THEOREM ReadersDoNotDeadlock == ConnSpec => []DeadlockOnlyByGreed
<1>1. ConnInv => DeadlockOnlyByGreed
  <2> SUFFICES ASSUME ConnInv, Stalled
               PROVE  /\ greedy /\ sent < Len(stream) /\ response # NoResponse
                      /\ sent - got = InRoom /\ Len(wire) - taken = OutRoom
    BY DEF DeadlockOnlyByGreed
  <2>1. SessionInv /\ ConnTypeOK /\ Watched
    BY DEF ConnInv
  <2>2. watched = "WRITING" /\ response # NoResponse
    <3>1. watched # "READING"
      BY <2>1, Quantities DEF Stalled, Readable, ConnTypeOK
    <3>2. watched = "WRITING" /\ IsOpen /\ ~looping
      BY <2>1, <3>1 DEF ConnTypeOK, Stalled
    <3> QED BY <2>1, <3>2 DEF Watched, Missed
  <2>3. Len(wire) - taken = OutRoom
    BY <2>1, <2>2, Quantities DEF Stalled, Writable, ConnTypeOK
  <2>4. greedy /\ sent < Len(stream)
    BY <2>1, <2>3, Quantities DEF Stalled, ConnTypeOK
  <2>5. sent - got = InRoom
    BY <2>1, <2>4, Quantities DEF Stalled, ConnTypeOK
  <2> QED BY <2>2, <2>3, <2>4, <2>5
<1> QED BY <1>1, ConnSafe, PTL

(* A server which closes the connection has read what was sent, unless it  *)
(* gave up on the client or the client on it (CloseDrained).               *)
THEOREM ClosesDrained == ConnSpec => []CloseDrained
<1>1. ConnInv => CloseDrained
  <2> SUFFICES ASSUME ConnInv, state = "DIE" PROVE sent = got \/ Excused
    BY DEF CloseDrained
  <2>1. got = Len(stream) \/ Excused
    BY DEF ConnInv, Ended
  <2>2. SessionInv /\ ConnTypeOK
    BY DEF ConnInv
  <2> QED BY <2>1, <2>2, Quantities
<1> QED BY <1>1, ConnSafe, PTL
-----------------------------------------------------------------------------
LEMMA FilesNil == Files(<<>>) = <<>>
<1>1. Only(<<>>, Complete) = <<>>
  BY OnlyNil
<1>2. DOMAIN <<>> = {}
  BY EmptySeq
<1>3. Files(<<>>) = FlattenSeq(<<>>)
  <2>1. \A a : a = <<>> =>
          [i \in DOMAIN a |-> Octets(a[i].line, 0, FileSize(a[i].line))] = <<>>
    BY <1>2
  <2> QED BY <1>1, <2>1 DEF Files
<1> QED BY <1>3, FlattenNil

(* One file more for one request more. *)
LEMMA FilesSnoc ==
  ASSUME NEW q \in Seq(Request), NEW r \in Complete, \A i \in 1 .. Len(q) : q[i] \in Complete
  PROVE  /\ Files(Append(q, r)) = Files(q) \o Octets(r.line, 0, FileSize(r.line))
         /\ Files(q) \in Seq(Octet)
         /\ Octets(r.line, 0, FileSize(r.line)) \in Seq(Octet)
<1> DEFINE File(x) == Octets(x.line, 0, FileSize(x.line))
           Each(s) == [i \in DOMAIN s |-> File(s[i])]
           n == Len(q)
           c == Append(q, r)
<1>1. ASSUME NEW x \in Request PROVE File(x) \in Seq(Octet)
  <2>1. x.line \in Line /\ 0 \in Nat /\ FileSize(x.line) \in 0 .. FileSize(x.line)
    BY FileSizeIsNat DEF Request
  <2> QED BY <2>1, OctetsType
<1>2. r \in Request
  BY DEF Complete
<1>3. /\ c \in Seq(Request) /\ n \in Nat /\ Len(c) = n + 1 /\ c[n + 1] = r
      /\ \A i \in 1 .. n : c[i] = q[i]
      /\ DOMAIN q = 1 .. n /\ DOMAIN c = 1 .. n + 1
  BY <1>2, AppendProperties, LenProperties
<1>4. Only(q, Complete) = q
  BY OnlyAll
<1>5. Only(c, Complete) = c
  <2>1. Only(c, Complete) = Append(Only(q, Complete), r)
    BY <1>2, OnlySnoc
  <2> QED BY <1>4, <2>1
<1>6. Files(q) = FlattenSeq(Each(q)) /\ Files(c) = FlattenSeq(Each(c))
  <2> HIDE DEF c
  <2> QED BY <1>4, <1>5 DEF Files
<1> HIDE DEF File, c
<1>7. Each(q) \in Seq(Seq(Octet)) /\ Len(Each(q)) = n
  <2>1. \A i \in 1 .. n : q[i] \in Request
    BY <1>3, ElementOfSeq
  <2>2. Each(q) \in [1 .. n -> Seq(Octet)]
    BY <1>1, <1>3, <2>1
  <2> HIDE DEF Each
  <2> QED BY <1>3, <2>2
<1>8. Each(c) = Append(Each(q), File(r))
  <2> DEFINE y == Each(q)
             z == Each(c)
             u == Append(y, File(r))
  <2>1. /\ u \in Seq(Seq(Octet)) /\ Len(u) = n + 1 /\ u[n + 1] = File(r)
        /\ \A i \in 1 .. n : u[i] = y[i]
    <3>1. y \in Seq(Seq(Octet)) /\ Len(y) = n /\ File(r) \in Seq(Octet)
      BY <1>1, <1>2, <1>7
    <3> HIDE DEF y
    <3> QED BY <3>1, AppendProperties
  <2>2. \A i \in 1 .. n : y[i] = File(q[i])
    BY <1>3
  <2>3. z \in Seq(Seq(Octet)) /\ Len(z) = n + 1 /\ \A i \in 1 .. n + 1 : z[i] = File(c[i])
    <3>1. \A i \in 1 .. n + 1 : c[i] \in Request
      BY <1>3, ElementOfSeq
    <3>2. z \in [1 .. n + 1 -> Seq(Octet)] /\ \A i \in 1 .. n + 1 : z[i] = File(c[i])
      BY <1>1, <1>3, <3>1
    <3> HIDE DEF z
    <3> QED BY <1>3, <3>2
  <2>4. \A i \in 1 .. n + 1 : z[i] = u[i]
    <3> HIDE DEF y, z, u
    <3>1. \A i \in 1 .. n + 1 : i = n + 1 \/ i \in 1 .. n
      BY <1>3
    <3> QED BY <1>3, <2>1, <2>2, <2>3, <3>1
  <2> HIDE DEF y, z, u
  <2>5. z = u
    BY <2>1, <2>3, <2>4, SeqEqual
  <2> QED BY <2>5 DEF y, z, u
<1> HIDE DEF Each
<1>9. FlattenSeq(Append(Each(q), File(r))) = FlattenSeq(Each(q)) \o File(r)
  BY <1>1, <1>2, <1>7, FlattenSnoc
<1>10. FlattenSeq(Each(q)) \in Seq(Octet)
  BY <1>7, FlattenType
<1> QED BY <1>1, <1>2, <1>6, <1>8, <1>9, <1>10 DEF File, c
(* The responses ended have sent the files asked for, or have but for the  *)
(* one in progress.                                                        *)
Paid ==
  IF response = NoResponse
    THEN due = Files(popped)
    ELSE /\ ~response.err
         /\ due \o Octets(response.line, 0, FileSize(response.line)) = Files(popped)

(* A request is taken up, and a file more is due. *)
LEMMA PaidBegun ==
  ASSUME NEW q \in Seq(Request), IsComplete(q), NEW m \in Nat, Begin(q, m), popped \in Seq(Request),
         \A i \in 1 .. Len(popped) : popped[i] \in Complete, due' = Files(popped)
  PROVE  Paid'
<1>1. q # <<>> /\ Head(q) \in Complete
  BY HeadTailProperties DEF IsComplete, Complete
<1>2. response' # NoResponse /\ ~response'.err /\ response'.line = Head(q).line
  BY <1>1, Begun
<1>3. popped' = Append(popped, Head(q))
  BY DEF Begin
<1>4. Files(popped') = Files(popped) \o Octets(Head(q).line, 0, FileSize(Head(q).line))
  BY <1>1, <1>3, FilesSnoc
<1> QED BY <1>2, <1>4 DEF Paid

(* Unless the first MOD was missed, a session has what it takes to answer  *)
(* in full.                                                                *)
LEMMA PaidStep ==
  ASSUME ConnInv, ~Missed, WholeInv, Paid, [ConnNext]_cvars
  PROVE  WholeInv' /\ Paid'
<1>1. /\ TypeOK /\ FilesRead /\ Wakeable /\ popped \in Seq(Request) /\ queue \in Seq(Request)
      /\ e \in Nat /\ \A i \in 1 .. Len(popped) : popped[i] \in Complete
  BY DEF WholeInv, SessionInv, TypeOK, Answering
<1>2. WholeInv'
  BY ConnStep, WholeStep
<1> SUFFICES Paid'
  BY <1>2
<1>3. ASSUME UNCHANGED vars PROVE Paid'
  BY <1>3 DEF vars, output, Paid
<1>4. CASE ServeRead
  <2>1. Read
    BY <1>4, ReadStep
  <2>2. PICK n \in Nat, end \in BOOLEAN : Feed(n, end) /\ ReadOnce(n, end)
    <3>1. 0 .. Capacity \subseteq Nat
      OBVIOUS
    <3> QED BY <2>1, <3>1 DEF Read
  <2>3. PICK b \in Seq(Text), p \in Progress, q \in Seq(Request) : ReadFacts(n, end, b, p, q)
    BY <1>1, <2>2, ReadSteps
  <2>4. response = NoResponse /\ due' = due /\ due = Files(popped)
    BY <1>1, <2>1, <2>3 DEF Read, Wakeable, ReadFacts, Paid
  <2>5. CASE Answerable(q) /\ Begin(q, e)
    BY <1>1, <2>4, <2>5, PaidBegun DEF Answerable
  <2>6. CASE response' = response /\ popped' = popped
    BY <2>4, <2>6 DEF Paid
  <2> QED BY <2>3, <2>5, <2>6 DEF ReadFacts
<1>5. CASE ServeWrite
  <2>1. CASE WriteFails
    BY <2>1 DEF WriteFails, output, Paid
  <2>2. CASE state = "WRITING" /\ \E w \in Nat : WriteOnce(FALSE, w)
    <3>1. PICK w \in Nat : WriteOnce(FALSE, w)
      BY <2>2
    <3>2. response # NoResponse /\ response \in Response
      BY <1>1, <2>2 DEF Wakeable, TypeOK
    <3>3. PICK k \in Nat, rest \in Seq(Octet) : WriteFacts(FALSE, k, rest)
      BY <1>1, <3>1, <3>2, WriteSteps
    <3>4. /\ ~response.err
          /\ due \o Octets(response.line, 0, FileSize(response.line)) = Files(popped)
      BY <3>2 DEF Paid
    <3>5. CASE response' = Advanced(k, FALSE, rest) /\ UNCHANGED <<popped, due>>
      <4>1. response' # NoResponse /\ response'.line = response.line /\ ~response'.err
        BY <3>2, <3>4, <3>5, AdvancedType
      <4> QED BY <3>4, <3>5, <4>1 DEF Paid
    <3>6. IsDone(k, rest) => due' = Files(popped)
      BY <3>3, <3>4 DEF WriteFacts
    <3>7. CASE IsDone(k, rest) /\ IsComplete(queue) /\ Begin(queue, e + 1)
      <4>1. e + 1 \in Nat
        BY <1>1
      <4> QED BY <1>1, <3>6, <3>7, <4>1, PaidBegun
    <3>8. CASE IsDone(k, rest) /\ response' = NoResponse /\ popped' = popped
      BY <3>6, <3>8 DEF Paid
    <3> QED BY <3>3, <3>5, <3>7, <3>8 DEF WriteFacts
  <2> QED BY <1>5, <2>1, <2>2, WriteStep
<1>6. CASE Send \/ HalfClose \/ Receive \/ Leave
  BY <1>3, <1>6, ClientStep
<1>7. CASE UNCHANGED cvars
  BY <1>3, <1>7 DEF cvars
<1> QED BY <1>4, <1>5, <1>6, <1>7 DEF ConnNext

(* A queue whose first request is not complete has none to answer.         *)
LEMMA NoneLeft ==
  ASSUME NEW q \in Seq(Request), Orderly(q), ~IsComplete(q)
  PROVE  Only(q, Complete) = <<>>
<1>1. Len(q) \in Nat /\ (q # <<>> => Len(q) >= 1 /\ Head(q) = q[1])
  BY LenProperties, EmptySeq
<1>2. ASSUME NEW i \in 1 .. Len(q) PROVE q[i] \notin Complete
  <2>1. q # <<>> /\ ~q[1].complete
    BY <1>1, EmptySeq DEF IsComplete
  <2>2. ~(1 \in 1 .. Len(q) - 1)
    BY <2>1 DEF Orderly
  <2>3. i = 1
    BY <1>1, <2>2
  <2> QED BY <2>1, <2>3 DEF Complete
<1> QED BY <1>2, OnlyNone

(* When the server closes the connection the client has been sent every    *)
(* file it asked for, whole and in order (AnsweredInFull), however small   *)
(* the buffers are, however the input was cut and whichever way the        *)
(* buffers filled up.                                                      *)
THEOREM AnswersInFull == ConnSpec => []AnsweredInFull
<1>1. ConnInit => WholeInv /\ Paid
  <2> SUFFICES ASSUME ConnInit PROVE WholeInv /\ Paid
    OBVIOUS
  <2>1. Init
    BY DEF ConnInit
  <2> QED BY <2>1, WholeInit, FilesNil DEF Init, Paid
<1>2. ConnInv /\ (Missed \/ (WholeInv /\ Paid)) /\ [ConnNext]_cvars
        => (Missed \/ (WholeInv /\ Paid))'
  BY PaidStep, ConnStep
<1>3. ConnInv /\ (Missed \/ (WholeInv /\ Paid)) => AnsweredInFull
  <2> SUFFICES ASSUME ConnInv, Missed \/ (WholeInv /\ Paid), state = "DIE", ~Excused
               PROVE  wire = Files(Asked)
    BY DEF AnsweredInFull
  <2>1. WholeInv /\ Paid /\ got = Len(stream) /\ Len(buf) # Capacity /\ ~IsBroken(queue)
    BY DEF Missed, ConnInv, Ended, Excused
  <2>2. response = NoResponse /\ ~IsComplete(queue) /\ eof /\ buf = <<>>
    BY <2>1 DEF WholeInv, GracefulClose, Answering, IsComplete, IsBroken
  <2>3. wire = Files(popped)
    BY <2>1, <2>2 DEF WholeInv, WireIsAnswers, Paid
  <2>4. popped \o queue = Asked
    BY <2>1, <2>2 DEF WholeInv, RequestsIntact, Heard, Received, Asked
  <2>5. /\ popped \in Seq(Request) /\ queue \in Seq(Request) /\ Orderly(queue)
        /\ \A i \in 1 .. Len(popped) : popped[i] \in Complete
    BY <2>1 DEF WholeInv, SessionInv, TypeOK, Answering
  <2>6. Only(Asked, Complete) = popped \o Only(queue, Complete)
    BY <2>4, <2>5, AskedIs
  <2>7. Only(queue, Complete) = <<>>
    BY <2>2, <2>5, NoneLeft
  <2>8. Only(Asked, Complete) = Only(popped, Complete)
    <3>1. popped \o <<>> = popped
      BY <2>5, ConcatEmptySeq
    <3>2. Only(popped, Complete) = popped
      BY <2>5, OnlyAll
    <3> QED BY <2>6, <2>7, <3>1, <3>2
  <2>9. Files(Asked) = Files(popped)
    BY <2>8 DEF Files
  <2> QED BY <2>3, <2>9
<1> QED BY <1>1, <1>2, <1>3, ConnSafe, PTL DEF ConnSpec
=============================================================================
