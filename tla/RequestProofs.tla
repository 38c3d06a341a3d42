----------------------------- MODULE RequestProofs -----------------------------
(***************************************************************************)
(* Theorems about Request, for every alphabet, all lines, any number of    *)
(* them, and offsets of any width which a line is shorter than.            *)
(***************************************************************************)
EXTENDS Request, SequenceProofs

(* A part of a line. *)
LEMMA BetweenIs ==
  ASSUME NEW A, NEW s \in Seq(A), NEW a \in Nat \ {0}, NEW b \in Nat, a <= b, b <= Len(s) + 1
  PROVE  /\ Between(s, a, b) \in Seq(A) /\ Len(Between(s, a, b)) = b - a
         /\ \A i \in 1 .. b - a : Between(s, a, b)[i] = s[a + i - 1]
<1>1. Len(s) \in Nat /\ DOMAIN s = 1 .. Len(s) /\ \A i \in 1 .. Len(s) : s[i] \in A
  BY LenProperties, ElementOfSeq
<1>2. b - 1 \in a - 1 .. Len(s) /\ a \in 1 .. Len(s) + 1
  BY <1>1
<1> QED BY <1>1, <1>2, SubSeqProperties DEF Between
-----------------------------------------------------------------------------
(* Where a search ends. *)
LEMMA FindIs ==
  ASSUME NEW line \in Seq(Symbol), NEW i \in 1 .. Len(line) + 1, NEW S
  PROVE  /\ Find(line, i, S) \in i .. Len(line) + 1
         /\ Find(line, i, S) <= Len(line) => line[Find(line, i, S)] \in S
         /\ \A j \in i .. Find(line, i, S) - 1 : line[j] \notin S
<1> DEFINE P == {j \in i .. Len(line) : line[j] \in S} \cup {Len(line) + 1}
<1>1. Len(line) \in Nat /\ P \in SUBSET Nat /\ P # {}
  BY LenProperties
<1>2. Find(line, i, S) = Min(P)
  BY DEF Find
<1>3. Min(P) \in P /\ \A j \in P : Min(P) <= j
  <2> HIDE DEF P
  <2> QED BY <1>1, MinIs
<1>4. ASSUME NEW j \in i .. Min(P) - 1 PROVE line[j] \notin S
  <2>1. j \in i .. Len(line) /\ ~(Min(P) <= j)
    BY <1>1, <1>3
  <2> QED BY <1>3, <2>1
<1>5. Min(P) \in i .. Len(line) + 1 /\ (Min(P) <= Len(line) => line[Min(P)] \in S)
  BY <1>1, <1>3
<1> QED BY <1>2, <1>4, <1>5

(* It ends at the first place which will do. *)
LEMMA FindHere ==
  ASSUME NEW line \in Seq(Symbol), NEW i \in 1 .. Len(line) + 1, NEW S,
         NEW k \in i .. Len(line) + 1, k <= Len(line) => line[k] \in S,
         \A j \in i .. k - 1 : line[j] \notin S
  PROVE  Find(line, i, S) = k
<1> DEFINE f == Find(line, i, S)
<1>1. Len(line) \in Nat
  BY LenProperties
<1>2. /\ f \in i .. Len(line) + 1 /\ (f <= Len(line) => line[f] \in S)
      /\ \A j \in i .. f - 1 : line[j] \notin S
  BY FindIs
<1> HIDE DEF f
<1>3. ~ (f < k)
  <2>1. SUFFICES ASSUME f < k PROVE FALSE
    OBVIOUS
  <2>2. f \in i .. k - 1 /\ f <= Len(line)
    BY <1>1, <1>2, <2>1
  <2> QED BY <1>2, <2>2
<1>4. ~ (k < f)
  <2>1. SUFFICES ASSUME k < f PROVE FALSE
    OBVIOUS
  <2>2. k \in i .. f - 1 /\ k <= Len(line)
    BY <1>1, <1>2, <2>1
  <2> QED BY <1>2, <2>2
<1>5. f = k
  BY <1>1, <1>2, <1>3, <1>4
<1> QED BY <1>5 DEF f

(* White space to the right is dropped. *)
LEMMA TrimIs ==
  ASSUME NEW line \in Seq(Symbol), NEW a \in Nat \ {0}, NEW b \in a .. Len(line) + 1
  PROVE  /\ trimr(line, a, b) \in a .. b
         /\ a < trimr(line, a, b) => line[trimr(line, a, b) - 1] \notin Blank
         /\ \A j \in trimr(line, a, b) .. b - 1 : line[j] \in Blank
<1> DEFINE P == {j \in a .. b - 1 : line[j] \notin Blank} \cup {a - 1}
<1>1. Len(line) \in Nat /\ P \in SUBSET (0 .. Len(line) + 1) /\ P # {}
  BY LenProperties
<1>2. trimr(line, a, b) = Max(P) + 1
  BY DEF trimr
<1>3. Max(P) \in P /\ \A j \in P : j <= Max(P)
  <2>1. Len(line) + 1 \in Nat
    BY <1>1
  <2> HIDE DEF P
  <2> QED BY <1>1, <2>1, MaxIs
<1>4. ASSUME NEW j \in Max(P) + 1 .. b - 1 PROVE line[j] \in Blank
  <2>1. j \in a .. b - 1 /\ ~(j <= Max(P))
    BY <1>1, <1>3
  <2> QED BY <1>3, <2>1
<1>5. /\ Max(P) + 1 \in a .. b
      /\ a < Max(P) + 1 => line[(Max(P) + 1) - 1] \notin Blank
  BY <1>1, <1>3
<1> QED BY <1>2, <1>4, <1>5
-----------------------------------------------------------------------------
(* The name in a header line, and where its colon should be. *)
NameAt(line)  == ws(line, 1)
EndAt(line)   == token(line, NameAt(line))
ColonAt(line) == ws(line, EndAt(line))

Good(line) == ColonAt(line) <= Len(line) /\ line[ColonAt(line)] = ":"
Name(line) == Between(line, NameAt(line), EndAt(line))

LEMMA PartsAre ==
  ASSUME NEW line \in Seq(Symbol)
  PROVE  /\ NameAt(line) \in 1 .. Len(line) + 1
         /\ EndAt(line) \in NameAt(line) .. Len(line) + 1
         /\ ColonAt(line) \in EndAt(line) .. Len(line) + 1
         /\ \A j \in 1 .. NameAt(line) - 1 : line[j] \in Blank
         /\ NameAt(line) <= Len(line) => line[NameAt(line)] \notin Blank
         /\ \A j \in NameAt(line) .. EndAt(line) - 1 : line[j] \in Symbol \ (Blank \cup Separator)
         /\ EndAt(line) <= Len(line) => line[EndAt(line)] \in Blank \cup Separator
         /\ \A j \in EndAt(line) .. ColonAt(line) - 1 : line[j] \in Blank
<1>1. Len(line) \in Nat /\ \A i \in 1 .. Len(line) : line[i] \in Symbol
  BY LenProperties, ElementOfSeq
<1>2. 1 \in 1 .. Len(line) + 1
  BY <1>1
<1>3. /\ NameAt(line) \in 1 .. Len(line) + 1
      /\ NameAt(line) <= Len(line) => line[NameAt(line)] \in Symbol \ Blank
      /\ \A j \in 1 .. NameAt(line) - 1 : line[j] \notin Symbol \ Blank
  BY <1>2, FindIs DEF NameAt, ws
<1>4. /\ EndAt(line) \in NameAt(line) .. Len(line) + 1
      /\ EndAt(line) <= Len(line) => line[EndAt(line)] \in Blank \cup Separator
      /\ \A j \in NameAt(line) .. EndAt(line) - 1 : line[j] \notin Blank \cup Separator
  BY <1>3, FindIs DEF EndAt, token
<1>5. EndAt(line) \in 1 .. Len(line) + 1
  BY <1>1, <1>3, <1>4
<1>6. /\ ColonAt(line) \in EndAt(line) .. Len(line) + 1
      /\ \A j \in EndAt(line) .. ColonAt(line) - 1 : line[j] \notin Symbol \ Blank
  BY <1>5, FindIs DEF ColonAt, ws
<1>7. /\ \A j \in 1 .. NameAt(line) - 1 : j \in 1 .. Len(line)
      /\ \A j \in NameAt(line) .. EndAt(line) - 1 : j \in 1 .. Len(line)
      /\ \A j \in EndAt(line) .. ColonAt(line) - 1 : j \in 1 .. Len(line)
  BY <1>1, <1>3, <1>4, <1>6
<1> QED BY <1>1, <1>3, <1>4, <1>6, <1>7

(* A line is taken for a header when it is one. *)
LEMMA GoodIs ==
  ASSUME NEW line \in Seq(Symbol)
  PROVE  Good(line) <=> IsHeader(line)
<1> DEFINE N == NameAt(line)  E == EndAt(line)  C == ColonAt(line)
<1>1. Len(line) \in Nat /\ \A i \in 1 .. Len(line) : line[i] \in Symbol
  BY LenProperties, ElementOfSeq
<1>2. /\ N \in 1 .. Len(line) + 1 /\ E \in N .. Len(line) + 1 /\ C \in E .. Len(line) + 1
      /\ \A j \in 1 .. N - 1 : line[j] \in Blank
      /\ \A j \in N .. E - 1 : line[j] \in Symbol \ (Blank \cup Separator)
      /\ \A j \in E .. C - 1 : line[j] \in Blank
  BY PartsAre
<1>3. ASSUME Good(line) PROVE IsHeader(line)
  <2>1. C <= Len(line) /\ line[C] = ":"
    BY <1>3 DEF Good
  <2> HIDE DEF N, E, C
  <2>2. N - 1 \in 0 .. Len(line) /\ E - 1 \in 0 .. Len(line) /\ C - 1 \in 0 .. Len(line)
    BY <1>1, <1>2, <2>1
  <2>3. N - 1 <= E - 1 /\ E - 1 <= C - 1 /\ C - 1 < Len(line) /\ line[(C - 1) + 1] = ":"
    BY <1>1, <1>2, <2>1
  <2>4. ASSUME NEW n \in 1 .. C - 1
        PROVE  line[n] \in IF N - 1 < n /\ n <= E - 1 THEN Symbol \ (Blank \cup Separator)
                                                      ELSE Blank
    <3>1. n \in 1 .. N - 1 \/ n \in N .. E - 1 \/ n \in E .. C - 1
      BY <1>1, <1>2
    <3>2. n \in N .. E - 1 <=> (N - 1 < n /\ n <= E - 1)
      BY <1>1, <1>2
    <3> QED BY <1>2, <3>1, <3>2
  <2> QED BY <2>2, <2>3, <2>4 DEF IsHeader
<1>4. ASSUME IsHeader(line) PROVE Good(line)
  <2>1. PICK i \in 0 .. Len(line), j \in 0 .. Len(line), k \in 0 .. Len(line) :
          /\ i <= j /\ j <= k /\ k < Len(line) /\ line[k + 1] = ":"
          /\ \A n \in 1 .. k : line[n] \in IF i < n /\ n <= j THEN Symbol \ (Blank \cup Separator)
                                                              ELSE Blank
    BY <1>4 DEF IsHeader
  <2>2. line[k + 1] \in Separator /\ line[k + 1] \in Symbol \ Blank
    BY <2>1, RequestAssumption
  <2>3. \A n \in 1 .. i : line[n] \in Blank
    <3>1. \A n \in 1 .. i : n \in 1 .. k /\ ~(i < n)
      BY <1>1, <2>1
    <3> QED BY <2>1, <3>1
  <2>4. \A n \in i + 1 .. j : line[n] \in Symbol \ (Blank \cup Separator)
    <3>1. \A n \in i + 1 .. j : n \in 1 .. k /\ i < n /\ n <= j
      BY <1>1, <2>1
    <3> QED BY <2>1, <3>1
  <2>5. \A n \in j + 1 .. k : line[n] \in Blank
    <3>1. \A n \in j + 1 .. k : n \in 1 .. k /\ ~(n <= j)
      BY <1>1, <2>1
    <3> QED BY <2>1, <3>1
  <2>6. CASE i < j
    <3>1. NameAt(line) = i + 1
      <4>1. i + 1 \in 1 .. Len(line) + 1 /\ 1 \in 1 .. Len(line) + 1 /\ i + 1 \in i + 1 .. j
        BY <1>1, <2>1, <2>6
      <4>2. line[i + 1] \in Symbol \ Blank
        BY <2>4, <4>1
      <4>3. \A n \in 1 .. (i + 1) - 1 : line[n] \notin Symbol \ Blank
        <5>1. (i + 1) - 1 = i
          BY <1>1
        <5> QED BY <2>3, <5>1
      <4> QED BY <4>1, <4>2, <4>3, FindHere DEF NameAt, ws
    <3>2. EndAt(line) = j + 1
      <4>1. i + 1 \in 1 .. Len(line) + 1 /\ j + 1 \in i + 1 .. Len(line) + 1 /\ (j + 1) - 1 = j
        BY <1>1, <2>1
      <4>2. \A n \in i + 1 .. (j + 1) - 1 : line[n] \notin Blank \cup Separator
        BY <2>4, <4>1
      <4>3. line[j + 1] \in Blank \cup Separator
        <5>1. j = k \/ j + 1 \in j + 1 .. k
          BY <1>1, <2>1
        <5> QED BY <2>2, <2>5, <5>1
      <4> QED BY <3>1, <4>1, <4>2, <4>3, FindHere DEF EndAt, token
    <3>3. ColonAt(line) = k + 1
      <4>1. j + 1 \in 1 .. Len(line) + 1 /\ k + 1 \in j + 1 .. Len(line) + 1 /\ (k + 1) - 1 = k
        BY <1>1, <2>1
      <4>2. \A n \in j + 1 .. (k + 1) - 1 : line[n] \notin Symbol \ Blank
        BY <2>5, <4>1
      <4> QED BY <2>2, <3>2, <4>1, <4>2, FindHere DEF ColonAt, ws
    <3> QED BY <1>1, <2>1, <3>3 DEF Good
  <2>7. CASE i = j
    <3>1. \A n \in 1 .. (k + 1) - 1 : line[n] \in Blank
      <4>1. \A n \in 1 .. (k + 1) - 1 : n \in 1 .. i \/ n \in j + 1 .. k
        BY <1>1, <2>7
      <4> QED BY <2>3, <2>5, <4>1
    <3>2. k + 1 \in 1 .. Len(line) + 1 /\ 1 \in 1 .. Len(line) + 1
      BY <1>1, <2>1
    <3>3. NameAt(line) = k + 1
      BY <2>2, <3>1, <3>2, FindHere DEF NameAt, ws
    <3>4. k + 1 \in k + 1 .. Len(line) + 1 /\ \A n \in k + 1 .. (k + 1) - 1 : FALSE
      BY <1>1, <2>1
    <3>5. EndAt(line) = k + 1
      <4>1. line[k + 1] \in Blank \cup Separator
        BY <2>2
      <4>2. \A n \in k + 1 .. (k + 1) - 1 : line[n] \notin Blank \cup Separator
        BY <3>4
      <4>3. Find(line, k + 1, Blank \cup Separator) = k + 1
        BY <3>2, <3>4, <4>1, <4>2, FindHere
      <4> QED BY <3>3, <4>3 DEF EndAt, token
    <3>6. ColonAt(line) = k + 1
      <4>1. \A n \in k + 1 .. (k + 1) - 1 : line[n] \notin Symbol \ Blank
        BY <3>4
      <4>2. Find(line, k + 1, Symbol \ Blank) = k + 1
        BY <2>2, <3>2, <3>4, <4>1, FindHere
      <4> QED BY <3>5, <4>2 DEF ColonAt, ws
    <3> QED BY <1>1, <2>1, <3>6 DEF Good
  <2> QED BY <1>1, <2>1, <2>6, <2>7
<1> QED BY <1>3, <1>4

(* What is left of a sequence without the white space around it. *)
LEMMA StrippedBetween ==
  ASSUME NEW s \in Seq(Symbol), NEW a \in 1 .. Len(s) + 1, NEW b \in a .. Len(s) + 1,
         \A i \in 1 .. a - 1 : s[i] \in Blank, \A i \in b .. Len(s) : s[i] \in Blank,
         a < b => s[a] \notin Blank /\ s[b - 1] \notin Blank
  PROVE  Stripped(s) = Between(s, a, b)
<1> DEFINE black == {i \in DOMAIN s : s[i] \notin Blank}
<1>1. Len(s) \in Nat /\ DOMAIN s = 1 .. Len(s) /\ a \in Nat \ {0} /\ b \in Nat
  BY LenProperties
<1>2. black \in SUBSET (a .. b - 1)
  <2>1. \A i \in 1 .. Len(s) : i \in 1 .. a - 1 \/ i \in a .. b - 1 \/ i \in b .. Len(s)
    BY <1>1
  <2> QED BY <1>1, <2>1
<1>3. CASE a = b
  <2>1. a .. b - 1 = {}
    BY <1>1, <1>3
  <2>2. Between(s, a, b) = <<>>
    <3>1. Between(s, a, b) \in Seq(Symbol) /\ Len(Between(s, a, b)) = 0
      BY <1>1, <1>3, BetweenIs
    <3> QED BY <3>1, EmptySeq
  <2> QED BY <1>2, <2>1, <2>2 DEF Stripped
<1>4. CASE a < b
  <2>1. a \in black /\ b - 1 \in black
    BY <1>1, <1>4
  <2>2. black \in SUBSET Nat /\ black \in SUBSET (0 .. b)
    BY <1>1, <1>2
  <2> HIDE DEF black
  <2>3. Min(black) \in black /\ Min(black) <= a
    BY <2>1, <2>2, MinIs
  <2>4. Max(black) \in black /\ b - 1 <= Max(black)
    BY <1>1, <2>1, <2>2, MaxIs
  <2>5. Min(black) = a /\ Max(black) = b - 1
    <3>1. Min(black) \in a .. b - 1 /\ Max(black) \in a .. b - 1
      BY <1>2, <2>3, <2>4
    <3> HIDE DEF black
    <3> DEFINE m == Min(black)  n == Max(black)
    <3>2. m \in a .. b - 1 /\ n \in a .. b - 1 /\ m <= a /\ b - 1 <= n
      BY <2>3, <2>4, <3>1
    <3> HIDE DEF m, n
    <3>3. m = a /\ n = b - 1
      BY <1>1, <3>2
    <3> QED BY <3>3 DEF m, n
  <2>6. Stripped(s) = SubSeq(s, Min(black), Max(black))
    BY <2>1 DEF Stripped, black
  <2> QED BY <2>5, <2>6 DEF Between
<1> QED BY <1>1, <1>3, <1>4

LEMMA BetweenAt ==
  ASSUME NEW s \in Seq(Symbol), NEW a \in Nat \ {0}, NEW b \in Nat, a <= b, b <= Len(s) + 1,
         NEW k \in 1 .. b - a
  PROVE  Between(s, a, b)[k] = s[a + k - 1]
<1>1. \A i \in 1 .. b - a : Between(s, a, b)[i] = s[a + i - 1]
  BY BetweenIs
<1> QED BY <1>1

LEMMA BetweenTwice ==
  ASSUME NEW s \in Seq(Symbol), NEW t \in Seq(Symbol), NEW a \in Nat \ {0}, NEW c \in Nat,
         NEW x \in Nat \ {0}, NEW y \in Nat, a <= x, x <= y, y <= c, c <= Len(s) + 1,
         t = Between(s, a, c), NEW i \in Nat \ {0}, NEW j \in Nat, i = x - a + 1, j = y - a + 1
  PROVE  Between(t, i, j) = Between(s, x, y)
<1>1. Len(s) \in Nat /\ Len(t) \in Nat
  BY LenProperties
<1>2. a <= c /\ y <= Len(s) + 1
  BY <1>1
<1>3. Len(t) = c - a
  BY <1>1, <1>2, BetweenIs
<1>4. ASSUME NEW k \in 1 .. c - a PROVE t[k] = s[a + k - 1]
  <2>1. Between(s, a, c)[k] = s[a + k - 1]
    BY ONLY <1>2, k \in 1 .. c - a, s \in Seq(Symbol), a \in Nat \ {0}, c \in Nat,
       c <= Len(s) + 1, BetweenAt, Zenon
  <2> QED BY <2>1
<1>5. i <= j /\ j <= Len(t) + 1 /\ j - i = y - x
  BY <1>3
<1>6. Between(t, i, j) \in Seq(Symbol) /\ Len(Between(t, i, j)) = j - i
  BY ONLY <1>5, t \in Seq(Symbol), i \in Nat \ {0}, j \in Nat, BetweenIs
<1>7. ASSUME NEW k \in 1 .. j - i PROVE Between(t, i, j)[k] = t[i + k - 1]
  BY ONLY <1>5, k \in 1 .. j - i, t \in Seq(Symbol), i \in Nat \ {0}, j \in Nat, BetweenAt, Zenon
<1>8. Between(s, x, y) \in Seq(Symbol) /\ Len(Between(s, x, y)) = y - x
  BY ONLY <1>2, s \in Seq(Symbol), x \in Nat \ {0}, y \in Nat, x <= y, BetweenIs, Zenon
<1>9. ASSUME NEW k \in 1 .. y - x PROVE Between(s, x, y)[k] = s[x + k - 1]
  BY ONLY <1>2, k \in 1 .. y - x, s \in Seq(Symbol), x \in Nat \ {0}, y \in Nat, x <= y,
     BetweenAt, Zenon
<1>10. ASSUME NEW k \in 1 .. y - x PROVE Between(t, i, j)[k] = Between(s, x, y)[k]
  <2>1. k \in 1 .. j - i /\ i + k - 1 \in 1 .. c - a /\ a + (i + k - 1) - 1 = x + k - 1
    BY <1>5
  <2>2. t[i + k - 1] = s[x + k - 1]
    BY <1>4, <2>1
  <2> QED BY <1>7, <1>9, <2>1, <2>2
<1> QED BY ONLY <1>5, <1>6, <1>8, <1>10, SeqEqual

LEMMA StrippedPart ==
  ASSUME NEW s \in Seq(Symbol), NEW a \in 1 .. Len(s) + 1, NEW c \in a .. Len(s) + 1,
         NEW x \in a .. c, NEW y \in x .. c,
         \A i \in a .. x - 1 : s[i] \in Blank, \A i \in y .. c - 1 : s[i] \in Blank,
         x < y => s[x] \notin Blank /\ s[y - 1] \notin Blank
  PROVE  Stripped(Between(s, a, c)) = Between(s, x, y)
<1>1. /\ Len(s) \in Nat /\ a \in Nat \ {0} /\ c \in Nat /\ a <= c /\ c <= Len(s) + 1
      /\ s \in Seq(Symbol)
  BY LenProperties
<1>2. PICK t : /\ t = Between(s, a, c) /\ t \in Seq(Symbol) /\ Len(t) = c - a
               /\ \A k \in 1 .. c - a : t[k] = s[a + k - 1]
  <2>1. /\ Between(s, a, c) \in Seq(Symbol) /\ Len(Between(s, a, c)) = c - a
        /\ \A k \in 1 .. c - a : Between(s, a, c)[k] = s[a + k - 1]
    BY ONLY <1>1, BetweenIs
  <2> QED BY <2>1
<1>3. PICK i \in Nat, j \in Nat : /\ i = x - a + 1 /\ j = y - a + 1
                                  /\ i \in 1 .. c - a + 1 /\ j \in i .. c - a + 1
  BY <1>1
<1>4. ASSUME NEW k \in 1 .. i - 1 PROVE t[k] \in Blank
  <2>1. a + k - 1 \in a .. x - 1 /\ k \in 1 .. c - a
    BY <1>1, <1>3
  <2> QED BY <1>2, <2>1
<1>5. ASSUME NEW k \in j .. Len(t) PROVE t[k] \in Blank
  <2>1. a + k - 1 \in y .. c - 1 /\ k \in 1 .. c - a
    BY <1>1, <1>2, <1>3
  <2> QED BY <1>2, <2>1
<1>6. ASSUME i < j PROVE t[i] \notin Blank /\ t[j - 1] \notin Blank
  <2>1. i \in 1 .. c - a /\ j - 1 \in 1 .. c - a /\ a + i - 1 = x /\ a + (j - 1) - 1 = y - 1 /\ x < y
    BY <1>1, <1>3, <1>6
  <2> QED BY <1>2, <2>1
<1>7. t \in Seq(Symbol) /\ i \in 1 .. Len(t) + 1 /\ j \in i .. Len(t) + 1
  BY <1>2, <1>3
<1>8. Stripped(t) = Between(t, i, j)
  BY <1>4, <1>5, <1>6, <1>7, StrippedBetween
<1>9. Between(t, i, j) = Between(s, x, y)
  <2>1. /\ x \in Nat \ {0} /\ y \in Nat /\ a <= x /\ x <= y /\ y <= c
        /\ i \in Nat \ {0} /\ j \in Nat
    BY <1>1, <1>3
  <2> QED BY ONLY <1>1, <1>2, <1>3, <2>1, BetweenTwice
<1> QED BY <1>2, <1>8, <1>9

(* The name is what comes before the colon, without white space. *)
LEMMA NameIs ==
  ASSUME NEW line \in Seq(Symbol)
  PROVE  Name(line) = Stripped(SubSeq(line, 1, EndAt(line) - 1))
<1> DEFINE N == NameAt(line)  E == EndAt(line)
<1>1. Len(line) \in Nat
  BY LenProperties
<1>2. /\ N \in 1 .. Len(line) + 1 /\ E \in N .. Len(line) + 1
      /\ \A j \in 1 .. N - 1 : line[j] \in Blank
      /\ \A j \in N .. E - 1 : line[j] \in Symbol \ (Blank \cup Separator)
  BY PartsAre
<1> HIDE DEF N, E
<1>3. 1 \in 1 .. Len(line) + 1 /\ E \in 1 .. Len(line) + 1 /\ N \in 1 .. E /\ E \in N .. E
  BY <1>1, <1>2
<1>4. \A j \in E .. E - 1 : FALSE
  BY <1>1, <1>2
<1>5. N < E => line[N] \notin Blank /\ line[E - 1] \notin Blank
  <2>1. N < E => N \in N .. E - 1 /\ E - 1 \in N .. E - 1
    BY <1>1, <1>2
  <2> QED BY <1>2, <2>1
<1>6. Stripped(Between(line, 1, E)) = Between(line, N, E)
  BY <1>2, <1>3, <1>4, <1>5, StrippedPart
<1> QED BY <1>6 DEF Between, Name, N, E

(* The end of a line from some place on, without the white space around it *)
LEMMA TrimmedIs ==
  ASSUME NEW line \in Seq(Symbol), NEW a \in 1 .. Len(line) + 1, NEW x, NEW e,
         x = ws(line, a), e = trimr(line, x, Len(line) + 1)
  PROVE  /\ Stripped(SubSeq(line, a, Len(line))) = Between(line, x, e)
         /\ Between(line, x, e) \in Seq(Symbol)
         /\ x \in a .. Len(line) + 1 /\ e \in x .. Len(line) + 1
<1>1. Len(line) \in Nat /\ a \in Nat \ {0} /\ \A i \in 1 .. Len(line) : line[i] \in Symbol
  BY LenProperties, ElementOfSeq
<1>2. /\ x \in a .. Len(line) + 1 /\ (x <= Len(line) => line[x] \in Symbol \ Blank)
      /\ \A j \in a .. x - 1 : line[j] \notin Symbol \ Blank
  BY FindIs DEF ws
<1>3. x \in Nat \ {0} /\ Len(line) + 1 \in x .. Len(line) + 1
  BY <1>1, <1>2
<1>4. /\ e \in x .. Len(line) + 1 /\ (x < e => line[e - 1] \notin Blank)
      /\ \A j \in e .. (Len(line) + 1) - 1 : line[j] \in Blank
  BY <1>3, TrimIs
<1>5. ASSUME NEW j \in a .. x - 1 PROVE line[j] \in Blank
  <2>1. j \in 1 .. Len(line)
    BY <1>1, <1>2
  <2> QED BY <1>1, <1>2, <2>1
<1>6. x < e => line[x] \notin Blank
  BY <1>1, <1>2, <1>4
<1>7. Len(line) + 1 \in a .. Len(line) + 1
  BY <1>1
<1>8. Stripped(Between(line, a, Len(line) + 1)) = Between(line, x, e)
  <2> DEFINE c == Len(line) + 1
  <2>1. c \in a .. Len(line) + 1 /\ x \in a .. c /\ e \in x .. c
    BY <1>2, <1>4, <1>7
  <2>2. /\ \A j \in a .. x - 1 : line[j] \in Blank
        /\ \A j \in e .. c - 1 : line[j] \in Blank
        /\ x < e => line[x] \notin Blank /\ line[e - 1] \notin Blank
    BY <1>4, <1>5, <1>6
  <2> HIDE DEF c
  <2>3. Stripped(Between(line, a, c)) = Between(line, x, e)
    BY ONLY <2>1, <2>2, line \in Seq(Symbol), a \in 1 .. Len(line) + 1, StrippedPart
  <2> QED BY <2>3 DEF c
<1>9. (Len(line) + 1) - 1 = Len(line)
  BY <1>1
<1>10. Between(line, a, Len(line) + 1) = SubSeq(line, a, Len(line))
  BY <1>9 DEF Between
<1>11. Between(line, x, e) \in Seq(Symbol)
  <2>1. x <= e /\ e <= Len(line) + 1 /\ e \in Nat
    BY <1>1, <1>3, <1>4
  <2> QED BY <1>3, <2>1, BetweenIs
<1> QED BY <1>2, <1>4, <1>8, <1>10, <1>11

(* What is stored for a header line is what stands in it. *)
ValueAt(line) == ws(line, ColonAt(line) + 1)
Value(line)   == Between(line, ValueAt(line), trimr(line, ValueAt(line), Len(line) + 1))

LEMMA FieldIs ==
  ASSUME NEW line \in Seq(Symbol), Good(line)
  PROVE  /\ Field(line) = [prop |-> lookup(Name(line)), value |-> Value(line)]
         /\ Value(line) \in Seq(Symbol)
<1> DEFINE N == NameAt(line)  E == EndAt(line)  C == ColonAt(line)
           colons == {i \in DOMAIN line : line[i] = ":"}
<1>1. Len(line) \in Nat /\ DOMAIN line = 1 .. Len(line)
  BY LenProperties
<1>2. /\ N \in 1 .. Len(line) + 1 /\ E \in N .. Len(line) + 1 /\ C \in E .. Len(line) + 1
      /\ \A j \in 1 .. N - 1 : line[j] \in Blank
      /\ \A j \in N .. E - 1 : line[j] \in Symbol \ (Blank \cup Separator)
      /\ \A j \in E .. C - 1 : line[j] \in Blank
      /\ C <= Len(line) /\ line[C] = ":"
  BY PartsAre DEF Good
<1> HIDE DEF N, E, C
<1>3. Min(colons) = C
  <2>1. C \in colons /\ colons \in SUBSET Nat
    BY <1>1, <1>2
  <2>2. ASSUME NEW j \in 1 .. C - 1 PROVE j \notin colons
    <3>1. j \in 1 .. N - 1 \/ j \in N .. E - 1 \/ j \in E .. C - 1
      BY <1>1, <1>2
    <3>2. ":" \notin Blank /\ ":" \in Separator
      BY RequestAssumption
    <3> QED BY <1>2, <3>1, <3>2
  <2>3. \A j \in colons : j \in 1 .. Len(line)
    BY <1>1
  <2> HIDE DEF colons
  <2>4. Min(colons) \in colons /\ Min(colons) <= C
    BY <2>1, MinIs
  <2> QED BY <1>1, <1>2, <2>2, <2>3, <2>4
<1>4. Stripped(SubSeq(line, 1, C - 1)) = Between(line, N, E)
  <2>1. 1 \in 1 .. Len(line) + 1 /\ C \in 1 .. Len(line) + 1 /\ N \in 1 .. C /\ E \in N .. C
    BY <1>1, <1>2
  <2>2. N < E => N \in N .. E - 1 /\ E - 1 \in N .. E - 1
    BY <1>1, <1>2
  <2>3. N < E => line[N] \notin Blank /\ line[E - 1] \notin Blank
    BY <1>2, <2>2
  <2>4. Stripped(Between(line, 1, C)) = Between(line, N, E)
    BY <1>2, <2>1, <2>3, StrippedPart
  <2> QED BY <2>4 DEF Between
<1>5. C + 1 \in 1 .. Len(line) + 1
  BY <1>1, <1>2
<1>6. Stripped(SubSeq(line, C + 1, Len(line))) = Value(line) /\ Value(line) \in Seq(Symbol)
  BY <1>5, TrimmedIs DEF Value, ValueAt, C
<1>7. Field(line) = [prop |-> lookup(Stripped(SubSeq(line, 1, C - 1))),
                     value |-> Stripped(SubSeq(line, C + 1, Len(line)))]
  BY <1>3 DEF Field
<1> QED BY <1>4, <1>6, <1>7 DEF Name, N, E

LEMMA ContinuationIs ==
  ASSUME NEW line \in Seq(Symbol), NameAt(line) <= Len(line), NameAt(line) # 1
  PROVE  LET a == NameAt(line) - 1
         IN /\ Between(line, a, trimr(line, a, Len(line) + 1)) = Continuation(line)
            /\ Continuation(line) \in Seq(Symbol)
<1> DEFINE n == NameAt(line)  a == n - 1
           d == trimr(line, a, Len(line) + 1)  e == trimr(line, n, Len(line) + 1)
<1>1. Len(line) \in Nat /\ \A i \in 1 .. Len(line) : line[i] \in Symbol
  BY LenProperties, ElementOfSeq
<1>2. n \in 1 .. Len(line) + 1 /\ line[n] \notin Blank
  BY PartsAre
<1>3. 1 \in 1 .. Len(line) + 1 /\ SubSeq(line, 1, Len(line)) = line
  <2>1. Between(line, 1, Len(line) + 1) \in Seq(Symbol)
        /\ Len(Between(line, 1, Len(line) + 1)) = (Len(line) + 1) - 1
    BY <1>1, BetweenIs
  <2>2. ASSUME NEW k \in 1 .. (Len(line) + 1) - 1
        PROVE  Between(line, 1, Len(line) + 1)[k] = line[1 + k - 1]
    BY <1>1, BetweenAt
  <2>3. (Len(line) + 1) - 1 = Len(line) /\ \A k \in 1 .. Len(line) : 1 + k - 1 = k
    BY <1>1
  <2>4. Between(line, 1, Len(line) + 1) = line
    BY <2>1, <2>2, <2>3, SeqEqual
  <2> QED BY <1>1, <2>3, <2>4 DEF Between
<1>4. Stripped(line) = Between(line, n, e)
  <2>1. n = ws(line, 1)
    BY DEF NameAt
  <2>2. Stripped(SubSeq(line, 1, Len(line))) = Between(line, n, e)
    BY ONLY <1>3, <2>1, line \in Seq(Symbol), TrimmedIs
  <2> QED BY <1>3, <2>2
<1> HIDE DEF n
<1>5. a \in Nat \ {0} /\ n \in Nat \ {0} /\ a \in 1 .. Len(line) /\ n = a + 1 /\ n <= Len(line)
  BY <1>1, <1>2 DEF n
<1>6. Len(line) + 1 \in a .. Len(line) + 1 /\ Len(line) + 1 \in n .. Len(line) + 1
  BY <1>1, <1>5
<1> HIDE DEF a
<1>7. /\ d \in a .. Len(line) + 1 /\ (a < d => line[d - 1] \notin Blank)
      /\ \A j \in d .. (Len(line) + 1) - 1 : line[j] \in Blank
  BY <1>5, <1>6, TrimIs
<1>8. /\ e \in n .. Len(line) + 1 /\ (n < e => line[e - 1] \notin Blank)
      /\ \A j \in e .. (Len(line) + 1) - 1 : line[j] \in Blank
  BY <1>5, <1>6, TrimIs
<1> HIDE DEF d, e
<1>9. n < d /\ n < e
  <2>1. n \notin d .. (Len(line) + 1) - 1 /\ n \notin e .. (Len(line) + 1) - 1
    BY <1>2, <1>7, <1>8
  <2> QED BY <1>1, <1>5, <1>7, <1>8, <2>1
<1>10. d = e
  <2>1. line[d - 1] \notin Blank /\ line[e - 1] \notin Blank
    BY <1>5, <1>7, <1>8, <1>9
  <2>2. d - 1 \notin e .. (Len(line) + 1) - 1 /\ e - 1 \notin d .. (Len(line) + 1) - 1
    BY <1>7, <1>8, <2>1
  <2> QED BY <1>1, <1>5, <1>7, <1>8, <1>9, <2>2
<1>11. Between(line, a, e) = <<line[a]>> \o Between(line, n, e)
  <2>1. a \in 1 .. Len(line) + 1 /\ a \in a - 1 .. Len(line) /\ e - 1 \in a .. Len(line)
    BY <1>1, <1>5, <1>8, <1>9
  <2>2. SubSeq(line, a, a) \o SubSeq(line, a + 1, e - 1) = SubSeq(line, a, e - 1)
    BY <2>1, ConcatAdjacentSubSeq
  <2>3. SubSeq(line, a, a) = <<line[a]>>
    <3>1. line[a] \in Symbol /\ \A i \in a .. a : line[i] \in Symbol
      BY <1>1, <1>5
    <3>2. /\ SubSeq(line, a, a) \in Seq(Symbol)
          /\ Len(SubSeq(line, a, a)) = IF a <= a THEN a - a + 1 ELSE 0
          /\ \A i \in 1 .. a - a + 1 : SubSeq(line, a, a)[i] = line[a + i - 1]
      BY <1>5, <3>1, SubSeqProperties
    <3>3. a - a + 1 = 1 /\ a <= a /\ \A i \in 1 .. 1 : a + i - 1 = a
      BY <1>5
    <3>4. Len(SubSeq(line, a, a)) = 1 /\ SubSeq(line, a, a)[1] = line[a]
      BY <3>2, <3>3
    <3>5. <<line[a]>> \in Seq(Symbol) /\ Len(<<line[a]>>) = 1 /\ <<line[a]>>[1] = line[a]
      BY <3>1
    <3>6. ASSUME NEW i \in 1 .. 1 PROVE SubSeq(line, a, a)[i] = <<line[a]>>[i]
      <4>1. i = 1
        OBVIOUS
      <4> QED BY <3>4, <4>1
    <3> QED BY <3>2, <3>4, <3>5, <3>6, SeqEqual
  <2> QED BY <1>5, <2>2, <2>3 DEF Between
<1>12. Continuation(line) = <<line[a]>> \o Stripped(line)
  BY DEF Continuation, NameAt, a, n
<1>13. Between(line, a, e) \in Seq(Symbol)
  <2>1. a <= e /\ e <= Len(line) + 1 /\ e \in Nat
    BY <1>1, <1>5, <1>8, <1>9
  <2> QED BY <1>5, <2>1, BetweenIs
<1> QED BY <1>4, <1>10, <1>11, <1>12, <1>13 DEF a, d, n
-----------------------------------------------------------------------------
(* Whether a line is white space only. *)
LEMMA StrippedIs ==
  ASSUME NEW line \in Seq(Symbol)
  PROVE  Stripped(line) = <<>> <=> NameAt(line) > Len(line)
<1> DEFINE black == {i \in DOMAIN line : line[i] \notin Blank}
<1>1. Len(line) \in Nat /\ DOMAIN line = 1 .. Len(line)
  BY LenProperties
<1>2. /\ NameAt(line) \in 1 .. Len(line) + 1
      /\ \A j \in 1 .. NameAt(line) - 1 : line[j] \in Blank
      /\ NameAt(line) <= Len(line) => line[NameAt(line)] \notin Blank
  BY PartsAre
<1>3. CASE NameAt(line) > Len(line)
  <2>1. \A i \in 1 .. Len(line) : i \in 1 .. NameAt(line) - 1
    BY <1>1, <1>2, <1>3
  <2>2. black = {}
    BY <1>1, <1>2, <2>1
  <2> QED BY <1>3, <2>2 DEF Stripped
<1>4. CASE NameAt(line) <= Len(line)
  <2>1. black # {}
    BY <1>1, <1>2, <1>4
  <2>2. Stripped(line) = SubSeq(line, Min(black), Max(black))
    BY <2>1 DEF Stripped
  <2>3. black \in SUBSET Nat /\ black \in SUBSET (0 .. Len(line))
    BY <1>1
  <2>4. \A i \in black : i \in 1 .. Len(line)
    BY <1>1
  <2> HIDE DEF black
  <2>5. Min(black) \in black /\ Max(black) \in black /\ Min(black) <= Max(black)
    BY <1>1, <2>1, <2>3, MinIs, MaxIs
  <2> DEFINE a == Min(black)  b == Max(black)
  <2>6. a \in 1 .. Len(line) /\ b \in 1 .. Len(line) /\ a <= b
    BY <2>4, <2>5
  <2>7. \A i \in a .. b : line[i] \in Symbol
    BY <1>1, <2>6, ElementOfSeq
  <2> HIDE DEF a, b
  <2>8. Len(SubSeq(line, a, b)) = b - a + 1
    BY <2>6, <2>7, SubSeqProperties
  <2>9. SubSeq(line, a, b) # <<>>
    BY <2>6, <2>8, EmptySeq
  <2> QED BY <1>1, <1>2, <1>4, <2>2, <2>9 DEF a, b
<1> QED BY <1>1, <1>2, <1>3, <1>4

(* Session's abstraction of a line is right. *)
Shapes == {"blank", "good", "bad"}

LEMMA Joined ==
  ASSUME NEW a \in Shapes, NEW b \in Shapes
  PROVE  <<a>> \o <<>> = <<a>> /\ <<>> \o <<b>> = <<b>> /\ <<a>> \o <<b>> = <<a, b>>
<1>1. <<a>> \in Seq(Shapes) /\ <<b>> \in Seq(Shapes) /\ <<a, b>> \in Seq(Shapes)
  OBVIOUS
<1>2. Len(<<a>>) = 1 /\ Len(<<b>>) = 1 /\ Len(<<a, b>>) = 2
  OBVIOUS
<1>3. <<a>> \o <<>> = <<a>> /\ <<>> \o <<b>> = <<b>>
  BY <1>1, ConcatEmptySeq
<1>4. <<a>> \o <<b>> \in Seq(Shapes) /\ Len(<<a>> \o <<b>>) = 2
      /\ (<<a>> \o <<b>>)[1] = a /\ (<<a>> \o <<b>>)[2] = b
  BY <1>1, <1>2, ConcatProperties
<1>5. \A i \in 1 .. 2 : (<<a>> \o <<b>>)[i] = <<a, b>>[i]
  <2>1. \A i \in 1 .. 2 : i = 1 \/ i = 2
    OBVIOUS
  <2> QED BY <1>4, <2>1
<1>6. <<a>> \o <<b>> = <<a, b>>
  BY <1>1, <1>2, <1>4, <1>5, SeqEqual
<1> QED BY <1>3, <1>6

LEMMA ShapeIs ==
  ASSUME NEW line \in Seq(Symbol)
  PROVE  /\ Shape(line) \in Seq(Shapes)
         /\ Q!IsBlank(Shape(line)) <=> NameAt(line) > Len(line)
         /\ NameAt(line) <= Len(line) =>
              /\ Head(Shape(line)) \in {"blank"} <=> NameAt(line) # 1
              /\ Q!Word(Shape(line)) = IF Good(line) THEN "good" ELSE "bad"
<1> DEFINE first  == IF line = <<>> \/ line[1] \in Blank THEN <<"blank">> ELSE <<>>
           second == IF Stripped(line) = <<>> THEN <<>>
                     ELSE IF IsHeader(line) THEN <<"good">> ELSE <<"bad">>
           word   == IF Good(line) THEN "good" ELSE "bad"
<1>1. Shape(line) = first \o second
  BY DEF Shape
<1>2. Len(line) \in Nat /\ NameAt(line) \in 1 .. Len(line) + 1
  BY LenProperties, PartsAre
<1>3. (line = <<>> \/ line[1] \in Blank) <=> (NameAt(line) # 1 \/ Len(line) = 0)
  <2>1. line = <<>> <=> Len(line) = 0
    BY EmptySeq
  <2>2. Len(line) # 0 => (line[1] \in Blank <=> NameAt(line) # 1)
    <3>1. /\ \A j \in 1 .. NameAt(line) - 1 : line[j] \in Blank
          /\ NameAt(line) <= Len(line) => line[NameAt(line)] \notin Blank
      BY PartsAre
    <3>2. NameAt(line) # 1 => 1 \in 1 .. NameAt(line) - 1
      BY <1>2
    <3> QED BY <1>2, <3>1, <3>2
  <2> QED BY <2>1, <2>2
<1>4. CASE NameAt(line) > Len(line)
  <2>1. second = <<>> /\ first = <<"blank">>
    BY <1>2, <1>3, <1>4, StrippedIs
  <2>2. Shape(line) = <<"blank">>
    BY <1>1, <2>1, Joined DEF Shapes
  <2> QED BY <1>2, <1>4, <2>2 DEF Q!IsBlank, Shapes
<1>5. CASE NameAt(line) <= Len(line)
  <2>1. second = <<word>>
    BY <1>2, <1>5, StrippedIs, GoodIs
  <2>2. word \in {"good", "bad"}
    OBVIOUS
  <2>3. first = IF NameAt(line) # 1 THEN <<"blank">> ELSE <<>>
    BY <1>2, <1>3, <1>5
  <2> HIDE DEF first, second, word
  <2>4. CASE NameAt(line) = 1
    <3>1. Shape(line) = <<word>>
      <4>1. first = <<>> /\ word \in Shapes
        BY <2>2, <2>3, <2>4 DEF Shapes
      <4> QED BY <1>1, <2>1, <4>1, Joined
    <3>2. Q!Word(<<word>>) = word
      BY <2>2 DEF Q!Word
    <3> QED BY <1>2, <1>5, <2>2, <2>4, <3>1, <3>2 DEF Q!IsBlank, Shapes, word
  <2>5. CASE NameAt(line) # 1
    <3>1. Shape(line) = <<"blank", word>>
      <4>1. first = <<"blank">> /\ word \in Shapes /\ "blank" \in Shapes
        BY <2>2, <2>3, <2>5 DEF Shapes
      <4> QED BY <1>1, <2>1, <4>1, Joined
    <3>2. Q!Word(<<"blank", word>>) = word
      BY <2>2 DEF Q!Word
    <3> QED BY <1>2, <1>5, <2>2, <2>5, <3>1, <3>2 DEF Q!IsBlank, Shapes, word
  <2> QED BY <2>4, <2>5
<1> QED BY <1>2, <1>4, <1>5

(* What RequestQueue makes of another line. *)
LEMMA HeaderLineIs ==
  ASSUME NEW r \in Q!Request, NEW line \in Seq(Symbol), NEW r1, r1 = Q!HeaderLine(r, Shape(line))
  PROVE  LET plain == NameAt(line) <= Len(line) /\ (NameAt(line) = 1 \/ ~r.headed)
         IN /\ r1 \in Q!Request
            /\ r1.complete = (NameAt(line) > Len(line))
            /\ r1.broken = (r.broken \/ (plain /\ ~Good(line)))
            /\ r1.headed = (r.headed \/ (plain /\ Good(line)))
<1> DEFINE s == Shape(line)
           plain == ~Q!IsBlank(s) /\ (Head(s) \notin {"blank"} \/ ~r.headed)
<1>1. /\ Q!IsBlank(s) <=> NameAt(line) > Len(line)
      /\ NameAt(line) <= Len(line) =>
           /\ Head(s) \in {"blank"} <=> NameAt(line) # 1
           /\ Q!Word(s) = IF Good(line) THEN "good" ELSE "bad"
  BY ShapeIs
<1>2. Len(line) \in Nat /\ NameAt(line) \in 1 .. Len(line) + 1
  BY LenProperties, PartsAre
<1>3. r1 = [r EXCEPT !.complete = Q!IsBlank(s),
                     !.broken = r.broken \/ (plain /\ Q!Word(s) \in {"bad"}),
                     !.headed = r.headed \/ (plain /\ Q!Word(s) \notin {"bad"})]
  BY DEF Q!HeaderLine
<1>4. Q!IsBlank(s) \in BOOLEAN
  BY DEF Q!IsBlank
<1> HIDE DEF s
<1>5. /\ r1 \in Q!Request
      /\ r1.complete = Q!IsBlank(s)
      /\ r1.broken = (r.broken \/ (plain /\ Q!Word(s) \in {"bad"}))
      /\ r1.headed = (r.headed \/ (plain /\ Q!Word(s) \notin {"bad"}))
  BY <1>3, <1>4 DEF Q!Request
<1>6. Q!IsBlank(s) <=> NameAt(line) > Len(line)
  BY <1>1
<1>7. plain <=> NameAt(line) <= Len(line) /\ (NameAt(line) = 1 \/ ~r.headed)
  BY <1>1, <1>2
<1>8. plain => (Q!Word(s) \in {"bad"} <=> ~Good(line))
  BY <1>1, <1>7
<1>9. r.broken \in BOOLEAN /\ r.headed \in BOOLEAN /\ r1.complete \in BOOLEAN
  BY <1>5 DEF Q!Request
<1> HIDE DEF plain
<1>10. /\ r1.complete = (NameAt(line) > Len(line))
       /\ r1.broken = (r.broken \/ (plain /\ ~Good(line)))
       /\ r1.headed = (r.headed \/ (plain /\ Good(line)))
  BY <1>5, <1>6, <1>8, <1>9
<1> QED BY <1>5, <1>7, <1>10
-----------------------------------------------------------------------------
(* The URI that first_line() finds. *)
Start(line) == ws(line, non_ws(line, NameAt(line)))
UriFound(line) ==
  LET words == {i \in Start(line) .. Len(line) : /\ line[i] \notin Blank
                                                 /\ line[i - 1] \in Blank}
      q == Max(words \cup {Start(line)})
      p == Max((words \ {q}) \cup {Start(line)})
  IN Between(line, Start(line), non_ws(line, p))

(* It is the one it should find. *)
LEMMA UriIs ==
  ASSUME NEW line \in Seq(Symbol)
  PROVE  /\ UriFound(line) = Uri(line)
         /\ Uri(line) \in Seq(Symbol) /\ Len(Uri(line)) <= Len(line)
<1> DEFINE m == NameAt(line)
           e == non_ws(line, m)
           u == Start(line)
           words  == {i \in u .. Len(line) : line[i] \notin Blank /\ line[i - 1] \in Blank}
           all    == {i \in DOMAIN line : line[i] \notin Blank /\ (i = 1 \/ line[i - 1] \in Blank)}
           others == {i \in all : \E j \in all : j < i}
           inner  == {i \in others : \E j \in others : i < j}
<1>1. Len(line) \in Nat /\ DOMAIN line = 1 .. Len(line)
  BY LenProperties
<1>2. /\ m \in 1 .. Len(line) + 1
      /\ \A j \in 1 .. m - 1 : line[j] \in Blank
      /\ m <= Len(line) => line[m] \notin Blank
  BY PartsAre
<1>3. /\ e \in m .. Len(line) + 1
      /\ e <= Len(line) => line[e] \in Blank
      /\ \A j \in m .. e - 1 : line[j] \notin Blank
  BY <1>2, FindIs DEF non_ws
<1>4. /\ u \in e .. Len(line) + 1
      /\ u <= Len(line) => line[u] \in Symbol \ Blank
      /\ \A j \in e .. u - 1 : line[j] \notin Symbol \ Blank
  <2>1. e \in 1 .. Len(line) + 1
    BY <1>1, <1>2, <1>3
  <2> QED BY <2>1, FindIs DEF ws, Start
<1> HIDE DEF m, e, u
<1>5. \A j \in e .. u - 1 : line[j] \in Blank
  <2>1. \A j \in e .. u - 1 : j \in 1 .. Len(line)
    BY <1>1, <1>2, <1>3, <1>4
  <2> QED BY <1>4, <2>1, ElementOfSeq
<1>6. u <= Len(line) => m < e /\ e < u
  BY <1>1, <1>2, <1>3, <1>4
<1>7. m <= Len(line) => m \in all
  <2>1. m <= Len(line) /\ m # 1 => m - 1 \in 1 .. m - 1
    BY <1>1, <1>2
  <2> QED BY <1>1, <1>2, <2>1
<1>8. \A j \in all : m <= j
  BY <1>1, <1>2
<1>9. words \subseteq others
  <2>1. SUFFICES ASSUME NEW i \in words PROVE i \in others
    OBVIOUS
  <2>2. i \in all /\ u <= Len(line) /\ u <= i
    BY <1>1, <1>2, <1>3, <1>4
  <2>3. m < i /\ m <= Len(line)
    BY <1>1, <1>2, <1>3, <1>4, <1>6, <2>2
  <2> QED BY <1>7, <2>2, <2>3
<1>10. others \subseteq words
  <2>1. SUFFICES ASSUME NEW i \in others PROVE i \in words
    OBVIOUS
  <2>2. PICK j \in all : j < i
    OBVIOUS
  <2>3. i \in 1 .. Len(line) /\ j \in 1 .. Len(line) /\ m < i
    BY <1>1, <1>2, <1>8, <2>2
  <2>4. line[i] \notin Blank /\ line[i - 1] \in Blank
    BY <2>3
  <2>5. i \notin m + 1 .. e - 1
    <3>1. i \in m + 1 .. e - 1 => i - 1 \in m .. e - 1
      BY <1>2, <1>3
    <3> QED BY <1>3, <2>4, <3>1
  <2>6. i \notin e .. u - 1
    BY <1>5, <2>4
  <2>7. u <= i
    BY <1>1, <1>2, <1>3, <1>4, <2>3, <2>5, <2>6
  <2> QED BY <1>1, <1>4, <2>3, <2>4, <2>7
<1>11. words = others
  BY <1>9, <1>10
<1>12. u <= Len(line) => u \in words
  <2>1. u <= Len(line) => u - 1 \in e .. u - 1
    BY <1>1, <1>2, <1>3, <1>4, <1>6
  <2> QED BY <1>1, <1>2, <1>3, <1>4, <1>5, <2>1
<1>13. u > Len(line) => words = {}
  BY <1>1, <1>2, <1>3, <1>4
<1>14. \A i \in words : u <= i /\ i <= Len(line) /\ i \in Nat
  BY <1>1, <1>2, <1>3, <1>4
<1>15. u \in 1 .. Len(line) + 1
  BY <1>1, <1>2, <1>3, <1>4
<1> DEFINE q == Max(words \cup {u})
           p == Max((words \ {q}) \cup {u})
           last == IF inner = {} THEN Min(others) ELSE Max(inner)
<1>16. UriFound(line) = Between(line, u, non_ws(line, p))
  BY DEF UriFound, u
<1>17. Uri(line) = IF others = {} THEN <<>> ELSE Between(line, Min(others), non_ws(line, last))
  BY DEF Uri
<1> HIDE DEF others, words
<1>18. q \in words \cup {u} /\ \A i \in words \cup {u} : i <= q
  <2>1. words \cup {u} \in SUBSET (0 .. Len(line) + 1) /\ Len(line) + 1 \in Nat
    BY <1>1, <1>14, <1>15
  <2> QED BY <2>1, MaxIs
<1> HIDE DEF q
<1>19. p \in (words \ {q}) \cup {u} /\ \A i \in (words \ {q}) \cup {u} : i <= p
  <2>1. (words \ {q}) \cup {u} \in SUBSET (0 .. Len(line) + 1) /\ Len(line) + 1 \in Nat
    BY <1>1, <1>14, <1>15
  <2> QED BY <2>1, MaxIs
<1>20. p \in u .. Len(line) + 1
  BY <1>1, <1>14, <1>15, <1>19
<1>21. non_ws(line, p) \in p .. Len(line) + 1
  <2>1. p \in 1 .. Len(line) + 1
    BY <1>1, <1>15, <1>20
  <2> QED BY <2>1, FindIs DEF non_ws
<1>22. UriFound(line) \in Seq(Symbol) /\ Len(UriFound(line)) = non_ws(line, p) - u
  <2> DEFINE b == non_ws(line, p)
  <2>1. u \in Nat \ {0} /\ b \in Nat /\ u <= b /\ b <= Len(line) + 1
    BY <1>1, <1>15, <1>20, <1>21
  <2> HIDE DEF b
  <2>2. Between(line, u, b) \in Seq(Symbol) /\ Len(Between(line, u, b)) = b - u
    BY <2>1, BetweenIs
  <2> QED BY <1>16, <2>2 DEF b
<1>23. Len(UriFound(line)) <= Len(line)
  BY <1>1, <1>15, <1>20, <1>21, <1>22
<1>24. UriFound(line) = Uri(line)
  <2>1. CASE others = {}
    <3>1. u = Len(line) + 1
      BY <1>1, <1>11, <1>12, <1>15, <2>1
    <3>2. Len(UriFound(line)) = 0
      BY <1>1, <1>15, <1>20, <1>21, <1>22, <3>1
    <3> QED BY <1>17, <1>22, <2>1, <3>2, EmptySeq
  <2>2. CASE others # {}
    <3>1. u \in others /\ others \in SUBSET Nat
      BY <1>1, <1>11, <1>12, <1>13, <1>14, <1>15, <2>2
    <3>2. Min(others) = u
      <4>1. Min(others) \in others /\ Min(others) <= u
        BY <2>2, <3>1, MinIs
      <4> DEFINE k == Min(others)
      <4>2. k \in words /\ k <= u
        BY <1>11, <4>1
      <4> HIDE DEF k
      <4>3. k = u
        BY <1>14, <1>15, <4>2
      <4> QED BY <4>3 DEF k
    <3>3. inner = words \ {q}
      <4>1. q \in words
        BY <1>11, <1>18, <3>1
      <4>2. \A i \in words : (\E j \in words : i < j) <=> i # q
        BY <1>14, <1>18, <4>1
      <4> QED BY <1>11, <4>2
    <3>4. last = p
      <4>1. CASE inner = {}
        <5>1. p = u
          BY <1>19, <3>3, <4>1
        <5> QED BY <3>2, <4>1, <5>1
      <4>2. CASE inner # {}
        <5>1. u \in inner
          <6>1. PICK i \in words, j \in words : i < j
            BY <1>11, <4>2
          <6>2. u < j
            BY <1>14, <1>15, <6>1
          <6> QED BY <1>11, <3>1, <6>1, <6>2
        <5>2. (words \ {q}) \cup {u} = inner
          BY <3>3, <5>1
        <5> QED BY <4>2, <5>2
      <4> QED BY <4>1, <4>2
    <3> QED BY <1>16, <1>17, <2>2, <3>2, <3>4
  <2> QED BY <2>1, <2>2
<1> QED BY <1>22, <1>23, <1>24
-----------------------------------------------------------------------------
(* The header fields, and what the first series of a name amounts to.      *)
HeaderField == [prop : Property, value : Seq(Symbol)]

Comma == <<",", " ">>

(* [f, a) of the fields is the first series of those with the name p.      *)
Series(fs, p, f, a) ==
  /\ f \in 1 .. Len(fs) /\ a \in f + 1 .. Len(fs) + 1
  /\ \A i \in 1 .. f - 1 : fs[i].prop # p
  /\ \A i \in f .. a - 1 : fs[i].prop = p
  /\ a <= Len(fs) => fs[a].prop # p

(* What the others of a series add to the value of the first one.          *)
More(fs, f, a) == [i \in 1 .. a - f - 1 |-> Comma \o fs[f + i].value]

LEMMA FieldType ==
  ASSUME NEW fs \in Seq(HeaderField), NEW i \in 1 .. Len(fs)
  PROVE  fs[i].prop \in Property /\ fs[i].value \in Seq(Symbol)
<1>1. fs[i] \in HeaderField
  BY ElementOfSeq
<1> QED BY <1>1 DEF HeaderField

LEMMA CatTwice ==
  ASSUME NEW s \in Seq(Symbol), NEW t \in Seq(Symbol), NEW u \in Seq(Symbol)
  PROVE  s \o t \in Seq(Symbol) /\ s \o (t \o u) = (s \o t) \o u
BY ConcatAssociative, ConcatProperties

LEMMA CatThrice ==
  ASSUME NEW s \in Seq(Symbol), NEW t \in Seq(Symbol), NEW u \in Seq(Symbol),
         NEW w \in Seq(Symbol)
  PROVE  s \o (t \o (u \o w)) = (s \o (t \o u)) \o w
<1>1. \A a, b, c \in Seq(Symbol) : Cat(a, b) \in Seq(Symbol) /\ Cat(a, Cat(b, c)) = Cat(Cat(a, b), c)
  BY CatTwice DEF Cat
<1>2. Cat(s, Cat(t, Cat(u, w))) = Cat(Cat(s, Cat(t, u)), w)
  BY <1>1
<1> QED BY <1>2 DEF Cat

LEMMA CommaType == Comma \in Seq(Symbol)
<1>1. "," \in Symbol /\ " " \in Symbol
  BY RequestAssumption
<1>2. \A x \in Symbol : \A y \in Symbol : <<x, y>> \in Seq(Symbol)
  BY ONLY TRUE
<1> QED BY ONLY <1>1, <1>2 DEF Comma

LEMMA SeriesIs ==
  ASSUME NEW fs \in Seq(HeaderField), NEW p, NEW f \in Nat, NEW a \in Nat, Series(fs, p, f, a)
  PROVE  FirstSeries(fs, p) = fs[f].value \o FlattenSeq(More(fs, f, a))
<1> DEFINE firsts == {i \in DOMAIN fs : fs[i].prop = p}
           afters == {i \in f .. Len(fs) : fs[i].prop # p} \cup {Len(fs) + 1}
<1>1. /\ Len(fs) \in Nat /\ DOMAIN fs = 1 .. Len(fs)
      /\ f \in 1 .. Len(fs) /\ a \in f + 1 .. Len(fs) + 1
      /\ \A i \in 1 .. f - 1 : fs[i].prop # p
      /\ \A i \in f .. a - 1 : fs[i].prop = p
      /\ a <= Len(fs) => fs[a].prop # p
  BY LenProperties DEF Series
<1>2. Min(firsts) = f
  <2>1. firsts \in SUBSET Nat /\ f \in firsts
    BY <1>1
  <2>2. \A i \in firsts : i \in 1 .. Len(fs) /\ i \notin 1 .. f - 1
    BY <1>1
  <2> HIDE DEF firsts
  <2>3. Min(firsts) \in firsts /\ Min(firsts) <= f
    BY <2>1, MinIs
  <2> QED BY <1>1, <2>2, <2>3
<1>3. Min(afters) = a
  <2>1. afters \in SUBSET Nat /\ a \in afters
    BY <1>1
  <2>2. \A i \in afters : i \in f .. Len(fs) + 1 /\ i \notin f .. a - 1
    BY <1>1
  <2> HIDE DEF afters
  <2>3. Min(afters) \in afters /\ Min(afters) <= a
    BY <2>1, MinIs
  <2> QED BY <1>1, <2>2, <2>3
<1> QED BY <1>2, <1>3 DEF FirstSeries, More, Comma

LEMMA MoreType ==
  ASSUME NEW fs \in Seq(HeaderField), NEW f \in 1 .. Len(fs), NEW a \in f + 1 .. Len(fs) + 1
  PROVE  More(fs, f, a) \in Seq(Seq(Symbol)) /\ Len(More(fs, f, a)) = a - f - 1
<1>1. Len(fs) \in Nat /\ a - f - 1 \in Nat
  BY LenProperties
<1>2. ASSUME NEW i \in 1 .. a - f - 1 PROVE Comma \o fs[f + i].value \in Seq(Symbol)
  <2>1. f + i \in 1 .. Len(fs)
    BY <1>1
  <2>2. fs[f + i].value \in Seq(Symbol)
    BY <2>1, FieldType
  <2> QED BY <2>2, CommaType, ConcatProperties
<1>3. More(fs, f, a) \in [1 .. a - f - 1 -> Seq(Symbol)]
  BY <1>2 DEF More
<1> HIDE DEF More
<1>4. \A n \in Nat : \A s \in [1 .. n -> Seq(Symbol)] : s \in Seq(Seq(Symbol)) /\ Len(s) = n
  BY IsASeq
<1> QED BY <1>1, <1>3, <1>4

LEMMA MoreSnoc ==
  ASSUME NEW fs \in Seq(HeaderField), NEW f \in 1 .. Len(fs), NEW a \in f + 1 .. Len(fs)
  PROVE  More(fs, f, a + 1) = Append(More(fs, f, a), Comma \o fs[a].value)
<1> DEFINE s == More(fs, f, a)  x == Comma \o fs[a].value  t == More(fs, f, a + 1)
<1>1. Len(fs) \in Nat /\ a \in f + 1 .. Len(fs) + 1 /\ a + 1 \in f + 1 .. Len(fs) + 1
  BY LenProperties
<1>2. s \in Seq(Seq(Symbol)) /\ Len(s) = a - f - 1
  BY <1>1, MoreType
<1>3. t \in Seq(Seq(Symbol)) /\ Len(t) = (a + 1) - f - 1
  BY <1>1, MoreType
<1>4. x \in Seq(Symbol)
  <2>1. a \in 1 .. Len(fs)
    BY <1>1
  <2>2. fs[a].value \in Seq(Symbol)
    BY <2>1, FieldType
  <2> QED BY <2>2, CommaType, ConcatProperties
<1>5. /\ \A i \in 1 .. a - f - 1 : s[i] = Comma \o fs[f + i].value
      /\ \A i \in 1 .. (a + 1) - f - 1 : t[i] = Comma \o fs[f + i].value
  BY DEF More
<1>6. f + (a - f) = a /\ a - f \in 1 .. (a + 1) - f - 1
  BY <1>1
<1>7. t[a - f] = x
  BY <1>5, <1>6
<1> HIDE DEF s, x, t
<1>8. /\ Append(s, x) \in Seq(Seq(Symbol)) /\ Len(Append(s, x)) = (a - f - 1) + 1
      /\ \A i \in 1 .. a - f - 1 : Append(s, x)[i] = s[i]
      /\ Append(s, x)[(a - f - 1) + 1] = x
  BY <1>2, <1>4, AppendProperties
<1>9. ASSUME NEW i \in 1 .. a - f PROVE t[i] = Append(s, x)[i]
  <2>1. i \in 1 .. a - f - 1 \/ i = a - f
    BY <1>1
  <2>2. (a - f - 1) + 1 = a - f /\ \A j \in 1 .. a - f - 1 : j \in 1 .. (a + 1) - f - 1
    BY <1>1
  <2> QED BY <1>5, <1>7, <1>8, <2>1, <2>2
<1>10. (a - f - 1) + 1 = a - f /\ (a + 1) - f - 1 = a - f
  BY <1>1
<1>11. t = Append(s, x)
  BY <1>3, <1>8, <1>9, <1>10, SeqEqual
<1> QED BY <1>11 DEF s, x, t

(* A series does not change if none of its fields does, and it goes no     *)
(* further.                                                                *)
LEMMA SeriesKept ==
  ASSUME NEW fs \in Seq(HeaderField), NEW gs \in Seq(HeaderField), NEW p, NEW f \in Nat,
         NEW a \in Nat, Series(fs, p, f, a), a <= Len(gs) + 1,
         \A i \in 1 .. a - 1 : gs[i] = fs[i], a <= Len(gs) => gs[a].prop # p
  PROVE  Series(gs, p, f, a) /\ FirstSeries(gs, p) = FirstSeries(fs, p)
<1>1. /\ Len(fs) \in Nat /\ Len(gs) \in Nat
      /\ f \in 1 .. Len(fs) /\ a \in f + 1 .. Len(fs) + 1
      /\ \A i \in 1 .. f - 1 : fs[i].prop # p
      /\ \A i \in f .. a - 1 : fs[i].prop = p
  BY LenProperties DEF Series
<1>2. /\ f \in 1 .. Len(gs) /\ a \in f + 1 .. Len(gs) + 1
      /\ \A i \in 1 .. f - 1 : i \in 1 .. a - 1
      /\ \A i \in f .. a - 1 : i \in 1 .. a - 1
      /\ \A i \in 1 .. a - f - 1 : f + i \in 1 .. a - 1
  <2> DEFINE k == Len(fs)  l == Len(gs)
  <2>1. k \in Nat /\ l \in Nat /\ f \in 1 .. k /\ a \in f + 1 .. k + 1 /\ a <= l + 1
    BY <1>1
  <2> HIDE DEF k, l
  <2>2. f \in 1 .. l /\ a \in f + 1 .. l + 1
    BY ONLY <2>1
  <2>3. \A i \in 1 .. f - 1 : i \in 1 .. a - 1
    BY ONLY <2>1
  <2>4. \A i \in f .. a - 1 : i \in 1 .. a - 1
    BY ONLY <2>1
  <2>5. \A i \in 1 .. a - f - 1 : f + i \in 1 .. a - 1
    BY ONLY <2>1
  <2> QED BY <2>2, <2>3, <2>4, <2>5 DEF l
<1>3. Series(gs, p, f, a)
  BY <1>1, <1>2 DEF Series
<1>4. More(gs, f, a) = More(fs, f, a)
  BY <1>2 DEF More
<1>5. gs[f] = fs[f]
  BY <1>1
<1>6. FirstSeries(fs, p) = fs[f].value \o FlattenSeq(More(fs, f, a))
  BY SeriesIs
<1>7. FirstSeries(gs, p) = gs[f].value \o FlattenSeq(More(gs, f, a))
  BY <1>3, SeriesIs
<1> QED BY <1>3, <1>4, <1>5, <1>6, <1>7

(* One field more of the same name.                                        *)
LEMMA SeriesGrows ==
  ASSUME NEW fs \in Seq(HeaderField), NEW x \in HeaderField, NEW f \in Nat,
         Series(fs, x.prop, f, Len(fs) + 1)
  PROVE  /\ Series(Append(fs, x), x.prop, f, Len(fs) + 2)
         /\ FirstSeries(Append(fs, x), x.prop)
              = FirstSeries(fs, x.prop) \o (Comma \o x.value)
<1> DEFINE n == Len(fs)  gs == Append(fs, x)  p == x.prop
<1>1. /\ n \in Nat /\ gs \in Seq(HeaderField) /\ Len(gs) = n + 1 /\ gs[n + 1] = x
      /\ \A i \in 1 .. n : gs[i] = fs[i]
  BY LenProperties, AppendProperties
<1> HIDE DEF gs
<1>2. /\ f \in 1 .. n /\ \A i \in 1 .. f - 1 : fs[i].prop # p
      /\ \A i \in f .. (n + 1) - 1 : fs[i].prop = p
  BY DEF Series
<1>3. Series(gs, p, f, n + 2)
  <2>1. f \in 1 .. Len(gs) /\ n + 2 \in f + 1 .. Len(gs) + 1 /\ ~(n + 2 <= Len(gs))
    BY <1>1, <1>2
  <2>2. ASSUME NEW i \in 1 .. f - 1 PROVE gs[i].prop # p
    BY <1>1, <1>2, i \in 1 .. n
  <2>3. ASSUME NEW i \in f .. (n + 2) - 1 PROVE gs[i].prop = p
    <3>1. (i \in 1 .. n /\ i \in f .. (n + 1) - 1) \/ i = n + 1
      BY <1>1, <1>2
    <3> QED BY <1>1, <1>2, <3>1
  <2> QED BY <2>1, <2>2, <2>3 DEF Series
<1>4. FirstSeries(fs, p) = fs[f].value \o FlattenSeq(More(fs, f, n + 1))
  BY n + 1 \in Nat, SeriesIs
<1>5. FirstSeries(gs, p) = gs[f].value \o FlattenSeq(More(gs, f, n + 2))
  BY ONLY <1>1, <1>3, f \in Nat, n + 2 \in Nat, SeriesIs
<1>6. gs[f] = fs[f] /\ fs[f].value \in Seq(Symbol) /\ x.value \in Seq(Symbol)
  <2>1. x.value \in Seq(Symbol)
    BY DEF HeaderField
  <2> QED BY <1>1, <1>2, <2>1, FieldType
<1>7. More(gs, f, n + 1) = More(fs, f, n + 1)
  <2>1. \A i \in 1 .. (n + 1) - f - 1 : f + i \in 1 .. n
    BY <1>1, <1>2
  <2> QED BY <1>1, <2>1 DEF More
<1>8. More(gs, f, n + 2) = Append(More(fs, f, n + 1), Comma \o x.value)
  <2>1. f \in 1 .. Len(gs) /\ n + 1 \in f + 1 .. Len(gs) /\ (n + 1) + 1 = n + 2
    BY <1>1, <1>2
  <2> QED BY <1>1, <1>7, <2>1, MoreSnoc
<1>9. More(fs, f, n + 1) \in Seq(Seq(Symbol)) /\ Comma \o x.value \in Seq(Symbol)
  <2>1. n + 1 \in f + 1 .. n + 1
    BY <1>1, <1>2
  <2> QED BY <1>2, <1>6, <2>1, MoreType, CommaType, ConcatProperties
<1> DEFINE m == More(fs, f, n + 1)  y == Comma \o x.value
<1> HIDE DEF m, y
<1>10. FlattenSeq(Append(m, y)) = FlattenSeq(m) \o y /\ FlattenSeq(m) \in Seq(Symbol)
  BY <1>9, FlattenSnoc, FlattenType DEF m, y
<1>11. fs[f].value \o (FlattenSeq(m) \o y) = (fs[f].value \o FlattenSeq(m)) \o y
  <2>1. y \in Seq(Symbol)
    BY <1>9 DEF y
  <2>2. fs[f].value \in Seq(Symbol)
    BY <1>6
  <2>3. FlattenSeq(m) \in Seq(Symbol)
    BY <1>10
  <2>4. \A s, t, u \in Seq(Symbol) : Cat(s, Cat(t, u)) = Cat(Cat(s, t), u)
    BY CatTwice DEF Cat
  <2>5. Cat(fs[f].value, Cat(FlattenSeq(m), y)) = Cat(Cat(fs[f].value, FlattenSeq(m)), y)
    BY ONLY <2>1, <2>2, <2>3, <2>4
  <2> QED BY <2>5 DEF Cat
<1> QED BY <1>3, <1>4, <1>5, <1>6, <1>8, <1>10, <1>11 DEF gs, m, y

(* The first field of its name.                                            *)
LEMMA SeriesNew ==
  ASSUME NEW fs \in Seq(HeaderField), NEW x \in HeaderField,
         \A i \in 1 .. Len(fs) : fs[i].prop # x.prop
  PROVE  /\ Series(Append(fs, x), x.prop, Len(fs) + 1, Len(fs) + 2)
         /\ FirstSeries(Append(fs, x), x.prop) = x.value
<1> DEFINE n == Len(fs)  gs == Append(fs, x)  p == x.prop
<1>1. /\ n \in Nat /\ gs \in Seq(HeaderField) /\ Len(gs) = n + 1 /\ gs[n + 1] = x
      /\ \A i \in 1 .. n : gs[i] = fs[i]
  BY LenProperties, AppendProperties
<1> HIDE DEF gs
<1>2. Series(gs, p, n + 1, n + 2)
  <2>1. /\ n + 1 \in 1 .. Len(gs) /\ n + 2 \in (n + 1) + 1 .. Len(gs) + 1 /\ ~(n + 2 <= Len(gs))
        /\ (n + 1) - 1 = n /\ \A i \in n + 1 .. (n + 2) - 1 : i = n + 1
    BY <1>1
  <2> QED BY <1>1, <2>1 DEF Series
<1>3. FirstSeries(gs, p) = x.value \o FlattenSeq(More(gs, n + 1, n + 2))
  <2>1. n + 1 \in Nat /\ n + 2 \in Nat
    BY <1>1
  <2> QED BY <1>1, <1>2, <2>1, SeriesIs
<1>4. More(gs, n + 1, n + 2) = <<>>
  <2>1. n + 1 \in 1 .. Len(gs) /\ n + 2 \in (n + 1) + 1 .. Len(gs) + 1 /\ (n + 2) - (n + 1) - 1 = 0
    BY <1>1
  <2> QED BY <1>1, <2>1, MoreType, EmptySeq
<1>5. x.value \o <<>> = x.value
  BY ConcatEmptySeq DEF HeaderField
<1> QED BY <1>2, <1>3, <1>4, <1>5, FlattenNil DEF gs

(* A continuation line.                                                    *)
LEMMA SeriesContinued ==
  ASSUME NEW fs \in Seq(HeaderField), NEW gs \in Seq(HeaderField), NEW p, NEW f \in Nat,
         NEW c \in Seq(Symbol), Series(fs, p, f, Len(fs) + 1), Len(gs) = Len(fs),
         \A i \in 1 .. Len(fs) - 1 : gs[i] = fs[i],
         gs[Len(fs)].prop = fs[Len(fs)].prop,
         gs[Len(fs)].value = fs[Len(fs)].value \o c
  PROVE  /\ Series(gs, p, f, Len(gs) + 1)
         /\ FirstSeries(gs, p) = FirstSeries(fs, p) \o c
<1> DEFINE n == Len(fs)
<1>1. /\ n \in Nat /\ f \in 1 .. n /\ n + 1 \in f + 1 .. n + 1
      /\ \A i \in 1 .. f - 1 : fs[i].prop # p
      /\ \A i \in f .. (n + 1) - 1 : fs[i].prop = p
  BY LenProperties DEF Series
<1>2. ASSUME NEW i \in 1 .. n PROVE gs[i].prop = fs[i].prop
  <2>1. i \in 1 .. n - 1 \/ i = n
    BY <1>1
  <2> QED BY <2>1
<1>3. Series(gs, p, f, n + 1)
  <2>1. /\ ~(n + 1 <= Len(gs)) /\ \A i \in 1 .. f - 1 : i \in 1 .. n
        /\ \A i \in f .. (n + 1) - 1 : i \in 1 .. n
    BY <1>1
  <2> QED BY <1>1, <1>2, <2>1 DEF Series
<1>4. FirstSeries(fs, p) = fs[f].value \o FlattenSeq(More(fs, f, n + 1))
  BY <1>1, n + 1 \in Nat, SeriesIs
<1>5. FirstSeries(gs, p) = gs[f].value \o FlattenSeq(More(gs, f, n + 1))
  BY ONLY <1>3, gs \in Seq(HeaderField), f \in Nat, n + 1 \in Nat, SeriesIs
<1>6. fs[f].value \in Seq(Symbol) /\ fs[n].value \in Seq(Symbol)
  <2>1. n \in 1 .. n
    BY <1>1
  <2> QED BY <1>1, <2>1, FieldType
<1>7. CASE f = n
  <2>1. More(fs, f, n + 1) = <<>> /\ More(gs, f, n + 1) = <<>>
    <3>1. (n + 1) - f - 1 = 0 /\ f \in 1 .. Len(gs) /\ n + 1 \in f + 1 .. Len(gs) + 1
      BY <1>1, <1>7
    <3>2. More(fs, f, n + 1) \in Seq(Seq(Symbol)) /\ Len(More(fs, f, n + 1)) = 0
      BY <1>1, <3>1, MoreType
    <3>3. More(gs, f, n + 1) \in Seq(Seq(Symbol)) /\ Len(More(gs, f, n + 1)) = 0
      BY <3>1, MoreType
    <3> QED BY <3>2, <3>3, EmptySeq
  <2>2. fs[f].value \o <<>> = fs[f].value /\ gs[f].value = fs[f].value \o c
    BY <1>6, <1>7, ConcatEmptySeq
  <2>3. gs[f].value \o <<>> = gs[f].value
    BY <1>6, <2>2, ConcatEmptySeq, ConcatProperties
  <2> QED BY <1>3, <1>4, <1>5, <2>1, <2>2, <2>3, FlattenNil
<1>8. CASE f < n
  <2> DEFINE m == More(fs, f, n)  y == Comma \o fs[n].value
  <2>1. f \in 1 .. Len(gs) /\ n \in f + 1 .. n /\ n \in f + 1 .. n + 1
    BY <1>1, <1>8
  <2>2. More(fs, f, n + 1) = Append(m, y)
    BY <1>1, <2>1, MoreSnoc
  <2>3. More(gs, f, n + 1) = Append(More(gs, f, n), Comma \o gs[n].value)
    BY <2>1, MoreSnoc
  <2>4. More(gs, f, n) = m
    <3>1. \A i \in 1 .. n - f - 1 : f + i \in 1 .. n - 1
      BY <1>1, <1>8
    <3> QED BY <3>1 DEF More
  <2>5. Comma \o gs[n].value = y \o c
    <3>1. Comma \o (fs[n].value \o c) = (Comma \o fs[n].value) \o c
      BY <1>6, CommaType, CatTwice
    <3> QED BY <3>1
  <2>6. m \in Seq(Seq(Symbol)) /\ y \in Seq(Symbol) /\ y \o c \in Seq(Symbol)
    BY <1>1, <1>6, <2>1, MoreType, CommaType, ConcatProperties
  <2> HIDE DEF m, y
  <2>7. /\ FlattenSeq(m) \in Seq(Symbol) /\ FlattenSeq(Append(m, y)) = FlattenSeq(m) \o y
        /\ FlattenSeq(Append(m, y \o c)) = FlattenSeq(m) \o (y \o c)
    BY <2>6, FlattenSnoc, FlattenType
  <2> DEFINE u == fs[f].value  w == FlattenSeq(m)
  <2>8. gs[f] = fs[f] /\ u \in Seq(Symbol) /\ w \in Seq(Symbol)
    BY <1>1, <1>6, <1>8, <2>7
  <2> HIDE DEF u, w
  <2>9. u \o (w \o (y \o c)) = (u \o (w \o y)) \o c
    <3>1. \A a, b, d, e \in Seq(Symbol) : Cat(a, Cat(b, Cat(d, e))) = Cat(Cat(a, Cat(b, d)), e)
      BY CatThrice DEF Cat
    <3>2. Cat(u, Cat(w, Cat(y, c))) = Cat(Cat(u, Cat(w, y)), c)
      BY <2>6, <2>8, <3>1
    <3> QED BY <3>2 DEF Cat
  <2> QED BY <1>3, <1>4, <1>5, <2>2, <2>3, <2>4, <2>5, <2>7, <2>8, <2>9 DEF u, w
<1> QED BY <1>1, <1>7, <1>8
-----------------------------------------------------------------------------
Entry == [prop : Property, start : Nat]

TypeOK ==
  /\ v \in Seq(Symbol) /\ properties \in Seq(Entry)
  /\ complete \in BOOLEAN /\ broken \in BOOLEAN
  /\ method \in Property /\ version \in Property
  /\ lines \in Seq(Lines) /\ seen \in Q!Request

Unheaded == \A i \in 2 .. Len(lines) : ~IsHeader(lines[i])

(* The URI is the first of the properties, whole, and others follow it     *)
(* from the first header on.                                               *)
Kept ==
  /\ properties # <<>> /\ properties[1] = [prop |-> "Request_URI", start |-> 0]
  /\ complete => Len(properties) > 1
  /\ ~complete => (Len(properties) = 1 <=> Unheaded)
  /\ Len(properties) = 1 => v = Uri(lines[1])
  /\ Len(properties) > 1 =>
       /\ properties[2].start = Len(Uri(lines[1]))
       /\ Len(Uri(lines[1])) <= Len(v)
       /\ \A i \in 1 .. Len(Uri(lines[1])) : v[i] = Uri(lines[1])[i]

IInv ==
  /\ TypeOK
  /\ lines = <<>> => v = <<>> /\ properties = <<>> /\ ~complete /\ ~broken /\ method = "END"
  /\ lines # <<>> => method # "END"
  /\ lines # <<>> /\ ~NamesUri => Kept
  /\ SessionAgrees

LEMMA LookupType ==
  ASSUME NEW s
  PROVE  lookup(s) \in Property \ {"END"}
<1> DEFINE found == {i \in DOMAIN Named : s = <<Printed[Named[i]]>>}
<1>1. Named \in Seq(Property \ {"UNKNOWN", "END"}) /\ "UNKNOWN" \in Property
  BY RequestAssumption
<1>2. found \subseteq 1 .. Len(Named) /\ Len(Named) \in Nat
  BY <1>1, LenProperties
<1>3. found # {} => Max(found) \in 1 .. Len(Named)
  <2>1. found \in SUBSET (0 .. Len(Named))
    BY <1>2
  <2> HIDE DEF found
  <2> QED BY <1>2, <2>1, MaxIs
<1>4. found # {} => Named[Max(found)] \in Property \ {"UNKNOWN", "END"}
  BY <1>1, <1>3, ElementOfSeq
<1> QED BY <1>1, <1>4 DEF lookup

(* The values so far stay where they are. *)
Longer == v' \in Seq(Symbol) /\ Len(v') >= Len(v) /\ \A i \in 1 .. Len(v) : v'[i] = v[i]

LEMMA LongerIs ==
  ASSUME v \in Seq(Symbol), NEW text \in Seq(Symbol), v' = v \o text
  PROVE  Longer /\ Len(v') = Len(v) + Len(text)
<1>1. Len(v) \in Nat /\ Len(text) \in Nat
  BY LenProperties
<1>2. /\ v \o text \in Seq(Symbol) /\ Len(v \o text) = Len(v) + Len(text)
      /\ \A i \in 1 .. Len(v) : (v \o text)[i] = v[i]
  BY CatIs
<1> QED BY <1>1, <1>2 DEF Longer

LEMMA InsertIs ==
  ASSUME v \in Seq(Symbol), properties \in Seq(Entry), NEW prop \in Property,
         NEW text \in Seq(Symbol), insert(prop, text)
  PROVE  /\ Longer /\ Len(v') = Len(v) + Len(text)
         /\ properties' \in Seq(Entry) /\ Len(properties') = Len(properties) + 1
         /\ \A i \in 1 .. Len(properties) : properties'[i] = properties[i]
         /\ properties'[Len(properties) + 1] = [prop |-> prop, start |-> Len(v) % Width]
<1>1. Longer /\ Len(v') = Len(v) + Len(text)
  BY LongerIs DEF insert
<1>2. Len(v) % Width \in Nat
  <2>1. \A n \in Nat : \A w \in Nat \ {0} : n % w \in Nat
    OBVIOUS
  <2>2. Len(v) \in Nat /\ Width \in Nat \ {0}
    BY LenProperties, RequestAssumption
  <2> QED BY <2>1, <2>2
<1> DEFINE entry == [prop |-> prop, start |-> Len(v) % Width]
<1>3. entry \in Entry
  BY <1>2 DEF Entry
<1>4. properties' = Append(properties, entry)
  BY DEF insert
<1> HIDE DEF entry
<1>5. /\ properties' \in Seq(Entry) /\ Len(properties') = Len(properties) + 1
      /\ \A i \in 1 .. Len(properties) : properties'[i] = properties[i]
      /\ properties'[Len(properties) + 1] = entry
  BY <1>3, <1>4, AppendProperties
<1> QED BY <1>1, <1>5 DEF entry

(* One line more has been fed. *)
LEMMA LinesAre ==
  ASSUME lines \in Seq(Lines), lines # <<>>, NEW line \in Lines, lines' = Append(lines, line)
  PROVE  /\ lines' \in Seq(Lines) /\ lines' # <<>> /\ lines'[1] = lines[1]
         /\ line \in Seq(Symbol) /\ Len(line) < Width
         /\ lines[1] \in Seq(Symbol) /\ Len(lines[1]) < Width
         /\ ~NamesUri' => ~NamesUri
         /\ Unheaded' <=> Unheaded /\ ~Good(line)
         /\ ~NamesUri' /\ Unheaded /\ Good(line) => lookup(Name(line)) # "Request_URI"
<1> DEFINE n == Len(lines)
<1>1. n \in Nat \ {0}
  BY EmptySeq
<1>2. /\ lines' \in Seq(Lines) /\ Len(lines') = n + 1 /\ lines'[n + 1] = line
      /\ \A i \in 1 .. n : lines'[i] = lines[i]
  BY AppendProperties
<1>3. lines' # <<>>
  BY <1>1, <1>2, EmptySeq
<1>4. line \in Seq(Symbol) /\ Len(line) < Width
  BY RequestAssumption
<1>5. lines[1] \in Lines
  BY <1>1, ElementOfSeq
<1>6. lines[1] \in Seq(Symbol) /\ Len(lines[1]) < Width
  BY <1>5, RequestAssumption
<1> HIDE DEF n
<1> DEFINE Other(line1) == lookup(Stripped(SubSeq(line1, 1, token(line1, ws(line1, 1)) - 1))) = "Request_URI"
           First(ls, i) == IsHeader(ls[i]) /\ \A j \in 2 .. i - 1 : ~IsHeader(ls[j])
<1>7. \A i \in 2 .. n : i \in 1 .. n /\ i \in 2 .. n + 1 /\ \A j \in 2 .. i - 1 : j \in 1 .. n
  BY <1>1
<1>8. NamesUri <=> \E i \in 2 .. n : First(lines, i) /\ Other(lines[i])
  BY DEF NamesUri, n
<1>9. NamesUri' <=> \E i \in 2 .. n + 1 : First(lines', i) /\ Other(lines'[i])
  BY <1>2 DEF NamesUri
<1> HIDE DEF Other
<1>10. NamesUri => NamesUri'
  <2>1. SUFFICES ASSUME NamesUri PROVE NamesUri'
    OBVIOUS
  <2>2. PICK i \in 2 .. n : First(lines, i) /\ Other(lines[i])
    BY <1>8, <2>1
  <2>3. First(lines', i) /\ lines'[i] = lines[i] /\ i \in 2 .. n + 1
    BY <1>2, <1>7, <2>2
  <2> QED BY <1>9, <2>2, <2>3
<1>11. Unheaded' <=> Unheaded /\ ~Good(line)
  <2>1. Unheaded' <=> \A i \in 2 .. n + 1 : ~IsHeader(lines'[i])
    BY <1>2 DEF Unheaded
  <2>2. Unheaded <=> \A i \in 2 .. n : ~IsHeader(lines[i])
    BY DEF Unheaded, n
  <2>3. (\A i \in 2 .. n + 1 : i \in 2 .. n \/ i = n + 1) /\ n + 1 \in 2 .. n + 1
    BY <1>1
  <2>4. Good(line) <=> IsHeader(line)
    BY <1>4, GoodIs
  <2> QED BY <1>2, <1>7, <2>1, <2>2, <2>3, <2>4
<1>12. ~NamesUri' /\ Unheaded /\ Good(line) => lookup(Name(line)) # "Request_URI"
  <2>1. SUFFICES ASSUME Unheaded, Good(line), lookup(Name(line)) = "Request_URI" PROVE NamesUri'
    OBVIOUS
  <2>2. Other(line)
    BY <1>4, <2>1, NameIs DEF Other, EndAt, NameAt
  <2>3. n + 1 \in 2 .. n + 1 /\ \A j \in 2 .. (n + 1) - 1 : j \in 2 .. n
    BY <1>1
  <2>4. IsHeader(line)
    BY <1>4, <2>1, GoodIs
  <2>5. \A j \in 2 .. n : ~IsHeader(lines[j])
    BY <2>1 DEF Unheaded, n
  <2>6. First(lines', n + 1)
    BY <1>2, <1>7, <2>3, <2>4, <2>5
  <2> QED BY <1>2, <1>9, <2>2, <2>3, <2>6
<1> QED BY <1>1, <1>2, <1>3, <1>4, <1>6, <1>10, <1>11, <1>12
-----------------------------------------------------------------------------
(* What each kind of line does. *)
LEMMA FirstLineIs ==
  ASSUME NEW line \in Seq(Symbol), first_line(line)
  PROVE  /\ insert("Request_URI", Uri(line))
         /\ method' \in Property \ {"END"} /\ version' \in Property
         /\ UNCHANGED <<complete, broken>>
<1>1. insert("Request_URI", UriFound(line))
  BY DEF first_line, UriFound, Start, NameAt
<1>2. method' \in Property \ {"END"} /\ version' \in Property /\ UNCHANGED <<complete, broken>>
  BY LookupType DEF first_line
<1> QED BY <1>1, <1>2, UriIs

Repeats(line) == properties # <<>> /\ Last(properties).prop = lookup(Name(line))

LEMMA PlainLineAdds ==
  ASSUME NEW line \in Seq(Symbol), v \in Seq(Symbol), plain_line(line), Good(line)
  PROVE  /\ Repeats(line) => v' = v \o (Comma \o Value(line)) /\ UNCHANGED properties
         /\ ~Repeats(line) => insert(lookup(Name(line)), Value(line))
<1>1. IF Repeats(line) THEN v' = v \o Comma \o Value(line) /\ UNCHANGED properties
                       ELSE insert(lookup(Name(line)), Value(line))
  BY DEF plain_line, Good, Name, NameAt, EndAt, ColonAt, Repeats, Value, ValueAt, Comma
<1>2. v \o (Comma \o Value(line)) = v \o Comma \o Value(line)
  BY FieldIs, CommaType, CatTwice
<1> QED BY <1>1, <1>2

LEMMA PlainLineIs ==
  ASSUME NEW line \in Seq(Symbol), v \in Seq(Symbol), plain_line(line)
  PROVE  /\ UNCHANGED <<complete, method, version>>
         /\ \/ ~Good(line) /\ broken' = TRUE /\ UNCHANGED <<v, properties>>
            \/ /\ Good(line) /\ UNCHANGED broken
               /\ \E text \in Seq(Symbol) :
                    \/ Repeats(line) /\ v' = v \o text /\ UNCHANGED properties
                    \/ ~Repeats(line) /\ insert(lookup(Name(line)), text)
<1>1. /\ UNCHANGED <<complete, method, version>>
      /\ \/ ~Good(line) /\ broken' = TRUE /\ UNCHANGED <<v, properties>>
         \/ Good(line) /\ UNCHANGED broken
  BY DEF plain_line, Good, NameAt, EndAt, ColonAt
<1>2. ASSUME Good(line)
      PROVE  \E text \in Seq(Symbol) :
               \/ Repeats(line) /\ v' = v \o text /\ UNCHANGED properties
               \/ ~Repeats(line) /\ insert(lookup(Name(line)), text)
  <2>1. Value(line) \in Seq(Symbol) /\ Comma \o Value(line) \in Seq(Symbol)
    BY <1>2, FieldIs, CommaType, ConcatProperties
  <2> QED BY <1>2, <2>1, PlainLineAdds
<1> QED BY <1>1, <1>2

LEMMA ContLineIs ==
  ASSUME NEW line \in Seq(Symbol), cont_line(line), NameAt(line) <= Len(line), NameAt(line) # 1
  PROVE  /\ v' = v \o Continuation(line) /\ Continuation(line) \in Seq(Symbol)
         /\ UNCHANGED <<properties, complete, broken, method, version>>
BY ContinuationIs DEF cont_line, NameAt
-----------------------------------------------------------------------------
(* Each kind of line keeps the invariant. *)
LEMMA Begins == Init => IInv
<1> SUFFICES ASSUME Init PROVE IInv
  OBVIOUS
<1>1. <<>> \in Seq(Symbol) /\ <<>> \in Seq(Entry) /\ <<>> \in Seq(Lines) /\ <<>> \in Seq(Shapes)
  BY EmptySeq
<1>2. "END" \in Property /\ "UNKNOWN" \in Property
  BY RequestAssumption
<1>3. seen \in Q!Request
  BY <1>1 DEF Init, Q!FirstLine, Q!Request, Q!Line, Shapes
<1> QED BY <1>1, <1>2, <1>3 DEF Init, IInv, TypeOK, SessionAgrees

LEMMA FirstStep ==
  ASSUME IInv, NEW line \in Lines, add(line), lines = <<>>
  PROVE  IInv'
<1>1. /\ v = <<>> /\ properties = <<>> /\ ~complete /\ ~broken /\ method = "END"
      /\ TypeOK
  BY DEF IInv
<1>2. line \in Seq(Symbol) /\ Len(line) < Width /\ Width \in Nat \ {0} /\ "Request_URI" \in Property
  BY RequestAssumption
<1>3. first_line(line) /\ lines' = Append(lines, line) /\ seen' = Q!FirstLine(Shape(line))
  BY <1>1 DEF add
<1>4. lines' \in Seq(Lines) /\ Len(lines') = 1 /\ lines'[1] = line /\ lines' # <<>>
  <2>1. <<>> \in Seq(Lines) /\ Len(<<>>) = 0
    BY EmptySeq
  <2>2. lines' \in Seq(Lines) /\ Len(lines') = 0 + 1 /\ lines'[0 + 1] = line
    BY <1>3, <2>1, AppendProperties
  <2>3. lines' # <<>>
    BY ONLY <2>1, <2>2
  <2> QED BY ONLY <2>2, <2>3
<1>5. /\ insert("Request_URI", Uri(line)) /\ method' \in Property \ {"END"} /\ version' \in Property
      /\ UNCHANGED <<complete, broken>> /\ Uri(line) \in Seq(Symbol)
  BY <1>2, <1>3, FirstLineIs, UriIs
<1>6. v' = Uri(line)
  <2>1. v' = <<>> \o Uri(line)
    BY <1>1, <1>5 DEF insert
  <2> QED BY <1>5, <2>1, ConcatEmptySeq
<1>7. /\ v' \in Seq(Symbol) /\ properties' \in Seq(Entry) /\ Len(properties') = 1
      /\ properties'[1] = [prop |-> "Request_URI", start |-> 0] /\ properties' # <<>>
  <2>1. Len(<<>>) = 0 /\ 0 % Width = 0
    BY <1>2, EmptySeq
  <2>2. /\ properties' \in Seq(Entry) /\ Len(properties') = 0 + 1
        /\ properties'[0 + 1] = [prop |-> "Request_URI", start |-> 0]
    BY <1>1, <1>2, <1>5, <2>1, InsertIs DEF TypeOK
  <2>3. Len(properties') = 1 /\ properties'[1] = [prop |-> "Request_URI", start |-> 0]
    BY <2>2
  <2>4. properties' # <<>>
    BY ONLY Len(<<>>) = 0, <2>1, <2>3
  <2> QED BY <1>5, <1>6, <2>2, <2>3, <2>4
<1>8. /\ seen' \in Q!Request /\ seen'.complete = FALSE /\ seen'.broken = FALSE
      /\ seen'.headed = FALSE
  BY <1>2, <1>3, ShapeIs DEF Q!FirstLine, Q!Request, Q!Line, Shapes
<1>9. TypeOK'
  BY <1>1, <1>4, <1>5, <1>7, <1>8 DEF TypeOK
<1>10. SessionAgrees'
  <2>1. complete' = FALSE /\ broken' = FALSE
    BY <1>1, <1>5 DEF TypeOK
  <2>2. (Len(properties') > 1) = FALSE
    BY <1>7
  <2>3. broken' = (seen'.broken \/ (complete' /\ Len(v') >= Width))
    BY <1>8, <2>1
  <2> QED BY <1>8, <2>1, <2>2, <2>3 DEF SessionAgrees
<1>11. Kept'
  <2>1. Unheaded'
    <3>1. \A i \in 2 .. Len(lines') : FALSE
      BY <1>4
    <3> QED BY <3>1 DEF Unheaded
  <2> QED BY <1>1, <1>4, <1>5, <1>6, <1>7, <2>1 DEF Kept
<1> QED BY <1>4, <1>5, <1>9, <1>10, <1>11 DEF IInv

(* What is kept when values are added behind what is there, and with them  *)
(* properties, or not.                                                     *)
LEMMA KeptOn ==
  ASSUME TypeOK, Kept, ~complete, Longer, lines # <<>>, NEW line \in Lines,
         lines' = Append(lines, line),
         \/ UNCHANGED <<v, properties>> /\ UNCHANGED complete /\ ~Good(line)
         \/ UNCHANGED <<properties, complete>> /\ Len(properties) > 1
         \/ /\ complete' \/ (UNCHANGED complete /\ Good(line))
            /\ \E prop \in Property, text \in Seq(Symbol) : insert(prop, text)
  PROVE  Kept'
<1> DEFINE uri == Uri(lines[1])  n == Len(properties)
<1>1. /\ lines'[1] = lines[1] /\ (Unheaded' <=> Unheaded /\ ~Good(line))
      /\ lines[1] \in Seq(Symbol) /\ Len(lines[1]) < Width
  BY LinesAre DEF TypeOK
<1>2. /\ uri \in Seq(Symbol) /\ Len(uri) \in Nat /\ Len(uri) < Width
  <2>1. Len(lines[1]) \in Nat /\ Width \in Nat
    BY <1>1, LenProperties, RequestAssumption
  <2>2. uri \in Seq(Symbol) /\ Len(uri) <= Len(lines[1])
    BY <1>1, UriIs
  <2> HIDE DEF uri
  <2>3. Len(uri) \in Nat
    BY <2>2, LenProperties
  <2> QED BY <1>1, <2>1, <2>2, <2>3
<1>3. n \in Nat \ {0} /\ Len(v) \in Nat /\ Len(v') \in Nat
  BY EmptySeq, LenProperties DEF TypeOK, Kept, Longer
<1>4. /\ properties[1] = [prop |-> "Request_URI", start |-> 0]
      /\ n = 1 <=> Unheaded
      /\ n = 1 => v = uri
      /\ n > 1 => /\ properties[2].start = Len(uri) /\ Len(uri) <= Len(v)
                  /\ \A i \in 1 .. Len(uri) : v[i] = uri[i]
  BY DEF Kept
<1> HIDE DEF uri, n
<1>5. Len(uri) <= Len(v) /\ \A i \in 1 .. Len(uri) : v[i] = uri[i]
  BY <1>2, <1>3, <1>4
<1>6. Len(uri) <= Len(v') /\ \A i \in 1 .. Len(uri) : v'[i] = uri[i]
  <2>1. \A i \in 1 .. Len(uri) : i \in 1 .. Len(v)
    BY <1>2, <1>3, <1>5
  <2> QED BY <1>2, <1>3, <1>5, <2>1 DEF Longer
<1>7. CASE UNCHANGED <<v, properties>> /\ UNCHANGED complete /\ ~Good(line)
  BY <1>1, <1>7 DEF Kept
<1>8. CASE UNCHANGED <<properties, complete>> /\ Len(properties) > 1
  <2>1. n > 1 /\ ~Unheaded /\ ~Unheaded' /\ properties[2].start = Len(uri)
    BY <1>1, <1>3, <1>4, <1>8 DEF n
  <2>2. properties # <<>>
    BY DEF Kept
  <2> QED BY <1>1, <1>4, <1>6, <1>8, <2>1, <2>2 DEF Kept, uri, n
<1>9. CASE /\ complete' \/ (UNCHANGED complete /\ Good(line))
           /\ \E prop \in Property, text \in Seq(Symbol) : insert(prop, text)
  <2>1. PICK prop \in Property, text \in Seq(Symbol) : insert(prop, text)
    BY <1>9
  <2>2. /\ properties' \in Seq(Entry) /\ Len(properties') = n + 1
        /\ \A i \in 1 .. n : properties'[i] = properties[i]
        /\ properties'[n + 1] = [prop |-> prop, start |-> Len(v) % Width]
    BY <2>1, InsertIs DEF TypeOK, n
  <2>3. properties' # <<>> /\ Len(properties') > 1 /\ properties'[1] = properties[1]
    BY <1>3, <2>2, EmptySeq
  <2>4. properties'[2].start = Len(uri)
    <3>1. CASE n = 1
      <4>1. properties'[2].start = Len(v) % Width /\ v = uri
        BY <1>4, <2>2, <3>1 DEF n
      <4>2. Len(uri) % Width = Len(uri)
        <5>1. \A k \in Nat : \A w \in Nat \ {0} : k < w => k % w = k
          OBVIOUS
        <5>2. Width \in Nat \ {0}
          BY RequestAssumption
        <5> QED BY <1>2, <5>1, <5>2
      <4> QED BY <4>1, <4>2
    <3>2. CASE n > 1
      <4>1. 2 \in 1 .. n
        BY <1>3, <3>2
      <4> QED BY <1>4, <2>2, <3>2, <4>1
    <3> QED BY <1>3, <3>1, <3>2
  <2>5. ~complete' => ~Unheaded'
    BY <1>1, <1>9
  <2>6. Len(properties') # 1
    BY <1>3, <2>2
  <2> QED BY <1>1, <1>4, <1>6, <2>3, <2>4, <2>5, <2>6 DEF Kept, uri
<1> QED BY <1>7, <1>8, <1>9

(* The end line, a plain header line, and a continuation line.             *)
LEMMA LaterLine ==
  ASSUME TypeOK, lines # <<>>, method # "END", NEW line \in Lines, add(line)
  PROVE  /\ line \in Seq(Symbol) /\ NameAt(line) \in 1 .. Len(line) + 1 /\ Len(line) \in Nat
         /\ ~complete /\ lines' = Append(lines, line)
         /\ LET plain == NameAt(line) <= Len(line) /\ (NameAt(line) = 1 \/ ~seen.headed)
            IN /\ seen' \in Q!Request
               /\ seen'.complete <=> NameAt(line) > Len(line)
               /\ seen'.broken <=> seen.broken \/ (plain /\ ~Good(line))
               /\ seen'.headed <=> seen.headed \/ (plain /\ Good(line))
         /\ \/ NameAt(line) > Len(line) /\ end_line
            \/ /\ NameAt(line) <= Len(line)
               /\ NameAt(line) = 1 \/ Len(properties) = 1
               /\ plain_line(line)
            \/ /\ NameAt(line) <= Len(line)
               /\ ~(NameAt(line) = 1 \/ Len(properties) = 1)
               /\ cont_line(line)
<1>1. line \in Seq(Symbol)
  BY RequestAssumption
<1>2. NameAt(line) \in 1 .. Len(line) + 1 /\ Len(line) \in Nat
  BY <1>1, PartsAre, LenProperties
<1>3. seen' = Q!HeaderLine(seen, Shape(line)) /\ seen \in Q!Request
  BY DEF add, TypeOK
<1>4. LET plain == NameAt(line) <= Len(line) /\ (NameAt(line) = 1 \/ ~seen.headed)
      IN /\ seen' \in Q!Request
         /\ seen'.complete <=> NameAt(line) > Len(line)
         /\ seen'.broken <=> seen.broken \/ (plain /\ ~Good(line))
         /\ seen'.headed <=> seen.headed \/ (plain /\ Good(line))
  BY <1>1, <1>3, HeaderLineIs
<1>5. /\ ~complete /\ lines' = Append(lines, line)
      /\ \/ NameAt(line) > Len(line) /\ end_line
         \/ /\ NameAt(line) <= Len(line)
            /\ NameAt(line) = 1 \/ Len(properties) = 1
            /\ plain_line(line)
         \/ /\ NameAt(line) <= Len(line)
            /\ ~(NameAt(line) = 1 \/ Len(properties) = 1)
            /\ cont_line(line)
  BY DEF add, NameAt
<1> QED BY <1>1, <1>2, <1>4, <1>5

LEMMA EndStep ==
  ASSUME IInv, lines # <<>>, NEW line \in Lines, add(line), NameAt(line) > Len(line), end_line
  PROVE  IInv'
<1>1. TypeOK /\ method # "END" /\ SessionAgrees /\ (~NamesUri => Kept)
  BY DEF IInv
<1>2. /\ line \in Seq(Symbol) /\ NameAt(line) \in 1 .. Len(line) + 1 /\ Len(line) \in Nat
      /\ ~complete /\ lines' = Append(lines, line)
      /\ seen' \in Q!Request /\ seen'.complete = TRUE
      /\ seen'.broken <=> seen.broken
  <2>1. NameAt(line) \in Nat /\ Len(line) \in Nat
    BY <1>1, LaterLine
  <2>2. ~ (NameAt(line) <= Len(line))
    BY <2>1
  <2>3. seen' \in Q!Request /\ seen'.complete
    BY <1>1, LaterLine
  <2>4. seen'.complete = TRUE
    BY <2>3 DEF Q!Request
  <2> QED BY <1>1, <2>2, <2>3, <2>4, LaterLine
<1>3. lines' \in Seq(Lines) /\ lines' # <<>> /\ (~NamesUri' => ~NamesUri)
  BY <1>1, <1>2, LinesAre DEF TypeOK
<1>4. /\ insert("END", <<>>) /\ complete' = TRUE /\ UNCHANGED <<method, version>>
      /\ broken' = (broken \/ Len(v) > Width - 1)
  BY DEF end_line
<1>5. <<>> \in Seq(Symbol) /\ Len(<<>>) = 0 /\ "END" \in Property /\ Width \in Nat
  BY EmptySeq, RequestAssumption
<1>6. /\ Longer /\ Len(v') = Len(v) /\ Len(v) \in Nat /\ properties' \in Seq(Entry)
  <2>1. Longer /\ Len(v') = Len(v) + Len(<<>>) /\ properties' \in Seq(Entry)
    BY <1>1, <1>4, <1>5, InsertIs DEF TypeOK
  <2>2. Len(v) \in Nat
    BY <1>1, LenProperties DEF TypeOK
  <2> QED BY <1>5, <2>1, <2>2
<1>7. TypeOK'
  <2>1. broken' \in BOOLEAN
    BY <1>1, <1>4 DEF TypeOK
  <2> QED BY <1>1, <1>2, <1>3, <1>4, <1>6, <2>1 DEF TypeOK, Longer
<1>8. ~NamesUri' => Kept'
  <2>1. SUFFICES ASSUME ~NamesUri' PROVE Kept'
    OBVIOUS
  <2>2. Kept
    BY <1>1, <1>3, <2>1
  <2> QED BY <1>1, <1>2, <1>4, <1>5, <1>6, <2>2, KeptOn
<1>9. SessionAgrees'
  <2>1. SUFFICES ASSUME ~NamesUri'
                 PROVE  /\ complete' = seen'.complete
                        /\ broken' = (seen'.broken \/ (complete' /\ Len(v') >= Width))
                        /\ ~complete' => seen'.headed = (Len(properties') > 1)
    BY DEF SessionAgrees
  <2>2. broken = (seen.broken \/ (complete /\ Len(v) >= Width))
    BY <1>1, <1>3, <2>1 DEF SessionAgrees
  <2>3. Len(v) > Width - 1 <=> Len(v') >= Width
    BY <1>5, <1>6
  <2>4. broken' <=> (seen'.broken \/ (complete' /\ Len(v') >= Width))
    BY <1>2, <1>4, <2>2, <2>3
  <2>5. broken' \in BOOLEAN
    BY <1>7 DEF TypeOK
  <2> QED BY <1>2, <1>4, <2>4, <2>5
<1> QED BY <1>1, <1>3, <1>4, <1>7, <1>8, <1>9 DEF IInv

LEMMA MoreThanOne == \A n \in Nat \ {0} : n # 1 => n > 1
OBVIOUS

LEMMA PlainStep ==
  ASSUME IInv, lines # <<>>, NEW line \in Lines, add(line), NameAt(line) <= Len(line),
         NameAt(line) = 1 \/ Len(properties) = 1, plain_line(line)
  PROVE  IInv'
<1>1. TypeOK /\ method # "END" /\ SessionAgrees /\ (~NamesUri => Kept)
  BY DEF IInv
<1>2. /\ line \in Seq(Symbol) /\ ~complete /\ lines' = Append(lines, line)
      /\ seen' \in Q!Request /\ seen'.complete = FALSE
      /\ LET plain == NameAt(line) = 1 \/ ~seen.headed
         IN /\ seen'.broken <=> seen.broken \/ (plain /\ ~Good(line))
            /\ seen'.headed <=> seen.headed \/ (plain /\ Good(line))
  <2>1. NameAt(line) \in Nat /\ Len(line) \in Nat
    BY <1>1, LaterLine
  <2>2. ~ (NameAt(line) > Len(line))
    BY <2>1
  <2>3. seen' \in Q!Request /\ ~seen'.complete
    BY <1>1, <2>2, LaterLine
  <2>4. seen'.complete = FALSE
    BY <2>3 DEF Q!Request
  <2> QED BY <1>1, <2>3, <2>4, LaterLine
<1>3. /\ lines' \in Seq(Lines) /\ lines' # <<>> /\ (~NamesUri' => ~NamesUri)
      /\ Unheaded' <=> Unheaded /\ ~Good(line)
      /\ ~NamesUri' /\ Unheaded /\ Good(line) => lookup(Name(line)) # "Request_URI"
  BY <1>1, <1>2, LinesAre DEF TypeOK
<1>4. /\ UNCHANGED <<complete, method, version>>
      /\ \/ ~Good(line) /\ broken' = TRUE /\ UNCHANGED <<v, properties>>
         \/ /\ Good(line) /\ UNCHANGED broken
            /\ \E text \in Seq(Symbol) :
                 \/ Repeats(line) /\ v' = v \o text /\ UNCHANGED properties
                 \/ ~Repeats(line) /\ insert(lookup(Name(line)), text)
  BY <1>1, <1>2, PlainLineIs DEF TypeOK
<1>5. Longer /\ properties' \in Seq(Entry)
  <2>1. CASE UNCHANGED <<v, properties>>
    BY <1>1, <2>1, LenProperties DEF Longer, TypeOK
  <2>2. CASE \E text \in Seq(Symbol) :
               \/ Repeats(line) /\ v' = v \o text /\ UNCHANGED properties
               \/ ~Repeats(line) /\ insert(lookup(Name(line)), text)
    <3>1. PICK text \in Seq(Symbol) :
               \/ Repeats(line) /\ v' = v \o text /\ UNCHANGED properties
               \/ ~Repeats(line) /\ insert(lookup(Name(line)), text)
      BY <2>2
    <3>2. CASE v' = v \o text /\ UNCHANGED properties
      BY <1>1, <3>2, LongerIs DEF TypeOK
    <3>3. CASE insert(lookup(Name(line)), text)
      <4>1. lookup(Name(line)) \in Property
        BY LookupType
      <4> QED BY <1>1, <3>3, <4>1, InsertIs DEF TypeOK
    <3> QED BY <3>1, <3>2, <3>3
  <2> QED BY <1>4, <2>1, <2>2
<1>6. TypeOK'
  <2>1. broken' \in BOOLEAN
    BY <1>1, <1>4 DEF TypeOK
  <2> QED BY <1>1, <1>2, <1>3, <1>4, <1>5, <2>1 DEF TypeOK, Longer
<1>7. ASSUME ~NamesUri' PROVE Kept' /\ (seen'.headed <=> Len(properties') > 1)
  <2>1. /\ Kept /\ complete = FALSE /\ (seen.headed <=> Len(properties) > 1)
        /\ Len(properties) # 1 => Len(properties) > 1
        /\ Len(properties) \in Nat \ {0}
    <3>1. Kept /\ complete = FALSE /\ (seen.headed <=> Len(properties) > 1)
      BY <1>1, <1>2, <1>3, <1>7 DEF SessionAgrees, TypeOK
    <3>2. properties \in Seq(Entry) /\ properties # <<>>
      BY <1>1, <3>1 DEF TypeOK, Kept
    <3>3. Len(properties) \in Nat \ {0}
      BY <3>2, EmptySeq
    <3> QED BY <3>1, <3>3, MoreThanOne
  <2>2. NameAt(line) = 1 \/ ~seen.headed
    BY <2>1, Len(properties) = 1 => ~(Len(properties) > 1)
  <2>3. seen'.headed <=> seen.headed \/ Good(line)
    BY <1>2, <2>2
  <2>4. CASE ~Good(line) /\ UNCHANGED <<v, properties>>
    <3>1. Kept'
      BY <1>1, <1>2, <1>4, <1>5, <2>1, <2>4, KeptOn
    <3>2. seen'.headed <=> Len(properties') > 1
      BY <2>1, <2>3, <2>4
    <3> QED BY <3>1, <3>2
  <2>5. CASE Good(line) /\ Repeats(line) /\ UNCHANGED properties
    <3>1. Len(properties) > 1
      <4>1. SUFFICES ASSUME Len(properties) = 1 PROVE FALSE
        BY <2>1
      <4>2. Unheaded /\ properties[1].prop = "Request_URI"
        BY <1>2, <2>1, <4>1 DEF Kept
      <4>3. Last(properties) = properties[1]
        BY <4>1 DEF Last
      <4> QED BY <1>3, <1>7, <2>5, <4>2, <4>3 DEF Repeats
    <3>2. Kept'
      BY <1>1, <1>2, <1>4, <1>5, <2>1, <2>5, <3>1, KeptOn
    <3>3. seen'.headed
      BY <2>3, <2>5
    <3>4. Len(properties') > 1
      BY <2>5, <3>1
    <3> QED BY <3>2, <3>3, <3>4
  <2>6. ASSUME Good(line), NEW text \in Seq(Symbol), insert(lookup(Name(line)), text)
        PROVE  Kept' /\ (seen'.headed <=> Len(properties') > 1)
    <3>1. lookup(Name(line)) \in Property
      BY LookupType
    <3>2. Kept'
      BY <1>1, <1>2, <1>4, <1>5, <2>1, <2>6, <3>1, KeptOn
    <3>3. seen'.headed
      BY <2>3, <2>6
    <3>4. Len(properties') = Len(properties) + 1
      BY <1>1, <2>6, <3>1, InsertIs DEF TypeOK
    <3>5. Len(properties') > 1
      BY <2>1, <3>4
    <3> QED BY <3>2, <3>3, <3>5
  <2> QED BY <1>4, <2>4, <2>5, <2>6
<1>8. SessionAgrees'
  <2>1. SUFFICES ASSUME ~NamesUri'
                 PROVE  /\ complete' = seen'.complete
                        /\ broken' = (seen'.broken \/ (complete' /\ Len(v') >= Width))
                        /\ ~complete' => seen'.headed = (Len(properties') > 1)
    BY DEF SessionAgrees
  <2>2. /\ complete' = FALSE
        /\ broken = (seen.broken \/ (complete /\ Len(v) >= Width))
        /\ seen.headed <=> Len(properties) > 1
    BY <1>1, <1>2, <1>3, <1>4, <2>1 DEF SessionAgrees, TypeOK
  <2>3. NameAt(line) = 1 \/ ~seen.headed
    BY <2>2, Len(properties) = 1 => ~(Len(properties) > 1)
  <2>4. seen'.broken <=> seen.broken \/ ~Good(line)
    BY <1>2, <2>3
  <2>5. broken' <=> seen'.broken
    BY <1>2, <1>4, <2>2, <2>4
  <2>6. broken' \in BOOLEAN /\ seen'.broken \in BOOLEAN /\ seen'.headed \in BOOLEAN
    BY <1>6 DEF TypeOK, Q!Request
  <2>7. seen'.headed <=> Len(properties') > 1
    BY <1>7, <2>1
  <2>8. broken' = (seen'.broken \/ (complete' /\ Len(v') >= Width))
    BY <2>2, <2>5, <2>6
  <2>9. seen'.headed = (Len(properties') > 1)
    BY ONLY <2>6, <2>7
  <2> QED BY <1>2, <2>2, <2>8, <2>9
<1> QED BY <1>1, <1>3, <1>4, <1>6, <1>7, <1>8 DEF IInv

LEMMA ContStep ==
  ASSUME IInv, lines # <<>>, NEW line \in Lines, add(line), NameAt(line) <= Len(line),
         ~(NameAt(line) = 1 \/ Len(properties) = 1), cont_line(line)
  PROVE  IInv'
<1>1. TypeOK /\ method # "END" /\ SessionAgrees /\ (~NamesUri => Kept)
  BY DEF IInv
<1>2. /\ line \in Seq(Symbol) /\ ~complete /\ lines' = Append(lines, line)
      /\ seen' \in Q!Request /\ seen'.complete = FALSE
      /\ seen'.broken <=> seen.broken \/ (~seen.headed /\ ~Good(line))
      /\ seen'.headed <=> seen.headed \/ (~seen.headed /\ Good(line))
  <2>1. NameAt(line) \in Nat /\ Len(line) \in Nat
    BY <1>1, LaterLine
  <2>2. ~ (NameAt(line) > Len(line))
    BY <2>1
  <2>3. seen' \in Q!Request /\ ~seen'.complete
    BY <1>1, <2>2, LaterLine
  <2>4. seen'.complete = FALSE
    BY <2>3 DEF Q!Request
  <2>5. ~ (NameAt(line) = 1)
    OBVIOUS
  <2> QED BY <1>1, <2>3, <2>4, <2>5, LaterLine
<1>3. /\ lines' \in Seq(Lines) /\ lines' # <<>> /\ (~NamesUri' => ~NamesUri)
  BY <1>1, <1>2, LinesAre DEF TypeOK
<1>4. /\ \E text \in Seq(Symbol) : v' = v \o text
      /\ UNCHANGED <<properties, complete, broken, method, version>>
  <2>1. NameAt(line) # 1
    OBVIOUS
  <2> QED BY <1>2, <2>1, ContLineIs
<1>5. Longer
  BY <1>1, <1>4, LongerIs DEF TypeOK
<1>6. TypeOK'
  BY <1>1, <1>2, <1>3, <1>4, <1>5 DEF TypeOK, Longer
<1>7. ASSUME ~NamesUri' PROVE Kept /\ Len(properties) > 1
  <2>1. Kept /\ properties \in Seq(Entry)
    BY <1>1, <1>3, <1>7 DEF TypeOK
  <2>2. Len(properties) \in Nat \ {0}
    BY <2>1, EmptySeq DEF Kept
  <2>3. Len(properties) # 1
    OBVIOUS
  <2>4. Len(properties) > 1
    BY <2>2, <2>3, MoreThanOne
  <2> QED BY <2>1, <2>4
<1>8. ~NamesUri' => Kept'
  <2>1. SUFFICES ASSUME ~NamesUri' PROVE Kept'
    OBVIOUS
  <2> QED BY <1>1, <1>2, <1>4, <1>5, <1>7, <2>1, KeptOn
<1>9. SessionAgrees'
  <2>1. SUFFICES ASSUME ~NamesUri'
                 PROVE  /\ complete' = seen'.complete
                        /\ broken' = (seen'.broken \/ (complete' /\ Len(v') >= Width))
                        /\ ~complete' => seen'.headed = (Len(properties') > 1)
    BY DEF SessionAgrees
  <2>2. /\ complete' = FALSE
        /\ broken = (seen.broken \/ (complete /\ Len(v) >= Width))
        /\ seen.headed <=> Len(properties) > 1
    BY <1>1, <1>2, <1>3, <1>4, <2>1 DEF SessionAgrees, TypeOK
  <2>3. seen.headed /\ Len(properties') > 1
    BY <1>4, <1>7, <2>1, <2>2
  <2>4. seen'.headed /\ (seen'.broken <=> seen.broken)
    BY <1>2, <2>3
  <2>5. broken' <=> seen'.broken
    BY <1>2, <1>4, <2>2, <2>4
  <2>6. broken' \in BOOLEAN /\ seen'.broken \in BOOLEAN /\ seen'.headed \in BOOLEAN
    BY <1>6 DEF TypeOK, Q!Request
  <2>7. broken' = (seen'.broken \/ (complete' /\ Len(v') >= Width))
    BY <2>2, <2>5, <2>6
  <2> QED BY <1>2, <2>2, <2>3, <2>4, <2>6, <2>7
<1> QED BY <1>1, <1>3, <1>4, <1>6, <1>8, <1>9 DEF IInv
-----------------------------------------------------------------------------
LEMMA Steps == IInv /\ [Next]_vars => IInv'
<1> SUFFICES ASSUME IInv, [Next]_vars PROVE IInv'
  OBVIOUS
<1>1. CASE Next
  <2>1. PICK line \in Lines : add(line)
    BY <1>1 DEF Next, Lines
  <2>2. CASE lines = <<>>
    BY <2>1, <2>2, FirstStep
  <2>3. CASE lines # <<>>
    <3>1. TypeOK /\ method # "END"
      BY <2>3 DEF IInv
    <3>2. \/ NameAt(line) > Len(line) /\ end_line
          \/ /\ NameAt(line) <= Len(line)
             /\ NameAt(line) = 1 \/ Len(properties) = 1
             /\ plain_line(line)
          \/ /\ NameAt(line) <= Len(line)
             /\ ~(NameAt(line) = 1 \/ Len(properties) = 1)
             /\ cont_line(line)
      BY <2>1, <2>3, <3>1, LaterLine
    <3> QED BY <2>1, <2>3, <3>2, EndStep, PlainStep, ContStep
  <2> QED BY <2>2, <2>3
<1>2. CASE UNCHANGED vars
  BY <1>2 DEF IInv, TypeOK, Kept, SessionAgrees, NamesUri, Unheaded, vars
<1> QED BY <1>1, <1>2

(* The inductive invariant.                                                *)
LEMMA Inductive == Spec => []IInv
BY Begins, Steps, PTL DEF Spec

(* Request!SessionAgrees: what RequestQueue, and so Session, takes for the *)
(* end of a request, and for broken, is what Request::add does, whatever   *)
(* the lines are like.                                                     *)
THEOREM QueueAgrees == Spec => []SessionAgrees
BY Inductive, PTL DEF IInv

(* Request!UriKept: the URI of a complete request is the one of its first  *)
(* line, even if it is broken or the offsets have wrapped.                 *)
THEOREM UriStays == Spec => []UriKept
<1>1. IInv => UriKept
  <2>1. SUFFICES ASSUME IInv, complete, ~NamesUri
                 PROVE  Len(properties) > 1 /\ request_uri = Uri(lines[1])
    BY DEF UriKept
  <2>2. lines # <<>> /\ TypeOK /\ Kept
    BY <2>1 DEF IInv
  <2> DEFINE uri == Uri(lines[1])
  <2>3. uri \in Seq(Symbol) /\ Len(uri) \in Nat
    <3>1. lines[1] \in Seq(Symbol)
      <4>1. 1 \in 1 .. Len(lines) /\ lines \in Seq(Lines)
        BY <2>2, EmptySeq DEF TypeOK
      <4>2. lines[1] \in Lines
        BY <4>1, ElementOfSeq
      <4> QED BY <4>2, RequestAssumption
    <3> QED BY <3>1, UriIs, LenProperties
  <2>4. /\ Len(properties) > 1 /\ properties[1].start = 0 /\ properties[2].start = Len(uri)
        /\ Len(uri) <= Len(v) /\ \A i \in 1 .. Len(uri) : v[i] = uri[i]
    BY <2>1, <2>2 DEF Kept
  <2> HIDE DEF uri
  <2>5. SubSeq(v, 1, Len(uri)) = uri
    <3>1. \A i \in 1 .. Len(uri) : v[i] \in Symbol
      BY <2>3, <2>4, ElementOfSeq
    <3>2. /\ SubSeq(v, 1, Len(uri)) \in Seq(Symbol)
          /\ Len(SubSeq(v, 1, Len(uri))) = IF 1 <= Len(uri) THEN Len(uri) - 1 + 1 ELSE 0
          /\ \A i \in 1 .. Len(uri) - 1 + 1 : SubSeq(v, 1, Len(uri))[i] = v[1 + i - 1]
      BY <2>3, <3>1, SubSeqProperties
    <3>3. Len(SubSeq(v, 1, Len(uri))) = Len(uri) /\ Len(uri) - 1 + 1 = Len(uri)
      BY <2>3, <3>2
    <3>4. \A i \in 1 .. Len(uri) : SubSeq(v, 1, Len(uri))[i] = uri[i]
      <4>1. \A i \in 1 .. Len(uri) : 1 + i - 1 = i
        BY <2>3
      <4> QED BY <2>4, <3>2, <3>3, <4>1
    <3> QED BY <2>3, <3>2, <3>3, <3>4, SeqEqual
  <2>6. request_uri = SubSeq(v, 0 + 1, Len(uri))
    BY <2>4 DEF request_uri, Stored
  <2> QED BY <2>4, <2>5, <2>6 DEF uri
<1> QED BY <1>1, Inductive, PTL
-----------------------------------------------------------------------------
(* The values of the headers.                                              *)
(* Where the value of a property ends, so far, and what it is.             *)
Ends(i)    == IF i = Len(properties) THEN Len(v) ELSE properties[i + 1].start
Segment(i) == SubSeq(v, properties[i].start + 1, Ends(i))

IsFirst(m, p) == properties[m].prop = p /\ \A i \in 1 .. m - 1 : properties[i].prop # p

(* What is stored is the first series of each property, and what is added  *)
(* next belongs to the last one.                                           *)
Starts == \A i \in 1 .. Len(properties) : properties[i].start <= Ends(i) /\ Ends(i) <= Len(v)

SameNames ==
  \A p \in Property : (\E i \in 1 .. Len(properties) : properties[i].prop = p)
                        <=> (\E i \in 1 .. Len(fields) : fields[i].prop = p)

SameValues ==
  \A p \in Property, m \in 1 .. Len(properties) :
    IsFirst(m, p) =>
      \E f, a \in Nat :
        /\ Series(fields, p, f, a) /\ (m = Len(properties) <=> a = Len(fields) + 1)
        /\ Segment(m) = FirstSeries(fields, p)

Right ==
  /\ properties # <<>> /\ fields # <<>>
  /\ properties[Len(properties)].prop = fields[Len(fields)].prop
  /\ Len(properties) = 1 <=> Len(fields) = 1
  /\ Starts /\ SameNames /\ SameValues

HInv ==
  /\ fields \in Seq(HeaderField)
  /\ lines # <<>> /\ ~complete /\ ~broken /\ Len(v) < Width /\ ~NamesUri => Right
  /\ HeadersRight
-----------------------------------------------------------------------------
(* What is stored when something is added to the last value.               *)
LEMMA Grown ==
  ASSUME v \in Seq(Symbol), properties \in Seq(Entry), Starts, NEW t \in Seq(Symbol), v' = v \o t,
         UNCHANGED properties, NEW i \in 1 .. Len(properties)
  PROVE  /\ properties'[i].start <= Ends(i)' /\ Ends(i)' <= Len(v')
         /\ Segment(i)' = IF i = Len(properties) THEN Segment(i) \o t ELSE Segment(i)
<1>1. /\ Len(v) \in Nat /\ Len(t) \in Nat /\ v' \in Seq(Symbol) /\ Len(v') = Len(v) + Len(t)
      /\ Len(properties) \in Nat
  BY LenProperties, CatIs
<1>2. properties[i].start \in Nat /\ properties[i].start <= Ends(i) /\ Ends(i) <= Len(v)
  <2>1. properties[i] \in Entry
    BY ElementOfSeq
  <2>2. properties[i].start \in Nat
    BY <2>1 DEF Entry
  <2> QED BY <2>2 DEF Starts
<1>3. CASE i = Len(properties)
  <2>1. Ends(i) = Len(v) /\ Ends(i)' = Len(v')
    BY <1>3 DEF Ends
  <2>2. SubSeq(v \o t, properties[i].start + 1, Len(v \o t))
          = SubSeq(v, properties[i].start + 1, Len(v)) \o t
    BY <1>2, <2>1, PartGrows
  <2>3. Segment(i)' = Segment(i) \o t
    BY <2>1, <2>2 DEF Segment
  <2>4. properties[i].start <= Len(v') /\ Len(v') <= Len(v')
    BY <1>1, <1>2, <2>1
  <2> QED BY <1>3, <2>1, <2>3, <2>4
<1>4. CASE i # Len(properties)
  <2>1. Ends(i)' = Ends(i) /\ Ends(i) \in Nat
    <3>1. i + 1 \in 1 .. Len(properties)
      BY <1>1, <1>4
    <3>2. properties[i + 1] \in Entry
      BY <3>1, ElementOfSeq
    <3>3. properties[i + 1].start \in Nat
      BY <3>2 DEF Entry
    <3> QED BY <1>4, <3>3 DEF Ends
  <2>2. SubSeq(v \o t, properties[i].start + 1, Ends(i))
          = SubSeq(v, properties[i].start + 1, Ends(i))
    BY <1>2, <2>1, PartStays
  <2>3. Segment(i)' = Segment(i)
    BY <2>1, <2>2 DEF Segment
  <2>4. Ends(i) <= Len(v')
    BY <1>1, <1>2, <2>1
  <2> QED BY <1>2, <1>4, <2>1, <2>3, <2>4
<1> QED BY <1>3, <1>4

(* What is stored when there is a value more.                              *)
LEMMA Inserted ==
  ASSUME v \in Seq(Symbol), properties \in Seq(Entry), Starts, Len(v) < Width,
         NEW prop \in Property, NEW text \in Seq(Symbol), insert(prop, text),
         NEW n, n = Len(properties)
  PROVE  /\ v' \in Seq(Symbol) /\ properties' \in Seq(Entry) /\ n \in Nat /\ Len(properties') = n + 1
         /\ properties'[n + 1].prop = prop
         /\ \A i \in 1 .. n : properties'[i] = properties[i]
         /\ Starts'
         /\ \A i \in 1 .. n : Segment(i)' = Segment(i)
         /\ \A i \in 1 .. n : Ends(i) = properties'[i + 1].start
         /\ \A m \in Nat : m = n + 1 => Segment(m)' = text
<1>1. /\ Len(v) \in Nat /\ Len(text) \in Nat /\ v' \in Seq(Symbol) /\ Len(v') = Len(v) + Len(text)
      /\ v' = v \o text
      /\ Len(v') \in Nat
  BY LenProperties, CatIs DEF insert
<1>2. Len(v) % Width = Len(v)
  <2>1. \A k \in Nat : \A w \in Nat \ {0} : k < w => k % w = k
    OBVIOUS
  <2>2. Width \in Nat \ {0}
    BY RequestAssumption
  <2> QED BY <1>1, <2>1, <2>2
<1>3. /\ properties' \in Seq(Entry) /\ Len(properties') = n + 1 /\ n \in Nat
      /\ \A i \in 1 .. n : properties'[i] = properties[i]
      /\ properties'[n + 1] = [prop |-> prop, start |-> Len(v)]
  BY <1>2, InsertIs, LenProperties
<1>4. ASSUME NEW i \in 1 .. n
      PROVE  /\ properties'[i].start <= Ends(i)' /\ Ends(i)' <= Len(v')
             /\ Segment(i)' = Segment(i) /\ Ends(i) = properties'[i + 1].start
  <2>1. /\ properties[i].start \in Nat /\ properties[i].start <= Ends(i) /\ Ends(i) <= Len(v)
        /\ Ends(i) \in Nat
    <3>1. properties[i] \in Entry
      BY ElementOfSeq
    <3>2. i # n => properties[i + 1].start \in Nat
      <4>1. i # n => i + 1 \in 1 .. n
        BY <1>3
      <4>2. i # n => properties[i + 1] \in Entry
        BY <4>1, ElementOfSeq
      <4> QED BY <4>2 DEF Entry
    <3>3. properties[i].start \in Nat
      BY <3>1 DEF Entry
    <3>4. Ends(i) \in Nat
      BY <1>1, <3>2 DEF Ends
    <3> QED BY <3>3, <3>4 DEF Starts
  <2>2. Ends(i)' = Ends(i) /\ Ends(i) = properties'[i + 1].start
    <3>1. Ends(i)' = properties'[i + 1].start
      <4>1. i # n + 1
        BY <1>3
      <4> QED BY <1>3, <4>1 DEF Ends
    <3>2. CASE i = n
      <4>1. Ends(i) = Len(v) /\ properties'[i + 1].start = Len(v)
        BY <1>3, <3>2 DEF Ends
      <4> QED BY <3>1, <4>1
    <3>3. CASE i # n
      <4>1. i + 1 \in 1 .. n
        BY <1>3, <3>3
      <4>2. Ends(i) = properties[i + 1].start /\ properties'[i + 1] = properties[i + 1]
        BY <1>3, <3>3, <4>1 DEF Ends
      <4> QED BY <3>1, <4>2
    <3> QED BY <3>2, <3>3
  <2>3. SubSeq(v \o text, properties[i].start + 1, Ends(i))
          = SubSeq(v, properties[i].start + 1, Ends(i))
    BY <2>1, PartStays
  <2>4. properties'[i] = properties[i]
    BY <1>3
  <2>5. Segment(i)' = Segment(i)
    BY <1>1, <2>2, <2>3, <2>4 DEF Segment
  <2>6. Ends(i) <= Len(v')
    BY <1>1, <2>1
  <2> QED BY <2>1, <2>2, <2>4, <2>5, <2>6
<1>5. ASSUME NEW m \in Nat, m = n + 1
      PROVE  /\ properties'[m].start <= Ends(m)' /\ Ends(m)' <= Len(v')
             /\ Segment(m)' = text
  <2>1. Ends(m)' = Len(v') /\ properties'[m].start = Len(v)
    BY <1>3, <1>5 DEF Ends
  <2>2. SubSeq(v \o text, Len(v) + 1, Len(v \o text)) = text
    BY PartAdded
  <2>3. Segment(m)' = text
    BY <1>1, <2>1, <2>2 DEF Segment
  <2> QED BY <1>1, <2>1, <2>3
<1>6. Starts'
  <2>1. ASSUME NEW i \in 1 .. n + 1
        PROVE  properties'[i].start <= Ends(i)' /\ Ends(i)' <= Len(v')
    <3>1. i \in 1 .. n \/ i = n + 1
      BY <1>3
    <3> QED BY <1>4, <1>5, <3>1
  <2> QED BY <1>3, <2>1 DEF Starts
<1>7. properties'[n + 1].prop = prop
  BY <1>3
<1> QED BY <1>1, <1>3, <1>4, <1>5, <1>6, <1>7
-----------------------------------------------------------------------------
(* One header field more, of the same name as the last one, or another.    *)
LEMMA RightRepeats ==
  ASSUME v \in Seq(Symbol), properties \in Seq(Entry), fields \in Seq(HeaderField), Right,
         Len(properties) > 1, NEW x \in HeaderField,
         x.prop = properties[Len(properties)].prop,
         v' = v \o (Comma \o x.value), UNCHANGED properties, fields' = Append(fields, x)
  PROVE  Right'
<1> DEFINE n == Len(properties)  l == Len(fields)  t == Comma \o x.value
<1>1. /\ n \in Nat /\ l \in Nat /\ l # 0
      /\ properties # <<>> /\ properties[n].prop = fields[l].prop
      /\ Starts /\ SameNames /\ SameValues /\ x.prop \in Property
  BY LenProperties, EmptySeq DEF Right, HeaderField
<1>2. /\ fields' \in Seq(HeaderField) /\ fields' # <<>> /\ Len(fields') = l + 1
      /\ fields'[l + 1] = x /\ \A j \in 1 .. l : fields'[j] = fields[j]
  BY AppendProperties
<1>3. t \in Seq(Symbol)
  <2>1. x.value \in Seq(Symbol)
    BY DEF HeaderField
  <2> QED BY <2>1, CommaType, ConcatProperties
<1> HIDE DEF t
<1>4. ASSUME NEW i \in 1 .. n
      PROVE  /\ properties'[i].start <= Ends(i)' /\ Ends(i)' <= Len(v')
             /\ Segment(i)' = IF i = n THEN Segment(i) \o t ELSE Segment(i)
  BY <1>1, <1>3, Grown DEF t
<1>5. Starts'
  BY <1>4 DEF Starts
<1>6. SameNames'
  <2>1. ASSUME NEW p \in Property
        PROVE  (\E i \in 1 .. n : properties[i].prop = p)
                 <=> (\E j \in 1 .. l + 1 : fields'[j].prop = p)
    <3>1. (\E i \in 1 .. n : properties[i].prop = p) <=> (\E j \in 1 .. l : fields[j].prop = p)
      BY <1>1 DEF SameNames
    <3>2. l \in 1 .. l /\ \A j \in 1 .. l : j \in 1 .. l + 1
      BY <1>1
    <3>3. ASSUME NEW j \in 1 .. l + 1, fields'[j].prop = p PROVE \E k \in 1 .. l : fields[k].prop = p
      <4>1. j \in 1 .. l \/ j = l + 1
        BY <1>1
      <4>2. CASE j \in 1 .. l
        BY <1>2, <3>3, <4>2
      <4>3. CASE j = l + 1
        BY <1>1, <1>2, <3>2, <3>3, <4>3
      <4> QED BY <4>1, <4>2, <4>3
    <3> QED BY <1>2, <3>1, <3>2, <3>3
  <2> QED BY <1>2, <2>1 DEF SameNames
<1>7. SameValues'
  <2>1. SUFFICES ASSUME NEW p \in Property, NEW m \in 1 .. n, IsFirst(m, p)
                 PROVE  \E f, a \in Nat :
                          /\ Series(fields', p, f, a) /\ (m = n <=> a = l + 2)
                          /\ Segment(m)' = FirstSeries(fields', p)
    <3>1. (l + 1) + 1 = l + 2
      BY <1>1
    <3> QED BY <1>2, <3>1 DEF SameValues, IsFirst
  <2>2. PICK f \in Nat, a \in Nat : /\ Series(fields, p, f, a) /\ (m = n <=> a = l + 1)
                                    /\ Segment(m) = FirstSeries(fields, p)
    BY <1>1, <2>1 DEF SameValues
  <2>3. CASE m = n
    <3>1. p = x.prop /\ a = l + 1
      BY <2>1, <2>2, <2>3 DEF IsFirst
    <3>2. /\ Series(fields', p, f, l + 2)
          /\ FirstSeries(fields', p) = FirstSeries(fields, p) \o (Comma \o x.value)
      BY <2>2, <3>1, SeriesGrows
    <3>3. Segment(m)' = FirstSeries(fields', p)
      BY <1>4, <2>2, <2>3, <3>2 DEF t
    <3>4. l + 2 \in Nat
      BY <1>1
    <3> QED BY <2>3, <3>2, <3>3, <3>4
  <2>4. CASE m # n
    <3>1. a \in 1 .. l /\ a # l + 2
      BY <1>1, <2>2, <2>4 DEF Series
    <3>2. fields[a].prop # p
      BY <2>2, <3>1 DEF Series
    <3>3. /\ a <= Len(fields') + 1 /\ \A i \in 1 .. a - 1 : fields'[i] = fields[i]
          /\ fields'[a].prop # p
      BY <1>1, <1>2, <3>1, <3>2
    <3>4. Series(fields', p, f, a) /\ FirstSeries(fields', p) = FirstSeries(fields, p)
      BY <1>2, <2>2, <3>3, SeriesKept
    <3> QED BY <1>4, <2>2, <2>4, <3>1, <3>4
  <2> QED BY <2>3, <2>4
<1>8. Len(properties') = 1 <=> Len(fields') = 1
  BY <1>1, <1>2
<1> QED BY <1>1, <1>2, <1>5, <1>6, <1>7, <1>8 DEF Right

LEMMA RightNew ==
  ASSUME v \in Seq(Symbol), properties \in Seq(Entry), fields \in Seq(HeaderField), Right,
         Len(v) < Width, NEW x \in HeaderField, x.prop # properties[Len(properties)].prop,
         insert(x.prop, x.value), fields' = Append(fields, x)
  PROVE  Right'
<1> DEFINE n == Len(properties)  l == Len(fields)
<1>1. /\ n \in Nat /\ l \in Nat /\ l # 0 /\ n # 0
      /\ properties # <<>> /\ properties[n].prop = fields[l].prop
      /\ Starts /\ SameNames /\ SameValues /\ x.prop \in Property /\ x.value \in Seq(Symbol)
  BY LenProperties, EmptySeq DEF Right, HeaderField
<1>2. /\ fields' \in Seq(HeaderField) /\ fields' # <<>> /\ Len(fields') = l + 1
      /\ fields'[l + 1] = x /\ \A j \in 1 .. l : fields'[j] = fields[j]
  BY AppendProperties
<1>3. /\ properties' \in Seq(Entry) /\ Len(properties') = n + 1
      /\ properties'[n + 1].prop = x.prop
      /\ \A i \in 1 .. n : properties'[i] = properties[i]
      /\ Starts'
      /\ \A i \in 1 .. n : Segment(i)' = Segment(i)
      /\ \A m \in Nat : m = n + 1 => Segment(m)' = x.value
  <2>1. PICK prop \in Property, text \in Seq(Symbol) : prop = x.prop /\ text = x.value
    BY <1>1
  <2>2. insert(prop, text)
    BY <2>1
  <2>3. /\ properties' \in Seq(Entry) /\ Len(properties') = n + 1
        /\ properties'[n + 1].prop = prop
        /\ \A i \in 1 .. n : properties'[i] = properties[i]
        /\ Starts'
        /\ \A i \in 1 .. n : Segment(i)' = Segment(i)
        /\ \A m \in Nat : m = n + 1 => Segment(m)' = text
    <3>1. Starts
      BY <1>1
    <3> QED BY ONLY <2>2, <3>1, v \in Seq(Symbol), properties \in Seq(Entry), Len(v) < Width,
               Inserted
  <2> QED BY <2>1, <2>3
<1>4. properties' # <<>> /\ n + 1 # 1 /\ l + 1 # 1
  BY <1>1, <1>3, EmptySeq
<1>5. SameNames'
  <2>1. ASSUME NEW p \in Property
        PROVE  (\E i \in 1 .. n + 1 : properties'[i].prop = p)
                 <=> (\E j \in 1 .. l + 1 : fields'[j].prop = p)
    <3>1. (\E i \in 1 .. n : properties[i].prop = p) <=> (\E j \in 1 .. l : fields[j].prop = p)
      BY <1>1 DEF SameNames
    <3>2. (\E i \in 1 .. n + 1 : properties'[i].prop = p)
            <=> (\E i \in 1 .. n : properties[i].prop = p) \/ x.prop = p
      <4>1. \A i \in 1 .. n + 1 : i \in 1 .. n \/ i = n + 1
        BY <1>1
      <4>2. n + 1 \in 1 .. n + 1 /\ \A i \in 1 .. n : i \in 1 .. n + 1
        BY <1>1
      <4> QED BY <1>3, <4>1, <4>2
    <3>3. (\E j \in 1 .. l + 1 : fields'[j].prop = p)
            <=> (\E j \in 1 .. l : fields[j].prop = p) \/ x.prop = p
      <4>1. \A i \in 1 .. l + 1 : i \in 1 .. l \/ i = l + 1
        BY <1>1
      <4>2. l + 1 \in 1 .. l + 1 /\ \A i \in 1 .. l : i \in 1 .. l + 1
        BY <1>1
      <4> QED BY <1>2, <4>1, <4>2
    <3> QED BY <3>1, <3>2, <3>3
  <2> QED BY <1>2, <1>3, <2>1 DEF SameNames
<1>6. SameValues'
  <2>1. SUFFICES ASSUME NEW p \in Property, NEW m \in 1 .. n + 1, IsFirst(m, p)'
                 PROVE  \E f, a \in Nat :
                          /\ Series(fields', p, f, a) /\ (m = n + 1 <=> a = l + 2)
                          /\ Segment(m)' = FirstSeries(fields', p)
    <3>1. (l + 1) + 1 = l + 2
      BY <1>1
    <3>2. Len(properties') = n + 1 /\ Len(fields') = l + 1
      BY <1>2, <1>3
    <3> QED BY ONLY <3>1, <3>2, <2>1 DEF SameValues
  <2>2. CASE m = n + 1
    <3>1. p = x.prop
      BY <1>3, <2>1, <2>2 DEF IsFirst
    <3>2. ASSUME NEW j \in 1 .. l PROVE fields[j].prop # x.prop
      <4>1. SUFFICES ASSUME fields[j].prop = x.prop PROVE FALSE
        OBVIOUS
      <4>2. PICK i \in 1 .. n : properties[i].prop = x.prop
        BY <1>1, <4>1 DEF SameNames
      <4>3. i \in 1 .. (n + 1) - 1
        BY <1>1
      <4> QED BY <1>3, <2>1, <2>2, <3>1, <4>2, <4>3 DEF IsFirst
    <3>3. Series(fields', p, l + 1, l + 2) /\ FirstSeries(fields', p) = x.value
      BY <3>1, <3>2, SeriesNew
    <3>4. l + 1 \in Nat /\ l + 2 \in Nat
      BY <1>1
    <3>5. Segment(m)' = x.value
      BY <1>3, <2>2
    <3>6. Segment(m)' = FirstSeries(fields', p)
      BY <3>3, <3>5
    <3> QED BY <2>2, <3>3, <3>4, <3>6
  <2>3. CASE m \in 1 .. n
    <3>1. IsFirst(m, p)
      <4>1. \A i \in 1 .. m - 1 : i \in 1 .. n
        BY <1>1, <2>3
      <4> QED BY <1>3, <2>1, <2>3, <4>1 DEF IsFirst
    <3>2. PICK f \in Nat, a \in Nat : /\ Series(fields, p, f, a) /\ (m = n <=> a = l + 1)
                                      /\ Segment(m) = FirstSeries(fields, p)
      BY <1>1, <2>3, <3>1 DEF SameValues
    <3>3. a \in 1 .. l + 1 /\ a # l + 2 /\ m # n + 1
      BY <1>1, <2>3, <3>2 DEF Series
    <3>4. fields'[a].prop # p
      <4>1. CASE a = l + 1
        <5>1. p = properties[n].prop
          BY <3>1, <3>2, <4>1 DEF IsFirst
        <5> QED BY <1>2, <4>1, <5>1
      <4>2. CASE a \in 1 .. l
        <5>1. fields[a].prop # p
          BY <1>1, <3>2, <4>2 DEF Series
        <5> QED BY <1>2, <4>2, <5>1
      <4> QED BY <1>1, <3>3, <4>1, <4>2
    <3>5. a <= Len(fields') + 1 /\ \A i \in 1 .. a - 1 : fields'[i] = fields[i]
      BY <1>1, <1>2, <3>3
    <3>6. Series(fields', p, f, a) /\ FirstSeries(fields', p) = FirstSeries(fields, p)
      BY <1>2, <3>2, <3>4, <3>5, SeriesKept
    <3> QED BY <1>3, <2>3, <3>2, <3>3, <3>6
  <2>4. m = n + 1 \/ m \in 1 .. n
    BY <1>1
  <2> QED BY <2>2, <2>3, <2>4
<1>7. properties'[Len(properties')].prop = fields'[Len(fields')].prop
  BY <1>2, <1>3
<1> QED BY <1>2, <1>3, <1>4, <1>5, <1>6, <1>7 DEF Right

(* A continuation line.                                                    *)
LEMMA RightContinued ==
  ASSUME v \in Seq(Symbol), properties \in Seq(Entry), fields \in Seq(HeaderField), Right,
         NEW c \in Seq(Symbol), v' = v \o c, UNCHANGED properties,
         fields' \in Seq(HeaderField), Len(fields') = Len(fields),
         \A i \in 1 .. Len(fields) - 1 : fields'[i] = fields[i],
         fields'[Len(fields)].prop = fields[Len(fields)].prop,
         fields'[Len(fields)].value = fields[Len(fields)].value \o c
  PROVE  Right'
<1> DEFINE n == Len(properties)  l == Len(fields)
<1>0. n \in Nat /\ l \in Nat
  BY LenProperties
<1>1. /\ l # 0
      /\ properties # <<>> /\ properties[n].prop = fields[l].prop
      /\ Starts /\ SameNames /\ SameValues
  BY EmptySeq DEF Right
<1>2. fields' # <<>>
  BY <1>0, <1>1, EmptySeq
<1>3. ASSUME NEW i \in 1 .. n
      PROVE  /\ properties'[i].start <= Ends(i)' /\ Ends(i)' <= Len(v')
             /\ Segment(i)' = IF i = n THEN Segment(i) \o c ELSE Segment(i)
  BY <1>0, <1>1, Grown
<1>4. Starts'
  BY <1>3 DEF Starts
<1>5. ASSUME NEW i \in 1 .. l PROVE fields'[i].prop = fields[i].prop
  <2>1. i \in 1 .. l - 1 \/ i = l
    BY <1>0, <1>1
  <2> QED BY <2>1
<1>6. SameNames'
  <2>1. ASSUME NEW p \in Property
        PROVE  (\E i \in 1 .. n : properties[i].prop = p)
                 <=> (\E j \in 1 .. l : fields'[j].prop = p)
    <3>1. (\E i \in 1 .. n : properties[i].prop = p) <=> (\E j \in 1 .. l : fields[j].prop = p)
      BY <1>1 DEF SameNames
    <3> QED BY ONLY <1>5, <3>1
  <2> QED BY <2>1 DEF SameNames
<1>7. SameValues'
  <2>1. SUFFICES ASSUME NEW p \in Property, NEW m \in 1 .. n, IsFirst(m, p)
                 PROVE  \E f, a \in Nat :
                          /\ Series(fields', p, f, a) /\ (m = n <=> a = l + 1)
                          /\ Segment(m)' = FirstSeries(fields', p)
    BY DEF SameValues, IsFirst
  <2>2. PICK f \in Nat, a \in Nat : /\ Series(fields, p, f, a) /\ (m = n <=> a = l + 1)
                                    /\ Segment(m) = FirstSeries(fields, p)
    BY <1>0, <1>1, <2>1 DEF SameValues
  <2>3. CASE m = n
    <3>1. Series(fields, p, f, l + 1)
      BY <2>2, <2>3
    <3>2. Series(fields', p, f, l + 1) /\ FirstSeries(fields', p) = FirstSeries(fields, p) \o c
      <4>1. PICK gs \in Seq(HeaderField) : gs = fields'
        OBVIOUS
      <4>2. /\ Len(gs) = Len(fields) /\ \A i \in 1 .. Len(fields) - 1 : gs[i] = fields[i]
            /\ gs[Len(fields)].prop = fields[Len(fields)].prop
            /\ gs[Len(fields)].value = fields[Len(fields)].value \o c
        BY <4>1
      <4>3. fields \in Seq(HeaderField)
        OBVIOUS
      <4>4. Series(gs, p, f, Len(gs) + 1) /\ FirstSeries(gs, p) = FirstSeries(fields, p) \o c
        BY ONLY <3>1, <4>2, <4>3, SeriesContinued, gs \in Seq(HeaderField), f \in Nat, c \in Seq(Symbol)
      <4> QED BY ONLY <4>1, <4>2, <4>4
    <3>3. l + 1 \in Nat
      BY <1>0, <1>1
    <3>4. Segment(m)' = Segment(m) \o c
      BY <1>3, <2>3
    <3>5. Segment(m)' = FirstSeries(fields', p)
      BY <2>2, <3>2, <3>4
    <3> QED BY <2>3, <3>2, <3>3, <3>5
  <2>4. CASE m # n
    <3>1. a \in 1 .. l /\ a # l + 1
      <4>1. a # l + 1
        BY <2>2, <2>4
      <4>2. f \in 1 .. l /\ a \in f + 1 .. l + 1
        BY <2>2 DEF Series
      <4> QED BY ONLY <1>0, <4>1, <4>2
    <3>2. fields[a].prop # p
      BY <2>2, <3>1 DEF Series
    <3>3. /\ a <= Len(fields') + 1 /\ \A i \in 1 .. a - 1 : fields'[i] = fields[i]
          /\ fields'[a].prop # p
      BY <1>0, <1>1, <1>5, <3>1, <3>2
    <3>4. Series(fields', p, f, a) /\ FirstSeries(fields', p) = FirstSeries(fields, p)
      BY <2>2, <3>3, SeriesKept
    <3> QED BY <1>3, <2>2, <2>4, <3>1, <3>4
  <2> QED BY <2>3, <2>4
<1>8. properties'[Len(properties')].prop = fields'[Len(fields')].prop
  BY <1>0, <1>1
<1>9. Len(properties') = 1 <=> Len(fields') = 1
  BY DEF Right
<1> QED BY <1>0, <1>1, <1>2, <1>4, <1>6, <1>7, <1>8, <1>9 DEF Right

(* The first line, and the end of a request.                               *)
LEMMA RightFirst ==
  ASSUME v = <<>>, properties = <<>>, NEW x \in HeaderField, insert(x.prop, x.value),
         fields' = Append(<<>>, x)
  PROVE  Right'
<1>1. /\ v \in Seq(Symbol) /\ properties \in Seq(Entry) /\ Len(v) = 0 /\ Len(properties) = 0
      /\ <<>> \in Seq(HeaderField) /\ Len(<<>>) = 0
  BY EmptySeq
<1>2. Len(v) < Width /\ Starts
  <2>1. \A i \in 1 .. 0 : FALSE
    OBVIOUS
  <2>2. Starts
    BY <1>1, <2>1 DEF Starts
  <2>3. Width \in Nat \ {0}
    BY RequestAssumption
  <2>4. Len(v) < Width
    BY ONLY <1>1, <2>3
  <2> QED BY <2>2, <2>4
<1>3. PICK prop \in Property, text \in Seq(Symbol) : prop = x.prop /\ text = x.value
  BY DEF HeaderField
<1>4. /\ properties' \in Seq(Entry) /\ Len(properties') = 1 /\ properties'[1].prop = x.prop
      /\ Starts' /\ \A m \in Nat : m = 1 => Segment(m)' = x.value
  <2>1. insert(prop, text) /\ 0 = Len(properties)
    BY <1>1, <1>3
  <2>2. /\ properties' \in Seq(Entry) /\ Len(properties') = 0 + 1
        /\ properties'[0 + 1].prop = prop
        /\ Starts' /\ \A m \in Nat : m = 0 + 1 => Segment(m)' = text
    BY ONLY <1>1, <1>2, <2>1, Inserted
  <2> QED BY <1>3, <2>2
<1>5. /\ fields' \in Seq(HeaderField) /\ Len(fields') = 1 /\ fields'[1] = x
  <2>1. /\ fields' \in Seq(HeaderField) /\ Len(fields') = 0 + 1 /\ fields'[0 + 1] = x
    BY <1>1, AppendProperties
  <2> QED BY <2>1
<1>6. properties' # <<>> /\ fields' # <<>>
  <2>1. Len(<<>>) # 1
    BY <1>1
  <2> QED BY ONLY <1>4, <1>5, <2>1
<1>7. \A i \in 1 .. 1 : i = 1
  OBVIOUS
<1>8. SameNames'
  BY <1>4, <1>5, <1>7 DEF SameNames
<1>9. Series(fields', x.prop, 1, 2) /\ FirstSeries(fields', x.prop) = x.value
  <2>1. \A i \in 1 .. 0 : FALSE
    OBVIOUS
  <2>2. /\ Series(Append(<<>>, x), x.prop, 0 + 1, 0 + 2)
        /\ FirstSeries(Append(<<>>, x), x.prop) = x.value
    <3>1. PICK fs \in Seq(HeaderField) : fs = <<>> /\ Len(fs) = 0
      BY <1>1
    <3>2. \A i \in 1 .. Len(fs) : fs[i].prop # x.prop
      BY <2>1, <3>1
    <3>3. /\ Series(Append(fs, x), x.prop, Len(fs) + 1, Len(fs) + 2)
          /\ FirstSeries(Append(fs, x), x.prop) = x.value
      BY <3>2, SeriesNew
    <3> QED BY <3>1, <3>3
  <2>3. 0 + 1 = 1 /\ 0 + 2 = 2
    OBVIOUS
  <2> QED BY <2>2, <2>3
<1>10. SameValues'
  <2>1. SUFFICES ASSUME NEW p \in Property, NEW m \in 1 .. 1, IsFirst(m, p)'
                 PROVE  \E f, a \in Nat :
                          /\ Series(fields', p, f, a) /\ (m = 1 <=> a = 2)
                          /\ Segment(m)' = FirstSeries(fields', p)
    <3>1. 1 + 1 = 2
      OBVIOUS
    <3> QED BY ONLY <1>4, <1>5, <2>1, <3>1 DEF SameValues
  <2>2. m = 1 /\ p = x.prop
    BY <1>4, <1>7, <2>1 DEF IsFirst
  <2>3. Segment(m)' = FirstSeries(fields', p)
    BY <1>4, <1>9, <2>2
  <2> QED BY <1>9, <2>2, <2>3
<1> QED BY <1>4, <1>5, <1>6, <1>8, <1>10 DEF Right

LEMMA RightEnd ==
  ASSUME v \in Seq(Symbol), properties \in Seq(Entry), fields \in Seq(HeaderField), Right,
         Len(v) < Width, insert("END", <<>>), UNCHANGED fields
  PROVE  HeadersRight'
<1> DEFINE n == Len(properties)
<1>1. Starts /\ SameNames /\ SameValues
  BY DEF Right
<1>2. /\ v' \in Seq(Symbol) /\ properties' \in Seq(Entry) /\ n \in Nat /\ Len(properties') = n + 1
      /\ \A i \in 1 .. n : properties'[i] = properties[i]
      /\ \A i \in 1 .. n : Segment(i)' = Segment(i)
      /\ \A i \in 1 .. n : Ends(i) = properties'[i + 1].start
  <2>1. "END" \in Property /\ <<>> \in Seq(Symbol)
    BY RequestAssumption, EmptySeq
  <2> QED BY <1>1, <2>1, Inserted
<1>3. v' = v
  BY ConcatEmptySeq DEF insert
<1>4. SUFFICES ASSUME NEW prop \in Property \ {"END"}
               PROVE  header(prop)' = IF \E i \in DOMAIN fields : fields[i].prop = prop
                                        THEN FirstSeries(fields, prop) ELSE <<>>
  BY DEF HeadersRight
<1> DEFINE found == {i \in 1 .. n : properties[i].prop = prop}
<1>5. Found(prop)' = found
  <2>1. Len(properties') - 1 = n
    BY <1>2
  <2> QED BY <1>2, <2>1 DEF Found
<1>6. found # {} <=> \E i \in DOMAIN fields : fields[i].prop = prop
  <2>1. DOMAIN fields = 1 .. Len(fields)
    BY LenProperties
  <2> QED BY <1>1, <2>1 DEF SameNames
<1>7. CASE found = {}
  BY <1>5, <1>6, <1>7 DEF header
<1>8. CASE found # {}
  <2> DEFINE m == Min(found)
  <2>1. m \in found /\ \A i \in found : m <= i
    <3>1. found \in SUBSET Nat
      OBVIOUS
    <3> HIDE DEF found
    <3> QED BY <1>8, <3>1, MinIs
  <2>2. header(prop)' = SubSeq(v', properties'[m].start + 1, properties'[m + 1].start)
    BY <1>5, <1>8 DEF header, Stored
  <2> HIDE DEF m
  <2>3. m \in 1 .. n /\ IsFirst(m, prop)
    <3>1. ASSUME NEW i \in 1 .. m - 1 PROVE properties[i].prop # prop
      <4>1. i \in 1 .. n /\ ~(m <= i)
        BY <1>2, <2>1
      <4> QED BY <2>1, <4>1
    <3> QED BY <2>1, <3>1 DEF IsFirst
  <2>4. Segment(m) = FirstSeries(fields, prop)
    BY <1>1, <2>3 DEF SameValues
  <2>5. properties'[m] = properties[m] /\ properties'[m + 1].start = Ends(m)
    BY <1>2, <2>3
  <2>6. header(prop)' = Segment(m)
    BY <1>3, <2>2, <2>5 DEF Segment
  <2> QED BY <1>6, <1>8, <2>4, <2>6
<1> QED BY <1>7, <1>8

(* The fields are fields whatever the lines are like.                      *)
LEMMA MoreFieldsAre ==
  ASSUME NEW fs \in Seq(HeaderField), NEW line \in Seq(Symbol)
  PROVE  /\ MoreFields(fs, line) \in Seq(HeaderField)
         /\ NameAt(line) > Len(line) => MoreFields(fs, line) = fs
         /\ NameAt(line) <= Len(line) /\ (NameAt(line) = 1 \/ Len(fs) = 1) /\ Good(line) =>
              /\ Field(line) \in HeaderField
              /\ MoreFields(fs, line) = Append(fs, Field(line))
         /\ NameAt(line) <= Len(line) /\ NameAt(line) # 1 /\ Len(fs) > 1 =>
              LET gs == MoreFields(fs, line) l == Len(fs) IN
              /\ Len(gs) = l /\ \A i \in 1 .. l - 1 : gs[i] = fs[i]
              /\ gs[l].prop = fs[l].prop
              /\ gs[l].value = fs[l].value \o Continuation(line)
<1> DEFINE gs == MoreFields(fs, line) l == Len(fs)
           cs == [fs EXCEPT ![l].value = @ \o Continuation(line)]
<1>1. /\ Len(line) \in Nat /\ l \in Nat /\ NameAt(line) \in 1 .. Len(line) + 1
      /\ Stripped(line) = <<>> <=> NameAt(line) > Len(line)
      /\ Good(line) <=> IsHeader(line)
      /\ NameAt(line) <= Len(line) => (line[1] \in Blank <=> NameAt(line) # 1)
  <2>1. Len(line) \in Nat /\ l \in Nat
    BY LenProperties
  <2>2. /\ NameAt(line) \in 1 .. Len(line) + 1
        /\ \A j \in 1 .. NameAt(line) - 1 : line[j] \in Blank
        /\ NameAt(line) <= Len(line) => line[NameAt(line)] \notin Blank
    BY PartsAre
  <2>3. NameAt(line) # 1 => 1 \in 1 .. NameAt(line) - 1
    BY <2>1, <2>2
  <2>4. NameAt(line) <= Len(line) => (line[1] \in Blank <=> NameAt(line) # 1)
    BY <2>2, <2>3
  <2> QED BY <2>1, <2>2, <2>4, StrippedIs, GoodIs
<1>2. (NameAt(line) > Len(line) <=> ~(NameAt(line) <= Len(line))) /\ (Len(fs) > 1 => Len(fs) # 1)
  <2>1. NameAt(line) \in Nat /\ Len(line) \in Nat /\ l \in Nat
    BY <1>1
  <2>2. \A i, j \in Nat : (i > j <=> ~(i <= j)) /\ (i > 1 => i # 1)
    OBVIOUS
  <2> QED BY ONLY <2>1, <2>2
<1>3. CASE NameAt(line) > Len(line)
  <2>1. gs = fs /\ ~(NameAt(line) <= Len(line))
    BY <1>1, <1>2, <1>3 DEF MoreFields
  <2> QED BY <1>3, <2>1
<1>4. CASE NameAt(line) <= Len(line) /\ NameAt(line) # 1 /\ Len(fs) > 1
  <2>1. gs = cs
    BY <1>1, <1>4 DEF MoreFields
  <2>2. Continuation(line) \in Seq(Symbol)
    BY <1>4, ContinuationIs
  <2>3. l \in 1 .. l /\ DOMAIN fs = 1 .. l /\ fs \in [1 .. l -> HeaderField]
    <3>1. l \in 1 .. l
      BY <1>1, <1>4
    <3> QED BY <3>1, LenProperties
  <2> DEFINE y == [fs[l] EXCEPT !.value = @ \o Continuation(line)]
  <2>4. y \in HeaderField /\ y.prop = fs[l].prop /\ y.value = fs[l].value \o Continuation(line)
    <3>1. fs[l] \in HeaderField
      BY <2>3
    <3>2. fs[l].value \o Continuation(line) \in Seq(Symbol)
      BY <2>2, <2>3, FieldType, ConcatProperties
    <3> QED BY <3>1, <3>2 DEF HeaderField
  <2>5. cs = [fs EXCEPT ![l] = y]
    OBVIOUS
  <2> HIDE DEF y
  <2>6. /\ cs \in [1 .. l -> HeaderField] /\ cs[l] = y
        /\ \A i \in 1 .. l - 1 : cs[i] = fs[i]
    <3>1. \A i \in 1 .. l - 1 : i \in 1 .. l /\ i # l
      BY <1>1
    <3> QED BY <2>3, <2>4, <2>5, <3>1
  <2> HIDE DEF cs
  <2>7. cs \in Seq(HeaderField) /\ Len(cs) = l
    <3>1. \A k \in Nat : \A s \in [1 .. k -> HeaderField] : s \in Seq(HeaderField) /\ Len(s) = k
      OBVIOUS
    <3> QED BY <1>1, <2>6, <3>1
  <2>8. ~(NameAt(line) > Len(line)) /\ ~(NameAt(line) = 1 \/ Len(fs) = 1)
    BY <1>2, <1>4
  <2> QED BY <2>1, <2>4, <2>6, <2>7, <2>8
<1>5. CASE NameAt(line) <= Len(line) /\ ~(NameAt(line) # 1 /\ Len(fs) > 1)
  <2>1. gs = IF IsHeader(line) THEN Append(fs, Field(line)) ELSE fs
    BY <1>1, <1>5 DEF MoreFields
  <2>2. Good(line) => Field(line) \in HeaderField
    <3>1. SUFFICES ASSUME Good(line) PROVE Field(line) \in HeaderField
      OBVIOUS
    <3>2. lookup(Name(line)) \in Property
      BY LookupType
    <3> QED BY <3>1, <3>2, FieldIs DEF HeaderField
  <2>3. gs \in Seq(HeaderField)
    BY <1>1, <2>1, <2>2, AppendProperties
  <2>4. ~(NameAt(line) > Len(line)) /\ (NameAt(line) = 1 \/ ~(Len(fs) > 1))
    BY <1>2, <1>5
  <2> QED BY <1>1, <1>5, <2>1, <2>2, <2>3, <2>4
<1> QED BY <1>2, <1>3, <1>4, <1>5
-----------------------------------------------------------------------------
(* What holds of the fields whatever is fed. *)
LEMMA HeadersLater ==
  ASSUME IInv, HInv, lines # <<>>, NEW line \in Lines, add(line)
  PROVE  /\ TypeOK /\ method # "END" /\ line \in Seq(Symbol) /\ Len(line) \in Nat
         /\ NameAt(line) \in 1 .. Len(line) + 1 /\ ~complete
         /\ fields' = MoreFields(fields, line) /\ fields' \in Seq(HeaderField)
         /\ lines' # <<>> /\ lines' = Append(lines, line) /\ (~NamesUri' => ~NamesUri)
<1>1. TypeOK /\ method # "END"
  BY DEF IInv
<1>2. /\ line \in Seq(Symbol) /\ Len(line) \in Nat /\ NameAt(line) \in 1 .. Len(line) + 1
      /\ ~complete /\ lines' = Append(lines, line)
  BY <1>1, LaterLine
<1>3. fields' = MoreFields(fields, line)
  BY DEF add
<1>4. fields' \in Seq(HeaderField)
  BY <1>2, <1>3, MoreFieldsAre DEF HInv
<1>5. lines' # <<>> /\ (~NamesUri' => ~NamesUri)
  BY <1>1, <1>2, LinesAre DEF TypeOK
<1> QED BY <1>1, <1>2, <1>3, <1>4, <1>5

LEMMA HeadersFirst ==
  ASSUME IInv, HInv, NEW line \in Lines, add(line), lines = <<>>
  PROVE  HInv'
<1>1. v = <<>> /\ properties = <<>> /\ ~complete /\ method = "END"
  BY DEF IInv
<1>2. line \in Seq(Symbol) /\ "Request_URI" \in Property
  BY RequestAssumption
<1>3. first_line(line) /\ fields' = FirstField(line)
  BY <1>1 DEF add
<1>4. insert("Request_URI", Uri(line)) /\ UNCHANGED complete /\ Uri(line) \in Seq(Symbol)
  BY <1>2, <1>3, FirstLineIs, UriIs
<1> DEFINE x == [prop |-> "Request_URI", value |-> Uri(line)]
<1>5. x \in HeaderField /\ insert(x.prop, x.value)
  BY <1>2, <1>4 DEF HeaderField
<1>6. fields' = <<x>>
  BY <1>3 DEF FirstField
<1> HIDE DEF x
<1>7. <<x>> = Append(<<>>, x) /\ <<x>> \in Seq(HeaderField)
  BY <1>5
<1>8. Right'
  BY <1>1, <1>5, <1>6, <1>7, RightFirst
<1>9. HeadersRight'
  BY <1>1, <1>4 DEF HeadersRight
<1> QED BY <1>6, <1>7, <1>8, <1>9 DEF HInv

LEMMA HeadersEnd ==
  ASSUME IInv, HInv, lines # <<>>, NEW line \in Lines, add(line), NameAt(line) > Len(line), end_line
  PROVE  HInv'
<1>1. /\ TypeOK /\ ~complete /\ line \in Seq(Symbol)
      /\ fields' = MoreFields(fields, line) /\ fields' \in Seq(HeaderField)
      /\ ~NamesUri' => ~NamesUri
  BY HeadersLater
<1>2. fields' = fields
  BY <1>1, MoreFieldsAre DEF HInv
<1>3. /\ insert("END", <<>>) /\ complete'
      /\ broken' = (broken \/ Len(v) > Width - 1)
  BY DEF end_line
<1>4. ASSUME ~broken', ~NamesUri' PROVE HeadersRight'
  <2>1. ~broken /\ ~(Len(v) > Width - 1)
    BY <1>3, <1>4
  <2>2. Len(v) \in Nat /\ Width \in Nat /\ v \in Seq(Symbol) /\ properties \in Seq(Entry)
    BY <1>1, LenProperties, RequestAssumption DEF TypeOK
  <2>3. Len(v) < Width
    BY <2>1, <2>2
  <2>4. Right
    BY <1>1, <1>4, <2>1, <2>3 DEF HInv
  <2>5. fields \in Seq(HeaderField)
    BY DEF HInv
  <2> QED BY <1>2, <1>3, <2>2, <2>3, <2>4, <2>5, RightEnd
<1>5. HeadersRight'
  BY <1>4 DEF HeadersRight
<1> QED BY <1>1, <1>3, <1>5 DEF HInv

LEMMA HeadersPlain ==
  ASSUME IInv, HInv, lines # <<>>, NEW line \in Lines, add(line), NameAt(line) <= Len(line),
         NameAt(line) = 1 \/ Len(properties) = 1, plain_line(line)
  PROVE  HInv'
<1>1. /\ TypeOK /\ ~complete /\ line \in Seq(Symbol)
      /\ fields' = MoreFields(fields, line) /\ fields' \in Seq(HeaderField)
      /\ lines' = Append(lines, line) /\ (~NamesUri' => ~NamesUri)
  BY HeadersLater
<1>2. v \in Seq(Symbol) /\ properties \in Seq(Entry) /\ fields \in Seq(HeaderField)
  BY <1>1 DEF TypeOK, HInv
<1>3. /\ UNCHANGED complete
      /\ \/ ~Good(line) /\ broken' = TRUE
         \/ Good(line) /\ UNCHANGED broken
  BY <1>1, <1>2, PlainLineIs
<1>4. ASSUME ~broken', Len(v') < Width, ~NamesUri' PROVE Right'
  <2>1. Good(line) /\ ~broken
    BY <1>3, <1>4
  <2> DEFINE x == Field(line)
  <2>2. /\ x = [prop |-> lookup(Name(line)), value |-> Value(line)]
        /\ Value(line) \in Seq(Symbol) /\ lookup(Name(line)) \in Property
    BY <1>1, <2>1, FieldIs, LookupType
  <2>3. x \in HeaderField /\ x.prop = lookup(Name(line)) /\ x.value = Value(line)
    BY <2>2 DEF HeaderField
  <2> HIDE DEF x
  <2>4. /\ Repeats(line) => v' = v \o (Comma \o x.value) /\ UNCHANGED properties
        /\ ~Repeats(line) => insert(x.prop, x.value)
    BY <1>1, <1>2, <2>1, <2>3, PlainLineAdds
  <2>5. Len(v) < Width
    <3>1. \E text \in Seq(Symbol) : v' = v \o text
      <4>1. Comma \o x.value \in Seq(Symbol) /\ x.value \in Seq(Symbol)
        BY <2>2, <2>3, CommaType, ConcatProperties
      <4>2. CASE Repeats(line)
        BY <2>4, <4>1, <4>2
      <4>3. CASE ~Repeats(line)
        BY <2>4, <4>1, <4>3 DEF insert
      <4> QED BY <4>2, <4>3
    <3>2. PICK text \in Seq(Symbol) : v' = v \o text
      BY <3>1
    <3>3. Longer
      BY <1>2, <3>2, LongerIs
    <3>4. Len(v) \in Nat /\ Len(v') \in Nat /\ Width \in Nat /\ Len(v') >= Len(v)
      BY <1>2, <3>3, LenProperties, RequestAssumption DEF Longer
    <3> QED BY <1>4, <3>4
  <2>6. Right /\ Kept
    BY <1>1, <1>4, <2>1, <2>5 DEF HInv, IInv
  <2>7. NameAt(line) = 1 \/ Len(fields) = 1
    BY <2>6 DEF Right
  <2>8. fields' = Append(fields, x)
    BY <1>1, <1>2, <2>1, <2>7, MoreFieldsAre DEF x
  <2>9. Repeats(line) <=> x.prop = properties[Len(properties)].prop
    BY <2>3, <2>6 DEF Repeats, Last, Right
  <2>10. CASE Repeats(line)
    <3>1. Len(properties) > 1
      <4>1. Len(properties) \in Nat \ {0}
        BY <1>2, <2>6, EmptySeq DEF Right
      <4>2. Len(properties) # 1
        <5>1. SUFFICES ASSUME Len(properties) = 1 PROVE FALSE
          OBVIOUS
        <5>2. Unheaded /\ properties[1].prop = "Request_URI"
          BY <1>1, <2>6, <5>1 DEF Kept
        <5>3. lookup(Name(line)) # "Request_URI"
          BY <1>1, <1>4, <2>1, <5>2, LinesAre DEF TypeOK
        <5> QED BY <2>3, <2>9, <2>10, <5>1, <5>2, <5>3
      <4> QED BY <4>1, <4>2, MoreThanOne
    <3> QED BY <1>2, <2>3, <2>4, <2>6, <2>8, <2>9, <2>10, <3>1, RightRepeats
  <2>11. CASE ~Repeats(line)
    BY <1>2, <2>3, <2>4, <2>5, <2>6, <2>8, <2>9, <2>11, RightNew
  <2> QED BY <2>10, <2>11
<1>5. HeadersRight'
  BY <1>1, <1>3 DEF HeadersRight
<1> QED BY <1>1, <1>4, <1>5 DEF HInv

LEMMA HeadersCont ==
  ASSUME IInv, HInv, lines # <<>>, NEW line \in Lines, add(line), NameAt(line) <= Len(line),
         ~(NameAt(line) = 1 \/ Len(properties) = 1), cont_line(line)
  PROVE  HInv'
<1>1. /\ TypeOK /\ ~complete /\ line \in Seq(Symbol)
      /\ fields' = MoreFields(fields, line) /\ fields' \in Seq(HeaderField)
      /\ ~NamesUri' => ~NamesUri
  BY HeadersLater
<1>2. v \in Seq(Symbol) /\ properties \in Seq(Entry) /\ fields \in Seq(HeaderField)
  BY <1>1 DEF TypeOK, HInv
<1> DEFINE c == Continuation(line)
<1>3. v' = v \o c /\ UNCHANGED <<properties, complete, broken>> /\ c \in Seq(Symbol)
  BY <1>1, ContLineIs
<1> HIDE DEF c
<1>4. ASSUME ~broken', Len(v') < Width, ~NamesUri' PROVE Right'
  <2>1. Len(v) < Width
    <3>1. Longer
      BY <1>2, <1>3, LongerIs
    <3>2. Len(v) \in Nat /\ Len(v') \in Nat /\ Width \in Nat /\ Len(v') >= Len(v)
      BY <1>2, <3>1, LenProperties, RequestAssumption DEF Longer
    <3> QED BY <1>4, <3>2
  <2>2. Right
    BY <1>1, <1>3, <1>4, <2>1 DEF HInv
  <2>3. Len(fields) > 1
    <3>1. Len(fields) \in Nat \ {0} /\ Len(fields) # 1
      BY <1>2, <2>2, EmptySeq DEF Right
    <3> QED BY <3>1, MoreThanOne
  <2>4. /\ Len(fields') = Len(fields) /\ \A i \in 1 .. Len(fields) - 1 : fields'[i] = fields[i]
        /\ fields'[Len(fields)].prop = fields[Len(fields)].prop
        /\ fields'[Len(fields)].value = fields[Len(fields)].value \o c
    <3>1. NameAt(line) # 1
      OBVIOUS
    <3> QED BY <1>1, <1>2, <2>3, <3>1, MoreFieldsAre DEF c
  <2> QED BY <1>1, <1>2, <1>3, <2>2, <2>4, RightContinued
<1>5. HeadersRight'
  BY <1>1, <1>3 DEF HeadersRight
<1> QED BY <1>1, <1>4, <1>5 DEF HInv

LEMMA HeadersBegin == Init => HInv
BY EmptySeq DEF Init, HInv, HeadersRight

LEMMA HeadersStep == IInv /\ HInv /\ [Next]_vars => HInv'
<1> SUFFICES ASSUME IInv, HInv, [Next]_vars PROVE HInv'
  OBVIOUS
<1>1. CASE Next
  <2>1. PICK line \in Lines : add(line)
    BY <1>1 DEF Next, Lines
  <2>2. CASE lines = <<>>
    BY <2>1, <2>2, HeadersFirst
  <2>3. CASE lines # <<>>
    <3>1. TypeOK /\ method # "END"
      BY <2>3 DEF IInv
    <3>2. \/ NameAt(line) > Len(line) /\ end_line
          \/ /\ NameAt(line) <= Len(line)
             /\ NameAt(line) = 1 \/ Len(properties) = 1
             /\ plain_line(line)
          \/ /\ NameAt(line) <= Len(line)
             /\ ~(NameAt(line) = 1 \/ Len(properties) = 1)
             /\ cont_line(line)
      BY <2>1, <2>3, <3>1, LaterLine
    <3> QED BY <2>1, <2>3, <3>2, HeadersEnd, HeadersPlain, HeadersCont
  <2> QED BY <2>2, <2>3
<1>2. CASE UNCHANGED vars
  <2>1. /\ v' = v /\ properties' = properties /\ complete' = complete /\ broken' = broken
        /\ lines' = lines /\ fields' = fields
    BY <1>2 DEF vars
  <2>2. HeadersRight' <=> HeadersRight
    BY <2>1 DEF HeadersRight, NamesUri, header, Found, Stored
  <2>3. Right' <=> Right
    BY <2>1 DEF Right, Starts, SameNames, SameValues, IsFirst, Segment, Ends
  <2>4. NamesUri' <=> NamesUri
    BY <2>1 DEF NamesUri
  <2> QED BY <2>1, <2>2, <2>3, <2>4 DEF HInv
<1> QED BY <1>1, <1>2

(* Request!HeadersRight: a request which is complete and not broken yields *)
(* for each name the first series of its values, with their continuation   *)
(* lines, though all of them share one vector and short offsets into it.   *)
THEOREM HeadersStay == Spec => []HeadersRight
<1>1. HInv => HeadersRight
  BY DEF HInv
<1> QED BY <1>1, Inductive, HeadersBegin, HeadersStep, PTL DEF Spec
=============================================================================
