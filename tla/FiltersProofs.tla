---------------------------- MODULE FiltersProofs ----------------------------
(***************************************************************************)
(* Theorems about Filters: for any chain, blobs of any size, a response of *)
(* any length, and a socket and a deflater which take and keep what they   *)
(* like.                                                                   *)
(***************************************************************************)
EXTENDS Filters, SequenceProofs

TypeOK ==
  /\ chain \in {"P", "C", "Z", "CZ"}
  /\ backlog \in Seq(Token) /\ wire \in Seq(Token)
  /\ ending \in BOOLEAN
  /\ written \in Nat /\ emitted \in 0 .. written
  /\ phase \in {"writing", "ending", "done", "lost"}
  /\ result \in BOOLEAN
  /\ ends \in Nat
-----------------------------------------------------------------------------
LEMMA Tokens ==
  /\ OctetToken \subseteq Payload /\ Payload \subseteq Token
  /\ CrLf \in Token /\ LastChunk \in Token /\ \A n \in Nat : Size(n) \in Token
  /\ CrLf \notin Payload /\ LastChunk \notin Payload /\ \A n \in Nat : Size(n) \notin Payload
  /\ Trailer \in Payload /\ Trailer \notin OctetToken
BY DEF OctetToken, Payload, Token, CrLf, LastChunk, Trailer, Size

LEMMA Kinds ==
  /\ \A t \in Payload : Kind(t) \notin {"size", "crlf", "last"}
  /\ \A n \in Nat : Kind(Size(n)) = "size" /\ Size(n)[2] = n
  /\ Kind(CrLf) = "crlf" /\ Kind(LastChunk) = "last"
  /\ \A t \in Token : /\ Kind(t) = "size" => t[2] \in Nat
                      /\ Kind(t) = "last" => t = LastChunk
BY DEF OctetToken, Payload, Token, CrLf, LastChunk, Trailer, Size, Kind

LEMMA OctetsType ==
  ASSUME NEW a \in Nat, NEW b \in Nat, a <= b
  PROVE  /\ Octets(a, b) \in Seq(OctetToken)
         /\ Len(Octets(a, b)) = b - a
         /\ \A k \in 1 .. b - a :
              Octets(a, b)[k] = <<IF Zipped THEN "deflated" ELSE "data", a + k>>
<1>1. \A k \in 1 .. b - a : <<IF Zipped THEN "deflated" ELSE "data", a + k>> \in OctetToken
  BY DEF OctetToken
<1>2. Octets(a, b) \in [1 .. b - a -> OctetToken] /\ b - a \in Nat
  BY <1>1 DEF Octets
<1> QED BY <1>2 DEF Octets

(* The octets from one place to the next add up. *)
LEMMA OctetsAdd ==
  ASSUME NEW a \in Nat, NEW b \in Nat, NEW c \in Nat, a <= b, b <= c
  PROVE  Octets(a, b) \o Octets(b, c) = Octets(a, c)
<1> DEFINE T == IF Zipped THEN "deflated" ELSE "data"
           x == Octets(a, b)
           y == Octets(b, c)
           z == Octets(a, c)
<1>1. x \in Seq(OctetToken) /\ Len(x) = b - a /\ \A k \in 1 .. b - a : x[k] = <<T, a + k>>
  BY OctetsType
<1>2. y \in Seq(OctetToken) /\ Len(y) = c - b /\ \A k \in 1 .. c - b : y[k] = <<T, b + k>>
  BY OctetsType
<1>3. z \in Seq(OctetToken) /\ Len(z) = c - a /\ \A k \in 1 .. c - a : z[k] = <<T, a + k>>
  <2>1. a <= c
    OBVIOUS
  <2> QED BY <2>1, OctetsType
<1> HIDE DEF T, x, y, z
<1>4. /\ x \o y \in Seq(OctetToken) /\ Len(x \o y) = c - a
      /\ \A k \in 1 .. c - a : (x \o y)[k] = IF k <= b - a THEN x[k] ELSE y[k - (b - a)]
  <2>1. /\ x \o y \in Seq(OctetToken) /\ Len(x \o y) = Len(x) + Len(y)
        /\ \A k \in 1 .. Len(x) + Len(y) : (x \o y)[k] = IF k <= Len(x) THEN x[k] ELSE y[k - Len(x)]
    BY ONLY <1>1, <1>2, ConcatProperties
  <2>2. Len(x) + Len(y) = c - a
    BY <1>1, <1>2
  <2> QED BY <1>1, <2>1, <2>2
<1>5. ASSUME NEW k \in 1 .. c - a PROVE (x \o y)[k] = z[k]
  <2>1. CASE k <= b - a
    <3>1. k \in 1 .. b - a
      BY <2>1
    <3>2. x[k] = <<T, a + k>> /\ z[k] = <<T, a + k>>
      BY <1>1, <1>3, <3>1
    <3>3. (x \o y)[k] = x[k]
      BY <1>4, <2>1
    <3> QED BY <3>2, <3>3
  <2>2. CASE k > b - a
    <3>1. k - (b - a) \in 1 .. c - b /\ b + (k - (b - a)) = a + k /\ ~(k <= b - a)
      BY <2>2
    <3>2. y[k - (b - a)] = <<T, a + k>>
      BY <1>2, <3>1
    <3>3. z[k] = <<T, a + k>>
      BY <1>3
    <3>4. (x \o y)[k] = y[k - (b - a)]
      BY <1>4, <3>1
    <3> QED BY <3>2, <3>3, <3>4
  <2>3. k \in Nat /\ b - a \in Nat
    OBVIOUS
  <2>4. k <= b - a \/ k > b - a
    BY ONLY <2>3
  <2> QED BY <2>1, <2>2, <2>4
<1>6. x \o y = z
  BY <1>3, <1>4, <1>5, SeqEqual
<1> QED BY <1>6 DEF x, y, z

LEMMA NoOctets ==
  ASSUME NEW a \in Nat
  PROVE  Octets(a, a) = <<>>
BY OctetsType, EmptySeq

(* What Chunked puts around its data is neither octets nor for a chunk.    *)
LEMMA FrameIs ==
  ASSUME NEW data \in Seq(Payload)
  PROVE  /\ Frame(data) \in Seq(Token)
         /\ Only(Frame(data), OctetToken) = Only(data, OctetToken)
         /\ Only(Frame(data), Payload) = data
<1> DEFINE head == <<Size(Len(data))>>
           tail == <<CrLf>>
<1>1. data \in Seq(Token) /\ Len(data) \in Nat
  BY Tokens, SeqMonotonic, LenProperties
<1>2. Only(data, Payload) = data
  <2>1. \A i \in 1 .. Len(data) : data[i] \in Payload
    BY ElementOfSeq
  <2> QED BY <2>1, OnlyAll
<1>3. CASE ~Chunked
  BY <1>1, <1>2, <1>3 DEF Frame
<1>4. CASE Chunked
  <2>1. Size(Len(data)) \in Token /\ CrLf \in Token /\ head \in Seq(Token) /\ tail \in Seq(Token)
    BY <1>1, Tokens
  <2>2. \A S \in SUBSET Payload : Only(head, S) = <<>> /\ Only(tail, S) = <<>>
    BY <1>1, <2>1, Tokens, OnlyOne
  <2> HIDE DEF head, tail
  <2>3. Frame(data) = (head \o data) \o tail
    BY <1>4 DEF Frame, head, tail
  <2>4. Frame(data) \in Seq(Token) /\ head \o data \in Seq(Token)
    BY <1>1, <2>1, <2>3, ConcatProperties
  <2>5. ASSUME NEW S \in SUBSET Payload PROVE Only(Frame(data), S) = Only(data, S)
    <3>1. Only(Frame(data), S) = (Only(head, S) \o Only(data, S)) \o Only(tail, S)
      <4> DEFINE left == head \o data
      <4>1. Only(left, S) = Only(head, S) \o Only(data, S)
        BY <1>1, <2>1, OnlyCat
      <4>2. left \in Seq(Token) /\ Frame(data) = left \o tail
        BY <2>3, <2>4
      <4> HIDE DEF left
      <4>3. Only(Frame(data), S) = Only(left, S) \o Only(tail, S)
        BY <2>1, <4>2, OnlyCat
      <4> QED BY <4>1, <4>3
    <3>2. Only(data, S) \in Seq(Token)
      BY <1>1, OnlyType
    <3>3. <<>> \o Only(data, S) = Only(data, S) /\ Only(data, S) \o <<>> = Only(data, S)
      BY <3>2, ConcatEmptySeq
    <3> QED BY <2>2, <3>1, <3>3
  <2>6. OctetToken \in SUBSET Payload /\ Payload \in SUBSET Payload
    BY Tokens
  <2> QED BY <1>2, <2>4, <2>5, <2>6
<1> QED BY <1>3, <1>4

LEMMA RestIs ==
  ASSUME TypeOK
  PROVE  /\ Rest \in Seq(Payload) /\ Rest # <<>>
         /\ Rest = Octets(emitted, written) \o <<Trailer>>
         /\ Only(Rest, OctetToken) = Octets(emitted, written)
<1> DEFINE o == Octets(emitted, written)
           t == <<Trailer>>
<1>1. o \in Seq(OctetToken) /\ emitted \in Nat /\ written \in Nat
  BY OctetsType DEF TypeOK
<1>2. o \in Seq(Payload) /\ t \in Seq(Payload) /\ Len(t) = 1
  BY <1>1, Tokens, SeqMonotonic
<1>3. Only(o, OctetToken) = o /\ Only(t, OctetToken) = <<>>
  <2>1. \A i \in 1 .. Len(o) : o[i] \in OctetToken
    BY <1>1, ElementOfSeq
  <2> HIDE DEF o
  <2>2. Only(o, OctetToken) = o
    BY <1>1, <2>1, OnlyAll
  <2> QED BY <2>2, Tokens, OnlyOne
<1>4. Rest = o \o t
  BY DEF Rest
<1> HIDE DEF o, t
<1>5. Rest \in Seq(Payload) /\ Len(Rest) = Len(o) + 1 /\ Len(o) \in Nat
  <2>1. o \o t \in Seq(Payload) /\ Len(o \o t) = Len(o) + Len(t)
    BY ONLY <1>2, ConcatProperties
  <2>2. Len(o) \in Nat
    BY <1>2, LenProperties
  <2> QED BY <1>2, <1>4, <2>1, <2>2
<1>6. Only(Rest, OctetToken) = o
  <2>1. Only(o \o t, OctetToken) = Only(o, OctetToken) \o Only(t, OctetToken)
    BY <1>2, OnlyCat
  <2>2. o \o <<>> = o
    BY <1>2, ConcatEmptySeq
  <2> QED BY <1>3, <1>4, <2>1, <2>2
<1> QED BY <1>4, <1>5, <1>6, EmptySeq DEF o, t

LEMMA EndMarkIs ==
  /\ EndMark \in Seq(Token)
  /\ Only(EndMark, OctetToken) = <<>> /\ Only(EndMark, Payload) = <<>>
<1>1. LastChunk \in Token /\ LastChunk \notin Payload /\ LastChunk \notin OctetToken
  BY Tokens
<1>2. <<LastChunk>> \in Seq(Token) /\ <<>> \in Seq(Token)
  BY <1>1
<1>3. Only(<<LastChunk>>, OctetToken) = <<>> /\ Only(<<LastChunk>>, Payload) = <<>>
  BY <1>1, OnlyOne
<1> QED BY <1>2, <1>3, OnlyNil DEF EndMark
-----------------------------------------------------------------------------
LEMMA TokensAssociate ==
  \A s, t, u \in Seq(Token) : Cat(Cat(s, t), u) = Cat(s, Cat(t, u))
BY CatAssociates

(* A write loses nothing and adds nothing, and true means nothing is left. *)
LEMMA PutIs ==
  ASSUME wire \in Seq(Token), NEW first \in Seq(Token), NEW then \in Seq(Token), Put(first, then)
  PROVE  /\ wire' \in Seq(Token) /\ backlog' \in Seq(Token)
         /\ wire' \o backlog' = wire \o (first \o then)
         /\ result' \in BOOLEAN /\ (result' <=> backlog' = <<>>)
<1>1. PICK w \in 0 .. Len(then) :
        /\ wire' = wire \o first \o SubSeq(then, 1, w)
        /\ backlog' = SubSeq(then, w + 1, Len(then))
        /\ result' = (w = Len(then))
  BY DEF Put
<1> DEFINE taken == SubSeq(then, 1, w)
           rest == SubSeq(then, w + 1, Len(then))
           u == wire \o first
<1>2. Len(then) \in Nat /\ w \in Nat /\ w <= Len(then)
  BY LenProperties
<1>3. taken \in Seq(Token) /\ rest \in Seq(Token) /\ Len(rest) = Len(then) - w
  <2>1. \A i \in 1 .. Len(then) : then[i] \in Token
    BY ElementOfSeq
  <2>2. taken \in Seq(Token)
    BY <1>2, <2>1, SubSeqProperties
  <2>3. rest \in Seq(Token) /\ Len(rest) = IF w + 1 <= Len(then) THEN Len(then) - (w + 1) + 1 ELSE 0
    BY <1>2, <2>1, SubSeqProperties
  <2> QED BY <1>2, <2>2, <2>3
<1>4. taken \o rest = then
  <2>1. 1 \in 1 .. Len(then) + 1 /\ w \in 1 - 1 .. Len(then) /\ Len(then) \in w .. Len(then)
    BY <1>2
  <2>2. taken \o rest = SubSeq(then, 1, Len(then))
    BY <2>1, ConcatAdjacentSubSeq
  <2> QED BY <2>2, SubSeqFull
<1>5. wire' = u \o taken /\ backlog' = rest
  BY <1>1
<1>6. u \in Seq(Token) /\ u \o then = wire \o (first \o then)
  <2>1. u \in Seq(Token)
    BY ConcatProperties
  <2>2. Cat(Cat(wire, first), then) = Cat(wire, Cat(first, then))
    BY ONLY wire \in Seq(Token), first \in Seq(Token), then \in Seq(Token), TokensAssociate
  <2> QED BY <2>1, <2>2 DEF Cat
<1> HIDE DEF taken, rest, u
<1>7. wire' \in Seq(Token) /\ wire' \o backlog' = u \o (taken \o rest)
  <2>1. wire' \in Seq(Token)
    BY ONLY <1>3, <1>5, <1>6, ConcatProperties
  <2>2. (u \o taken) \o rest = u \o (taken \o rest)
    <3>1. u \in Seq(Token) /\ taken \in Seq(Token) /\ rest \in Seq(Token)
      BY <1>3, <1>6
    <3> QED BY ONLY <3>1
  <2> QED BY <1>5, <2>1, <2>2
<1>8. backlog' = <<>> <=> Len(rest) = 0
  BY <1>3, <1>5, EmptySeq
<1>9. result' \in BOOLEAN /\ (result' <=> backlog' = <<>>)
  <2>1. Len(rest) = 0 <=> w = Len(then)
    BY <1>2, <1>3
  <2>2. result' = (w = Len(then))
    BY <1>1
  <2> QED BY <1>8, <2>1, <2>2
<1> QED BY <1>3, <1>4, <1>5, <1>6, <1>7, <1>9

(* A write of the backlog and something more, and one of that and a mark   *)
(* behind it.                                                              *)
LEMMA PutMore ==
  ASSUME TypeOK, NEW new \in Seq(Token), Put(<<>>, backlog \o new)
  PROVE  /\ wire' \in Seq(Token) /\ backlog' \in Seq(Token)
         /\ Out' = Out \o new
         /\ result' \in BOOLEAN /\ (result' <=> backlog' = <<>>)
<1> DEFINE then == backlog \o new
           first == <<>>
<1>1. wire \in Seq(Token) /\ backlog \in Seq(Token) /\ then \in Seq(Token) /\ first \in Seq(Token)
  BY ConcatProperties, EmptySeq DEF TypeOK
<1>2. first \o then = then /\ wire \o then = Out \o new
  <2>1. first \o then = then
    BY <1>1, ConcatEmptySeq
  <2>2. Cat(Cat(wire, backlog), new) = Cat(wire, Cat(backlog, new))
    BY ONLY <1>1, new \in Seq(Token), TokensAssociate
  <2> QED BY <2>1, <2>2 DEF Cat, Out
<1>3. Put(first, then)
  OBVIOUS
<1> HIDE DEF first, then
<1>4. /\ wire' \in Seq(Token) /\ backlog' \in Seq(Token)
      /\ wire' \o backlog' = wire \o (first \o then)
      /\ result' \in BOOLEAN /\ (result' <=> backlog' = <<>>)
  BY <1>1, <1>3, PutIs
<1> QED BY ONLY <1>2, <1>4 DEF Out

LEMMA PutBoth ==
  ASSUME TypeOK, NEW new \in Seq(Token), NEW mark \in Seq(Token), Put(backlog \o new, mark)
  PROVE  /\ wire' \in Seq(Token) /\ backlog' \in Seq(Token)
         /\ Out' = (Out \o new) \o mark
         /\ result' \in BOOLEAN /\ (result' <=> backlog' = <<>>)
<1> DEFINE first == backlog \o new
<1>1. /\ wire \in Seq(Token) /\ backlog \in Seq(Token)
      /\ first \in Seq(Token) /\ new \in Seq(Token) /\ mark \in Seq(Token)
  BY ConcatProperties DEF TypeOK
<1>2. wire \o first = Out \o new
  <2>1. Cat(Cat(wire, backlog), new) = Cat(wire, Cat(backlog, new))
    BY ONLY <1>1, TokensAssociate
  <2> QED BY ONLY <2>1 DEF Cat, Out, first
<1>3. Put(first, mark)
  OBVIOUS
<1> HIDE DEF first
<1>4. wire \o (first \o mark) = (wire \o first) \o mark
  <2>1. wire \in Seq(Token) /\ first \in Seq(Token) /\ mark \in Seq(Token)
    BY <1>1
  <2>2. Cat(Cat(wire, first), mark) = Cat(wire, Cat(first, mark))
    BY ONLY <2>1, TokensAssociate
  <2> QED BY ONLY <2>2 DEF Cat
<1> QED BY <1>1, <1>2, <1>3, <1>4, PutIs DEF Out
-----------------------------------------------------------------------------
(* What Framed says of any sequence of tokens. *)
StartsIn(s, i) == i <= Len(s) => Kind(s[i]) \in {"size", "last"}

SizedIn(s, i) ==
  Kind(s[i]) = "size" =>
    /\ s[i][2] > 0
    /\ i + s[i][2] + 1 <= Len(s)
    /\ \A j \in 1 .. s[i][2] : s[i + j] \in Payload
    /\ s[i + s[i][2] + 1] = CrLf

LastIn(s, i) == Kind(s[i]) = "last" => \A j \in i .. Len(s) : Kind(s[j]) = "last"

WellFramed(s) ==
  /\ StartsIn(s, 1)
  /\ \A i \in 1 .. Len(s) :
       SizedIn(s, i) /\ (Kind(s[i]) = "crlf" => StartsIn(s, i + 1)) /\ LastIn(s, i)

NoLast(s) == \A i \in 1 .. Len(s) : s[i] # LastChunk

LEMMA FramedIs ==
  ASSUME wire \in Seq(Token), backlog \in Seq(Token)
  PROVE  Framed <=> (Chunked => WellFramed(Out) /\ Lasts(Out) <= ends)
<1>1. Out \in Seq(Token)
  BY ConcatProperties DEF Out
<1>2. DOMAIN Out = 1 .. Len(Out)
  BY <1>1
<1> QED BY <1>2 DEF Framed, WellFramed, StartsIn, SizedIn, LastIn

(* A chunk, and one behind others. *)
Chunk(data) == <<Size(Len(data))>> \o data \o <<CrLf>>

LEMMA ChunkIs ==
  ASSUME NEW data \in Seq(Payload), NEW d, d = Len(data)
  PROVE  /\ Chunk(data) \in Seq(Token) /\ Len(Chunk(data)) = d + 2
         /\ Chunk(data)[1] = Size(d)
         /\ \A j \in 1 .. d : Chunk(data)[1 + j] = data[j]
         /\ Chunk(data)[d + 2] = CrLf
<1>1. data \in Seq(Token) /\ d \in Nat
  BY Tokens, SeqMonotonic, LenProperties
<1> DEFINE head == <<Size(d)>>
           tail == <<CrLf>>
           left == head \o data
           new == left \o tail
<1>2. /\ head \in Seq(Token) /\ Len(head) = 1 /\ head[1] = Size(d)
      /\ tail \in Seq(Token) /\ Len(tail) = 1 /\ tail[1] = CrLf
  <2>1. Size(d) \in Token /\ CrLf \in Token
    BY <1>1, Tokens
  <2> QED BY <2>1
<1>3. Chunk(data) = new
  BY DEF Chunk
<1> HIDE DEF head, tail
<1>4. /\ left \in Seq(Token) /\ Len(left) = 1 + d
      /\ \A i \in 1 .. 1 : left[i] = head[i]
      /\ \A j \in 1 .. d : left[1 + j] = data[j]
  <2>1. /\ left \in Seq(Token) /\ Len(left) = Len(head) + Len(data)
        /\ \A i \in 1 .. Len(head) : left[i] = head[i]
        /\ \A j \in 1 .. Len(data) : left[Len(head) + j] = data[j]
    <3>1. head \in Seq(Token) /\ data \in Seq(Token)
      BY <1>1, <1>2
    <3> QED BY ONLY <3>1, CatIs
  <2> QED BY <1>2, <2>1
<1> HIDE DEF left
<1>5. /\ new \in Seq(Token) /\ Len(new) = (1 + d) + 1
      /\ \A i \in 1 .. 1 + d : new[i] = left[i]
      /\ \A j \in 1 .. 1 : new[(1 + d) + j] = tail[j]
  <2>1. /\ new \in Seq(Token) /\ Len(new) = Len(left) + Len(tail)
        /\ \A i \in 1 .. Len(left) : new[i] = left[i]
        /\ \A j \in 1 .. Len(tail) : new[Len(left) + j] = tail[j]
    <3>1. left \in Seq(Token) /\ tail \in Seq(Token)
      BY <1>2, <1>4
    <3> QED BY ONLY <3>1, CatIs
  <2> QED BY <1>2, <1>4, <2>1
<1> HIDE DEF new
<1>6. /\ (1 + d) + 1 = d + 2 /\ 1 \in 1 .. 1 /\ 1 \in 1 .. 1 + d
      /\ \A j \in 1 .. d : 1 + j \in 1 .. 1 + d
  BY <1>1
<1> QED BY <1>2, <1>3, <1>4, <1>5, <1>6

LEMMA FramedMore ==
  ASSUME NEW s \in Seq(Token), WellFramed(s), NoLast(s),
         NEW data \in Seq(Payload), data # <<>>, NEW c, c = s \o Chunk(data)
  PROVE  WellFramed(c) /\ NoLast(c)
<1> DEFINE n == Len(s)
           d == Len(data)
<1>1. n \in Nat /\ d \in Nat /\ d # 0
  BY LenProperties, EmptySeq
<1>2. /\ c \in Seq(Token) /\ Len(c) = n + d + 2
      /\ \A i \in 1 .. n : c[i] = s[i]
      /\ c[n + 1] = Size(d)
      /\ \A j \in 1 .. d : c[n + 1 + j] = data[j]
      /\ c[n + d + 2] = CrLf
  <2> DEFINE new == Chunk(data)
  <2>1. /\ new \in Seq(Token) /\ Len(new) = d + 2 /\ new[1] = Size(d)
        /\ \A j \in 1 .. d : new[1 + j] = data[j]
        /\ new[d + 2] = CrLf
    BY ChunkIs
  <2>2. c = s \o new
    OBVIOUS
  <2> HIDE DEF new, n, d
  <2>3. Len(s) = n
    BY DEF n
  <2>4. /\ c \in Seq(Token) /\ Len(c) = n + (d + 2)
        /\ \A i \in 1 .. n : c[i] = s[i]
        /\ \A j \in 1 .. d + 2 : c[n + j] = new[j]
    <3> DEFINE m == d + 2
    <3>1. new \in Seq(Token) /\ Len(new) = m
      BY <2>1
    <3> HIDE DEF m
    <3>2. /\ s \o new \in Seq(Token) /\ Len(s \o new) = n + m
          /\ \A i \in 1 .. n : (s \o new)[i] = s[i]
          /\ \A j \in 1 .. m : (s \o new)[n + j] = new[j]
      BY ONLY s \in Seq(Token), <2>3, <3>1, CatIs
    <3>3. /\ c \in Seq(Token) /\ Len(c) = n + m
          /\ \A i \in 1 .. n : c[i] = s[i]
          /\ \A j \in 1 .. m : c[n + j] = new[j]
      BY ONLY <2>2, <3>2
    <3> QED BY <3>3 DEF m
  <2>5. /\ n + (d + 2) = n + d + 2 /\ 1 \in 1 .. d + 2 /\ d + 2 \in 1 .. d + 2
        /\ \A j \in 1 .. d : 1 + j \in 1 .. d + 2 /\ n + (1 + j) = n + 1 + j
    BY <1>1
  <2>6. \A j \in 1 .. d : c[n + 1 + j] = data[j]
    BY <2>1, <2>4, <2>5
  <2>7. c[n + 1] = Size(d) /\ c[n + (d + 2)] = CrLf
    BY <2>1, <2>4, <2>5
  <2> QED BY <2>4, <2>5, <2>6, <2>7
<1>3. \A j \in 1 .. d : data[j] \in Payload
  BY ElementOfSeq
<1>4. \A i \in 1 .. n : s[i] \in Token
  BY ElementOfSeq
<1>5. \A i \in 1 .. n : SizedIn(s, i) /\ (Kind(s[i]) = "crlf" => StartsIn(s, i + 1)) /\ s[i] # LastChunk
  BY DEF WellFramed, NoLast
<1> HIDE DEF n, d
<1>6. ASSUME NEW i \in 1 .. n + d + 2
      PROVE  i \in 1 .. n \/ i = n + 1 \/ (\E j \in 1 .. d : i = n + 1 + j) \/ i = n + d + 2
  <2>1. i \in n + 2 .. n + d + 1 => i - (n + 1) \in 1 .. d /\ i = n + 1 + (i - (n + 1))
    BY <1>1
  <2>2. i \in 1 .. n \/ i = n + 1 \/ i \in n + 2 .. n + d + 1 \/ i = n + d + 2
    BY ONLY <1>1, i \in 1 .. n + d + 2
  <2> QED BY <2>1, <2>2
<1>7. ASSUME NEW i \in 1 .. n + d + 2
      PROVE  c[i] # LastChunk /\ Kind(c[i]) # "last"
  <2>1. CASE i \in 1 .. n
    BY <1>2, <1>4, <1>5, <2>1, Kinds
  <2>2. CASE i = n + 1 \/ i = n + d + 2
    BY <1>1, <1>2, <2>2, Kinds
  <2>3. CASE \E j \in 1 .. d : i = n + 1 + j
    BY <1>2, <1>3, <2>3, Kinds
  <2> QED BY <1>6, <2>1, <2>2, <2>3
<1>8. StartsIn(c, 1)
  <2>1. CASE n = 0
    BY <1>1, <1>2, <2>1, Kinds DEF StartsIn
  <2>2. CASE n # 0
    <3>1. 1 \in 1 .. n /\ StartsIn(s, 1)
      BY <1>1, <2>2 DEF WellFramed
    <3> QED BY <1>1, <1>2, <3>1 DEF StartsIn, n
  <2> QED BY <2>1, <2>2
<1>9. ASSUME NEW i \in 1 .. n + d + 2 PROVE SizedIn(c, i)
  <2>1. CASE i \in 1 .. n
    <3>1. SUFFICES ASSUME Kind(c[i]) = "size"
                   PROVE  /\ c[i][2] > 0
                          /\ i + c[i][2] + 1 <= Len(c)
                          /\ \A j \in 1 .. c[i][2] : c[i + j] \in Payload
                          /\ c[i + c[i][2] + 1] = CrLf
      BY DEF SizedIn
    <3> DEFINE m == s[i][2]
    <3>2. c[i] = s[i]
      BY <1>2, <2>1
    <3>3. m \in Nat
      BY <1>4, <2>1, <3>1, <3>2, Kinds
    <3>4. /\ m > 0 /\ i + m + 1 <= n
          /\ \A j \in 1 .. m : s[i + j] \in Payload
          /\ s[i + m + 1] = CrLf
      BY <1>5, <2>1, <3>1, <3>2 DEF SizedIn, n
    <3> HIDE DEF m
    <3>5. \A j \in 1 .. m : i + j \in 1 .. n
      BY <1>1, <2>1, <3>3, <3>4
    <3>6. i + m + 1 \in 1 .. n /\ i + m + 1 <= n + d + 2
      BY <1>1, <2>1, <3>3, <3>4
    <3>7. \A j \in 1 .. m : c[i + j] \in Payload
      BY <1>2, <3>4, <3>5
    <3>8. c[i + m + 1] = CrLf
      BY <1>2, <3>4, <3>6
    <3> QED BY <1>2, <3>2, <3>4, <3>6, <3>7, <3>8 DEF m
  <2>2. CASE i = n + 1
    <3>1. c[i][2] = d
      BY <1>1, <1>2, <2>2, Kinds
    <3>2. i + d + 1 = n + d + 2
      BY <1>1, <2>2
    <3>3. \A j \in 1 .. d : c[i + j] \in Payload
      BY <1>2, <1>3, <2>2
    <3>4. d > 0 /\ i + d + 1 <= Len(c)
      BY <1>1, <1>2, <3>2
    <3> QED BY <1>2, <3>1, <3>2, <3>3, <3>4 DEF SizedIn
  <2>3. CASE \E j \in 1 .. d : i = n + 1 + j
    BY <1>2, <1>3, <2>3, Kinds DEF SizedIn
  <2>4. CASE i = n + d + 2
    BY <1>2, <2>4, Kinds DEF SizedIn
  <2> QED BY <1>6, <2>1, <2>2, <2>3, <2>4
<1>10. ASSUME NEW i \in 1 .. n + d + 2, Kind(c[i]) = "crlf" PROVE StartsIn(c, i + 1)
  <2>1. CASE i \in 1 .. n
    <3>1. StartsIn(s, i + 1)
      BY <1>2, <1>5, <1>10, <2>1
    <3>2. CASE i = n
      BY <1>1, <1>2, <3>2, Kinds DEF StartsIn
    <3>3. CASE i # n
      <4>1. i + 1 \in 1 .. n /\ i + 1 <= n
        BY <1>1, <2>1, <3>3
      <4> QED BY <1>2, <3>1, <4>1 DEF StartsIn, n
    <3> QED BY <3>2, <3>3
  <2>2. CASE i = n + 1 \/ \E j \in 1 .. d : i = n + 1 + j
    BY <1>1, <1>2, <1>3, <1>10, <2>2, Kinds
  <2>3. CASE i = n + d + 2
    BY <1>1, <1>2, <2>3 DEF StartsIn
  <2> QED BY <1>6, <2>1, <2>2, <2>3
<1> QED BY <1>2, <1>7, <1>8, <1>9, <1>10 DEF WellFramed, NoLast, LastIn

(* The last chunk behind whole chunks. *)
LEMMA FramedLast ==
  ASSUME NEW s \in Seq(Token), WellFramed(s), NEW c, c = s \o <<LastChunk>>
  PROVE  WellFramed(c)
<1> DEFINE n == Len(s)
<1>1. n \in Nat /\ LastChunk \in Token
  BY LenProperties, Tokens
<1>2. c = Append(s, LastChunk)
  BY <1>1, AppendIsConcat
<1>3. Len(c) = n + 1 /\ c[n + 1] = LastChunk /\ \A i \in 1 .. n : c[i] = s[i]
  BY <1>1, <1>2, AppendProperties
<1>4. \A i \in 1 .. n : s[i] \in Token
  BY ElementOfSeq
<1>5. /\ StartsIn(s, 1)
      /\ \A i \in 1 .. n : SizedIn(s, i) /\ (Kind(s[i]) = "crlf" => StartsIn(s, i + 1)) /\ LastIn(s, i)
  BY DEF WellFramed
<1> HIDE DEF n
<1>6. StartsIn(c, 1)
  BY <1>1, <1>3, <1>5, Kinds DEF StartsIn, n
<1>7. ASSUME NEW i \in 1 .. n PROVE SizedIn(c, i)
  <2>1. SUFFICES ASSUME Kind(c[i]) = "size"
                 PROVE  /\ c[i][2] > 0
                        /\ i + c[i][2] + 1 <= Len(c)
                        /\ \A j \in 1 .. c[i][2] : c[i + j] \in Payload
                        /\ c[i + c[i][2] + 1] = CrLf
    BY DEF SizedIn
  <2> DEFINE m == s[i][2]
  <2>2. c[i] = s[i]
    BY <1>3
  <2>3. m \in Nat
    BY <1>4, <2>1, <2>2, Kinds
  <2>4. /\ m > 0 /\ i + m + 1 <= n
        /\ \A j \in 1 .. m : s[i + j] \in Payload
        /\ s[i + m + 1] = CrLf
    BY <1>5, <2>1, <2>2 DEF SizedIn, n
  <2> HIDE DEF m
  <2>5. \A j \in 1 .. m : i + j \in 1 .. n
    BY <1>1, <2>3, <2>4
  <2>6. i + m + 1 \in 1 .. n /\ i + m + 1 <= n + 1
    BY <1>1, <2>3, <2>4
  <2>7. \A j \in 1 .. m : c[i + j] \in Payload
    BY <1>3, <2>4, <2>5
  <2>8. c[i + m + 1] = CrLf
    BY <1>3, <2>4, <2>6
  <2> QED BY <1>3, <2>2, <2>4, <2>6, <2>7, <2>8 DEF m
<1>8. ASSUME NEW i \in 1 .. n, Kind(c[i]) = "crlf" PROVE StartsIn(c, i + 1)
  <2>1. StartsIn(s, i + 1)
    BY <1>3, <1>5, <1>8
  <2>2. CASE i = n
    BY <1>3, <2>2, Kinds DEF StartsIn
  <2>3. CASE i # n
    <3>1. i + 1 \in 1 .. n /\ i + 1 <= n
      BY <1>1, <2>3
    <3> QED BY <1>3, <2>1, <3>1 DEF StartsIn, n
  <2> QED BY <2>2, <2>3
<1>9. ASSUME NEW i \in 1 .. n PROVE LastIn(c, i)
  <2>1. SUFFICES ASSUME Kind(c[i]) = "last", NEW j \in i .. n + 1
                 PROVE  Kind(c[j]) = "last"
    BY <1>3 DEF LastIn
  <2>2. \A k \in i .. n : Kind(s[k]) = "last"
    BY <1>3, <1>5, <2>1 DEF LastIn, n
  <2>3. (j \in i .. n /\ j \in 1 .. n) \/ j = n + 1
    BY <1>1
  <2> QED BY <1>3, <2>2, <2>3, Kinds
<1>10. SizedIn(c, n + 1) /\ Kind(c[n + 1]) # "crlf" /\ LastIn(c, n + 1)
  <2>1. \A j \in n + 1 .. n + 1 : j = n + 1
    BY <1>1
  <2> QED BY <1>3, <2>1, Kinds DEF SizedIn, LastIn
<1>11. \A i \in 1 .. n + 1 : i \in 1 .. n \/ i = n + 1
  BY <1>1
<1> QED BY <1>3, <1>6, <1>7, <1>8, <1>9, <1>10, <1>11 DEF WellFramed
-----------------------------------------------------------------------------
(* What is known of what has come out: the deflated stream is ended where  *)
(* it should be, and the last chunk comes when all has been finished.      *)
Accounted ==
  /\ emitted # written => Zipped /\ ~ending
  /\ ending => Zipped
  /\ phase = "writing" => ~ending
  /\ phase = "ending" => (ending <=> Zipped)
  /\ phase = "done" => (ending <=> Zipped) /\ backlog = <<>>

Sums == Only(Out, Payload) = Octets(0, emitted) \o (IF ending THEN <<Trailer>> ELSE <<>>)

Chunks == Chunked => WellFramed(Out)

Unfinished == (Zipped /\ ~ending) \/ phase = "writing" => NoLast(Out)

Counted ==
  /\ Lasts(Out) <= ends
  /\ phase = "done" /\ Chunked => Lasts(Out) > 0

IInv ==
  TypeOK /\ Accounted /\ InOrder /\ Sums /\ Chunks /\ Unfinished /\ Counted

LEMMA OutType ==
  ASSUME TypeOK
  PROVE  Out \in Seq(Token)
BY ConcatProperties DEF TypeOK, Out

LEMMA LastsType ==
  ASSUME NEW s \in Seq(Token)
  PROVE  Lasts(s) \in Nat
BY OnlyType, LenProperties DEF Lasts

(* Without a last chunk there are none to count, and one more is one more. *)
LEMMA NoneOfThem ==
  ASSUME NEW s \in Seq(Token), NoLast(s)
  PROVE  Lasts(s) = 0
<1> DEFINE L == {LastChunk}
<1>1. \A i \in 1 .. Len(s) : s[i] \notin L
  BY DEF NoLast
<1> HIDE DEF L
<1>2. Only(s, L) = <<>>
  BY ONLY s \in Seq(Token), <1>1, OnlyNone
<1> QED BY <1>2 DEF Lasts, L

LEMMA OneMore ==
  ASSUME NEW s \in Seq(Token)
  PROVE  /\ Lasts(s \o <<LastChunk>>) = Lasts(s) + 1
         /\ Lasts(s \o <<>>) = Lasts(s)
<1> DEFINE L == {LastChunk}
           m == <<LastChunk>>
<1>1. m \in Seq(Token)
  BY Tokens
<1>2. Only(m, L) = m /\ Len(m) = 1
  BY OnlyOne
<1> HIDE DEF m, L
<1>3. PICK c : c = s \o m
  OBVIOUS
<1>4. \A S : Only(c, S) = Only(s, S) \o Only(m, S)
  BY ONLY s \in Seq(Token), <1>1, <1>3, OnlyCat
<1>5. Only(s, L) \in Seq(Token)
  BY OnlyType
<1>6. Len(Only(s, L) \o m) = Len(Only(s, L)) + Len(m)
  BY ONLY <1>1, <1>5, ConcatProperties
<1>7. Len(Only(c, L)) = Len(Only(s, L)) + 1
  BY ONLY <1>2, <1>4, <1>6
<1>8. s \o <<>> = s
  BY ConcatEmptySeq
<1> QED BY <1>3, <1>7, <1>8 DEF Lasts, L, m

(* What framed data does behind what has come out before.                  *)
LEMMA FramedIsMore ==
  ASSUME NEW s \in Seq(Token), NoLast(s), Chunked => WellFramed(s),
         NEW data \in Seq(Payload), data # <<>>, NEW c, c = s \o Frame(data)
  PROVE  /\ c \in Seq(Token) /\ NoLast(c) /\ (Chunked => WellFramed(c))
         /\ Only(c, OctetToken) = Only(s, OctetToken) \o Only(data, OctetToken)
         /\ Only(c, Payload) = Only(s, Payload) \o data
<1> DEFINE f == Frame(data)
<1>0. f \in Seq(Token)
  BY FrameIs
<1>1. /\ Only(f, OctetToken) = Only(data, OctetToken) /\ Only(f, Payload) = data
  BY FrameIs
<1>2. Chunked => f = Chunk(data)
  BY DEF Frame, Chunk
<1>3. ~Chunked => f = data
  BY DEF Frame
<1>4. c = s \o f
  OBVIOUS
<1> HIDE DEF f
<1>5. c \in Seq(Token)
  BY ONLY s \in Seq(Token), <1>0, <1>4, ConcatProperties
<1>6. \A S : Only(c, S) = Only(s, S) \o Only(f, S)
  BY ONLY s \in Seq(Token), <1>0, <1>4, OnlyCat
<1>7. CASE Chunked
  <2>1. WellFramed(c) /\ NoLast(c)
    BY <1>2, <1>4, <1>7, FramedMore
  <2> QED BY <1>1, <1>5, <1>6, <2>1
<1>8. CASE ~Chunked
  <2>1. \A j \in 1 .. Len(f) : f[j] # LastChunk
    <3>1. \A j \in 1 .. Len(data) : data[j] \in Payload
      BY ElementOfSeq
    <3> QED BY <1>3, <1>8, <3>1, Tokens
  <2>2. /\ Len(c) = Len(s) + Len(f) /\ Len(s) \in Nat /\ Len(f) \in Nat
        /\ \A i \in 1 .. Len(s) + Len(f) : c[i] = IF i <= Len(s) THEN s[i] ELSE f[i - Len(s)]
    BY ONLY s \in Seq(Token), <1>0, <1>4, ConcatProperties, LenProperties
  <2>3. ASSUME NEW i \in 1 .. Len(s) + Len(f) PROVE c[i] # LastChunk
    <3>1. CASE i <= Len(s)
      BY <2>2, <3>1 DEF NoLast
    <3>2. CASE ~(i <= Len(s))
      <4>1. i - Len(s) \in 1 .. Len(f)
        BY <2>2, <3>2
      <4> QED BY <2>1, <2>2, <3>2, <4>1
    <3> QED BY <3>1, <3>2
  <2> QED BY <1>1, <1>5, <1>6, <1>8, <2>2, <2>3 DEF NoLast
<1> QED BY <1>7, <1>8

(* What the mark of the end does. *)
LEMMA MarkedIs ==
  ASSUME NEW s \in Seq(Token), Chunked => WellFramed(s), NEW c, c = s \o EndMark
  PROVE  /\ c \in Seq(Token) /\ (Chunked => WellFramed(c))
         /\ Lasts(c) <= Lasts(s) + 1 /\ (Chunked => Lasts(c) > 0)
         /\ Only(c, OctetToken) = Only(s, OctetToken) /\ Only(c, Payload) = Only(s, Payload)
<1> DEFINE m == EndMark
<1>1. m \in Seq(Token) /\ Only(m, OctetToken) = <<>> /\ Only(m, Payload) = <<>> /\ c = s \o m
  BY EndMarkIs
<1>2. (Chunked => m = <<LastChunk>>) /\ (~Chunked => m = <<>>)
  BY DEF EndMark
<1> HIDE DEF m
<1>3. c \in Seq(Token)
  BY ONLY s \in Seq(Token), <1>1, ConcatProperties
<1>4. Only(c, OctetToken) = Only(s, OctetToken) /\ Only(c, Payload) = Only(s, Payload)
  <2>1. \A S : Only(c, S) = Only(s, S) \o Only(m, S)
    BY ONLY s \in Seq(Token), <1>1, OnlyCat
  <2>2. \A S : Only(s, S) \in Seq(Token)
    BY OnlyType
  <2> QED BY <1>1, <2>1, <2>2, ConcatEmptySeq
<1>5. Chunked => WellFramed(c)
  BY <1>1, <1>2, FramedLast
<1>6. /\ Lasts(s) \in Nat /\ (Chunked => Lasts(c) = Lasts(s) + 1)
      /\ ~Chunked => Lasts(c) = Lasts(s)
  BY <1>1, <1>2, LastsType, OneMore
<1>7. Lasts(c) <= Lasts(s) + 1 /\ (Chunked => Lasts(c) > 0)
  BY ONLY <1>6
<1> QED BY <1>3, <1>4, <1>5, <1>7
-----------------------------------------------------------------------------
(* write(fd, data), as far as what comes out goes. *)
LEMMA WriteIs ==
  ASSUME IInv, Write
  PROVE  /\ wire' \in Seq(Token) /\ backlog' \in Seq(Token) /\ result' \in BOOLEAN
         /\ written' \in Nat /\ emitted' \in 0 .. written'
         /\ emitted' # written' => Zipped
         /\ result' /\ backlog' # <<>> =>
              Zipped /\ written' > written /\ UNCHANGED <<emitted, backlog, wire>>
         /\ NoLast(Out') /\ (Chunked => WellFramed(Out'))
         /\ Only(Out', OctetToken) = Octets(0, emitted')
         /\ Only(Out', Payload) = Octets(0, emitted')
<1> DEFINE data == Octets(emitted, emitted')
           before == Octets(0, emitted)
           new == Frame(data)
<1>1. /\ phase = "writing" /\ ~ending /\ written \in Nat /\ emitted \in Nat /\ emitted <= written
      /\ Out \in Seq(Token)
  BY OutType DEF IInv, TypeOK, Accounted, Write
<1>2. PICK n \in 1 .. MaxBlob : written' = written + n
  BY DEF Write
<1>3. written' \in Nat /\ written < written'
  BY <1>1, <1>2, FiltersAssumption
<1>4. /\ emitted' \in Nat /\ emitted <= emitted' /\ emitted' <= written'
      /\ ~Zipped => emitted' = written'
  BY <1>1, <1>3 DEF Write, Emits
<1>5. NoLast(Out) /\ (Chunked => WellFramed(Out))
  BY <1>1 DEF IInv, Unfinished, Chunks
<1>6. before \in Seq(OctetToken)
  BY <1>1, OctetsType
<1>7. Only(Out, OctetToken) = before /\ Only(Out, Payload) = before
  <2>1. before \o <<>> = before
    BY <1>6, ConcatEmptySeq
  <2>2. Only(Out, Payload) = before \o <<>>
    BY <1>1 DEF IInv, Sums
  <2> QED BY <2>1, <2>2 DEF IInv, InOrder
<1>8. CASE emitted' = emitted
  <2>1. backlog' = backlog /\ wire' = wire /\ result' = TRUE
    BY <1>8 DEF Write
  <2>2. Out' = Out
    BY <2>1 DEF Out
  <2>3. written' > written /\ Zipped
    BY <1>1, <1>3, <1>4, <1>8
  <2>4. wire \in Seq(Token) /\ backlog \in Seq(Token)
    BY DEF IInv, TypeOK
  <2> QED BY <1>3, <1>4, <1>5, <1>7, <1>8, <2>1, <2>2, <2>3, <2>4
<1>9. CASE emitted' # emitted
  <2>1. Put(<<>>, backlog \o new)
    BY <1>9 DEF Write
  <2>2. data \in Seq(OctetToken) /\ Len(data) = emitted' - emitted
    BY <1>1, <1>4, OctetsType
  <2>3. before \o data = Octets(0, emitted')
    <3>1. 0 \in Nat /\ 0 <= emitted
      BY <1>1
    <3> QED BY <1>1, <1>4, <3>1, OctetsAdd
  <2> HIDE DEF data
  <2>4. data \in Seq(Payload) /\ data # <<>>
    BY <1>1, <1>4, <1>9, <2>2, Tokens, SeqMonotonic, EmptySeq
  <2>5. Only(data, OctetToken) = data
    <3>1. \A i \in 1 .. Len(data) : data[i] \in OctetToken
      BY <2>2, ElementOfSeq
    <3> QED BY <2>2, <3>1, OnlyAll
  <2>6. new \in Seq(Token)
    BY <2>4, FrameIs
  <2>7. /\ wire' \in Seq(Token) /\ backlog' \in Seq(Token) /\ Out' = Out \o new
        /\ result' \in BOOLEAN /\ (result' <=> backlog' = <<>>)
    BY <2>1, <2>6, PutMore DEF IInv
  <2>8. /\ NoLast(Out') /\ (Chunked => WellFramed(Out'))
        /\ Only(Out', OctetToken) = Only(Out, OctetToken) \o Only(data, OctetToken)
        /\ Only(Out', Payload) = Only(Out, Payload) \o data
    <3>1. PICK s \in Seq(Token) : s = Out
      BY <1>1
    <3>2. PICK e \in Seq(Payload) : e = data /\ e # <<>>
      BY <2>4
    <3>3. PICK c : c = Out' /\ c = s \o Frame(e)
      BY <2>7, <3>1, <3>2
    <3>4. NoLast(s) /\ (Chunked => WellFramed(s))
      BY <1>5, <3>1
    <3>5. e # <<>> /\ c = s \o Frame(e)
      BY <3>2, <3>3
    <3>6. /\ c \in Seq(Token) /\ NoLast(c) /\ (Chunked => WellFramed(c))
          /\ Only(c, OctetToken) = Only(s, OctetToken) \o Only(e, OctetToken)
          /\ Only(c, Payload) = Only(s, Payload) \o e
      BY ONLY s \in Seq(Token), e \in Seq(Payload), <3>4, <3>5, FramedIsMore, ZenonT(30)
    <3> QED BY <3>1, <3>2, <3>3, <3>6
  <2>9. Only(Out', OctetToken) = Octets(0, emitted') /\ Only(Out', Payload) = Octets(0, emitted')
    BY <1>7, <2>3, <2>5, <2>8
  <2> QED BY <1>3, <1>4, <2>7, <2>8, <2>9
<1> QED BY <1>8, <1>9

(* write(fd) moves some of the backlog. *)
LEMMA FlushIs ==
  ASSUME IInv, Flush
  PROVE  /\ wire' \in Seq(Token) /\ backlog' \in Seq(Token) /\ result' \in BOOLEAN
         /\ Out' = Out /\ (result' <=> backlog' = <<>>)
<1>1. backlog \o <<>> = backlog /\ <<>> \in Seq(Token) /\ Out \o <<>> = Out
  BY OutType, ConcatEmptySeq, EmptySeq DEF IInv, TypeOK
<1>2. Put(<<>>, backlog \o <<>>)
  BY <1>1 DEF Flush
<1>3. ASSUME NEW new \in Seq(Token), new = <<>>
      PROVE  /\ wire' \in Seq(Token) /\ backlog' \in Seq(Token) /\ Out' = Out \o new
             /\ result' \in BOOLEAN /\ (result' <=> backlog' = <<>>)
  BY <1>2, <1>3, PutMore DEF IInv
<1> QED BY <1>1, <1>3

(* end(fd): all of the response comes out, and the mark of its end.        *)
LEMMA EndIs ==
  ASSUME IInv, End
  PROVE  /\ wire' \in Seq(Token) /\ backlog' \in Seq(Token) /\ result' \in BOOLEAN
         /\ result' => backlog' = <<>>
         /\ Lasts(Out') <= ends + 1 /\ (result' /\ Chunked => Lasts(Out') > 0)
         /\ Chunked => WellFramed(Out')
         /\ Only(Out', OctetToken) = Octets(0, written)
         /\ Only(Out', Payload) = Octets(0, written) \o (IF Zipped THEN <<Trailer>> ELSE <<>>)
<1> DEFINE new == Frame(Rest)
           mark == EndMark
<1>1. /\ TypeOK /\ Out \in Seq(Token) /\ written \in Nat /\ emitted \in Nat /\ emitted <= written
      /\ (Chunked => WellFramed(Out)) /\ mark \in Seq(Token)
      /\ ends \in Nat /\ Lasts(Out) \in Nat /\ Lasts(Out) <= ends
  BY OutType, EndMarkIs, LastsType DEF IInv, TypeOK, Chunks, Counted
<1>2. CASE Zipped /\ ~ending
  <2> DEFINE o == Octets(emitted, written)
             before == Octets(0, emitted)
             c == Out \o new
  <2>1. /\ Rest \in Seq(Payload) /\ Rest # <<>> /\ Rest = o \o <<Trailer>>
        /\ Only(Rest, OctetToken) = o
    BY <1>1, RestIs
  <2>2. new \in Seq(Token)
    BY <2>1, FrameIs
  <2>3. NoLast(Out)
    BY <1>2 DEF IInv, Unfinished
  <2>4. /\ c \in Seq(Token) /\ (Chunked => WellFramed(c)) /\ Lasts(c) = 0
        /\ Only(c, OctetToken) = Only(Out, OctetToken) \o Only(Rest, OctetToken)
        /\ Only(c, Payload) = Only(Out, Payload) \o Rest
    <3>1. PICK s \in Seq(Token) : s = Out /\ c = s \o Frame(Rest)
      BY <1>1
    <3>2. NoLast(s) /\ (Chunked => WellFramed(s))
      BY <1>1, <2>3, <3>1
    <3>3. PICK data \in Seq(Payload) : data = Rest /\ data # <<>> /\ c = s \o Frame(data)
      BY <2>1, <3>1
    <3>4. PICK d : d = c /\ d = s \o Frame(data)
      BY <3>3
    <3>5. /\ d \in Seq(Token) /\ NoLast(d) /\ (Chunked => WellFramed(d))
          /\ Only(d, OctetToken) = Only(s, OctetToken) \o Only(data, OctetToken)
          /\ Only(d, Payload) = Only(s, Payload) \o data
      BY ONLY <3>2, <3>3, <3>4, s \in Seq(Token), data \in Seq(Payload), FramedIsMore
    <3>6. Lasts(d) = 0
      BY ONLY <3>5, NoneOfThem
    <3> QED BY <3>1, <3>3, <3>4, <3>5, <3>6
  <2>5. before \in Seq(OctetToken) /\ o \in Seq(OctetToken) /\ before \o o = Octets(0, written)
    <3>1. 0 \in Nat /\ 0 <= emitted
      BY <1>1
    <3>2. before \o o = Octets(0, written)
      BY <1>1, <3>1, OctetsAdd
    <3> QED BY <1>1, <3>1, <3>2, OctetsType
  <2>6. Only(Out, OctetToken) = before /\ Only(Out, Payload) = before
    <3>1. before \o <<>> = before
      BY <2>5, ConcatEmptySeq
    <3>2. Only(Out, Payload) = before \o <<>>
      BY <1>2 DEF IInv, Sums
    <3> QED BY <3>1, <3>2 DEF IInv, InOrder
  <2> HIDE DEF o, before
  <2>7. before \o (o \o <<Trailer>>) = (before \o o) \o <<Trailer>>
    <3>1. before \in Seq(Token) /\ o \in Seq(Token) /\ <<Trailer>> \in Seq(Token)
      BY <2>5, Tokens, SeqMonotonic
    <3> DEFINE t == <<Trailer>>
    <3> HIDE DEF t
    <3>2. t \in Seq(Token)
      BY <3>1 DEF t
    <3>3. before \o (o \o t) = (before \o o) \o t
      BY ONLY <3>1, <3>2
    <3> QED BY <3>3 DEF t
  <2>8. /\ Only(c, OctetToken) = Octets(0, written)
        /\ Only(c, Payload) = Octets(0, written) \o <<Trailer>>
    BY <2>1, <2>4, <2>5, <2>6, <2>7
  <2>9. CASE Put(<<>>, backlog \o new) /\ ~result'
    <3>1. /\ wire' \in Seq(Token) /\ backlog' \in Seq(Token) /\ Out' = c
          /\ result' \in BOOLEAN /\ (result' <=> backlog' = <<>>)
      BY <1>1, <2>2, <2>9, PutMore
    <3>2. Lasts(Out') <= ends + 1
      BY <1>1, <2>4, <3>1
    <3> QED BY <1>2, <2>4, <2>8, <2>9, <3>1, <3>2
  <2>10. CASE Put(backlog \o new, mark)
    <3>1. /\ wire' \in Seq(Token) /\ backlog' \in Seq(Token) /\ Out' = c \o mark
          /\ result' \in BOOLEAN /\ (result' <=> backlog' = <<>>)
      BY <1>1, <2>2, <2>10, PutBoth
    <3> HIDE DEF c
    <3>2. /\ Out' \in Seq(Token) /\ (Chunked => WellFramed(Out'))
          /\ Lasts(Out') <= Lasts(c) + 1 /\ (Chunked => Lasts(Out') > 0)
          /\ Only(Out', OctetToken) = Only(c, OctetToken) /\ Only(Out', Payload) = Only(c, Payload)
      BY <2>4, <3>1, MarkedIs
    <3>3. Lasts(Out') <= ends + 1
      <4>1. Lasts(Out') \in Nat /\ Lasts(Out') <= 0 + 1
        BY <2>4, <3>2, LastsType
      <4> QED BY ONLY <1>1, <4>1
    <3> QED BY <1>2, <2>8, <3>1, <3>2, <3>3
  <2> QED BY <1>2, <2>9, <2>10 DEF End
<1>3. CASE ~Zipped \/ ending
  <2>1. Put(<<>>, backlog \o mark)
    BY <1>3 DEF End
  <2>2. /\ wire' \in Seq(Token) /\ backlog' \in Seq(Token) /\ Out' = Out \o mark
        /\ result' \in BOOLEAN /\ (result' <=> backlog' = <<>>)
    BY <1>1, <2>1, PutMore
  <2>3. /\ Out' \in Seq(Token) /\ (Chunked => WellFramed(Out'))
        /\ Lasts(Out') <= Lasts(Out) + 1 /\ (Chunked => Lasts(Out') > 0)
        /\ Only(Out', OctetToken) = Only(Out, OctetToken) /\ Only(Out', Payload) = Only(Out, Payload)
    BY <1>1, <2>2, MarkedIs
  <2>4. emitted = written /\ (ending <=> Zipped)
    BY <1>3 DEF IInv, Accounted
  <2>5. Only(Out, OctetToken) = Octets(0, written)
    BY <2>4 DEF IInv, InOrder
  <2>6. Only(Out, Payload) = Octets(0, written) \o (IF Zipped THEN <<Trailer>> ELSE <<>>)
    BY <2>4 DEF IInv, Sums
  <2>7. Lasts(Out') <= ends + 1
    <3>1. Lasts(Out') \in Nat
      BY <2>3, LastsType
    <3> QED BY ONLY <1>1, <2>3, <3>1
  <2> QED BY <2>2, <2>3, <2>5, <2>6, <2>7
<1> QED BY <1>2, <1>3
-----------------------------------------------------------------------------
LEMMA Start ==
  ASSUME Init
  PROVE  IInv
<1>1. /\ wire = <<>> /\ backlog = <<>> /\ emitted = 0 /\ written = 0 /\ ~ending
      /\ phase = "writing" /\ ends = 0
  BY DEF Init
<1>2. <<>> \in Seq(Token) /\ Len(<<>>) = 0
  BY EmptySeq
<1>3. Out = <<>>
  BY <1>1, <1>2, ConcatEmptySeq DEF Out
<1>4. TypeOK
  <2>1. chain \in {"P", "C", "Z", "CZ"} /\ result \in BOOLEAN /\ ending \in BOOLEAN
    BY FiltersAssumption DEF Init
  <2>2. 0 \in 0 .. 0 /\ 0 \in Nat
    OBVIOUS
  <2> QED BY <1>1, <1>2, <2>1, <2>2 DEF TypeOK
<1>5. Octets(0, 0) = <<>> /\ <<>> \o <<>> = <<>>
  BY <1>2, NoOctets, ConcatEmptySeq
<1>6. InOrder /\ Sums
  BY <1>1, <1>3, <1>5, OnlyNil DEF InOrder, Sums
<1>7. Chunks /\ Unfinished
  BY <1>2, <1>3 DEF Chunks, Unfinished, WellFramed, NoLast, StartsIn
<1>8. Accounted
  BY <1>1 DEF Accounted
<1>9. Counted
  <2>1. Lasts(Out) = 0
    BY <1>2, <1>3, OnlyNil DEF Lasts
  <2> QED BY <1>1, <2>1 DEF Counted
<1> QED BY <1>4, <1>6, <1>7, <1>8, <1>9 DEF IInv

LEMMA SameChain ==
  ASSUME chain' = chain
  PROVE  /\ Zipped' <=> Zipped
         /\ Chunked' <=> Chunked
         /\ Octets(0, emitted)' = Octets(0, emitted')
BY DEF Zipped, Chunked, Octets

LEMMA StepKeeps ==
  ASSUME IInv, [Next]_vars
  PROVE  IInv'
<1>1. CASE Write
  <2>1. /\ chain' = chain /\ ending' = ending /\ phase' = phase /\ phase = "writing" /\ ~ending
        /\ ends' = ends /\ ends \in Nat
        /\ chain \in {"P", "C", "Z", "CZ"} /\ ending \in BOOLEAN
    BY <1>1 DEF Write, IInv, Accounted, TypeOK
  <2>2. /\ wire' \in Seq(Token) /\ backlog' \in Seq(Token) /\ result' \in BOOLEAN
        /\ written' \in Nat /\ emitted' \in 0 .. written'
        /\ emitted' # written' => Zipped
        /\ NoLast(Out') /\ (Chunked => WellFramed(Out'))
        /\ Only(Out', OctetToken) = Octets(0, emitted')
        /\ Only(Out', Payload) = Octets(0, emitted')
    BY <1>1, WriteIs
  <2>3. TypeOK'
    BY <2>1, <2>2 DEF TypeOK
  <2>4. Accounted'
    BY <2>1, <2>2, SameChain DEF Accounted
  <2>5. Counted'
    <3>1. Out' \in Seq(Token) /\ NoLast(Out')
      BY <2>2, ConcatProperties DEF Out
    <3>2. Lasts(Out') = 0
      BY <3>1, NoneOfThem
    <3> QED BY <2>1, <3>2 DEF Counted
  <2>6. InOrder' /\ Chunks' /\ Unfinished'
    BY <2>1, <2>2, SameChain DEF InOrder, Chunks, Unfinished
  <2>7. Sums'
    <3>1. Octets(0, emitted') \in Seq(OctetToken)
      <4>1. emitted' \in Nat /\ 0 <= emitted' /\ 0 \in Nat
        BY <2>2
      <4> QED BY <4>1, OctetsType
    <3>2. Octets(0, emitted') \o <<>> = Octets(0, emitted')
      BY <3>1, ConcatEmptySeq
    <3> QED BY <2>1, <2>2, <3>2, SameChain DEF Sums
  <2> QED BY <2>3, <2>4, <2>5, <2>6, <2>7 DEF IInv
<1>2. CASE Flush
  <2>1. /\ chain' = chain /\ ending' = ending /\ phase' = phase /\ phase = "writing"
        /\ written' = written /\ emitted' = emitted /\ ends' = ends
    BY <1>2 DEF Flush
  <2>2. /\ wire' \in Seq(Token) /\ backlog' \in Seq(Token) /\ result' \in BOOLEAN
        /\ Out' = Out /\ (result' <=> backlog' = <<>>)
    BY <1>2, FlushIs
  <2>3. TypeOK'
    BY <2>1, <2>2 DEF IInv, TypeOK
  <2>4. Accounted' /\ Counted'
    BY <2>1, <2>2, SameChain DEF IInv, Accounted, Counted
  <2>5. InOrder' /\ Sums' /\ Chunks' /\ Unfinished'
    BY <2>1, <2>2, SameChain DEF IInv, InOrder, Sums, Chunks, Unfinished
  <2> QED BY <2>3, <2>4, <2>5 DEF IInv
<1>3. CASE End
  <2>1. /\ chain' = chain /\ ending' \in BOOLEAN /\ (ending' <=> Zipped)
        /\ emitted' = written /\ written' = written /\ ends' = ends + 1
        /\ phase' = IF result' THEN "done" ELSE "ending"
    <3>1. ending' = Zipped
      BY <1>3 DEF End
    <3>2. Zipped \in BOOLEAN
      BY DEF Zipped
    <3>3. ending' \in BOOLEAN /\ (ending' <=> Zipped)
      BY ONLY <3>1, <3>2
    <3>4. /\ chain' = chain /\ emitted' = written /\ written' = written /\ ends' = ends + 1
          /\ phase' = IF result' THEN "done" ELSE "ending"
      BY <1>3 DEF End, Done
    <3> QED BY <3>3, <3>4
  <2>2. /\ wire' \in Seq(Token) /\ backlog' \in Seq(Token) /\ result' \in BOOLEAN
        /\ result' => backlog' = <<>>
        /\ Lasts(Out') <= ends + 1 /\ (result' /\ Chunked => Lasts(Out') > 0)
        /\ Chunked => WellFramed(Out')
        /\ Only(Out', OctetToken) = Octets(0, written)
        /\ Only(Out', Payload) = Octets(0, written) \o (IF Zipped THEN <<Trailer>> ELSE <<>>)
    BY <1>3, EndIs
  <2>3. TypeOK'
    BY <2>1, <2>2 DEF IInv, TypeOK, Zipped
  <2>4. Accounted' /\ Counted'
    BY <2>1, <2>2, SameChain DEF Accounted, Counted
  <2>5. InOrder' /\ Sums' /\ Chunks' /\ Unfinished'
    BY <2>1, <2>2, SameChain DEF InOrder, Sums, Chunks, Unfinished
  <2> QED BY <2>3, <2>4, <2>5 DEF IInv
<1>4. CASE Fail
  <2>1. /\ phase' = "lost" /\ phase \in {"writing", "ending"}
        /\ UNCHANGED <<chain, backlog, wire, ending, written, emitted, result, ends>>
    BY <1>4 DEF Fail
  <2>2. Out' = Out
    BY <2>1 DEF Out
  <2>3. TypeOK'
    BY <2>1 DEF IInv, TypeOK
  <2>4. Accounted' /\ Counted'
    BY <2>1, <2>2, SameChain DEF IInv, Accounted, Counted
  <2>5. InOrder' /\ Sums' /\ Chunks' /\ Unfinished'
    BY <2>1, <2>2, SameChain DEF IInv, InOrder, Sums, Chunks, Unfinished
  <2> QED BY <2>3, <2>4, <2>5 DEF IInv
<1>5. CASE UNCHANGED vars
  BY <1>5 DEF vars, IInv, TypeOK, Accounted, InOrder, Sums, Chunks, Unfinished, Counted,
              Out, Zipped, Chunked, Octets
<1> QED BY <1>1, <1>2, <1>3, <1>4, <1>5 DEF Next

THEOREM Inductive == Spec => []IInv
<1>1. Init => IInv
  BY Start
<1>2. IInv /\ [Next]_vars => IInv'
  BY StepKeeps
<1> QED BY <1>1, <1>2, PTL DEF Spec

(* Filters!InOrder, for any chain: the octets come out each once and in    *)
(* order, through short writes and a deflater which keeps data back.       *)
THEOREM OctetsInOrder == Spec => []InOrder
<1>1. IInv => InOrder
  BY DEF IInv
<1> QED BY <1>1, Inductive, PTL

(* Filters!Framed: every octet of a chunked response is in a chunk of the  *)
(* size it says, and behind a last chunk there are only more of those, not *)
(* more in all than end() was called.                                      *)
THEOREM WellChunked == Spec => []Framed
<1>1. IInv => Framed
  BY FramedIs DEF IInv, TypeOK, Chunks, Counted
<1> QED BY <1>1, Inductive, PTL

(* Filters!EndedRight: when end() returns true all of the response is on   *)
(* the wire, the deflated stream's end is marked once, and the chunked     *)
(* response's at least once and at most once for each call of end().       *)
THEOREM WholeAtEnd == Spec => []EndedRight
<1>1. IInv => EndedRight
  <2>1. SUFFICES ASSUME IInv, phase = "done"
                 PROVE  /\ backlog = <<>> /\ emitted = written
                        /\ Chunked => Lasts(wire) \in 1 .. ends
                        /\ Only(wire, Payload) =
                             Octets(0, written) \o (IF Zipped THEN <<Trailer>> ELSE <<>>)
    BY DEF EndedRight
  <2>2. /\ backlog = <<>> /\ emitted = written /\ (ending <=> Zipped)
        /\ wire \in Seq(Token) /\ ends \in Nat
    BY <2>1 DEF IInv, Accounted, TypeOK
  <2>3. Out = wire
    BY <2>2, ConcatEmptySeq DEF Out
  <2>4. Chunked => Lasts(wire) \in 1 .. ends
    <3>1. Lasts(wire) \in Nat
      BY <2>2, LastsType
    <3>2. Lasts(wire) <= ends /\ (Chunked => Lasts(wire) > 0)
      BY <2>1, <2>3 DEF IInv, Counted
    <3> QED BY ONLY <2>2, <3>1, <3>2
  <2>5. Only(wire, Payload) = Octets(0, written) \o (IF Zipped THEN <<Trailer>> ELSE <<>>)
    BY <2>1, <2>2, <2>3 DEF IInv, Sums
  <2> QED BY <2>2, <2>4, <2>5
<1> QED BY <1>1, Inductive, PTL

(* A call returns true and leaves a backlog only if the deflater kept all. *)
Honest ==
  result' /\ backlog' # <<>> /\ phase' # "lost" =>
    Zipped /\ written' > written /\ UNCHANGED <<emitted, backlog, wire>>

LEMMA StepIsHonest ==
  ASSUME IInv, Next
  PROVE  Honest
<1>1. CASE Write
  BY <1>1, WriteIs DEF Honest
<1>2. CASE Flush
  BY <1>2, FlushIs DEF Honest
<1>3. CASE End
  BY <1>3, EndIs DEF Honest
<1>4. CASE Fail
  BY <1>4 DEF Fail, Honest
<1> QED BY <1>1, <1>2, <1>3, <1>4 DEF Next

(* Filters!TrueUnlessKept: a call which returns true leaves an empty       *)
(* backlog, unless the deflater kept all it was given by that call.        *)
THEOREM TrueMeansEmpty == Spec => TrueUnlessKept
<1>1. IInv /\ [Next]_vars => [Honest]_vars
  BY StepIsHonest
<1>2. TrueUnlessKept <=> [][Honest]_vars
  BY DEF TrueUnlessKept, Honest
<1> QED BY <1>1, <1>2, Inductive, PTL DEF Spec
=============================================================================
