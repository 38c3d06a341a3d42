---------------------------- MODULE SequenceProofs ----------------------------
(***************************************************************************)
(* What the operators on sequences compute that the library has no         *)
(* theorems about, and induction on numbers and sequences, stated for sets *)
(* rather than predicates.                                                 *)
(***************************************************************************)
EXTENDS Subsequence, SequencesExt, TLAPS, SequenceTheorems, WellFoundedInduction

(* A set of natural numbers which is not empty has a least element. *)
LEMMA LeastNat ==
  ASSUME NEW S \in SUBSET Nat, S # {}
  PROVE  \E i \in S : \A j \in S : i <= j
<1> DEFINE Less == {p \in Nat \X Nat : p[1] < p[2]}
<1>1. IsWellFoundedOn(Less, Nat)
  BY NatLessThanWellFounded DEF OpToRel
<1>2. PICK i \in S : \A j \in S : <<j, i>> \notin Less
  <2> HIDE DEF Less
  <2> QED BY <1>1, WFMin
<1>3. ASSUME NEW j \in S PROVE i <= j
  <2>1. i \in Nat /\ j \in Nat
    OBVIOUS
  <2>2. ~ (j < i)
    BY <1>2, <2>1
  <2> QED BY <2>1, <2>2
<1> QED BY <1>3

(* A set of natural numbers which has 0 and, with each of its elements,    *)
(* the next, has them all.                                                 *)
LEMMA AllNat ==
  ASSUME NEW S \in SUBSET Nat, 0 \in S, \A n \in S : n + 1 \in S
  PROVE  \A n \in Nat : n \in S
<1>1. SUFFICES ASSUME Nat \ S # {} PROVE FALSE
  OBVIOUS
<1>2. PICK i \in Nat \ S : \A j \in Nat \ S : i <= j
  BY <1>1, LeastNat
<1>3. i # 0 /\ i - 1 \in Nat
  BY <1>2
<1>4. i - 1 \in S
  BY <1>2, <1>3
<1>5. (i - 1) + 1 \in S
  BY <1>4
<1> QED BY <1>2, <1>3, <1>5

(* The same for sequences: a set which has the empty one, and with each    *)
(* all that are longer by one.                                             *)
LEMMA AllSeq ==
  ASSUME NEW A, NEW P \in SUBSET Seq(A), <<>> \in P,
         \A s \in P : \A x \in A : Append(s, x) \in P
  PROVE  \A s \in Seq(A) : s \in P
<1> DEFINE S == {n \in Nat : \A s \in Seq(A) : Len(s) = n => s \in P}
<1>1. 0 \in S
  <2>1. \A s \in Seq(A) : Len(s) = 0 => s = <<>>
    BY EmptySeq
  <2> QED BY <2>1
<1>2. ASSUME NEW n \in S PROVE n + 1 \in S
  <2>1. ASSUME NEW s \in Seq(A), Len(s) = n + 1 PROVE s \in P
    <3>1. s # <<>>
      BY <2>1, EmptySeq
    <3>2. PICK t \in Seq(A), x \in A : s = Append(t, x)
      BY <3>1, SequenceEmptyOrAppend
    <3>3. Len(t) = n
      BY <2>1, <3>2, AppendProperties, LenProperties
    <3> QED BY <3>2, <3>3
  <2> QED BY <2>1
<1>3. \A n \in Nat : n \in S
  <2>1. S \in SUBSET Nat
    OBVIOUS
  <2> HIDE DEF S
  <2> QED BY <1>1, <1>2, <2>1, AllNat
<1> QED BY <1>3, LenProperties
-----------------------------------------------------------------------------
(* Two sequences, one behind the other. *)
LEMMA CatIs ==
  ASSUME NEW A, NEW s \in Seq(A), NEW t \in Seq(A), NEW m, NEW n, Len(s) = m, Len(t) = n
  PROVE  /\ s \o t \in Seq(A) /\ Len(s \o t) = m + n
         /\ \A i \in 1 .. m : (s \o t)[i] = s[i]
         /\ \A j \in 1 .. n : (s \o t)[m + j] = t[j]
<1>1. m \in Nat /\ n \in Nat
  BY LenProperties
<1>2. /\ s \o t \in Seq(A) /\ Len(s \o t) = m + n
      /\ \A i \in 1 .. m + n : (s \o t)[i] = IF i <= m THEN s[i] ELSE t[i - m]
  BY ConcatProperties
<1>3. \A i \in 1 .. m : i \in 1 .. m + n /\ i <= m
  BY <1>1
<1>4. \A j \in 1 .. n : m + j \in 1 .. m + n /\ ~(m + j <= m) /\ (m + j) - m = j
  BY <1>1
<1> QED BY <1>2, <1>3, <1>4

(* s \o t, as a name which is not expanded: the provers know much about \o *)
(* which does not help here.                                               *)
Cat(s, t) == s \o t

LEMMA CatAssociates ==
  ASSUME NEW A
  PROVE  \A s, t, u \in Seq(A) : Cat(Cat(s, t), u) = Cat(s, Cat(t, u))
BY ConcatAssociative DEF Cat

LEMMA CatSnoc ==
  ASSUME NEW A, NEW s \in Seq(A), NEW t \in Seq(A), NEW x \in A
  PROVE  s \o Append(t, x) = Append(s \o t, x)
<1>1. s \o t \in Seq(A) /\ <<x>> \in Seq(A)
  BY ConcatProperties, AppendProperties, EmptySeq
<1>2. Append(t, x) = t \o <<x>> /\ Append(s \o t, x) = (s \o t) \o <<x>>
  BY <1>1, AppendIsConcat
<1> QED BY <1>1, <1>2, ConcatAssociative
-----------------------------------------------------------------------------
(* f is the function that Only(s, S) is defined by. *)
Picks(s, S, f) ==
  f = [i \in 0 .. Len(s) |->
         IF i = 0 THEN <<>>
         ELSE IF s[i] \in S THEN Append(f[i - 1], s[i]) ELSE f[i - 1]]

LEMMA PicksValue ==
  ASSUME NEW A, NEW s \in Seq(A), NEW S, NEW f, Picks(s, S, f)
  PROVE  /\ f[0] = <<>>
         /\ \A i \in 1 .. Len(s) : f[i] = IF s[i] \in S THEN Append(f[i - 1], s[i]) ELSE f[i - 1]
<1>1. Len(s) \in Nat /\ 0 \in 0 .. Len(s) /\ \A i \in 1 .. Len(s) : i \in 0 .. Len(s) /\ i # 0
  BY LenProperties
<1>2. \A i \in 0 .. Len(s) :
        f[i] = IF i = 0 THEN <<>> ELSE IF s[i] \in S THEN Append(f[i - 1], s[i]) ELSE f[i - 1]
  BY DEF Picks
<1> QED BY <1>1, <1>2

LEMMA PicksExtend ==
  ASSUME NEW A, NEW s \in Seq(A), NEW x \in A, NEW S, NEW f, Picks(s, S, f)
  PROVE  \E g : Picks(Append(s, x), S, g)
<1> DEFINE n == Len(s)
           c == Append(s, x)
           y == IF x \in S THEN Append(f[n], x) ELSE f[n]
           g == [i \in 0 .. n + 1 |-> IF i <= n THEN f[i] ELSE y]
<1>1. c \in Seq(A) /\ n \in Nat /\ Len(c) = n + 1 /\ c[n + 1] = x /\ \A i \in 1 .. n : c[i] = s[i]
  BY AppendProperties
<1>2. f[0] = <<>> /\ \A i \in 1 .. n : f[i] = IF s[i] \in S THEN Append(f[i - 1], s[i]) ELSE f[i - 1]
  BY PicksValue
<1> HIDE DEF c
<1>3. ASSUME NEW i \in 0 .. n + 1
      PROVE  g[i] = IF i = 0 THEN <<>>
                    ELSE IF c[i] \in S THEN Append(g[i - 1], c[i]) ELSE g[i - 1]
  <2>1. CASE i = 0
    BY <1>1, <1>2, <2>1
  <2>2. CASE i \in 1 .. n
    <3>1. g[i] = f[i] /\ g[i - 1] = f[i - 1] /\ c[i] = s[i] /\ i # 0
      BY <1>1, <2>2
    <3> QED BY <1>2, <2>2, <3>1
  <2>3. CASE i = n + 1
    <3>1. g[i] = y /\ g[i - 1] = f[n] /\ c[i] = x /\ i # 0
      BY <1>1, <2>3
    <3> QED BY <3>1
  <2> QED BY <1>1, <2>1, <2>2, <2>3
<1>4. g = [i \in 0 .. Len(c) |->
             IF i = 0 THEN <<>> ELSE IF c[i] \in S THEN Append(g[i - 1], c[i]) ELSE g[i - 1]]
  BY <1>1, <1>3
<1> HIDE DEF g
<1>5. Picks(c, S, g)
  BY <1>4 DEF Picks
<1> QED BY <1>5 DEF c

LEMMA PicksExist ==
  ASSUME NEW A, NEW S
  PROVE  \A s \in Seq(A) : \E f : Picks(s, S, f)
<1> DEFINE P == {s \in Seq(A) : \E f : Picks(s, S, f)}
<1>1. <<>> \in P
  <2>1. Len(<<>>) = 0 /\ <<>> \in Seq(A)
    BY EmptySeq
  <2> DEFINE f == [i \in 0 .. 0 |-> <<>>]
  <2>2. f = [i \in 0 .. 0 |->
               IF i = 0 THEN <<>>
               ELSE IF <<>>[i] \in S THEN Append(f[i - 1], <<>>[i]) ELSE f[i - 1]]
    BY \A i \in 0 .. 0 : i = 0
  <2> HIDE DEF f
  <2>3. Picks(<<>>, S, f)
    BY <2>1, <2>2 DEF Picks
  <2> QED BY <2>1, <2>3
<1>2. \A s \in P : \A x \in A : Append(s, x) \in P
  BY PicksExtend, AppendProperties
<1>3. P \in SUBSET Seq(A)
  OBVIOUS
<1> HIDE DEF P
<1>4. \A s \in Seq(A) : s \in P
  BY <1>1, <1>2, <1>3, AllSeq
<1> QED BY <1>4 DEF P

LEMMA OnlyIs ==
  ASSUME NEW A, NEW s \in Seq(A), NEW S
  PROVE  \E f : Picks(s, S, f) /\ Only(s, S) = f[Len(s)]
<1> DEFINE only == CHOOSE f : Picks(s, S, f)
<1>1. Picks(s, S, only)
  BY PicksExist
<1>2. Only(s, S) = only[Len(s)]
  BY DEF Only, Picks
<1> QED BY <1>1, <1>2

(* Nothing comes of nothing. *)
LEMMA OnlyNil ==
  ASSUME NEW S
  PROVE  Only(<<>>, S) = <<>>
<1>1. ASSUME NEW s \in Seq({}), Len(s) = 0 PROVE Only(s, S) = <<>>
  <2>1. PICK f : Picks(s, S, f) /\ Only(s, S) = f[Len(s)]
    BY OnlyIs
  <2>2. f[0] = <<>>
    BY <2>1, PicksValue
  <2> QED BY <1>1, <2>1, <2>2
<1> QED BY <1>1, EmptySeq

(* One member more is kept or dropped, whatever came before it.            *)
LEMMA OnlySnoc ==
  ASSUME NEW A, NEW s \in Seq(A), NEW x \in A, NEW S
  PROVE  Only(Append(s, x), S) = IF x \in S THEN Append(Only(s, S), x) ELSE Only(s, S)
<1> DEFINE n == Len(s)
           c == Append(s, x)
<1>1. c \in Seq(A) /\ n \in Nat /\ Len(c) = n + 1 /\ c[n + 1] = x /\ \A i \in 1 .. n : c[i] = s[i]
  BY AppendProperties
<1> HIDE DEF c
<1>2. PICK f : Picks(s, S, f) /\ Only(s, S) = f[n]
  BY OnlyIs
<1>3. PICK g : Picks(c, S, g) /\ Only(c, S) = g[n + 1]
  BY <1>1, OnlyIs
<1>4. f[0] = <<>> /\ \A i \in 1 .. n : f[i] = IF s[i] \in S THEN Append(f[i - 1], s[i]) ELSE f[i - 1]
  BY <1>2, PicksValue
<1>5. g[0] = <<>> /\ \A i \in 1 .. n + 1 : g[i] = IF c[i] \in S THEN Append(g[i - 1], c[i]) ELSE g[i - 1]
  BY <1>1, <1>3, PicksValue
<1> DEFINE Same == {i \in Nat : i <= n => f[i] = g[i]}
<1>6. ASSUME NEW i \in Same PROVE i + 1 \in Same
  <2>1. SUFFICES ASSUME i + 1 <= n PROVE f[i + 1] = g[i + 1]
    OBVIOUS
  <2>2. i + 1 \in 1 .. n /\ i + 1 \in 1 .. n + 1 /\ (i + 1) - 1 = i /\ f[i] = g[i]
    BY <1>1, <2>1
  <2> QED BY <1>1, <1>4, <1>5, <2>2
<1>7. Same \in SUBSET Nat /\ 0 \in Same
  BY <1>4, <1>5
<1> HIDE DEF Same
<1>8. n \in Same
  BY <1>1, <1>6, <1>7, AllNat
<1>9. f[n] = g[n]
  BY <1>1, <1>8 DEF Same
<1>10. n + 1 \in 1 .. n + 1 /\ (n + 1) - 1 = n
  BY <1>1
<1>11. g[n + 1] = IF x \in S THEN Append(g[n], x) ELSE g[n]
  BY <1>1, <1>5, <1>10
<1> QED BY <1>2, <1>3, <1>9, <1>11 DEF c

LEMMA OnlyOne ==
  ASSUME NEW A, NEW x \in A, NEW S
  PROVE  Only(<<x>>, S) = IF x \in S THEN <<x>> ELSE <<>>
<1>1. ASSUME NEW s \in Seq(A), s = <<>>
      PROVE  Only(Append(s, x), S) = IF x \in S THEN Append(<<>>, x) ELSE <<>>
  <2>1. Only(s, S) = <<>>
    BY <1>1, OnlyNil
  <2>2. Only(Append(s, x), S) = IF x \in S THEN Append(Only(s, S), x) ELSE Only(s, S)
    BY OnlySnoc
  <2> QED BY <2>1, <2>2
<1>2. Append(<<>>, x) = <<x>>
  OBVIOUS
<1> QED BY <1>1, <1>2, EmptySeq

LEMMA OnlyType ==
  ASSUME NEW A, NEW S
  PROVE  \A s \in Seq(A) : Only(s, S) \in Seq(A)
<1> DEFINE P == {s \in Seq(A) : Only(s, S) \in Seq(A)}
<1>1. <<>> \in P
  BY OnlyNil, EmptySeq
<1>2. ASSUME NEW s \in P, NEW x \in A PROVE Append(s, x) \in P
  <2>1. Only(Append(s, x), S) = IF x \in S THEN Append(Only(s, S), x) ELSE Only(s, S)
    BY OnlySnoc
  <2> QED BY <2>1, AppendProperties
<1>3. P \in SUBSET Seq(A)
  OBVIOUS
<1> HIDE DEF P
<1>4. \A s \in Seq(A) : s \in P
  BY <1>1, <1>2, <1>3, AllSeq
<1> QED BY <1>4 DEF P

(* Picking from two sequences in turn is picking from both as one.         *)
LEMMA OnlyCat ==
  ASSUME NEW A, NEW S, NEW s \in Seq(A)
  PROVE  \A t \in Seq(A) : Only(s \o t, S) = Only(s, S) \o Only(t, S)
<1> DEFINE P == {t \in Seq(A) : Only(s \o t, S) = Only(s, S) \o Only(t, S)}
<1>1. <<>> \in P
  <2>1. s \o <<>> = s /\ Only(s, S) \o <<>> = Only(s, S)
    BY OnlyType, ConcatEmptySeq
  <2> QED BY <2>1, OnlyNil, EmptySeq
<1>2. ASSUME NEW t \in P, NEW x \in A PROVE Append(t, x) \in P
  <2> DEFINE u == Only(s, S)
             v == Only(t, S)
             w == Only(s \o t, S)
  <2>1. t \in Seq(A) /\ w = u \o v
    OBVIOUS
  <2>2. s \o t \in Seq(A) /\ Append(t, x) \in Seq(A) /\ u \in Seq(A) /\ v \in Seq(A)
    BY <2>1, OnlyType, ConcatProperties, AppendProperties
  <2>3. Only(s \o Append(t, x), S) = IF x \in S THEN Append(w, x) ELSE w
    <3>1. s \o Append(t, x) = Append(s \o t, x)
      BY <2>1, CatSnoc
    <3> DEFINE r == s \o t
    <3>2. r \in Seq(A)
      BY <2>2
    <3> HIDE DEF r
    <3>3. Only(Append(r, x), S) = IF x \in S THEN Append(Only(r, S), x) ELSE Only(r, S)
      BY <3>2, OnlySnoc
    <3> QED BY <3>1, <3>3 DEF r
  <2>4. Only(Append(t, x), S) = IF x \in S THEN Append(v, x) ELSE v
    BY <2>1, OnlySnoc
  <2> HIDE DEF u, v, w
  <2>5. u \o Append(v, x) = Append(u \o v, x)
    BY <2>2, CatSnoc
  <2>6. Only(s \o Append(t, x), S) = u \o Only(Append(t, x), S)
    BY <2>1, <2>3, <2>4, <2>5
  <2> QED BY <2>2, <2>6 DEF u
<1>3. P \in SUBSET Seq(A)
  OBVIOUS
<1> HIDE DEF P
<1>4. \A t \in Seq(A) : t \in P
  BY <1>1, <1>2, <1>3, AllSeq
<1> QED BY <1>4 DEF P

(* Where all are in the set, all are kept, and where none is, none.        *)
LEMMA OnlyAll ==
  ASSUME NEW A, NEW S
  PROVE  \A s \in Seq(A) : (\A i \in 1 .. Len(s) : s[i] \in S) => Only(s, S) = s
<1> DEFINE P == {s \in Seq(A) : (\A i \in 1 .. Len(s) : s[i] \in S) => Only(s, S) = s}
<1>1. <<>> \in P
  BY OnlyNil, EmptySeq
<1>2. ASSUME NEW s \in P, NEW x \in A PROVE Append(s, x) \in P
  <2> DEFINE c == Append(s, x)
  <2>1. /\ c \in Seq(A) /\ Len(s) \in Nat /\ Len(c) = Len(s) + 1 /\ c[Len(s) + 1] = x
        /\ \A i \in 1 .. Len(s) : c[i] = s[i]
    BY AppendProperties
  <2>2. Only(c, S) = IF x \in S THEN Append(Only(s, S), x) ELSE Only(s, S)
    BY OnlySnoc
  <2>3. ASSUME \A i \in 1 .. Len(c) : c[i] \in S PROVE Only(c, S) = c
    <3> HIDE DEF c
    <3>1. x \in S /\ \A i \in 1 .. Len(s) : s[i] \in S
      BY <2>1, <2>3
    <3>2. Only(s, S) = s
      BY <3>1
    <3>3. Only(c, S) = Append(s, x)
      BY <2>2, <3>1, <3>2
    <3> QED BY <3>3 DEF c
  <2> QED BY <2>1, <2>3
<1>3. P \in SUBSET Seq(A)
  OBVIOUS
<1> HIDE DEF P
<1>4. \A s \in Seq(A) : s \in P
  BY <1>1, <1>2, <1>3, AllSeq
<1> QED BY <1>4 DEF P

LEMMA OnlyNone ==
  ASSUME NEW A, NEW S
  PROVE  \A s \in Seq(A) : (\A i \in 1 .. Len(s) : s[i] \notin S) => Only(s, S) = <<>>
<1> DEFINE P == {s \in Seq(A) : (\A i \in 1 .. Len(s) : s[i] \notin S) => Only(s, S) = <<>>}
<1>1. <<>> \in P
  BY OnlyNil, EmptySeq
<1>2. ASSUME NEW s \in P, NEW x \in A PROVE Append(s, x) \in P
  <2> DEFINE c == Append(s, x)
  <2>1. /\ c \in Seq(A) /\ Len(s) \in Nat /\ Len(c) = Len(s) + 1 /\ c[Len(s) + 1] = x
        /\ \A i \in 1 .. Len(s) : c[i] = s[i]
    BY AppendProperties
  <2>2. Only(c, S) = IF x \in S THEN Append(Only(s, S), x) ELSE Only(s, S)
    BY OnlySnoc
  <2>3. ASSUME \A i \in 1 .. Len(c) : c[i] \notin S PROVE Only(c, S) = <<>>
    <3> HIDE DEF c
    <3>1. x \notin S /\ \A i \in 1 .. Len(s) : s[i] \notin S
      BY <2>1, <2>3
    <3>2. Only(s, S) = <<>>
      BY <3>1
    <3> QED BY <2>2, <3>1, <3>2
  <2> QED BY <2>1, <2>3
<1>3. P \in SUBSET Seq(A)
  OBVIOUS
<1> HIDE DEF P
<1>4. \A s \in Seq(A) : s \in P
  BY <1>1, <1>2, <1>3, AllSeq
<1> QED BY <1>4 DEF P
-----------------------------------------------------------------------------
(* f is the function that FlattenSeq(ss) is defined by. *)
Joins(ss, f) == f = [i \in 1 .. Len(ss) |-> IF i = 1 THEN ss[i] ELSE f[i - 1] \o ss[i]]

LEMMA JoinsExtend ==
  ASSUME NEW A, NEW ss \in Seq(A), NEW s \in A, NEW f, Joins(ss, f)
  PROVE  \E g : Joins(Append(ss, s), g)
<1> DEFINE n == Len(ss)
           c == Append(ss, s)
           g == [i \in 1 .. n + 1 |->
                   IF i <= n THEN f[i] ELSE IF n = 0 THEN s ELSE f[n] \o s]
<1>1. c \in Seq(A) /\ n \in Nat /\ Len(c) = n + 1 /\ c[n + 1] = s /\ \A i \in 1 .. n : c[i] = ss[i]
  BY AppendProperties
<1>2. \A i \in 1 .. n : f[i] = IF i = 1 THEN ss[i] ELSE f[i - 1] \o ss[i]
  BY DEF Joins
<1> HIDE DEF c
<1>3. ASSUME NEW i \in 1 .. n + 1 PROVE g[i] = IF i = 1 THEN c[i] ELSE g[i - 1] \o c[i]
  <2>1. CASE i \in 1 .. n
    <3>1. g[i] = f[i] /\ c[i] = ss[i] /\ (i # 1 => g[i - 1] = f[i - 1])
      BY <1>1, <2>1
    <3> QED BY <1>2, <2>1, <3>1
  <2>2. CASE i = n + 1 /\ n = 0
    BY <1>1, <2>2
  <2>3. CASE i = n + 1 /\ n # 0
    <3>1. g[i] = f[n] \o s /\ g[i - 1] = f[n] /\ c[i] = s /\ i # 1
      BY <1>1, <2>3
    <3> QED BY <3>1
  <2> QED BY <1>1, <2>1, <2>2, <2>3
<1>4. g = [i \in 1 .. Len(c) |-> IF i = 1 THEN c[i] ELSE g[i - 1] \o c[i]]
  BY <1>1, <1>3
<1> HIDE DEF g
<1>5. Joins(c, g)
  BY <1>4 DEF Joins
<1> QED BY <1>5 DEF c

LEMMA JoinsExist ==
  ASSUME NEW A
  PROVE  \A ss \in Seq(A) : \E f : Joins(ss, f)
<1> DEFINE P == {ss \in Seq(A) : \E f : Joins(ss, f)}
<1>1. <<>> \in P
  <2>1. Len(<<>>) = 0 /\ <<>> \in Seq(A) /\ 1 .. 0 = {}
    BY EmptySeq
  <2> DEFINE f == [i \in {} |-> 0]
  <2>2. f = [i \in {} |-> IF i = 1 THEN <<>>[i] ELSE f[i - 1] \o <<>>[i]]
    OBVIOUS
  <2> HIDE DEF f
  <2>3. Joins(<<>>, f)
    BY <2>1, <2>2 DEF Joins
  <2> QED BY <2>1, <2>3
<1>2. \A ss \in P : \A s \in A : Append(ss, s) \in P
  BY JoinsExtend, AppendProperties
<1>3. P \in SUBSET Seq(A)
  OBVIOUS
<1> HIDE DEF P
<1>4. \A ss \in Seq(A) : ss \in P
  BY <1>1, <1>2, <1>3, AllSeq
<1> QED BY <1>4 DEF P

LEMMA FlattenIs ==
  ASSUME NEW A, NEW ss \in Seq(A), Len(ss) # 0
  PROVE  \E f : Joins(ss, f) /\ FlattenSeq(ss) = f[Len(ss)]
<1> DEFINE flatten == CHOOSE f : Joins(ss, f)
<1>1. Joins(ss, flatten)
  BY JoinsExist
<1>2. FlattenSeq(ss) = flatten[Len(ss)]
  BY DEF FlattenSeq, Joins
<1> QED BY <1>1, <1>2

LEMMA FlattenNil == FlattenSeq(<<>>) = <<>>
BY EmptySeq DEF FlattenSeq

(* One sequence more is put behind the others.                             *)
LEMMA FlattenSnoc ==
  ASSUME NEW A, NEW ss \in Seq(Seq(A)), NEW s \in Seq(A)
  PROVE  FlattenSeq(Append(ss, s)) = FlattenSeq(ss) \o s
<1> DEFINE n == Len(ss)
           c == Append(ss, s)
<1>1. /\ c \in Seq(Seq(A)) /\ n \in Nat /\ Len(c) = n + 1 /\ c[n + 1] = s
      /\ \A i \in 1 .. n : c[i] = ss[i]
  BY AppendProperties
<1> HIDE DEF c
<1>2. PICK g : Joins(c, g) /\ FlattenSeq(c) = g[n + 1]
  <2>1. Len(c) # 0
    BY <1>1
  <2>2. PICK h : Joins(c, h) /\ FlattenSeq(c) = h[Len(c)]
    BY <1>1, <2>1, FlattenIs
  <2> QED BY <1>1, <2>2
<1>3. \A i \in 1 .. n + 1 : g[i] = IF i = 1 THEN c[i] ELSE g[i - 1] \o c[i]
  BY <1>1, <1>2 DEF Joins
<1>4. CASE n = 0
  <2>1. ss = <<>> /\ FlattenSeq(ss) = <<>>
    BY <1>4, EmptySeq, FlattenNil
  <2>2. g[1] = c[1] /\ c[1] = s
    BY <1>1, <1>3, <1>4
  <2>3. <<>> \o s = s
    BY ConcatEmptySeq
  <2> QED BY <1>2, <1>4, <2>1, <2>2, <2>3 DEF c
<1>5. CASE n # 0
  <2>1. PICK f : Joins(ss, f) /\ FlattenSeq(ss) = f[n]
    BY <1>5, FlattenIs
  <2>2. \A i \in 1 .. n : f[i] = IF i = 1 THEN ss[i] ELSE f[i - 1] \o ss[i]
    BY <2>1 DEF Joins
  <2> DEFINE Same == {i \in Nat : i \in 1 .. n => f[i] = g[i]}
  <2>3. ASSUME NEW i \in Same PROVE i + 1 \in Same
    <3>1. SUFFICES ASSUME i + 1 <= n PROVE f[i + 1] = g[i + 1]
      OBVIOUS
    <3>2. CASE i = 0
      BY <1>1, <1>3, <2>2, <3>1, <3>2
    <3>3. CASE i # 0
      <4>1. i \in 1 .. n /\ i + 1 \in 1 .. n /\ i + 1 \in 1 .. n + 1 /\ (i + 1) - 1 = i /\ i + 1 # 1
            /\ f[i] = g[i]
        <5>1. i \in Nat /\ (i \in 1 .. n => f[i] = g[i])
          OBVIOUS
        <5>2. i \in 1 .. n
          BY ONLY <1>1, <3>1, <3>3, <5>1
        <5> QED BY ONLY <1>1, <3>1, <5>1, <5>2
      <4>2. f[i + 1] = f[i] \o ss[i + 1]
        BY <2>2, <4>1
      <4>3. g[i + 1] = g[i] \o c[i + 1]
        BY <1>3, <4>1
      <4>4. c[i + 1] = ss[i + 1]
        BY <1>1, <4>1
      <4> QED BY <4>1, <4>2, <4>3, <4>4
    <3> QED BY <3>2, <3>3
  <2>4. Same \in SUBSET Nat /\ 0 \in Same
    OBVIOUS
  <2> HIDE DEF Same
  <2>5. n \in Same
    BY <1>1, <2>3, <2>4, AllNat
  <2>6. f[n] = g[n]
    BY <1>1, <1>5, <2>5 DEF Same
  <2>7. n + 1 \in 1 .. n + 1 /\ (n + 1) - 1 = n /\ n + 1 # 1
    BY <1>1, <1>5
  <2>8. g[n + 1] = g[n] \o s
    BY <1>1, <1>3, <2>7
  <2> QED BY <1>2, <2>1, <2>6, <2>8 DEF c
<1> QED BY <1>4, <1>5

LEMMA FlattenType ==
  ASSUME NEW A
  PROVE  \A ss \in Seq(Seq(A)) : FlattenSeq(ss) \in Seq(A)
<1> DEFINE P == {ss \in Seq(Seq(A)) : FlattenSeq(ss) \in Seq(A)}
<1>1. <<>> \in P
  BY FlattenNil, EmptySeq
<1>2. ASSUME NEW ss \in P, NEW s \in Seq(A) PROVE Append(ss, s) \in P
  BY FlattenSnoc, AppendProperties, ConcatProperties
<1>3. P \in SUBSET Seq(Seq(A))
  OBVIOUS
<1> HIDE DEF P
<1>4. \A ss \in Seq(Seq(A)) : ss \in P
  BY <1>1, <1>2, <1>3, AllSeq
<1> QED BY <1>4 DEF P
-----------------------------------------------------------------------------
(* The least and the greatest of the places in a sequence where something  *)
(* is.                                                                     *)
LEMMA MinIs ==
  ASSUME NEW S \in SUBSET Nat, S # {}
  PROVE  Min(S) \in S /\ \A j \in S : Min(S) <= j
<1>1. \E i \in S : \A j \in S : i <= j
  BY LeastNat
<1> QED BY <1>1 DEF Min

LEMMA MaxIs ==
  ASSUME NEW n \in Nat, NEW S \in SUBSET (0 .. n), S # {}
  PROVE  Max(S) \in S /\ \A j \in S : j <= Max(S)
<1> DEFINE R == {i \in Nat : n - i \in S}
<1>1. R # {}
  <2>1. PICK j \in S : TRUE
    OBVIOUS
  <2>2. n - j \in Nat /\ n - (n - j) = j
    BY <2>1
  <2> QED BY <2>1, <2>2
<1>2. PICK i \in R : \A j \in R : i <= j
  <2>1. R \in SUBSET Nat
    OBVIOUS
  <2> HIDE DEF R
  <2> QED BY <1>1, <2>1, LeastNat
<1>3. ASSUME NEW j \in S PROVE n - i >= j
  <2>1. j \in 0 .. n /\ n - j \in Nat /\ n - (n - j) = j
    OBVIOUS
  <2>2. n - j \in R
    BY <2>1
  <2>3. i <= n - j
    BY <1>2, <2>2
  <2> QED BY <2>1, <2>3
<1>4. \E k \in S : \A j \in S : k >= j
  BY <1>2, <1>3
<1>5. Max(S) \in S /\ \A j \in S : Max(S) >= j
  BY <1>4 DEF Max
<1>6. \A j \in S : j <= Max(S)
  <2>1. ASSUME NEW j \in S PROVE j <= Max(S)
    <3>1. j \in 0 .. n /\ Max(S) \in 0 .. n
      BY <1>5
    <3> QED BY <1>5, <3>1
  <2> QED BY <2>1
<1> QED BY <1>5, <1>6

(* The length of two sequences, one behind the other. *)
LEMMA CatLen ==
  ASSUME NEW A, NEW s \in Seq(A), NEW t \in Seq(A)
  PROVE  /\ s \o t \in Seq(A) /\ Len(s \o t) \in Nat /\ Len(s) \in Nat /\ Len(t) \in Nat
         /\ Len(s \o t) = Len(s) + Len(t)
BY ConcatProperties, LenProperties

(* A part of something which grew.                                         *)
LEMMA PartStays ==
  ASSUME NEW A, NEW s \in Seq(A), NEW t \in Seq(A), NEW a \in Nat, NEW b \in Nat, a <= b, b <= Len(s)
  PROVE  SubSeq(s \o t, a + 1, b) = SubSeq(s, a + 1, b)
<1>1. Len(s) \in Nat
  BY LenProperties
<1>2. CASE a = b
  <2>1. b < a + 1 /\ a + 1 \in Int /\ b \in Int
    BY <1>2
  <2> QED BY <2>1, SubSeqEmpty
<1>3. CASE a < b
  <2>1. a + 1 \in 1 .. Len(s) /\ b \in 1 .. Len(s)
    BY <1>1, <1>3
  <2> QED BY <2>1, SubSeqOfConcat1
<1> QED BY <1>2, <1>3

LEMMA PartAdded ==
  ASSUME NEW A, NEW s \in Seq(A), NEW t \in Seq(A)
  PROVE  SubSeq(s \o t, Len(s) + 1, Len(s \o t)) = t
<1> DEFINE m == Len(s)  n == Len(t)  w == s \o t
<1>1. m \in Nat /\ n \in Nat
  BY LenProperties
<1>2. w \in Seq(A) /\ Len(w) = m + n /\ \A j \in 1 .. n : w[m + j] = t[j]
  BY CatIs
<1> HIDE DEF w
<1>3. \A i \in m + 1 .. m + n : w[i] \in A
  <2>1. \A i \in m + 1 .. m + n : i \in 1 .. Len(w)
    BY <1>1, <1>2
  <2> QED BY <1>2, <2>1, ElementOfSeq
<1> DEFINE u == SubSeq(w, m + 1, m + n)
<1>4. /\ u \in Seq(A) /\ Len(u) = IF m + 1 <= m + n THEN (m + n) - (m + 1) + 1 ELSE 0
      /\ \A i \in 1 .. (m + n) - (m + 1) + 1 : u[i] = w[(m + 1) + i - 1]
  <2>1. m + 1 \in Int /\ m + n \in Int
    BY <1>1
  <2> QED BY <1>3, <2>1, SubSeqProperties
<1> HIDE DEF u
<1>5. Len(u) = n
  BY <1>1, <1>4
<1>6. ASSUME NEW i \in 1 .. n PROVE u[i] = t[i]
  <2>1. i \in 1 .. (m + n) - (m + 1) + 1 /\ (m + 1) + i - 1 = m + i
    BY <1>1
  <2> QED BY <1>2, <1>4, <2>1
<1>7. u = t
  BY <1>4, <1>5, <1>6, SeqEqual
<1> QED BY <1>2, <1>7 DEF u, w

LEMMA PartGrows ==
  ASSUME NEW A, NEW s \in Seq(A), NEW t \in Seq(A), NEW a \in Nat, a <= Len(s)
  PROVE  SubSeq(s \o t, a + 1, Len(s \o t)) = SubSeq(s, a + 1, Len(s)) \o t
<1> DEFINE m == Len(s)  n == Len(t)  w == s \o t
<1>1. m \in Nat /\ n \in Nat
  BY LenProperties
<1>2. w \in Seq(A) /\ Len(w) = m + n
  BY CatIs
<1>3. SubSeq(w, a + 1, m) = SubSeq(s, a + 1, m)
  BY <1>1, PartStays
<1>4. SubSeq(w, m + 1, Len(w)) = t
  BY PartAdded
<1> HIDE DEF w
<1>5. a + 1 \in 1 .. Len(w) + 1 /\ m \in (a + 1) - 1 .. Len(w) /\ Len(w) \in m .. Len(w)
  BY <1>1, <1>2
<1>6. SubSeq(w, a + 1, m) \o SubSeq(w, m + 1, Len(w)) = SubSeq(w, a + 1, Len(w))
  BY <1>2, <1>5, ConcatAdjacentSubSeq
<1> QED BY <1>3, <1>4, <1>6 DEF w
=============================================================================
