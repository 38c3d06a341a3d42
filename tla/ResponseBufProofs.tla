-------------------------- MODULE ResponseBufProofs --------------------------
(***************************************************************************)
(* Theorems about ResponseBuf, for every text put by any pieces, a buffer  *)
(* of any size, and writes cut anywhere: first what put_terminator()'s     *)
(* loop makes of the text, then that nothing else comes to the wire.       *)
(***************************************************************************)
EXTENDS ResponseBuf, SequenceProofs, FiniteSetTheorems

Octet == {"r", "n", ".", "x"}

(* What Terminated makes of the octet at i, and of them all. *)
Doubles(s, i) == s[i] = "." /\ i > 2 /\ s[i - 2] = "r" /\ s[i - 1] = "n"

Double(s) == FlattenSeq([i \in DOMAIN s |-> IF Doubles(s, i) THEN <<".", ".">> ELSE <<s[i]>>])

LEMMA Associates ==
  \A s, t, u \in Seq(Octet) : Cat(Cat(s, t), u) = Cat(s, Cat(t, u))
BY CatAssociates

(* What it means to find a text of two octets, or three, at an offset. *)
LEMMA TwoIs ==
  ASSUME NEW s \in Seq(Octet), NEW i \in Nat, i + 2 <= Len(s)
  PROVE  SubSeq(s, i + 1, i + 2) = <<"r", "n">> <=> s[i + 1] = "r" /\ s[i + 2] = "n"
<1> DEFINE t == SubSeq(s, i + 1, i + 2)
<1>1. Len(s) \in Nat
  BY LenProperties
<1>2. t \in Seq(Octet) /\ Len(t) = 2 /\ \A j \in 1 .. 2 : t[j] = s[i + j]
  <2>1. i + 1 \in Int /\ i + 2 \in Int /\ i + 1 >= 1 /\ ~(i + 1 > i + 2)
    OBVIOUS
  <2>2. /\ t \in Seq(Octet) /\ Len(t) = (i + 2) - (i + 1) + 1
        /\ \A j \in 1 .. 2 : t[j] = s[(i + 1) + j - 1]
    BY <1>1
  <2> QED BY <2>2
<1>3. t[1] = s[i + 1] /\ t[2] = s[i + 2]
  BY <1>2
<1> HIDE DEF t
<1>4. t = <<t[1], t[2]>>
  BY <1>2
<1>5. <<t[1], t[2]>> = <<"r", "n">> <=> t[1] = "r" /\ t[2] = "n"
  OBVIOUS
<1>6. t = <<"r", "n">> <=> s[i + 1] = "r" /\ s[i + 2] = "n"
  BY <1>3, <1>4, <1>5
<1> QED BY <1>6 DEF t

LEMMA ThreeIs ==
  ASSUME NEW s \in Seq(Octet), NEW i \in Nat, i + 3 <= Len(s)
  PROVE  SubSeq(s, i + 1, i + 3) = <<"r", "n", ".">>
           <=> s[i + 1] = "r" /\ s[i + 2] = "n" /\ s[i + 3] = "."
<1> DEFINE t == SubSeq(s, i + 1, i + 3)
<1>1. Len(s) \in Nat
  BY LenProperties
<1>2. t \in Seq(Octet) /\ Len(t) = 3 /\ \A j \in 1 .. 3 : t[j] = s[i + j]
  <2>1. i + 1 \in Int /\ i + 3 \in Int /\ i + 1 >= 1 /\ ~(i + 1 > i + 3)
    OBVIOUS
  <2>2. /\ t \in Seq(Octet) /\ Len(t) = (i + 3) - (i + 1) + 1
        /\ \A j \in 1 .. 3 : t[j] = s[(i + 1) + j - 1]
    BY <1>1
  <2>3. (i + 3) - (i + 1) + 1 = 3 /\ \A j \in 1 .. 3 : (i + 1) + j - 1 = i + j
    OBVIOUS
  <2> HIDE DEF t
  <2> QED BY <2>2, <2>3
<1>3. t[1] = s[i + 1] /\ t[2] = s[i + 2] /\ t[3] = s[i + 3]
  BY <1>2
<1> HIDE DEF t
<1>4. t = <<t[1], t[2], t[3]>>
  BY <1>2
<1>5. <<t[1], t[2], t[3]>> = <<"r", "n", ".">> <=> t[1] = "r" /\ t[2] = "n" /\ t[3] = "."
  OBVIOUS
<1>6. t = <<"r", "n", ".">> <=> s[i + 1] = "r" /\ s[i + 2] = "n" /\ s[i + 3] = "."
  BY <1>3, <1>4, <1>5
<1> QED BY <1>6 DEF t
-----------------------------------------------------------------------------
(* What should be sent, with Double. *)
LEMMA TerminatedIs ==
  ASSUME NEW s \in Seq(Octet)
  PROVE  Terminated(s) = Double(s) \o (IF IsCrlfTerminated(s) THEN <<>> ELSE <<"r", "n">>)
                         \o <<".", "r", "n">>
<1>1. ASSUME NEW i \in DOMAIN s
      PROVE  (s[i] = "." /\ i > 2 /\ SubSeq(s, i - 2, i - 1) = <<"r", "n">>) <=> Doubles(s, i)
  <2>1. i \in 1 .. Len(s) /\ Len(s) \in Nat
    BY LenProperties
  <2>2. CASE i > 2
    <3>1. i - 3 \in Nat /\ (i - 3) + 2 <= Len(s) /\ (i - 3) + 1 = i - 2 /\ (i - 3) + 2 = i - 1
      BY <2>1, <2>2
    <3>2. ASSUME NEW k \in Nat, k + 2 <= Len(s)
          PROVE  SubSeq(s, k + 1, k + 2) = <<"r", "n">> <=> s[k + 1] = "r" /\ s[k + 2] = "n"
      BY <3>2, TwoIs
    <3>3. SubSeq(s, i - 2, i - 1) = <<"r", "n">> <=> s[i - 2] = "r" /\ s[i - 1] = "n"
      BY <3>1, <3>2
    <3> QED BY <3>3 DEF Doubles
  <2> QED BY <2>2 DEF Doubles
<1>2. [i \in DOMAIN s |->
        IF s[i] = "." /\ i > 2 /\ SubSeq(s, i - 2, i - 1) = <<"r", "n">>
        THEN <<".", ".">> ELSE <<s[i]>>]
      = [i \in DOMAIN s |-> IF Doubles(s, i) THEN <<".", ".">> ELSE <<s[i]>>]
  BY <1>1
<1> QED BY <1>2 DEF Terminated, Double

LEMMA DoubleNil == Double(<<>>) = <<>>
<1>1. [i \in DOMAIN <<>> |-> IF Doubles(<<>>, i) THEN <<".", ".">> ELSE <<(<<>>)[i]>>] = <<>>
  OBVIOUS
<1> QED BY <1>1, FlattenNil DEF Double

(* What one octet more adds. *)
Added(s, x) ==
  IF x = "." /\ Len(s) >= 2 /\ s[Len(s) - 1] = "r" /\ s[Len(s)] = "n" THEN <<".", ".">> ELSE <<x>>

LEMMA DoubleSnoc ==
  ASSUME NEW s \in Seq(Octet), NEW x \in Octet
  PROVE  Double(Append(s, x)) = Double(s) \o Added(s, x) /\ Added(s, x) \in Seq(Octet)
<1> DEFINE n == Len(s)
           c == Append(s, x)
           F(t) == [i \in 1 .. Len(t) |-> IF Doubles(t, i) THEN <<".", ".">> ELSE <<t[i]>>]
<1>1. /\ c \in Seq(Octet) /\ n \in Nat /\ Len(c) = n + 1 /\ c[n + 1] = x
      /\ \A i \in 1 .. n : c[i] = s[i]
      /\ \A i \in 1 .. n : s[i] \in Octet
  BY AppendProperties, ElementOfSeq
<1>2. <<".", ".">> \in Seq(Octet) /\ \A y \in Octet : <<y>> \in Seq(Octet)
  BY DEF Octet
<1>3. Added(s, x) \in Seq(Octet)
  BY <1>2 DEF Added
<1> HIDE DEF c
<1>4. F(s) \in Seq(Seq(Octet)) /\ Len(F(s)) = n
  <2>1. F(s) \in [1 .. n -> Seq(Octet)]
    BY <1>1, <1>2
  <2> HIDE DEF F
  <2> QED BY <1>1, <2>1
<1>5. F(c) = Append(F(s), Added(s, x))
  <2>1. ASSUME NEW i \in 1 .. n PROVE F(c)[i] = F(s)[i]
    <3>1. c[i] = s[i] /\ (i > 2 => c[i - 2] = s[i - 2] /\ c[i - 1] = s[i - 1]) /\ i \in 1 .. n + 1
      BY <1>1
    <3>2. Doubles(c, i) <=> Doubles(s, i)
      BY <3>1 DEF Doubles
    <3> QED BY <1>1, <3>1, <3>2
  <2>2. F(c)[n + 1] = Added(s, x)
    <3>1. n >= 2 => c[n - 1] = s[n - 1] /\ c[n] = s[n]
      BY <1>1
    <3>2. Doubles(c, n + 1) <=> x = "." /\ n >= 2 /\ s[n - 1] = "r" /\ s[n] = "n"
      BY <1>1, <3>1 DEF Doubles
    <3> QED BY <1>1, <3>2 DEF Added
  <2> DEFINE G == Append(F(s), Added(s, x))
  <2>3. /\ G \in Seq(Seq(Octet)) /\ Len(G) = n + 1 /\ G[n + 1] = Added(s, x)
        /\ \A i \in 1 .. n : G[i] = F(s)[i]
    <3> DEFINE f == F(s)
               a == Added(s, x)
    <3>1. f \in Seq(Seq(Octet)) /\ Len(f) = n /\ a \in Seq(Octet)
      BY <1>3, <1>4
    <3> HIDE DEF f, a
    <3>2. /\ Append(f, a) \in Seq(Seq(Octet)) /\ Len(Append(f, a)) = n + 1
          /\ Append(f, a)[n + 1] = a
          /\ \A i \in 1 .. n : Append(f, a)[i] = f[i]
      BY <3>1, AppendProperties
    <3> QED BY <3>2 DEF f, a
  <2>4. F(c) \in [1 .. n + 1 -> Seq(Octet)]
    <3>1. \A i \in 1 .. n + 1 : c[i] \in Octet
      BY <1>1, ElementOfSeq
    <3> QED BY <1>1, <1>2, <3>1
  <2>5. \A i \in 1 .. n + 1 : F(c)[i] = G[i]
    <3>1. \A i \in 1 .. n + 1 : i \in 1 .. n \/ i = n + 1
      BY <1>1
    <3> HIDE DEF F, G
    <3> QED BY <2>1, <2>2, <2>3, <3>1
  <2>6. G \in [1 .. n + 1 -> Seq(Octet)]
    <3> HIDE DEF G
    <3> QED BY <2>3
  <2> HIDE DEF F, G
  <2>7. F(c) = G
    BY <2>4, <2>5, <2>6
  <2> QED BY <2>7 DEF G
<1>6. Double(s) = FlattenSeq(F(s)) /\ Double(c) = FlattenSeq(F(c))
  <2>1. DOMAIN s = 1 .. n /\ DOMAIN c = 1 .. Len(c)
    BY <1>1
  <2> QED BY <2>1 DEF Double
<1> HIDE DEF F
<1>7. FlattenSeq(Append(F(s), Added(s, x))) = FlattenSeq(F(s)) \o Added(s, x)
  BY <1>3, <1>4, FlattenSnoc
<1> QED BY <1>3, <1>5, <1>6, <1>7 DEF c

LEMMA DoubleType == \A s \in Seq(Octet) : Double(s) \in Seq(Octet)
<1> DEFINE P == {s \in Seq(Octet) : Double(s) \in Seq(Octet)}
<1>1. <<>> \in P
  BY DoubleNil, EmptySeq
<1>2. ASSUME NEW s \in P, NEW x \in Octet PROVE Append(s, x) \in P
  <2>1. s \in Seq(Octet) /\ Double(s) \in Seq(Octet) /\ Append(s, x) \in Seq(Octet)
    BY AppendProperties
  <2>2. Double(Append(s, x)) = Double(s) \o Added(s, x) /\ Added(s, x) \in Seq(Octet)
    BY <2>1, DoubleSnoc
  <2>3. Double(s) \o Added(s, x) \in Seq(Octet)
    BY ONLY <2>1, <2>2, CatLen
  <2> QED BY <2>1, <2>2, <2>3
<1>3. P \in SUBSET Seq(Octet)
  OBVIOUS
<1> HIDE DEF P
<1>4. \A s \in Seq(Octet) : s \in P
  BY <1>1, <1>2, <1>3, AllSeq
<1> QED BY <1>4 DEF P

(* What follows is as it was where no dot is doubled. *)
LEMMA DoubleOn ==
  ASSUME NEW s \in Seq(Octet)
  PROVE  \A t \in Seq(Octet) :
           (\A i \in Len(s) + 1 .. Len(s) + Len(t) : ~Doubles(s \o t, i))
             => Double(s \o t) = Double(s) \o t
<1> DEFINE None(t) == \A i \in Len(s) + 1 .. Len(s) + Len(t) : ~Doubles(s \o t, i)
           P == {t \in Seq(Octet) : None(t) => Double(s \o t) = Double(s) \o t}
<1>1. <<>> \in P
  BY DoubleType, ConcatEmptySeq, EmptySeq
<1>2. ASSUME NEW t \in P, NEW x \in Octet, None(Append(t, x))
      PROVE  Double(s \o Append(t, x)) = Double(s) \o Append(t, x)
  <2> DEFINE c == s \o t
             m == Len(s)
             n == Len(t)
  <2>1. t \in Seq(Octet) /\ (None(t) => Double(c) = Double(s) \o t)
    OBVIOUS
  <2>2. s \o Append(t, x) = Append(c, x)
    BY <2>1, CatSnoc
  <2>3. c \in Seq(Octet) /\ Len(c) = m + n /\ m \in Nat /\ n \in Nat /\ Len(Append(t, x)) = n + 1
    BY <2>1, ConcatProperties, LenProperties, AppendProperties
  <2>4. \A i \in m + 1 .. m + (n + 1) : ~Doubles(Append(c, x), i)
    <3>1. \A i \in m + 1 .. m + Len(Append(t, x)) : ~Doubles(s \o Append(t, x), i)
      BY <1>2
    <3> HIDE DEF c, m, n
    <3> QED BY <2>2, <2>3, <3>1
  <2> HIDE DEF c, m, n
  <2>5. Append(c, x)[(m + n) + 1] = x /\ \A i \in 1 .. m + n : Append(c, x)[i] = c[i]
    <3>1. c \in Seq(Octet) /\ x \in Octet
      BY <2>3
    <3>2. Append(c, x)[Len(c) + 1] = x /\ \A i \in 1 .. Len(c) : Append(c, x)[i] = c[i]
      BY ONLY <3>1, AppendProperties
    <3> QED BY <2>3, <3>2
  <2>6. \A i \in m + 1 .. m + n : ~Doubles(c, i)
    <3>1. SUFFICES ASSUME NEW i \in m + 1 .. m + n PROVE ~Doubles(c, i)
      OBVIOUS
    <3>2. /\ i \in m + 1 .. m + (n + 1) /\ i \in 1 .. m + n
          /\ (i > 2 => i - 2 \in 1 .. m + n /\ i - 1 \in 1 .. m + n)
      BY <2>3
    <3>3. ~Doubles(Append(c, x), i)
      BY <2>4, <3>2
    <3> QED BY <2>5, <3>2, <3>3 DEF Doubles
  <2>7. Double(c) = Double(s) \o t
    BY <2>1, <2>6 DEF c, m, n
  <2>8. Added(c, x) = <<x>>
    <3>1. /\ ~Doubles(Append(c, x), m + n + 1)
          /\ (m + n + 1) - 1 = m + n /\ (m + n + 1) - 2 = m + n - 1
      BY <2>3, <2>4
    <3>2. m + n >= 2 => Append(c, x)[m + n] = c[m + n] /\ Append(c, x)[m + n - 1] = c[m + n - 1]
      BY <2>3, <2>5
    <3> QED BY <2>3, <2>5, <3>1, <3>2 DEF Doubles, Added
  <2>9. Double(Append(c, x)) = (Double(s) \o t) \o <<x>>
    BY <2>3, <2>7, <2>8, DoubleSnoc
  <2> DEFINE u == Double(s)
  <2>10. u \in Seq(Octet)
    BY DoubleType
  <2> HIDE DEF u
  <2>11. u \o t \in Seq(Octet)
    BY <2>1, <2>10, ConcatProperties
  <2>12. u \o Append(t, x) = Append(u \o t, x)
    BY ONLY <2>1, <2>10, x \in Octet, CatSnoc
  <2>13. Append(u \o t, x) = (u \o t) \o <<x>>
    <3>1. PICK g \in Seq(Octet) : g = u \o t
      BY <2>11
    <3>2. Append(g, x) = g \o <<x>>
      BY ONLY g \in Seq(Octet), x \in Octet, AppendIsConcat
    <3> QED BY ONLY <3>1, <3>2
  <2> QED BY <2>2, <2>9, <2>12, <2>13 DEF u
<1>3. \A t \in P : \A x \in Octet : Append(t, x) \in P
  BY <1>2, AppendProperties
<1>4. P \in SUBSET Seq(Octet)
  OBVIOUS
<1> HIDE DEF P
<1>5. \A t \in Seq(Octet) : t \in P
  BY <1>1, <1>3, <1>4, AllSeq
<1> QED BY <1>5 DEF P

(* What begins with an "r" may be looked at by itself. *)
LEMMA DoubleCut ==
  ASSUME NEW s \in Seq(Octet)
  PROVE  \A t \in Seq(Octet) : t = <<>> \/ t[1] = "r" => Double(s \o t) = Double(s) \o Double(t)
<1> DEFINE P == {t \in Seq(Octet) :
                   t = <<>> \/ t[1] = "r" => Double(s \o t) = Double(s) \o Double(t)}
<1>1. <<>> \in P
  BY DoubleType, DoubleNil, ConcatEmptySeq, EmptySeq
<1>2. ASSUME NEW t \in P, NEW x \in Octet, Append(t, x)[1] = "r"
      PROVE  Double(s \o Append(t, x)) = Double(s) \o Double(Append(t, x))
  <2> DEFINE c == s \o t
             m == Len(s)
             n == Len(t)
             u == Double(s)
             v == Double(t)
  <2>1. t \in Seq(Octet) /\ (t = <<>> \/ t[1] = "r" => Double(c) = u \o v)
    OBVIOUS
  <2>2. s \o Append(t, x) = Append(c, x)
    BY <2>1, CatSnoc
  <2>3. c \in Seq(Octet) /\ Len(c) = m + n /\ m \in Nat /\ n \in Nat
    BY <2>1, ConcatProperties, LenProperties
  <2>4. \A j \in 1 .. n : c[m + j] = t[j]
    BY <2>1, CatIs
  <2>5. u \in Seq(Octet) /\ v \in Seq(Octet)
    BY <2>1, DoubleType
  <2>6. t = <<>> \/ (n > 0 /\ t[1] = "r")
    <3>1. n # 0 => Append(t, x)[1] = t[1]
      BY <2>1, <2>3, AppendProperties
    <3>2. n = 0 => t = <<>>
      BY <2>1, EmptySeq
    <3> QED BY <1>2, <2>3, <3>1, <3>2
  <2>7. t = <<>> => n = 0 /\ x = "r"
    <3>1. t = <<>> => n = 0
      BY EmptySeq
    <3>2. n = 0 => Append(t, x)[1] = x
      BY <2>1, AppendProperties
    <3> QED BY <1>2, <3>1, <3>2
  <2>8. Added(c, x) = Added(t, x)
    <3> HIDE DEF c, m, n
    <3>1. CASE t = <<>>
      BY <2>7, <3>1 DEF Added
    <3>2. CASE n = 1
      <4>1. c[m + 1] = "r"
        BY <2>4, <2>6, <2>7, <3>2
      <4>2. Added(c, x) = <<x>>
        BY <2>3, <3>2, <4>1 DEF Added
      <4>3. Added(t, x) = <<x>>
        BY <3>2 DEF Added, n
      <4> QED BY <4>2, <4>3
    <3>3. CASE n >= 2
      <4>1. n \in 1 .. n /\ n - 1 \in 1 .. n /\ m + (n - 1) = m + n - 1 /\ m + n >= 2
        BY <2>3, <3>3
      <4>2. c[m + n] = t[n] /\ c[m + n - 1] = t[n - 1]
        BY <2>4, <4>1
      <4> QED BY <2>3, <3>3, <4>1, <4>2 DEF Added, n
    <3> QED BY <2>3, <2>6, <3>1, <3>2, <3>3
  <2> HIDE DEF c, u, v
  <2>9. Double(Append(c, x)) = (u \o v) \o Added(t, x)
    <3>1. Double(Append(c, x)) = Double(c) \o Added(c, x)
      BY <2>3, DoubleSnoc
    <3>2. Double(c) = u \o v
      BY <2>1, <2>6
    <3> QED BY <2>8, <3>1, <3>2
  <2>10. Double(Append(t, x)) = v \o Added(t, x) /\ Added(t, x) \in Seq(Octet)
    BY <2>1, DoubleSnoc DEF v
  <2>11. (u \o v) \o Added(t, x) = u \o (v \o Added(t, x))
    <3>1. PICK g \in Seq(Octet) : g = Added(t, x)
      BY <2>10
    <3>2. Cat(Cat(u, v), g) = Cat(u, Cat(v, g))
      BY ONLY <2>5, Associates, g \in Seq(Octet)
    <3> QED BY ONLY <3>1, <3>2 DEF Cat
  <2> QED BY <2>2, <2>9, <2>10, <2>11 DEF u
<1>3. ASSUME NEW t \in P, NEW x \in Octet PROVE Append(t, x) \in P
  <2>1. Append(t, x) \in Seq(Octet) /\ Append(t, x) # <<>>
    BY AppendProperties
  <2> QED BY <1>2, <2>1
<1>4. P \in SUBSET Seq(Octet)
  OBVIOUS
<1> HIDE DEF P
<1>5. \A t \in Seq(Octet) : t \in P
  BY <1>1, <1>3, <1>4, AllSeq
<1> QED BY <1>5 DEF P
-----------------------------------------------------------------------------
(* CR LF dot starts in m at offset i. *)
StartsAt(m, i) == m[i + 1] = "r" /\ m[i + 2] = "n" /\ m[i + 3] = "."

(* Where dots must be doubled. *)
LEMMA DotsAre ==
  ASSUME NEW m \in Seq(Octet), NEW a \in Nat, NEW b \in Nat, b <= Len(m)
  PROVE  /\ DotsIn(m, a, b) = {i \in a .. b - 3 : StartsAt(m, i)}
         /\ DotsIn(m, a, b) \in SUBSET (0 .. b)
         /\ IsFiniteSet(DotsIn(m, a, b))
<1>1. ASSUME NEW i \in a .. b - 3
      PROVE  SubSeq(m, i + 1, i + 3) = <<"r", "n", ".">> <=> StartsAt(m, i)
  <2>1. i \in Nat /\ i + 3 <= Len(m)
    BY LenProperties
  <2> QED BY <2>1, ThreeIs DEF StartsAt
<1>2. DotsIn(m, a, b) = {i \in a .. b - 3 : StartsAt(m, i)}
  BY <1>1 DEF DotsIn
<1>3. DotsIn(m, a, b) \in SUBSET (0 .. b)
  <2>1. \A i \in a .. b - 3 : i \in 0 .. b
    OBVIOUS
  <2> QED BY <1>2, <2>1
<1>4. IsFiniteSet(0 .. b)
  BY FS_Interval
<1> QED BY <1>2, <1>3, <1>4, FS_Subset
-----------------------------------------------------------------------------
(* One turn of the loop, after which d dots are left. *)
Turn(r, d) ==
  LET q     == Max(DotsIn(r.m, z, r.p))
      moved == MoveRight(r.m, q + 3, r.p, d + 1)
  IN [m |-> MoveRight([moved EXCEPT ![q + 4] = "."], q, q + 4, d), p |-> q]

(* at is the function that Stuffed(m, p, dots) is defined by. *)
Turns(r, dots, at) == at = [d \in 0 .. dots |-> IF d = dots THEN r ELSE Turn(at[d + 1], d)]

(* The loop has come to an end. *)
LEMMA TurnsExist == \A dots \in Nat : \A r : \E at : Turns(r, dots, at)
<1> DEFINE S == {k \in Nat : \A r : \E at : Turns(r, k, at)}
<1>1. 0 \in S
  <2>1. ASSUME NEW r PROVE \E at : Turns(r, 0, at)
    <3> DEFINE f == [d \in 0 .. 0 |-> r]
    <3>1. f = [d \in 0 .. 0 |-> IF d = 0 THEN r ELSE Turn(f[d + 1], d)]
      BY \A d \in 0 .. 0 : d = 0
    <3> HIDE DEF f
    <3> QED BY <3>1 DEF Turns
  <2> QED BY <2>1
<1>2. ASSUME NEW k \in S PROVE k + 1 \in S
  <2>1. ASSUME NEW r PROVE \E at : Turns(r, k + 1, at)
    <3>1. PICK f : Turns(Turn(r, k), k, f)
      OBVIOUS
    <3>2. /\ f = [d \in 0 .. k |-> IF d = k THEN Turn(r, k) ELSE Turn(f[d + 1], d)]
          /\ k \in Nat
      BY <3>1 DEF Turns
    <3> DEFINE g == [d \in 0 .. k + 1 |-> IF d = k + 1 THEN r ELSE f[d]]
    <3>3. ASSUME NEW d \in 0 .. k + 1
          PROVE  g[d] = IF d = k + 1 THEN r ELSE Turn(g[d + 1], d)
      <4>1. CASE d = k + 1
        BY <4>1
      <4>2. CASE d = k
        <5>1. g[d] = f[k] /\ g[d + 1] = r /\ f[k] = Turn(r, k)
          BY <3>2, <4>2
        <5> QED BY <3>2, <4>2, <5>1
      <4>3. CASE d \in 0 .. k /\ d # k
        <5>1. d + 1 \in 0 .. k + 1 /\ d + 1 # k + 1 /\ d # k + 1
          BY <3>2, <4>3
        <5>2. g[d] = f[d] /\ g[d + 1] = f[d + 1]
          BY <5>1
        <5>3. f[d] = Turn(f[d + 1], d)
          BY <3>2, <4>3
        <5> QED BY <5>1, <5>2, <5>3
      <4> QED BY <3>2, <4>1, <4>2, <4>3
    <3>4. g = [d \in 0 .. k + 1 |-> IF d = k + 1 THEN r ELSE Turn(g[d + 1], d)]
      BY <3>3
    <3> HIDE DEF g
    <3> QED BY <3>4 DEF Turns
  <2> QED BY <2>1
<1>3. S \in SUBSET Nat
  OBVIOUS
<1> HIDE DEF S
<1>4. \A k \in Nat : k \in S
  BY <1>1, <1>2, <1>3, AllNat
<1> QED BY <1>4 DEF S

StuffedWith(m, p, dots, at) ==
  /\ Stuffed(m, p, dots) = at[0].m
  /\ at[dots] = [m |-> m, p |-> p]
  /\ \A d \in 0 .. dots - 1 : at[d] = Turn(at[d + 1], d)

LEMMA StuffedBy ==
  ASSUME NEW m, NEW p, NEW dots \in Nat
  PROVE  \E at : StuffedWith(m, p, dots, at)
<1> DEFINE r  == [m |-> m, p |-> p]
           at == CHOOSE f : Turns(r, dots, f)
<1>1. Turns(r, dots, at)
  BY TurnsExist
<1>2. Stuffed(m, p, dots) = at[0].m
  BY DEF Stuffed, Turns, Turn
<1> HIDE DEF at
<1>3. \A d \in 0 .. dots : at[d] = IF d = dots THEN r ELSE Turn(at[d + 1], d)
  BY <1>1 DEF Turns
<1>4. dots \in 0 .. dots /\ \A d \in 0 .. dots - 1 : d \in 0 .. dots /\ d # dots
  OBVIOUS
<1> QED BY <1>2, <1>3, <1>4 DEF StuffedWith
-----------------------------------------------------------------------------
(* t lies in m after offset k. *)
Holds(m, k, t) == \A i \in 1 .. Len(t) : m[k + i] = t[i]

(* What lies side by side lies there as a whole. *)
LEMMA HoldsCat ==
  ASSUME NEW m, NEW k \in Nat, NEW s \in Seq(Octet), NEW t \in Seq(Octet),
         Holds(m, k, s), Holds(m, k + Len(s), t)
  PROVE  Holds(m, k, s \o t)
<1> DEFINE a == Len(s)
           b == Len(t)
           c == s \o t
<1>1. /\ c \in Seq(Octet) /\ Len(c) = a + b
      /\ \A i \in 1 .. a : c[i] = s[i]
      /\ \A j \in 1 .. b : c[a + j] = t[j]
  BY CatIs
<1>2. a \in Nat /\ b \in Nat
  BY LenProperties
<1>3. (\A i \in 1 .. a : m[k + i] = s[i]) /\ (\A j \in 1 .. b : m[k + a + j] = t[j])
  BY DEF Holds
<1> HIDE DEF a, b, c
<1>4. ASSUME NEW i \in 1 .. a + b PROVE m[k + i] = c[i]
  <2>1. CASE i \in 1 .. a
    BY <1>1, <1>3, <2>1
  <2>2. CASE i \notin 1 .. a
    <3>1. i - a \in 1 .. b /\ a + (i - a) = i /\ k + a + (i - a) = k + i
      BY <1>2, <2>2
    <3> QED BY <1>1, <1>3, <3>1
  <2> QED BY <2>1, <2>2
<1> QED BY <1>1, <1>4 DEF Holds, c

LEMMA HoldsSame ==
  ASSUME NEW s \in Seq(Octet), NEW t \in Seq(Octet), Len(s) = Len(t), Holds(s, 0, t)
  PROVE  s = t
<1>1. Len(s) \in Nat /\ \A i \in 1 .. Len(s) : 0 + i = i
  BY LenProperties
<1>2. \A i \in 1 .. Len(s) : s[i] = t[i]
  BY <1>1 DEF Holds
<1> QED BY <1>2, SeqEqual

(* What move_right() moves, and what it leaves. *)
LEMMA MoveIs ==
  ASSUME NEW m \in Seq(Octet), NEW a \in Nat, NEW b \in Nat, NEW n \in Nat, b + n <= Len(m),
         NEW r, r = MoveRight(m, a, b, n)
  PROVE  /\ r \in Seq(Octet) /\ Len(r) = Len(m)
         /\ \A i \in 1 .. Len(m) : i <= a + n \/ b + n < i => r[i] = m[i]
         /\ \A i \in a + 1 .. b : r[i + n] = m[i]
<1> DEFINE L == Len(m)
<1>1. L \in Nat /\ DOMAIN m = 1 .. L /\ \A i \in 1 .. L : m[i] \in Octet
  BY LenProperties, ElementOfSeq
<1>2. r = [i \in 1 .. L |-> IF a + n < i /\ i <= b + n THEN m[i - n] ELSE m[i]]
  BY <1>1 DEF MoveRight
<1> HIDE DEF L
<1>3. \A i \in 1 .. L : a + n < i /\ i <= b + n => i - n \in 1 .. L
  BY <1>1
<1>4. r \in [1 .. L -> Octet]
  BY <1>1, <1>2, <1>3
<1>5. r \in Seq(Octet) /\ Len(r) = L
  BY <1>1, <1>4
<1>6. \A i \in 1 .. L : i <= a + n \/ b + n < i => r[i] = m[i]
  BY <1>1, <1>2
<1>7. ASSUME NEW i \in a + 1 .. b PROVE r[i + n] = m[i]
  <2>1. i + n \in 1 .. L /\ a + n < i + n /\ i + n <= b + n /\ (i + n) - n = i
    BY <1>1 DEF L
  <2> QED BY <1>2, <2>1
<1> QED BY <1>5, <1>6, <1>7 DEF L
-----------------------------------------------------------------------------
(* A part of a text, and two parts which meet. *)
LEMMA PartIs ==
  ASSUME NEW s \in Seq(Octet), NEW a \in Nat, NEW b \in a .. Len(s)
  PROVE  /\ SubSeq(s, a + 1, b) \in Seq(Octet) /\ Len(SubSeq(s, a + 1, b)) = b - a
         /\ \A i \in 1 .. b - a : SubSeq(s, a + 1, b)[i] = s[a + i]
<1> DEFINE t == SubSeq(s, a + 1, b)
<1>1. /\ Len(s) \in Nat /\ b \in Nat /\ a + 1 \in Int /\ b \in Int
      /\ \A i \in a + 1 .. b : s[i] \in Octet
  BY LenProperties, ElementOfSeq
<1>2. /\ t \in Seq(Octet) /\ Len(t) = (IF a + 1 <= b THEN b - (a + 1) + 1 ELSE 0)
      /\ \A i \in 1 .. b - (a + 1) + 1 : t[i] = s[(a + 1) + i - 1]
  BY <1>1, SubSeqProperties
<1>3. t \in Seq(Octet) /\ Len(t) = b - a /\ \A i \in 1 .. b - a : t[i] = s[a + i]
  BY <1>1, <1>2
<1> QED BY <1>3 DEF t

LEMMA PartsCat ==
  ASSUME NEW s \in Seq(Octet), NEW a \in Nat, NEW b \in a .. Len(s), NEW c \in b .. Len(s)
  PROVE  SubSeq(s, a + 1, c) = SubSeq(s, a + 1, b) \o SubSeq(s, b + 1, c)
<1>1. Len(s) \in Nat /\ a + 1 \in 1 .. Len(s) + 1 /\ b \in (a + 1) - 1 .. Len(s)
  BY LenProperties
<1> QED BY <1>1, ConcatAdjacentSubSeq
-----------------------------------------------------------------------------
(* A line which starts with a dot, as it should be. *)
DottedLine == <<"r", "n">> \o <<".", ".">>

LEMMA DottedLineIs ==
  /\ DottedLine \in Seq(Octet) /\ Len(DottedLine) = 4
  /\ DottedLine[1] = "r" /\ DottedLine[2] = "n" /\ DottedLine[3] = "." /\ DottedLine[4] = "."
<1> DEFINE a == <<"r", "n">>
           b == <<".", ".">>
           c == a \o b
           m == 2
<1>1. a \in Seq(Octet) /\ b \in Seq(Octet) /\ Len(a) = m /\ Len(b) = m
  BY DEF Octet
<1>2. a[1] = "r" /\ a[2] = "n" /\ b[1] = "." /\ b[2] = "." /\ m = 2
  OBVIOUS
<1>3. DottedLine = c
  BY DEF DottedLine
<1> HIDE DEF a, b, c, m
<1>4. c \in Seq(Octet) /\ Len(c) = m + m
  BY <1>1, CatIs DEF c
<1>5. (\A i \in 1 .. m : c[i] = a[i]) /\ (\A i \in 1 .. m : c[m + i] = b[i])
  BY <1>1, CatIs DEF c
<1>6. 1 \in 1 .. m /\ 2 \in 1 .. m /\ m + 1 = 3 /\ m + 2 = 4 /\ m + m = 4
  BY <1>2
<1>7. c[1] = a[1] /\ c[2] = a[2] /\ c[3] = b[1] /\ c[4] = b[2]
  BY <1>5, <1>6
<1> QED BY <1>2, <1>3, <1>4, <1>6, <1>7

(* The last dot which is to be doubled, before p, and what is behind it. *)
CutAt(s, a, p, q) ==
  /\ q \in a .. p - 3 /\ StartsAt(s, q)
  /\ DotsIn(s, a, q) = DotsIn(s, a, p) \ {q}
  /\ Cardinality(DotsIn(s, a, q)) = Cardinality(DotsIn(s, a, p)) - 1
  /\ Double(SubSeq(s, q + 1, p)) = DottedLine \o SubSeq(s, q + 4, p)

LEMMA LastDot ==
  ASSUME NEW s \in Seq(Octet), NEW a \in Nat, NEW p \in Nat, p \in a .. Len(s),
         NEW q \in Nat, q \in DotsIn(s, a, p), \A i \in DotsIn(s, a, p) : i <= q
  PROVE  CutAt(s, a, p, q)
<1>1. Len(s) \in Nat /\ p \in Nat /\ p <= Len(s)
  BY LenProperties
<1>2. /\ DotsIn(s, a, p) = {i \in a .. p - 3 : StartsAt(s, i)}
      /\ IsFiniteSet(DotsIn(s, a, p))
  BY <1>1, DotsAre
<1>3. q \in a .. p - 3 /\ StartsAt(s, q) /\ q \in Nat /\ q <= Len(s)
  BY <1>1, <1>2
<1>4. DotsIn(s, a, q) = {i \in a .. q - 3 : StartsAt(s, i)}
  BY <1>3, DotsAre
<1>5. ASSUME NEW i \in a .. p - 3, StartsAt(s, i), i # q PROVE i \in a .. q - 3
  <2>1. i <= q
    BY <1>2, <1>5
  <2>2. i # q - 1
    BY <1>3, <1>5 DEF StartsAt
  <2>3. i # q - 2
    BY <1>3, <1>5 DEF StartsAt
  <2> QED BY <1>3, <1>5, <2>1, <2>2, <2>3
<1>6. DotsIn(s, a, q) = DotsIn(s, a, p) \ {q}
  <2>1. \A i \in a .. q - 3 : i \in a .. p - 3 /\ i # q
    BY <1>1, <1>3
  <2> QED BY <1>2, <1>4, <1>5, <2>1
<1>7. Cardinality(DotsIn(s, a, q)) = Cardinality(DotsIn(s, a, p)) - 1
  <2> DEFINE D == DotsIn(s, a, p)
  <2>1. IsFiniteSet(D) /\ q \in D /\ DotsIn(s, a, q) = D \ {q}
    BY <1>2, <1>6
  <2> HIDE DEF D
  <2>2. Cardinality(D \ {q}) = Cardinality(D) - 1
    BY ONLY <2>1, FS_RemoveElement
  <2> QED BY <2>1, <2>2 DEF D
<1> DEFINE u == <<"r", "n", ".">>
           t == SubSeq(s, q + 4, p)
<1>8. SubSeq(s, q + 1, p) = u \o t
  <2>1. q + 3 \in Nat /\ q + 3 \in q .. Len(s) /\ p \in q + 3 .. Len(s) /\ (q + 3) + 1 = q + 4
    BY <1>1, <1>3
  <2>2. SubSeq(s, q + 1, p) = SubSeq(s, q + 1, q + 3) \o SubSeq(s, q + 4, p)
    <3>1. SubSeq(s, q + 1, p) = SubSeq(s, q + 1, q + 3) \o SubSeq(s, (q + 3) + 1, p)
      BY <1>3, <2>1, PartsCat
    <3> QED BY <2>1, <3>1
  <2>3. SubSeq(s, q + 1, q + 3) = <<"r", "n", ".">>
    BY <1>1, <1>3, ThreeIs DEF StartsAt
  <2> QED BY <2>2, <2>3
<1>9. /\ t \in Seq(Octet) /\ Len(t) = p - q - 3
      /\ \A i \in 1 .. p - q - 3 : t[i] = s[q + 3 + i]
  <2>1. q + 3 \in Nat /\ p \in q + 3 .. Len(s) /\ (q + 3) + 1 = q + 4 /\ p - (q + 3) = p - q - 3
    BY <1>1, <1>3
  <2>2. /\ SubSeq(s, (q + 3) + 1, p) \in Seq(Octet) /\ Len(SubSeq(s, (q + 3) + 1, p)) = p - (q + 3)
        /\ \A i \in 1 .. p - (q + 3) : SubSeq(s, (q + 3) + 1, p)[i] = s[(q + 3) + i]
    BY <2>1, PartIs
  <2> QED BY <2>1, <2>2
<1> HIDE DEF t
<1>10. u \in Seq(Octet) /\ Len(u) = 3
  BY DEF Octet
<1>11. Double(u) = DottedLine
  <2>1. /\ u = Append(<<"r", "n">>, ".") /\ <<"r", "n">> = Append(<<"r">>, "n")
        /\ <<"r">> = Append(<<>>, "r")
    OBVIOUS
  <2>2. <<>> \in Seq(Octet) /\ <<"r">> \in Seq(Octet) /\ <<"r", "n">> \in Seq(Octet)
        /\ "r" \in Octet /\ "n" \in Octet /\ "." \in Octet
    BY DEF Octet
  <2>3. /\ Added(<<>>, "r") = <<"r">> /\ Added(<<"r">>, "n") = <<"n">>
        /\ Added(<<"r", "n">>, ".") = <<".", ".">>
    BY DEF Added
  <2>4. Double(<<"r">>) = <<"r">>
    <3>1. Double(Append(<<>>, "r")) = Double(<<>>) \o Added(<<>>, "r")
      BY <2>2, DoubleSnoc
    <3>2. <<>> \o <<"r">> = <<"r">>
      OBVIOUS
    <3> QED BY <2>1, <2>3, <3>1, <3>2, DoubleNil
  <2>5. Double(<<"r", "n">>) = <<"r", "n">>
    <3>1. Double(Append(<<"r">>, "n")) = Double(<<"r">>) \o Added(<<"r">>, "n")
      BY <2>2, DoubleSnoc
    <3>2. <<"r">> \o <<"n">> = <<"r", "n">>
      BY <2>1, <2>2, AppendIsConcat
    <3> QED BY <2>1, <2>3, <2>4, <3>1, <3>2
  <2>6. Double(Append(<<"r", "n">>, ".")) = Double(<<"r", "n">>) \o Added(<<"r", "n">>, ".")
    BY <2>2, DoubleSnoc
  <2> QED BY <2>1, <2>3, <2>5, <2>6 DEF DottedLine
<1>12. ASSUME NEW i \in 3 + 1 .. 3 + Len(t), Doubles(u \o t, i) PROVE FALSE
  <2> DEFINE c == u \o t
  <2>1. /\ \A j \in 1 .. 3 : c[j] = u[j]
        /\ \A j \in 1 .. p - q - 3 : c[3 + j] = t[j]
    BY <1>9, <1>10, CatIs
  <2>2. \A j \in 1 .. p - q : c[j] = s[q + j]
    <3>1. ASSUME NEW j \in 1 .. 3 PROVE c[j] = s[q + j]
      BY <1>3, <2>1, <3>1 DEF StartsAt
    <3>2. ASSUME NEW j \in 4 .. p - q PROVE c[j] = s[q + j]
      <4>1. j - 3 \in 1 .. p - q - 3 /\ 3 + (j - 3) = j /\ q + 3 + (j - 3) = q + j
        BY <1>1, <1>3
      <4> QED BY <1>9, <2>1, <4>1
    <3>3. \A j \in 1 .. p - q : j \in 1 .. 3 \/ j \in 4 .. p - q
      BY <1>1, <1>3
    <3> QED BY <3>1, <3>2, <3>3
  <2> HIDE DEF c
  <2>3. c[i] = "." /\ c[i - 2] = "r" /\ c[i - 1] = "n"
    BY <1>12 DEF Doubles, c
  <2>4. i \in 1 .. p - q /\ i - 2 \in 1 .. p - q /\ i - 1 \in 1 .. p - q /\ i \in 4 .. p - q
    BY <1>1, <1>3, <1>9
  <2>5. s[q + i] = "." /\ s[q + (i - 2)] = "r" /\ s[q + (i - 1)] = "n"
    BY <2>2, <2>3, <2>4
  <2>6. (q + i - 3) + 1 = q + (i - 2) /\ (q + i - 3) + 2 = q + (i - 1) /\ (q + i - 3) + 3 = q + i
        /\ q + i - 3 \in a .. p - 3 /\ ~(q + i - 3 <= q)
    BY <1>1, <1>3, <2>4
  <2>7. StartsAt(s, q + i - 3)
    BY <2>5, <2>6 DEF StartsAt
  <2> QED BY <1>2, <2>6, <2>7
<1>13. Double(u \o t) = Double(u) \o t
  BY <1>9, <1>10, <1>12, DoubleOn
<1> QED BY <1>3, <1>6, <1>7, <1>8, <1>11, <1>13 DEF CutAt, t
-----------------------------------------------------------------------------
(* What put_terminator() has behind p, and must make of it. *)
Rest(s, p) == Double(SubSeq(s, p + 1, Len(s)))

(* With d dots left to double from offset a on: what is before p lies where *)
(* it was, what is behind it where it belongs.                             *)
Loop(s, a, dots, m, p, d) ==
  /\ m \in Seq(Octet) /\ Len(m) = Len(s) + dots
  /\ p \in a .. Len(s) /\ (p = Len(s) \/ s[p + 1] = "r")
  /\ Cardinality(DotsIn(s, a, p)) = d
  /\ \A i \in 1 .. p : m[i] = s[i]
  /\ p + d + Len(Rest(s, p)) = Len(s) + dots
  /\ Holds(m, p + d, Rest(s, p))

LEMMA SameDots ==
  ASSUME NEW s \in Seq(Octet), NEW m \in Seq(Octet), NEW p \in Nat, NEW a \in Nat,
         p <= Len(s), p <= Len(m), \A i \in 1 .. p : m[i] = s[i]
  PROVE  DotsIn(m, a, p) = DotsIn(s, a, p)
<1>1. ASSUME NEW i \in a .. p - 3 PROVE StartsAt(m, i) <=> StartsAt(s, i)
  <2>1. i + 1 \in 1 .. p /\ i + 2 \in 1 .. p /\ i + 3 \in 1 .. p
    OBVIOUS
  <2> QED BY <2>1 DEF StartsAt
<1>2. /\ DotsIn(m, a, p) = {i \in a .. p - 3 : StartsAt(m, i)}
      /\ DotsIn(s, a, p) = {i \in a .. p - 3 : StartsAt(s, i)}
  BY DotsAre
<1> QED BY <1>1, <1>2

(* The two moves and the dot of one turn. *)
Moved(m, r, q, p, d) ==
  /\ r \in Seq(Octet) /\ Len(r) = Len(m)
  /\ \A i \in 1 .. q : r[i] = m[i]
  /\ Holds(r, q + d, DottedLine)
  /\ \A i \in q + 4 .. p : r[i + d + 1] = m[i]
  /\ \A i \in p + d + 2 .. Len(m) : r[i] = m[i]

LEMMA TurnMoves ==
  ASSUME NEW m \in Seq(Octet), NEW q \in Nat, NEW p \in Nat, NEW d \in Nat,
         q + 3 <= p, p + d + 1 <= Len(m), StartsAt(m, q), NEW r,
         r = MoveRight([MoveRight(m, q + 3, p, d + 1) EXCEPT ![q + 4] = "."], q, q + 4, d)
  PROVE  Moved(m, r, q, p, d)
<1> DEFINE L == Len(m)
           a == MoveRight(m, q + 3, p, d + 1)
           b == [a EXCEPT ![q + 4] = "."]
<1>1. /\ L \in Nat /\ q + 3 \in Nat /\ d + 1 \in Nat /\ p + (d + 1) <= L
      /\ q + 4 \in Nat /\ q + 4 + d <= L
  BY LenProperties
<1>2. /\ a \in Seq(Octet) /\ Len(a) = L
      /\ \A i \in 1 .. L : i <= q + 3 + (d + 1) \/ p + (d + 1) < i => a[i] = m[i]
      /\ \A i \in q + 3 + 1 .. p : a[i + (d + 1)] = m[i]
  <2> DEFINE x == q + 3
             y == d + 1
  <2>1. x \in Nat /\ y \in Nat /\ p + y <= L /\ a = MoveRight(m, x, p, y)
    BY <1>1
  <2> HIDE DEF x, y, a, L
  <2>2. /\ a \in Seq(Octet) /\ Len(a) = Len(m)
        /\ \A i \in 1 .. Len(m) : i <= x + y \/ p + y < i => a[i] = m[i]
        /\ \A i \in x + 1 .. p : a[i + y] = m[i]
    <3>1. p + y <= Len(m)
      BY <2>1 DEF L
    <3> QED BY ONLY <2>1, <3>1, MoveIs, m \in Seq(Octet), p \in Nat
  <2> QED BY <2>2 DEF x, y, L
<1> HIDE DEF a
<1>3. b \in Seq(Octet) /\ Len(b) = L /\ b[q + 4] = "." /\ \A i \in 1 .. L : i # q + 4 => b[i] = a[i]
  <2>1. "." \in Octet /\ q + 4 \in 1 .. L
    BY <1>1 DEF Octet
  <2>2. a \in [1 .. L -> Octet]
    BY <1>2, LenProperties, ElementOfSeq
  <2>3. b \in [1 .. L -> Octet] /\ b[q + 4] = "." /\ \A i \in 1 .. L : i # q + 4 => b[i] = a[i]
    BY <2>1, <2>2
  <2> HIDE DEF b
  <2> QED BY <1>1, <2>3
<1>4. r = MoveRight(b, q, q + 4, d)
  BY DEF a, b
<1> HIDE DEF b, L
<1>5. /\ r \in Seq(Octet) /\ Len(r) = L
      /\ \A i \in 1 .. L : i <= q + d \/ q + 4 + d < i => r[i] = b[i]
      /\ \A i \in q + 1 .. q + 4 : r[i + d] = b[i]
  <2> DEFINE x == q + 4
  <2>1. x \in Nat /\ x + d <= Len(b) /\ r = MoveRight(b, q, x, d)
    BY <1>1, <1>3, <1>4
  <2> HIDE DEF x
  <2>2. /\ r \in Seq(Octet) /\ Len(r) = Len(b)
        /\ \A i \in 1 .. Len(b) : i <= q + d \/ x + d < i => r[i] = b[i]
        /\ \A i \in q + 1 .. x : r[i + d] = b[i]
    BY ONLY <1>3, <2>1, MoveIs, q \in Nat, d \in Nat
  <2> QED BY <1>3, <2>2 DEF x
<1>6. ASSUME NEW i \in 1 .. q PROVE r[i] = m[i]
  <2>1. i \in 1 .. L /\ i <= q + d /\ i # q + 4 /\ i <= q + 3 + (d + 1)
    BY <1>1
  <2> QED BY <1>2, <1>3, <1>5, <2>1
<1>7. ASSUME NEW i \in q + 4 .. p PROVE r[i + d + 1] = m[i]
  <2>1. /\ i + (d + 1) \in 1 .. L /\ q + 4 + d < i + (d + 1)
        /\ i + (d + 1) # q + 4 /\ i \in q + 3 + 1 .. p
        /\ i + d + 1 = i + (d + 1)
    BY <1>1
  <2>2. r[i + (d + 1)] = b[i + (d + 1)]
    BY <1>5, <2>1
  <2>3. b[i + (d + 1)] = a[i + (d + 1)]
    BY <1>3, <2>1
  <2>4. a[i + (d + 1)] = m[i]
    BY <1>2, <2>1
  <2> QED BY <2>1, <2>2, <2>3, <2>4
<1>8. ASSUME NEW i \in p + d + 2 .. L PROVE r[i] = m[i]
  <2>1. i \in 1 .. L /\ q + 4 + d < i /\ i # q + 4 /\ p + (d + 1) < i
    BY <1>1
  <2> QED BY <1>2, <1>3, <1>5, <2>1
<1>9. Holds(r, q + d, DottedLine)
  <2> DEFINE t == DottedLine
  <2>1. t[1] = "r" /\ t[2] = "n" /\ t[3] = "." /\ t[4] = "." /\ Len(t) = 4
    BY DottedLineIs
  <2> HIDE DEF t
  <2>2. /\ q + 1 \in 1 .. L /\ q + 2 \in 1 .. L /\ q + 3 \in 1 .. L
        /\ q + 1 # q + 4 /\ q + 2 # q + 4 /\ q + 3 # q + 4
        /\ q + 1 <= q + 3 + (d + 1) /\ q + 2 <= q + 3 + (d + 1) /\ q + 3 <= q + 3 + (d + 1)
    BY <1>1
  <2>3. a[q + 1] = m[q + 1] /\ a[q + 2] = m[q + 2] /\ a[q + 3] = m[q + 3]
    BY <1>2, <2>2
  <2>4. b[q + 1] = "r" /\ b[q + 2] = "n" /\ b[q + 3] = "." /\ b[q + 4] = "."
    BY <1>3, <2>2, <2>3 DEF StartsAt
  <2>5. /\ q + 1 \in q + 1 .. q + 4 /\ q + 2 \in q + 1 .. q + 4 /\ q + 3 \in q + 1 .. q + 4
        /\ q + 4 \in q + 1 .. q + 4
    OBVIOUS
  <2>6. r[(q + 1) + d] = "r" /\ r[(q + 2) + d] = "n" /\ r[(q + 3) + d] = "." /\ r[(q + 4) + d] = "."
    BY <1>5, <2>4, <2>5
  <2>7. /\ (q + 1) + d = q + d + 1 /\ (q + 2) + d = q + d + 2
        /\ (q + 3) + d = q + d + 3 /\ (q + 4) + d = q + d + 4
    OBVIOUS
  <2>8. \A i \in 1 .. 4 : r[q + d + i] = t[i]
    <3>1. \A i \in 1 .. 4 : i = 1 \/ i = 2 \/ i = 3 \/ i = 4
      OBVIOUS
    <3> QED BY <2>1, <2>6, <2>7, <3>1
  <2>9. Holds(r, q + d, t)
    BY <2>1, <2>8 DEF Holds
  <2> QED BY <2>9 DEF t
<1> QED BY ONLY <1>5, <1>6, <1>7, <1>8, <1>9 DEF L, Moved

(* One turn keeps the invariant of the loop. *)
LEMMA LoopStep ==
  ASSUME NEW s \in Seq(Octet), NEW a \in Nat, a <= Len(s), NEW dots \in Nat,
         NEW d \in Nat, d < dots,
         NEW m \in Seq(Octet), NEW p \in Nat, Loop(s, a, dots, m, p, d + 1),
         NEW q \in Nat, q \in DotsIn(s, a, p), \A i \in DotsIn(s, a, p) : i <= q, NEW n,
         n = MoveRight([MoveRight(m, q + 3, p, d + 1) EXCEPT ![q + 4] = "."], q, q + 4, d)
  PROVE  Loop(s, a, dots, n, q, d)
<1> DEFINE L == Len(s)
           u == SubSeq(s, q + 4, p)
           v == Rest(s, p)
           w == DottedLine
           k == q + d
<1>1. L \in Nat /\ d + 1 <= dots
  BY LenProperties
<1>2. /\ Len(m) = L + dots /\ p \in a .. L /\ (p = L \/ s[p + 1] = "r")
      /\ Cardinality(DotsIn(s, a, p)) = d + 1
      /\ \A i \in 1 .. p : m[i] = s[i]
      /\ p + (d + 1) + Len(v) = L + dots
      /\ Holds(m, p + (d + 1), v)
  BY DEF Loop
<1>3. p <= L /\ a <= p /\ p <= Len(m)
  BY <1>1, <1>2
<1>4. /\ q \in a .. p - 3 /\ StartsAt(s, q)
      /\ Cardinality(DotsIn(s, a, q)) = Cardinality(DotsIn(s, a, p)) - 1
      /\ Double(SubSeq(s, q + 1, p)) = w \o u
  <2>1. p \in a .. Len(s)
    BY <1>2
  <2>2. CutAt(s, a, p, q)
    BY <2>1, LastDot
  <2> QED BY <2>2 DEF CutAt
<1>5. q + 3 <= p /\ q <= L /\ q + 1 \in 1 .. p /\ q + 2 \in 1 .. p /\ q + 3 \in 1 .. p
  BY <1>1, <1>3, <1>4
<1>6. StartsAt(m, q)
  BY <1>2, <1>4, <1>5 DEF StartsAt
<1>7. /\ u \in Seq(Octet) /\ Len(u) = p - q - 3
       /\ \A i \in 1 .. p - q - 3 : u[i] = s[q + 3 + i]
  <2>1. q + 3 \in Nat /\ p \in q + 3 .. Len(s) /\ (q + 3) + 1 = q + 4 /\ p - (q + 3) = p - q - 3
    BY <1>3, <1>5
  <2>2. /\ SubSeq(s, (q + 3) + 1, p) \in Seq(Octet) /\ Len(SubSeq(s, (q + 3) + 1, p)) = p - (q + 3)
        /\ \A i \in 1 .. p - (q + 3) : SubSeq(s, (q + 3) + 1, p)[i] = s[(q + 3) + i]
    BY <2>1, PartIs
  <2> QED BY <2>1, <2>2
<1> HIDE DEF u, v, w
<1>8. v \in Seq(Octet) /\ Len(v) \in Nat
  <2>1. SubSeq(s, p + 1, L) \in Seq(Octet)
    BY <1>1, <1>3, PartIs
  <2> QED BY <2>1, DoubleType, LenProperties DEF Rest, v
<1>9. w \in Seq(Octet) /\ Len(w) = 4
  BY DottedLineIs DEF w
<1>10. Rest(s, q) = (w \o u) \o v
  <2>1. SubSeq(s, q + 1, L) = SubSeq(s, q + 1, p) \o SubSeq(s, p + 1, L)
    <3>1. p \in q .. L /\ L \in p .. L
      BY <1>1, <1>3, <1>5
    <3> QED BY <1>5, <3>1, PartsCat
  <2>2. SubSeq(s, q + 1, p) \in Seq(Octet)
    BY <1>3, <1>5, PartIs
  <2>3. /\ SubSeq(s, p + 1, L) \in Seq(Octet) /\ Len(SubSeq(s, p + 1, L)) = L - p
        /\ \A i \in 1 .. L - p : SubSeq(s, p + 1, L)[i] = s[p + i]
    BY <1>1, <1>3, PartIs
  <2> DEFINE x == SubSeq(s, q + 1, p)
             y == SubSeq(s, p + 1, L)
  <2> HIDE DEF x, y
  <2>4. y = <<>> \/ y[1] = "r"
    <3>1. CASE p = L
      BY <1>1, <2>3, <3>1, EmptySeq DEF y
    <3>2. CASE p # L
      <4>1. 1 \in 1 .. L - p
        BY <1>1, <1>3, <3>2
      <4> QED BY <1>2, <2>3, <3>2, <4>1 DEF y
    <3> QED BY <3>1, <3>2
  <2>5. Double(x \o y) = Double(x) \o Double(y)
    BY <2>2, <2>3, <2>4, DoubleCut DEF x, y
  <2> QED BY <1>4, <2>1, <2>5 DEF x, y, Rest, u, v, w
<1>11. /\ n \in Seq(Octet) /\ Len(n) = Len(m)
       /\ \A i \in 1 .. q : n[i] = m[i]
       /\ Holds(n, k, w)
       /\ \A i \in q + 4 .. p : n[i + d + 1] = m[i]
       /\ \A i \in p + d + 2 .. Len(m) : n[i] = m[i]
  <2>1. p + d + 1 <= Len(m)
    BY <1>1, <1>2, <1>3
  <2> HIDE DEF L
  <2>2. Moved(m, n, q, p, d)
    BY <1>5, <1>6, <2>1, TurnMoves
  <2> QED BY ONLY <2>2 DEF w, Moved
<1>12. Holds(n, k + 4, u)
  <2>1. ASSUME NEW i \in 1 .. p - q - 3 PROVE n[k + 4 + i] = u[i]
    <3>1. q + 3 + i \in q + 4 .. p /\ q + 3 + i \in 1 .. p /\ q + 3 + i + d + 1 = k + 4 + i
      BY <1>1, <1>3, <1>5
    <3>2. n[q + 3 + i + d + 1] = m[q + 3 + i]
      BY <1>11, <3>1
    <3> QED BY <1>2, <1>7, <3>1, <3>2
  <2> QED BY <1>7, <2>1 DEF Holds
<1>13. Holds(n, p + (d + 1), v)
  <2>1. ASSUME NEW i \in 1 .. Len(v) PROVE n[p + (d + 1) + i] = v[i]
    <3>1. p + (d + 1) + i \in p + d + 2 .. Len(m)
      BY <1>1, <1>2, <1>3, <1>8 DEF v
    <3>2. m[p + (d + 1) + i] = v[i]
      BY <1>2 DEF Holds, v
    <3> QED BY <1>11, <3>1, <3>2
  <2> QED BY <2>1 DEF Holds
<1>14. Holds(n, k, (w \o u) \o v)
  <2>1. w \o u \in Seq(Octet) /\ Len(w \o u) = 4 + (p - q - 3)
    <3>1. w \o u \in Seq(Octet) /\ Len(w \o u) = Len(w) + Len(u)
      BY <1>7, <1>9, CatLen
    <3> QED BY <1>7, <1>9, <3>1
  <2>2. Holds(n, k, w \o u)
    <3>1. k \in Nat
      BY <1>1, <1>5
    <3>2. Holds(n, k + Len(w), u)
      BY ONLY <1>9, <1>12
    <3>3. Holds(n, k, w)
      BY ONLY <1>11
    <3> HIDE DEF k
    <3> QED BY <1>7, <1>9, <3>1, <3>2, <3>3, HoldsCat
  <2>3. k + Len(w \o u) = p + (d + 1)
    BY <1>1, <1>3, <1>5, <2>1
  <2>4. k \in Nat
    BY <1>1, <1>5
  <2> QED BY <1>8, <1>13, <2>1, <2>2, <2>3, <2>4, HoldsCat
<1>15. q + d + Len(Rest(s, q)) = L + dots
  <2>1. w \o u \in Seq(Octet) /\ Len(w \o u) = 4 + (p - q - 3)
    <3>1. w \o u \in Seq(Octet) /\ Len(w \o u) = Len(w) + Len(u)
      BY <1>7, <1>9, CatLen
    <3> QED BY <1>7, <1>9, <3>1
  <2>2. Len((w \o u) \o v) = Len(w \o u) + Len(v)
    BY <1>8, <2>1, CatLen
  <2>3. p + (d + 1) + Len(v) = L + dots
    BY <1>2 DEF v
  <2>4. Len(Rest(s, q)) = 4 + (p - q - 3) + Len(v)
    BY <1>10, <2>1, <2>2
  <2>5. PICK g \in Nat : g = Len(v)
    BY <1>8
  <2>6. Len(Rest(s, q)) = 4 + (p - q - 3) + g /\ p + (d + 1) + g = L + dots
    BY <2>3, <2>4, <2>5
  <2> HIDE DEF L, v
  <2>7. q + d + (4 + (p - q - 3) + g) = p + (d + 1) + g
    OBVIOUS
  <2> QED BY ONLY <2>6, <2>7
<1>16. \A i \in 1 .. q : n[i] = s[i]
  <2>1. \A i \in 1 .. q : i \in 1 .. p
    BY <1>3, <1>5
  <2> QED BY <1>2, <1>11, <2>1
<1>17. q \in a .. L /\ s[q + 1] = "r" /\ Cardinality(DotsIn(s, a, q)) = d
  <2>1. Cardinality(DotsIn(s, a, q)) = (d + 1) - 1
    BY <1>2, <1>4
  <2> QED BY <1>1, <1>3, <1>4, <1>5, <2>1 DEF StartsAt
<1> HIDE DEF L
<1> QED BY <1>2, <1>10, <1>11, <1>14, <1>15, <1>16, <1>17 DEF Loop, L
-----------------------------------------------------------------------------
(* How the loop begins and ends. *)
LEMMA NoDots ==
  ASSUME NEW s \in Seq(Octet), NEW a \in Nat, NEW p \in Nat, p \in a .. Len(s),
         DotsIn(s, a, p) = {}, NEW t, t = SubSeq(s, a + 1, p)
  PROVE  Double(t) = t
<1>1. Len(s) \in Nat /\ p <= Len(s) /\ a <= p
  BY LenProperties
<1>2. t \in Seq(Octet) /\ Len(t) = p - a /\ \A i \in 1 .. p - a : t[i] = s[a + i]
  BY PartIs
<1>3. DotsIn(s, a, p) = {i \in a .. p - 3 : StartsAt(s, i)}
  BY <1>1, DotsAre
<1>4. ASSUME NEW i \in 1 .. p - a, Doubles(t, i) PROVE FALSE
  <2>1. i > 2 /\ t[i] = "." /\ t[i - 2] = "r" /\ t[i - 1] = "n"
    BY <1>4 DEF Doubles
  <2>2. i \in 1 .. p - a /\ i - 1 \in 1 .. p - a /\ i - 2 \in 1 .. p - a
    BY <1>1, <2>1
  <2>3. s[a + i] = "." /\ s[a + (i - 2)] = "r" /\ s[a + (i - 1)] = "n"
    BY <1>2, <2>1, <2>2
  <2>4. (a + i - 3) + 1 = a + (i - 2) /\ (a + i - 3) + 2 = a + (i - 1) /\ (a + i - 3) + 3 = a + i
        /\ a + i - 3 \in a .. p - 3
    BY <1>1, <2>1, <2>2
  <2>5. StartsAt(s, a + i - 3)
    BY <2>3, <2>4 DEF StartsAt
  <2> QED BY <1>3, <2>4, <2>5
<1>5. ASSUME NEW e \in Seq(Octet), e = <<>> PROVE Double(e \o t) = Double(e) \o t
  <2>1. Len(e) = 0 /\ e \o t = t
    BY <1>2, <1>5, EmptySeq, ConcatEmptySeq
  <2>2. \A i \in Len(e) + 1 .. Len(e) + Len(t) : ~Doubles(e \o t, i)
    BY <1>2, <1>4, <2>1
  <2> QED BY <1>2, <2>2, DoubleOn
<1>6. <<>> \in Seq(Octet) /\ <<>> \o t = t /\ Double(<<>>) = <<>>
  BY <1>2, EmptySeq, ConcatEmptySeq, DoubleNil
<1> QED BY <1>5, <1>6

LEMMA LoopBegins ==
  ASSUME NEW s \in Seq(Octet), NEW a \in Nat, a <= Len(s), NEW room \in Seq(Octet),
         NEW dots \in Nat, Len(room) = dots, Cardinality(DotsIn(s, a, Len(s))) = dots
  PROVE  Loop(s, a, dots, s \o room, Len(s), dots)
<1> DEFINE L == Len(s)
           m == s \o room
<1>1. L \in Nat
  BY LenProperties
<1>2. m \in Seq(Octet) /\ Len(m) = L + dots /\ \A i \in 1 .. L : m[i] = s[i]
  BY CatIs
<1>3. Rest(s, L) = <<>>
  <2>1. SubSeq(s, L + 1, L) = <<>>
    <3>1. L + 1 \in Int /\ L \in Int /\ L < L + 1
      BY <1>1
    <3> QED BY <3>1, SubSeqEmpty
  <2> QED BY <2>1, DoubleNil DEF Rest
<1>4. Len(Rest(s, L)) = 0
  BY <1>3, EmptySeq
<1>5. Holds(m, L + dots, Rest(s, L))
  BY <1>4 DEF Holds
<1> HIDE DEF m, L
<1>6. L \in a .. L /\ L + dots + 0 = L + dots
  BY <1>1 DEF L
<1>7. Loop(s, a, dots, m, L, dots)
  BY <1>2, <1>4, <1>5, <1>6 DEF Loop, L
<1> QED BY <1>7 DEF m, L

LEMMA LoopEnds ==
  ASSUME NEW s \in Seq(Octet), NEW a \in Nat, a <= Len(s), NEW dots \in Nat, NEW m \in Seq(Octet),
         NEW p \in Nat, Loop(s, a, dots, m, p, 0)
  PROVE  m = SubSeq(s, 1, a) \o Double(SubSeq(s, a + 1, Len(s)))
<1> DEFINE L == Len(s)
           t == SubSeq(s, 1, a)
           x == SubSeq(s, a + 1, p)
           y == SubSeq(s, p + 1, L)
           v == Double(y)
<1>1. L \in Nat
  BY LenProperties
<1>2. /\ Len(m) = L + dots /\ p \in a .. L /\ (p = L \/ s[p + 1] = "r")
      /\ Cardinality(DotsIn(s, a, p)) = 0
      /\ \A i \in 1 .. p : m[i] = s[i]
      /\ p + 0 + Len(v) = L + dots
      /\ Holds(m, p + 0, v)
  BY DEF Loop, Rest
<1>3. a <= p /\ p <= L /\ p + 0 = p
  BY <1>1, <1>2
<1>4. /\ t \in Seq(Octet) /\ Len(t) = a /\ \A i \in 1 .. a : t[i] = s[i]
  <2>1. a \in 0 .. Len(s) /\ 0 + 1 = 1 /\ a - 0 = a /\ 0 \in Nat /\ \A i \in 1 .. a : 0 + i = i
    BY <1>1
  <2>2. /\ SubSeq(s, 0 + 1, a) \in Seq(Octet) /\ Len(SubSeq(s, 0 + 1, a)) = a - 0
        /\ \A i \in 1 .. a - 0 : SubSeq(s, 0 + 1, a)[i] = s[0 + i]
    BY <2>1, PartIs
  <2> QED BY <2>1, <2>2
<1>5. /\ x \in Seq(Octet) /\ Len(x) = p - a /\ \A i \in 1 .. p - a : x[i] = s[a + i]
  BY <1>2, PartIs
<1>6. /\ y \in Seq(Octet) /\ Len(y) = L - p /\ \A i \in 1 .. L - p : y[i] = s[p + i]
  BY <1>1, <1>3, PartIs
<1>7. SubSeq(s, a + 1, L) = x \o y
  <2>1. p \in a .. L /\ L \in p .. L
    BY <1>1, <1>3
  <2> QED BY <2>1, PartsCat
<1>8. Double(x) = x
  <2>1. IsFiniteSet(DotsIn(s, a, p))
    BY <1>3, DotsAre
  <2>2. DotsIn(s, a, p) = {}
    BY <1>2, <2>1, FS_EmptySet
  <2> QED BY <1>2, <2>2, NoDots
<1> HIDE DEF t, x, y
<1>9. y = <<>> \/ y[1] = "r"
  <2>1. CASE p = L
    <3>1. Len(y) = 0
      BY <1>1, <1>6, <2>1
    <3> QED BY <1>6, <3>1, EmptySeq
  <2>2. CASE p # L
    <3>1. 1 \in 1 .. L - p
      BY <1>1, <1>3, <2>2
    <3> QED BY <1>2, <1>6, <2>2, <3>1
  <2> QED BY <2>1, <2>2
<1>10. Double(x \o y) = x \o v
  <2>1. Double(x \o y) = Double(x) \o Double(y)
    BY ONLY <1>5, <1>6, <1>9, DoubleCut
  <2> QED BY <1>8, <2>1
<1>11. v \in Seq(Octet) /\ Len(v) \in Nat
  BY <1>6, DoubleType, LenProperties
<1> HIDE DEF v
<1>12. Holds(m, a, x)
  <2>1. ASSUME NEW i \in 1 .. p - a PROVE m[a + i] = x[i]
    <3>1. a + i \in 1 .. p
      BY <1>3
    <3> QED BY <1>2, <1>5, <3>1
  <2> QED BY <1>5, <2>1 DEF Holds
<1>13. Holds(m, 0, t)
  <2>1. ASSUME NEW i \in 1 .. a PROVE m[0 + i] = t[i]
    <3>1. i \in 1 .. p /\ 0 + i = i
      BY <1>3
    <3> QED BY <1>2, <1>4, <3>1
  <2> QED BY <1>4, <2>1 DEF Holds
<1>14. Holds(m, a, x \o v)
  <2>1. a + Len(x) = p
    BY <1>3, <1>5
  <2>2. Holds(m, a + Len(x), v)
    BY <1>2, <1>3, <2>1
  <2> QED BY <1>5, <1>11, <1>12, <2>2, HoldsCat
<1> DEFINE w == x \o v
<1>15. w \in Seq(Octet) /\ Len(w) = Len(x) + Len(v)
  BY <1>5, <1>11, CatLen
<1> HIDE DEF w
<1>16. Holds(m, 0, t \o w)
  <2>1. 0 + Len(t) = a /\ 0 \in Nat
    BY <1>4
  <2>2. Holds(m, 0 + Len(t), w)
    BY <1>14, <2>1 DEF w
  <2> QED BY <1>4, <1>13, <1>15, <2>1, <2>2, HoldsCat
<1>17. t \o w \in Seq(Octet) /\ Len(t \o w) = Len(t) + Len(w)
  BY <1>4, <1>15, CatLen
<1>18. Len(t \o w) = Len(m)
  BY <1>1, <1>2, <1>3, <1>4, <1>5, <1>11, <1>15, <1>17
<1>19. m = t \o w
  <2> DEFINE c == t \o w
  <2> HIDE DEF c
  <2> QED BY <1>16, <1>17, <1>18, HoldsSame DEF c
<1> QED BY <1>7, <1>10, <1>19 DEF t, w

(* The loop doubles the dots, and nothing before the mark.                 *)
LEMMA StuffedIs ==
  ASSUME NEW s \in Seq(Octet), NEW a \in Nat, z = a, a <= Len(s), NEW room \in Seq(Octet),
         NEW dots \in Nat, Len(room) = dots, Cardinality(DotsIn(s, a, Len(s))) = dots
  PROVE  /\ Stuffed(s \o room, Len(s), dots) = SubSeq(s, 1, a) \o Double(SubSeq(s, a + 1, Len(s)))
         /\ Stuffed(s \o room, Len(s), dots) \in Seq(Octet)
         /\ Len(Stuffed(s \o room, Len(s), dots)) = Len(s) + dots
<1>1. PICK at : StuffedWith(s \o room, Len(s), dots, at)
  BY StuffedBy
<1>2. /\ Stuffed(s \o room, Len(s), dots) = at[0].m
      /\ at[dots] = [m |-> s \o room, p |-> Len(s)]
      /\ \A d \in 0 .. dots - 1 : at[d] = Turn(at[d + 1], d)
  BY <1>1 DEF StuffedWith
<1> DEFINE Good(d) == Loop(s, a, dots, at[d].m, at[d].p, d)
           S == {k \in Nat : k <= dots => Good(dots - k)}
<1>3. Good(dots)
  BY <1>2, LoopBegins
<1>4. ASSUME NEW d \in Nat, d < dots, Good(d + 1) PROVE Good(d)
  <2>1. PICK m \in Seq(Octet), p \in Nat :
          m = at[d + 1].m /\ p = at[d + 1].p /\ p <= Len(s) /\ a <= p
    BY <1>4, LenProperties DEF Loop
  <2>2. Loop(s, a, dots, m, p, d + 1)
    BY <1>4, <2>1
  <2>3. /\ m \in Seq(Octet) /\ p <= Len(m) /\ Cardinality(DotsIn(s, a, p)) = d + 1
        /\ \A i \in 1 .. p : m[i] = s[i]
    <3>1. Len(m) = Len(s) + dots
      BY <2>2 DEF Loop
    <3>2. p <= Len(m)
      BY <2>1, <3>1, LenProperties
    <3> QED BY <2>2, <3>2 DEF Loop
  <2>4. DotsIn(m, a, p) = DotsIn(s, a, p)
    <3>1. p <= Len(s)
      BY <2>1
    <3> QED BY ONLY <2>3, <3>1, SameDots, s \in Seq(Octet), a \in Nat, p \in Nat
  <2>5. DotsIn(s, a, p) # {} /\ DotsIn(s, a, p) \in SUBSET (0 .. p)
    <3>1. Cardinality({}) = 0
      BY FS_EmptySet
    <3>2. d + 1 # 0
      OBVIOUS
    <3>3. DotsIn(s, a, p) \in SUBSET (0 .. p)
      BY <2>1, DotsAre
    <3> QED BY <2>3, <3>1, <3>2, <3>3
  <2>6. PICK q \in Nat : /\ q = Max(DotsIn(s, a, p)) /\ q \in DotsIn(s, a, p)
                         /\ \A i \in DotsIn(s, a, p) : i <= q
    <3>1. \A D \in SUBSET (0 .. p) : D # {} => Max(D) \in D /\ \A j \in D : j <= Max(D)
      BY MaxIs
    <3>2. /\ Max(DotsIn(s, a, p)) \in DotsIn(s, a, p)
          /\ \A j \in DotsIn(s, a, p) : j <= Max(DotsIn(s, a, p))
      BY <2>5, <3>1
    <3> QED BY <2>5, <3>2
  <2>7. PICK n : n = MoveRight([MoveRight(m, q + 3, p, d + 1) EXCEPT ![q + 4] = "."], q, q + 4, d)
    OBVIOUS
  <2>8. Loop(s, a, dots, n, q, d)
    BY <1>4, <2>2, <2>6, <2>7, LoopStep
  <2>9. Turn(at[d + 1], d) = [m |-> n, p |-> q]
    BY <2>1, <2>4, <2>6, <2>7 DEF Turn
  <2>10. at[d] = [m |-> n, p |-> q]
    <3>1. d \in 0 .. dots - 1
      BY <1>4
    <3> QED BY <1>2, <2>9, <3>1
  <2> QED BY <2>8, <2>10
<1>5. 0 \in S
  BY <1>3
<1>6. ASSUME NEW k \in S PROVE k + 1 \in S
  <2>1. SUFFICES ASSUME k + 1 <= dots PROVE Good(dots - (k + 1))
    OBVIOUS
  <2>2. /\ dots - (k + 1) \in Nat /\ dots - (k + 1) < dots
        /\ (dots - (k + 1)) + 1 = dots - k /\ k <= dots
    BY <2>1
  <2> HIDE DEF Good
  <2>3. Good(dots - k)
    BY <2>2
  <2> QED BY <1>4, <2>2, <2>3
<1>7. S \in SUBSET Nat
  OBVIOUS
<1>8. dots \in S
  <2> HIDE DEF S
  <2> QED BY <1>5, <1>6, <1>7, AllNat
<1>9. Good(0)
  <2> HIDE DEF Good
  <2>1. dots - dots = 0 /\ dots <= dots
    OBVIOUS
  <2> QED BY <1>8, <2>1
<1>10. PICK m \in Seq(Octet), p \in Nat : m = at[0].m /\ p = at[0].p
  BY <1>9, LenProperties DEF Loop
<1>11. m = SubSeq(s, 1, a) \o Double(SubSeq(s, a + 1, Len(s)))
  BY <1>9, <1>10, LoopEnds
<1>12. Len(m) = Len(s) + dots
  BY <1>9, <1>10 DEF Loop
<1> QED BY <1>2, <1>10, <1>11, <1>12
-----------------------------------------------------------------------------
(* The whole of vec_ is what precedes the mark, then the text. *)
Types ==
  /\ vec \in Seq(Octet) /\ wire \in Seq(Octet) /\ text \in Seq(Octet) /\ promised \in Seq(Octet)
  /\ size \in Nat /\ size >= 10
  /\ pbase \in 0 .. Len(vec) /\ z \in 0 .. Len(vec)
  /\ flushing \in BOOLEAN

Queued ==
  ~flushing => /\ pbase = 0
               /\ SubSeq(vec, z + 1, Len(vec)) = text /\ wire \o SubSeq(vec, 1, z) = promised
               /\ z > 0 => vec[z] = "n"

Leaving ==
  flushing => text = <<>> /\ wire \o SubSeq(vec, pbase + 1, Len(vec)) = promised

IInv == Types /\ Queued /\ Leaving

LEMMA Whole == \A s \in Seq(Octet) : SubSeq(s, 1, Len(s)) = s
BY SubSeqFull

LEMMA Nothing ==
  ASSUME NEW s, NEW n \in Nat
  PROVE  SubSeq(s, n + 1, n) = <<>>
<1>1. n + 1 \in Int /\ n \in Int /\ n < n + 1
  OBVIOUS
<1> QED BY <1>1, SubSeqEmpty

(* The invariant holds to begin with. *)
LEMMA InitInv == Init => IInv
<1> SUFFICES ASSUME Init PROVE IInv
  OBVIOUS
<1>1. <<>> \in Seq(Octet) /\ Len(<<>>) = 0
  BY EmptySeq
<1>2. SubSeq(<<>>, 0 + 1, 0) = <<>> /\ <<>> \o <<>> = <<>>
  BY <1>1, Nothing, ConcatEmptySeq
<1>3. SubSeq(<<>>, 1, 0) = <<>>
  BY <1>2
<1>4. Types
  <2>1. vec \in Seq(Octet) /\ wire \in Seq(Octet) /\ text \in Seq(Octet) /\ promised \in Seq(Octet)
    BY <1>1 DEF Init
  <2>2. size \in Nat /\ size >= 10 /\ flushing \in BOOLEAN
    BY ResponseBufAssumption DEF Init
  <2>3. Len(vec) = 0 /\ pbase = 0 /\ z = 0
    BY <1>1 DEF Init
  <2> QED BY <2>1, <2>2, <2>3 DEF Types
<1>5. Queued /\ Leaving
  BY <1>1, <1>2, <1>3 DEF Init, Queued, Leaving
<1> QED BY <1>4, <1>5 DEF IInv

(* Whatever there is, written or not, is what it should be. *)
LEMMA AllRight ==
  ASSUME IInv
  PROVE  wire \o SubSeq(vec, pbase + 1, Len(vec)) = promised \o text
<1>1. Types /\ Queued /\ Leaving
  BY DEF IInv
<1>2. CASE flushing
  <2>1. promised \o <<>> = promised
    BY <1>1, ConcatEmptySeq DEF Types
  <2> QED BY <1>1, <1>2, <2>1 DEF Leaving
<1>3. CASE ~flushing
  <2> DEFINE a == SubSeq(vec, 1, z)
  <2>1. PICK k \in Nat : k = z /\ k <= Len(vec)
    BY <1>1, LenProperties DEF Types
  <2>2. vec \in Seq(Octet) /\ wire \in Seq(Octet) /\ text \in Seq(Octet) /\ Len(vec) \in Nat
    BY <1>1, LenProperties DEF Types
  <2>3. SubSeq(vec, 0 + 1, Len(vec)) = SubSeq(vec, 0 + 1, k) \o SubSeq(vec, k + 1, Len(vec))
    <3>1. k \in 0 .. Len(vec) /\ Len(vec) \in k .. Len(vec) /\ 0 \in Nat
      BY <2>1, <2>2
    <3> QED BY <2>2, <3>1, PartsCat
  <2>4. SubSeq(vec, 0 + 1, k) \in Seq(Octet)
    <3>1. k \in 0 .. Len(vec) /\ 0 \in Nat
      BY <2>1, <2>2
    <3> QED BY <2>2, <3>1, PartIs
  <2>5. 0 + 1 = 1
    OBVIOUS
  <2>6. SubSeq(vec, 1, Len(vec)) = a \o text /\ a \in Seq(Octet)
    BY <1>1, <1>3, <2>1, <2>3, <2>4, <2>5 DEF Queued
  <2>7. wire \o a = promised
    BY <1>1, <1>3 DEF Queued
  <2> HIDE DEF a
  <2>8. wire \o (a \o text) = (wire \o a) \o text
    <3>1. Cat(Cat(wire, a), text) = Cat(wire, Cat(a, text))
      BY ONLY <2>2, <2>6, Associates
    <3> QED BY ONLY <3>1 DEF Cat
  <2> QED BY <1>1, <1>3, <2>5, <2>6, <2>7, <2>8 DEF Queued
<1> QED BY <1>2, <1>3
-----------------------------------------------------------------------------
LEMMA PutKeeps ==
  ASSUME IInv, NEW piece \in Pieces, Put(piece)
  PROVE  IInv'
<1>1. /\ Types /\ Queued /\ ~flushing /\ vec' = vec \o piece /\ text' = text \o piece
      /\ size' = (IF Len(vec) + Len(piece) > size THEN Grown ELSE size)
      /\ UNCHANGED <<pbase, z, flushing, wire, promised>>
  BY DEF IInv, Put
<1>2. /\ vec \in Seq(Octet) /\ text \in Seq(Octet) /\ Len(vec) \in Nat
      /\ piece \in Seq(Octet) /\ Len(piece) \in Nat
  BY <1>1, ResponseBufAssumption, LenProperties DEF Types, Octet
<1>3. PICK k \in Nat : k = z /\ k <= Len(vec)
  BY <1>1, <1>2 DEF Types
<1>4. /\ vec' \in Seq(Octet) /\ Len(vec') = Len(vec) + Len(piece)
      /\ \A i \in 1 .. Len(vec) : vec'[i] = vec[i]
  <2> DEFINE m == Len(vec)
             n == Len(piece)
  <2>1. Len(vec) = m /\ Len(piece) = n
    OBVIOUS
  <2> HIDE DEF m, n
  <2>2. /\ vec \o piece \in Seq(Octet) /\ Len(vec \o piece) = m + n
        /\ \A i \in 1 .. m : (vec \o piece)[i] = vec[i]
    BY <1>2, <2>1, CatIs
  <2> QED BY <1>1, <2>1, <2>2
<1>5. text' \in Seq(Octet)
  BY <1>1, <1>2, ConcatProperties
<1>6. SubSeq(vec', k + 1, Len(vec')) = text'
  <2>1. SubSeq(vec \o piece, k + 1, Len(vec \o piece)) = SubSeq(vec, k + 1, Len(vec)) \o piece
    BY <1>2, <1>3, PartGrows
  <2> QED BY <1>1, <1>3, <2>1 DEF Queued
<1>7. SubSeq(vec', 0 + 1, k) = SubSeq(vec, 0 + 1, k)
  <2>1. 0 \in Nat /\ 0 <= k
    OBVIOUS
  <2> QED BY <1>1, <1>2, <1>3, <2>1, PartStays
<1>8. size' \in Nat /\ size' >= 10
  BY <1>1 DEF Types, Grown
<1>9. Types'
  <2>1. pbase' \in 0 .. Len(vec') /\ z' \in 0 .. Len(vec')
    BY <1>1, <1>2, <1>4 DEF Types
  <2> QED BY <1>1, <1>4, <1>5, <1>8, <2>1 DEF Types
<1>10. Queued'
  <2>1. 0 + 1 = 1 /\ z' = k
    BY <1>1, <1>3
  <2>2. SubSeq(vec', 1, k) = SubSeq(vec, 1, k)
    BY <1>7, <2>1
  <2>3. z > 0 => vec'[z] = vec[z]
    <3>1. k > 0 => k \in 1 .. Len(vec)
      BY <1>3
    <3> QED BY <1>3, <1>4, <3>1
  <2> QED BY <1>1, <1>3, <1>6, <2>1, <2>2, <2>3 DEF Queued
<1> QED BY <1>1, <1>9, <1>10 DEF IInv, Leaving

LEMMA FlushKeeps ==
  ASSUME IInv, NEW n \in Nat, Flush(n)
  PROVE  IInv'
<1>1. /\ Types /\ n <= Len(vec) - pbase
      /\ wire' = wire \o SubSeq(vec, pbase + 1, pbase + n)
      /\ promised' = promised \o text /\ text' = <<>>
      /\ flushing' = (pbase + n < Len(vec)) /\ size' = size
      /\ IF flushing' THEN pbase' = pbase + n /\ UNCHANGED <<vec, z>> ELSE ClearBuf
  BY DEF IInv, Flush
<1>2. PICK k \in Nat : k = pbase /\ k + n <= Len(vec)
  BY <1>1, LenProperties DEF Types
<1>3. /\ vec \in Seq(Octet) /\ wire \in Seq(Octet) /\ Len(vec) \in Nat
      /\ promised \in Seq(Octet) /\ text \in Seq(Octet)
  BY <1>1, LenProperties DEF Types
<1> DEFINE b == k + n
           L == Len(vec)
           x == SubSeq(vec, k + 1, b)
           y == SubSeq(vec, b + 1, L)
<1>4. b \in Nat /\ b \in k .. L /\ L \in b .. L /\ b <= L
  BY <1>2, <1>3
<1> HIDE DEF b
<1>5. x \in Seq(Octet) /\ y \in Seq(Octet) /\ SubSeq(vec, k + 1, L) = x \o y
  <2>1. x \in Seq(Octet) /\ y \in Seq(Octet)
    BY <1>3, <1>4, PartIs
  <2>2. SubSeq(vec, k + 1, L) = x \o y
    BY ONLY <1>3, <1>4, k \in Nat, PartsCat
  <2> QED BY <2>1, <2>2
<1>6. wire' = wire \o x
  BY <1>1, <1>2 DEF b
<1> HIDE DEF x, y
<1>7. wire' \o y = promised'
  <2>1. wire \o (x \o y) = (wire \o x) \o y
    <3>1. Cat(Cat(wire, x), y) = Cat(wire, Cat(x, y))
      BY ONLY <1>3, <1>5, Associates
    <3> QED BY ONLY <3>1 DEF Cat
  <2>2. wire \o (x \o y) = promised \o text
    BY <1>2, <1>5, AllRight
  <2> QED BY <1>1, <1>6, <2>1, <2>2
<1>8. wire' \in Seq(Octet) /\ promised' \in Seq(Octet) /\ text' \in Seq(Octet)
  <2>1. wire \o x \in Seq(Octet)
    BY <1>3, <1>5, CatLen
  <2>2. promised \o text \in Seq(Octet)
    BY <1>3, CatLen
  <2> QED BY <1>1, <1>6, <2>1, <2>2, EmptySeq
<1>9. CASE flushing'
  <2>1. vec' = vec /\ z' = z /\ pbase' = b
    BY <1>1, <1>2, <1>9 DEF b
  <2>2. Types'
    BY <1>1, <1>3, <1>4, <1>8, <1>9, <2>1 DEF Types
  <2>3. Leaving'
    BY <1>1, <1>7, <2>1 DEF Leaving, y
  <2> QED BY <1>9, <2>2, <2>3 DEF IInv, Queued
<1>10. CASE ~flushing'
  <2>1. vec' = <<>> /\ pbase' = 0 /\ z' = 0 /\ text' = <<>> /\ Len(<<>>) = 0 /\ <<>> \in Seq(Octet)
    BY <1>1, <1>10, EmptySeq DEF ClearBuf
  <2>2. b = L
    <3>1. ~(pbase + n < Len(vec))
      BY <1>1, <1>10
    <3> QED BY <1>2, <1>3, <3>1 DEF b
  <2>3. y = <<>>
    BY <1>3, <2>2, Nothing DEF y
  <2>4. wire' \o <<>> = promised'
    BY <1>7, <2>3
  <2>5. SubSeq(<<>>, 0 + 1, 0) = <<>>
    BY Nothing
  <2>6. SubSeq(<<>>, 1, 0) = <<>>
    BY <2>5
  <2>7. Types'
    BY <1>1, <1>8, <1>10, <2>1 DEF Types
  <2>8. Queued'
    <3>1. SubSeq(vec', z' + 1, Len(vec')) = text'
      BY <2>1, <2>5
    <3>2. wire' \o SubSeq(vec', 1, z') = promised'
      BY <2>1, <2>4, <2>6
    <3>3. ~(z' > 0)
      BY <2>1
    <3> QED BY <2>1, <3>1, <3>2, <3>3 DEF Queued
  <2> QED BY <1>10, <2>7, <2>8 DEF IInv, Leaving
<1> QED BY <1>9, <1>10
-----------------------------------------------------------------------------
(* The end of the text is the end of all, since no terminator ends in a    *)
(* CR.                                                                     *)
LEMMA SameEnd ==
  ASSUME IInv, ~flushing, text # <<>>
  PROVE  AddExtraCrlf <=> ~IsCrlfTerminated(text)
<1>1. Types /\ Queued
  BY DEF IInv
<1>2. PICK k \in Nat : k = z /\ k <= Len(vec)
  BY <1>1, LenProperties DEF Types
<1>3. vec \in Seq(Octet) /\ text \in Seq(Octet) /\ Len(vec) \in Nat
  BY <1>1, LenProperties DEF Types
<1> DEFINE L == Len(vec)
           n == Len(text)
<1>4. text = SubSeq(vec, k + 1, L) /\ pbase = 0 /\ (k > 0 => vec[k] = "n")
  BY <1>1, <1>2 DEF Queued
<1>5. n = L - k /\ \A i \in 1 .. L - k : text[i] = vec[k + i]
  <2>1. L \in k .. Len(vec)
    BY <1>2, <1>3
  <2> QED BY <1>3, <1>4, <2>1, PartIs
<1>6. n \in Nat /\ n # 0
  BY <1>3, EmptySeq, LenProperties
<1>7. SubSeq(vec, pbase + 1, L) = vec
  <2>1. pbase + 1 = 1
    BY <1>4
  <2> QED BY <1>3, <2>1, Whole
<1>8. IsCrlfTerminated(vec) <=> L >= 2 /\ vec[L - 1] = "r" /\ vec[L] = "n"
  <2>1. SUFFICES ASSUME L >= 2
                 PROVE  SubSeq(vec, L - 1, L) = <<"r", "n">> <=> vec[L - 1] = "r" /\ vec[L] = "n"
    BY DEF IsCrlfTerminated
  <2>2. PICK j \in Nat : j = L - 2
    BY <1>3, <2>1
  <2>3. j + 2 <= Len(vec) /\ j + 1 = L - 1 /\ j + 2 = L
    BY <1>3, <2>2
  <2>4. SubSeq(vec, j + 1, j + 2) = <<"r", "n">> <=> vec[j + 1] = "r" /\ vec[j + 2] = "n"
    BY <1>3, <2>3, TwoIs
  <2> QED BY <2>3, <2>4
<1>9. IsCrlfTerminated(text) <=> n >= 2 /\ text[n - 1] = "r" /\ text[n] = "n"
  <2>1. SUFFICES ASSUME n >= 2
                 PROVE  SubSeq(text, n - 1, n) = <<"r", "n">> <=> text[n - 1] = "r" /\ text[n] = "n"
    BY DEF IsCrlfTerminated
  <2>2. PICK j \in Nat : j = n - 2
    BY <1>6, <2>1
  <2>3. j + 2 <= Len(text) /\ j + 1 = n - 1 /\ j + 2 = n
    BY <1>6, <2>2
  <2>4. SubSeq(text, j + 1, j + 2) = <<"r", "n">> <=> text[j + 1] = "r" /\ text[j + 2] = "n"
    BY <1>3, <2>3, TwoIs
  <2> QED BY <2>3, <2>4
<1>10. IsCrlfTerminated(vec) <=> IsCrlfTerminated(text)
  <2>1. CASE n >= 2
    <3>1. n \in 1 .. L - k /\ n - 1 \in 1 .. L - k /\ k + n = L /\ k + (n - 1) = L - 1 /\ L >= 2
      BY <1>2, <1>3, <1>5, <1>6, <2>1
    <3>2. text[n] = vec[L] /\ text[n - 1] = vec[L - 1]
      BY <1>5, <3>1
    <3> HIDE DEF n, L
    <3> QED BY <1>8, <1>9, <2>1, <3>1, <3>2
  <2>2. CASE n = 1
    <3>1. k = L - 1 /\ (L >= 2 => k > 0)
      BY <1>2, <1>3, <1>5, <2>2
    <3>2. ~ (L >= 2 /\ vec[L - 1] = "r")
      BY <1>4, <3>1
    <3> HIDE DEF n, L
    <3> QED BY <1>8, <1>9, <2>2, <3>2
  <2>3. n = 1 \/ n >= 2
    <3> HIDE DEF n
    <3> QED BY ONLY <1>6
  <2> QED BY <2>1, <2>2, <2>3
<1> QED BY <1>7, <1>10 DEF AddExtraCrlf

Room == [i \in 1 .. Dots |-> "x"]

(* The text, with its dots doubled, behind the mark.                       *)
LEMMA TextStuffed ==
  ASSUME IInv, ~flushing
  PROVE  /\ Dots \in Nat
         /\ Stuffed(vec \o Room, Len(vec), Dots) = SubSeq(vec, 1, z) \o Double(text)
         /\ Stuffed(vec \o Room, Len(vec), Dots) \in Seq(Octet)
         /\ Len(Stuffed(vec \o Room, Len(vec), Dots)) = Len(vec) + Dots
<1>1. Types /\ Queued
  BY DEF IInv
<1>2. PICK k \in Nat : k = z /\ k <= Len(vec)
  BY <1>1, LenProperties DEF Types
<1>3. vec \in Seq(Octet) /\ Len(vec) \in Nat
  BY <1>1, LenProperties DEF Types
<1>4. IsFiniteSet(DotsIn(vec, k, Len(vec)))
  <2>1. \A s \in Seq(Octet) : \A b \in Nat : b <= Len(s) => IsFiniteSet(DotsIn(s, k, b))
    BY DotsAre
  <2> QED BY <1>3, <2>1
<1>5. PICK d \in Nat : d = Dots /\ d = Cardinality(DotsIn(vec, k, Len(vec)))
  BY <1>2, <1>4, FS_CardinalityType DEF Dots
<1>6. PICK room \in Seq(Octet) : room = Room /\ Len(room) = d
  <2> DEFINE r == [i \in 1 .. d |-> "x"]
  <2>1. "x" \in Octet
    BY DEF Octet
  <2>2. r \in [1 .. d -> Octet]
    BY <2>1
  <2>3. Room = r
    BY <1>5 DEF Room
  <2> HIDE DEF r
  <2> QED BY <2>2, <2>3
<1>7. SubSeq(vec, k + 1, Len(vec)) = text
  BY <1>1, <1>2 DEF Queued
<1> DEFINE m == Stuffed(vec \o room, Len(vec), d)
<1>8. /\ m = SubSeq(vec, 1, k) \o Double(SubSeq(vec, k + 1, Len(vec)))
      /\ m \in Seq(Octet) /\ Len(m) = Len(vec) + d
  BY <1>2, <1>3, <1>5, <1>6, StuffedIs
<1> HIDE DEF m
<1>9. m = Stuffed(vec \o Room, Len(vec), Dots)
  BY <1>5, <1>6 DEF m
<1> QED BY <1>2, <1>5, <1>7, <1>8, <1>9

Extra == IF AddExtraCrlf THEN <<"r", "n">> ELSE <<>>

(* What is behind the text now, and how much it is.                        *)
LEMMA EndIs ==
  /\ Extra \in Seq(Octet) /\ Len(Extra) = IF AddExtraCrlf THEN 2 ELSE 0
  /\ <<".", "r", "n">> \in Seq(Octet) /\ Len(<<".", "r", "n">>) = 3 /\ <<".", "r", "n">>[3] = "n"
<1>1. <<"r", "n">> \in Seq(Octet) /\ Len(<<"r", "n">>) = 2 /\ <<>> \in Seq(Octet) /\ Len(<<>>) = 0
  BY EmptySeq DEF Octet
<1>2. <<".", "r", "n">> \in Seq(Octet) /\ Len(<<".", "r", "n">>) = 3 /\ <<".", "r", "n">>[3] = "n"
  BY DEF Octet
<1> QED BY <1>1, <1>2 DEF Extra

(* What put_terminator() leaves in vec_. *)
LEMMA TerminatorPut ==
  ASSUME IInv, PutTerminator
  PROVE  /\ vec' = (Stuffed(vec \o Room, Len(vec), Dots) \o Extra) \o <<".", "r", "n">>
         /\ vec' \in Seq(Octet) /\ Len(vec') = Len(vec) + Dots + (IF AddExtraCrlf THEN 2 ELSE 0) + 3
         /\ vec'[Len(vec')] = "n"
         /\ wire \o vec' = promised'
         /\ promised' \in Seq(Octet)
<1>1. /\ ~flushing /\ text # <<>> /\ promised' = promised \o Terminated(text)
      /\ vec' = (Stuffed(vec \o Room, Len(vec), Dots) \o Extra) \o <<".", "r", "n">>
  BY DEF PutTerminator, Room, Extra
<1>2. Types /\ Queued
  BY DEF IInv
<1> DEFINE a == SubSeq(vec, 1, z)
           b == Double(text)
           c == Extra
           e == <<".", "r", "n">>
           m == Stuffed(vec \o Room, Len(vec), Dots)
<1>3. /\ wire \in Seq(Octet) /\ promised \in Seq(Octet) /\ text \in Seq(Octet) /\ vec \in Seq(Octet)
      /\ Len(vec) \in Nat /\ wire \o a = promised
  BY <1>1, <1>2, LenProperties DEF Types, Queued
<1>4. a \in Seq(Octet)
  <2>1. PICK k \in Nat : k = z /\ k <= Len(vec)
    BY <1>2, <1>3 DEF Types
  <2>2. k \in 0 .. Len(vec) /\ 0 \in Nat /\ 0 + 1 = 1
    BY <2>1, <1>3
  <2>3. SubSeq(vec, 0 + 1, k) \in Seq(Octet)
    BY <1>3, <2>2, PartIs
  <2> QED BY <2>1, <2>2, <2>3
<1>5. b \in Seq(Octet)
  BY <1>3, DoubleType
<1>6. /\ c \in Seq(Octet) /\ e \in Seq(Octet)
      /\ Len(c) = (IF AddExtraCrlf THEN 2 ELSE 0) /\ Len(e) = 3 /\ e[3] = "n"
  BY EndIs
<1>7. Dots \in Nat /\ m = a \o b /\ m \in Seq(Octet) /\ Len(m) = Len(vec) + Dots
  BY <1>1, TextStuffed
<1>8. Terminated(text) = (b \o c) \o e
  <2>1. Terminated(text) = Double(text) \o (IF IsCrlfTerminated(text) THEN <<>> ELSE <<"r", "n">>)
                           \o <<".", "r", "n">>
    BY <1>3, TerminatedIs
  <2>2. (IF IsCrlfTerminated(text) THEN <<>> ELSE <<"r", "n">>) = Extra
    BY <1>1, SameEnd DEF Extra
  <2> QED BY <2>1, <2>2
<1>9. vec' = (m \o c) \o e
  BY <1>1
<1> HIDE DEF a, b, c, e, m
<1>10. m \o c \in Seq(Octet) /\ Len(m \o c) = Len(m) + Len(c)
  BY <1>6, <1>7, CatLen
<1> DEFINE x == m \o c
<1>11. x \in Seq(Octet) /\ Len(x) = Len(m) + Len(c) /\ Len(x) \in Nat
  BY <1>10, LenProperties
<1> HIDE DEF x
<1>12. x \o e \in Seq(Octet) /\ Len(x \o e) = Len(x) + Len(e)
  BY <1>6, <1>11, CatLen
<1>13. (x \o e)[Len(x) + 3] = "n"
  <2>1. PICK g \in Nat : Len(x) = g
    BY <1>11
  <2>2. PICK h \in Nat : Len(e) = h
    BY <1>6
  <2>3. \A j \in 1 .. h : (x \o e)[g + j] = e[j]
    <3>1. x \in Seq(Octet) /\ e \in Seq(Octet)
      BY <1>6, <1>11
    <3> QED BY ONLY <2>1, <2>2, <3>1, CatIs
  <2>4. 3 \in 1 .. h
    BY <1>6, <2>2
  <2>5. (x \o e)[g + 3] = e[3]
    BY <2>3, <2>4
  <2> QED BY <1>6, <2>1, <2>5
<1>14. wire \o ((m \o c) \o e) = promised \o ((b \o c) \o e)
  <2>1. \A s, t, u \in Seq(Octet) : Cat(Cat(s, t), u) = Cat(s, Cat(t, u))
    BY Associates
  <2>2. \A s, t \in Seq(Octet) : Cat(s, t) \in Seq(Octet)
    BY CatLen DEF Cat
  <2>3. m = Cat(a, b) /\ promised = Cat(wire, a)
    BY <1>3, <1>7 DEF Cat
  <2>4. Cat(Cat(m, c), e) = Cat(a, Cat(Cat(b, c), e))
    BY <1>4, <1>5, <1>6, <2>1, <2>2, <2>3
  <2>5. Cat(Cat(b, c), e) \in Seq(Octet)
    BY <1>5, <1>6, <2>2
  <2>6. Cat(wire, Cat(Cat(m, c), e)) = Cat(promised, Cat(Cat(b, c), e))
    BY <1>3, <1>4, <2>1, <2>3, <2>4, <2>5
  <2> QED BY <2>6 DEF Cat
<1>15. promised \o ((b \o c) \o e) \in Seq(Octet)
  <2>1. b \o c \in Seq(Octet)
    BY <1>5, <1>6, CatLen
  <2> DEFINE y == b \o c
  <2> HIDE DEF y
  <2>2. y \o e \in Seq(Octet)
    BY <1>6, <2>1, CatLen DEF y
  <2> DEFINE w == y \o e
  <2> HIDE DEF w
  <2>3. promised \o w \in Seq(Octet)
    BY <1>3, <2>2, CatLen DEF w
  <2> QED BY <2>3 DEF y, w
<1>16. vec' = x \o e
  BY <1>9 DEF x
<1>17. Len(x) = Len(vec) + Dots + (IF AddExtraCrlf THEN 2 ELSE 0)
  BY <1>6, <1>7, <1>11
<1>18. Len(vec') = Len(vec) + Dots + (IF AddExtraCrlf THEN 2 ELSE 0) + 3
  BY <1>6, <1>12, <1>16, <1>17
<1>19. wire \o vec' = promised' /\ promised' \in Seq(Octet)
  BY <1>1, <1>8, <1>9, <1>14, <1>15
<1>20. vec'[Len(vec')] = "n"
  BY <1>6, <1>12, <1>13, <1>16
<1> QED BY <1>1, <1>12, <1>16, <1>18, <1>19, <1>20

LEMMA TerminatorKeeps ==
  ASSUME IInv, PutTerminator
  PROVE  IInv'
<1>1. /\ Types /\ Queued /\ ~flushing /\ z' = Len(vec') /\ text' = <<>>
      /\ size' = (IF Len(vec) + Growth > size THEN Grown ELSE size)
      /\ pbase' = pbase /\ flushing' = flushing /\ wire' = wire
  BY DEF IInv, PutTerminator
<1>2. /\ vec' \in Seq(Octet) /\ vec'[Len(vec')] = "n"
      /\ wire \o vec' = promised' /\ promised' \in Seq(Octet)
      /\ Len(vec') \in Nat /\ <<>> \in Seq(Octet)
  BY TerminatorPut, LenProperties, EmptySeq
<1>3. size' \in Nat /\ size' >= 10
  BY <1>1 DEF Types, Grown
<1>4. pbase = 0
  BY <1>1 DEF Queued
<1>5. Types'
  <2>1. pbase' \in 0 .. Len(vec') /\ z' \in 0 .. Len(vec')
    BY <1>1, <1>2, <1>4
  <2> QED BY <1>1, <1>2, <1>3, <2>1 DEF Types
<1>6. Queued'
  <2>1. SubSeq(vec', z' + 1, Len(vec')) = text'
    BY <1>1, <1>2, Nothing
  <2>2. SubSeq(vec', 1, z') = vec'
    BY <1>1, <1>2, Whole
  <2> QED BY <1>1, <1>2, <1>4, <2>1, <2>2 DEF Queued
<1> QED BY <1>1, <1>5, <1>6 DEF IInv, Leaving
-----------------------------------------------------------------------------
LEMMA NextInv == IInv /\ [Next]_vars => IInv'
<1> SUFFICES ASSUME IInv, [Next]_vars PROVE IInv'
  OBVIOUS
<1>1. CASE UNCHANGED vars
  BY <1>1 DEF vars, IInv, Types, Queued, Leaving
<1>2. ASSUME NEW piece \in Pieces, Put(piece) PROVE IInv'
  BY <1>2, PutKeeps
<1>3. CASE PutTerminator
  BY <1>3, TerminatorKeeps
<1>4. ASSUME NEW n \in 0 .. Len(vec), Flush(n) PROVE IInv'
  <2>1. n \in Nat
    BY LenProperties DEF IInv, Types
  <2> QED BY <1>4, <2>1, FlushKeeps
<1> QED BY <1>1, <1>2, <1>3, <1>4 DEF Next

LEMMA InvHolds == Spec => []IInv
BY InitInv, NextInv, PTL DEF Spec

(* The wire gets every response, dot-stuffed and terminated, whatever is   *)
(* put, and however the writes are cut.                                    *)
THEOREM SentAsPromised == Spec => []WireRight
<1>1. IInv => WireRight
  BY AllRight DEF WireRight
<1> QED BY <1>1, InvHolds, PTL

(* One growth is enough for up to two octets beside the terminator, and    *)
(* for anything the ostream is given.                                      *)
LEMMA StepFits ==
  ASSUME IInv, Next, Dots + (IF AddExtraCrlf THEN 2 ELSE 0) <= 2
  PROVE  Len(vec') <= size'
<1>1. /\ Types /\ Len(vec) \in Nat /\ size \in Nat /\ size >= 10
      /\ Grown >= size + 5 /\ Grown \in Nat
  BY LenProperties DEF IInv, Types, Grown
<1>2. ASSUME NEW piece \in Pieces, Put(piece) PROVE Len(vec') <= size'
  <2>1. /\ Fits /\ vec' = vec \o piece
        /\ size' = IF Len(vec) + Len(piece) > size THEN Grown ELSE size
    BY <1>2 DEF Put
  <2>2. vec \in Seq(Octet) /\ piece \in Seq(Octet) /\ Len(piece) < 5
    BY <1>1, ResponseBufAssumption DEF Types, Octet
  <2>3. Len(vec') = Len(vec) + Len(piece) /\ Len(piece) \in Nat
    BY <2>1, <2>2, CatLen
  <2> QED BY <1>1, <2>1, <2>2, <2>3 DEF Fits
<1>3. CASE PutTerminator
  <2>1. /\ Fits /\ ~flushing /\ size' = IF Len(vec) + Growth > size THEN Grown ELSE size
    BY <1>3 DEF PutTerminator
  <2>2. Len(vec') = Len(vec) + Dots + (IF AddExtraCrlf THEN 2 ELSE 0) + 3 /\ Dots \in Nat
    BY <1>3, <2>1, TerminatorPut, TextStuffed
  <2>3. CASE Dots > 0 \/ AddExtraCrlf
    BY <1>1, <2>1, <2>2, <2>3 DEF Fits, Growth
  <2>4. CASE ~(Dots > 0 \/ AddExtraCrlf)
    BY <1>1, <2>1, <2>2, <2>4 DEF Fits, Growth
  <2> QED BY <2>3, <2>4
<1>4. ASSUME NEW n \in 0 .. Len(vec), Flush(n) PROVE Len(vec') <= size'
  <2>1. Len(vec) <= size /\ size' = size /\ (vec' = vec \/ vec' = <<>>)
    BY <1>4 DEF Flush, Fits, ClearBuf
  <2>2. Len(<<>>) = 0
    BY EmptySeq
  <2> QED BY <1>1, <2>1, <2>2
<1> QED BY <1>2, <1>3, <1>4 DEF Next

(* put_terminator() stays inside the buffer whenever there is no more to    *)
(* add than it counts on.                                                  *)
THEOREM TerminatorGetsRoom == Spec => TerminatorFits
<1>1. IInv /\ [Next]_vars
        => [Dots + (IF AddExtraCrlf THEN 2 ELSE 0) <= 2 => Len(vec') <= size']_vars
  <2> SUFFICES ASSUME IInv, [Next]_vars, vars' # vars, Dots + (IF AddExtraCrlf THEN 2 ELSE 0) <= 2
               PROVE  Len(vec') <= size'
    OBVIOUS
  <2> QED BY StepFits
<1> QED BY <1>1, InvHolds, PTL DEF Spec, TerminatorFits
=============================================================================
