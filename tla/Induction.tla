------------------------------- MODULE Induction -------------------------------
(* Facts about the natural numbers that the other proofs rest on: every set   *)
(* of them has a least element, every bounded one a greatest, finite ones are *)
(* bounded, and a set that has 0 and with each number the next is all of      *)
(* them.  From the last follows what FlattenSeq gives.                        *)
EXTENDS Naturals, Sequences, FiniteSets, SequencesExt, SequenceTheorems,
        WellFoundedInduction, TLAPS

Less == {p \in Nat \X Nat : p[1] < p[2]}

LEMMA LessIsWellFounded == IsWellFoundedOn(Less, Nat)
  BY NatLessThanWellFounded DEF OpToRel, Less

LEMMA Least ==
  ASSUME NEW T \in SUBSET Nat, T # {}
  PROVE  \E x \in T : \A y \in T : x <= y
<1>1. T \subseteq Nat
  OBVIOUS
<1>2. PICK x \in T : \A y \in T : ~ (<<y, x>> \in Less)
  BY <1>1, WFMin, LessIsWellFounded
<1>3. ASSUME NEW y \in T PROVE x <= y
  <2>1. x \in Nat /\ y \in Nat /\ ~ (<<y, x>> \in Less)
    BY <1>1, <1>2
  <2>2. ~ (y < x)
    BY <2>1 DEF Less
  <2>3. QED
    BY <2>1, <2>2
<1>4. QED
  BY <1>3

LEMMA Greatest ==
  ASSUME NEW T \in SUBSET Nat, T # {}, NEW n \in Nat, \A y \in T : y <= n
  PROVE  \E x \in T : \A y \in T : y <= x
<1> DEFINE U == {m \in Nat : \A y \in T : y <= m}
<1>1. U \in SUBSET Nat /\ n \in U
  OBVIOUS
<1>2. PICK x \in U : \A m \in U : x <= m
  BY <1>1, Least
<1>3. x \in Nat /\ \A y \in T : y <= x
  BY <1>2
<1>4. x \in T
  <2>1. SUFFICES ASSUME x \notin T PROVE FALSE
    OBVIOUS
  <2>2. \A y \in T : y < x
    BY <1>3, <2>1
  <2>3. PICK z \in T : TRUE
    OBVIOUS
  <2>4. x - 1 \in Nat
    BY <1>3, <2>2, <2>3
  <2>5. \A y \in T : y \in Nat /\ y <= x - 1
    BY <1>3, <2>2, <2>4
  <2>6. QED
    BY <1>2, <1>3, <2>4, <2>5
<1>5. QED
  BY <1>3, <1>4

LEMMA SetInduction ==
  ASSUME NEW P \in SUBSET Nat, 0 \in P, \A n \in P : n + 1 \in P
  PROVE  P = Nat
<1>1. SUFFICES ASSUME Nat \ P # {} PROVE FALSE
  OBVIOUS
<1>2. PICK x \in Nat \ P : \A y \in Nat \ P : x <= y
  BY <1>1, Least
<1>3. x # 0 /\ x - 1 \in Nat /\ x - 1 \notin Nat \ P
  BY <1>2
<1>4. QED
  BY <1>2, <1>3

\* m bounds the first n numbers of a sequence.
Bounded(s, n, m) == \A i \in 1..n : i <= Len(s) => s[i] <= m

\* A finite sequence of numbers is bounded.
LEMMA SequenceIsBounded ==
  ASSUME NEW s \in Seq(Nat)
  PROVE  \E m \in Nat : \A i \in DOMAIN s : s[i] <= m
<1> DEFINE P == {n \in Nat : \E m \in Nat : Bounded(s, n, m)}
<1>1. 0 \in P
  BY DEF Bounded
<1>2. ASSUME NEW n \in P PROVE n + 1 \in P
  <2>1. PICK m \in Nat : Bounded(s, n, m)
    BY <1>2
  <2>2. CASE n + 1 <= Len(s) /\ s[n + 1] > m
    <3>1. n + 1 \in 1..Len(s) /\ s[n + 1] \in Nat
      BY <2>2
    <3>2. Bounded(s, n + 1, s[n + 1])
      <4> SUFFICES ASSUME NEW i \in 1..(n + 1), i <= Len(s) PROVE s[i] <= s[n + 1]
        BY DEF Bounded
      <4>1. s[i] \in Nat
        OBVIOUS
      <4>2. CASE i = n + 1
        BY <3>1, <4>2
      <4>3. CASE i \in 1..n
        BY <2>1, <2>2, <3>1, <4>1, <4>3 DEF Bounded
      <4>4. QED
        BY <4>2, <4>3
    <3>3. QED
      BY <3>1, <3>2
  <2>3. CASE ~ (n + 1 <= Len(s) /\ s[n + 1] > m)
    <3>1. Bounded(s, n + 1, m)
      <4> SUFFICES ASSUME NEW i \in 1..(n + 1), i <= Len(s) PROVE s[i] <= m
        BY DEF Bounded
      <4>1. s[i] \in Nat
        OBVIOUS
      <4>2. CASE i = n + 1
        BY <2>3, <4>1, <4>2
      <4>3. CASE i \in 1..n
        BY <2>1, <4>3 DEF Bounded
      <4>4. QED
        BY <4>2, <4>3
    <3>2. QED
      BY <3>1
  <2>4. QED
    BY <2>2, <2>3
<1>3. P = Nat
  <2>1. P \in SUBSET Nat
    OBVIOUS
  <2> HIDE DEF P
  <2>2. QED
    BY <1>1, <1>2, <2>1, SetInduction
<1>4. Len(s) \in Nat
  OBVIOUS
<1>5. \E m \in Nat : Bounded(s, Len(s), m)
  <2>1. Len(s) \in P
    <3> HIDE DEF P
    <3>1. QED
      BY <1>3, <1>4
  <2>2. QED
    BY <2>1
<1> PICK m \in Nat : Bounded(s, Len(s), m)
  BY <1>5
<1>6. \A i \in DOMAIN s : i \in 1..Len(s) /\ i <= Len(s)
  OBVIOUS
<1>7. \A i \in DOMAIN s : s[i] <= m
  BY <1>6 DEF Bounded
<1>8. QED
  BY <1>7

\* So is a finite set of numbers.
LEMMA FiniteIsBounded ==
  ASSUME NEW T \in SUBSET Nat, IsFiniteSet(T)
  PROVE  \E m \in Nat : \A x \in T : x <= m
<1>1. PICK s \in Seq(T) : \A x \in T : \E n \in 1..Len(s) : s[n] = x
  BY DEF IsFiniteSet
<1>2. \A i \in 1..Len(s) : s[i] \in Nat
  BY <1>1, ElementOfSeq
<1>3. s \in Seq(Nat) /\ DOMAIN s = 1..Len(s)
  BY <1>1, <1>2
<1>4. QED
  BY <1>1, <1>3, SequenceIsBounded

\* The concatenations of the first sequences of a list, as FlattenSeq has them.
Flattens(f, ss, n) ==
  f = [i \in 1..n |-> IF i = 1 THEN ss[i] ELSE f[i - 1] \o ss[i]]

LEMMA FlatteningExists ==
  ASSUME NEW ss, NEW n \in Nat
  PROVE  \E f : Flattens(f, ss, n)
<1> DEFINE P == {m \in Nat : \E f : Flattens(f, ss, m)}
<1>1. 0 \in P
  <2> DEFINE none == [i \in 1..0 |-> <<>>]
  <2>1. Flattens(none, ss, 0)
    BY DEF Flattens
  <2>2. QED
    BY <2>1
<1>2. ASSUME NEW m \in P PROVE m + 1 \in P
  <2>1. PICK f : Flattens(f, ss, m)
    OBVIOUS
  <2> DEFINE g == [i \in 1..(m + 1) |->
                     IF i = m + 1 THEN (IF i = 1 THEN ss[i] ELSE f[m] \o ss[i]) ELSE f[i]]
  <2>2. \A i \in 1..m : f[i] = IF i = 1 THEN ss[i] ELSE f[i - 1] \o ss[i]
    BY <2>1 DEF Flattens
  <2>3. m \in Nat
    OBVIOUS
  <2>4. \A i \in 1..(m + 1) : i # 1 => i - 1 \in 1..m /\ g[i - 1] = f[i - 1]
    BY <2>3
  <2>5. \A i \in 1..(m + 1) : g[i] = IF i = 1 THEN ss[i] ELSE g[i - 1] \o ss[i]
    <3> TAKE i \in 1..(m + 1)
    <3>1. CASE i = m + 1
      BY <2>3, <2>4, <3>1
    <3>2. CASE i \in 1..m
      BY <2>2, <2>3, <2>4, <3>2
    <3>3. QED
      BY <2>3, <3>1, <3>2
  <2>6. Flattens(g, ss, m + 1)
    <3>1. g = [i \in 1..(m + 1) |-> g[i]]
      OBVIOUS
    <3> HIDE DEF g
    <3>2. [i \in 1..(m + 1) |-> g[i]] =
          [i \in 1..(m + 1) |-> IF i = 1 THEN ss[i] ELSE g[i - 1] \o ss[i]]
      BY <2>5
    <3>3. QED
      BY <3>1, <3>2 DEF Flattens
  <2>7. QED
    BY <2>3, <2>6
<1>3. P = Nat
  <2>1. P \in SUBSET Nat
    OBVIOUS
  <2> HIDE DEF P
  <2>2. QED
    BY <1>1, <1>2, <2>1, SetInduction
<1>4. n \in P
  <2> HIDE DEF P
  <2>1. QED
    BY <1>3
<1>5. QED
  BY <1>4

LEMMA FlattenDef ==
  ASSUME NEW ss, Len(ss) \in Nat \ {0}
  PROVE  \E f : Flattens(f, ss, Len(ss)) /\ FlattenSeq(ss) = f[Len(ss)]
<1> DEFINE f == CHOOSE g : Flattens(g, ss, Len(ss))
<1>1. Flattens(f, ss, Len(ss))
  BY FlatteningExists
<1>2. FlattenSeq(ss) = f[Len(ss)]
  BY DEF FlattenSeq, Flattens
<1>3. QED
  BY <1>1, <1>2

LEMMA ToSetOfConcat ==
  ASSUME NEW S, NEW s \in Seq(S), NEW t \in Seq(S)
  PROVE  ToSet(s \o t) = ToSet(s) \union ToSet(t)
<1>1. /\ Len(s) \in Nat /\ DOMAIN s = 1..Len(s)
      /\ Len(t) \in Nat /\ DOMAIN t = 1..Len(t)
  BY LenProperties
<1>2. /\ s \o t \in Seq(S)
      /\ Len(s \o t) = Len(s) + Len(t)
      /\ \A i \in 1..(Len(s) + Len(t)) :
           (s \o t)[i] = IF i <= Len(s) THEN s[i] ELSE t[i - Len(s)]
  BY ConcatProperties
<1>3. DOMAIN (s \o t) = 1..(Len(s) + Len(t))
  BY <1>2, LenProperties
<1>4. ASSUME NEW i \in DOMAIN (s \o t) PROVE (s \o t)[i] \in ToSet(s) \union ToSet(t)
  <2>1. CASE i <= Len(s)
    BY <1>1, <1>2, <1>3, <2>1 DEF ToSet
  <2>2. CASE ~ (i <= Len(s))
    <3>1. i - Len(s) \in DOMAIN t /\ (s \o t)[i] = t[i - Len(s)]
      BY <1>1, <1>2, <1>3, <2>2
    <3>2. QED
      BY <3>1 DEF ToSet
  <2>3. QED
    BY <2>1, <2>2
<1>5. ASSUME NEW i \in DOMAIN s PROVE s[i] \in ToSet(s \o t)
  <2>1. i \in DOMAIN (s \o t) /\ (s \o t)[i] = s[i]
    BY <1>1, <1>2, <1>3
  <2>2. QED
    BY <2>1 DEF ToSet
<1>6. ASSUME NEW i \in DOMAIN t PROVE t[i] \in ToSet(s \o t)
  <2> DEFINE j == Len(s) + i
  <2>1. j \in 1..(Len(s) + Len(t)) /\ ~ (j <= Len(s)) /\ j - Len(s) = i
    BY <1>1
  <2> HIDE DEF j
  <2>2. (s \o t)[j] = t[i] /\ j \in DOMAIN (s \o t)
    BY <1>2, <1>3, <2>1
  <2>3. QED
    BY <2>2 DEF ToSet
<1>7. ToSet(s \o t) \subseteq ToSet(s) \union ToSet(t)
  BY <1>4 DEF ToSet
<1>8. ToSet(s) \subseteq ToSet(s \o t) /\ ToSet(t) \subseteq ToSet(s \o t)
  <2>1. ASSUME NEW x \in ToSet(s) PROVE x \in ToSet(s \o t)
    BY <1>5 DEF ToSet
  <2>2. ASSUME NEW x \in ToSet(t) PROVE x \in ToSet(s \o t)
    BY <1>6 DEF ToSet
  <2>3. QED
    BY <2>1, <2>2
<1>9. QED
  BY <1>7, <1>8

\* FlattenSeq gives a sequence, of what is in the sequences it is given.
LEMMA FlattenSeqFacts ==
  ASSUME NEW S, NEW ss \in Seq(Seq(S))
  PROVE  /\ FlattenSeq(ss) \in Seq(S)
         /\ ToSet(FlattenSeq(ss)) = UNION {ToSet(ss[i]) : i \in 1..Len(ss)}
<1>1. Len(ss) \in Nat /\ \A i \in 1..Len(ss) : ss[i] \in Seq(S)
  BY LenProperties, ElementOfSeq
<1>2. CASE Len(ss) = 0
  <2>1. ss = <<>>
    BY <1>2, EmptySeq
  <2>2. FlattenSeq(ss) = <<>>
    BY <1>2, <2>1 DEF FlattenSeq
  <2>3. ToSet(<<>>) = {} /\ {ToSet(ss[i]) : i \in 1..Len(ss)} = {}
    BY <1>2 DEF ToSet
  <2>4. QED
    BY <2>2, <2>3
<1>3. CASE Len(ss) # 0
  <2>1. PICK f : Flattens(f, ss, Len(ss)) /\ FlattenSeq(ss) = f[Len(ss)]
    BY <1>1, <1>3, FlattenDef
  <2>2. \A i \in 1..Len(ss) : f[i] = IF i = 1 THEN ss[i] ELSE f[i - 1] \o ss[i]
    BY <2>1 DEF Flattens
  <2> DEFINE Right(n) == f[n] \in Seq(S) /\ ToSet(f[n]) = UNION {ToSet(ss[i]) : i \in 1..n}
             P == {n \in Nat : n \in 1..Len(ss) => Right(n)}
  <2>3. 0 \in P
    BY <1>1
  <2>4. ASSUME NEW n \in P PROVE n + 1 \in P
    <3>1. SUFFICES ASSUME n + 1 \in 1..Len(ss) PROVE Right(n + 1)
      OBVIOUS
    <3>2. n \in Nat /\ ss[n + 1] \in Seq(S)
      BY <1>1, <3>1
    <3>3. CASE n = 0
      <4>1. f[n + 1] = ss[n + 1]
        <5>1. 1 \in 1..Len(ss) /\ n + 1 = 1
          BY <3>1, <3>3
        <5>2. f[1] = ss[1]
          BY <2>2, <5>1
        <5>3. QED
          BY <5>1, <5>2
      <4>2. 1..(n + 1) = {n + 1}
        BY <3>3
      <4>3. UNION {ToSet(ss[i]) : i \in 1..(n + 1)} = ToSet(ss[n + 1])
        BY <4>2
      <4>4. QED
        BY <3>2, <4>1, <4>3
    <3>4. CASE n # 0
      <4>1. n \in 1..Len(ss) /\ Right(n)
        BY <1>1, <3>1, <3>2, <3>4
      <4>2. f[n + 1] = f[n] \o ss[n + 1]
        <5> DEFINE m == n + 1
        <5>1. m \in 1..Len(ss) /\ m # 1 /\ m - 1 = n
          BY <3>1, <3>2, <3>4
        <5> HIDE DEF m
        <5>2. f[m] = f[n] \o ss[m]
          BY <2>2, <5>1
        <5>3. QED
          BY <5>2 DEF m
      <4>3. f[n + 1] \in Seq(S) /\ ToSet(f[n + 1]) = ToSet(f[n]) \union ToSet(ss[n + 1])
        BY <3>2, <4>1, <4>2, ToSetOfConcat, ConcatProperties
      <4>4. 1..(n + 1) = 1..n \union {n + 1}
        BY <3>2
      <4>5. UNION {ToSet(ss[i]) : i \in 1..(n + 1)} =
            (UNION {ToSet(ss[i]) : i \in 1..n}) \union ToSet(ss[n + 1])
        BY <4>4
      <4>6. QED
        BY <4>1, <4>3, <4>5
    <3>5. QED
      BY <3>3, <3>4
  <2>5. P = Nat
    <3>1. P \in SUBSET Nat
      OBVIOUS
    <3> HIDE DEF P
    <3>2. QED
      BY <2>3, <2>4, <3>1, SetInduction
  <2>6. Len(ss) \in P
    <3> HIDE DEF P
    <3>1. QED
      BY <1>1, <2>5
  <2>7. Right(Len(ss))
    BY <1>1, <1>3, <2>6
  <2>8. QED
    BY <2>1, <2>7
<1>4. QED
  BY <1>2, <1>3
================================================================================
