--------------------------- MODULE DetectorProofs ---------------------------
(***************************************************************************)
(* What the detectors of Audit find in a file, whatever its nodes: every    *)
(* detector gives a sequence of artifacts whose evidence is of the file and *)
(* of the detector, the calls of cookies are the first of them in order,    *)
(* each call of a JWT is in one of them, what they say is backed by their   *)
(* evidence, and where each call and each group of calls is, which its id   *)
(* tells.  Before it, the sequences of Source: what FlattenSeq joins, where *)
(* each element of it comes from, and the least of a set, none of which the *)
(* prover knows.                                                            *)
(***************************************************************************)
EXTENDS Audit, FiniteSetTheorems, SequenceTheorems, WellFoundedInduction, NaturalsInduction, TLAPS

LEMMA LeastNat ==
    ASSUME NEW T \in SUBSET Nat, T # {}
    PROVE  \E x \in T : \A y \in T : x <= y
<1>. DEFINE R == OpToRel(<, Nat)
<1>1. IsWellFoundedOn(R, Nat)
  BY NatLessThanWellFounded
<1>. HIDE DEF R
<1>2. PICK x \in T : \A y \in T : ~(<<y, x>> \in R)
  BY <1>1, WFMin
<1>3. \A y \in T : ~(y < x)
  BY <1>2 DEF R, OpToRel
<1>. QED  BY <1>3

LEMMA AllNat ==
    ASSUME NEW S \in SUBSET Nat, 0 \in S, \A n \in S : n + 1 \in S
    PROVE  S = Nat
<1>. SUFFICES ASSUME Nat \ S # {} PROVE FALSE
  OBVIOUS
<1>1. PICK n \in Nat \ S : \A m \in Nat \ S : n <= m
  BY LeastNat
<1>2. n # 0 /\ n - 1 \in Nat
  BY <1>1
<1>3. n - 1 \in S
  BY <1>1, <1>2
<1>4. (n - 1) + 1 \in S
  BY <1>3
<1>. QED  BY <1>1, <1>2, <1>4

LEMMA SequenceForm ==
    ASSUME NEW s, IsSequence(s)
    PROVE  /\ Len(s) \in Nat /\ DOMAIN s = 1..Len(s)
           /\ s = [k \in 1..Len(s) |-> s[k]]
BY DEF IsSequence

LEMMA IsOne ==
    ASSUME NEW n \in Nat, NEW s, DOMAIN s = 1..n, s = [k \in 1..n |-> s[k]]
    PROVE  IsSequence(s) /\ Len(s) = n
<1>1. s \in [1..n -> Range1(s)]
  BY DEF Range1
<1>2. s \in Seq(Range1(s))
  BY <1>1, IsASeq, SeqDef
<1>. QED  BY <1>1, <1>2, LenProperties DEF IsSequence

LEMMA EmptyIsOne == IsSequence(<<>>) /\ Len(<<>>) = 0 /\ DOMAIN <<>> = {} /\ Range1(<<>>) = {}
<1>1. <<>> \in Seq(Range1(<<>>)) /\ Len(<<>>) = 0 /\ DOMAIN <<>> = {}
  BY EmptySeq
<1>. QED  BY <1>1 DEF IsSequence, Range1

LEMMA SingleIsOne ==
    ASSUME NEW a
    PROVE  IsSequence(<<a>>) /\ Len(<<a>>) = 1 /\ DOMAIN <<a>> = {1} /\ Range1(<<a>>) = {a}
<1>1. <<a>> \in Seq({a}) /\ Len(<<a>>) = 1 /\ <<a>>[1] = a /\ DOMAIN <<a>> = 1..1
  OBVIOUS
<1>2. Range1(<<a>>) = {a} /\ 1..1 = {1}
  BY <1>1 DEF Range1
<1>. QED  BY <1>1, <1>2 DEF IsSequence

LEMMA ConcatIsOne ==
    ASSUME NEW s, NEW t, IsSequence(s), IsSequence(t)
    PROVE  /\ IsSequence(s \o t) /\ Len(s \o t) = Len(s) + Len(t)
           /\ Range1(s \o t) = Range1(s) \cup Range1(t)
           /\ \A k \in 1..Len(s) : (s \o t)[k] = s[k]
           /\ \A k \in 1..Len(t) : (s \o t)[Len(s) + k] = t[k]
<1>. DEFINE S == Range1(s) \cup Range1(t)
<1>1. s \in Seq(S) /\ t \in Seq(S)
  BY SeqMonotonic DEF IsSequence
<1>2. s \o t \in Seq(S) /\ Len(s \o t) = Len(s) + Len(t)
      /\ \A i \in 1..Len(s) + Len(t) : (s \o t)[i] = IF i <= Len(s) THEN s[i] ELSE t[i - Len(s)]
  BY <1>1, ConcatProperties
<1>3. Len(s) \in Nat /\ Len(t) \in Nat /\ DOMAIN s = 1..Len(s) /\ DOMAIN t = 1..Len(t)
      /\ DOMAIN (s \o t) = 1..(Len(s) + Len(t)) /\ s \o t = [k \in 1..(Len(s) + Len(t)) |-> (s \o t)[k]]
  <2>1. s \o t \in Seq(S) /\ Len(s) \in Nat /\ Len(t) \in Nat /\ Len(s \o t) = Len(s) + Len(t)
    BY <1>1, <1>2
  <2>. HIDE DEF S
  <2>2. DOMAIN s = 1..Len(s) /\ DOMAIN t = 1..Len(t)
    BY <1>1
  <2>3. s \o t \in [1..Len(s \o t) -> S]
    BY <2>1, LenProperties
  <2>. QED  BY <2>1, <2>2, <2>3
<1>. HIDE DEF S
<1>4. \A k \in 1..Len(s) : k \in 1..(Len(s) + Len(t)) /\ (s \o t)[k] = s[k]
  BY <1>2, <1>3
<1>5. \A k \in 1..Len(t) : Len(s) + k \in 1..(Len(s) + Len(t)) /\ (s \o t)[Len(s) + k] = t[k]
  <2>. TAKE k \in 1..Len(t)
  <2>1. Len(s) + k \in 1..(Len(s) + Len(t)) /\ ~(Len(s) + k <= Len(s)) /\ (Len(s) + k) - Len(s) = k
    BY <1>3
  <2>. QED  BY <1>2, <2>1
<1>6. Range1(s \o t) = Range1(s) \cup Range1(t)
  <2>1. ASSUME NEW x \in Range1(s \o t) PROVE x \in Range1(s) \cup Range1(t)
    <3>1. PICK i \in 1..(Len(s) + Len(t)) : x = (s \o t)[i]
      BY <1>3 DEF Range1
    <3>2. CASE i <= Len(s)
      BY <1>2, <1>3, <3>1, <3>2 DEF Range1
    <3>3. CASE ~(i <= Len(s))
      <4>1. i - Len(s) \in 1..Len(t)
        BY <1>3, <3>3
      <4>. QED  BY <1>2, <1>3, <3>1, <3>3, <4>1 DEF Range1
    <3>. QED  BY <3>2, <3>3
  <2>2. Range1(s) \subseteq Range1(s \o t)
    BY <1>3, <1>4 DEF Range1
  <2>3. Range1(t) \subseteq Range1(s \o t)
    BY <1>3, <1>5 DEF Range1
  <2>. QED  BY <2>1, <2>2, <2>3
<1>7. IsSequence(s \o t)
  BY <1>3, IsOne
<1>. QED  BY <1>2, <1>4, <1>5, <1>6, <1>7

-----------------------------------------------------------------------------
(* Sequences of sequences, one after the other.                            *)
IsSequences(ss) == IsSequence(ss) /\ \A k \in 1..Len(ss) : IsSequence(ss[k])

\* The i-th block begins after `at` of i - 1.
Blocks(ss, at) ==
    /\ at[0] = 0
    /\ \A i \in 1..Len(ss) : at[i] \in Nat /\ at[i - 1] \in Nat /\ at[i] = at[i - 1] + Len(ss[i])
    /\ IsSequence(FlattenSeq(ss)) /\ Len(FlattenSeq(ss)) = at[Len(ss)]
    /\ \A i \in 1..Len(ss) : \A j \in 1..Len(ss[i]) :
          /\ at[i - 1] + j \in 1..Len(FlattenSeq(ss))
          /\ FlattenSeq(ss)[at[i - 1] + j] = ss[i][j]
    /\ \A m \in 1..Len(FlattenSeq(ss)) :
          \E i \in 1..Len(ss) : \E j \in 1..Len(ss[i]) : m = at[i - 1] + j

\* The recursion of FlattenSeq, from the empty sequence.
JoinedUpTo(ss, g, n) ==
    /\ g = [x \in 0..n |-> g[x]]
    /\ g[0] = <<>>
    /\ \A x \in 1..n : g[x] = g[x - 1] \o ss[x]

LEMMA PrefixesExist ==
    ASSUME NEW ss, NEW n \in Nat
    PROVE  \E g : JoinedUpTo(ss, g, n)
<1>. DEFINE S == {m \in Nat : \E g : JoinedUpTo(ss, g, m)}
<1>1. 0 \in S
  <2>. DEFINE h == [x \in 0..0 |-> <<>>]
  <2>1. JoinedUpTo(ss, h, 0)
    BY DEF JoinedUpTo
  <2>. QED  BY <2>1
<1>2. ASSUME NEW m \in S PROVE m + 1 \in S
  <2>1. m \in Nat /\ m + 1 \in Nat
    OBVIOUS
  <2>2. PICK g : JoinedUpTo(ss, g, m)
    OBVIOUS
  <2>. DEFINE h == [x \in 0..(m + 1) |-> IF x = m + 1 THEN g[m] \o ss[m + 1] ELSE g[x]]
  <2>3. h = [x \in 0..(m + 1) |-> h[x]]
    OBVIOUS
  <2>4. \A x \in 0..m : h[x] = g[x]
    BY <2>1
  <2>5. h[m + 1] = g[m] \o ss[m + 1]
    <3>1. m + 1 \in 0..(m + 1)
      BY <2>1
    <3>. QED  BY <3>1, Zenon
  <2>. HIDE DEF h
  <2>6. h[0] = <<>>
    BY <2>1, <2>2, <2>4 DEF JoinedUpTo
  <2>7. ASSUME NEW x \in 1..(m + 1) PROVE h[x] = h[x - 1] \o ss[x]
    <3>1. CASE x = m + 1
      <4>1. x - 1 = m /\ m \in 0..m
        BY <2>1, <3>1
      <4>. QED  BY <2>4, <2>5, <3>1, <4>1
    <3>2. CASE x # m + 1
      <4>1. x \in 1..m /\ x \in 0..m /\ x - 1 \in 0..m
        BY <2>1, <3>2
      <4>. QED  BY <2>2, <2>4, <4>1 DEF JoinedUpTo
    <3>. QED  BY <3>1, <3>2
  <2>8. JoinedUpTo(ss, h, m + 1)
    BY <2>3, <2>6, <2>7 DEF JoinedUpTo
  <2>. QED  BY <2>1, <2>8
<1>3. S \in SUBSET Nat
  OBVIOUS
<1>. HIDE DEF S
<1>4. S = Nat
  BY <1>1, <1>2, <1>3, AllNat
<1>. QED  BY <1>4 DEF S

LEMMA FlattenIsPrefix ==
    ASSUME NEW ss, IsSequences(ss)
    PROVE  \E g : JoinedUpTo(ss, g, Len(ss)) /\ FlattenSeq(ss) = g[Len(ss)]
<1>. DEFINE n == Len(ss)
<1>1. n \in Nat /\ DOMAIN ss = 1..n
  BY SequenceForm DEF IsSequences
<1>2. CASE n = 0
  <2>1. ss = <<>>
    BY <1>2, SequenceForm DEF IsSequences, IsSequence
  <2>2. FlattenSeq(ss) = <<>>
    BY <1>2, <2>1 DEF FlattenSeq
  <2>3. PICK g : JoinedUpTo(ss, g, n)
    BY <1>1, PrefixesExist
  <2>. QED  BY <1>2, <2>2, <2>3 DEF JoinedUpTo
<1>3. CASE n # 0
  <2>. DEFINE Is(f) == f = [i \in 1..n |-> IF i = 1 THEN ss[i] ELSE f[i - 1] \o ss[i]]
              f == CHOOSE f : Is(f)
  <2>1. PICK g : JoinedUpTo(ss, g, n)
    BY <1>1, PrefixesExist
  <2>. DEFINE h == [i \in 1..n |-> g[i]]
  <2>2. g[1] = ss[1]
    <3>1. g[1] = <<>> \o ss[1] /\ IsSequence(ss[1])
      BY <1>1, <1>3, <2>1 DEF JoinedUpTo, IsSequences
    <3>. QED  BY <3>1 DEF IsSequence
  <2>3. Is(h)
    <3>1. \A i \in 1..n : g[i] = IF i = 1 THEN ss[i] ELSE h[i - 1] \o ss[i]
      <4>. TAKE i \in 1..n
      <4>1. CASE i = 1
        BY <2>2, <4>1
      <4>2. CASE i # 1
        <5>1. i - 1 \in 1..n
          BY <1>1, <4>2
        <5>. QED  BY <2>1, <4>2, <5>1 DEF JoinedUpTo
      <4>. QED  BY <4>1, <4>2
    <3>2. h = [i \in 1..n |-> g[i]]
      BY Zenon
    <3>. HIDE DEF h
    <3>. QED  BY <3>1, <3>2
  <2>4. Is(f)
    BY <2>3
  <2>5. FlattenSeq(ss) = f[n]
    BY <1>3 DEF FlattenSeq
  <2>. HIDE DEF f
  <2>. DEFINE S == {m \in Nat : m \in 1..n => f[m] = g[m]}
  <2>6. 0 \in S
    OBVIOUS
  <2>7. ASSUME NEW m \in S PROVE m + 1 \in S
    <3>. SUFFICES ASSUME m + 1 \in 1..n PROVE f[m + 1] = g[m + 1]
      OBVIOUS
    <3>1. m \in Nat /\ (m + 1) - 1 = m
      OBVIOUS
    <3>2. f[m + 1] = IF m + 1 = 1 THEN ss[m + 1] ELSE f[m] \o ss[m + 1]
      BY <2>4, <3>1
    <3>3. CASE m = 0
      BY <2>2, <3>2, <3>3
    <3>4. CASE m # 0
      <4>1. m \in 1..n /\ m + 1 # 1
        BY <1>1, <3>1, <3>4
      <4>. QED  BY <2>1, <3>1, <3>2, <4>1 DEF JoinedUpTo
    <3>. QED  BY <3>3, <3>4
  <2>8. S \in SUBSET Nat
    OBVIOUS
  <2>. HIDE DEF S
  <2>9. n \in S
    BY <1>1, <2>6, <2>7, <2>8, AllNat
  <2>. QED  BY <1>1, <1>3, <2>1, <2>5, <2>9 DEF S
<1>. QED  BY <1>2, <1>3

LEMMA FlattenBlocks ==
    ASSUME NEW ss, IsSequences(ss)
    PROVE  \E at : Blocks(ss, at)
<1>. DEFINE n == Len(ss)
<1>1. n \in Nat /\ \A k \in 1..n : IsSequence(ss[k]) /\ Len(ss[k]) \in Nat
  BY SequenceForm DEF IsSequences
<1>2. PICK g : JoinedUpTo(ss, g, n) /\ FlattenSeq(ss) = g[n]
  BY FlattenIsPrefix
<1>. DEFINE Good(m) ==
        /\ IsSequence(g[m])
        /\ \A i \in 1..m : /\ Len(g[i]) \in Nat /\ Len(g[i - 1]) \in Nat
                           /\ Len(g[i]) = Len(g[i - 1]) + Len(ss[i])
                           /\ Len(g[i]) <= Len(g[m])
        /\ \A i \in 1..m : \A j \in 1..Len(ss[i]) : g[m][Len(g[i - 1]) + j] = ss[i][j]
        /\ \A x \in 1..Len(g[m]) : \E i \in 1..m : \E j \in 1..Len(ss[i]) : x = Len(g[i - 1]) + j
     S == {m \in Nat : m \in 0..n => Good(m)}
<1>3. 0 \in S
  <2>1. g[0] = <<>> /\ 1..0 = {}
    BY <1>2 DEF JoinedUpTo
  <2>2. IsSequence(g[0]) /\ 1..Len(g[0]) = {}
    BY <2>1, EmptyIsOne
  <2>3. Good(0)
    BY <2>1, <2>2
  <2>. HIDE DEF Good
  <2>. QED  BY <2>3
<1>4. ASSUME NEW m \in S PROVE m + 1 \in S
  <2>. HIDE DEF Good
  <2>. SUFFICES ASSUME m + 1 \in 0..n PROVE Good(m + 1)
    OBVIOUS
  <2>1. m \in Nat /\ m \in 0..n /\ m + 1 \in 1..n /\ (m + 1) - 1 = m
    BY <1>1
  <2>2. Good(m)
    BY <2>1
  <2>. HIDE DEF S
  <2>3. g[m + 1] = g[m] \o ss[m + 1]
    BY <1>2, <2>1 DEF JoinedUpTo
  <2>4. IsSequence(g[m]) /\ IsSequence(ss[m + 1])
    BY <1>1, <2>1, <2>2 DEF Good
  <2>5. /\ IsSequence(g[m + 1]) /\ Len(g[m + 1]) = Len(g[m]) + Len(ss[m + 1])
        /\ \A k \in 1..Len(g[m]) : g[m + 1][k] = g[m][k]
        /\ \A k \in 1..Len(ss[m + 1]) : g[m + 1][Len(g[m]) + k] = ss[m + 1][k]
    <3>. DEFINE a == g[m]  b == ss[m + 1]  c == g[m + 1]
    <3>1. c = a \o b /\ IsSequence(a) /\ IsSequence(b)
      BY <2>3, <2>4
    <3>. HIDE DEF a, b, c
    <3>2. /\ IsSequence(c) /\ Len(c) = Len(a) + Len(b)
          /\ \A k \in 1..Len(a) : c[k] = a[k]
          /\ \A k \in 1..Len(b) : c[Len(a) + k] = b[k]
      BY <3>1, ConcatIsOne
    <3>. QED  BY <3>2 DEF a, b, c
  <2>6. Len(g[m]) \in Nat /\ Len(ss[m + 1]) \in Nat /\ Len(g[m + 1]) \in Nat
    BY <2>4, <2>5, SequenceForm
  <2>61. Len(g[m]) <= Len(g[m + 1]) /\ Len(g[m + 1]) <= Len(g[m + 1])
    <3>. DEFINE p == Len(g[m])  q == Len(ss[m + 1])  r == Len(g[m + 1])
    <3>1. p \in Nat /\ q \in Nat /\ r = p + q
      BY <2>5, <2>6
    <3>. HIDE DEF p, q, r
    <3>2. p <= r /\ r <= r
      BY <3>1
    <3>. QED  BY <3>2 DEF p, r
  <2>7. ASSUME NEW i \in 1..(m + 1)
        PROVE  /\ Len(g[i]) \in Nat /\ Len(g[i - 1]) \in Nat
               /\ Len(g[i]) = Len(g[i - 1]) + Len(ss[i]) /\ Len(g[i]) <= Len(g[m + 1])
    <3>1. CASE i = m + 1
      BY <2>1, <2>5, <2>6, <2>61, <3>1, Zenon
    <3>2. CASE i # m + 1
      <4>1. i \in 1..m
        BY <2>1, <3>2
      <4>2. Len(g[i]) \in Nat /\ Len(g[i - 1]) \in Nat /\ Len(g[i]) = Len(g[i - 1]) + Len(ss[i]) /\ Len(g[i]) <= Len(g[m])
        BY <2>2, <4>1 DEF Good
      <4>. DEFINE o == Len(g[i])  p == Len(g[m])  r == Len(g[m + 1])
      <4>3. o \in Nat /\ p \in Nat /\ r \in Nat /\ o <= p /\ p <= r
        BY <2>6, <2>61, <4>2, Zenon
      <4>. HIDE DEF o, p, r
      <4>4. o <= r
        BY <4>3
      <4>. QED  BY <4>2, <4>4, Zenon DEF o, r
    <3>. QED  BY <3>1, <3>2
  <2>8. ASSUME NEW i \in 1..(m + 1), NEW j \in 1..Len(ss[i])
        PROVE  g[m + 1][Len(g[i - 1]) + j] = ss[i][j]
    <3>1. CASE i = m + 1
      BY <2>1, <2>5, <3>1
    <3>2. CASE i # m + 1
      <4>1. i \in 1..m /\ Len(ss[i]) \in Nat
        BY <1>1, <2>1, <3>2
      <4>2. g[m][Len(g[i - 1]) + j] = ss[i][j]
        BY <2>2, <4>1 DEF Good
      <4>3. Len(g[i - 1]) + j \in 1..Len(g[m])
        <5>1. Len(g[i]) \in Nat /\ Len(g[i - 1]) \in Nat /\ Len(g[i]) = Len(g[i - 1]) + Len(ss[i]) /\ Len(g[i]) <= Len(g[m])
          BY <2>2, <4>1 DEF Good
        <5>. DEFINE o == Len(g[i])  p == Len(g[m])  q == Len(ss[i])  r == Len(g[i - 1])
        <5>2. o \in Nat /\ p \in Nat /\ q \in Nat /\ r \in Nat /\ o = r + q /\ o <= p /\ j \in 1..q
          BY <2>6, <4>1, <5>1, Zenon
        <5>. HIDE DEF o, p, q, r
        <5>3. r + j \in 1..p
          BY <5>2
        <5>. QED  BY <5>3, Zenon DEF r, p
      <4>. QED  BY <2>5, <4>2, <4>3
    <3>. QED  BY <3>1, <3>2
  <2>9. ASSUME NEW x \in 1..Len(g[m + 1])
        PROVE  \E i \in 1..(m + 1) : \E j \in 1..Len(ss[i]) : x = Len(g[i - 1]) + j
    <3>1. CASE x <= Len(g[m])
      <4>1. x \in 1..Len(g[m])
        BY <2>6, <3>1
      <4>2. PICK i \in 1..m : \E j \in 1..Len(ss[i]) : x = Len(g[i - 1]) + j
        BY <2>2, <4>1 DEF Good
      <4>3. i \in 1..(m + 1)
        BY <2>1
      <4>. QED  BY <4>2, <4>3
    <3>2. CASE ~(x <= Len(g[m]))
      <4>. DEFINE j == x - Len(g[m])
      <4>1. j \in 1..Len(ss[m + 1]) /\ x = Len(g[m]) + j
        <5>. DEFINE p == Len(g[m])  q == Len(ss[m + 1])  r == Len(g[m + 1])
        <5>1. p \in Nat /\ q \in Nat /\ r = p + q /\ x \in 1..r /\ ~(x <= p)
          BY <2>5, <2>6, <3>2, Zenon
        <5>. HIDE DEF p, q, r, j
        <5>2. x - p \in 1..q /\ x = p + (x - p)
          BY <5>1
        <5>. QED  BY <5>2, Zenon DEF p, q, j
      <4>2. m + 1 \in 1..(m + 1)
        BY <2>1
      <4>. QED  BY <2>1, <4>1, <4>2
    <3>. QED  BY <3>1, <3>2
  <2>. QED  BY <2>5, <2>7, <2>8, <2>9 DEF Good
<1>5. S \in SUBSET Nat
  OBVIOUS
<1>. HIDE DEF S, Good
<1>6. n \in S
  BY <1>1, <1>3, <1>4, <1>5, AllNat
<1>7. Good(n)
  BY <1>1, <1>6 DEF S
<1>. DEFINE at == [x \in 0..n |-> Len(g[x])]
<1>8. \A x \in 1..n : x \in 0..n /\ x - 1 \in 0..n /\ at[x] = Len(g[x]) /\ at[x - 1] = Len(g[x - 1])
  BY <1>1
<1>9. at[0] = 0 /\ at[n] = Len(g[n])
  <2>1. g[0] = <<>> /\ 0 \in 0..n /\ n \in 0..n
    BY <1>1, <1>2 DEF JoinedUpTo
  <2>. QED  BY <2>1, EmptyIsOne
<1>. HIDE DEF at
<1>10. \A i \in 1..n : at[i] \in Nat /\ at[i - 1] \in Nat /\ at[i] = at[i - 1] + Len(ss[i]) /\ at[i] <= at[n]
  BY <1>7, <1>8, <1>9 DEF Good
<1>11. IsSequence(g[n]) /\ Len(g[n]) \in Nat
  BY <1>7, SequenceForm DEF Good
<1>12. \A i \in 1..n : \A j \in 1..Len(ss[i]) : at[i - 1] + j \in 1..Len(g[n]) /\ g[n][at[i - 1] + j] = ss[i][j]
  <2>. TAKE i \in 1..n
  <2>. TAKE j \in 1..Len(ss[i])
  <2>1. g[n][at[i - 1] + j] = ss[i][j]
    BY <1>7, <1>8 DEF Good
  <2>2. at[i - 1] + j \in 1..Len(g[n])
    BY <1>1, <1>9, <1>10, <1>11
  <2>. QED  BY <2>1, <2>2
<1>13. \A x \in 1..Len(g[n]) : \E i \in 1..n : \E j \in 1..Len(ss[i]) : x = at[i - 1] + j
  <2>. TAKE x \in 1..Len(g[n])
  <2>1. PICK i \in 1..n : \E j \in 1..Len(ss[i]) : x = Len(g[i - 1]) + j
    BY <1>7 DEF Good
  <2>. QED  BY <1>8, <2>1
<1>14. Blocks(ss, at)
  BY <1>2, <1>9, <1>10, <1>11, <1>12, <1>13 DEF Blocks
<1>. QED  BY <1>14

LEMMA FlattenIsOne ==
    ASSUME NEW ss, IsSequences(ss)
    PROVE  /\ IsSequence(FlattenSeq(ss))
           /\ Range1(FlattenSeq(ss)) = UNION {Range1(ss[k]) : k \in DOMAIN ss}
<1>1. PICK at : Blocks(ss, at)
  BY FlattenBlocks
<1>. DEFINE s == FlattenSeq(ss)
<1>2. IsSequence(s) /\ DOMAIN s = 1..Len(s) /\ DOMAIN ss = 1..Len(ss)
  BY <1>1, SequenceForm DEF Blocks, IsSequences
<1>3. \A k \in 1..Len(ss) : DOMAIN ss[k] = 1..Len(ss[k])
  BY SequenceForm DEF IsSequences
<1>4. ASSUME NEW x \in Range1(s) PROVE x \in UNION {Range1(ss[k]) : k \in DOMAIN ss}
  <2>1. PICK m \in 1..Len(s) : x = s[m]
    BY <1>2 DEF Range1
  <2>2. PICK i \in 1..Len(ss) : \E j \in 1..Len(ss[i]) : m = at[i - 1] + j
    BY <1>1 DEF Blocks
  <2>3. PICK j \in 1..Len(ss[i]) : m = at[i - 1] + j
    BY <2>2
  <2>4. x = ss[i][j]
    BY <1>1, <2>1, <2>3 DEF Blocks
  <2>. QED  BY <1>2, <1>3, <2>4 DEF Range1
<1>5. ASSUME NEW k \in DOMAIN ss PROVE Range1(ss[k]) \subseteq Range1(s)
  <2>1. ASSUME NEW j \in 1..Len(ss[k]) PROVE ss[k][j] \in Range1(s)
    <3>1. at[k - 1] + j \in 1..Len(s) /\ s[at[k - 1] + j] = ss[k][j]
      BY <1>1, <1>2 DEF Blocks
    <3>. QED  BY <1>2, <3>1 DEF Range1
  <2>. QED  BY <1>2, <1>3, <2>1 DEF Range1
<1>. QED  BY <1>2, <1>4, <1>5

LEMMA IndexedIsOne ==
    ASSUME NEW s, IsSequence(s), NEW t, DOMAIN t = DOMAIN s, t = [k \in DOMAIN s |-> t[k]]
    PROVE  IsSequence(t) /\ Len(t) = Len(s)
BY SequenceForm, IsOne

LEMMA SetToSeqIs ==
    ASSUME NEW S, IsFiniteSet(S)
    PROVE  /\ IsSequence(SetToSeq(S)) /\ Range1(SetToSeq(S)) = S
           /\ \A i, j \in DOMAIN SetToSeq(S) : SetToSeq(S)[i] = SetToSeq(S)[j] => i = j
<1>. DEFINE n == Cardinality(S)
            Is(f) == f \in [1..n -> S] /\ IsInjective(f)
            s == CHOOSE f : Is(f)
<1>1. n \in Nat
  BY FS_CardinalityType
<1>2. PICK f \in Bijection(1..n, S) : TRUE
  BY FS_CardinalityType DEF ExistsBijection
<1>3. Is(f)
  BY <1>2 DEF Bijection, Injection, IsInjective
<1>4. Is(s)
  BY <1>3
<1>5. SetToSeq(S) = s
  BY DEF SetToSeq
<1>. HIDE DEF s
<1>6. s \in [1..n -> S] /\ DOMAIN s = 1..n /\ \A i, j \in 1..n : s[i] = s[j] => i = j
  BY <1>4 DEF IsInjective
<1>7. Range1(s) = S
  <2>. SUFFICES ASSUME NEW x \in S, x \notin Range1(s) PROVE FALSE
    BY <1>6 DEF Range1
  <2>1. s \in Injection(1..n, S \ {x})
    BY <1>6 DEF Injection, IsInjective, Range1
  <2>2. IsFiniteSet(S \ {x}) /\ Cardinality(S \ {x}) = n - 1
    BY FS_RemoveElement
  <2>3. Cardinality(1..n) = n /\ IsFiniteSet(1..n)
    BY <1>1, FS_Interval
  <2>4. n <= n - 1
    BY <2>1, <2>2, <2>3, FS_Injection DEF ExistsInjection
  <2>. QED  BY <1>1, <2>4
<1>8. IsSequence(s)
  BY <1>1, <1>6, IsOne
<1>. QED  BY <1>5, <1>6, <1>7, <1>8

LEMMA LeastIs ==
    ASSUME NEW T \in SUBSET Nat, T # {}
    PROVE  Least(T) \in T /\ \A y \in T : Least(T) <= y
BY LeastNat DEF Least

LEMMA FiniteRange ==
    ASSUME NEW S, IsFiniteSet(S), NEW g
    PROVE  IsFiniteSet({g[x] : x \in S})
<1>. DEFINE T == {g[x] : x \in S}
            h == [x \in S |-> g[x]]
<1>1. h \in Surjection(S, T)
  BY DEF Surjection
<1>. QED  BY <1>1, FS_Surjection DEF ExistsSurjection

\* A sequence given by an expression for each of its places.
LEMMA GivenIsOne ==
    ASSUME NEW n \in Nat, NEW s, s = [k \in 1..n |-> s[k]]
    PROVE  IsSequence(s) /\ Len(s) = n /\ DOMAIN s = 1..n
<1>1. DOMAIN s = 1..n
  OBVIOUS
<1>. QED  BY <1>1, IsOne

-----------------------------------------------------------------------------
(* Cookies.                                                                 *)

IsFile(f) == IsSequence(f.nodes) /\ \A n \in DOMAIN f.nodes : IsNode(f.nodes[n])

\* Evidence of f that says so in its id, and where.
Placed(f, e) == /\ e.file = f.path /\ e.id[1] = f.path /\ e.id[2] = e.detector
                /\ e.detector # "cookie.conflicting_writes" => e.id[4] = e.line

\* Detectors whose evidence a rule may report as a misconfiguration by itself, and
\* those that read a parameter: what they found may be dynamic, but is no default.
Certain == {"bearer.store.browser", "bearer.store.public_config", "bearer.store.frontend_bundle",
            "bearer.literal.static", "bearer.transmit.url_query", "client_storage.local_storage.set_item",
            "client_storage.session_storage.set_item", "client_storage.url_path_or_fragment.token"}
Reading == {"query_param.read", "query_param.read.dynamic"}
Firm(e) == ~e.dynamic /\ ~e.default

\* Evidence of what browser code stores is known by its id.
Stores == {"client_storage.local_storage.set_item", "client_storage.session_storage.set_item",
           "client_storage.url_path_or_fragment.token", "client_storage.browser.client_secret"}
StoreAt(path, detector, stage, line, name) ==
    EvidenceAt([path |-> path], detector, <<"client.storage", stage>>, line, name, stage,
               IF detector = "client_storage.browser.client_secret" THEN "dynamic" ELSE "present", {})
KnownById(e) == \E path, stage, line, name : e = StoreAt(path, e.detector, stage, line, name)

Sure(e) == /\ e.detector \in Certain => Firm(e)
           /\ e.detector \in Reading => ~e.default
           /\ e.detector = "bearer.transmit" => e.stage = "transmit"
           /\ e.detector \in Stores => KnownById(e)

\* What is observed of a cookie, and of a JWT, has evidence of the artifact; and
\* what is said to be there or to be missing has some that says so.
FirmIn(E, ids) == \E e \in E : e.id \in ids /\ Firm(e)
CookieBacked(a) ==
    \A k \in Cookie!Attribute :
       /\ a.cookie[k].ids # {} /\ a.cookie[k].ids \subseteq Ids(a.evidence)
       /\ a.cookie[k].state \in {"present", "missing"} => FirmIn(a.evidence, a.cookie[k].ids)
JwtBacked(a) ==
    /\ \A k \in JwtAttribute :
          /\ a.jwt[k].ids \subseteq Ids(a.evidence)
          /\ a.jwt[k].state # "unknown" => a.jwt[k].ids # {}
          /\ a.jwt[k].state = "missing" => FirmIn(a.evidence, a.jwt[k].ids)
    /\ a.jwt["algorithm"].value # {} => FirmIn(a.evidence, a.jwt["algorithm"].ids)
    /\ "decode_without_verify" \in a.jwt["operation"].value =>
          FirmIn(a.evidence, a.jwt["signature_verification"].ids)
    /\ \A e \in a.evidence : e.says # {} => Firm(e)

\* A JWT is that of a group of calls, a flow that of a line.
JwtIn(f, a) == \E group \in Range1(Jwt!JwtGroups(Jwt!JwtCalls(f))) : a = Jwt!JwtArtifact(f, group)
FlowIn(f, a) == Program(f) /\ \E n \in OAuth!FlowLines(f) : a = OAuth!FlowArtifact(f, n)
LikeFlow(a) == a.id[2] = "oauth.flow" \/ a.type = "OAuthAuthCodeFlow"

\* A login, a change of privilege or a regeneration of the session is a signal of
\* the session detector.
Sessional == {"session.auth_transition", "session.privilege_transition", "session.regenerate", "session.reissue",
              "session.framework_default_regenerate"}
SessionIn(f, a) ==
    /\ Program(f)
    /\ \E n \in DOMAIN f.nodes : \E s \in Range1(Session!SessionSignals(f, n)) : a = Session!SessionArtifact(f, s)

\* What holds of every artifact of a file.
Shown(f, a) ==
    /\ a.id[1] = f.path /\ a.evidence # {}
    /\ a.jwt # NoAttributes => JwtBacked(a) /\ JwtIn(f, a)
    /\ LikeFlow(a) => FlowIn(f, a)
    /\ \A e \in a.evidence : /\ Placed(f, e) /\ Sure(e)
                            /\ (e.detector = "oauth.flow.auth_code" => FlowIn(f, a))
                            /\ (e.detector \in Sessional => SessionIn(f, a))

\* Calls of cookies, at nodes of these kinds: the handler of a write is the scope
\* around its line, and no two calls share line and column.
CallsOf(f, s, kinds) ==
    /\ IsSequence(s)
    /\ \A c \in Range1(s) : c.scope = Cookie!Scope(f, c.line) /\ f.nodes[c.line].kind \in kinds
    /\ \A c, d \in Range1(s) : c.line = d.line /\ c.column = d.column => c = d

\* The same, when the calls of each node are at its line.
LEMMA CallsOfNodes ==
    ASSUME NEW f, NEW ss, IsSequences(ss), IsSequence(ss), NEW kinds,
           \A n \in DOMAIN ss : CallsOf(f, ss[n], kinds) /\ \A c \in Range1(ss[n]) : c.line = n
    PROVE  CallsOf(f, FlattenSeq(ss), kinds)
<1>1. IsSequence(FlattenSeq(ss)) /\ Range1(FlattenSeq(ss)) = UNION {Range1(ss[k]) : k \in DOMAIN ss}
  BY FlattenIsOne
<1>2. \A c \in Range1(FlattenSeq(ss)) : c.line \in DOMAIN ss /\ c \in Range1(ss[c.line])
  BY <1>1
<1>. QED  BY <1>1, <1>2 DEF CallsOf

LEMMA CookieSequences == \A s : Cookie!FlattenSeq(s) = FlattenSeq(s)
BY DEF Cookie!FlattenSeq, FlattenSeq

LEMMA DirectCallsIsOne ==
    ASSUME NEW f, IsFile(f)
    PROVE  CallsOf(f, Cookie!DirectCalls(f), {"Cookie", "Header"})
<1>. DEFINE ss == [n \in DOMAIN f.nodes |->
                      CASE f.nodes[n].kind = "Cookie" -> Cookie!CallAt(f, n, Cookie!Parameters(f, Cookie!Handler(f, n)))
                        [] f.nodes[n].kind = "Header" -> Cookie!HeaderCalls(f, n)
                        [] OTHER -> <<>>]
            kinds == {"Cookie", "Header"}
            Good(n, s) == CallsOf(f, s, kinds) /\ \A c \in Range1(s) : c.line = n
<1>1. \A n : Good(n, <<>>)
  BY EmptyIsOne DEF CallsOf
<1>0. ASSUME NEW n, f.nodes[n].kind \in kinds, NEW api, NEW hint, NEW name, NEW o
      PROVE  Good(n, <<Cookie!CookieCall(api, hint, n, 1, name, Cookie!Scope(f, n), o)>>)
  <2>. DEFINE c == Cookie!CookieCall(api, hint, n, 1, name, Cookie!Scope(f, n), o)
  <2>1. c.line = n /\ c.scope = Cookie!Scope(f, n)
    BY DEF Cookie!CookieCall
  <2>. HIDE DEF c
  <2>2. Good(n, <<c>>)
    BY <1>0, <2>1, SingleIsOne DEF CallsOf
  <2>. QED  BY <2>2 DEF c
<1>2. ASSUME NEW n, f.nodes[n].kind = "Cookie", NEW parameters PROVE Good(n, Cookie!CallAt(f, n, parameters))
  <2>. HIDE DEF Good
  <2>. QED  BY <1>0, <1>1, <1>2 DEF Cookie!CallAt
<1>3. ASSUME NEW n \in DOMAIN f.nodes, f.nodes[n].kind = "Header" PROVE Good(n, Cookie!HeaderCalls(f, n))
  <2>1. CASE f.nodes[n].cookies = <<>>
    <3>. HIDE DEF Good
    <3>. QED  BY <1>0, <1>3, <2>1 DEF Cookie!HeaderCalls
  <2>2. CASE f.nodes[n].cookies # <<>>
    <3>. DEFINE s == [k \in DOMAIN f.nodes[n].cookies |-> Cookie!HeaderCookie(f, n, k)]
    <3>1. IsSequence(f.nodes[n].cookies)
      BY <1>3 DEF IsFile, IsNode
    <3>2. IsSequence(s)
      BY <3>1, IndexedIsOne
    <3>3. \A k \in DOMAIN s : s[k].scope = Cookie!Scope(f, n) /\ s[k].line = n /\ s[k].column = k
      <4>1. \A k : /\ Cookie!HeaderCookie(f, n, k).scope = Cookie!Scope(f, n)
                   /\ Cookie!HeaderCookie(f, n, k).line = n /\ Cookie!HeaderCookie(f, n, k).column = k
        BY Zenon DEF Cookie!HeaderCookie, Cookie!CookieCall
      <4>. QED  BY <4>1
    <3>4. Cookie!HeaderCalls(f, n) = s
      BY <2>2 DEF Cookie!HeaderCalls
    <3>. HIDE DEF s
    <3>. QED  BY <1>3, <3>2, <3>3, <3>4 DEF Range1, CallsOf
  <2>. QED  BY <2>1, <2>2
<1>. HIDE DEF Good
<1>4. \A n \in DOMAIN ss : Good(n, ss[n])
  BY <1>1, <1>2, <1>3
<1>5. IsSequence(ss) /\ DOMAIN ss = 1..Len(ss)
  <2>1. IsSequence(f.nodes)
    BY DEF IsFile
  <2>. QED  BY <2>1, IndexedIsOne, SequenceForm
<1>6. Cookie!DirectCalls(f) = FlattenSeq(ss)
  BY CookieSequences DEF Cookie!DirectCalls
<1>. HIDE DEF ss
<1>7. IsSequences(ss)
  BY <1>4, <1>5 DEF IsSequences, Good, CallsOf
<1>8. CallsOf(f, FlattenSeq(ss), kinds)
  BY <1>4, <1>5, <1>7, CallsOfNodes DEF Good
<1>. QED  BY <1>6, <1>8

LEMMA WrapperCallsIsOne ==
    ASSUME NEW f, IsFile(f)
    PROVE  CallsOf(f, Cookie!WrapperCalls(f), {"Call"})
<1>. DEFINE ss == [n \in DOMAIN f.nodes |->
                      IF f.nodes[n].kind # "Call" \/ Cookie!Wrappers(f, f.nodes[n].name) = {} THEN <<>>
                      ELSE Cookie!CallOfWrapper(f, n, Cookie!LastOf(Cookie!Wrappers(f, f.nodes[n].name)))]
            kinds == {"Call"}
            Good(n, s) == CallsOf(f, s, kinds) /\ \A c \in Range1(s) : c.line = n
<1>1. \A n : Good(n, <<>>)
  BY EmptyIsOne DEF CallsOf
<1>2. ASSUME NEW n, f.nodes[n].kind = "Call", NEW fn PROVE Good(n, Cookie!CallOfWrapper(f, n, fn))
  <2>. DEFINE t == Cookie!Least(Cookie!Templates(f, fn))
              at == Cookie!PassedOn(f, fn, t)
              name == f.nodes[n].arguments[at][2]
              call == [Cookie!CallAt(f, t, <<>>)[1] EXCEPT !.hint = "wrapper", !.line = n,
                                                            !.scope = Cookie!Scope(f, n), !.name = name]
  <2>1. call.scope = Cookie!Scope(f, n) /\ call.line = n
    <3>1. PICK api, hint, m, name1, scope, o :
             Cookie!CallAt(f, t, <<>>) = <<Cookie!CookieCall(api, hint, m, 1, name1, scope, o)>>
      <4>1. ~(f.nodes[t].name[2] \in Cookie!Range1(<<>>))
        BY DEF Cookie!Range1
      <4>. HIDE DEF t
      <4>. QED  BY <4>1 DEF Cookie!CallAt
    <3>. HIDE DEF t
    <3>2. Cookie!CallAt(f, t, <<>>)[1] = Cookie!CookieCall(api, hint, m, 1, name1, scope, o)
      BY <3>1
    <3>. HIDE DEF name
    <3>. QED  BY <3>2 DEF Cookie!CookieCall
  <2>2. Cookie!CallOfWrapper(f, n, fn) = <<>> \/ Cookie!CallOfWrapper(f, n, fn) = <<call>>
    BY DEF Cookie!CallOfWrapper, Cookie!WrapperCall
  <2>. HIDE DEF call
  <2>3. Good(n, <<call>>)
    BY <1>2, <2>1, SingleIsOne DEF CallsOf
  <2>. HIDE DEF Good
  <2>. QED  BY <1>1, <2>2, <2>3
<1>. HIDE DEF Good
<1>4. \A n \in DOMAIN ss : Good(n, ss[n])
  BY <1>1, <1>2
<1>5. IsSequence(ss) /\ DOMAIN ss = 1..Len(ss)
  <2>1. IsSequence(f.nodes)
    BY DEF IsFile
  <2>. QED  BY <2>1, IndexedIsOne, SequenceForm
<1>6. Cookie!WrapperCalls(f) = FlattenSeq(ss)
  BY CookieSequences DEF Cookie!WrapperCalls
<1>. HIDE DEF ss
<1>7. IsSequences(ss)
  BY <1>4, <1>5 DEF IsSequences, Good, CallsOf
<1>8. CallsOf(f, FlattenSeq(ss), kinds)
  BY <1>4, <1>5, <1>7, CallsOfNodes DEF Good
<1>. QED  BY <1>6, <1>8

LEMMA SettingCallsIsOne ==
    ASSUME NEW f, IsFile(f)
    PROVE  CallsOf(f, Cookie!SettingCalls(f), {"Setting"})
<1>. DEFINE at == {n \in Cookie!Nodes(f, "Setting") : Cookie!Scope(f, n) = 0}
<1>1. CASE at = {} \/ f.language # "py"
  <2>1. Cookie!SettingCalls(f) = <<>>
    BY <1>1 DEF Cookie!SettingCalls
  <2>. QED  BY <2>1, EmptyIsOne DEF CallsOf
<1>2. CASE ~(at = {} \/ f.language # "py")
  <2>1. Cookie!Least(at) \in at
    <3>1. IsSequence(f.nodes)
      BY DEF IsFile
    <3>2. DOMAIN f.nodes \subseteq Nat
      BY <3>1, SequenceForm
    <3>3. at \in SUBSET Nat
      BY <3>2 DEF Cookie!Nodes
    <3>. HIDE DEF at
    <3>. QED  BY <1>2, <3>3, LeastIs DEF Cookie!Least, Least
  <2>2. PICK o : Cookie!SettingCalls(f)
                   = <<Cookie!CookieCall("django.settings", "django", Cookie!Least(at), 1, "sessionid", 0, o)>>
    BY <1>2 DEF Cookie!SettingCalls
  <2>3. Cookie!Scope(f, Cookie!Least(at)) = 0 /\ f.nodes[Cookie!Least(at)].kind = "Setting"
    BY <2>1 DEF Cookie!Nodes
  <2>. HIDE DEF at
  <2>. DEFINE c == Cookie!CookieCall("django.settings", "django", Cookie!Least(at), 1, "sessionid", 0, o)
  <2>4. c.line = Cookie!Least(at) /\ c.scope = 0
    BY DEF Cookie!CookieCall
  <2>. HIDE DEF c
  <2>. QED  BY <2>2, <2>3, <2>4, SingleIsOne DEF CallsOf, c
<1>. QED  BY <1>1, <1>2

\* The calls of the file are at its lines, and each at a place of its own.
LEMMA CookieCallsIsOne ==
    ASSUME NEW f, IsFile(f)
    PROVE  CallsOf(f, Cookie!CookieCalls(f), {"Cookie", "Header", "Call", "Setting"})
<1>. DEFINE a == Cookie!DirectCalls(f)
            b == Cookie!WrapperCalls(f)
            c == Cookie!SettingCalls(f)
<1>1. CallsOf(f, a, {"Cookie", "Header"}) /\ CallsOf(f, b, {"Call"}) /\ CallsOf(f, c, {"Setting"})
  BY DirectCallsIsOne, WrapperCallsIsOne, SettingCallsIsOne
<1>2. Cookie!CookieCalls(f) = (a \o b) \o c
  BY DEF Cookie!CookieCalls
<1>. HIDE DEF a, b, c
<1>3. ASSUME NEW s, NEW t, NEW K, NEW L, CallsOf(f, s, K), CallsOf(f, t, L), K \cap L = {}
      PROVE  CallsOf(f, s \o t, K \cup L)
  <2>1. IsSequence(s \o t) /\ Range1(s \o t) = Range1(s) \cup Range1(t)
    BY <1>3, ConcatIsOne DEF CallsOf
  <2>2. \A x \in Range1(s), y \in Range1(t) : x.line # y.line
    BY <1>3 DEF CallsOf
  <2>. QED  BY <1>3, <2>1, <2>2 DEF CallsOf
<1>4. CallsOf(f, a \o b, {"Cookie", "Header"} \cup {"Call"})
  BY <1>1, <1>3
<1>5. CallsOf(f, (a \o b) \o c, ({"Cookie", "Header"} \cup {"Call"}) \cup {"Setting"})
  BY <1>1, <1>3, <1>4
<1>6. ({"Cookie", "Header"} \cup {"Call"}) \cup {"Setting"} = {"Cookie", "Header", "Call", "Setting"}
  OBVIOUS
<1>. QED  BY <1>2, <1>5, <1>6

\* Artifacts of two calls have two ids.
LEMMA CookiesAreApart ==
    ASSUME NEW f, IsFile(f), NEW calls, calls = Cookie!CookieCalls(f), NEW i \in DOMAIN calls, NEW j \in DOMAIN calls,
           Cookie!CookieArtifact(f, calls, calls[i]).id = Cookie!CookieArtifact(f, calls, calls[j]).id
    PROVE  calls[i] = calls[j]
<1>1. \A c : LET x == Cookie!CookieArtifact(f, calls, c).id IN x[4] = c.line /\ x[3][3] = c.column
  BY DEF Cookie!CookieArtifact, Cookie!Artifact
<1>2. calls[i].line = calls[j].line /\ calls[i].column = calls[j].column
  BY <1>1
<1>. QED  BY <1>2, CookieCallsIsOne DEF CallsOf, Range1

LEMMA CookieArtifactsIsOne ==
    ASSUME NEW f, IsFile(f)
    PROVE  LET calls == Cookie!CookieCalls(f)
           IN  /\ IsSequence(Cookie!CookieArtifacts(f)) /\ Len(Cookie!CookieArtifacts(f)) = Len(calls)
               /\ \A k \in DOMAIN calls : Cookie!CookieArtifacts(f)[k] = Cookie!CookieArtifact(f, calls, calls[k])
<1>. DEFINE calls == Cookie!CookieCalls(f)
            t == [k \in DOMAIN calls |-> Cookie!CookieArtifact(f, calls, calls[k])]
<1>1. IsSequence(calls)
  BY CookieCallsIsOne DEF CallsOf
<1>2. Cookie!CookieArtifacts(f) = t
  BY DEF Cookie!CookieArtifacts, Cookie!ArtifactsOf
<1>3. t = [k \in DOMAIN calls |-> t[k]] /\ \A k \in DOMAIN calls : t[k] = Cookie!CookieArtifact(f, calls, calls[k])
  OBVIOUS
<1>. HIDE DEF t
<1>. QED  BY <1>1, <1>2, <1>3, IndexedIsOne

\* Where the evidence of a cookie is, and which of it is of a conflict.
LEMMA CookieEvidence ==
    ASSUME NEW f, NEW calls, NEW c, NEW e \in Cookie!CookieArtifact(f, calls, c).evidence
    PROVE  /\ Placed(f, e) /\ Sure(e) /\ e.detector # "bearer.store.browser" /\ e.detector # "oauth.flow.auth_code"
           /\ e.detector \notin Sessional
           /\ e.detector = "cookie.conflicting_writes" => e \in Cookie!Conflicts(f, calls, c)
<1>1. e \in {Cookie!AttributeEvidence(f, c, k) : k \in Cookie!Attribute}
            \cup {Cookie!StoreEvidence(f, c), Cookie!PrefixEvidence(f, c)}
            \cup Cookie!PartitionedEvidence(f, c) \cup Cookie!Conflicts(f, calls, c)
  BY DEF Cookie!CookieArtifact, Cookie!Artifact
<1>. DEFINE Spoken == {"cookie.attribute", "cookie.set", "cookie.attribute.name_prefix", "cookie.attribute.partitioned"}
            Plain(x) == Placed(f, x) /\ x.detector \in Spoken
<1>2. ASSUME NEW k PROVE Plain(Cookie!AttributeEvidence(f, c, k))
  BY DEF Cookie!AttributeEvidence, Cookie!EvidenceAt, Placed
<1>3. Plain(Cookie!StoreEvidence(f, c)) /\ Plain(Cookie!PrefixEvidence(f, c))
  BY DEF Cookie!StoreEvidence, Cookie!PrefixEvidence, Cookie!EvidenceAt, Placed
<1>4. \A x \in Cookie!PartitionedEvidence(f, c) : Plain(x)
  BY DEF Cookie!PartitionedEvidence, Cookie!EvidenceAt, Placed
<1>5. \A x \in Cookie!Conflicts(f, calls, c) : Placed(f, x) /\ x.detector = "cookie.conflicting_writes"
  BY DEF Cookie!Conflicts, Cookie!EvidenceAt, Placed
<1>. HIDE DEF Plain
<1>6. Plain(e) \/ e \in Cookie!Conflicts(f, calls, c)
  BY <1>1, <1>2, <1>3, <1>4
<1>7. /\ Placed(f, e) /\ e.detector \in Spoken \cup {"cookie.conflicting_writes"}
      /\ e.detector = "cookie.conflicting_writes" => e \in Cookie!Conflicts(f, calls, c)
  BY <1>5, <1>6 DEF Plain
<1>8. \A d \in Spoken \cup {"cookie.conflicting_writes"} :
         /\ d \notin Certain /\ d \notin Reading /\ d # "bearer.transmit" /\ d \notin Stores
         /\ d # "bearer.store.browser" /\ d # "oauth.flow.auth_code" /\ d \notin Sessional
  BY DEF Certain, Reading, Stores, Sessional
<1>. HIDE DEF Spoken
<1>. QED  BY <1>7, <1>8 DEF Sure

LEMMA CookieIsBacked ==
    ASSUME NEW f, NEW calls, NEW c
    PROVE  LET a == Cookie!CookieArtifact(f, calls, c)
           IN /\ a.id[1] = f.path /\ a.evidence # {} /\ a.jwt = NoAttributes /\ CookieBacked(a)
<1>. DEFINE a == Cookie!CookieArtifact(f, calls, c)
            e(k) == Cookie!AttributeEvidence(f, c, k)
            x(k) == Cookie!AttributeOf(c, k)
<1>1. /\ a.id[1] = f.path /\ a.jwt = NoAttributes
      /\ {e(k) : k \in Cookie!Attribute} \cup {Cookie!StoreEvidence(f, c)} \subseteq a.evidence
  BY DEF Cookie!CookieArtifact, Cookie!Artifact, Cookie!NoAttributes, NoAttributes
<1>2. a.cookie = [k \in Cookie!Attribute |-> Cookie!Observation(x(k).state, x(k).value, x(k).confidence, {e(k).id})]
  BY DEF Cookie!CookieArtifact, Cookie!Artifact
<1>3. \A k : e(k).dynamic = (x(k).state = "dynamic") /\ e(k).default = (x(k).state = "framework_default")
  BY DEF Cookie!AttributeEvidence, Cookie!EvidenceAt
<1>. HIDE DEF a, e, x
<1>4. \A k \in Cookie!Attribute : a.cookie[k].state = x(k).state /\ a.cookie[k].ids = {e(k).id} /\ e(k) \in a.evidence
  BY <1>1, <1>2 DEF Cookie!Observation
<1>5. CookieBacked(a)
  <2>. SUFFICES ASSUME NEW k \in Cookie!Attribute
                PROVE  /\ a.cookie[k].ids # {} /\ a.cookie[k].ids \subseteq Ids(a.evidence)
                       /\ a.cookie[k].state \in {"present", "missing"} => FirmIn(a.evidence, a.cookie[k].ids)
    BY DEF CookieBacked
  <2>. DEFINE y == e(k)
  <2>1. /\ a.cookie[k].state = x(k).state /\ a.cookie[k].ids = {y.id} /\ y \in a.evidence
        /\ y.dynamic = (x(k).state = "dynamic") /\ y.default = (x(k).state = "framework_default")
    BY <1>3, <1>4
  <2>. HIDE DEF y
  <2>. QED  BY <2>1 DEF FirmIn, Firm, Ids
<1>. QED  BY <1>1, <1>5 DEF a

-----------------------------------------------------------------------------
(* JWTs.                                                                    *)

\* The detectors whose evidence the theorems tell from all other, and what the ids
\* of flows begin with.
Apart == {"bearer.store.browser", "cookie.conflicting_writes"}
Alien == {"bearer.store.browser", "bearer.store.public_config", "bearer.store.frontend_bundle",
          "bearer.literal.static", "bearer.transmit.url_query", "client_storage.local_storage.set_item",
          "client_storage.session_storage.set_item", "client_storage.url_path_or_fragment.token",
          "client_storage.browser.client_secret", "query_param.read", "query_param.read.dynamic",
          "bearer.transmit", "cookie.conflicting_writes", "oauth.flow.auth_code", "oauth.flow"}
Foreign == Alien \cup Sessional

LEMMA AlienIs == \A e : e.detector \notin Alien => e.detector \notin Apart /\ Sure(e)
<1>1. Apart \subseteq Alien /\ Certain \subseteq Alien /\ Reading \subseteq Alien /\ Stores \subseteq Alien
      /\ "bearer.transmit" \in Alien
  BY DEF Alien, Apart, Certain, Reading, Stores
<1>. QED  BY <1>1 DEF Sure

\* Fields that do not say that the issuer or the audience is missing.
Quiet(F) == \A k \in DOMAIN F :
               k \notin Foreign /\ (k \in {Jwt!Attr("issuer"), Jwt!Attr("audience")} => F[k].state # "missing")
Keys(F) == \A k \in DOMAIN F : k \notin Foreign

LEMMA JwtOver ==
    ASSUME NEW F, NEW G
    PROVE  /\ DOMAIN Jwt!Over(F, G) = DOMAIN F \cup DOMAIN G
           /\ \A k \in DOMAIN F \cup DOMAIN G : Jwt!Over(F, G)[k] = IF k \in DOMAIN F THEN F[k] ELSE G[k]
BY DEF Jwt!Over

LEMMA JwtOnly ==
    ASSUME NEW k, NEW v
    PROVE  DOMAIN Jwt!Only(k, v) = {k} /\ Jwt!Only(k, v)[k] = v
BY DEF Jwt!Only

LEMMA QuietOver ==
    ASSUME NEW F, NEW G, Quiet(F), Quiet(G)
    PROVE  Quiet(Jwt!Over(F, G))
<1>. DEFINE H == Jwt!Over(F, G)
<1>1. /\ DOMAIN H = DOMAIN F \cup DOMAIN G
      /\ \A k \in DOMAIN F \cup DOMAIN G : H[k] = IF k \in DOMAIN F THEN F[k] ELSE G[k]
  BY DEF Jwt!Over
<1>. HIDE DEF H
<1>2. Quiet(H)
  BY <1>1 DEF Quiet
<1>. QED  BY <1>2 DEF H

LEMMA KeysOver ==
    ASSUME NEW F, NEW G, Keys(F), Keys(G)
    PROVE  Keys(Jwt!Over(F, G))
<1>1. DOMAIN Jwt!Over(F, G) = DOMAIN F \cup DOMAIN G
  BY JwtOver
<1>. QED  BY <1>1 DEF Keys

LEMMA NothingIsQuiet == Quiet(<<>>) /\ Keys(<<>>)
BY EmptyIsOne DEF Quiet, Keys

Attributes == {"algorithm", "audience", "auth_class", "auth_method", "email", "email_verified", "expiration",
               "expiry_enforcement", "groups", "issuer", "key_reference", "operation", "org_id", "roles",
               "scopes", "signature_verification", "subject", "tenant_id", "user_id", "workspace_id"}
OptionNames == {"algorithms", "audience", "clock_timestamp", "clock_tolerance", "complete", "ignore_expiration",
                "ignore_not_before", "issuer", "nonce", "subject"}

LEMMA FieldNames ==
    /\ \A x \in Attributes : Jwt!Attr(x) \notin Foreign
    /\ \A x \in OptionNames : Jwt!Opt(x) \notin Foreign
    /\ \A x \in Attributes \ {"issuer", "audience"} : Jwt!Attr(x) \notin {Jwt!Attr("issuer"), Jwt!Attr("audience")}
BY DEF Jwt!Attr, Jwt!Opt, Foreign, Alien, Sessional, Attributes, OptionNames

LEMMA AttrKeysAreKeys ==
    ASSUME NEW R, DOMAIN R \subseteq Attributes
    PROVE  Keys(Jwt!AttrKeys(R))
<1>1. DOMAIN Jwt!AttrKeys(R) = {Jwt!Attr(a) : a \in DOMAIN R}
  BY DEF Jwt!AttrKeys
<1>. QED  BY <1>1, FieldNames DEF Keys

LEMMA OptKeysAreKeys ==
    ASSUME NEW R, DOMAIN R \subseteq OptionNames
    PROVE  Keys(Jwt!OptKeys(R))
<1>1. DOMAIN Jwt!OptKeys(R) = {Jwt!Opt(a) : a \in DOMAIN R}
  BY DEF Jwt!OptKeys
<1>. QED  BY <1>1, FieldNames DEF Keys

LEMMA KeyMaps ==
    /\ Keys(Jwt!IssuePayload) /\ Keys(Jwt!SignKeys) /\ Keys(Jwt!PythonKeys) /\ Keys(Jwt!ObjectKeys)
    /\ Keys(Jwt!PythonFields) /\ Keys(Jwt!KeywordKeys)
    /\ \A jose : Keys(Jwt!VerifyKeys(jose))
<1>1. Keys(Jwt!IssuePayload) /\ Keys(Jwt!SignKeys) /\ Keys(Jwt!PythonKeys)
  BY AttrKeysAreKeys, OptKeysAreKeys DEF Jwt!IssuePayload, Jwt!SignKeys, Jwt!PythonKeys, Attributes, OptionNames
<1>2. Keys(Jwt!ObjectKeys)
  BY <1>1, AttrKeysAreKeys, OptKeysAreKeys, KeysOver DEF Jwt!ObjectKeys, Attributes, OptionNames
<1>3. Keys(Jwt!PythonFields)
  BY <1>1, AttrKeysAreKeys, OptKeysAreKeys, KeysOver DEF Jwt!PythonFields, Attributes, OptionNames
<1>4. Keys(Jwt!KeywordKeys)
  BY AttrKeysAreKeys, OptKeysAreKeys, KeysOver DEF Jwt!KeywordKeys, Attributes, OptionNames
<1>5. Keys(Jwt!CommonKeys)
  BY AttrKeysAreKeys, OptKeysAreKeys, KeysOver DEF Jwt!CommonKeys, Attributes, OptionNames
<1>6. \A jose : Keys(Jwt!VerifyKeys(jose))
  BY <1>5, AttrKeysAreKeys, OptKeysAreKeys, KeysOver DEF Jwt!VerifyKeys, Attributes, OptionNames
<1>. QED  BY <1>1, <1>2, <1>3, <1>4, <1>6

\* What a call says of a field that it names itself is no missing check of the issuer.
LEMMA QuietOnly ==
    ASSUME NEW x \in Attributes \ {"issuer", "audience"}, NEW v
    PROVE  Quiet(Jwt!Only(Jwt!Attr(x), v))
<1>1. DOMAIN Jwt!Only(Jwt!Attr(x), v) = {Jwt!Attr(x)}
  BY JwtOnly
<1>. QED  BY <1>1, FieldNames DEF Quiet

\* Fields of the key maps, none of which is missing.
LEMMA QuietFields ==
    ASSUME NEW F, NEW keys, Keys(keys), DOMAIN F \subseteq DOMAIN keys,
           \A k \in DOMAIN F : F[k].state # "missing"
    PROVE  Quiet(F)
BY DEF Quiet, Keys

LEMMA PresentNodeIs == \A k, v, line : Jwt!PresentNode(k, v, line).state = "present"
BY DEF Jwt!PresentNode, Jwt!Field

LEMMA WrittenIsQuiet ==
    ASSUME NEW o, NEW keys, NEW line, Keys(keys)
    PROVE  Quiet(Jwt!Written(o, keys, line))
<1>. DEFINE F == Jwt!Written(o, keys, line)
<1>1. DOMAIN F \subseteq DOMAIN keys
  BY DEF Jwt!Written
<1>2. \A k \in DOMAIN F : F[k].state # "missing"
  BY PresentNodeIs DEF Jwt!Written
<1>. HIDE DEF F
<1>3. Quiet(F)
  BY <1>1, <1>2, QuietFields
<1>. QED  BY <1>3 DEF F

LEMMA UnresolvedIsQuiet ==
    ASSUME NEW keys, NEW line, Keys(keys)
    PROVE  Quiet(Jwt!AllUnresolved(keys, line))
<1>. DEFINE F == Jwt!AllUnresolved(keys, line)
<1>1. DOMAIN F = DOMAIN keys /\ \A k \in DOMAIN keys : F[k].state # "missing"
  BY DEF Jwt!AllUnresolved, Jwt!Unresolved, Jwt!Field
<1>. HIDE DEF F
<1>2. Quiet(F)
  BY <1>1, QuietFields
<1>. QED  BY <1>2 DEF F

LEMMA SpreadIsQuiet ==
    ASSUME NEW o, NEW keys, NEW line, Keys(keys)
    PROVE  Quiet(Jwt!WithSpread(o, keys, line))
<1>. DEFINE F == Jwt!Written(o, keys, line)
            G == IF o.spread THEN Jwt!AllUnresolved(keys, line) ELSE <<>>
<1>1. Quiet(F) /\ Quiet(G)
  BY WrittenIsQuiet, UnresolvedIsQuiet, NothingIsQuiet
<1>2. Jwt!WithSpread(o, keys, line) = Jwt!Over(F, G)
  BY DEF Jwt!WithSpread
<1>. HIDE DEF F, G
<1>. QED  BY <1>1, <1>2, QuietOver

LEMMA ClaimsAreQuiet ==
    ASSUME NEW o, NEW line
    PROVE  Quiet(Jwt!Claims(o, line))
<1>. DEFINE F == Jwt!Claims(o, line)
<1>1. \A k \in DOMAIN F : \E c \in Jwt!Claim : k = Jwt!Attr(c)
  BY DEF Jwt!Claims
<1>2. Jwt!Claim \subseteq Attributes
  BY DEF Jwt!Claim, Attributes
<1>3. \A k \in DOMAIN F : F[k].state # "missing"
  BY DEF Jwt!Claims, Jwt!Field
<1>. HIDE DEF F
<1>4. Quiet(F)
  BY <1>1, <1>2, <1>3, FieldNames DEF Quiet
<1>. QED  BY <1>4 DEF F

LEMMA KeptIsQuiet ==
    ASSUME NEW f, NEW d
    PROVE  Quiet(Jwt!KeptFields(f, d))
<1>. DEFINE o == f.nodes[d].object
            A == Jwt!KeptExpiry(o, d)
            B == Jwt!KeptSignature(o, d)
            C == Jwt!WithSpread(o, Jwt!ObjectKeys, d)
            D == Jwt!Claims(o, d)
<1>1. Quiet(A)
  BY QuietOnly, NothingIsQuiet DEF Jwt!KeptExpiry, Attributes
<1>2. Quiet(B)
  BY QuietOnly, QuietOver, NothingIsQuiet DEF Jwt!KeptSignature, Attributes
<1>3. Quiet(C) /\ Quiet(D)
  BY SpreadIsQuiet, KeyMaps, ClaimsAreQuiet
<1>4. Jwt!KeptFields(f, d) = Jwt!Over(A, Jwt!Over(B, Jwt!Over(C, D)))
  BY DEF Jwt!KeptFields
<1>. HIDE DEF A, B, C, D
<1>. QED  BY <1>1, <1>2, <1>3, <1>4, QuietOver

LEMMA OptionsAreQuiet ==
    ASSUME NEW F, NEW f, NEW n, NEW o, NEW d, NEW keys, NEW all, Quiet(F), Keys(keys), Keys(all)
    PROVE  Quiet(Jwt!WithOptions(F, f, n, o, d, keys, all))
<1>. DEFINE A == Jwt!Written(o[2], keys, n)
            B == Jwt!AllUnresolved(all, n)
            C == Jwt!OnlyKeys(Jwt!KeptFields(f, d), all)
            kept == Jwt!KeptFields(f, d)
<1>1. Quiet(A) /\ Quiet(B)
  BY WrittenIsQuiet, UnresolvedIsQuiet
<1>2. Quiet(C)
  <2>1. Quiet(kept)
    BY KeptIsQuiet
  <2>2. DOMAIN C \subseteq DOMAIN kept /\ \A k \in DOMAIN C : C[k] = kept[k]
    BY DEF Jwt!OnlyKeys
  <2>. HIDE DEF kept, C
  <2>. QED  BY <2>1, <2>2 DEF Quiet
<1>. DEFINE G == IF o[2].spread THEN B ELSE <<>>
            H == IF f.nodes[d].object.spread THEN B ELSE <<>>
<1>3. Quiet(G) /\ Quiet(H)
  BY <1>1, NothingIsQuiet
<1>4. Jwt!WithOptions(F, f, n, o, d, keys, all)
        \in {F, Jwt!Over(A, Jwt!Over(F, G)), Jwt!Over(F, Jwt!Over(C, H)), Jwt!Over(F, B)}
  BY DEF Jwt!WithOptions
<1>. HIDE DEF A, B, C, G, H
<1>. QED  BY <1>1, <1>2, <1>3, <1>4, QuietOver

LEMMA ExpiryIsQuiet ==
    ASSUME NEW F, NEW f, NEW n, NEW o, NEW d, NEW off, NEW on, Quiet(F)
    PROVE  Quiet(Jwt!WithExpiry(F, f, n, o, d, off, on))
<1>1. \A v : Quiet(Jwt!Only(Jwt!Attr("expiry_enforcement"), v))
  BY QuietOnly DEF Attributes
<1>. DEFINE O(v) == Jwt!Only(Jwt!Attr("expiry_enforcement"), v)
<1>2. \E v : Jwt!WithExpiry(F, f, n, o, d, off, on) \in {Jwt!Over(O(v), F), Jwt!Over(F, O(v))}
  BY DEF Jwt!WithExpiry
<1>. HIDE DEF O
<1>. QED  BY <1>1, <1>2, QuietOver DEF O

LEMMA KeyIsQuiet == \A f, n : Quiet(Jwt!KeyField(f, n))
BY QuietOnly DEF Jwt!KeyField, Attributes

LEMMA PayloadIsQuiet ==
    ASSUME NEW f, NEW n
    PROVE  Quiet(Jwt!PayloadFields(f, n))
<1>. DEFINE p == f.nodes[n].payload
            d == Jwt!Declared(f, n, p)
<1>1. Quiet(Jwt!WithSpread(p[2], Jwt!IssuePayload, n))
  BY SpreadIsQuiet, KeyMaps
<1>2. Quiet(Jwt!Claims(p[2], n)) /\ Quiet(Jwt!Claims(f.nodes[d].object, d))
  BY ClaimsAreQuiet
<1>3. Jwt!PayloadFields(f, n) \in {Jwt!Over(Jwt!WithSpread(p[2], Jwt!IssuePayload, n), Jwt!Claims(p[2], n)),
                                   <<>>, Jwt!Claims(f.nodes[d].object, d)}
  BY DEF Jwt!PayloadFields
<1>. HIDE DEF p, d
<1>. QED  BY <1>1, <1>2, <1>3, QuietOver, NothingIsQuiet

LEMMA ChainIsQuiet ==
    ASSUME NEW f, NEW n
    PROVE  Quiet(Jwt!ChainFields(f, n))
<1>. DEFINE chain == f.nodes[n].chain
            fields == Jwt!AttrKeys([algorithm |-> "alg", issuer |-> "setIssuer", audience |-> "setAudience",
                                    expiration |-> "setExpirationTime"])
            A == [k \in {x \in DOMAIN fields : fields[x] \in DOMAIN chain.members} |->
                    Jwt!PresentNode(k, chain.members[fields[k]], n)]
            B == IF f.nodes[n].key = <<>> THEN <<>> ELSE Jwt!KeyField(f, n)
            C == Jwt!Claims(chain, n)
            D == Jwt!IssueDefaults(n)
<1>1. Quiet(A)
  <2>1. Keys(fields)
    BY AttrKeysAreKeys DEF Attributes
  <2>2. DOMAIN A \subseteq DOMAIN fields /\ \A k \in DOMAIN A : A[k].state = "present"
    BY PresentNodeIs
  <2>. HIDE DEF A, fields
  <2>. QED  BY <2>1, <2>2, QuietFields
<1>2. Quiet(B) /\ Quiet(C)
  BY KeyIsQuiet, NothingIsQuiet, ClaimsAreQuiet
<1>3. Quiet(D)
  BY QuietOnly DEF Jwt!IssueDefaults, Attributes
<1>4. Jwt!ChainFields(f, n) = Jwt!Over(A, Jwt!Over(B, Jwt!Over(C, D)))
  BY DEF Jwt!ChainFields
<1>. HIDE DEF A, B, C, D
<1>. QED  BY <1>1, <1>2, <1>3, <1>4, QuietOver

LEMMA JsSignIsQuiet ==
    ASSUME NEW f, NEW n
    PROVE  Quiet(Jwt!JsSignFields(f, n))
<1>. DEFINE F == Jwt!Over(Jwt!KeyField(f, n), Jwt!PayloadFields(f, n))
            G == Jwt!WithOptions(F, f, n, f.nodes[n].options, Jwt!Declared(f, n, f.nodes[n].options),
                                 Jwt!SignKeys, Jwt!SignKeys)
<1>1. Quiet(F)
  BY KeyIsQuiet, PayloadIsQuiet, QuietOver
<1>2. Jwt!JsSignFields(f, n) = Jwt!Over(G, Jwt!IssueDefaults(n))
  BY DEF Jwt!JsSignFields
<1>. HIDE DEF F
<1>3. Quiet(G)
  BY <1>1, OptionsAreQuiet, KeyMaps
<1>4. Quiet(Jwt!IssueDefaults(n))
  BY QuietOnly DEF Jwt!IssueDefaults, Attributes
<1>. HIDE DEF G
<1>. QED  BY <1>2, <1>3, <1>4, QuietOver

LEMMA PythonEncodeIsQuiet ==
    ASSUME NEW f, NEW n
    PROVE  Quiet(Jwt!PythonEncodeFields(f, n))
<1>. DEFINE c == f.nodes[n]
            given(k) == IF k \in DOMAIN c.keywords.members
                        THEN Jwt!Only(Jwt!Attr("algorithm"),
                                      Jwt!PresentNode(Jwt!Attr("algorithm"), c.keywords.members[k], n))
                        ELSE <<>>
            A == given("alg")
            B == given("algorithm")
            F == Jwt!Over(A, Jwt!Over(B, Jwt!Over(Jwt!KeyField(f, n), Jwt!PayloadFields(f, n))))
            G == Jwt!WithOptions(F, f, n, c.options, Jwt!Declared(f, n, c.options),
                                 Jwt!PythonKeys, Jwt!PythonFields)
<1>1. Quiet(A) /\ Quiet(B)
  BY QuietOnly, NothingIsQuiet DEF Attributes
<1>. HIDE DEF A, B
<1>2. Quiet(F)
  BY <1>1, KeyIsQuiet, PayloadIsQuiet, QuietOver
<1>3. Jwt!PythonEncodeFields(f, n) = Jwt!Over(G, Jwt!IssueDefaults(n))
  BY DEF Jwt!PythonEncodeFields, A, B
<1>. HIDE DEF F, c
<1>4. Quiet(G)
  BY <1>2, OptionsAreQuiet, KeyMaps
<1>5. Quiet(Jwt!IssueDefaults(n))
  BY QuietOnly DEF Jwt!IssueDefaults, Attributes
<1>. HIDE DEF G
<1>. QED  BY <1>3, <1>4, <1>5, QuietOver

LEMMA DecodeIsQuiet == \A n : Quiet(Jwt!DecodeFields(n))
BY QuietOnly, QuietOver DEF Jwt!DecodeFields, Attributes

\* Fields of a call that checks a token: that the issuer or the audience is missing
\* is said next to the signature.
Checked(F) == Keys(F) /\ Jwt!Attr("signature_verification") \in DOMAIN F

LEMMA HeadersAreKeys ==
    ASSUME NEW f, NEW n
    PROVE  Keys(Jwt!HeaderFields(f, n))
<1>1. DOMAIN Jwt!HeaderFields(f, n) \subseteq {"jwt.header.jku", "jwt.header.x5u", "jwt.header.jwk", "jwt.header.kid"}
  BY DEF Jwt!HeaderFields
<1>. QED  BY <1>1 DEF Keys, Foreign, Alien, Sessional

LEMMA OverKeeps ==
    ASSUME NEW A, NEW B
    PROVE  DOMAIN A \subseteq DOMAIN Jwt!Over(A, B) /\ DOMAIN B \subseteq DOMAIN Jwt!Over(A, B)
<1>1. DOMAIN Jwt!Over(A, B) = DOMAIN A \cup DOMAIN B
  BY JwtOver
<1>. QED  BY <1>1

LEMMA OptionsKeep ==
    ASSUME NEW F, NEW f, NEW n, NEW o, NEW d, NEW keys, NEW all
    PROVE  DOMAIN F \subseteq DOMAIN Jwt!WithOptions(F, f, n, o, d, keys, all)
<1>. DEFINE G == IF o[2].spread THEN Jwt!AllUnresolved(all, n) ELSE <<>>
            H == IF f.nodes[d].object.spread THEN Jwt!AllUnresolved(all, n) ELSE <<>>
<1>1. Jwt!WithOptions(F, f, n, o, d, keys, all)
        \in {F, Jwt!Over(Jwt!Written(o[2], keys, n), Jwt!Over(F, G)),
             Jwt!Over(F, Jwt!Over(Jwt!OnlyKeys(Jwt!KeptFields(f, d), all), H)),
             Jwt!Over(F, Jwt!AllUnresolved(all, n))}
  BY DEF Jwt!WithOptions
<1>2. \A A, B : DOMAIN A \subseteq DOMAIN Jwt!Over(A, B) /\ DOMAIN B \subseteq DOMAIN Jwt!Over(A, B)
  BY OverKeeps, Zenon
<1>. HIDE DEF G, H
<1>3. \A A, B : DOMAIN F \subseteq DOMAIN Jwt!Over(A, Jwt!Over(F, B))
  BY <1>2, Zenon
<1>. QED  BY <1>1, <1>2, <1>3, Zenon

LEMMA ExpiryKeeps ==
    ASSUME NEW F, NEW f, NEW n, NEW o, NEW d, NEW off, NEW on
    PROVE  DOMAIN F \subseteq DOMAIN Jwt!WithExpiry(F, f, n, o, d, off, on)
<1>. DEFINE O(v) == Jwt!Only(Jwt!Attr("expiry_enforcement"), v)
<1>1. \E v : Jwt!WithExpiry(F, f, n, o, d, off, on) \in {Jwt!Over(O(v), F), Jwt!Over(F, O(v))}
  BY DEF Jwt!WithExpiry
<1>2. \A A, B : DOMAIN A \subseteq DOMAIN Jwt!Over(A, B) /\ DOMAIN B \subseteq DOMAIN Jwt!Over(A, B)
  BY OverKeeps, Zenon
<1>. HIDE DEF O
<1>. QED  BY <1>1, <1>2, Zenon

LEMMA QuietIsKeys == \A F : Quiet(F) => Keys(F)
BY DEF Quiet, Keys

LEMMA VerifyDefaultsAreKeys == \A n : Keys(Jwt!VerifyDefaults(n))
<1>1. \A x \in Attributes : \A v : Keys(Jwt!Only(Jwt!Attr(x), v))
  <2>. SUFFICES ASSUME NEW x \in Attributes, NEW v PROVE Keys(Jwt!Only(Jwt!Attr(x), v))
    OBVIOUS
  <2>1. DOMAIN Jwt!Only(Jwt!Attr(x), v) = {Jwt!Attr(x)}
    BY JwtOnly
  <2>. QED  BY <2>1, FieldNames DEF Keys
<1>. QED  BY <1>1, KeysOver DEF Jwt!VerifyDefaults, Attributes

LEMMA JsVerifyIsChecked ==
    ASSUME NEW f, NEW n, NEW d, NEW jose
    PROVE  Checked(Jwt!JsVerifyFields(f, n, d, jose))
<1>. DEFINE o == f.nodes[n].options
            age == IF jose THEN "maxTokenAge" ELSE "maxAge"
            S == Jwt!Only(Jwt!Attr("signature_verification"), Jwt!Field("present", {}, "high", n, {}))
            F == Jwt!Over(Jwt!KeyField(f, n), S)
            G == Jwt!WithOptions(F, f, n, o, d, Jwt!VerifyKeys(jose), Jwt!VerifyKeys(jose))
            off == Jwt!IsLiteral(o[2], "ignoreExpiration", "true")
            on == age \in DOMAIN o[2].members
            H == Jwt!WithExpiry(G, f, n, o, d, off, on)
<1>1. Quiet(S) /\ DOMAIN S = {Jwt!Attr("signature_verification")}
  BY QuietOnly, JwtOnly DEF Attributes
<1>2. Jwt!JsVerifyFields(f, n, d, jose) = Jwt!Over(Jwt!HeaderFields(f, n), Jwt!Over(H, Jwt!VerifyDefaults(n)))
  BY DEF Jwt!JsVerifyFields
<1>. HIDE DEF S
<1>3. Quiet(F) /\ Jwt!Attr("signature_verification") \in DOMAIN F
  <2>1. DOMAIN F = DOMAIN Jwt!KeyField(f, n) \cup DOMAIN S
    BY JwtOver
  <2>. QED  BY <1>1, <2>1, KeyIsQuiet, QuietOver
<1>. HIDE DEF F, o
<1>4. Quiet(G) /\ Jwt!Attr("signature_verification") \in DOMAIN G
  BY <1>3, OptionsAreQuiet, OptionsKeep, KeyMaps
<1>. HIDE DEF G, off, on
<1>5. Keys(H) /\ Jwt!Attr("signature_verification") \in DOMAIN H
  BY <1>4, ExpiryIsQuiet, ExpiryKeeps, QuietIsKeys
<1>. HIDE DEF H
<1>. DEFINE I == Jwt!Over(H, Jwt!VerifyDefaults(n))
<1>6. Keys(I) /\ Jwt!Attr("signature_verification") \in DOMAIN I
  BY <1>5, JwtOver, KeysOver, VerifyDefaultsAreKeys
<1>. HIDE DEF I
<1>7. Keys(Jwt!Over(Jwt!HeaderFields(f, n), I))
  BY <1>6, KeysOver, HeadersAreKeys
<1>8. DOMAIN Jwt!Over(Jwt!HeaderFields(f, n), I) = DOMAIN Jwt!HeaderFields(f, n) \cup DOMAIN I
  BY JwtOver
<1>. QED  BY <1>2, <1>6, <1>7, <1>8 DEF Checked, I

LEMMA PythonDecodeIsChecked ==
    ASSUME NEW f, NEW n, NEW d
    PROVE  Checked(Jwt!PythonDecodeFields(f, n, d))
<1>. DEFINE c == f.nodes[n]
            signature == IF c.key = <<>> THEN Jwt!Known("missing", n) ELSE Jwt!Field("present", {}, "high", n, {})
            S == Jwt!Only(Jwt!Attr("signature_verification"), signature)
            K == Jwt!Over(Jwt!KeyField(f, n), S)
            W == Jwt!Written(c.keywords, Jwt!KeywordKeys, n)
            F == Jwt!Over(W, K)
            G == Jwt!WithOptions(F, f, n, c.options, d, Jwt!PythonKeys, Jwt!PythonFields)
            off == Jwt!IsLiteral(c.options[2], "verify_exp", "false")
            on == Jwt!RequiresExp(c.options[2])
            H == Jwt!WithExpiry(G, f, n, c.options, d, off, on)
            D == IF Jwt!DisablesVerification(f, n, d) THEN Jwt!DecodeFields(n) ELSE <<>>
            I == Jwt!Over(H, Jwt!VerifyDefaults(n))
            J == Jwt!Over(Jwt!HeaderFields(f, n), I)
<1>1. Quiet(S) /\ DOMAIN S = {Jwt!Attr("signature_verification")}
  BY QuietOnly, JwtOnly DEF Attributes
<1>2. Jwt!PythonDecodeFields(f, n, d) = Jwt!Over(D, J)
  BY DEF Jwt!PythonDecodeFields
<1>3. Quiet(D)
  BY DecodeIsQuiet, NothingIsQuiet
<1>4. Quiet(W)
  BY WrittenIsQuiet, KeyMaps
<1>. HIDE DEF S, D, W
<1>5. Quiet(K) /\ Jwt!Attr("signature_verification") \in DOMAIN K
  <2>1. DOMAIN K = DOMAIN Jwt!KeyField(f, n) \cup DOMAIN S
    BY JwtOver
  <2>. QED  BY <1>1, <2>1, KeyIsQuiet, QuietOver
<1>. HIDE DEF K
<1>6. Quiet(F) /\ Jwt!Attr("signature_verification") \in DOMAIN F
  <2>1. DOMAIN F = DOMAIN W \cup DOMAIN K
    BY JwtOver
  <2>. QED  BY <1>4, <1>5, <2>1, QuietOver
<1>. HIDE DEF F, c
<1>7. Quiet(G) /\ Jwt!Attr("signature_verification") \in DOMAIN G
  BY <1>6, OptionsAreQuiet, OptionsKeep, KeyMaps
<1>. HIDE DEF G, off, on
<1>8. Keys(H) /\ Jwt!Attr("signature_verification") \in DOMAIN H
  BY <1>7, ExpiryIsQuiet, ExpiryKeeps, QuietIsKeys
<1>. HIDE DEF H
<1>9. Keys(I) /\ Jwt!Attr("signature_verification") \in DOMAIN I
  BY <1>8, JwtOver, KeysOver, VerifyDefaultsAreKeys
<1>. HIDE DEF I
<1>10. Keys(J) /\ Jwt!Attr("signature_verification") \in DOMAIN J
  <2>1. DOMAIN J = DOMAIN Jwt!HeaderFields(f, n) \cup DOMAIN I
    BY JwtOver
  <2>. QED  BY <1>9, <2>1, KeysOver, HeadersAreKeys
<1>. HIDE DEF J
<1>11. DOMAIN Jwt!Over(D, J) = DOMAIN D \cup DOMAIN J
  BY JwtOver
<1>. QED  BY <1>2, <1>3, <1>10, <1>11, KeysOver, QuietIsKeys DEF Checked

\* Only a field that is present has a value, or words in its excerpt.
Honest(F) == \A k \in DOMAIN F : F[k].state # "present" => F[k].value = {} /\ F[k].says = {}
Clear(x) == x.state # "present" => x.value = {} /\ x.says = {}

LEMMA FieldsAreClear ==
    /\ \A state, line : Clear(Jwt!Known(state, line))
    /\ \A line : Clear(Jwt!Defaulted(line)) /\ Clear(Jwt!Unresolved(line))
    /\ \A value, confidence, line, says : Clear(Jwt!Field("present", value, confidence, line, says))
    /\ \A k, v, line : Clear(Jwt!PresentNode(k, v, line))
BY DEF Clear, Jwt!Known, Jwt!Defaulted, Jwt!Unresolved, Jwt!PresentNode, Jwt!Field

LEMMA NothingIsHonest == Honest(<<>>)
BY EmptyIsOne DEF Honest

LEMMA HonestOver ==
    ASSUME NEW F, NEW G, Honest(F), Honest(G)
    PROVE  Honest(Jwt!Over(F, G))
<1>. DEFINE H == Jwt!Over(F, G)
<1>1. /\ DOMAIN H = DOMAIN F \cup DOMAIN G
      /\ \A k \in DOMAIN F \cup DOMAIN G : H[k] = IF k \in DOMAIN F THEN F[k] ELSE G[k]
  BY DEF Jwt!Over
<1>. HIDE DEF H
<1>2. Honest(H)
  BY <1>1 DEF Honest
<1>. QED  BY <1>2 DEF H

LEMMA HonestOnly ==
    ASSUME NEW k, NEW x, Clear(x)
    PROVE  Honest(Jwt!Only(k, x))
<1>1. DOMAIN Jwt!Only(k, x) = {k} /\ Jwt!Only(k, x)[k] = x
  BY JwtOnly
<1>. DEFINE F == Jwt!Only(k, x)
<1>2. DOMAIN F = {k} /\ F[k] = x
  BY <1>1
<1>. HIDE DEF F
<1>3. Honest(F)
  BY <1>2 DEF Honest, Clear
<1>. QED  BY <1>3 DEF F

LEMMA WrittenIsHonest ==
    ASSUME NEW o, NEW keys, NEW line
    PROVE  /\ Honest(Jwt!Written(o, keys, line)) /\ Honest(Jwt!AllUnresolved(keys, line))
           /\ Honest(Jwt!WithSpread(o, keys, line)) /\ Honest(Jwt!Claims(o, line))
<1>1. Honest(Jwt!Written(o, keys, line))
  <2>. DEFINE F == Jwt!Written(o, keys, line)
  <2>1. \A k \in DOMAIN F : F[k].state = "present"
    BY PresentNodeIs DEF Jwt!Written
  <2>. HIDE DEF F
  <2>2. Honest(F)
    BY <2>1 DEF Honest
  <2>. QED  BY <2>2 DEF F
<1>2. Honest(Jwt!AllUnresolved(keys, line))
  BY DEF Jwt!AllUnresolved, Jwt!Unresolved, Jwt!Field, Honest
<1>3. Honest(Jwt!WithSpread(o, keys, line))
  BY <1>1, <1>2, HonestOver, NothingIsHonest DEF Jwt!WithSpread
<1>4. Honest(Jwt!Claims(o, line))
  <2>. DEFINE F == Jwt!Claims(o, line)
  <2>1. \A k \in DOMAIN F : F[k].state = "present"
    BY DEF Jwt!Claims, Jwt!Field
  <2>. HIDE DEF F
  <2>2. Honest(F)
    BY <2>1 DEF Honest
  <2>. QED  BY <2>2 DEF F
<1>. QED  BY <1>1, <1>2, <1>3, <1>4

LEMMA KeptIsHonest ==
    ASSUME NEW f, NEW d
    PROVE  Honest(Jwt!KeptFields(f, d))
<1>. DEFINE o == f.nodes[d].object
            A == Jwt!KeptExpiry(o, d)
            B == Jwt!KeptSignature(o, d)
            C == Jwt!WithSpread(o, Jwt!ObjectKeys, d)
            D == Jwt!Claims(o, d)
<1>1. Honest(A)
  BY HonestOnly, FieldsAreClear, NothingIsHonest DEF Jwt!KeptExpiry
<1>2. Honest(B)
  BY HonestOnly, HonestOver, FieldsAreClear, NothingIsHonest DEF Jwt!KeptSignature
<1>3. Honest(C) /\ Honest(D)
  BY WrittenIsHonest
<1>4. Jwt!KeptFields(f, d) = Jwt!Over(A, Jwt!Over(B, Jwt!Over(C, D)))
  BY DEF Jwt!KeptFields
<1>. HIDE DEF A, B, C, D
<1>. QED  BY <1>1, <1>2, <1>3, <1>4, HonestOver

LEMMA OptionsAreHonest ==
    ASSUME NEW F, NEW f, NEW n, NEW o, NEW d, NEW keys, NEW all, Honest(F)
    PROVE  Honest(Jwt!WithOptions(F, f, n, o, d, keys, all))
<1>. DEFINE A == Jwt!Written(o[2], keys, n)
            B == Jwt!AllUnresolved(all, n)
            C == Jwt!OnlyKeys(Jwt!KeptFields(f, d), all)
            kept == Jwt!KeptFields(f, d)
<1>1. Honest(A) /\ Honest(B)
  BY WrittenIsHonest
<1>2. Honest(C)
  <2>1. Honest(kept)
    BY KeptIsHonest
  <2>2. DOMAIN C \subseteq DOMAIN kept /\ \A k \in DOMAIN C : C[k] = kept[k]
    BY DEF Jwt!OnlyKeys
  <2>. HIDE DEF kept, C
  <2>. QED  BY <2>1, <2>2 DEF Honest
<1>. DEFINE G == IF o[2].spread THEN B ELSE <<>>
            H == IF f.nodes[d].object.spread THEN B ELSE <<>>
<1>3. Honest(G) /\ Honest(H)
  BY <1>1, NothingIsHonest
<1>4. Jwt!WithOptions(F, f, n, o, d, keys, all)
        \in {F, Jwt!Over(A, Jwt!Over(F, G)), Jwt!Over(F, Jwt!Over(C, H)), Jwt!Over(F, B)}
  BY DEF Jwt!WithOptions
<1>. HIDE DEF A, B, C, G, H
<1>. QED  BY <1>1, <1>2, <1>3, <1>4, HonestOver

LEMMA ExpiryIsHonest ==
    ASSUME NEW F, NEW f, NEW n, NEW o, NEW d, NEW off, NEW on, Honest(F)
    PROVE  Honest(Jwt!WithExpiry(F, f, n, o, d, off, on))
<1>. DEFINE k == Jwt!Attr("expiry_enforcement")
            O(x) == Jwt!Only(k, x)
            kept == Jwt!KeptFields(f, d)
<1>1. \A x : Clear(x) => Honest(Jwt!Over(O(x), F)) /\ Honest(Jwt!Over(F, O(x)))
  BY HonestOnly, HonestOver
<1>2. k \in DOMAIN kept => Clear(kept[k])
  <2>1. Honest(kept)
    BY KeptIsHonest
  <2>. HIDE DEF kept, k
  <2>. QED  BY <2>1 DEF Honest, Clear
<1>3. Clear(Jwt!Defaulted(n)) /\ Clear(Jwt!Unresolved(n)) /\ Clear(Jwt!Known("missing", n)) /\ Clear(Jwt!Known("present", n))
  BY FieldsAreClear
<1>4. \/ Jwt!WithExpiry(F, f, n, o, d, off, on) \in
           {Jwt!Over(O(Jwt!Defaulted(n)), F), Jwt!Over(O(Jwt!Known("missing", n)), F),
            Jwt!Over(O(Jwt!Known("present", n)), F), Jwt!Over(F, O(Jwt!Unresolved(n)))}
      \/ k \in DOMAIN kept /\ Jwt!WithExpiry(F, f, n, o, d, off, on) = Jwt!Over(F, O(kept[k]))
  BY DEF Jwt!WithExpiry
<1>. HIDE DEF O, kept, k
<1>. QED  BY <1>1, <1>2, <1>3, <1>4

LEMMA PartsAreHonest ==
    ASSUME NEW f, NEW n
    PROVE  /\ Honest(Jwt!KeyField(f, n)) /\ Honest(Jwt!PayloadFields(f, n)) /\ Honest(Jwt!IssueDefaults(n))
           /\ Honest(Jwt!VerifyDefaults(n)) /\ Honest(Jwt!DecodeFields(n)) /\ Honest(Jwt!HeaderFields(f, n))
<1>1. Honest(Jwt!KeyField(f, n))
  BY HonestOnly, FieldsAreClear DEF Jwt!KeyField
<1>2. Honest(Jwt!PayloadFields(f, n))
  <2>. DEFINE p == f.nodes[n].payload
              d == Jwt!Declared(f, n, p)
  <2>1. /\ Honest(Jwt!WithSpread(p[2], Jwt!IssuePayload, n)) /\ Honest(Jwt!Claims(p[2], n))
        /\ Honest(Jwt!Claims(f.nodes[d].object, d))
    BY WrittenIsHonest
  <2>2. Jwt!PayloadFields(f, n) \in {Jwt!Over(Jwt!WithSpread(p[2], Jwt!IssuePayload, n), Jwt!Claims(p[2], n)),
                                     <<>>, Jwt!Claims(f.nodes[d].object, d)}
    BY DEF Jwt!PayloadFields
  <2>. HIDE DEF p, d
  <2>. QED  BY <2>1, <2>2, HonestOver, NothingIsHonest
<1>3. Honest(Jwt!IssueDefaults(n)) /\ Honest(Jwt!VerifyDefaults(n)) /\ Honest(Jwt!DecodeFields(n))
  BY HonestOnly, HonestOver, FieldsAreClear DEF Jwt!IssueDefaults, Jwt!VerifyDefaults, Jwt!DecodeFields
<1>4. Honest(Jwt!HeaderFields(f, n))
  <2>. DEFINE F == Jwt!HeaderFields(f, n)
  <2>1. \A h, uses : Jwt!HeaderField(f, n, h, uses).state = "present"
    BY DEF Jwt!HeaderField, Jwt!Field
  <2>2. \A k \in DOMAIN F : F[k].state = "present"
    BY <2>1 DEF Jwt!HeaderFields
  <2>. HIDE DEF F
  <2>3. Honest(F)
    BY <2>2 DEF Honest
  <2>. QED  BY <2>3 DEF F
<1>. QED  BY <1>1, <1>2, <1>3, <1>4

LEMMA IssuesAreHonest ==
    ASSUME NEW f, NEW n
    PROVE  Honest(Jwt!ChainFields(f, n)) /\ Honest(Jwt!JsSignFields(f, n)) /\ Honest(Jwt!PythonEncodeFields(f, n))
<1>1. Honest(Jwt!ChainFields(f, n))
  <2>. DEFINE chain == f.nodes[n].chain
              fields == Jwt!AttrKeys([algorithm |-> "alg", issuer |-> "setIssuer", audience |-> "setAudience",
                                      expiration |-> "setExpirationTime"])
              A == [k \in {x \in DOMAIN fields : fields[x] \in DOMAIN chain.members} |->
                      Jwt!PresentNode(k, chain.members[fields[k]], n)]
              B == IF f.nodes[n].key = <<>> THEN <<>> ELSE Jwt!KeyField(f, n)
              C == Jwt!Claims(chain, n)
              D == Jwt!IssueDefaults(n)
  <2>1. Honest(A)
    <3>1. \A k \in DOMAIN A : A[k].state = "present"
      BY PresentNodeIs
    <3>. HIDE DEF A
    <3>. QED  BY <3>1 DEF Honest
  <2>2. Honest(B) /\ Honest(C) /\ Honest(D)
    BY PartsAreHonest, WrittenIsHonest, NothingIsHonest
  <2>3. Jwt!ChainFields(f, n) = Jwt!Over(A, Jwt!Over(B, Jwt!Over(C, D)))
    BY DEF Jwt!ChainFields
  <2>. HIDE DEF A, B, C, D
  <2>. QED  BY <2>1, <2>2, <2>3, HonestOver
<1>2. Honest(Jwt!JsSignFields(f, n))
  <2>. DEFINE F == Jwt!Over(Jwt!KeyField(f, n), Jwt!PayloadFields(f, n))
              G == Jwt!WithOptions(F, f, n, f.nodes[n].options, Jwt!Declared(f, n, f.nodes[n].options),
                                   Jwt!SignKeys, Jwt!SignKeys)
  <2>1. Honest(F)
    BY PartsAreHonest, HonestOver
  <2>2. Jwt!JsSignFields(f, n) = Jwt!Over(G, Jwt!IssueDefaults(n))
    BY DEF Jwt!JsSignFields
  <2>. HIDE DEF F
  <2>3. Honest(G)
    BY <2>1, OptionsAreHonest
  <2>. HIDE DEF G
  <2>. QED  BY <2>2, <2>3, PartsAreHonest, HonestOver
<1>3. Honest(Jwt!PythonEncodeFields(f, n))
  <2>. DEFINE c == f.nodes[n]
              given(k) == IF k \in DOMAIN c.keywords.members
                          THEN Jwt!Only(Jwt!Attr("algorithm"),
                                        Jwt!PresentNode(Jwt!Attr("algorithm"), c.keywords.members[k], n))
                          ELSE <<>>
              A == given("alg")
              B == given("algorithm")
              F == Jwt!Over(A, Jwt!Over(B, Jwt!Over(Jwt!KeyField(f, n), Jwt!PayloadFields(f, n))))
              G == Jwt!WithOptions(F, f, n, c.options, Jwt!Declared(f, n, c.options),
                                   Jwt!PythonKeys, Jwt!PythonFields)
  <2>1. Honest(A) /\ Honest(B)
    BY HonestOnly, FieldsAreClear, NothingIsHonest
  <2>. HIDE DEF A, B
  <2>2. Honest(F)
    BY <2>1, PartsAreHonest, HonestOver
  <2>3. Jwt!PythonEncodeFields(f, n) = Jwt!Over(G, Jwt!IssueDefaults(n))
    BY DEF Jwt!PythonEncodeFields, A, B
  <2>. HIDE DEF F, c
  <2>4. Honest(G)
    BY <2>2, OptionsAreHonest
  <2>. HIDE DEF G
  <2>. QED  BY <2>3, <2>4, PartsAreHonest, HonestOver
<1>. QED  BY <1>1, <1>2, <1>3

\* The fields of a call that decodes a token without verifying it say so.
Unverified(F) == /\ Jwt!Attr("signature_verification") \in DOMAIN F
                 /\ F[Jwt!Attr("signature_verification")].state = "missing"

LEMMA DecodeIsUnverified ==
    ASSUME NEW n
    PROVE  Unverified(Jwt!DecodeFields(n)) /\ \A F : Unverified(Jwt!Over(Jwt!DecodeFields(n), F))
<1>. DEFINE k == Jwt!Attr("signature_verification")
            D == Jwt!DecodeFields(n)
<1>1. k \in DOMAIN D /\ D[k].state = "missing"
  <2>. DEFINE S == Jwt!Only(k, Jwt!Known("missing", n))
              E == Jwt!Only(Jwt!Attr("expiry_enforcement"), Jwt!Known("missing", n))
  <2>0. D = Jwt!Over(S, E)
    BY DEF Jwt!DecodeFields
  <2>2. DOMAIN S = {k} /\ S[k] = Jwt!Known("missing", n)
    BY JwtOnly
  <2>. HIDE DEF D, S, E, k
  <2>3. DOMAIN Jwt!Over(S, E) = DOMAIN S \cup DOMAIN E /\ \A x \in DOMAIN S : Jwt!Over(S, E)[x] = S[x]
    BY JwtOver
  <2>1. k \in DOMAIN D /\ D[k] = Jwt!Known("missing", n)
    BY <2>0, <2>2, <2>3
  <2>. QED  BY <2>1 DEF Jwt!Known, Jwt!Field
<1>. HIDE DEF D, k
<1>2. \A F : k \in DOMAIN Jwt!Over(D, F) /\ Jwt!Over(D, F)[k] = D[k]
  BY <1>1, JwtOver
<1>. QED  BY <1>1, <1>2 DEF Unverified, D, k

LEMMA ChecksAreHonest ==
    ASSUME NEW f, NEW n, NEW d
    PROVE  /\ \A jose : Honest(Jwt!JsVerifyFields(f, n, d, jose))
           /\ Honest(Jwt!PythonDecodeFields(f, n, d))
           /\ Jwt!DisablesVerification(f, n, d) => Unverified(Jwt!PythonDecodeFields(f, n, d))
<1>1. ASSUME NEW jose PROVE Honest(Jwt!JsVerifyFields(f, n, d, jose))
  <2>. DEFINE o == f.nodes[n].options
              age == IF jose THEN "maxTokenAge" ELSE "maxAge"
              S == Jwt!Only(Jwt!Attr("signature_verification"), Jwt!Field("present", {}, "high", n, {}))
              F == Jwt!Over(Jwt!KeyField(f, n), S)
              G == Jwt!WithOptions(F, f, n, o, d, Jwt!VerifyKeys(jose), Jwt!VerifyKeys(jose))
              off == Jwt!IsLiteral(o[2], "ignoreExpiration", "true")
              on == age \in DOMAIN o[2].members
              H == Jwt!WithExpiry(G, f, n, o, d, off, on)
  <2>1. Honest(S)
    BY HonestOnly, FieldsAreClear
  <2>2. Jwt!JsVerifyFields(f, n, d, jose) = Jwt!Over(Jwt!HeaderFields(f, n), Jwt!Over(H, Jwt!VerifyDefaults(n)))
    BY DEF Jwt!JsVerifyFields
  <2>. HIDE DEF S
  <2>3. Honest(F)
    BY <2>1, PartsAreHonest, HonestOver
  <2>. HIDE DEF F, o
  <2>4. Honest(G)
    BY <2>3, OptionsAreHonest
  <2>. HIDE DEF G, off, on
  <2>5. Honest(H)
    BY <2>4, ExpiryIsHonest
  <2>. HIDE DEF H
  <2>. QED  BY <2>2, <2>5, PartsAreHonest, HonestOver
<1>. DEFINE c == f.nodes[n]
            signature == IF c.key = <<>> THEN Jwt!Known("missing", n) ELSE Jwt!Field("present", {}, "high", n, {})
            S == Jwt!Only(Jwt!Attr("signature_verification"), signature)
            K == Jwt!Over(Jwt!KeyField(f, n), S)
            W == Jwt!Written(c.keywords, Jwt!KeywordKeys, n)
            F == Jwt!Over(W, K)
            G == Jwt!WithOptions(F, f, n, c.options, d, Jwt!PythonKeys, Jwt!PythonFields)
            off == Jwt!IsLiteral(c.options[2], "verify_exp", "false")
            on == Jwt!RequiresExp(c.options[2])
            H == Jwt!WithExpiry(G, f, n, c.options, d, off, on)
            disabled == Jwt!DisablesVerification(f, n, d)
            D == IF disabled THEN Jwt!DecodeFields(n) ELSE <<>>
            J == Jwt!Over(Jwt!HeaderFields(f, n), Jwt!Over(H, Jwt!VerifyDefaults(n)))
<1>2. Jwt!PythonDecodeFields(f, n, d) = Jwt!Over(D, J)
  BY DEF Jwt!PythonDecodeFields
<1>3. Honest(S) /\ Honest(W) /\ Honest(D)
  BY HonestOnly, FieldsAreClear, WrittenIsHonest, PartsAreHonest, NothingIsHonest
<1>4. disabled => D = Jwt!DecodeFields(n)
  OBVIOUS
<1>. HIDE DEF S, W, D, disabled
<1>5. Honest(F)
  BY <1>3, PartsAreHonest, HonestOver
<1>. HIDE DEF F, c
<1>6. Honest(G)
  BY <1>5, OptionsAreHonest
<1>. HIDE DEF G, off, on
<1>7. Honest(H)
  BY <1>6, ExpiryIsHonest
<1>. HIDE DEF H
<1>8. Honest(J)
  BY <1>7, PartsAreHonest, HonestOver
<1>. HIDE DEF J
<1>9. Honest(Jwt!Over(D, J))
  BY <1>3, <1>8, HonestOver
<1>10. disabled => Unverified(Jwt!Over(D, J))
  BY <1>4, DecodeIsUnverified
<1>. QED  BY <1>1, <1>2, <1>9, <1>10 DEF disabled

\* What every call of a JWT library says.
GoodCall(c) ==
    /\ Keys(c.fields) /\ Honest(c.fields)
    /\ c.operation = "decode_without_verify" => Unverified(c.fields)
    /\ \A x \in {Jwt!Attr("issuer"), Jwt!Attr("audience")} \cap DOMAIN c.fields :
          c.fields[x].state = "missing" => Jwt!Attr("signature_verification") \in DOMAIN c.fields

LEMMA JwtCallIsGood ==
    ASSUME NEW f, NEW n, NEW api, NEW d
    PROVE  /\ IsSequence(Jwt!JwtCallAt(f, n, api, d))
           /\ \A c \in Range1(Jwt!JwtCallAt(f, n, api, d)) :
                 GoodCall(c) /\ c.operation \in {"issue", "validate", "decode_without_verify"}
<1>. DEFINE Good(s) == /\ IsSequence(s)
                       /\ \A c \in Range1(s) :
                             GoodCall(c) /\ c.operation \in {"issue", "validate", "decode_without_verify"}
            Ready(F) == (Quiet(F) \/ Checked(F)) /\ Honest(F)
            call(operation, F) == <<Jwt!JwtCall(f, n, api, operation, F)>>
<1>1. \A F : Ready(F) => /\ Good(call("issue", F)) /\ Good(call("validate", F))
                         /\ Unverified(F) => Good(call("decode_without_verify", F))
  <2>. SUFFICES ASSUME NEW F, Ready(F), NEW operation \in {"issue", "validate", "decode_without_verify"},
                       operation = "decode_without_verify" => Unverified(F)
                PROVE  Good(call(operation, F))
    BY Zenon
  <2>. DEFINE c == Jwt!JwtCall(f, n, api, operation, F)
  <2>1. c.fields = F /\ c.operation = operation
    BY DEF Jwt!JwtCall
  <2>. HIDE DEF c
  <2>2. GoodCall(c)
    BY <2>1 DEF GoodCall, Quiet, Checked, Keys
  <2>3. IsSequence(<<c>>) /\ Range1(<<c>>) = {c}
    BY SingleIsOne
  <2>4. Good(<<c>>)
    BY <2>1, <2>2, <2>3
  <2>. HIDE DEF Good
  <2>. QED  BY <2>4 DEF c
<1>2. Good(<<>>)
  BY EmptyIsOne
<1>. DEFINE C == Jwt!ChainFields(f, n)
            G == Jwt!JsSignFields(f, n)
            D == Jwt!DecodeFields(n)
            E == Jwt!PythonEncodeFields(f, n)
            V == Jwt!JsVerifyFields(f, n, d, api[1] = "jose")
            P == Jwt!PythonDecodeFields(f, n, d)
            disabled == Jwt!DisablesVerification(f, n, d)
<1>3. Ready(C) /\ Ready(G) /\ Ready(D) /\ Ready(E)
  BY ChainIsQuiet, JsSignIsQuiet, DecodeIsQuiet, PythonEncodeIsQuiet, IssuesAreHonest, PartsAreHonest
<1>4. Ready(V) /\ Ready(P)
  BY JsVerifyIsChecked, PythonDecodeIsChecked, ChecksAreHonest
<1>5. Unverified(D) /\ (disabled => Unverified(P))
  BY DecodeIsUnverified, ChecksAreHonest
<1>6. Jwt!JwtCallAt(f, n, api, d) \in
        {<<>>, call("issue", C), call("issue", G), call("validate", V), call("decode_without_verify", D),
         call("issue", E), call(IF disabled THEN "decode_without_verify" ELSE "validate", P)}
  BY DEF Jwt!JwtCallAt
<1>. HIDE DEF Good, Ready, call, C, G, D, E, V, P, disabled
<1>7. Good(call(IF disabled THEN "decode_without_verify" ELSE "validate", P))
  BY <1>1, <1>4, <1>5
<1>8. Good(Jwt!JwtCallAt(f, n, api, d))
  BY <1>1, <1>2, <1>3, <1>4, <1>5, <1>6, <1>7
<1>. QED  BY <1>8 DEF Good

LEMMA JwtSequences == \A s : Jwt!FlattenSeq(s) = FlattenSeq(s)
BY DEF Jwt!FlattenSeq, FlattenSeq

IsOperation(c) == c.operation \in {"issue", "validate", "decode_without_verify"}

LEMMA JwtCallsAreGood ==
    ASSUME NEW f, IsFile(f)
    PROVE  /\ IsSequence(Jwt!JwtCalls(f))
           /\ \A c \in Range1(Jwt!JwtCalls(f)) : GoodCall(c) /\ IsOperation(c)
<1>. DEFINE ss == [n \in DOMAIN f.nodes |->
                      IF f.nodes[n].kind = "Jwt"
                      THEN Jwt!JwtCallAt(f, n, Jwt!ApiOf(f, n), Jwt!Declared(f, n, f.nodes[n].options)) ELSE <<>>]
            Good(s) == IsSequence(s) /\ \A c \in Range1(s) : GoodCall(c) /\ IsOperation(c)
<1>1. Good(<<>>)
  BY EmptyIsOne
<1>2. ASSUME NEW n, NEW api, NEW d PROVE Good(Jwt!JwtCallAt(f, n, api, d))
  BY JwtCallIsGood DEF IsOperation
<1>. HIDE DEF Good
<1>4. \A n \in DOMAIN ss : Good(ss[n])
  BY <1>1, <1>2
<1>5. IsSequence(ss) /\ DOMAIN ss = 1..Len(ss)
  <2>1. IsSequence(f.nodes)
    BY DEF IsFile
  <2>. QED  BY <2>1, IndexedIsOne, SequenceForm
<1>6. Jwt!JwtCalls(f) = FlattenSeq(ss)
  BY JwtSequences DEF Jwt!JwtCalls
<1>. HIDE DEF ss
<1>7. IsSequences(ss)
  BY <1>4, <1>5 DEF IsSequences, Good
<1>8. IsSequence(FlattenSeq(ss)) /\ Range1(FlattenSeq(ss)) = UNION {Range1(ss[k]) : k \in DOMAIN ss}
  BY <1>7, FlattenIsOne
<1>. QED  BY <1>4, <1>6, <1>8 DEF Good

\* Every call is in a group of calls.
LEMMA JwtGroupsAre ==
    ASSUME NEW calls, IsSequence(calls)
    PROVE  /\ IsSequence(Jwt!JwtGroups(calls))
           /\ \A group \in Range1(Jwt!JwtGroups(calls)) : group # {} /\ group \subseteq Range1(calls)
           /\ \A c \in Range1(calls) : \E group \in Range1(Jwt!JwtGroups(calls)) : c \in group
           /\ \A G, H \in Range1(Jwt!JwtGroups(calls)) : \A c \in G, d \in H :
                 c.name = d.name /\ c.name # NoName => G = H
<1>. DEFINE same(i, j) == i = j \/ (calls[i].name = calls[j].name /\ calls[i].name # Jwt!NoName)
            first(i) == \A j \in 1..(i - 1) : ~same(i, j)
            of(i) == {calls[j] : j \in {k \in DOMAIN calls : same(i, k)}}
            ss == [i \in DOMAIN calls |-> IF first(i) THEN <<of(i)>> ELSE <<>>]
<1>1. Jwt!JwtGroups(calls) = FlattenSeq(ss)
  BY JwtSequences DEF Jwt!JwtGroups
<1>2. DOMAIN calls = 1..Len(calls) /\ Len(calls) \in Nat
  BY SequenceForm
<1>3. \A i \in DOMAIN calls : \E m \in DOMAIN calls : first(m) /\ same(m, i)
  <2>. SUFFICES ASSUME NEW i \in DOMAIN calls PROVE \E m \in DOMAIN calls : first(m) /\ same(m, i)
    OBVIOUS
  <2>. DEFINE T == {m \in DOMAIN calls : same(m, i)}
  <2>1. T \in SUBSET Nat /\ i \in T
    BY <1>2
  <2>2. PICK m \in T : \A y \in T : m <= y
    BY <2>1, LeastNat
  <2>3. first(m)
    <3>. SUFFICES ASSUME NEW j \in 1..(m - 1), same(m, j) PROVE FALSE
      OBVIOUS
    <3>1. m \in Nat /\ m \in 1..Len(calls)
      BY <1>2, <2>1, <2>2
    <3>2. j \in DOMAIN calls /\ j < m
      BY <1>2, <3>1
    <3>3. same(j, i)
      BY <2>2
    <3>4. j \in T
      BY <3>2, <3>3
    <3>. HIDE DEF T
    <3>. QED  BY <2>2, <3>1, <3>2, <3>4
  <2>. QED  BY <2>2, <2>3
<1>4. \A i \in DOMAIN ss : ss[i] \in {<<of(i)>>, <<>>}
  OBVIOUS
<1>5. \A m \in DOMAIN calls : first(m) => ss[m] = <<of(m)>>
  OBVIOUS
<1>6. \A i \in DOMAIN calls : calls[i] \in of(i) /\ of(i) \subseteq Range1(calls)
  BY DEF Range1
<1>7. \A m, i \in DOMAIN calls : same(m, i) => calls[i] \in of(m)
  OBVIOUS
<1>14. \A i \in DOMAIN ss : ss[i] # <<>> => first(i)
  OBVIOUS
<1>15. \A i \in DOMAIN calls : \A c \in of(i) : c.name = calls[i].name
  OBVIOUS
<1>16. ASSUME NEW i \in DOMAIN calls, NEW k \in DOMAIN calls, first(i), first(k),
              calls[i].name = calls[k].name, calls[i].name # NoName
       PROVE  i = k
  <2>1. same(i, k) /\ same(k, i)
    BY <1>16 DEF Jwt!NoName, NoName
  <2>2. i \in Nat /\ k \in Nat /\ i >= 1 /\ k >= 1
    BY <1>2
  <2>3. ~(i < k)
    BY <1>16, <2>1, <2>2
  <2>4. ~(k < i)
    BY <1>16, <2>1, <2>2
  <2>. QED  BY <2>2, <2>3, <2>4
<1>8. IsSequence(ss) /\ DOMAIN ss = DOMAIN calls
  BY IndexedIsOne
<1>. HIDE DEF same, first, of, ss
<1>9. \A i \in DOMAIN ss : IsSequence(ss[i]) /\ \A group \in Range1(ss[i]) : group = of(i)
  BY <1>4, SingleIsOne, EmptyIsOne
<1>10. IsSequences(ss)
  BY <1>8, <1>9, SequenceForm DEF IsSequences
<1>11. IsSequence(FlattenSeq(ss)) /\ Range1(FlattenSeq(ss)) = UNION {Range1(ss[k]) : k \in DOMAIN ss}
  BY <1>10, FlattenIsOne
<1>12. \A group \in Range1(FlattenSeq(ss)) : group # {} /\ group \subseteq Range1(calls)
  BY <1>6, <1>8, <1>9, <1>11
<1>13. \A c \in Range1(calls) : \E group \in Range1(FlattenSeq(ss)) : c \in group
  <2>. SUFFICES ASSUME NEW c \in Range1(calls) PROVE \E group \in Range1(FlattenSeq(ss)) : c \in group
    OBVIOUS
  <2>1. PICK i \in DOMAIN calls : c = calls[i]
    BY DEF Range1
  <2>2. PICK m \in DOMAIN calls : first(m) /\ same(m, i)
    BY <1>3
  <2>3. of(m) \in Range1(ss[m])
    BY <1>5, <2>2, SingleIsOne
  <2>. QED  BY <1>7, <1>8, <1>11, <2>1, <2>2, <2>3
<1>17. ASSUME NEW G \in Range1(FlattenSeq(ss)), NEW H \in Range1(FlattenSeq(ss)), NEW c \in G, NEW d \in H,
              c.name = d.name, c.name # NoName
       PROVE  G = H
  <2>1. PICK i \in DOMAIN ss : G \in Range1(ss[i])
    BY <1>11
  <2>2. PICK k \in DOMAIN ss : H \in Range1(ss[k])
    BY <1>11
  <2>3. G = of(i) /\ H = of(k) /\ first(i) /\ first(k)
    BY <1>9, <1>14, <2>1, <2>2, EmptyIsOne
  <2>4. calls[i].name = calls[k].name /\ calls[i].name # NoName
    BY <1>8, <1>15, <1>17, <2>3
  <2>. QED  BY <1>8, <1>16, <2>3, <2>4
<1>. QED  BY <1>1, <1>11, <1>12, <1>13, <1>17

\* A JWT with a name is known by it in its file.
LEMMA JwtsAreApart ==
    ASSUME NEW f, IsSequence(Jwt!JwtCalls(f)), NEW a, NEW b, JwtIn(f, a), JwtIn(f, b), a.name = b.name, a.name # NoName
    PROVE  a = b
<1>1. PICK G \in Range1(Jwt!JwtGroups(Jwt!JwtCalls(f))) : a = Jwt!JwtArtifact(f, G)
  BY DEF JwtIn
<1>2. PICK H \in Range1(Jwt!JwtGroups(Jwt!JwtCalls(f))) : b = Jwt!JwtArtifact(f, H)
  BY DEF JwtIn
<1>3. \A K : Jwt!JwtArtifact(f, K).name = (CHOOSE c \in K : TRUE).name
  BY DEF Jwt!JwtArtifact, Jwt!Artifact
<1>4. G # {} /\ H # {}
  BY JwtGroupsAre
<1>5. PICK c \in G, d \in H : a.name = c.name /\ b.name = d.name
  BY <1>1, <1>2, <1>3, <1>4
<1>6. G = H
  BY <1>5, JwtGroupsAre
<1>. QED  BY <1>1, <1>2, <1>6

\* What the theorems need of the artifacts of a detector other than the cookie
\* detector: they are a sequence, and no evidence is of the detectors in `none`.
Known(f, s, none) ==
    /\ IsSequence(s)
    /\ \A a \in Range1(s) : /\ Shown(f, a) /\ a.cookie = NoAttributes
                            /\ \A e \in a.evidence : e.detector \notin none

\* An artifact of a detector whose evidence the theorems do not tell apart.
Common(f, a) ==
    /\ a.id[1] = f.path /\ a.evidence # {} /\ a.cookie = NoAttributes
    /\ a.jwt # NoAttributes => JwtBacked(a) /\ JwtIn(f, a)
    /\ ~LikeFlow(a)
    /\ \A e \in a.evidence : Placed(f, e) /\ e.detector \notin Alien /\ (e.detector \in Sessional => SessionIn(f, a))

LEMMA CommonIsKnown ==
    ASSUME NEW f, NEW s, IsSequence(s), \A a \in Range1(s) : Common(f, a)
    PROVE  Known(f, s, Apart)
<1>1. "oauth.flow.auth_code" \in Alien
  BY DEF Alien
<1>. QED  BY <1>1, AlienIs DEF Known, Shown, Common

LEMMA EachIsOne ==
    ASSUME NEW s, IsSequence(s), NEW t, DOMAIN t = DOMAIN s, t = [k \in DOMAIN s |-> t[k]]
    PROVE  IsSequence(t) /\ Range1(t) = {t[k] : k \in DOMAIN s}
BY IndexedIsOne DEF Range1

LEMMA JwtEvidence ==
    ASSUME NEW f, NEW group, \A c \in group : GoodCall(c) /\ IsOperation(c),
           NEW e \in Jwt!JwtArtifact(f, group).evidence
    PROVE  Placed(f, e) /\ e.detector \notin Foreign
<1>. DEFINE Good(x) == Placed(f, x) /\ x.detector \notin Foreign
<1>1. e \in UNION {{Jwt!OperationEvidence(f, c)} \cup {Jwt!FieldEvidence(f, c, k) : k \in DOMAIN c.fields} :
                        c \in group}
  BY DEF Jwt!JwtArtifact, Jwt!Artifact
<1>2. ASSUME NEW c \in group PROVE Good(Jwt!OperationEvidence(f, c))
  <2>1. Jwt!OperationDetector(c) \notin Foreign
    BY DEF Jwt!OperationDetector, Foreign, Alien, Sessional, IsOperation
  <2>. QED  BY <2>1 DEF Jwt!OperationEvidence, Jwt!EvidenceAt, Placed
<1>3. ASSUME NEW c \in group, NEW k \in DOMAIN c.fields PROVE Good(Jwt!FieldEvidence(f, c, k))
  <2>1. k \notin Foreign
    BY DEF GoodCall, Keys
  <2>. QED  BY <2>1 DEF Jwt!FieldEvidence, Jwt!EvidenceAt, Placed
<1>. HIDE DEF Good
<1>4. Good(e)
  BY <1>1, <1>2, <1>3
<1>. QED  BY <1>4 DEF Good

\* The evidence of a field says what the field does.
LEMMA FieldSays ==
    ASSUME NEW f, NEW c, GoodCall(c), NEW k \in DOMAIN c.fields
    PROVE  LET e == Jwt!FieldEvidence(f, c, k)
           IN /\ c.fields[k].state \in {"present", "missing"} => Firm(e)
              /\ c.fields[k].value # {} \/ e.says # {} => Firm(e)
<1>. DEFINE x == c.fields[k]
            e == Jwt!FieldEvidence(f, c, k)
<1>1. e.dynamic = (x.state = "dynamic") /\ e.default = (x.state = "framework_default") /\ e.says = x.says
  BY DEF Jwt!FieldEvidence, Jwt!EvidenceAt
<1>2. x.value # {} \/ x.says # {} => x.state = "present"
  BY DEF GoodCall, Honest
<1>. HIDE DEF x, e
<1>3. /\ x.state \in {"present", "missing"} => Firm(e)
      /\ x.value # {} \/ e.says # {} => Firm(e)
  BY <1>1, <1>2 DEF Firm
<1>. QED  BY <1>3 DEF x, e

\* No text says nothing.
LEMMA JoinedWordsOfNone == Jwt!JoinedWords({}) = {}
<1>. DEFINE three == Jwt!FirstThree({})
<1>0. Jwt!Cardinality({}) = Cardinality({})
  BY DEF Jwt!Cardinality, Cardinality
<1>1. ~(Jwt!Cardinality({}) > 3)
  BY <1>0, FS_EmptySet
<1>2. Jwt!JoinedWords({}) = {} \cup UNION {t.says : t \in three}
  BY <1>1 DEF Jwt!JoinedWords
<1>3. three \subseteq {}
  BY DEF Jwt!FirstThree
<1>. HIDE DEF three
<1>4. UNION {t.says : t \in three} = {}
  BY <1>3
<1>. QED  BY <1>2, <1>4

LEMMA AggregateIs ==
    ASSUME NEW f, NEW group, NEW k, NEW E,
           \A c \in group : GoodCall(c) /\ \A j \in DOMAIN c.fields : Jwt!FieldEvidence(f, c, j) \in E
    PROVE  LET o == Jwt!Aggregate(f, group, k)
           IN /\ o.ids \subseteq Ids(E) /\ (o.state # "unknown" => o.ids # {})
              /\ o.state = "missing" \/ o.value # {} => FirmIn(E, o.ids)
              /\ (\E c \in group : k \in DOMAIN c.fields /\ c.fields[k].state = "missing") => FirmIn(E, o.ids)
<1>. DEFINE o == Jwt!Aggregate(f, group, k)
            calls == {c \in group : k \in DOMAIN c.fields}
            seen == {c.fields[k] : c \in calls}
            states == {x.state : x \in seen}
            F(c) == Jwt!FieldEvidence(f, c, k)
<1>1. CASE seen = {}
  <2>1. o.ids = {} /\ o.state = "unknown" /\ o.value = {}
    BY <1>1 DEF Jwt!Aggregate, Jwt!Unobserved, Jwt!Observation
  <2>2. \A c \in group : k \notin DOMAIN c.fields
    BY <1>1
  <2>. HIDE DEF o
  <2>. QED  BY <2>1, <2>2 DEF o
<1>2. CASE seen # {}
  <2>1. /\ o.ids = {F(c).id : c \in calls} /\ o.value = Jwt!JoinedWords(UNION {x.value : x \in seen})
        /\ o.state = "missing" => "missing" \in states
    BY <1>2 DEF Jwt!Aggregate, Jwt!Observation
  <2>2. \A c \in calls : /\ F(c) \in E /\ GoodCall(c)
                         /\ c.fields[k].state = "missing" \/ c.fields[k].value # {} => Firm(F(c))
    BY FieldSays
  <2>3. o.state = "missing" => \E c \in calls : c.fields[k].state = "missing"
    BY <2>1
  <2>4. o.value # {} => \E c \in calls : c.fields[k].value # {}
    <3>1. o.value # {} => UNION {x.value : x \in seen} # {}
      BY <2>1, JoinedWordsOfNone
    <3>. HIDE DEF o
    <3>. QED  BY <3>1
  <2>. HIDE DEF o, seen, states, F, calls
  <2>5. o.ids \subseteq Ids(E) /\ o.ids # {}
    BY <1>2, <2>1, <2>2 DEF Ids, seen
  <2>6. \A c \in calls : c.fields[k].state = "missing" \/ c.fields[k].value # {} => FirmIn(E, o.ids)
    BY <2>1, <2>2 DEF FirmIn
  <2>. QED  BY <2>3, <2>4, <2>5, <2>6 DEF o, calls
<1>. QED  BY <1>1, <1>2

LEMMA JwtIsBacked ==
    ASSUME NEW f, NEW group, group # {}, \A c \in group : GoodCall(c) /\ IsOperation(c),
           JwtIn(f, Jwt!JwtArtifact(f, group))
    PROVE  Common(f, Jwt!JwtArtifact(f, group))
<1>. DEFINE a == Jwt!JwtArtifact(f, group)
            E == a.evidence
            O(c) == Jwt!OperationEvidence(f, c)
            F(c, k) == Jwt!FieldEvidence(f, c, k)
            sign == Jwt!Attr("signature_verification")
            A(k) == Jwt!Aggregate(f, group, k)
<1>1. /\ a.id[1] = f.path /\ a.cookie = NoAttributes
      /\ E = UNION {{O(c)} \cup {F(c, k) : k \in DOMAIN c.fields} : c \in group}
      /\ a.jwt = Jwt!JwtObservations(f, group)
  BY DEF Jwt!JwtArtifact, Jwt!Artifact, Jwt!NoAttributes, NoAttributes
<1>2. /\ \A k \in JwtAttribute \ {"operation"} : a.jwt[k] = A(Jwt!Attr(k))
      /\ a.jwt["operation"].ids = {O(c).id : c \in group}
      /\ a.jwt["operation"].value = {c.operation : c \in group}
      /\ a.jwt["operation"].state = "present"
  BY <1>1 DEF Jwt!JwtObservations, JwtAttribute, Jwt!JwtAttribute, Jwt!Observation
<1>3. \A e \in E : Placed(f, e) /\ e.detector \notin Foreign
  BY JwtEvidence
<1>4. \A c : O(c).says = {}
  BY DEF Jwt!OperationEvidence, Jwt!EvidenceAt
<1>13. ~LikeFlow(a)
  BY DEF LikeFlow, Jwt!JwtArtifact, Jwt!Artifact, Jwt!JwtType
<1>. HIDE DEF a, O, F
<1>5. \A c \in group : /\ GoodCall(c) /\ O(c) \in E
                       /\ \A k \in DOMAIN c.fields : F(c, k) \in E
  BY <1>1
<1>6. E # {}
  BY <1>5
<1>7. \A e \in E : e.says # {} => Firm(e)
  <2>. SUFFICES ASSUME NEW e \in E, e.says # {} PROVE Firm(e)
    OBVIOUS
  <2>1. PICK c \in group : e = O(c) \/ \E k \in DOMAIN c.fields : e = F(c, k)
    BY <1>1
  <2>2. PICK k \in DOMAIN c.fields : e = F(c, k)
    BY <1>4, <2>1
  <2>. QED  BY <1>5, <2>2, FieldSays DEF F
<1>8. \A k : /\ A(k).ids \subseteq Ids(E) /\ (A(k).state # "unknown" => A(k).ids # {})
             /\ A(k).state = "missing" \/ A(k).value # {} => FirmIn(E, A(k).ids)
             /\ (\E c \in group : k \in DOMAIN c.fields /\ c.fields[k].state = "missing") => FirmIn(E, A(k).ids)
  BY <1>5, AggregateIs DEF F
<1>. HIDE DEF A, E
<1>9. \A k \in JwtAttribute : /\ a.jwt[k].ids \subseteq Ids(E)
                              /\ a.jwt[k].state # "unknown" => a.jwt[k].ids # {}
                              /\ a.jwt[k].state = "missing" => FirmIn(E, a.jwt[k].ids)
  <2>. SUFFICES ASSUME NEW k \in JwtAttribute
                PROVE  /\ a.jwt[k].ids \subseteq Ids(E)
                       /\ a.jwt[k].state # "unknown" => a.jwt[k].ids # {}
                       /\ a.jwt[k].state = "missing" => FirmIn(E, a.jwt[k].ids)
    OBVIOUS
  <2>1. CASE k = "operation"
    BY <1>2, <1>5, <2>1 DEF Ids
  <2>2. CASE k # "operation"
    BY <1>2, <1>8, <2>2
  <2>. QED  BY <2>1, <2>2
<1>10. a.jwt["algorithm"].value # {} => FirmIn(E, a.jwt["algorithm"].ids)
  BY <1>2, <1>8 DEF JwtAttribute
<1>11. "decode_without_verify" \in a.jwt["operation"].value => FirmIn(E, a.jwt["signature_verification"].ids)
  <2>. SUFFICES ASSUME NEW c \in group, c.operation = "decode_without_verify"
                PROVE  FirmIn(E, a.jwt["signature_verification"].ids)
    BY <1>2
  <2>1. sign \in DOMAIN c.fields /\ c.fields[sign].state = "missing"
    BY <1>5 DEF GoodCall, Unverified
  <2>2. a.jwt["signature_verification"] = A(sign)
    BY <1>2 DEF JwtAttribute
  <2>. HIDE DEF sign
  <2>. QED  BY <1>8, <2>1, <2>2
<1>12. JwtBacked(a)
  BY <1>7, <1>9, <1>10, <1>11 DEF JwtBacked, E
<1>. QED  BY <1>1, <1>3, <1>6, <1>12, <1>13 DEF Common, E, a, Foreign

LEMMA JwtArtifactsAreKnown ==
    ASSUME NEW f, IsFile(f)
    PROVE  /\ Known(f, Jwt!JwtArtifacts(f), Apart)
           /\ \A c \in Range1(Jwt!JwtCalls(f)) :
                 \E group : c \in group /\ Jwt!JwtArtifact(f, group) \in Range1(Jwt!JwtArtifacts(f))
<1>. DEFINE calls == Jwt!JwtCalls(f)
            groups == Jwt!JwtGroups(calls)
            t == [k \in DOMAIN groups |-> Jwt!JwtArtifact(f, groups[k])]
<1>1. IsSequence(calls) /\ \A c \in Range1(calls) : GoodCall(c) /\ IsOperation(c)
  BY JwtCallsAreGood
<1>2. /\ IsSequence(groups)
      /\ \A group \in Range1(groups) : group # {} /\ group \subseteq Range1(calls)
      /\ \A c \in Range1(calls) : \E group \in Range1(groups) : c \in group
  BY <1>1, JwtGroupsAre
<1>3. Jwt!JwtArtifacts(f) = t
  BY DEF Jwt!JwtArtifacts, Jwt!Each
<1>4. DOMAIN t = DOMAIN groups /\ t = [k \in DOMAIN groups |-> t[k]]
      /\ \A k \in DOMAIN groups : t[k] = Jwt!JwtArtifact(f, groups[k])
  OBVIOUS
<1>. HIDE DEF t, groups, calls
<1>5. IsSequence(t) /\ Range1(t) = {t[k] : k \in DOMAIN groups}
  BY <1>2, <1>4, EachIsOne
<1>6. \A k \in DOMAIN groups : groups[k] # {} /\ \A c \in groups[k] : GoodCall(c) /\ IsOperation(c)
  BY <1>1, <1>2 DEF Range1
<1>10. \A k \in DOMAIN groups : JwtIn(f, Jwt!JwtArtifact(f, groups[k]))
  BY DEF JwtIn, Range1, groups, calls
<1>7. \A k \in DOMAIN groups : Common(f, t[k])
  BY <1>4, <1>6, <1>10, JwtIsBacked
<1>8. Known(f, t, Apart)
  BY <1>5, <1>7, CommonIsKnown
<1>9. \A c \in Range1(calls) : \E group : c \in group /\ Jwt!JwtArtifact(f, group) \in Range1(t)
  BY <1>2, <1>4, <1>5 DEF Range1
<1>. QED  BY <1>3, <1>8, <1>9 DEF calls

-----------------------------------------------------------------------------
(* Detectors of signals.                                                    *)

LEMMA FiniteUnion ==
    ASSUME NEW S, IsFiniteSet(S), NEW g, \A x \in S : IsFiniteSet(g[x])
    PROVE  IsFiniteSet(UNION {g[x] : x \in S})
<1>1. IsFiniteSet({g[x] : x \in S})
  BY FiniteRange
<1>. QED  BY <1>1, FS_UNION

LEMMA NodesAreFinite ==
    ASSUME NEW f, IsFile(f), NEW S \in SUBSET (DOMAIN f.nodes)
    PROVE  IsFiniteSet(S)
<1>1. DOMAIN f.nodes = 1..Len(f.nodes) /\ Len(f.nodes) \in Nat
  BY SequenceForm DEF IsFile
<1>2. IsFiniteSet(1..Len(f.nodes))
  BY <1>1, FS_Interval
<1>. QED  BY <1>1, <1>2, FS_Subset

LEMMA BearerCopies ==
    /\ \A s : Bearer!FlattenSeq(s) = FlattenSeq(s)
    /\ \A S : Bearer!SetToSeq(S) = SetToSeq(S)
BY DEF Bearer!FlattenSeq, FlattenSeq, Bearer!SetToSeq, SetToSeq, Bearer!IsInjective, IsInjective,
       Bearer!Cardinality, Cardinality

LEMMA BearerByLine ==
    ASSUME NEW f, IsFile(f), NEW groups, IsFiniteSet(groups)
    PROVE  IsSequence(Bearer!ByLine(f, groups)) /\ Range1(Bearer!ByLine(f, groups)) \subseteq groups
<1>. DEFINE of(n) == {G \in groups : Bearer!FirstLine(G) = n}
            ss == [n \in DOMAIN f.nodes |-> SetToSeq(of(n))]
<1>1. Bearer!ByLine(f, groups) = FlattenSeq(ss)
  BY BearerCopies DEF Bearer!ByLine
<1>2. \A n : of(n) \subseteq groups
  OBVIOUS
<1>3. IsSequence(ss) /\ DOMAIN ss = 1..Len(ss)
  <2>1. IsSequence(f.nodes)
    BY DEF IsFile
  <2>. QED  BY <2>1, IndexedIsOne, SequenceForm
<1>4. \A n \in DOMAIN ss : ss[n] = SetToSeq(of(n))
  OBVIOUS
<1>. HIDE DEF of, ss
<1>5. \A n \in DOMAIN ss : IsSequence(ss[n]) /\ Range1(ss[n]) \subseteq groups
  <2>. SUFFICES ASSUME NEW n \in DOMAIN ss PROVE IsSequence(ss[n]) /\ Range1(ss[n]) \subseteq groups
    OBVIOUS
  <2>1. IsFiniteSet(of(n))
    BY <1>2, FS_Subset
  <2>. QED  BY <1>2, <1>4, <2>1, SetToSeqIs
<1>6. IsSequences(ss)
  BY <1>3, <1>5 DEF IsSequences
<1>7. IsSequence(FlattenSeq(ss)) /\ Range1(FlattenSeq(ss)) = UNION {Range1(ss[k]) : k \in DOMAIN ss}
  BY <1>6, FlattenIsOne
<1>. QED  BY <1>1, <1>5, <1>7

\* A signal of the bearer token detector is of none of these.
Others == {"cookie.conflicting_writes", "oauth.flow.auth_code", "client_storage.local_storage.set_item",
           "client_storage.session_storage.set_item", "client_storage.url_path_or_fragment.token",
           "client_storage.browser.client_secret"} \cup Sessional
BearerSignal(s) ==
    /\ s.detector \notin Others /\ (s.detector \in Certain => s.dynamic = FALSE)
    /\ s.detector = "bearer.transmit" => s.stage = "transmit"
    /\ s.type \in BearerLike
BearerOnes(S) == IsFiniteSet(S) /\ \A s \in S : BearerSignal(s)

LEMMA BearerTypes == \A W : Bearer!TypeOf(W) \in BearerLike
<1>. SUFFICES ASSUME NEW W PROVE Bearer!TypeOf(W) \in BearerLike
  OBVIOUS
<1>. DEFINE rules == << <<{"api_key"}, "ApiKey">>,
                    <<{"service", "machine", "clientcredentials", "client_token", "internal"}, "ServiceToken">>,
                    <<{"bearer", "authorization", "access_token", "session_token", "session_id"},
                      "OpaqueBearerToken">> >>
            otherwise == IF Bearer!IsBrowserStorage(W) /\ Bearer!BrowserSession(W)
                         THEN "OpaqueBearerToken" ELSE "UnknownToken"
            I == {i \in 1..Len(rules) : Bearer!Says(W, rules[i][1])}
            k == IF I # {} THEN Bearer!Min(I) ELSE 0
<1>1. Bearer!TypeOf(W) = IF k = 0 THEN otherwise ELSE rules[k][2]
  BY DEF Bearer!TypeOf, Bearer!FirstRule, Bearer!SelectInSeq
<1>2. I # {} => Bearer!Min(I) \in I
  <2>1. I \in SUBSET Nat
    OBVIOUS
  <2>. HIDE DEF I
  <2>. QED  BY <2>1, LeastNat DEF Bearer!Min
<1>3. k = 0 \/ k \in 1..3
  <2>1. I \subseteq 1..3
    OBVIOUS
  <2>. HIDE DEF I
  <2>. QED  BY <1>2, <2>1
<1>. HIDE DEF k
<1>. QED  BY <1>1, <1>3 DEF BearerLike

LEMMA NoOnes == BearerOnes({})
BY FS_EmptySet DEF BearerOnes

LEMMA OneOfOnes ==
    ASSUME NEW s, BearerSignal(s)
    PROVE  BearerOnes({s})
BY FS_Singleton DEF BearerOnes

LEMMA OnesTogether ==
    ASSUME NEW S, NEW T, BearerOnes(S), BearerOnes(T)
    PROVE  BearerOnes(S \cup T)
BY FS_Union DEF BearerOnes

LEMMA BoundaryOnes ==
    ASSUME NEW W, NEW n, NEW hint
    PROVE  BearerOnes(Bearer!BoundarySignals(W, n, hint))
<1>. DEFINE K == {"issuer", "audience", "service", "environment", "tenant", "provider", "trust_boundary"}
            g == [k \in K |-> Bearer!Signal(Bearer!BoundaryDetector(k), "introspect", Bearer!TypeOf(W),
                                            Bearer!NameOf(W), hint, n, FALSE,
                                            Bearer!FirstSaid(W, Bearer!BoundaryTerms[k]))]
            S == {k \in K : Bearer!IsBoundary(k, W)}
<1>1. DOMAIN Bearer!BoundaryTerms = K
  BY DEF Bearer!BoundaryTerms
<1>2. Bearer!BoundarySignals(W, n, hint) = {g[k] : k \in S}
  BY <1>1 DEF Bearer!BoundarySignals
<1>3. \A k \in K : Bearer!BoundaryDetector(k) \notin Others \cup {"bearer.transmit"}
  BY DEF Bearer!BoundaryDetector, Others, Sessional
<1>4. \A k \in K : BearerSignal(g[k])
  <2>. SUFFICES ASSUME NEW k \in K PROVE BearerSignal(g[k])
    OBVIOUS
  <2>1. g[k].detector = Bearer!BoundaryDetector(k) /\ g[k].type = Bearer!TypeOf(W) /\ g[k].dynamic = FALSE
    BY DEF Bearer!Signal
  <2>. QED  BY <1>3, <2>1, BearerTypes DEF BearerSignal
<1>5. IsFiniteSet(S)
  <2>1. IsFiniteSet(K)
    <3>. DEFINE h == <<"issuer", "audience", "service", "environment", "tenant", "provider", "trust_boundary">>
    <3>1. K = {h[x] : x \in 1..7}
      OBVIOUS
    <3>. HIDE DEF h, K
    <3>2. \A m \in Nat : IsFiniteSet(1..m)
      BY FS_Interval
    <3>3. \A m \in Nat : IsFiniteSet({h[x] : x \in 1..m})
      BY <3>2, FiniteRange
    <3>. QED  BY <3>1, <3>3
  <2>. QED  BY <2>1, FS_Subset
<1>. HIDE DEF g, S
<1>. QED  BY <1>2, <1>4, <1>5, FiniteRange DEF BearerOnes, S

\* The signals of a kind, when there are any.
LEMMA WhenOnes ==
    ASSUME NEW is, NEW s, BearerSignal(s), NEW S, S = IF is THEN {s} ELSE {}
    PROVE  BearerOnes(S)
BY NoOnes, OneOfOnes

LEMMA OperationOnes ==
    ASSUME NEW n, NEW s, NEW plain, NEW hint, NEW stored, stored \notin Others \cup {"bearer.transmit"}
    PROVE  BearerOnes(Bearer!OperationSignals(n, s, plain, hint, stored))
<1>. DEFINE C == s.code
            T == s.text
            X == Bearer!Context(s)
            of(detector, stage) == Bearer!Signal(detector, stage, Bearer!TypeOf(X), Bearer!NameOf(X), hint, n, FALSE, {})
            when(is, detector, stage) == IF is THEN {of(detector, stage)} ELSE {}
            transmitted == IF Bearer!InboundHeader(X) THEN "bearer.read.inbound"
                           ELSE IF Bearer!UrlQuery(X, T) THEN "bearer.transmit.url_query" ELSE "bearer.transmit"
            A == {[t EXCEPT !.hint = plain] : t \in when(Bearer!IssueCall(C), "bearer.issue", "issue")}
            J == {[t EXCEPT !.hint = Bearer!ProviderHint(C), !.dynamic = TRUE] :
                     t \in when(Bearer!DynamicProviderCall(C), "bearer.dynamic_provider", "transmit")}
<1>1. \A is, detector, stage :
         detector \notin Others /\ (detector = "bearer.transmit" => stage = "transmit")
         => BearerOnes(when(is, detector, stage))
  <2>. SUFFICES ASSUME NEW is, NEW detector, NEW stage, detector \notin Others,
                       detector = "bearer.transmit" => stage = "transmit"
                PROVE  BearerOnes(when(is, detector, stage))
    OBVIOUS
  <2>1. /\ of(detector, stage).detector = detector /\ of(detector, stage).type = Bearer!TypeOf(X)
        /\ of(detector, stage).dynamic = FALSE /\ of(detector, stage).stage = stage
    BY DEF Bearer!Signal
  <2>. HIDE DEF of
  <2>2. BearerSignal(of(detector, stage))
    BY <2>1, BearerTypes DEF BearerSignal
  <2>. QED  BY <2>2, WhenOnes
<1>2. \A x : /\ [of("bearer.issue", "issue") EXCEPT !.hint = x].detector = "bearer.issue"
             /\ [of("bearer.issue", "issue") EXCEPT !.hint = x].type = Bearer!TypeOf(X)
             /\ [of("bearer.issue", "issue") EXCEPT !.hint = x].dynamic = FALSE
  BY DEF Bearer!Signal
<1>3. BearerOnes(A)
  <2>. DEFINE t == [of("bearer.issue", "issue") EXCEPT !.hint = plain]
  <2>1. t.detector = "bearer.issue" /\ t.type = Bearer!TypeOf(X) /\ t.dynamic = FALSE
    BY <1>2
  <2>2. A = IF Bearer!IssueCall(C) THEN {t} ELSE {}
    OBVIOUS
  <2>. HIDE DEF t
  <2>3. BearerSignal(t)
    BY <2>1, BearerTypes DEF BearerSignal, Others, Sessional
  <2>. QED  BY <2>2, <2>3, WhenOnes
<1>4. BearerOnes(J)
  <2>. DEFINE t == [of("bearer.dynamic_provider", "transmit") EXCEPT !.hint = Bearer!ProviderHint(C), !.dynamic = TRUE]
  <2>1. t.detector = "bearer.dynamic_provider" /\ t.type = Bearer!TypeOf(X)
    BY DEF Bearer!Signal
  <2>. DEFINE is == Bearer!DynamicProviderCall(C)
              x == of("bearer.dynamic_provider", "transmit")
              y == Bearer!ProviderHint(C)
  <2>2. /\ is => J = {[v EXCEPT !.hint = y, !.dynamic = TRUE] : v \in {x}}
        /\ ~is => J = {[v EXCEPT !.hint = y, !.dynamic = TRUE] : v \in {}}
    BY Zenon
  <2>3. t = [x EXCEPT !.hint = y, !.dynamic = TRUE]
    OBVIOUS
  <2>. HIDE DEF t, x, y, is, J
  <2>4. J = IF is THEN {t} ELSE {}
    BY <2>2, <2>3
  <2>5. BearerSignal(t)
    BY <2>1, BearerTypes DEF BearerSignal, Certain, Others, Sessional
  <2>. QED  BY <2>4, <2>5, WhenOnes
<1>5. transmitted \notin Others
  BY DEF Others, Sessional
<1>11. \A d \in {"bearer.issue", "bearer.dynamic_provider", "bearer.validate", "bearer.scope", "bearer.expire",
                 "bearer.rotate", "bearer.revoke"} : d \notin Others /\ d # "bearer.transmit"
  BY DEF Others, Sessional
<1>. DEFINE B == when(Bearer!StoreCall(C), stored, "store")
            D == when(Bearer!TransmitCall(X, T), transmitted, "transmit")
            E == when(Bearer!ValidateCall(C), "bearer.validate", "validate")
            F == when(Bearer!ScopeContext(C), "bearer.scope", IF Bearer!IssueCall(C) THEN "issue" ELSE "validate")
            G == when(Bearer!ExpireCall(C), "bearer.expire", "expire")
            H == when(Bearer!RotationCall(C), "bearer.rotate", "refresh")
            I == when(Bearer!RevokeCall(C), "bearer.revoke", "revoke")
            K == Bearer!BoundarySignals(X, n, hint)
<1>6. Bearer!OperationSignals(n, s, plain, hint, stored)
        = A \cup B \cup D \cup E \cup F \cup G \cup H \cup I \cup J \cup K
  BY DEF Bearer!OperationSignals
<1>. HIDE DEF A, J, when, transmitted, C, T, X
<1>7. BearerOnes(B) /\ BearerOnes(D) /\ BearerOnes(E) /\ BearerOnes(F) /\ BearerOnes(G) /\ BearerOnes(H)
      /\ BearerOnes(I) /\ BearerOnes(K)
  BY <1>1, <1>5, <1>11, BoundaryOnes
<1>. HIDE DEF B, D, E, F, G, H, I, K
<1>8. BearerOnes(A \cup B \cup D \cup E \cup F)
  BY <1>3, <1>7, OnesTogether
<1>. DEFINE L == A \cup B \cup D \cup E \cup F
<1>. HIDE DEF L
<1>9. BearerOnes(L \cup G \cup H \cup I \cup J \cup K)
  BY <1>4, <1>7, <1>8, OnesTogether DEF L
<1>. QED  BY <1>6, <1>9 DEF L

LEMMA CallOnes ==
    ASSUME NEW f, NEW n, NEW s
    PROVE  BearerOnes(Bearer!JsCallSignals(f, n, s)) /\ BearerOnes(Bearer!PythonCallSignals(f, n, s))
<1>1. \A X : Bearer!ServerStore(f, X) \notin Others \cup {"bearer.transmit"}
  BY DEF Bearer!ServerStore, Others, Sessional
<1>. DEFINE stored == IF Bearer!IsBrowserStorage(s.code) THEN "bearer.store.browser"
                      ELSE Bearer!ServerStore(f, Bearer!Context(s))
<1>2. stored \notin Others \cup {"bearer.transmit"}
  BY <1>1 DEF Others, Sessional
<1>3. Bearer!JsCallSignals(f, n, s)
        \in {{}, Bearer!OperationSignals(n, s, "javascript", Bearer!JsHint(s.code), stored)}
  BY DEF Bearer!JsCallSignals
<1>. HIDE DEF stored
<1>4. BearerOnes(Bearer!JsCallSignals(f, n, s))
  BY <1>2, <1>3, OperationOnes, NoOnes
<1>5. BearerOnes(Bearer!OperationSignals(n, s, "python", Bearer!PythonHint(s.code),
                                         Bearer!ServerStore(f, Bearer!Context(s))))
  BY <1>1, OperationOnes
<1>6. BearerOnes(Bearer!PythonCallSignals(f, n, s))
  BY <1>5, NoOnes DEF Bearer!PythonCallSignals
<1>. QED  BY <1>4, <1>6

LEMMA AssignmentOnes ==
    ASSUME NEW f, NEW n
    PROVE  BearerOnes(Bearer!AssignmentSignals(f, n))
<1>. DEFINE C == f.nodes[n].code
            T == f.nodes[n].text
            X == Bearer!Context(f.nodes[n])
            hint == IF f.language = "py" THEN "python" ELSE "javascript"
            of(detector, stage) == Bearer!Signal(detector, stage, Bearer!TypeOf(X), Bearer!NameOf(X), hint, n, FALSE, {})
            stage == IF Bearer!Says(C, {"expires", "ttl"}) THEN "expire"
                     ELSE IF Bearer!Says(C, {"header", "authorization"}) THEN "transmit" ELSE "store"
            detector == IF Bearer!PublicConfig(X) THEN "bearer.store.public_config"
                        ELSE IF Bearer!FrontendPath(f) /\ stage = "store" THEN "bearer.store.frontend_bundle"
                        ELSE IF Bearer!SecretLiteral(T, C) THEN "bearer.literal.static"
                        ELSE IF Bearer!InboundHeader(C) THEN "bearer.read.inbound"
                        ELSE IF stage = "transmit" THEN "bearer.transmit" ELSE "bearer.store.config"
            scoped == of("bearer.scope", IF stage = "store" THEN "issue" ELSE "validate")
            A == {of(detector, stage)}
            B == IF Bearer!ScopeContext(C) THEN {scoped} ELSE {}
            D == Bearer!BoundarySignals(X, n, hint)
<1>1. detector \notin Others /\ (detector = "bearer.transmit" => stage = "transmit")
      /\ "bearer.scope" \notin Others
  BY DEF Others, Sessional
<1>2. /\ of(detector, stage).stage = stage
      /\ of(detector, stage).detector = detector /\ of(detector, stage).type = Bearer!TypeOf(X)
      /\ scoped.detector = "bearer.scope" /\ scoped.type = Bearer!TypeOf(X)
      /\ of(detector, stage).dynamic = FALSE /\ scoped.dynamic = FALSE
  BY DEF Bearer!Signal
<1>3. Bearer!AssignmentSignals(f, n) \in {{}, A \cup B \cup D}
  BY DEF Bearer!AssignmentSignals
<1>. HIDE DEF of, detector, stage, hint, C, T, scoped
<1>4. BearerSignal(of(detector, stage)) /\ BearerSignal(scoped)
  BY <1>1, <1>2, BearerTypes DEF BearerSignal
<1>5. BearerOnes(A) /\ BearerOnes(B) /\ BearerOnes(D)
  BY <1>4, OneOfOnes, NoOnes, BoundaryOnes
<1>. HIDE DEF A, B, D
<1>. QED  BY <1>3, <1>5, OnesTogether, NoOnes

LEMMA ConfigOnes ==
    ASSUME NEW f, NEW n
    PROVE  BearerOnes(Bearer!ConfigSignals(f, n))
<1>. DEFINE W == f.nodes[n].text
            hint == f.language \o "-config"
            detector == IF Bearer!PublicConfig(W) THEN "bearer.store.public_config"
                        ELSE IF Bearer!SecretLiteral(W, W) THEN "bearer.literal.static" ELSE "bearer.store.config"
            s == Bearer!Signal(detector, IF Bearer!Says(W, {"expires", "ttl"}) THEN "expire" ELSE "store",
                               Bearer!TypeOf(W), Bearer!NameOf(W), hint, n, FALSE, {})
            D == Bearer!BoundarySignals(W, n, hint)
<1>1. detector \notin Others \cup {"bearer.transmit"}
  BY DEF Others, Sessional
<1>2. s.detector = detector /\ s.type = Bearer!TypeOf(W) /\ s.dynamic = FALSE
  BY DEF Bearer!Signal
<1>3. Bearer!ConfigSignals(f, n) \in {{}, {s} \cup D}
  BY DEF Bearer!ConfigSignals
<1>. HIDE DEF s, detector, hint
<1>4. BearerOnes({s}) /\ BearerOnes(D)
  BY <1>1, <1>2, BearerTypes, OneOfOnes, BoundaryOnes DEF BearerSignal
<1>. HIDE DEF D
<1>. QED  BY <1>3, <1>4, OnesTogether, NoOnes

LEMMA OnesOfNodes ==
    ASSUME NEW S, IsFiniteSet(S), NEW g, \A x \in S : BearerOnes(g[x])
    PROVE  BearerOnes(UNION {g[x] : x \in S})
<1>1. IsFiniteSet(UNION {g[x] : x \in S})
  BY FiniteUnion DEF BearerOnes
<1>. QED  BY <1>1 DEF BearerOnes

LEMMA BearerSignalsAreOnes ==
    ASSUME NEW f, IsFile(f)
    PROVE  BearerOnes(Bearer!BearerSignals(f))
<1>. DEFINE L == Bearer!Nodes(f, "Line")
            A == Bearer!Nodes(f, "Assign")
            C == Bearer!Calls(f)
            l == [n \in L |-> Bearer!ConfigSignals(f, n)]
            a == [n \in A |-> Bearer!AssignmentSignals(f, n)]
            c == [n \in C |-> IF f.language = "py" THEN Bearer!PythonCallSignals(f, n, Bearer!Said(f, n))
                              ELSE Bearer!JsCallSignals(f, n, Bearer!Said(f, n))]
<1>1. Bearer!BearerSignals(f) \in {{}, UNION {l[n] : n \in L}, (UNION {c[n] : n \in C}) \cup (UNION {a[n] : n \in A})}
  BY DEF Bearer!BearerSignals
<1>2. \A n \in L : BearerOnes(l[n])
  BY ConfigOnes
<1>3. \A n \in A : BearerOnes(a[n])
  BY AssignmentOnes
<1>4. \A n \in C : BearerOnes(c[n])
  BY CallOnes
<1>5. IsFiniteSet(L) /\ IsFiniteSet(A) /\ IsFiniteSet(C)
  <2>1. L \subseteq DOMAIN f.nodes /\ A \subseteq DOMAIN f.nodes /\ C \subseteq DOMAIN f.nodes
    BY DEF Bearer!Nodes, Bearer!Calls
  <2>. HIDE DEF L, A, C
  <2>. QED  BY <2>1, NodesAreFinite
<1>. HIDE DEF l, a, c, L, A, C
<1>6. BearerOnes(UNION {l[n] : n \in L}) /\ BearerOnes(UNION {c[n] : n \in C}) /\ BearerOnes(UNION {a[n] : n \in A})
  BY <1>2, <1>3, <1>4, <1>5, OnesOfNodes
<1>7. BearerOnes((UNION {c[n] : n \in C}) \cup (UNION {a[n] : n \in A}))
  BY <1>6, OnesTogether, Zenon
<1>. QED  BY <1>1, <1>6, <1>7, NoOnes, Zenon

\* The type of a group of signals is that of one of them.
LEMMA BearerArtifactIs ==
    ASSUME NEW f, NEW group, group # {}, \A s \in group : BearerSignal(s)
    PROVE  /\ Bearer!BearerArtifact(f, group).type \in BearerLike
           /\ Bearer!BearerArtifact(f, group).cookie = NoAttributes
           /\ Shown(f, Bearer!BearerArtifact(f, group))
           /\ \A e \in Bearer!BearerArtifact(f, group).evidence : e.detector # "cookie.conflicting_writes"
<1>. DEFINE a == Bearer!SignalArtifact(f, "bearer", group)
            s == CHOOSE x \in group : TRUE
<1>1. s \in group
  OBVIOUS
<1>2. a.type = s.type /\ a.id[1] = f.path /\ a.id[2] = "bearer" /\ a.evidence = {Bearer!SignalEvidence(f, "bearer", t) : t \in group}
  BY DEF Bearer!SignalArtifact, Bearer!Artifact
<1>. DEFINE b == Bearer!BearerArtifact(f, group)
<1>3. /\ b.type = a.type /\ b.id = a.id /\ b.evidence = a.evidence
      /\ b.cookie = NoAttributes /\ b.jwt = NoAttributes
  BY DEF Bearer!BearerArtifact, Bearer!SignalArtifact, Bearer!Artifact, Bearer!NoAttributes, NoAttributes
<1>. HIDE DEF a, s, b
<1>4. ASSUME NEW t \in group
      PROVE  LET e == Bearer!SignalEvidence(f, "bearer", t)
             IN Placed(f, e) /\ Sure(e) /\ e.detector \notin Others
  <2>. DEFINE e == Bearer!SignalEvidence(f, "bearer", t)
  <2>1. /\ Placed(f, e) /\ e.detector = t.detector /\ e.detector \notin Others
        /\ ~e.default /\ (t.dynamic = FALSE => ~e.dynamic)
        /\ t.detector = "bearer.transmit" => e.stage = "transmit"
    BY DEF Bearer!SignalEvidence, Bearer!EvidenceAt, Placed, BearerSignal
  <2>3. \A d : d \notin Others => d \notin Stores
    BY DEF Stores, Others, Sessional
  <2>4. t.detector \in Certain => t.dynamic = FALSE
    BY DEF BearerSignal
  <2>. HIDE DEF e
  <2>5. e.detector \notin Stores /\ (e.detector \in Certain => ~e.dynamic) /\ ~e.default
        /\ (e.detector = "bearer.transmit" => e.stage = "transmit")
    BY <2>1, <2>3, <2>4
  <2>2. Sure(e)
    BY <2>5 DEF Sure, Firm
  <2>. QED  BY <2>1, <2>2 DEF e
<1>5. a.type \in BearerLike
  BY <1>1, <1>2 DEF BearerSignal
<1>6. b.evidence # {} /\ \A e \in b.evidence : Placed(f, e) /\ Sure(e) /\ e.detector # "cookie.conflicting_writes"
                                              /\ e.detector # "oauth.flow.auth_code" /\ e.detector \notin Sessional
  BY <1>2, <1>3, <1>4 DEF Others, Sessional
<1>8. ~LikeFlow(b)
  BY <1>2, <1>3, <1>5 DEF LikeFlow, BearerLike
<1>7. Shown(f, b)
  BY <1>2, <1>3, <1>6, <1>8 DEF Shown
<1>. QED  BY <1>3, <1>5, <1>6, <1>7 DEF b

LEMMA BearerArtifactsAreKnown ==
    ASSUME NEW f, IsFile(f)
    PROVE  /\ Known(f, Bearer!BearerArtifacts(f), {"cookie.conflicting_writes"})
           /\ \A a \in Range1(Bearer!BearerArtifacts(f)) : a.type \in BearerLike
<1>. DEFINE signals == Bearer!BearerSignals(f)
            of(s) == {t \in signals : t.type = s.type /\ t.name = s.name}
            groups == {of(s) : s \in signals}
            line == Bearer!ByLine(f, groups)
            t == [k \in DOMAIN line |-> Bearer!BearerArtifact(f, line[k])]
<1>1. BearerOnes(signals)
  BY BearerSignalsAreOnes
<1>2. Bearer!BearerArtifacts(f) = t
  BY DEF Bearer!BearerArtifacts, Bearer!Each, Bearer!SignalGroups
<1>3. DOMAIN t = DOMAIN line /\ t = [k \in DOMAIN line |-> t[k]]
      /\ \A k \in DOMAIN line : t[k] = Bearer!BearerArtifact(f, line[k])
  OBVIOUS
<1>4. IsFiniteSet(groups)
  <2>. DEFINE g == [s \in signals |-> of(s)]
  <2>1. groups = {g[s] : s \in signals}
    OBVIOUS
  <2>2. IsFiniteSet(signals)
    BY <1>1 DEF BearerOnes
  <2>. HIDE DEF g, groups, signals
  <2>. QED  BY <2>1, <2>2, FiniteRange
<1>5. \A group \in groups : group # {} /\ \A s \in group : BearerSignal(s)
  <2>. SUFFICES ASSUME NEW x \in signals PROVE of(x) # {} /\ \A s \in of(x) : BearerSignal(s)
    OBVIOUS
  <2>. QED  BY <1>1 DEF BearerOnes
<1>. HIDE DEF t, line, groups, signals
<1>6. IsSequence(line) /\ Range1(line) \subseteq groups
  BY <1>4, BearerByLine DEF line
<1>7. IsSequence(t) /\ Range1(t) = {t[k] : k \in DOMAIN line}
  BY <1>3, <1>6, EachIsOne
<1>8. \A k \in DOMAIN line : line[k] # {} /\ \A s \in line[k] : BearerSignal(s)
  BY <1>5, <1>6 DEF Range1
<1>9. \A k \in DOMAIN line : /\ t[k].type \in BearerLike /\ Shown(f, t[k]) /\ t[k].cookie = NoAttributes
                             /\ \A e \in t[k].evidence : e.detector # "cookie.conflicting_writes"
  BY <1>3, <1>8, BearerArtifactIs
<1>. QED  BY <1>2, <1>7, <1>9 DEF Known

-----------------------------------------------------------------------------
(* What a client carries.                                                   *)

LEMMA ClientCopies ==
    /\ \A s : Client!FlattenSeq(s) = FlattenSeq(s)
    /\ \A S : Client!SetToSeq(S) = SetToSeq(S)
BY DEF Client!FlattenSeq, FlattenSeq, Client!SetToSeq, SetToSeq, Client!IsInjective, IsInjective,
       Client!Cardinality, Cardinality

LEMMA ClientByLine ==
    ASSUME NEW f, IsFile(f), NEW groups, IsFiniteSet(groups)
    PROVE  IsSequence(Client!ByLine(f, groups)) /\ Range1(Client!ByLine(f, groups)) \subseteq groups
<1>. DEFINE of(n) == {G \in groups : Client!FirstLine(G) = n}
            ss == [n \in DOMAIN f.nodes |-> SetToSeq(of(n))]
<1>1. Client!ByLine(f, groups) = FlattenSeq(ss)
  BY ClientCopies DEF Client!ByLine
<1>2. \A n : of(n) \subseteq groups
  OBVIOUS
<1>3. IsSequence(ss) /\ DOMAIN ss = 1..Len(ss)
  <2>1. IsSequence(f.nodes)
    BY DEF IsFile
  <2>. QED  BY <2>1, IndexedIsOne, SequenceForm
<1>4. \A n \in DOMAIN ss : ss[n] = SetToSeq(of(n))
  OBVIOUS
<1>. HIDE DEF of, ss
<1>5. \A n \in DOMAIN ss : IsSequence(ss[n]) /\ Range1(ss[n]) \subseteq groups
  <2>. SUFFICES ASSUME NEW n \in DOMAIN ss PROVE IsSequence(ss[n]) /\ Range1(ss[n]) \subseteq groups
    OBVIOUS
  <2>1. IsFiniteSet(of(n))
    BY <1>2, FS_Subset
  <2>. QED  BY <1>2, <1>4, <2>1, SetToSeqIs
<1>6. IsSequences(ss)
  BY <1>3, <1>5 DEF IsSequences
<1>7. IsSequence(FlattenSeq(ss)) /\ Range1(FlattenSeq(ss)) = UNION {Range1(ss[k]) : k \in DOMAIN ss}
  BY <1>6, FlattenIsOne
<1>. QED  BY <1>1, <1>5, <1>7

\* Signals of the other detectors.
Usual(s) == /\ s.detector \notin Apart \cup Sessional /\ s.detector # "bearer.transmit"
            /\ s.detector \in Certain => s.dynamic = FALSE
            /\ s.detector = "client_storage.browser.client_secret" => s.dynamic = TRUE
            /\ s.detector # "oauth.flow.auth_code" /\ s.type # "OAuthAuthCodeFlow"
Plain(S) == IsFiniteSet(S) /\ \A s \in S : Usual(s)

LEMMA PlainOnes ==
    /\ Plain({})
    /\ \A s : Usual(s) => Plain({s})
    /\ \A S, T : Plain(S) /\ Plain(T) => Plain(S \cup T)
BY FS_EmptySet, FS_Singleton, FS_Union DEF Plain

LEMMA PlainOfNodes ==
    ASSUME NEW S, IsFiniteSet(S), NEW g, \A x \in S : Plain(g[x])
    PROVE  Plain(UNION {g[x] : x \in S})
<1>1. IsFiniteSet(UNION {g[x] : x \in S})
  BY FiniteUnion DEF Plain
<1>. QED  BY <1>1 DEF Plain

LEMMA StorageIsPlain ==
    ASSUME NEW f, NEW n
    PROVE  Plain(Client!StorageSignals(f, n))
<1>. DEFINE s == f.nodes[n]
            key == IF s.key = "" THEN "document_cookie" ELSE s.key
            of(detector, stage, name, dynamic) ==
               {Client!Signal(detector, stage, Client!StorageType(name), name, "browser-client", n, dynamic, {})}
            when(is, signals) == IF is THEN signals ELSE {}
            stored(key1) == Client!TokenShaped(key1) /\ key1 \notin Client!AllowlistedKey
            A == when("localstorage_setitem" \in s.code /\ stored(s.key),
                      of("client_storage.local_storage.set_item", "store", s.key, FALSE))
            B == when("sessionstorage_setitem" \in s.code /\ stored(s.key),
                      of("client_storage.session_storage.set_item", "store", s.key, FALSE))
            C == when("document.cookie" \in s.code /\ stored(key),
                      of("client_storage.document_cookie.write", "store", key, FALSE))
            D == when("url fragment" \in s.text,
                      of("client_storage.url_path_or_fragment.token", "transmit", "url_token", FALSE))
            E == when(Client!BrowserPath(f) /\ "client_secret" \in s.text,
                      of("client_storage.browser.client_secret", "store", "client_secret", TRUE))
<1>1. Client!StorageSignals(f, n) = A \cup B \cup C \cup D \cup E
  BY DEF Client!StorageSignals
<1>2. \A detector, stage, name, dynamic :
         /\ detector \notin Apart \cup Sessional \cup {"bearer.transmit", "oauth.flow.auth_code"}
         /\ detector \in Certain => dynamic = FALSE
         /\ detector = "client_storage.browser.client_secret" <=> dynamic = TRUE
         => Plain(of(detector, stage, name, dynamic))
  <2>1. \A name : Client!StorageType(name) # "OAuthAuthCodeFlow"
    BY DEF Client!StorageType
  <2>. QED  BY <2>1, PlainOnes DEF Client!Signal, Usual
<1>3. \A is, signals : Plain(signals) => Plain(when(is, signals))
  BY PlainOnes
<1>. HIDE DEF of, when, stored, s, key
<1>5. /\ \A d \in {"client_storage.local_storage.set_item", "client_storage.session_storage.set_item",
                "client_storage.document_cookie.write", "client_storage.url_path_or_fragment.token",
                "client_storage.browser.client_secret"} :
            d \notin Apart \cup Sessional \cup {"bearer.transmit", "oauth.flow.auth_code"}
      /\ "client_storage.browser.client_secret" \notin Certain
  BY DEF Apart, Certain, Sessional
<1>4. /\ Plain(of("client_storage.local_storage.set_item", "store", s.key, FALSE))
      /\ Plain(of("client_storage.session_storage.set_item", "store", s.key, FALSE))
      /\ Plain(of("client_storage.document_cookie.write", "store", key, FALSE))
      /\ Plain(of("client_storage.url_path_or_fragment.token", "transmit", "url_token", FALSE))
      /\ Plain(of("client_storage.browser.client_secret", "store", "client_secret", TRUE))
  BY <1>2, <1>5
<1>6. Plain(A) /\ Plain(B) /\ Plain(C) /\ Plain(D) /\ Plain(E)
  BY <1>3, <1>4, Zenon
<1>. HIDE DEF A, B, C, D, E
<1>. QED  BY <1>1, <1>6, PlainOnes, Zenon

LEMMA QueryIsPlain ==
    ASSUME NEW f, IsFile(f)
    PROVE  Plain(Client!QuerySignals(f)) /\ \A s \in Client!QuerySignals(f) : s.detector \in Reading
<1>. DEFINE N == Client!Lines(f)
            R(n) == {p \in f.nodes[n].reads : Client!QueryRelevant(p)}
            g == [n \in N |-> {Client!QuerySignal(f, n, q) : q \in R(n)}]
<1>1. Client!QuerySignals(f) = UNION {g[n] : n \in N}
  BY DEF Client!QuerySignals
<1>2. N \subseteq DOMAIN f.nodes /\ \A n \in N : f.nodes[n].kind \in {"Call", "Route", "Assign"}
  BY DEF Client!Lines, Client!Calls, Client!Nodes
<1>3. \A n \in N : Plain(g[n])
  <2>. SUFFICES ASSUME NEW n \in N PROVE Plain(g[n])
    OBVIOUS
  <2>. DEFINE h == [q \in R(n) |-> Client!QuerySignal(f, n, q)]
  <2>1. IsFiniteSet(f.nodes[n].reads)
    BY <1>2 DEF IsFile, IsNode
  <2>2. R(n) \subseteq f.nodes[n].reads
    OBVIOUS
  <2>3. g[n] = {h[q] : q \in R(n)}
    OBVIOUS
  <2>4. \A q \in R(n) : Usual(h[q])
    <3>1. \A q : Client!QuerySignal(f, n, q).detector \in Reading
      BY DEF Client!QuerySignal, Client!Signal, Reading
    <3>2. \A d \in Reading : d \notin Apart \cup Certain \cup Sessional
                           /\ d \notin {"bearer.transmit", "client_storage.browser.client_secret", "oauth.flow.auth_code"}
      BY DEF Reading, Apart, Certain, Sessional
    <3>3. \A q : Client!QuerySignal(f, n, q).type # "OAuthAuthCodeFlow"
      BY DEF Client!QuerySignal, Client!Signal, Client!QueryType
    <3>. QED  BY <3>1, <3>2, <3>3 DEF Usual
  <2>. HIDE DEF g, h, R
  <2>5. IsFiniteSet(R(n))
    BY <2>1, <2>2, FS_Subset
  <2>6. IsFiniteSet({h[q] : q \in R(n)})
    BY <2>5, FiniteRange
  <2>. QED  BY <2>3, <2>4, <2>6 DEF Plain
<1>5. \A s \in UNION {g[n] : n \in N} : s.detector \in Reading
  <2>1. \A n, q : Client!QuerySignal(f, n, q).detector \in Reading
    BY DEF Client!QuerySignal, Client!Signal, Reading
  <2>. QED  BY <2>1
<1>. HIDE DEF g, N
<1>4. IsFiniteSet(N)
  BY <1>2, NodesAreFinite
<1>. QED  BY <1>1, <1>3, <1>4, <1>5, PlainOfNodes

LEMMA SignalArtifactIs ==
    ASSUME NEW f, NEW detector \in {"client.storage", "query_param.token"},
           NEW group, group # {}, \A s \in group : Usual(s),
           detector = "client.storage" \/ \A s \in group : s.detector \notin Stores
    PROVE  LET a == Client!SignalArtifact(f, detector, group)
           IN Shown(f, a) /\ a.cookie = NoAttributes /\ \A e \in a.evidence : e.detector \notin Apart
<1>. DEFINE a == Client!SignalArtifact(f, detector, group)
<1>1. /\ a.id[1] = f.path /\ a.cookie = NoAttributes /\ a.jwt = NoAttributes
      /\ a.evidence = {Client!SignalEvidence(f, detector, t) : t \in group}
  BY DEF Client!SignalArtifact, Client!Artifact, Client!NoAttributes, NoAttributes
<1>5. ~LikeFlow(a)
  <2>1. a.id[2] = detector /\ a.type = (CHOOSE t \in group : TRUE).type
    BY DEF Client!SignalArtifact, Client!Artifact
  <2>. QED  BY <2>1 DEF LikeFlow, Usual
<1>2. ASSUME NEW t \in group
      PROVE  LET e == Client!SignalEvidence(f, detector, t)
             IN Placed(f, e) /\ Sure(e) /\ e.detector \notin Apart /\ e.detector \notin Sessional \cup {"oauth.flow.auth_code"}
  <2>. DEFINE e == Client!SignalEvidence(f, detector, t)
  <2>1. /\ Placed(f, e) /\ e.detector = t.detector /\ ~e.default /\ (t.dynamic = FALSE => ~e.dynamic)
    BY DEF Client!SignalEvidence, Client!EvidenceAt, Placed
  <2>3. t.detector \in Stores => KnownById(e)
    <3>. SUFFICES ASSUME t.detector \in Stores PROVE KnownById(e)
      OBVIOUS
    <3>1. detector = "client.storage"
      BY <1>2
    <3>2. t.dynamic = FALSE \/ t.dynamic = TRUE
      BY <1>2 DEF Usual, Stores, Certain
    <3>3. t.dynamic = (t.detector = "client_storage.browser.client_secret")
      BY <1>2, <3>2 DEF Usual, Stores, Certain
    <3>4. e = StoreAt(f.path, t.detector, t.stage, t.line, t.name)
      BY <3>1, <3>3 DEF Client!SignalEvidence, Client!EvidenceAt, StoreAt, EvidenceAt
    <3>. QED  BY <2>1, <3>4 DEF KnownById
  <2>. HIDE DEF e
  <2>2. Sure(e) /\ e.detector \notin Apart /\ e.detector \notin Sessional \cup {"oauth.flow.auth_code"}
    BY <2>1, <2>3 DEF Sure, Firm, Usual
  <2>. QED  BY <2>1, <2>2 DEF e
<1>. HIDE DEF a
<1>3. a.evidence # {} /\ \A e \in a.evidence : Placed(f, e) /\ Sure(e) /\ e.detector \notin Apart
                                              /\ e.detector \notin Sessional \cup {"oauth.flow.auth_code"}
  BY <1>1, <1>2
<1>4. Shown(f, a)
  BY <1>1, <1>3, <1>5 DEF Shown
<1>. QED  BY <1>1, <1>3, <1>4 DEF a

LEMMA GroupsAreKnown ==
    ASSUME NEW f, IsFile(f), NEW groups, IsFiniteSet(groups),
           \A group \in groups : group # {} /\ \A s \in group : Usual(s),
           NEW detector \in {"client.storage", "query_param.token"},
           detector = "client.storage" \/ \A group \in groups : \A s \in group : s.detector \notin Stores,
           NEW line, line = Client!ByLine(f, groups),
           NEW t, DOMAIN t = DOMAIN line, t = [k \in DOMAIN line |-> t[k]],
           \A k \in DOMAIN line : t[k] = Client!SignalArtifact(f, detector, line[k])
    PROVE  Known(f, t, Apart)
<1>1. IsSequence(line) /\ Range1(line) \subseteq groups
  BY ClientByLine
<1>2. IsSequence(t) /\ Range1(t) = {t[k] : k \in DOMAIN line}
  BY <1>1, EachIsOne
<1>3. \A k \in DOMAIN line : line[k] # {} /\ line[k] \in groups /\ \A s \in line[k] : Usual(s)
  BY <1>1 DEF Range1
<1>4. \A k \in DOMAIN line : /\ Shown(f, t[k]) /\ t[k].cookie = NoAttributes
                             /\ \A e \in t[k].evidence : e.detector \notin Apart
  <2>. SUFFICES ASSUME NEW k \in DOMAIN line
                PROVE  /\ Shown(f, t[k]) /\ t[k].cookie = NoAttributes
                       /\ \A e \in t[k].evidence : e.detector \notin Apart
    OBVIOUS
  <2>1. detector = "client.storage" \/ \A s \in line[k] : s.detector \notin Stores
    BY <1>3
  <2>. DEFINE group == line[k]
  <2>2. t[k] = Client!SignalArtifact(f, detector, group)
    OBVIOUS
  <2>3. group # {} /\ \A s \in group : Usual(s)
    BY <1>3
  <2>. HIDE DEF group
  <2>4. detector = "client.storage" \/ \A s \in group : s.detector \notin Stores
    BY <2>1 DEF group
  <2>. DEFINE a == Client!SignalArtifact(f, detector, group)
  <2>5. Shown(f, a) /\ a.cookie = NoAttributes /\ \A e \in a.evidence : e.detector \notin Apart
    BY <2>3, <2>4, SignalArtifactIs, Zenon
  <2>6. t[k] = a
    BY <2>2
  <2>. HIDE DEF a
  <2>. QED  BY <2>5, <2>6
<1>. QED  BY <1>2, <1>4 DEF Known

LEMMA ClientArtifactsAreKnown ==
    ASSUME NEW f, IsFile(f)
    PROVE  Known(f, Client!StorageArtifacts(f), Apart) /\ Known(f, Client!QueryArtifacts(f), Apart)
<1>1. Known(f, Client!StorageArtifacts(f), Apart)
  <2>. DEFINE N == Client!Lines(f)
              signals == IF f.language = "js" THEN UNION {Client!StorageSignals(f, n) : n \in N} ELSE {}
              groups == {{s} : s \in signals}
              line == Client!ByLine(f, groups)
              t == [k \in DOMAIN line |-> Client!SignalArtifact(f, "client.storage", line[k])]
  <2>1. Client!StorageArtifacts(f) = t
    BY DEF Client!StorageArtifacts, Client!Each
  <2>2. /\ DOMAIN t = DOMAIN line /\ t = [k \in DOMAIN line |-> t[k]]
        /\ \A k \in DOMAIN line : t[k] = Client!SignalArtifact(f, "client.storage", line[k])
    OBVIOUS
  <2>3. Plain(signals)
    <3>. DEFINE g == [n \in N |-> Client!StorageSignals(f, n)]
                U == UNION {g[n] : n \in N}
    <3>1. \A n \in N : Plain(g[n])
      BY StorageIsPlain
    <3>2. N \in SUBSET (DOMAIN f.nodes)
      BY DEF Client!Lines, Client!Calls, Client!Nodes
    <3>3. signals = IF f.language = "js" THEN U ELSE {}
      OBVIOUS
    <3>. HIDE DEF g, N, signals
    <3>4. IsFiniteSet(N)
      BY <3>2, NodesAreFinite
    <3>5. Plain(U)
      BY <3>1, <3>4, PlainOfNodes
    <3>. HIDE DEF U
    <3>. QED  BY <3>3, <3>5, PlainOnes
  <2>4. IsFiniteSet(groups) /\ \A group \in groups : group # {} /\ \A s \in group : Usual(s)
    <3>. DEFINE h == [s \in signals |-> {s}]
    <3>1. groups = {h[s] : s \in signals}
      OBVIOUS
    <3>2. \A group \in groups : group # {} /\ group \subseteq signals
      OBVIOUS
    <3>. HIDE DEF h, groups, signals
    <3>3. IsFiniteSet({h[s] : s \in signals})
      BY <2>3, FiniteRange DEF Plain
    <3>. QED  BY <2>3, <3>1, <3>2, <3>3 DEF Plain
  <2>. HIDE DEF t, groups
  <2>5. Known(f, t, Apart)
    BY <2>2, <2>4, GroupsAreKnown
  <2>. QED  BY <2>1, <2>5
<1>2. Known(f, Client!QueryArtifacts(f), Apart)
  <2>. DEFINE signals == Client!QuerySignals(f)
              of(s) == {x \in signals : x.type = s.type /\ x.name = s.name}
              groups == {of(s) : s \in signals}
              line == Client!ByLine(f, groups)
              t == [k \in DOMAIN line |-> Client!SignalArtifact(f, "query_param.token", line[k])]
  <2>1. Client!QueryArtifacts(f) = t
    BY DEF Client!QueryArtifacts, Client!Each, Client!SignalGroups
  <2>2. /\ DOMAIN t = DOMAIN line /\ t = [k \in DOMAIN line |-> t[k]]
        /\ \A k \in DOMAIN line : t[k] = Client!SignalArtifact(f, "query_param.token", line[k])
    OBVIOUS
  <2>3. Plain(signals) /\ \A s \in signals : s.detector \in Reading
    BY QueryIsPlain
  <2>6. \A group \in groups : \A s \in group : s.detector \notin Stores
    <3>1. \A group \in groups : group \subseteq signals
      OBVIOUS
    <3>2. \A d \in Reading : d \notin Stores
      BY DEF Reading, Stores
    <3>. QED  BY <2>3, <3>1, <3>2
  <2>4. IsFiniteSet(groups) /\ \A group \in groups : group # {} /\ \A s \in group : Usual(s)
    <3>. DEFINE h == [s \in signals |-> of(s)]
    <3>1. groups = {h[s] : s \in signals}
      OBVIOUS
    <3>2. \A group \in groups : group # {} /\ group \subseteq signals
      OBVIOUS
    <3>. HIDE DEF h, groups, signals
    <3>3. IsFiniteSet({h[s] : s \in signals})
      BY <2>3, FiniteRange DEF Plain
    <3>. QED  BY <2>3, <3>1, <3>2, <3>3 DEF Plain
  <2>. HIDE DEF t, groups
  <2>5. Known(f, t, Apart)
    BY <2>2, <2>4, <2>6, GroupsAreKnown
  <2>. QED  BY <2>1, <2>5
<1>. QED  BY <1>1, <1>2

-----------------------------------------------------------------------------
(* Flows, reset tokens, sessions and refresh tokens.                        *)

LEMMA FlowArtifactsAreKnown ==
    ASSUME NEW f, IsFile(f), Program(f)
    PROVE  /\ Known(f, OAuth!OAuthArtifacts(f), Apart)
           /\ \A n \in OAuth!FlowLines(f) : OAuth!FlowArtifact(f, n) \in Range1(OAuth!OAuthArtifacts(f))
<1>. DEFINE ss == [n \in DOMAIN f.nodes |-> IF n \in OAuth!FlowLines(f) THEN <<OAuth!FlowArtifact(f, n)>> ELSE <<>>]
<1>1. OAuth!OAuthArtifacts(f) = FlattenSeq(ss)
  BY DEF OAuth!OAuthArtifacts, OAuth!FlattenSeq, FlattenSeq
<1>. DEFINE Good(a) == Shown(f, a) /\ a.cookie = NoAttributes /\ \A e \in a.evidence : e.detector \notin Apart
<1>2. ASSUME NEW n \in OAuth!FlowLines(f) PROVE Good(OAuth!FlowArtifact(f, n))
  <2>1. \A T : \A signal \in OAuth!LineSignals(T) :
           signal[1] = "oauth.flow.auth_code" \/ signal[1] \notin Foreign
    BY DEF OAuth!LineSignals, OAuth!StateSignal, Foreign, Alien, Sessional
  <2>7. \A e : e.detector = "oauth.flow.auth_code" => e.detector \notin Apart \cup Sessional /\ Sure(e)
    BY DEF Apart, Sure, Certain, Reading, Stores, Sessional
  <2>2. ASSUME NEW m, NEW T, NEW signal \in OAuth!LineSignals(T)
        PROVE  LET e == OAuth!FlowEvidence(f, n, m, signal)
               IN Placed(f, e) /\ e.detector \notin Apart \cup Sessional /\ Sure(e)
    <3>. DEFINE e == OAuth!FlowEvidence(f, n, m, signal)
    <3>1. e.detector = signal[1]
      BY DEF OAuth!FlowEvidence, OAuth!EvidenceAt
    <3>2. Placed(f, e)
      BY <2>1 DEF OAuth!FlowEvidence, OAuth!EvidenceAt, Placed, Foreign, Alien, Sessional
    <3>. HIDE DEF e
    <3>3. e.detector \notin Apart \cup Sessional /\ Sure(e)
      BY <2>1, <2>7, <3>1, AlienIs DEF Foreign
    <3>. QED  BY <3>2, <3>3 DEF e
  <2>3. ASSUME NEW e \in OAuth!FlowArtifact(f, n).evidence
        PROVE  \E m, T : \E signal \in OAuth!LineSignals(T) : e = OAuth!FlowEvidence(f, n, m, signal)
    BY DEF OAuth!FlowArtifact, OAuth!Artifact
  <2>4. /\ OAuth!FlowArtifact(f, n).id[1] = f.path
        /\ OAuth!FlowArtifact(f, n).cookie = NoAttributes /\ OAuth!FlowArtifact(f, n).jwt = NoAttributes
    BY DEF OAuth!FlowArtifact, OAuth!Artifact, OAuth!NoAttributes, NoAttributes
  <2>5. OAuth!FlowArtifact(f, n).evidence # {}
    <3>. DEFINE own == <<"oauth.flow.auth_code", "issue", "present">>
                L(m) == OAuth!LineSignals(OAuth!OwnText(f.nodes[m]))
                near == {p \in UNION {{m} \X L(m) : m \in DOMAIN f.nodes} : OAuth!OfFlow(f, n, p[1], p[2])}
    <3>1. n \in DOMAIN f.nodes /\ OAuth!IsFlow(OAuth!OwnText(f.nodes[n]))
      BY DEF OAuth!FlowLines
    <3>2. own \in L(n)
      <4>1. ASSUME NEW T, OAuth!IsFlow(T) PROVE own \in OAuth!LineSignals(T)
        BY <4>1, Zenon DEF OAuth!LineSignals
      <4>. QED  BY <3>1, <4>1
    <3>3. OAuth!OfFlow(f, n, n, own)
      BY DEF OAuth!OfFlow
    <3>4. OAuth!FlowArtifact(f, n).evidence = {OAuth!FlowEvidence(f, n, p[1], p[2]) : p \in near}
      BY DEF OAuth!FlowArtifact, OAuth!Artifact
    <3>. HIDE DEF L, own
    <3>5. <<n, own>> \in near
      BY <3>1, <3>2, <3>3
    <3>. HIDE DEF near
    <3>. QED  BY <3>4, <3>5
  <2>6. FlowIn(f, OAuth!FlowArtifact(f, n))
    BY DEF FlowIn
  <2>. QED  BY <2>2, <2>3, <2>4, <2>5, <2>6 DEF Shown
<1>. HIDE DEF Good
<1>3. IsSequence(ss) /\ DOMAIN ss = 1..Len(ss)
  <2>1. IsSequence(f.nodes)
    BY DEF IsFile
  <2>. QED  BY <2>1, IndexedIsOne, SequenceForm
<1>4. \A n \in DOMAIN ss : (n \in OAuth!FlowLines(f) /\ ss[n] = <<OAuth!FlowArtifact(f, n)>>) \/ ss[n] = <<>>
  OBVIOUS
<1>9. \A n \in OAuth!FlowLines(f) : n \in DOMAIN ss /\ ss[n] = <<OAuth!FlowArtifact(f, n)>>
  BY DEF OAuth!FlowLines
<1>. HIDE DEF ss
<1>5. \A n \in DOMAIN ss : IsSequence(ss[n]) /\ \A a \in Range1(ss[n]) : Good(a)
  BY <1>2, <1>4, SingleIsOne, EmptyIsOne
<1>6. IsSequences(ss)
  BY <1>3, <1>5 DEF IsSequences
<1>7. IsSequence(FlattenSeq(ss)) /\ Range1(FlattenSeq(ss)) = UNION {Range1(ss[k]) : k \in DOMAIN ss}
  BY <1>6, FlattenIsOne
<1>8. \A a \in Range1(FlattenSeq(ss)) : Good(a)
  BY <1>5, <1>7
<1>10. ASSUME NEW n \in OAuth!FlowLines(f) PROVE OAuth!FlowArtifact(f, n) \in Range1(FlattenSeq(ss))
  <2>. DEFINE a == OAuth!FlowArtifact(f, n)
  <2>1. n \in DOMAIN ss /\ ss[n] = <<a>>
    BY <1>9
  <2>. HIDE DEF a
  <2>2. a \in Range1(ss[n])
    BY <2>1, SingleIsOne
  <2>. QED  BY <1>7, <2>1, <2>2 DEF a
<1>. QED  BY <1>1, <1>7, <1>8, <1>10 DEF Known, Good

LEMMA ResetArtifactsAreKnown ==
    ASSUME NEW f
    PROVE  Known(f, Reset!ResetArtifacts(f), Apart)
<1>. DEFINE of(family) == IF Reset!FirstLineOf(f, family.terms) = 0 THEN <<>> ELSE <<Reset!ResetArtifact(f, family)>>
            ss == [k \in DOMAIN Reset!Families |-> of(Reset!Families[k])]
<1>1. Reset!ResetArtifacts(f) = FlattenSeq(ss)
  BY DEF Reset!ResetArtifacts, Reset!Each, Reset!FlattenSeq, FlattenSeq
<1>2. ASSUME NEW k \in {1, 2}, Reset!FirstLineOf(f, Reset!Families[k].terms) # 0
      PROVE  Common(f, Reset!ResetArtifact(f, Reset!Families[k]))
  <2>. DEFINE family == Reset!Families[k]
  <2>1. \A s \in {"issue", "expire", "revoke"} : family.detectors[s] \notin Foreign
    BY DEF Reset!Families, Foreign, Alien, Sessional
  <2>. HIDE DEF family
  <2>2. ASSUME NEW e \in Reset!ResetArtifact(f, family).evidence
        PROVE  \E s \in {"issue", "expire", "revoke"} : \E line :
                  e = Reset!EvidenceAt(f, family.detectors[s], <<s>>, line, family.name, s, "present", {})
    BY DEF Reset!ResetArtifact, Reset!ResetEvidence, Reset!Artifact
  <2>3. /\ Reset!ResetArtifact(f, family).id[1] = f.path
        /\ Reset!ResetArtifact(f, family).cookie = NoAttributes /\ Reset!ResetArtifact(f, family).jwt = NoAttributes
        /\ Reset!ResetArtifact(f, family).evidence = Reset!ResetEvidence(f, family)
    BY DEF Reset!ResetArtifact, Reset!Artifact, Reset!NoAttributes, NoAttributes
  <2>4. Reset!EvidenceAt(f, family.detectors["issue"], <<"issue">>, Reset!FirstLineOf(f, family.terms), family.name,
                         "issue", "present", {}) \in Reset!ResetEvidence(f, family)
    <3>1. Reset!FirstLineOf(f, family.terms) # 0
      BY <1>2 DEF family
    <3>. QED  BY <3>1 DEF Reset!ResetEvidence
  <2>7. ~LikeFlow(Reset!ResetArtifact(f, family))
    <3>1. family.type # "OAuthAuthCodeFlow"
      BY DEF family, Reset!Families
    <3>. QED  BY <3>1 DEF LikeFlow, Reset!ResetArtifact, Reset!Artifact
  <2>5. \A e \in Reset!ResetArtifact(f, family).evidence : Placed(f, e) /\ e.detector \notin Foreign
    BY <2>1, <2>2 DEF Reset!EvidenceAt, Placed
  <2>6. Reset!ResetArtifact(f, family).evidence # {}
    BY <2>3, <2>4
  <2>. QED  BY <2>3, <2>5, <2>6, <2>7 DEF Common, family, Foreign
<1>3. DOMAIN Reset!Families = 1..2
  BY DEF Reset!Families
<1>4. IsSequence(ss) /\ DOMAIN ss = 1..2 /\ Len(ss) = 2
  <2>1. ss = [k \in 1..2 |-> ss[k]]
    BY <1>3
  <2>. HIDE DEF ss
  <2>. QED  BY <2>1, GivenIsOne
<1>5. \A k \in {1, 2} : \/ ss[k] = <<>>
                         \/ /\ Reset!FirstLineOf(f, Reset!Families[k].terms) # 0
                            /\ ss[k] = <<Reset!ResetArtifact(f, Reset!Families[k])>>
  BY <1>3
<1>. HIDE DEF ss
<1>6. ASSUME NEW k \in DOMAIN ss PROVE IsSequence(ss[k]) /\ \A a \in Range1(ss[k]) : Common(f, a)
  <2>. DEFINE art == Reset!ResetArtifact(f, Reset!Families[k])
  <2>1. k \in {1, 2}
    BY <1>4
  <2>2. ss[k] = <<>> \/ (Common(f, art) /\ ss[k] = <<art>>)
    BY <1>2, <1>5, <2>1
  <2>. HIDE DEF art
  <2>. QED  BY <2>2, SingleIsOne, EmptyIsOne
<1>7. IsSequences(ss)
  BY <1>4, <1>6 DEF IsSequences
<1>8. IsSequence(FlattenSeq(ss)) /\ Range1(FlattenSeq(ss)) = UNION {Range1(ss[k]) : k \in DOMAIN ss}
  BY <1>7, FlattenIsOne
<1>9. \A a \in Range1(FlattenSeq(ss)) : Common(f, a)
  BY <1>6, <1>8
<1>. QED  BY <1>1, <1>8, <1>9, CommonIsKnown

\* Signals of no alien detector, about anything but flows, one after the other; they
\* are at line n, and those of the session are in one of the scopes Z, but for those of
\* an export, which are in none.
Local(n, Z, t) ==
    /\ {"detector", "type", "line", "scope", "column"} \subseteq DOMAIN t
    /\ t.line = n /\ t.detector \notin Alien /\ t.type # "OAuthAuthCodeFlow"
    /\ t.detector \in Sessional => \E z \in Z : t.scope = IF t.column = 1 THEN 0 ELSE z
Signals(n, Z, s) == IsSequence(s) /\ \A t \in Range1(s) : Local(n, Z, t)

LEMMA SignalsTogether ==
    ASSUME NEW n, NEW Z
    PROVE  /\ Signals(n, Z, <<>>)
           /\ \A t : Local(n, Z, t) => Signals(n, Z, <<t>>)
           /\ \A s, t : Signals(n, Z, s) /\ Signals(n, Z, t) => Signals(n, Z, s \o t)
<1>1. Signals(n, Z, <<>>)
  BY EmptyIsOne DEF Signals
<1>2. ASSUME NEW t, Local(n, Z, t) PROVE Signals(n, Z, <<t>>)
  <2>1. IsSequence(<<t>>) /\ Range1(<<t>>) = {t}
    BY SingleIsOne
  <2>. QED  BY <1>2, <2>1 DEF Signals
<1>3. \A s, t : Signals(n, Z, s) /\ Signals(n, Z, t) => Signals(n, Z, s \o t)
  BY ConcatIsOne DEF Signals
<1>. QED  BY <1>1, <1>2, <1>3

\* The signals that a call makes are those of its steps up to the first return.
UpToFirst(steps, s) ==
    \E k \in DOMAIN steps : /\ s \in Range1(steps[k][1])
                            /\ ~\E j \in 1..(k - 1) : steps[j][2] /\ steps[j][1] # <<>>

LEMMA UpToIs ==
    ASSUME NEW n \in Nat, NEW steps, DOMAIN steps = 1..n, steps = [k \in 1..n |-> steps[k]],
           \A k \in 1..n : IsSequence(steps[k][1])
    PROVE  /\ IsSequence(Session!UpTo(steps))
           /\ \A s : s \in Range1(Session!UpTo(steps)) <=> UpToFirst(steps, s)
<1>. DEFINE returns(i) == steps[i][2] /\ steps[i][1] # <<>>
            I == {i \in 1..Len(steps) : returns(i)}
            last == IF I # {} THEN Session!Min(I) ELSE 0
            m == IF last = 0 THEN Len(steps) ELSE last
            ss == [k \in 1..m |-> steps[k][1]]
<1>1. Session!UpTo(steps) = FlattenSeq(ss)
  BY DEF Session!UpTo, Session!SelectInSeq, Session!FlattenSeq, FlattenSeq
<1>2. Len(steps) = n
  BY IsOne
<1>3. /\ m \in 0..n
      /\ \A k \in 1..n : k \in 1..m <=> ~\E j \in 1..(k - 1) : returns(j)
  <2>1. I \in SUBSET Nat /\ I \subseteq 1..n /\ \A j \in 1..n : j \in I <=> returns(j)
    BY <1>2
  <2>. HIDE DEF I, returns
  <2>2. I # {} => Session!Min(I) \in I /\ \A j \in I : Session!Min(I) <= j
    BY <2>1, LeastNat DEF Session!Min
  <2>3. CASE I = {}
    BY <1>2, <2>1, <2>3
  <2>4. CASE I # {}
    <3>. DEFINE x == Session!Min(I)
    <3>1. x \in I /\ x \in 1..n /\ \A j \in I : x <= j
      BY <2>1, <2>2, <2>4
    <3>2. m = x
      BY <2>4, <3>1
    <3>. HIDE DEF x, m
    <3>. QED  BY <2>1, <3>1, <3>2
  <2>. QED  BY <2>3, <2>4
<1>. HIDE DEF m
<1>4. m \in Nat /\ ss = [k \in 1..m |-> ss[k]] /\ \A k \in 1..m : ss[k] = steps[k][1] /\ k \in 1..n
  BY <1>3
<1>. HIDE DEF ss
<1>5. IsSequence(ss) /\ DOMAIN ss = 1..m /\ Len(ss) = m
  BY <1>4, GivenIsOne
<1>7. IsSequences(ss)
  BY <1>4, <1>5 DEF IsSequences
<1>8. IsSequence(FlattenSeq(ss)) /\ Range1(FlattenSeq(ss)) = UNION {Range1(ss[k]) : k \in DOMAIN ss}
  BY <1>7, FlattenIsOne
<1>9. ASSUME NEW s PROVE s \in Range1(FlattenSeq(ss)) <=> UpToFirst(steps, s)
  <2>4. s \in Range1(FlattenSeq(ss)) <=> \E k \in 1..m : s \in Range1(ss[k])
    BY <1>5, <1>8
  <2>1. s \in Range1(FlattenSeq(ss)) <=> \E k \in 1..m : s \in Range1(steps[k][1])
    BY <1>4, <2>4
  <2>2. UpToFirst(steps, s) <=> \E k \in 1..n : s \in Range1(steps[k][1]) /\ ~\E j \in 1..(k - 1) : returns(j)
    BY DEF UpToFirst
  <2>. HIDE DEF returns
  <2>3. \A k \in 1..m : k \in 1..n
    BY <1>3
  <2>. QED  BY <1>3, <2>1, <2>2, <2>3
<1>. QED  BY <1>1, <1>8, <1>9

LEMMA StepsUpTo ==
    ASSUME NEW n \in Nat, NEW steps, DOMAIN steps = 1..n, steps = [k \in 1..n |-> steps[k]],
           NEW line, NEW Z, \A k \in 1..n : Signals(line, Z, steps[k][1])
    PROVE  Signals(line, Z, Session!UpTo(steps))
<1>1. \A k \in 1..n : IsSequence(steps[k][1])
  BY DEF Signals
<1>. QED  BY <1>1, UpToIs DEF Signals, UpToFirst

\* The signals that the session and the refresh token detector make.
LEMMA SessionMakes ==
    /\ \A detector, stage, type, name, n, state, Z :
          detector \notin Foreign /\ type # "OAuthAuthCodeFlow" =>
             /\ Signals(n, Z, Session!SignalOf(detector, stage, type, name, n, state))
             /\ Signals(n, Z, Refresh!SignalOf(detector, stage, type, name, n, state))
    /\ \A detector, stage, n, scope, state :
          detector \notin Alien => Signals(n, {scope}, Session!Fixation(detector, stage, n, scope, state))
    /\ \A detector, type, name, n, state, Z :
          detector \notin Foreign /\ type # "OAuthAuthCodeFlow"
          => Signals(n, Z, Session!Revokes(detector, type, name, n, state))
    /\ \A n, Z, is, signals : Signals(n, Z, signals) =>
          Signals(n, Z, Session!When(is, signals)) /\ Signals(n, Z, Refresh!When(is, signals))
<1>1. ASSUME NEW detector, NEW stage, NEW type, NEW name, NEW n, NEW state, NEW Z, detector \notin Foreign,
             type # "OAuthAuthCodeFlow"
      PROVE  /\ Signals(n, Z, Session!SignalOf(detector, stage, type, name, n, state))
             /\ Signals(n, Z, Refresh!SignalOf(detector, stage, type, name, n, state))
  <2>. DEFINE t == [detector |-> detector, stage |-> stage, type |-> type, name |-> name, line |-> n,
                    state |-> state, scope |-> 0, column |-> 2]
  <2>1. Local(n, Z, t)
    BY <1>1 DEF Local, Foreign
  <2>2. Session!SignalOf(detector, stage, type, name, n, state) = <<t>>
        /\ Refresh!SignalOf(detector, stage, type, name, n, state) = <<t>>
    BY DEF Session!SignalOf, Refresh!SignalOf
  <2>. HIDE DEF t
  <2>. QED  BY <2>1, <2>2, SignalsTogether
<1>2. ASSUME NEW detector, detector \notin Alien, NEW stage, NEW n, NEW scope, NEW state
      PROVE  Signals(n, {scope}, Session!Fixation(detector, stage, n, scope, state))
  <2>. DEFINE s == Session!SignalOf(detector, stage, "SessionRecord", "session", n, state)[1]
              t == [s EXCEPT !.scope = scope]
  <2>1. /\ {"detector", "type", "line", "scope", "column"} \subseteq DOMAIN t /\ t.line = n
        /\ t.detector = detector /\ t.type = "SessionRecord" /\ t.column = 2 /\ t.scope = scope
    BY DEF Session!SignalOf
  <2>2. Session!Fixation(detector, stage, n, scope, state) = <<t>>
    BY DEF Session!Fixation
  <2>. HIDE DEF t
  <2>3. Local(n, {scope}, t)
    BY <1>2, <2>1 DEF Local
  <2>. QED  BY <2>2, <2>3, SignalsTogether
<1>3. \A detector, type, name, n, state, Z :
          detector \notin Foreign /\ type # "OAuthAuthCodeFlow"
          => Signals(n, Z, Session!Revokes(detector, type, name, n, state))
  BY <1>1 DEF Session!Revokes
<1>4. \A n, Z, is, signals : Signals(n, Z, signals) =>
          Signals(n, Z, Session!When(is, signals)) /\ Signals(n, Z, Refresh!When(is, signals))
  BY SignalsTogether DEF Session!When, Refresh!When
<1>. QED  BY <1>1, <1>2, <1>3, <1>4

LEMMA SignalsMoved ==
    ASSUME NEW n, NEW Z, NEW s, Signals(n, IF Z = {} THEN {} ELSE {0}, s),
           NEW t, DOMAIN t = DOMAIN s, t = [k \in DOMAIN s |-> t[k]],
           \A k \in DOMAIN s : t[k] = [s[k] EXCEPT !.column = 1]
    PROVE  Signals(n, Z, t)
<1>1. IsSequence(t) /\ Range1(t) = {t[k] : k \in DOMAIN s}
  BY EachIsOne DEF Signals
<1>2. \A k \in DOMAIN s : Local(n, IF Z = {} THEN {} ELSE {0}, s[k])
  BY DEF Signals, Range1
<1>3. ASSUME NEW x, NEW y, y = [x EXCEPT !.column = 1], Local(n, IF Z = {} THEN {} ELSE {0}, x)
      PROVE  Local(n, Z, y)
  <2>1. /\ DOMAIN y = DOMAIN x /\ y.detector = x.detector /\ y.type = x.type /\ y.line = x.line
        /\ y.scope = x.scope /\ y.column = 1
    BY <1>3 DEF Local
  <2>2. x.detector \in Sessional => Z # {} /\ x.scope = 0
    BY <1>3 DEF Local
  <2>. QED  BY <1>3, <2>1, <2>2 DEF Local
<1>4. \A k \in DOMAIN s : Local(n, Z, t[k])
  BY <1>2, <1>3
<1>. QED  BY <1>1, <1>4 DEF Signals

LEMMA HandlersSignal ==
    ASSUME NEW n, NEW scope, NEW logout, NEW W, NEW state
    PROVE  Signals(n, {scope}, Session!HandlerSignals(n, scope, logout, W, state))
<1>1. /\ Signals(n, {scope}, Session!Revokes("logout.handler", "Unknown", "logout", n, state))
      /\ Signals(n, {scope}, Session!Revokes("password_change.handler", "Unknown", "password_change", n, state))
      /\ Signals(n, {scope}, Session!Fixation("session.auth_transition", "issue", n, scope, state))
      /\ Signals(n, {scope}, Session!Fixation("session.privilege_transition", "issue", n, scope, state))
  BY SessionMakes DEF Foreign, Alien, Sessional
<1>2. Session!HandlerSignals(n, scope, logout, W, state) \in
        {Session!Revokes("logout.handler", "Unknown", "logout", n, state),
         Session!Revokes("password_change.handler", "Unknown", "password_change", n, state),
         Session!Fixation("session.auth_transition", "issue", n, scope, state),
         Session!Fixation("session.privilege_transition", "issue", n, scope, state), <<>>}
  BY DEF Session!HandlerSignals
<1>. QED  BY <1>1, <1>2, SignalsTogether

LEMMA FunctionsSignal ==
    ASSUME NEW f, NEW n, NEW z, z = Session!HandlerScope(f, n)
    PROVE  /\ Signals(n, {z}, Session!ExportSignals(f, n)) /\ Signals(n, {z}, Session!JsFunctionSignals(f, n))
           /\ Signals(n, {z}, Session!PythonFunctionSignals(f, n))
<1>1. Signals(n, {z}, Session!JsFunctionSignals(f, n)) /\ Signals(n, {z}, Session!PythonFunctionSignals(f, n))
  BY HandlersSignal, SessionMakes DEF Session!JsFunctionSignals, Session!PythonFunctionSignals
<1>2. Signals(n, {z}, Session!ExportSignals(f, n))
  <2>. DEFINE C == f.nodes[n].says \cup Session!CodeOf(f, n)
              A == Session!When("DELETE" \in f.nodes[n].says, Session!HandlerSignals(n, 0, TRUE, C, "dynamic"))
              B == Session!HandlerSignals(n, 0, FALSE, C, "dynamic")
              all == A \o B
              t == [k \in DOMAIN all |-> [all[k] EXCEPT !.column = 1]]
  <2>1. Session!ExportSignals(f, n) = Session!When(f.nodes[n].exported, t)
    BY DEF Session!ExportSignals, Session!Each
  <2>2. Signals(n, {0}, A) /\ Signals(n, {0}, B)
    BY HandlersSignal, SessionMakes
  <2>. HIDE DEF A, B
  <2>3. Signals(n, {0}, all)
    BY <2>2, SignalsTogether
  <2>. HIDE DEF all
  <2>4. DOMAIN t = DOMAIN all /\ t = [k \in DOMAIN all |-> t[k]]
        /\ \A k \in DOMAIN all : t[k] = [all[k] EXCEPT !.column = 1]
    OBVIOUS
  <2>. HIDE DEF t
  <2>5. Signals(n, {z}, t)
    <3>1. Signals(n, IF {z} = {} THEN {} ELSE {0}, all)
      BY <2>3
    <3>. QED  BY <2>4, <3>1, SignalsMoved
  <2>. QED  BY <2>1, <2>5, SessionMakes
<1>. QED  BY <1>1, <1>2

LEMMA StepsSignal ==
    /\ \A is, detector, n, Z : detector \notin Foreign => Signals(n, Z, Session!ConfigStep(is, detector, n)[1])
    /\ \A is, detector, stage, n, scope, state :
          detector \notin Alien => Signals(n, {scope}, Session!FixationStep(is, detector, stage, n, scope, state)[1])
    /\ \A n, Z, is, signals, return : Signals(n, Z, signals) => Signals(n, Z, Session!RevokeStep(is, signals, return)[1])
    /\ \A detector, n, Z : detector \notin Foreign => Signals(n, Z, Session!SessionRevoke(detector, n))
    /\ \A detector, C, n, Z : detector \notin Foreign => Signals(n, Z, Session!RevokesToken(detector, C, n))
    /\ \A s, n, Z : Signals(n, Z, Session!ClearSignal(s, n))
<1>1. \A is, detector, n, Z : detector \notin Foreign => Signals(n, Z, Session!ConfigStep(is, detector, n)[1])
  BY SessionMakes DEF Session!ConfigStep
<1>2. \A is, detector, stage, n, scope, state :
          detector \notin Alien => Signals(n, {scope}, Session!FixationStep(is, detector, stage, n, scope, state)[1])
  BY SessionMakes DEF Session!FixationStep
<1>3. \A n, Z, is, signals, return : Signals(n, Z, signals) => Signals(n, Z, Session!RevokeStep(is, signals, return)[1])
  BY SessionMakes DEF Session!RevokeStep
<1>4. \A detector, n, Z : detector \notin Foreign => Signals(n, Z, Session!SessionRevoke(detector, n))
  BY SessionMakes DEF Session!SessionRevoke
<1>5. \A detector, C, n, Z : detector \notin Foreign => Signals(n, Z, Session!RevokesToken(detector, C, n))
  <2>1. \A name : Session!TokenType(name) # "OAuthAuthCodeFlow"
    BY DEF Session!TokenType
  <2>. QED  BY <2>1, SessionMakes DEF Session!RevokesToken
<1>6. ASSUME NEW s, NEW n, NEW Z PROVE Signals(n, Z, Session!ClearSignal(s, n))
  <2>1. \A type, name, state : type # "OAuthAuthCodeFlow" =>
           Signals(n, Z, Session!Revokes("logout.cookie_clear", type, name, n, state))
    BY SessionMakes DEF Foreign, Alien, Sessional
  <2>. DEFINE type == Session!ClearedType(Session!ClearedName(s))
              name == Session!ClearedName(s)
              state == IF s.key = "" THEN "dynamic" ELSE "present"
  <2>2. Session!ClearSignal(s, n) = Session!Revokes("logout.cookie_clear", type, name, n, state)
    BY Zenon DEF Session!ClearSignal
  <2>3. type # "OAuthAuthCodeFlow"
    BY DEF Session!ClearedType
  <2>. HIDE DEF type, name, state
  <2>. QED  BY <2>1, <2>2, <2>3
<1>. QED  BY <1>1, <1>2, <1>3, <1>4, <1>5, <1>6

\* A step that stores the user decides nothing of the other steps.
Alike(steps, other, n, j) ==
    /\ n \in Nat /\ j \in 1..n
    /\ DOMAIN steps = 1..n /\ steps = [k \in 1..n |-> steps[k]]
    /\ DOMAIN other = 1..n /\ other = [k \in 1..n |-> other[k]]
    /\ \A k \in 1..n : IsSequence(steps[k][1]) /\ IsSequence(other[k][1]) /\ (k # j => other[k] = steps[k])

LEMMA StoreStep ==
    ASSUME NEW n, NEW j, NEW steps, NEW other, Alike(steps, other, n, j),
           ~steps[j][2], ~other[j][2], NEW x \in Range1(Session!UpTo(steps)), x \notin Range1(steps[j][1])
    PROVE  x \in Range1(Session!UpTo(other))
<1>0. /\ n \in Nat /\ j \in 1..n
      /\ DOMAIN steps = 1..n /\ steps = [k \in 1..n |-> steps[k]]
      /\ DOMAIN other = 1..n /\ other = [k \in 1..n |-> other[k]]
      /\ \A k \in 1..n : IsSequence(steps[k][1]) /\ IsSequence(other[k][1]) /\ (k # j => other[k] = steps[k])
  BY DEF Alike
<1>1. UpToFirst(steps, x)
  BY <1>0, UpToIs
<1>2. UpToFirst(other, x)
  <2>1. PICK k \in 1..n : x \in Range1(steps[k][1]) /\ ~\E i \in 1..(k - 1) : steps[i][2] /\ steps[i][1] # <<>>
    BY <1>0, <1>1 DEF UpToFirst
  <2>2. k # j /\ x \in Range1(other[k][1])
    BY <1>0, <2>1
  <2>3. \A i \in 1..(k - 1) : i \in 1..n
    BY <1>0, <2>1
  <2>4. ASSUME NEW i \in 1..(k - 1), other[i][2], other[i][1] # <<>> PROVE FALSE
    <3>1. i \in 1..n
      BY <2>3
    <3>2. i # j
      BY <2>4
    <3>3. other[i] = steps[i]
      BY <1>0, <3>1, <3>2
    <3>. QED  BY <2>1, <2>4, <3>3
  <2>. QED  BY <1>0, <2>2, <2>4 DEF UpToFirst
<1>. QED  BY <1>0, <1>2, UpToIs

LEMMA StoreSignals ==
    ASSUME NEW is, NEW n, NEW scope, NEW state
    PROVE  LET step == Session!FixationStep(is, "session.store_after_auth", "store", n, scope, state)
           IN ~step[2] /\ \A x \in Range1(step[1]) : x.detector = "session.store_after_auth"
<1>. DEFINE signals == Session!Fixation("session.store_after_auth", "store", n, scope, state)
            step == Session!FixationStep(is, "session.store_after_auth", "store", n, scope, state)
            x == signals[1]
<1>1. signals = <<x>> /\ x.detector = "session.store_after_auth"
  BY DEF Session!Fixation, Session!SignalOf
<1>2. step[1] = (IF is THEN signals ELSE <<>>) /\ ~step[2]
  BY DEF Session!FixationStep, Session!When
<1>. HIDE DEF signals, x, step
<1>3. Range1(<<x>>) = {x} /\ Range1(<<>>) = {}
  BY SingleIsOne, EmptyIsOne
<1>. QED  BY <1>1, <1>2, <1>3 DEF step

LEMMA JsCallsSignal ==
    ASSUME NEW n, NEW s, NEW A, NEW scope, NEW inTransition
    PROVE  /\ Signals(n, {scope}, Session!JsCallSignals(n, s, A, scope, inTransition))
           /\ \A other : \A x \in Range1(Session!JsCallSignals(n, s, A, scope, inTransition)) :
                 x.detector \in Sessional => x \in Range1(Session!JsCallSignals(n, s, A, scope, other))
<1>. DEFINE C == s.code
            T == s.text
            privilegeRoute == Session!RouteCall(T) /\ Session!Privilege(T)
            s1 == Session!ConfigStep(Session!ProviderConfigCall(C), "session.provider_config", n)
            s2 == Session!ConfigStep(Session!Middleware(s, C), "session.middleware", n)
            s3 == Session!FixationStep((Session!RouteCall(T) /\ Session!AuthTransition(T))
                      \/ (Session!CookieStore(s) /\ "cookies()" \in T /\ Session!AuthTransition(A)),
                      "session.auth_transition", "issue", n, scope, "present")
            s4 == Session!FixationStep(privilegeRoute \/ Session!PrivilegeCall(C), "session.privilege_transition",
                      "issue", n, scope, IF privilegeRoute THEN "present" ELSE "dynamic")
            s5 == Session!FixationStep(Session!JsRegenerate(C), "session.regenerate", "refresh", n, scope, "present")
            s6 == Session!FixationStep(Session!JsReissue(A), "session.reissue", "refresh", n, scope, "dynamic")
            s7(in) == Session!FixationStep((Session!CookieStore(s) /\ (in \/ Session!Transition(T)))
                      \/ (Session!JsMutation(T) /\ in),
                      "session.store_after_auth", "store", n, scope, "present")
            s8 == Session!RevokeStep(Session!Says(T, {"app.post", "router.post"}) /\ "logout" \in T,
                    Session!Revokes("logout.handler", "Unknown", "logout", n, "present"), FALSE)
            s9 == Session!RevokeStep(Session!JsClearCookie(s), Session!ClearSignal(s, n), TRUE)
            s10 == Session!RevokeStep(Session!JsDestroy(C), Session!SessionRevoke("logout.session_destroy", n), TRUE)
            s11 == Session!RevokeStep(Session!GlobalRevoke(C), Session!SessionRevoke("password_change.global_revoke", n),
                                      FALSE)
            s12 == Session!RevokeStep(Session!ProviderRevoke(C),
                                      Session!RevokesToken("logout.provider_revoke", C, n), TRUE)
            s13 == Session!RevokeStep(Session!TokenRevoke(C), Session!RevokesToken("logout.token_revoke", C, n), FALSE)
            steps(in) == <<s1, s2, s3, s4, s5, s6, s7(in), s8, s9, s10, s11, s12, s13>>
<1>1. \A in : Session!JsCallSignals(n, s, A, scope, in) = Session!UpTo(steps(in))
  BY DEF Session!JsCallSignals
<1>2. Signals(n, {scope}, s1[1]) /\ Signals(n, {scope}, s2[1]) /\ Signals(n, {scope}, s3[1])
      /\ Signals(n, {scope}, s4[1]) /\ Signals(n, {scope}, s5[1])
      /\ Signals(n, {scope}, s6[1]) /\ (\A in : Signals(n, {scope}, s7(in)[1]))
  BY StepsSignal DEF Foreign, Alien, Sessional
<1>3. Signals(n, {scope}, s8[1]) /\ Signals(n, {scope}, s9[1]) /\ Signals(n, {scope}, s10[1])
      /\ Signals(n, {scope}, s11[1]) /\ Signals(n, {scope}, s12[1]) /\ Signals(n, {scope}, s13[1])
  BY StepsSignal, SessionMakes DEF Foreign, Alien, Sessional
<1>. HIDE DEF s1, s2, s3, s4, s5, s6, s7, s8, s9, s10, s11, s12, s13
<1>4. \A in : DOMAIN steps(in) = 1..13 /\ steps(in) = [k \in 1..13 |-> steps(in)[k]]
  OBVIOUS
<1>5. \A in : \A k \in 1..13 : Signals(n, {scope}, steps(in)[k][1])
  <2>. TAKE in
  <2>1. /\ steps(in)[1] = s1 /\ steps(in)[2] = s2 /\ steps(in)[3] = s3 /\ steps(in)[4] = s4
        /\ steps(in)[5] = s5 /\ steps(in)[6] = s6 /\ steps(in)[7] = s7(in) /\ steps(in)[8] = s8
        /\ steps(in)[9] = s9 /\ steps(in)[10] = s10 /\ steps(in)[11] = s11 /\ steps(in)[12] = s12
        /\ steps(in)[13] = s13
    OBVIOUS
  <2>2. \A k \in 1..13 : k \in {1, 2, 3, 4, 5, 6, 7, 8, 9, 10, 11, 12, 13}
    OBVIOUS
  <2>. HIDE DEF steps
  <2>. QED  BY <1>2, <1>3, <2>1, <2>2
<1>6. \A in : \A k \in 1..13 : k # 7 => steps(in)[k] = steps(inTransition)[k]
  OBVIOUS
<1>7. \A in : ~steps(in)[7][2] /\ \A x \in Range1(steps(in)[7][1]) : x.detector = "session.store_after_auth"
  <2>1. \A in : steps(in)[7] = s7(in)
    OBVIOUS
  <2>2. \A is, state : LET st == Session!FixationStep(is, "session.store_after_auth", "store", n, scope, state)
                       IN ~st[2] /\ \A x \in Range1(st[1]) : x.detector = "session.store_after_auth"
    BY StoreSignals
  <2>. QED  BY <2>1, <2>2 DEF s7
<1>. HIDE DEF steps
<1>8. Signals(n, {scope}, Session!UpTo(steps(inTransition)))
  BY <1>4, <1>5, StepsUpTo
<1>9. ASSUME NEW other, NEW x \in Range1(Session!UpTo(steps(inTransition))), x.detector \in Sessional
      PROVE  x \in Range1(Session!UpTo(steps(other)))
  <2>. DEFINE S == steps(inTransition)
              O == steps(other)
  <2>1. /\ 13 \in Nat /\ 7 \in 1..13
        /\ DOMAIN S = 1..13 /\ S = [k \in 1..13 |-> S[k]]
        /\ DOMAIN O = 1..13 /\ O = [k \in 1..13 |-> O[k]]
    BY <1>4
  <2>2. \A k \in 1..13 : IsSequence(S[k][1]) /\ IsSequence(O[k][1]) /\ (k # 7 => O[k] = S[k])
    BY <1>5, <1>6 DEF Signals
  <2>3. ~S[7][2] /\ ~O[7][2] /\ x \notin Range1(S[7][1]) /\ x \in Range1(Session!UpTo(S))
    BY <1>7, <1>9 DEF Sessional
  <2>. HIDE DEF S, O
  <2>4. Alike(S, O, 13, 7)
    BY <2>1, <2>2 DEF Alike
  <2>5. x \in Range1(Session!UpTo(O))
    BY <2>3, <2>4, StoreStep
  <2>. QED  BY <2>5 DEF O
<1>. QED  BY <1>1, <1>8, <1>9

LEMMA PythonCallsSignal ==
    ASSUME NEW n, NEW s, NEW A, NEW scope, NEW inTransition
    PROVE  /\ Signals(n, {scope}, Session!PythonCallSignals(n, s, A, scope, inTransition))
           /\ \A other : \A x \in Range1(Session!PythonCallSignals(n, s, A, scope, inTransition)) :
                 x.detector \in Sessional => x \in Range1(Session!PythonCallSignals(n, s, A, scope, other))
<1>. DEFINE C == s.code
            login == s.callee = "login"
            s1 == <<Session!When(Session!SecurityDependency(s),
                        Session!SignalOf("fastapi.security_dependency", "validate", "Unknown", "security_dependency",
                                         n, "dynamic")), FALSE>>
            s2(in) == Session!FixationStep(
                     (s.callee = "set_cookie" /\ "session" \in C /\ (in \/ Session!Transition(s.text)))
                     \/ (Session!SessionMutation(s.text) /\ in),
                     "session.store_after_auth", "store", n, scope, "present")
            s3 == Session!FixationStep(login, "session.auth_transition", "issue", n, scope, "present")
            s4 == Session!RevokeStep(login, Session!Fixation("session.framework_default_regenerate", "refresh", n,
                                                             scope, "framework_default"), TRUE)
            s5 == Session!FixationStep(Session!PythonRegenerate(C), "session.regenerate", "refresh", n, scope, "present")
            s6 == Session!FixationStep(Session!PythonReissue(A), "session.reissue", "refresh", n, scope, "dynamic")
            s7 == Session!RevokeStep(s.callee = "delete_cookie", Session!ClearSignal(s, n), TRUE)
            s8 == Session!RevokeStep(s.callee = "logout" \/ Session!PythonDestroy(C),
                                     Session!SessionRevoke("logout.session_destroy", n), TRUE)
            s9 == Session!RevokeStep(Session!GlobalRevoke(C), Session!SessionRevoke("password_change.global_revoke", n),
                                     FALSE)
            s10 == Session!RevokeStep(Session!ProviderRevoke(C),
                                      Session!RevokesToken("logout.provider_revoke", C, n), TRUE)
            s11 == Session!RevokeStep(Session!TokenRevoke(C), Session!RevokesToken("logout.token_revoke", C, n), FALSE)
            steps(in) == <<s1, s2(in), s3, s4, s5, s6, s7, s8, s9, s10, s11>>
<1>1. \A in : Session!PythonCallSignals(n, s, A, scope, in) = Session!UpTo(steps(in))
  BY DEF Session!PythonCallSignals
<1>2. Signals(n, {scope}, s1[1])
  BY SessionMakes DEF Foreign, Alien, Sessional
<1>3. (\A in : Signals(n, {scope}, s2(in)[1])) /\ Signals(n, {scope}, s3[1]) /\ Signals(n, {scope}, s4[1])
      /\ Signals(n, {scope}, s5[1]) /\ Signals(n, {scope}, s6[1])
  BY StepsSignal, SessionMakes DEF Foreign, Alien, Sessional
<1>4. Signals(n, {scope}, s7[1]) /\ Signals(n, {scope}, s8[1]) /\ Signals(n, {scope}, s9[1])
      /\ Signals(n, {scope}, s10[1]) /\ Signals(n, {scope}, s11[1])
  BY StepsSignal DEF Foreign, Alien, Sessional
<1>. HIDE DEF s1, s2, s3, s4, s5, s6, s7, s8, s9, s10, s11
<1>5. \A in : DOMAIN steps(in) = 1..11 /\ steps(in) = [k \in 1..11 |-> steps(in)[k]]
  OBVIOUS
<1>6. \A in : \A k \in 1..11 : Signals(n, {scope}, steps(in)[k][1])
  BY <1>2, <1>3, <1>4
<1>7. \A in : \A k \in 1..11 : k # 2 => steps(in)[k] = steps(inTransition)[k]
  OBVIOUS
<1>8. \A in : ~steps(in)[2][2] /\ \A x \in Range1(steps(in)[2][1]) : x.detector = "session.store_after_auth"
  <2>1. \A in : steps(in)[2] = s2(in)
    OBVIOUS
  <2>2. \A is, state : LET st == Session!FixationStep(is, "session.store_after_auth", "store", n, scope, state)
                       IN ~st[2] /\ \A x \in Range1(st[1]) : x.detector = "session.store_after_auth"
    BY StoreSignals
  <2>. QED  BY <2>1, <2>2 DEF s2
<1>. HIDE DEF steps
<1>9. Signals(n, {scope}, Session!UpTo(steps(inTransition)))
  BY <1>5, <1>6, StepsUpTo
<1>10. ASSUME NEW other, NEW x \in Range1(Session!UpTo(steps(inTransition))), x.detector \in Sessional
      PROVE  x \in Range1(Session!UpTo(steps(other)))
  <2>. DEFINE S == steps(inTransition)
              O == steps(other)
  <2>1. /\ 11 \in Nat /\ 2 \in 1..11
        /\ DOMAIN S = 1..11 /\ S = [k \in 1..11 |-> S[k]]
        /\ DOMAIN O = 1..11 /\ O = [k \in 1..11 |-> O[k]]
    BY <1>5
  <2>2. \A k \in 1..11 : IsSequence(S[k][1]) /\ IsSequence(O[k][1]) /\ (k # 2 => O[k] = S[k])
    BY <1>6, <1>7 DEF Signals
  <2>3. ~S[2][2] /\ ~O[2][2] /\ x \notin Range1(S[2][1]) /\ x \in Range1(Session!UpTo(S))
    BY <1>8, <1>10 DEF Sessional
  <2>. HIDE DEF S, O
  <2>4. Alike(S, O, 11, 2)
    BY <2>1, <2>2 DEF Alike
  <2>5. x \in Range1(Session!UpTo(O))
    BY <2>3, <2>4, StoreStep
  <2>. QED  BY <2>5 DEF O
<1>. QED  BY <1>1, <1>9, <1>10

LEMMA SessionSignalsAre ==
    ASSUME NEW f, NEW n
    PROVE  Signals(n, {Session!HandlerScope(f, n)}, Session!SessionSignals(f, n))
<1>. DEFINE X == Session!ExportSignals(f, n) \o Session!JsFunctionSignals(f, n)
            Y == Session!PythonFunctionSignals(f, n)
            J == Session!JsCallSignals(n, Session!Said(f, n), Session!AncestorText(f, n), Session!HandlerScope(f, n),
                                       Session!InTransition(f, n))
            P == Session!PythonCallSignals(n, Session!Said(f, n), Session!AncestorText(f, n),
                                           Session!HandlerScope(f, n), Session!InTransition(f, n))
            A == Session!AssignmentSignals(f, n, Session!HandlerScope(f, n))
            kind == f.nodes[n].kind
            z == Session!HandlerScope(f, n)
            js == f.language = "js"
<1>1. Signals(n, {z}, X)
  BY FunctionsSignal, SignalsTogether
<1>2. Signals(n, {z}, Y) /\ Signals(n, {z}, J) /\ Signals(n, {z}, P)
  BY FunctionsSignal, JsCallsSignal, PythonCallsSignal
<1>3. Signals(n, {z}, A)
  <2>1. Signals(n, {z}, Session!Fixation("session.store_after_auth", "store", n, Session!HandlerScope(f, n), "present"))
    BY SessionMakes DEF Foreign, Alien, Sessional
  <2>. QED  BY <2>1, SessionMakes DEF Session!AssignmentSignals
<1>4. Session!SessionSignals(f, n) =
        CASE kind = "Function" /\ js -> X [] kind = "Function" /\ ~js -> Y
          [] kind \in {"Call", "Route"} /\ js -> J [] kind = "Call" /\ ~js -> P
          [] kind = "Assign" -> A [] OTHER -> <<>>
  BY DEF Session!SessionSignals
<1>. HIDE DEF X, Y, J, P, A, kind
<1>5. Session!SessionSignals(f, n) \in {X, Y, J, P, A, <<>>}
  BY <1>4
<1>. QED  BY <1>1, <1>2, <1>3, <1>5, SignalsTogether

LEMMA RefreshSignalsAre ==
    ASSUME NEW f, NEW n
    PROVE  Signals(n, {}, Refresh!RefreshSignals(f, n))
<1>0. \A detector, stage, C, state : detector \notin Foreign => Signals(n, {}, Refresh!Refreshes(detector, stage, C, n, state))
  BY SessionMakes DEF Refresh!Refreshes, Refresh!RefreshType
<1>1. Signals(n, {}, Refresh!RefreshFunctionSignals(f, n))
  <2>. DEFINE says == f.nodes[n].says
              python == f.language = "py"
              exported == /\ f.nodes[n].exported /\ Refresh!Says(says, {"PATCH", "POST"})
                          /\ "refresh" \in says \cup Refresh!TextOf(f, n)
              named == /\ f.nodes[n].form \in {"declaration", "method", "definition"}
                       /\ "refresh" \in says \cup (IF python THEN f.nodes[n].decorators ELSE {})
              a == Refresh!Refreshes("refresh.handler", "refresh", says \cup Refresh!CodeOf(f, n), n, "dynamic")
              b == Refresh!Refreshes("refresh.handler", "refresh", Refresh!CodeOf(f, n), n,
                                     IF python THEN "present" ELSE "dynamic")
              t == [k \in DOMAIN a |-> [a[k] EXCEPT !.column = 1]]
              A == Refresh!When(exported, t)
              B == Refresh!When(named, b)
  <2>1. Refresh!RefreshFunctionSignals(f, n) = A \o B
    BY DEF Refresh!RefreshFunctionSignals, Refresh!Each
  <2>2. Signals(n, {}, a) /\ Signals(n, {}, b)
    BY <1>0 DEF Foreign, Alien, Sessional
  <2>. HIDE DEF a, b, exported, named
  <2>3. DOMAIN t = DOMAIN a /\ t = [k \in DOMAIN a |-> t[k]]
        /\ \A k \in DOMAIN a : t[k] = [a[k] EXCEPT !.column = 1]
    OBVIOUS
  <2>. HIDE DEF t
  <2>4. Signals(n, {}, t)
    BY <2>2, <2>3, SignalsMoved
  <2>5. Signals(n, {}, A) /\ Signals(n, {}, B)
    BY <2>2, <2>4, SessionMakes
  <2>. HIDE DEF A, B
  <2>. QED  BY <2>1, <2>5, SignalsTogether
<1>2. ASSUME NEW js, NEW s PROVE Signals(n, {}, Refresh!RefreshCallSignals(js, n, s))
  <2>. DEFINE C == s.code
              speaks == "refresh" \in C
              when(is, detector, stage) == Refresh!When(is, Refresh!Refreshes(detector, stage, C, n, "present"))
              stores == speaks /\ (Refresh!RefreshStore(C) \/ (js /\ Refresh!RefreshCookie(s)))
              rotates == speaks /\ Refresh!RefreshRotate(C)
              reuse == speaks /\ Refresh!ReuseDetection(C)
              s1 == when(js /\ Refresh!RefreshRoute(s.text) /\ "refresh" \in s.text, "refresh.handler", "refresh")
              s2 == when(stores, "refresh.store", "store")
              s3 == when(stores /\ Refresh!RefreshExpiry(C), "refresh.expire", "expire")
              s4 == when(speaks /\ Refresh!RefreshIssue(C), "refresh.issue", "issue")
              s5 == when(speaks /\ Refresh!RefreshValidate(C), "refresh.validate", "validate")
              s6 == when(rotates, "refresh.rotate", "refresh")
              s7 == when(rotates /\ Refresh!OldTokenInvalidated(C), "refresh.rotate", "revoke")
              s8 == when(speaks /\ ~rotates /\ Refresh!RefreshRevoke(C), "refresh.revoke", "revoke")
              s9 == when(reuse, "refresh.reuse_detection", "validate")
              s10 == when(reuse /\ Refresh!FamilyInvalidated(C), "refresh.reuse_detection", "revoke")
              s11 == Refresh!When(Refresh!RefreshProvider(C),
                        Refresh!Refreshes("refresh.provider",
                           IF Refresh!Says(C, {"revoke", "delete", "logout", "signout"}) THEN "revoke" ELSE "refresh",
                           C, n, "dynamic"))
  <2>1. Refresh!RefreshCallSignals(js, n, s) = s1 \o s2 \o s3 \o s4 \o s5 \o s6 \o s7 \o s8 \o s9 \o s10 \o s11
    BY DEF Refresh!RefreshCallSignals
  <2>2. \A is, detector, stage : detector \notin Foreign => Signals(n, {}, when(is, detector, stage))
    BY <1>0, SessionMakes
  <2>3. Signals(n, {}, s11)
    <3>1. \A stage : Signals(n, {}, Refresh!Refreshes("refresh.provider", stage, C, n, "dynamic"))
      BY <1>0 DEF Foreign, Alien, Sessional
    <3>. QED  BY <3>1, SessionMakes
  <2>. HIDE DEF when, stores, rotates, reuse, speaks, s11
  <2>4. Signals(n, {}, s1) /\ Signals(n, {}, s2) /\ Signals(n, {}, s3) /\ Signals(n, {}, s4) /\ Signals(n, {}, s5) /\ Signals(n, {}, s6) /\ Signals(n, {}, s7)
        /\ Signals(n, {}, s8) /\ Signals(n, {}, s9) /\ Signals(n, {}, s10)
    BY <2>2 DEF Foreign, Alien, Sessional
  <2>. HIDE DEF s1, s2, s3, s4, s5, s6, s7, s8, s9, s10
  <2>. QED  BY <2>1, <2>3, <2>4, SignalsTogether, Zenon
<1>. QED  BY <1>1, <1>2, SignalsTogether DEF Refresh!RefreshSignals

LEMMA SignalSequences ==
    ASSUME NEW f, IsFile(f), NEW ss, DOMAIN ss = DOMAIN f.nodes, ss = [n \in DOMAIN f.nodes |-> ss[n]],
           \A n \in DOMAIN f.nodes : IsSequence(ss[n])
    PROVE  /\ IsSequence(FlattenSeq(ss))
           /\ Range1(FlattenSeq(ss)) = UNION {Range1(ss[n]) : n \in DOMAIN f.nodes}
<1>1. IsSequence(ss) /\ DOMAIN ss = 1..Len(ss)
  <2>1. IsSequence(f.nodes)
    BY DEF IsFile
  <2>. QED  BY <2>1, IndexedIsOne, SequenceForm
<1>2. IsSequences(ss)
  BY <1>1 DEF IsSequences
<1>. QED  BY <1>2, FlattenIsOne

\* A sequence of artifacts, one for each of the signals.
LEMMA SessionArtifactIs ==
    ASSUME NEW f, NEW n, NEW Z, NEW s, Local(n, Z, s),
           NEW a \in {Session!SessionArtifact(f, s), Refresh!SessionArtifact(f, s)},
           s.detector \in Sessional => SessionIn(f, a)
    PROVE  Common(f, a)
<1>. DEFINE e1 == Session!EvidenceAt(f, s.detector, <<s.stage, s.column>>, s.line, s.name, s.stage, s.state, {})
            e2 == Refresh!EvidenceAt(f, s.detector, <<s.stage, s.column>>, s.line, s.name, s.stage, s.state, {})
<1>1. Session!SessionArtifact(f, s).evidence = {e1}
  BY DEF Session!SessionArtifact, Session!Artifact
<1>2. Refresh!SessionArtifact(f, s).evidence = {e2}
  BY DEF Refresh!SessionArtifact, Refresh!Artifact
<1>3. /\ Placed(f, e1) /\ e1.detector \notin Alien /\ e1.detector = s.detector
      /\ Placed(f, e2) /\ e2.detector \notin Alien /\ e2.detector = s.detector
  BY DEF Session!EvidenceAt, Refresh!EvidenceAt, Placed, Local
<1>. HIDE DEF e1, e2
<1>4. /\ Session!SessionArtifact(f, s).id[1] = f.path /\ Session!SessionArtifact(f, s).cookie = NoAttributes
      /\ Session!SessionArtifact(f, s).jwt = NoAttributes
  BY DEF Session!SessionArtifact, Session!Artifact, Session!NoAttributes, NoAttributes
<1>5. /\ Refresh!SessionArtifact(f, s).id[1] = f.path /\ Refresh!SessionArtifact(f, s).cookie = NoAttributes
      /\ Refresh!SessionArtifact(f, s).jwt = NoAttributes
  BY DEF Refresh!SessionArtifact, Refresh!Artifact, Refresh!NoAttributes, NoAttributes
<1>6. ~LikeFlow(Session!SessionArtifact(f, s)) /\ ~LikeFlow(Refresh!SessionArtifact(f, s))
  <2>1. s.detector # "oauth.flow" /\ s.type # "OAuthAuthCodeFlow"
    BY DEF Local, Alien
  <2>2. Session!SessionArtifact(f, s).id[2] = s.detector /\ Session!SessionArtifact(f, s).type = s.type
    BY DEF Session!SessionArtifact, Session!Artifact
  <2>3. Refresh!SessionArtifact(f, s).id[2] = s.detector /\ Refresh!SessionArtifact(f, s).type = s.type
    BY DEF Refresh!SessionArtifact, Refresh!Artifact
  <2>. QED  BY <2>1, <2>2, <2>3 DEF LikeFlow
<1>. QED  BY <1>1, <1>2, <1>3, <1>4, <1>5, <1>6 DEF Common

LEMMA SessionArtifactsAreKnown ==
    ASSUME NEW f, IsFile(f)
    PROVE  /\ Program(f) => /\ Known(f, Session!SessionArtifacts(f), Apart)
                            /\ \A n \in DOMAIN f.nodes : \A x \in Range1(Session!SessionSignals(f, n)) :
                                  Session!SessionArtifact(f, x) \in Range1(Session!SessionArtifacts(f))
           /\ Known(f, Refresh!RefreshArtifacts(f), Apart)
<1>1. ASSUME Program(f)
      PROVE  /\ Known(f, Session!SessionArtifacts(f), Apart)
             /\ \A n \in DOMAIN f.nodes : \A x \in Range1(Session!SessionSignals(f, n)) :
                   Session!SessionArtifact(f, x) \in Range1(Session!SessionArtifacts(f))
  <2>. DEFINE ss == [n \in DOMAIN f.nodes |-> Session!SessionSignals(f, n)]
              s == FlattenSeq(ss)
              t == [k \in DOMAIN s |-> Session!SessionArtifact(f, s[k])]
  <2>1. Session!SessionArtifacts(f) = t
    BY DEF Session!SessionArtifacts, Session!Each, Session!FlattenSeq, FlattenSeq
  <2>2. DOMAIN ss = DOMAIN f.nodes /\ ss = [n \in DOMAIN f.nodes |-> ss[n]]
        /\ \A n \in DOMAIN f.nodes : ss[n] = Session!SessionSignals(f, n)
    OBVIOUS
  <2>. HIDE DEF ss
  <2>3. \A n \in DOMAIN f.nodes : Signals(n, {Session!HandlerScope(f, n)}, ss[n])
    BY <2>2, SessionSignalsAre
  <2>4. IsSequence(s) /\ Range1(s) = UNION {Range1(ss[n]) : n \in DOMAIN f.nodes}
    BY <2>2, <2>3, SignalSequences DEF Signals
  <2>. HIDE DEF s
  <2>5. DOMAIN t = DOMAIN s /\ t = [k \in DOMAIN s |-> t[k]]
        /\ \A k \in DOMAIN s : t[k] = Session!SessionArtifact(f, s[k])
    OBVIOUS
  <2>. HIDE DEF t
  <2>6. IsSequence(t) /\ Range1(t) = {t[k] : k \in DOMAIN s}
    BY <2>4, <2>5, EachIsOne
  <2>7. ASSUME NEW k \in DOMAIN s PROVE Common(f, t[k])
    <3>1. PICK n \in DOMAIN f.nodes : s[k] \in Range1(ss[n])
      BY <2>4 DEF Range1
    <3>2. Local(n, {Session!HandlerScope(f, n)}, s[k])
      BY <2>3, <3>1 DEF Signals
    <3>3. SessionIn(f, Session!SessionArtifact(f, s[k]))
      BY <1>1, <2>2, <3>1 DEF SessionIn
    <3>. QED  BY <2>5, <3>2, <3>3, SessionArtifactIs
  <2>8. Known(f, t, Apart)
    BY <2>6, <2>7, CommonIsKnown
  <2>9. ASSUME NEW n \in DOMAIN f.nodes, NEW x \in Range1(Session!SessionSignals(f, n))
        PROVE  Session!SessionArtifact(f, x) \in Range1(t)
    <3>0. x \in Range1(s)
      BY <2>2, <2>4
    <3>1. PICK k \in DOMAIN s : s[k] = x
      BY <3>0 DEF Range1
    <3>. QED  BY <2>5, <2>6, <3>1
  <2>. QED  BY <2>1, <2>8, <2>9
<1>2. Known(f, Refresh!RefreshArtifacts(f), Apart)
  <2>. DEFINE ss == [n \in DOMAIN f.nodes |-> Refresh!RefreshSignals(f, n)]
              s == FlattenSeq(ss)
              t == [k \in DOMAIN s |-> Refresh!SessionArtifact(f, s[k])]
  <2>1. Refresh!RefreshArtifacts(f) = t
    BY DEF Refresh!RefreshArtifacts, Refresh!Each, Refresh!FlattenSeq, FlattenSeq
  <2>2. DOMAIN ss = DOMAIN f.nodes /\ ss = [n \in DOMAIN f.nodes |-> ss[n]]
        /\ \A n \in DOMAIN f.nodes : ss[n] = Refresh!RefreshSignals(f, n)
    OBVIOUS
  <2>. HIDE DEF ss
  <2>3. \A n \in DOMAIN f.nodes : Signals(n, {}, ss[n])
    BY <2>2, RefreshSignalsAre
  <2>4. IsSequence(s) /\ Range1(s) = UNION {Range1(ss[n]) : n \in DOMAIN f.nodes}
    BY <2>2, <2>3, SignalSequences DEF Signals
  <2>. HIDE DEF s
  <2>5. DOMAIN t = DOMAIN s /\ t = [k \in DOMAIN s |-> t[k]]
        /\ \A k \in DOMAIN s : t[k] = Refresh!SessionArtifact(f, s[k])
    OBVIOUS
  <2>. HIDE DEF t
  <2>6. IsSequence(t) /\ Range1(t) = {t[k] : k \in DOMAIN s}
    BY <2>4, <2>5, EachIsOne
  <2>7. ASSUME NEW k \in DOMAIN s PROVE Common(f, t[k])
    <3>1. PICK n \in DOMAIN f.nodes : s[k] \in Range1(ss[n])
      BY <2>4 DEF Range1
    <3>2. Local(n, {}, s[k])
      BY <2>3, <3>1 DEF Signals
    <3>3. s[k].detector \notin Sessional
      BY <3>2 DEF Local
    <3>. QED  BY <2>5, <3>2, <3>3, SessionArtifactIs
  <2>8. Known(f, t, Apart)
    BY <2>6, <2>7, CommonIsKnown
  <2>. QED  BY <2>1, <2>8
<1>. QED  BY <1>1, <1>2

-----------------------------------------------------------------------------
(* All detectors on one file.                                               *)

\* A file of a repository.
IsRead(f) == IsFile(f) /\ (Program(f) \/ \A n \in DOMAIN f.nodes : f.nodes[n].kind = "Line")

\* What another detector than the cookie detector finds.
Other(f, t) ==
    /\ IsSequence(t)
    /\ \A a \in Range1(t) : Shown(f, a) /\ a.cookie = NoAttributes
    /\ \A a \in Range1(t) : \A e \in a.evidence :
          /\ e.detector # "cookie.conflicting_writes"
          /\ e.detector = "bearer.store.browser" => a.type \in BearerLike

\* The artifacts of the cookie calls, and then those of other detectors.
Found(f, s, calls) ==
    /\ IsSequence(s) /\ IsSequence(calls) /\ Len(calls) <= Len(s)
    /\ \A i \in 1..Len(calls) : s[i] = Cookie!CookieArtifact(f, calls, calls[i])
    /\ \A i \in 1..Len(s) : Shown(f, s[i]) /\ (s[i].cookie # NoAttributes => i <= Len(calls) /\ CookieBacked(s[i]))
    /\ \A i \in 1..Len(s) : \A e \in s[i].evidence :
          /\ e.detector = "cookie.conflicting_writes" => i <= Len(calls)
          /\ e.detector = "bearer.store.browser" => s[i].type \in BearerLike

LEMMA KnownIsOther ==
    ASSUME NEW f, NEW t, Known(f, t, Apart)
    PROVE  Other(f, t)
BY DEF Known, Other, Apart

LEMMA FoundFirst ==
    ASSUME NEW f, IsFile(f)
    PROVE  Found(f, Cookie!CookieArtifacts(f), Cookie!CookieCalls(f)) /\ Found(f, <<>>, <<>>)
<1>. DEFINE s == Cookie!CookieArtifacts(f)
            calls == Cookie!CookieCalls(f)
<1>1. IsSequence(calls) /\ IsSequence(s) /\ Len(s) = Len(calls)
      /\ \A k \in DOMAIN calls : s[k] = Cookie!CookieArtifact(f, calls, calls[k])
  BY CookieCallsIsOne, CookieArtifactsIsOne DEF CallsOf
<1>2. Len(calls) \in Nat /\ DOMAIN calls = 1..Len(calls)
  BY <1>1, SequenceForm
<1>. HIDE DEF s, calls
<1>3. \A i \in 1..Len(s) : \A e \in s[i].evidence : 
         Placed(f, e) /\ Sure(e) /\ e.detector # "bearer.store.browser" /\ e.detector # "oauth.flow.auth_code"
         /\ e.detector \notin Sessional
  BY <1>1, <1>2, CookieEvidence
<1>6. \A i \in 1..Len(s) : Shown(f, s[i]) /\ CookieBacked(s[i])
  <2>. SUFFICES ASSUME NEW i \in 1..Len(s) PROVE Shown(f, s[i]) /\ CookieBacked(s[i])
    OBVIOUS
  <2>1. s[i] = Cookie!CookieArtifact(f, calls, calls[i])
    BY <1>1, <1>2
  <2>2. s[i].id[1] = f.path /\ s[i].evidence # {} /\ s[i].jwt = NoAttributes /\ CookieBacked(s[i])
    BY <2>1, CookieIsBacked
  <2>3. ~LikeFlow(s[i])
    BY <2>1 DEF LikeFlow, Cookie!CookieArtifact, Cookie!Artifact, Cookie!CookieType
  <2>. QED  BY <1>3, <2>2, <2>3 DEF Shown
<1>4. Found(f, s, calls)
  BY <1>1, <1>2, <1>3, <1>6 DEF Found
<1>5. Found(f, <<>>, <<>>)
  BY EmptyIsOne DEF Found
<1>. QED  BY <1>4, <1>5 DEF s, calls

LEMMA FoundMore ==
    ASSUME NEW f, NEW s, NEW calls, NEW t, Found(f, s, calls), Other(f, t), NEW u, u = s \o t
    PROVE  Found(f, u, calls) /\ Range1(u) = Range1(s) \cup Range1(t)
<1>1. IsSequence(s) /\ IsSequence(t) /\ IsSequence(calls)
  BY DEF Found, Other
<1>2. /\ IsSequence(u) /\ Len(u) = Len(s) + Len(t)
      /\ Range1(u) = Range1(s) \cup Range1(t)
      /\ \A k \in 1..Len(s) : u[k] = s[k]
      /\ \A k \in 1..Len(t) : u[Len(s) + k] = t[k]
  BY <1>1, ConcatIsOne
<1>3. Len(s) \in Nat /\ Len(t) \in Nat /\ Len(calls) \in Nat /\ Len(calls) <= Len(s) /\ DOMAIN t = 1..Len(t)
  BY <1>1, SequenceForm DEF Found
<1>. DEFINE p == Len(s)  q == Len(t)  c == Len(calls)
<1>4. \A i \in 1..c : u[i] = Cookie!CookieArtifact(f, calls, calls[i])
  BY <1>2, <1>3 DEF Found
<1>5. ASSUME NEW i \in 1..Len(u)
      PROVE  /\ Shown(f, u[i]) /\ (u[i].cookie # NoAttributes => i <= Len(calls) /\ CookieBacked(u[i]))
             /\ \A e \in u[i].evidence :
                   /\ e.detector = "cookie.conflicting_writes" => i <= Len(calls)
                   /\ e.detector = "bearer.store.browser" => u[i].type \in BearerLike
  <2>1. CASE i \in 1..p
    BY <1>2, <1>3, <2>1 DEF Found
  <2>2. CASE i \notin 1..p
    <3>. DEFINE k == i - p
    <3>1. k \in 1..q /\ i = p + k
      <4>1. i \in 1..(p + q) /\ p \in Nat /\ q \in Nat
        BY <1>2, <1>3
      <4>. HIDE DEF p, q
      <4>. QED  BY <2>2, <4>1
    <3>. HIDE DEF k
    <3>2. u[i] = t[k] /\ t[k] \in Range1(t)
      BY <1>2, <1>3, <3>1 DEF Range1
    <3>. QED  BY <3>2 DEF Other
  <2>. QED  BY <2>1, <2>2
<1>6. Len(calls) <= Len(u)
  BY <1>2, <1>3
<1>7. Found(f, u, calls)
  BY <1>1, <1>2, <1>4, <1>5, <1>6 DEF Found
<1>. QED  BY <1>2, <1>7

LEMMA LinesCallNothing ==
    ASSUME NEW f, IsRead(f), ~Program(f)
    PROVE  Cookie!CookieCalls(f) = <<>> /\ Jwt!JwtCalls(f) = <<>>
<1>1. IsSequence(f.nodes) /\ \A n \in DOMAIN f.nodes : f.nodes[n].kind = "Line"
  BY DEF IsRead, IsFile
<1>2. f.language # "py"
  BY DEF Program
<1>. DEFINE none == [n \in DOMAIN f.nodes |-> <<>>]
<1>3. FlattenSeq(none) = <<>>
  <2>1. DOMAIN none = DOMAIN f.nodes /\ none = [n \in DOMAIN f.nodes |-> none[n]] /\ \A n \in DOMAIN none : none[n] = <<>>
    OBVIOUS
  <2>. HIDE DEF none
  <2>2. IsSequence(none) /\ DOMAIN none = 1..Len(none)
    BY <1>1, <2>1, IndexedIsOne, SequenceForm
  <2>3. IsSequences(none)
    BY <2>1, <2>2, EmptyIsOne DEF IsSequences
  <2>4. IsSequence(FlattenSeq(none)) /\ Range1(FlattenSeq(none)) = UNION {Range1(none[k]) : k \in DOMAIN none}
    BY <2>3, FlattenIsOne
  <2>5. Range1(FlattenSeq(none)) = {}
    BY <2>1, <2>4, EmptyIsOne
  <2>. DEFINE e == FlattenSeq(none)
  <2>6. IsSequence(e) /\ Range1(e) = {}
    BY <2>4, <2>5
  <2>. HIDE DEF e
  <2>7. DOMAIN e = {} /\ Len(e) = 0
    BY <2>6, SequenceForm DEF Range1
  <2>8. e = <<>>
    BY <2>6, <2>7 DEF IsSequence
  <2>. QED  BY <2>8 DEF e
<1>4. Cookie!DirectCalls(f) = <<>>
  <2>1. [n \in DOMAIN f.nodes |->
           CASE f.nodes[n].kind = "Cookie" -> Cookie!CallAt(f, n, Cookie!Parameters(f, Cookie!Handler(f, n)))
             [] f.nodes[n].kind = "Header" -> Cookie!HeaderCalls(f, n)
             [] OTHER -> <<>>] = none
    BY <1>1
  <2>. HIDE DEF none
  <2>. QED  BY <1>3, <2>1, CookieSequences DEF Cookie!DirectCalls
<1>5. Cookie!WrapperCalls(f) = <<>>
  <2>1. [n \in DOMAIN f.nodes |->
           IF f.nodes[n].kind # "Call" \/ Cookie!Wrappers(f, f.nodes[n].name) = {} THEN <<>>
           ELSE Cookie!CallOfWrapper(f, n, Cookie!LastOf(Cookie!Wrappers(f, f.nodes[n].name)))] = none
    BY <1>1
  <2>. HIDE DEF none
  <2>. QED  BY <1>3, <2>1, CookieSequences DEF Cookie!WrapperCalls
<1>6. Cookie!SettingCalls(f) = <<>>
  BY <1>2 DEF Cookie!SettingCalls
<1>7. Jwt!JwtCalls(f) = <<>>
  <2>1. [n \in DOMAIN f.nodes |->
           IF f.nodes[n].kind = "Jwt"
           THEN Jwt!JwtCallAt(f, n, Jwt!ApiOf(f, n), Jwt!Declared(f, n, f.nodes[n].options)) ELSE <<>>] = none
    BY <1>1
  <2>. HIDE DEF none
  <2>. QED  BY <1>3, <2>1, JwtSequences DEF Jwt!JwtCalls
<1>8. <<>> \o <<>> = <<>>
  OBVIOUS
<1>. QED  BY <1>4, <1>5, <1>6, <1>7, <1>8 DEF Cookie!CookieCalls

LEMMA DetectIs ==
    ASSUME NEW f, IsRead(f)
    PROVE  /\ Found(f, Detect(f), Cookie!CookieCalls(f))
           /\ \A c \in Range1(Jwt!JwtCalls(f)) :
                 \E group : c \in group /\ Jwt!JwtArtifact(f, group) \in Range1(Detect(f))
           /\ Program(f) => \A n \in OAuth!FlowLines(f) : OAuth!FlowArtifact(f, n) \in Range1(Detect(f))
           /\ Program(f) => \A n \in DOMAIN f.nodes : \A x \in Range1(Session!SessionSignals(f, n)) :
                 Session!SessionArtifact(f, x) \in Range1(Detect(f))
<1>. DEFINE calls == Cookie!CookieCalls(f)
            C == Cookie!CookieArtifacts(f)
            J == Jwt!JwtArtifacts(f)
            O == OAuth!OAuthArtifacts(f)
            T == Client!StorageArtifacts(f)
            B == Bearer!BearerArtifacts(f)
            Q == Client!QueryArtifacts(f)
            P == Reset!ResetArtifacts(f)
            S == Session!SessionArtifacts(f)
            R == Refresh!RefreshArtifacts(f)
            program == Program(f)
<1>1. IsFile(f)
  BY DEF IsRead
<1>2. Found(f, C, calls) /\ Found(f, <<>>, <<>>)
  BY <1>1, FoundFirst
<1>3. Other(f, J) /\ Other(f, T) /\ Other(f, Q) /\ Other(f, P) /\ Other(f, R)
  BY <1>1, JwtArtifactsAreKnown, ClientArtifactsAreKnown, ResetArtifactsAreKnown,
     SessionArtifactsAreKnown, KnownIsOther
<1>12. program => /\ Other(f, S)
                  /\ \A n \in DOMAIN f.nodes : \A x \in Range1(Session!SessionSignals(f, n)) :
                        Session!SessionArtifact(f, x) \in Range1(S)
  BY <1>1, SessionArtifactsAreKnown, KnownIsOther
<1>11. program => Other(f, O) /\ \A n \in OAuth!FlowLines(f) : OAuth!FlowArtifact(f, n) \in Range1(O)
  BY <1>1, FlowArtifactsAreKnown, KnownIsOther
<1>4. Other(f, B)
  <2>1. Known(f, B, {"cookie.conflicting_writes"}) /\ \A a \in Range1(B) : a.type \in BearerLike
    BY <1>1, BearerArtifactsAreKnown
  <2>. QED  BY <2>1 DEF Known, Other
<1>5. Detect(f) = (IF program THEN C \o J \o O \o T ELSE <<>>) \o B \o (IF program THEN Q \o P \o S \o R ELSE <<>>)
  BY DEF Detect
<1>6. \A c \in Range1(Jwt!JwtCalls(f)) : \E group : c \in group /\ Jwt!JwtArtifact(f, group) \in Range1(J)
  BY <1>1, JwtArtifactsAreKnown
<1>7. ~program => calls = <<>> /\ Jwt!JwtCalls(f) = <<>>
  BY LinesCallNothing
<1>8. Other(f, <<>>) /\ (program => Other(f, Q \o P \o S \o R) /\ Range1(S) \subseteq Range1(Q \o P \o S \o R))
  <2>1. \A s, t : Other(f, s) /\ Other(f, t) => Other(f, s \o t) /\ Range1(s \o t) = Range1(s) \cup Range1(t)
    BY ConcatIsOne DEF Other
  <2>2. Other(f, <<>>)
    BY EmptyIsOne DEF Other
  <2>. HIDE DEF Q, P, S, R, program
  <2>. QED  BY <1>3, <1>12, <2>1, <2>2
<1>. HIDE DEF calls, C, J, O, T, B, Q, P, S, R, program
<1>9. CASE program
  <2>. DEFINE X == Q \o P \o S \o R
              D1 == C \o J
              D2 == D1 \o O
              D3 == D2 \o T
              D4 == D3 \o B
              D5 == D4 \o X
  <2>0. ASSUME NEW s, NEW t, Found(f, s, calls), Other(f, t), NEW u, u = s \o t
        PROVE  Found(f, u, calls) /\ Range1(s) \subseteq Range1(u) /\ Range1(t) \subseteq Range1(u)
    <3>1. Found(f, u, calls)
      BY <2>0, FoundMore, Zenon
    <3>2. IsSequence(s) /\ IsSequence(t)
      BY <2>0 DEF Found, Other
    <3>3. Range1(s \o t) = Range1(s) \cup Range1(t)
      BY <3>2, ConcatIsOne
    <3>. QED  BY <2>0, <3>1, <3>3
  <2>1. Found(f, D1, calls) /\ Range1(J) \subseteq Range1(D1)
    BY <1>2, <1>3, <2>0
  <2>. HIDE DEF X, D1
  <2>2. Found(f, D2, calls) /\ Range1(D1) \subseteq Range1(D2) /\ Range1(O) \subseteq Range1(D2)
    BY <1>9, <1>11, <2>0, <2>1
  <2>. HIDE DEF D2
  <2>3. Found(f, D3, calls) /\ Range1(D2) \subseteq Range1(D3)
    BY <1>3, <2>0, <2>2
  <2>. HIDE DEF D3
  <2>4. Found(f, D4, calls) /\ Range1(D3) \subseteq Range1(D4)
    BY <1>4, <2>0, <2>3
  <2>. HIDE DEF D4
  <2>5. Other(f, X) /\ Range1(S) \subseteq Range1(X)
    BY <1>8, <1>9 DEF X
  <2>6. Found(f, D5, calls) /\ Range1(D4) \subseteq Range1(D5) /\ Range1(X) \subseteq Range1(D5)
    BY <2>0, <2>4, <2>5
  <2>7. Detect(f) = D5
    BY <1>5, <1>9 DEF D1, D2, D3, D4, X
  <2>. HIDE DEF D5
  <2>8. Range1(J) \subseteq Range1(D5)
    BY <2>1, <2>2, <2>3, <2>4, <2>6
  <2>9. Range1(O) \subseteq Range1(D5)
    BY <2>2, <2>3, <2>4, <2>6
  <2>10. Range1(S) \subseteq Range1(D5)
    BY <2>5, <2>6
  <2>. QED  BY <1>6, <1>9, <1>11, <1>12, <2>6, <2>7, <2>8, <2>9, <2>10 DEF calls
<1>10. CASE ~program
  <2>. DEFINE D1 == <<>> \o B
              D2 == D1 \o <<>>
  <2>1. Found(f, D1, <<>>)
    BY <1>2, <1>4, FoundMore
  <2>. HIDE DEF D1
  <2>2. Found(f, D2, <<>>)
    BY <1>8, <2>1, FoundMore
  <2>3. Detect(f) = D2
    BY <1>5, <1>10 DEF D1
  <2>. HIDE DEF D2
  <2>4. Range1(<<>>) = {}
    BY EmptyIsOne
  <2>. QED  BY <1>7, <1>10, <2>2, <2>3, <2>4 DEF calls, program
<1>. QED  BY <1>9, <1>10

LEMMA LooseIs ==
    ASSUME NEW f, NEW e \in Loose(f)
    PROVE  Placed(f, e) /\ e.detector \notin Foreign
<1>1. PICK d : e \in Bearer!DepthEvidence(f, d)
  BY DEF Loose
<1>. QED  BY <1>1 DEF Bearer!DepthEvidence, Bearer!EvidenceAt, Placed, Foreign, Alien, Sessional
===============================================================================
