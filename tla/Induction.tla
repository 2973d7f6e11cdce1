------------------------------ MODULE Induction ------------------------------
(* Induction without an operator parameter. What is to be proved for every n is *)
(* the set of the n for which it holds; a recursive definition steps by a       *)
(* function of functions. That every set of numbers has a least one comes from  *)
(* the well-foundedness of strict inclusion of finite sets: the least number is *)
(* that of the smallest of the intervals up to a member.                        *)
(* Then what the proofs need of sequences put one after the other and cut, and  *)
(* that a growing chain of subsets of a finite set stops.                       *)
EXTENDS Integers, FiniteSetTheorems, SequenceTheorems, WellFoundedInduction, TLAPS

\* A set of natural numbers that is not empty has a least member.
LEMMA LeastMember ==
  ASSUME NEW S \in SUBSET Nat, S # {}
  PROVE  \E m \in S : \A n \in S : m <= n
<1> DEFINE R == StrictSubsetOrdering(Nat)
           T == {0 .. n : n \in S}
<1>1. IsWellFoundedOn(R, FiniteSubsetsOf(Nat))
  BY FS_StrictSubsetOrderingWellFounded
<1>2. T \subseteq FiniteSubsetsOf(Nat)
  <2>1. \A n \in S : 0 .. n \subseteq Nat /\ IsFiniteSet(0 .. n) BY FS_Interval
  <2> QED BY <2>1 DEF FiniteSubsetsOf
<1>3. T # {} OBVIOUS
<1>4. PICK x \in T : \A y \in T : ~(<<y, x>> \in R)
  <2> HIDE DEF R, T
  <2> QED BY <1>1, <1>2, <1>3, WFMin
<1>5. PICK m \in S : x = 0 .. m OBVIOUS
<1>6. \A n \in S : m <= n
  <2> SUFFICES ASSUME NEW n \in S, n < m PROVE FALSE OBVIOUS
  <2>1. 0 .. n \subseteq 0 .. m /\ m \in 0 .. m /\ m \notin 0 .. n OBVIOUS
  <2>2. <<0 .. n, x>> \in R BY <2>1, <1>5 DEF StrictSubsetOrdering
  <2> QED BY <2>2, <1>4
<1> QED BY <1>6

\* Induction: a set with 0 that has n + 1 with every n has all numbers.
LEMMA AllNumbers ==
  ASSUME NEW S, 0 \in S, \A n \in Nat : n \in S => n + 1 \in S
  PROVE  Nat \subseteq S
<1> SUFFICES ASSUME Nat \ S # {} PROVE FALSE OBVIOUS
<1>1. PICK m \in Nat \ S : \A n \in Nat \ S : m <= n BY LeastMember
<1>2. m - 1 \in Nat /\ m - 1 \in S BY <1>1
<1> QED BY <1>1, <1>2

\* The same from one number up to another.
LEMMA AllBetween ==
  ASSUME NEW a \in Int, NEW b \in Int, NEW S, a \in S,
         \A n \in a .. b - 1 : n \in S => n + 1 \in S
  PROVE  a .. b \subseteq S
<1> DEFINE T == {n \in Nat : a + n <= b => a + n \in S}
<1>1. 0 \in T OBVIOUS
<1>2. ASSUME NEW n \in Nat, n \in T PROVE n + 1 \in T
  <2>1. CASE a + n + 1 <= b
    <3>1. a + n \in S /\ a + n \in a .. b - 1 BY <1>2, <2>1
    <3>2. a + n + 1 \in S BY <3>1
    <3> QED BY <3>2
  <2>2. CASE ~(a + n + 1 <= b) BY <2>2
  <2> QED BY <2>1, <2>2
<1>3. Nat \subseteq T
  <2> HIDE DEF T
  <2> QED BY <1>1, <1>2, AllNumbers
<1>4. ASSUME NEW n \in a .. b PROVE n \in S
  <2>1. n - a \in Nat /\ a + (n - a) = n OBVIOUS
  <2> QED BY <1>3, <2>1
<1> QED BY <1>4

\* A finite set of integers that is not empty has a greatest member.
LEMMA GreatestMember ==
  ASSUME NEW b \in Int, NEW S \in SUBSET Int, S # {}, \A n \in S : n <= b
  PROVE  \E m \in S : \A n \in S : n <= m
<1> DEFINE T == {b - n : n \in S}
<1>1. T \in SUBSET Nat /\ T # {}
  <2>1. \A n \in S : b - n \in Nat OBVIOUS
  <2> QED BY <2>1
<1>2. PICK k \in T : \A l \in T : k <= l
  <2> HIDE DEF T
  <2> QED BY <1>1, LeastMember
<1>3. PICK m \in S : k = b - m OBVIOUS
<1>4. \A n \in S : b - m <= b - n BY <1>2, <1>3
<1> QED BY <1>4

----------------------------------------------------------------------------
\* The function f has been defined up to n: it starts with v and goes on by F.
DefinedUpTo(n, f, V, v, F) ==
  /\ f \in [0 .. n -> V] /\ f[0] = v
  /\ \A i \in 0 .. n - 1 : f[i + 1] = F[i][f[i]]

\* There is one that is defined for all numbers.
Defined(f, V, v, F) ==
  f \in [Nat -> V] /\ f[0] = v /\ \A n \in Nat : f[n + 1] = F[n][f[n]]

\* A recursive definition over the numbers has a function that satisfies it.
LEMMA Recursion ==
  ASSUME NEW V, NEW v \in V, NEW F \in [Nat -> [V -> V]]
  PROVE  \E f : Defined(f, V, v, F)
<1> DEFINE Good(n, f) == DefinedUpTo(n, f, V, v, F)
           S == {n \in Nat : \E f : Good(n, f)}
<1>1. 0 \in S
  <2>1. Good(0, [i \in 0 .. 0 |-> v]) BY DEF DefinedUpTo
  <2> HIDE DEF Good
  <2> QED BY <2>1
<1>2. ASSUME NEW n \in Nat, n \in S PROVE n + 1 \in S
  <2>1. PICK f : Good(n, f) BY <1>2
  <2> DEFINE g == [i \in 0 .. n + 1 |-> IF i = n + 1 THEN F[n][f[n]] ELSE f[i]]
  <2>2. F[n][f[n]] \in V BY <2>1 DEF DefinedUpTo
  <2>3. g \in [0 .. n + 1 -> V] BY <2>1, <2>2 DEF DefinedUpTo
  <2>4. g[0] = v BY <2>1 DEF DefinedUpTo
  <2>5. ASSUME NEW i \in 0 .. n PROVE g[i + 1] = F[i][g[i]] BY <2>1 DEF DefinedUpTo
  <2>6. Good(n + 1, g)
    <3> HIDE DEF g
    <3> QED BY <2>3, <2>4, <2>5 DEF DefinedUpTo
  <2> HIDE DEF g, Good
  <2> QED BY <2>6
<1>3. Nat \subseteq S
  <2> HIDE DEF S
  <2> QED BY <1>1, <1>2, AllNumbers
<1>4. ASSUME NEW n \in Nat, NEW m \in Nat, n <= m, NEW f, NEW g, Good(n, f), Good(m, g)
      PROVE  \A i \in 0 .. n : f[i] = g[i]
  <2> DEFINE E == {i \in 0 .. n : f[i] = g[i]}
  <2>1. 0 \in E BY <1>4 DEF DefinedUpTo
  <2>2. \A i \in 0 .. n - 1 : i \in E => i + 1 \in E BY <1>4 DEF DefinedUpTo
  <2>3. 0 .. n \subseteq E
    <3> HIDE DEF E
    <3> QED BY <2>1, <2>2, AllBetween
  <2> QED BY <2>3
<1> DEFINE h == [n \in Nat |-> CHOOSE f : Good(n, f)]
<1>5. ASSUME NEW n \in Nat PROVE Good(n, h[n])
  <2>1. \E f : Good(n, f) BY <1>3
  <2>2. h[n] = CHOOSE f : Good(n, f) OBVIOUS
  <2> HIDE DEF Good, h
  <2> QED BY <2>1, <2>2
<1> HIDE DEF h
<1> DEFINE r == [n \in Nat |-> h[n][n]]
<1>6. r \in [Nat -> V]
  <2>1. \A n \in Nat : h[n][n] \in V BY <1>5 DEF DefinedUpTo
  <2> QED BY <2>1
<1>7. r[0] = v BY <1>5 DEF DefinedUpTo
<1>8. ASSUME NEW n \in Nat PROVE r[n + 1] = F[n][r[n]]
  <2>1. Good(n, h[n]) /\ Good(n + 1, h[n + 1]) BY <1>5
  <2>2. h[n][n] = h[n + 1][n]
    <3> HIDE DEF Good
    <3> QED BY <2>1, <1>4
  <2>3. h[n + 1][n + 1] = F[n][h[n + 1][n]]
    <3>1. n + 1 \in Nat /\ n \in 0 .. (n + 1) - 1 OBVIOUS
    <3> QED BY <2>1, <3>1 DEF DefinedUpTo
  <2> QED BY <2>2, <2>3
<1> HIDE DEF r
<1>9. Defined(r, V, v, F) BY <1>6, <1>7, <1>8 DEF Defined
<1> QED BY <1>9

\* The sequences of a sequence one after the other, as FlattenSeq of SequencesExt has
\* them: h[i] is what the first i of them make.
Flattens(h, n, s) == h = [i \in 1 .. n |-> IF i = 1 THEN s[i] ELSE h[i - 1] \o s[i]]

\* What the first k of them make, from none on.
Prefixes(u, C, n, s, h) ==
  /\ u \in [0 .. n -> Seq(C)] /\ u[0] = <<>>
  /\ \A k \in 1 .. n : u[k] = u[k - 1] \o s[k] /\ u[k] = h[k]

\* The concatenation of a sequence of sequences grows by one of them at a time.
LEMMA Concatenation ==
  ASSUME NEW C, NEW n \in Nat, NEW s \in [1 .. n -> Seq(C)], NEW h, Flattens(h, n, s)
  PROVE  \E u : Prefixes(u, C, n, s, h)
<1> DEFINE u == [k \in 0 .. n |-> IF k = 0 THEN <<>> ELSE h[k]]
           E == {i \in 1 .. n : h[i] \in Seq(C)}
<1>1. n # 0 => h[1] = s[1] BY DEF Flattens
<1>2. ASSUME NEW i \in 1 .. n - 1 PROVE h[i + 1] = h[i] \o s[i + 1]
  <2>1. i + 1 \in 1 .. n /\ i + 1 # 1 /\ (i + 1) - 1 = i OBVIOUS
  <2> QED BY <2>1 DEF Flattens
<1>3. 1 .. n \subseteq E
  <2>1. CASE n = 0 BY <2>1
  <2>2. CASE n # 0
    <3>1. 1 \in E BY <1>1, <2>2
    <3>2. ASSUME NEW i \in 1 .. n - 1, i \in E PROVE i + 1 \in E
      <4>1. i + 1 \in 1 .. n /\ s[i + 1] \in Seq(C) OBVIOUS
      <4>2. h[i + 1] = h[i] \o s[i + 1] /\ h[i] \in Seq(C) BY <3>2, <1>2
      <4>3. h[i + 1] \in Seq(C)
        <5> HIDE DEF E
        <5> QED BY <4>1, <4>2
      <4> QED BY <4>1, <4>3
    <3>3. 1 \in Int /\ n \in Int /\ (\A i \in 1 .. n - 1 : i \in E => i + 1 \in E) BY <3>2
    <3> HIDE DEF E
    <3> QED BY <3>1, <3>3, AllBetween
  <2> QED BY <2>1, <2>2
<1>4. u \in [0 .. n -> Seq(C)] /\ u[0] = <<>> BY <1>3
<1>5. ASSUME NEW k \in 1 .. n PROVE u[k] = u[k - 1] \o s[k] /\ u[k] = h[k]
  <2>1. CASE k = 1 BY <2>1, <1>1
  <2>2. CASE k # 1
    <3>1. k - 1 \in 1 .. n - 1 /\ (k - 1) + 1 = k BY <2>2
    <3>2. h[k] = h[k - 1] \o s[k] BY <3>1, <1>2
    <3>3. u[k] = h[k] /\ u[k - 1] = h[k - 1] BY <3>1
    <3> HIDE DEF u
    <3> QED BY <3>2, <3>3
  <2> QED BY <2>1, <2>2
<1> HIDE DEF u
<1>6. Prefixes(u, C, n, s, h) BY <1>4, <1>5 DEF Prefixes
<1> QED BY <1>6

\* There is such an h.
LEMMA ConcatenationDefined ==
  ASSUME NEW C, NEW n \in Nat, NEW s \in [1 .. n -> Seq(C)]
  PROVE  \E h : Flattens(h, n, s)
<1> DEFINE F == [k \in Nat |-> [x \in Seq(C) |-> IF k < n THEN x \o s[k + 1] ELSE x]]
<1>1. F \in [Nat -> [Seq(C) -> Seq(C)]]
  <2>1. \A k \in Nat, x \in Seq(C) : k < n => x \o s[k + 1] \in Seq(C) OBVIOUS
  <2> QED BY <2>1
<1>2. <<>> \in Seq(C) OBVIOUS
<1>3. PICK f : Defined(f, Seq(C), <<>>, F)
  <2> HIDE DEF F
  <2> QED BY <1>1, <1>2, Recursion
<1>0. f \in [Nat -> Seq(C)] /\ f[0] = <<>> /\ \A k \in Nat : f[k + 1] = F[k][f[k]]
  BY <1>3 DEF Defined
<1>4. ASSUME NEW i \in 1 .. n PROVE f[i] = IF i = 1 THEN s[i] ELSE f[i - 1] \o s[i]
  <2>1. i - 1 \in Nat /\ i - 1 < n /\ (i - 1) + 1 = i OBVIOUS
  <2>2. f[i] = F[i - 1][f[i - 1]] BY <1>0, <2>1
  <2>3. F[i - 1][f[i - 1]] = f[i - 1] \o s[i] BY <1>0, <2>1
  <2>4. i = 1 => f[i - 1] \o s[i] = s[i]
    <3>1. s[i] \in Seq(C) OBVIOUS
    <3>2. <<>> \o s[i] = s[i] BY <3>1
    <3>3. i = 1 => f[i - 1] = <<>> BY <1>0
    <3> HIDE DEF F
    <3> QED BY <3>2, <3>3
  <2> QED BY <2>2, <2>3, <2>4
<1> DEFINE h == [i \in 1 .. n |-> f[i]]
<1>5. h = [i \in 1 .. n |-> IF i = 1 THEN s[i] ELSE h[i - 1] \o s[i]]
  <2> DEFINE w == [i \in 1 .. n |-> IF i = 1 THEN s[i] ELSE h[i - 1] \o s[i]]
  <2>1. ASSUME NEW i \in 1 .. n PROVE h[i] = w[i]
    <3>1. i # 1 => i - 1 \in 1 .. n OBVIOUS
    <3> QED BY <3>1, <1>4
  <2>2. h = [i \in 1 .. n |-> h[i]] /\ w = [i \in 1 .. n |-> w[i]] OBVIOUS
  <2> HIDE DEF h, w
  <2>3. h = w BY <2>1, <2>2
  <2> QED BY <2>3 DEF w
<1> HIDE DEF h
<1> QED BY <1>5 DEF Flattens

----------------------------------------------------------------------------
(* Laws of concatenation, each for the sequences over one set.                   *)
Associates(C) == \A a, b, c \in Seq(C) : (a \o b) \o c = a \o (b \o c)
Cancels(C)    == \A a, b, c \in Seq(C) : a \o b = a \o c => b = c
HasUnit(C)    == \A a \in Seq(C) : <<>> \o a = a /\ a \o <<>> = a

\* Concatenation is associative, may be cancelled on the left, and has a unit.
LEMMA ConcatenationLaws == \A C : Associates(C) /\ Cancels(C) /\ HasUnit(C)
<1>1. ASSUME NEW C PROVE Associates(C)
  <2>1. \A a, b, c \in Seq(C) : (a \o b) \o c = a \o (b \o c) BY ConcatAssociative
  <2> QED BY <2>1 DEF Associates
<1>2. ASSUME NEW C PROVE Cancels(C)
  <2>1. \A a, b, c \in Seq(C) : a \o b = a \o c => b = c BY ConcatSimplifications
  <2> QED BY <2>1 DEF Cancels
<1>3. ASSUME NEW C PROVE HasUnit(C) BY ConcatEmptySeq DEF HasUnit
<1> QED BY <1>1, <1>2, <1>3

\* A sequence with one more, and others behind.
LEMMA AppendThenConcat ==
  ASSUME NEW C, NEW s \in Seq(C), NEW c \in C, NEW t \in Seq(C)
  PROVE  Append(s, c) \o t = s \o (<<c>> \o t)
<1> DEFINE e == <<c>>
<1>1. e \in Seq(C) OBVIOUS
<1>2. Append(s, c) = s \o e BY AppendIsConcat
<1> HIDE DEF e
<1>3. (s \o e) \o t = s \o (e \o t) BY <1>1, ConcatAssociative
<1> QED BY <1>2, <1>3 DEF e

\* A sequence is what it was cut into.
LEMMA Cut ==
  ASSUME NEW C, NEW s \in Seq(C), NEW n \in 0 .. Len(s)
  PROVE  /\ SubSeq(s, 1, n) \in Seq(C) /\ SubSeq(s, n + 1, Len(s)) \in Seq(C)
         /\ SubSeq(s, 1, n) \o SubSeq(s, n + 1, Len(s)) = s
<1> DEFINE a == SubSeq(s, 1, n)
           b == SubSeq(s, n + 1, Len(s))
<1>1. \A i \in 1 .. Len(s) : s[i] \in C BY ElementOfSeq
<1>2. a \in Seq(C) /\ Len(a) = n /\ \A i \in 1 .. n : a[i] = s[i]
  BY <1>1, SubSeqProperties
<1>3. b \in Seq(C) /\ Len(b) = Len(s) - n /\ \A i \in 1 .. Len(s) - n : b[i] = s[n + i]
  BY <1>1, SubSeqProperties
<1> HIDE DEF a, b
<1>0. Len(s) \in Nat /\ n \in Nat /\ n <= Len(s) OBVIOUS
<1>4. Len(a \o b) = Len(s) /\ a \o b \in Seq(C)
  <2>1. a \o b \in Seq(C) /\ Len(a \o b) = Len(a) + Len(b) BY <1>2, <1>3, ConcatProperties
  <2> QED BY <2>1, <1>0, <1>2, <1>3
<1>5. \A i \in 1 .. Len(s) : (a \o b)[i] = s[i]
  <2> SUFFICES ASSUME NEW i \in 1 .. Len(s) PROVE (a \o b)[i] = s[i] OBVIOUS
  <2>0. (a \o b)[i] = IF i <= n THEN a[i] ELSE b[i - n]
    <3>1. i \in 1 .. Len(a) + Len(b) BY <1>0, <1>2, <1>3
    <3>2. (a \o b)[i] = IF i <= Len(a) THEN a[i] ELSE b[i - Len(a)]
      BY <3>1, <1>2, <1>3, ConcatProperties
    <3> QED BY <3>2, <1>2
  <2>1. CASE i <= n BY <2>0, <2>1, <1>2
  <2>2. CASE n < i
    <3>2. i - n \in 1 .. Len(s) - n /\ n + (i - n) = i BY <2>2, <1>0
    <3> QED BY <2>0, <2>2, <3>2, <1>3, <1>0
  <2>3. i \in Int /\ n \in Int BY <1>0
  <2>4. i <= n \/ n < i BY <2>3
  <2> QED BY <2>1, <2>2, <2>4
<1>6. a \o b = s BY <1>4, <1>5, SeqEqual
<1> QED BY <1>2, <1>3, <1>6 DEF a, b

\* The same around its element at n.
LEMMA CutAt ==
  ASSUME NEW C, NEW s \in Seq(C), NEW n \in 1 .. Len(s)
  PROVE  /\ SubSeq(s, 1, n - 1) \in Seq(C) /\ SubSeq(s, n + 1, Len(s)) \in Seq(C)
         /\ s = SubSeq(s, 1, n - 1) \o (<<s[n]>> \o SubSeq(s, n + 1, Len(s)))
<1>1. n - 1 \in 0 .. Len(s) /\ n \in 0 .. Len(s) /\ (n - 1) + 1 = n OBVIOUS
<1>2. /\ SubSeq(s, 1, n - 1) \in Seq(C) /\ SubSeq(s, 1, n - 1) \o SubSeq(s, n, Len(s)) = s
  BY <1>1, Cut
<1>3. SubSeq(s, n + 1, Len(s)) \in Seq(C) BY <1>1, Cut
<1>4. SubSeq(s, n, Len(s)) = <<s[n]>> \o SubSeq(s, n + 1, Len(s))
  <2>1. Len(s) \in n .. Len(s) OBVIOUS
  <2> QED BY <2>1, SubSeqRecursiveFirst
<1> QED BY <1>2, <1>3, <1>4

-----------------------------------------------------------------------------
\* A chain of subsets of a finite set that goes on from its last member alone has
\* stopped after as many steps as the set has elements.
Chain(f, S) == /\ \A k \in Nat : f[k] \subseteq S /\ f[k] \subseteq f[k + 1]
               /\ \A k \in Nat : f[k] = f[k + 1] => f[k + 1] = f[k + 2]

\* Every such chain stops.
LEMMA ChainStops ==
  ASSUME NEW S, IsFiniteSet(S), NEW f, Chain(f, S)
  PROVE  f[Cardinality(S)] = f[Cardinality(S) + 1]
<1> DEFINE Q == {k \in Nat : Cardinality(f[k]) >= k \/ f[k] = f[k + 1]}
<1>1. \A k \in Nat : IsFiniteSet(f[k]) /\ Cardinality(f[k]) \in Nat
  BY FS_Subset, FS_CardinalityType DEF Chain
<1>2. 0 \in Q BY <1>1
<1>3. ASSUME NEW k \in Nat, k \in Q PROVE k + 1 \in Q
  <2>1. CASE f[k] = f[k + 1]
    <3>1. f[k + 1] = f[k + 2] BY <2>1 DEF Chain
    <3>2. (k + 1) + 1 = k + 2 /\ k + 1 \in Nat OBVIOUS
    <3> QED BY <3>1, <3>2
  <2>2. CASE f[k] # f[k + 1]
    <3>1. k + 1 \in Nat /\ f[k] \subseteq f[k + 1] BY DEF Chain
    <3>2. Cardinality(f[k]) >= k BY <1>3, <2>2
    <3>3. /\ Cardinality(f[k]) <= Cardinality(f[k + 1])
          /\ Cardinality(f[k + 1]) = Cardinality(f[k]) => f[k + 1] = f[k]
      BY <1>1, <3>1, FS_Subset
    <3>4. Cardinality(f[k + 1]) >= k + 1 BY <1>1, <2>2, <3>1, <3>2, <3>3
    <3> QED BY <3>1, <3>4
  <2> QED BY <2>1, <2>2
<1>4. Nat \subseteq Q
  <2> HIDE DEF Q
  <2> QED BY <1>2, <1>3, AllNumbers
<1> DEFINE n == Cardinality(S)
<1>5. n \in Nat BY FS_CardinalityType
<1>6. n \in Q BY <1>4, <1>5
<1> HIDE DEF n
<1>7. CASE Cardinality(f[n]) >= n
  <2>1. f[n] \subseteq S /\ f[n + 1] \subseteq S /\ f[n] \subseteq f[n + 1]
    BY <1>5 DEF Chain
  <2>2. Cardinality(f[n]) <= n /\ (n = Cardinality(f[n]) => S = f[n])
    BY <2>1, FS_Subset DEF n
  <2>3. f[n] = S BY <1>1, <1>5, <1>7, <2>2
  <2> QED BY <2>1, <2>3 DEF n
<1> QED BY <1>6, <1>7 DEF n
=============================================================================
