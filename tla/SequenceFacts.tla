--------------------------- MODULE SequenceFacts ---------------------------
(***************************************************************************)
(* Induction over numbers, and what it shows of FlattenSeq, for sequences  *)
(* of any length.  The theorems of the library that say the same take an   *)
(* operator as a parameter; here a set takes its place.                    *)
(***************************************************************************)
EXTENDS Integers, SequencesExt, SequenceTheorems, WellFoundedInduction, TLAPS

\* A set of numbers that is not empty has a least.
LEMMA LeastNat ==
    ASSUME NEW T \in SUBSET Nat, T # {}
    PROVE  \E m \in T : \A k \in T : m =< k
<1> DEFINE R == OpToRel(<, Nat)
<1>1. IsWellFoundedOn(R, Nat)
  BY NatLessThanWellFounded
<1>2. \A k, m \in Nat : k < m => <<k, m>> \in R
  BY DEF OpToRel
<1> HIDE DEF R
<1>3. PICK m \in T : \A k \in T : ~(<<k, m>> \in R)
  BY <1>1, WFMin
<1>4. ASSUME NEW k \in T PROVE m =< k
  <2>1. ~(k < m)
    BY <1>2, <1>3
  <2> QED
    BY <2>1
<1> QED
  BY <1>4

\* A set of numbers that has a bound has a largest.
LEMMA LargestNat ==
    ASSUME NEW T \in SUBSET Nat, T # {}, NEW n \in Nat, \A k \in T : k =< n
    PROVE  Max(T) \in T /\ \A k \in T : Max(T) >= k
<1> DEFINE U == {m \in Nat : \A k \in T : k =< m}
           R == OpToRel(<, Nat)
<1>1. IsWellFoundedOn(R, Nat)
  BY NatLessThanWellFounded
<1>2. \A k, m \in Nat : k < m => <<k, m>> \in R
  BY DEF OpToRel
<1>3. U \in SUBSET Nat /\ U # {}
  OBVIOUS
<1> HIDE DEF R
<1>4. PICK m \in U : \A k \in U : ~(<<k, m>> \in R)
  BY <1>1, <1>3, WFMin
<1>5. m \in T
  <2> SUFFICES ASSUME m \notin T PROVE FALSE
    OBVIOUS
  <2>1. \A k \in T : k \in Nat /\ k < m
    BY <1>4
  <2>2. m - 1 \in U /\ m - 1 < m
    <3>1. PICK k \in T : k \in Nat /\ k < m
      BY <2>1
    <3>2. m \in Nat /\ m - 1 \in Nat /\ \A j \in T : j =< m - 1
      BY <1>4, <2>1, <3>1
    <3> QED
      BY <3>2
  <2> QED
    BY <1>2, <1>4, <2>2
<1>6. \A k \in T : m >= k
  BY <1>4
<1> QED
  BY <1>5, <1>6 DEF Max

\* A set of numbers with 0 and the successor of each that it has.
LEMMA InductionUpTo ==
    ASSUME NEW n \in Nat, NEW T, 0 \in T, \A k \in 0 .. n - 1 : k \in T => k + 1 \in T
    PROVE  \A k \in 0 .. n : k \in T
<1> DEFINE U == {k \in 0 .. n : k \notin T}
<1> SUFFICES ASSUME U # {} PROVE FALSE
  OBVIOUS
<1>1. U \in SUBSET Nat
  OBVIOUS
<1>2. PICK m \in U : \A k \in U : m =< k
  BY <1>1, LeastNat
<1>3. m \in 1 .. n
  BY <1>2
<1>4. m - 1 \in 0 .. n - 1 /\ m - 1 \notin U
  BY <1>2, <1>3
<1>5. m - 1 \in T
  BY <1>4
<1>6. m - 1 + 1 \in T
  BY <1>4, <1>5
<1> QED
  BY <1>2, <1>3, <1>6

LEMMA Associative ==
    ASSUME NEW S
    PROVE  \A s, t, u \in Seq(S) : (s \o t) \o u = s \o (t \o u)
BY ConcatAssociative

LEMMA ConcatAppend ==
    ASSUME NEW S
    PROVE  \A s, t \in Seq(S), e \in S : s \o Append(t, e) = Append(s \o t, e)
<1> TAKE s, t \in Seq(S), e \in S
<1> DEFINE a == s \o Append(t, e)
           b == Append(s \o t, e)
<1>1. a \in Seq(S) /\ b \in Seq(S) /\ Len(a) = Len(b) /\ Len(a) \in Nat
  OBVIOUS
<1>2. \A i \in 1 .. Len(a) : a[i] = b[i]
  OBVIOUS
<1> HIDE DEF a, b
<1>3. a = b
  BY <1>1, <1>2, SeqEqual, SMTT(30)
<1> QED
  BY <1>3 DEF a, b
-----------------------------------------------------------------------------
(***************************************************************************)
(* FlattenSeq, one sequence at a time.                                     *)
(***************************************************************************)
Flat(s) == CHOOSE f : f = [i \in 1 .. Len(s) |-> IF i = 1 THEN s[i] ELSE f[i - 1] \o s[i]]

LEMMA FlatExists ==
    ASSUME NEW S, NEW s \in Seq(Seq(S))
    PROVE  Flat(s) = [i \in 1 .. Len(s) |-> IF i = 1 THEN s[i] ELSE Flat(s)[i - 1] \o s[i]]
<1> DEFINE Part(n, f) == f = [i \in 1 .. n |-> IF i = 1 THEN s[i] ELSE f[i - 1] \o s[i]]
           T == {n \in Nat : \E f : Part(n, f)}
<1>1. 0 \in T
  <2>1. Part(0, << >>)
    OBVIOUS
  <2> QED
    BY <2>1
<1>2. ASSUME NEW n \in 0 .. Len(s) - 1, n \in T PROVE n + 1 \in T
  <2>1. PICK f : Part(n, f)
    BY <1>2
  <2> DEFINE g == [i \in 1 .. n + 1 |-> IF i = 1 THEN s[i] ELSE f[i - 1] \o s[i]]
  <2>2. \A i \in 1 .. n : f[i] = IF i = 1 THEN s[i] ELSE f[i - 1] \o s[i]
    BY <2>1
  <2>3. \A i \in 1 .. n + 1 : g[i] = IF i = 1 THEN s[i] ELSE f[i - 1] \o s[i]
    OBVIOUS
  <2>4. \A i \in 1 .. n + 1 : i # 1 => i - 1 \in 1 .. n /\ i - 1 \in 1 .. n + 1
    OBVIOUS
  <2>5. \A i \in 1 .. n : g[i] = f[i]
    BY <2>2, <2>3
  <2>6. \A i \in 1 .. n + 1 : g[i] = IF i = 1 THEN s[i] ELSE g[i - 1] \o s[i]
    BY <2>3, <2>4, <2>5
  <2>7. Part(n + 1, g)
    BY <2>6
  <2>8. n + 1 \in Nat
    OBVIOUS
  <2> HIDE DEF g, Part
  <2> QED
    BY <2>7, <2>8
<1>3. Len(s) \in Nat
  OBVIOUS
<1> HIDE DEF T
<1>4. Len(s) \in T
  <2>1. \A k \in 0 .. Len(s) : k \in T
    BY <1>1, <1>2, <1>3, InductionUpTo
  <2> QED
    BY <1>3, <2>1
<1> QED
  BY <1>4 DEF T, Flat

LEMMA FlatStep ==
    ASSUME NEW S, NEW s \in Seq(Seq(S)), NEW n \in 1 .. Len(s)
    PROVE  Flat(s)[n] = IF n = 1 THEN s[n] ELSE Flat(s)[n - 1] \o s[n]
<1> DEFINE f == Flat(s)
<1>1. f = [i \in 1 .. Len(s) |-> IF i = 1 THEN s[i] ELSE f[i - 1] \o s[i]]
  BY FlatExists
<1> HIDE DEF f
<1>2. f[n] = IF n = 1 THEN s[n] ELSE f[n - 1] \o s[n]
  BY <1>1
<1> QED
  BY <1>2 DEF f

LEMMA FlattenIsFlat ==
    ASSUME NEW s, Len(s) # 0
    PROVE  FlattenSeq(s) = Flat(s)[Len(s)]
BY DEF FlattenSeq, Flat

LEMMA FlatType ==
    ASSUME NEW S, NEW s \in Seq(Seq(S)), NEW n \in 1 .. Len(s)
    PROVE  Flat(s)[n] \in Seq(S)
<1> DEFINE T == {0} \cup {i \in 1 .. Len(s) : Flat(s)[i] \in Seq(S)}
<1>1. \A i \in 1 .. Len(s) : Flat(s)[i] = IF i = 1 THEN s[i] ELSE Flat(s)[i - 1] \o s[i]
  BY FlatStep
<1>2. ASSUME NEW k \in 0 .. Len(s) - 1, k \in T PROVE k + 1 \in T
  <2>1. k + 1 \in 1 .. Len(s) /\ s[k + 1] \in Seq(S)
    OBVIOUS
  <2>2. CASE k = 0
    BY <1>1, <2>1, <2>2
  <2>3. CASE k # 0
    <3>1. Flat(s)[k] \in Seq(S)
      BY <1>2, <2>3
    <3>2. Flat(s)[k + 1] = Flat(s)[k] \o s[k + 1]
      <4>1. PICK j \in 1 .. Len(s) : j = k + 1
        BY <2>1
      <4>2. j # 1 /\ j - 1 = k
        BY <2>3, <4>1
      <4>3. Flat(s)[j] = Flat(s)[j - 1] \o s[j]
        BY <1>1, <4>2
      <4> QED
        BY <4>1, <4>2, <4>3
    <3>3. Flat(s)[k] \o s[k + 1] \in Seq(S)
      BY <2>1, <3>1, ConcatProperties
    <3> QED
      BY <2>1, <3>2, <3>3
  <2> QED
    BY <2>2, <2>3
<1>3. 0 \in T /\ Len(s) \in Nat
  OBVIOUS
<1> HIDE DEF T
<1>4. \A k \in 0 .. Len(s) : k \in T
  BY <1>2, <1>3, InductionUpTo
<1>5. n \in T /\ n # 0
  BY <1>3, <1>4
<1> QED
  BY <1>5 DEF T

\* Up to a position, Flat depends on what is up to there.
LEMMA FlatSame ==
    ASSUME NEW S, NEW s \in Seq(Seq(S)), NEW t \in Seq(Seq(S)),
           NEW n \in 1 .. Len(s), n =< Len(t), \A i \in 1 .. n : s[i] = t[i]
    PROVE  Flat(s)[n] = Flat(t)[n]
<1> DEFINE T == {0} \cup {i \in 1 .. n : Flat(s)[i] = Flat(t)[i]}
<1>1. /\ \A i \in 1 .. Len(s) : Flat(s)[i] = IF i = 1 THEN s[i] ELSE Flat(s)[i - 1] \o s[i]
      /\ \A i \in 1 .. Len(t) : Flat(t)[i] = IF i = 1 THEN t[i] ELSE Flat(t)[i - 1] \o t[i]
  BY FlatStep
<1>2. ASSUME NEW k \in 0 .. n - 1, k \in T PROVE k + 1 \in T
  <2>1. k + 1 \in 1 .. n /\ k + 1 \in 1 .. Len(s) /\ k + 1 \in 1 .. Len(t)
    OBVIOUS
  <2>2. s[k + 1] = t[k + 1]
    BY <2>1
  <2>3. CASE k = 0
    BY <1>1, <2>1, <2>2, <2>3
  <2>4. CASE k # 0
    <3>1. Flat(s)[k] = Flat(t)[k]
      BY <1>2, <2>4
    <3> QED
      BY <1>1, <2>1, <2>2, <2>4, <3>1
  <2> QED
    BY <2>3, <2>4
<1>3. 0 \in T /\ n \in Nat
  OBVIOUS
<1> HIDE DEF T
<1>4. n \in T /\ n # 0
  <2>1. \A k \in 0 .. n : k \in T
    BY <1>2, <1>3, InductionUpTo
  <2> QED
    BY <1>3, <2>1
<1> QED
  BY <1>4 DEF T

LEMMA FlattenEmpty == FlattenSeq(<< >>) = << >>
BY DEF FlattenSeq

LEMMA FlattenType ==
    ASSUME NEW S, NEW s \in Seq(Seq(S))
    PROVE  FlattenSeq(s) \in Seq(S)
<1>1. CASE Len(s) = 0
  <2>1. s = << >>
    BY <1>1
  <2>2. << >> \in Seq(S)
    OBVIOUS
  <2> QED
    BY <2>1, <2>2, FlattenEmpty
<1>2. CASE Len(s) # 0
  <2>1. Len(s) \in 1 .. Len(s)
    BY <1>2
  <2> QED
    BY <1>2, <2>1, FlatType, FlattenIsFlat
<1> QED
  BY <1>1, <1>2

LEMMA FlattenAppend ==
    ASSUME NEW S, NEW s \in Seq(Seq(S)), NEW e \in Seq(S)
    PROVE  FlattenSeq(Append(s, e)) = FlattenSeq(s) \o e
<1> DEFINE t == Append(s, e)
           n == Len(s)
<1>1. /\ n \in Nat /\ t \in Seq(Seq(S)) /\ Len(t) = n + 1 /\ t[n + 1] = e
      /\ \A i \in 1 .. n : t[i] = s[i]
  OBVIOUS
<1> HIDE DEF t, n
<1>2. FlattenSeq(t) = Flat(t)[n + 1]
  BY <1>1, FlattenIsFlat
<1>3. Flat(t)[n + 1] = IF n + 1 = 1 THEN t[n + 1] ELSE Flat(t)[n + 1 - 1] \o t[n + 1]
  <2>1. \A i \in 1 .. Len(t) : Flat(t)[i] = IF i = 1 THEN t[i] ELSE Flat(t)[i - 1] \o t[i]
    BY <1>1, FlatStep
  <2> QED
    BY <1>1, <2>1
<1>4. CASE n = 0
  <2>1. s = << >>
    BY <1>4 DEF n
  <2>2. << >> \o e = e
    OBVIOUS
  <2> QED
    BY <1>1, <1>2, <1>3, <1>4, <2>1, <2>2, FlattenEmpty DEF t
<1>5. CASE n # 0
  <2>1. n \in 1 .. n /\ n \in 1 .. Len(t) /\ n = Len(s) /\ n + 1 # 1 /\ n + 1 - 1 = n
        /\ n \in 1 .. Len(s) /\ n =< Len(t)
    BY <1>1, <1>5 DEF n
  <2>2. Flat(s)[n] = Flat(t)[n]
    <3>1. \A i \in 1 .. n : s[i] = t[i]
      BY <1>1
    <3> QED
      BY <1>1, <2>1, <3>1, FlatSame, Zenon
  <2>3. FlattenSeq(s) = Flat(s)[n]
    BY <1>5, <2>1, FlattenIsFlat
  <2> QED
    BY <1>1, <1>2, <1>3, <2>1, <2>2, <2>3 DEF t
<1> QED
  BY <1>4, <1>5

\* Joining and flattening commute.
LEMMA FlattenConcat ==
    ASSUME NEW S, NEW s \in Seq(Seq(S)), NEW t \in Seq(Seq(S))
    PROVE  FlattenSeq(s \o t) = FlattenSeq(s) \o FlattenSeq(t)
<1>a. \A x, y, z \in Seq(S) : (x \o y) \o z = x \o (y \o z)
  BY Associative, SMTT(30)
<1>b. \A x, y \in Seq(Seq(S)), z \in Seq(S) :
         x \o Append(y, z) = Append(x \o y, z) /\ x \o y \in Seq(Seq(S))
  BY ConcatAppend, ConcatProperties, SMTT(30)
<1> DEFINE Upto(n) == SubSeq(t, 1, n)
           T == {n \in 0 .. Len(t) :
                   FlattenSeq(s \o Upto(n)) = FlattenSeq(s) \o FlattenSeq(Upto(n))}
<1>1. Len(t) \in Nat /\ FlattenSeq(s) \in Seq(S)
  BY FlattenType
<1>2. 0 \in T
  <2>1. Upto(0) = << >> /\ s \o << >> = s /\ FlattenSeq(s) \o << >> = FlattenSeq(s)
    BY <1>1, ConcatEmptySeq
  <2> QED
    <3>1. s \o Upto(0) = s /\ FlattenSeq(Upto(0)) = << >>
      BY <2>1, FlattenEmpty
    <3>2. FlattenSeq(s \o Upto(0)) = FlattenSeq(s) \o FlattenSeq(Upto(0))
      BY <2>1, <3>1
    <3>3. 0 \in 0 .. Len(t)
      BY <1>1
    <3> QED
      BY <3>2, <3>3
<1>3. ASSUME NEW n \in 0 .. Len(t) - 1, n \in T PROVE n + 1 \in T
  <2> DEFINE u == Upto(n)
             e == t[n + 1]
  <2>1. u \in Seq(Seq(S)) /\ e \in Seq(S) /\ n + 1 \in 0 .. Len(t)
    OBVIOUS
  <2>2. Upto(n + 1) = Append(u, e)
    OBVIOUS
  <2>3. FlattenSeq(s \o u) = FlattenSeq(s) \o FlattenSeq(u)
    BY <1>3
  <2> HIDE DEF u, e
  <2>4. s \o Append(u, e) = Append(s \o u, e) /\ s \o u \in Seq(Seq(S))
    <3>1. u \in Seq(Seq(S)) /\ e \in Seq(S)
      BY <2>1
    <3> QED
      BY <1>b, <3>1, Zenon
  <2>5. FlattenSeq(Append(s \o u, e)) = FlattenSeq(s \o u) \o e
    BY <2>1, <2>4, FlattenAppend
  <2>6. FlattenSeq(Append(u, e)) = FlattenSeq(u) \o e /\ FlattenSeq(u) \in Seq(S)
    BY <2>1, FlattenAppend, FlattenType
  <2>7. (FlattenSeq(s) \o FlattenSeq(u)) \o e = FlattenSeq(s) \o (FlattenSeq(u) \o e)
    <3> DEFINE a == FlattenSeq(s)
               b == FlattenSeq(u)
    <3>1. a \in Seq(S) /\ b \in Seq(S) /\ e \in Seq(S)
      BY <1>1, <2>1, <2>6
    <3> HIDE DEF a, b
    <3>2. (a \o b) \o e = a \o (b \o e)
      BY <1>a, <3>1, Zenon
    <3> QED
      BY <3>2 DEF a, b
  <2> QED
    BY <2>1, <2>2, <2>3, <2>4, <2>5, <2>6, <2>7
<1> HIDE DEF T
<1>4. Len(t) \in T
  <2>1. \A k \in 0 .. Len(t) : k \in T
    BY <1>1, <1>2, <1>3, InductionUpTo
  <2> QED
    BY <1>1, <2>1
<1>5. SubSeq(t, 1, Len(t)) = t
  OBVIOUS
<1> QED
  BY <1>4, <1>5 DEF T

LEMMA FlattenOne ==
    ASSUME NEW S, NEW e \in Seq(S)
    PROVE  FlattenSeq(<<e>>) = e
<1>1. << >> \in Seq(Seq(S)) /\ Append(<< >>, e) = <<e>> /\ << >> \o e = e
  OBVIOUS
<1> QED
  BY <1>1, FlattenAppend, FlattenEmpty

\* A sequence is taken apart in two, with an empty one before it.
LEMMA FlattenSplit ==
    ASSUME NEW S
    PROVE  \A s, t \in Seq(Seq(S)) : \A i \in 1 .. Len(s) :
             /\ Len(t) = Len(s) + 2
             /\ \A a \in 1 .. Len(t) : a < i => t[a] = s[a]
             /\ \A a \in 1 .. Len(t) : a > i + 2 => t[a] = s[a - 2]
             /\ t[i] = << >> /\ s[i] = t[i + 1] \o t[i + 2]
             => FlattenSeq(t) = FlattenSeq(s)
<1>a. \A x, y, z \in Seq(S) : x \o y \in Seq(S) /\ (x \o y) \o z = x \o (y \o z)
  BY Associative, ConcatProperties, SMTT(30)
<1>b. \A s \in Seq(Seq(S)) : \A n \in 1 .. Len(s) :
        Flat(s)[n] = IF n = 1 THEN s[n] ELSE Flat(s)[n - 1] \o s[n]
  BY FlatStep
<1>g. \A s \in Seq(Seq(S)) : \A n \in 1 .. Len(s) : n # 1 => Flat(s)[n] = Flat(s)[n - 1] \o s[n]
  BY <1>b, Zenon
<1>c. \A s \in Seq(Seq(S)) : Len(s) \in Nat /\ \A n \in 1 .. Len(s) : Flat(s)[n] \in Seq(S) /\ s[n] \in Seq(S)
  BY FlatType
<1>d. \A s, t \in Seq(Seq(S)) : \A n \in 1 .. Len(s) :
        n =< Len(t) /\ (\A j \in 1 .. n : s[j] = t[j]) => Flat(s)[n] = Flat(t)[n]
  BY FlatSame
<1>e. << >> \in Seq(S) /\ \A x \in Seq(S) : x \o << >> = x /\ << >> \o x = x
  OBVIOUS
<1>0. SUFFICES ASSUME NEW s \in Seq(Seq(S)), NEW t \in Seq(Seq(S)), NEW i \in 1 .. Len(s),
                      Len(t) = Len(s) + 2,
                      \A a \in 1 .. Len(t) : a < i => t[a] = s[a],
                      \A a \in 1 .. Len(t) : a > i + 2 => t[a] = s[a - 2],
                      t[i] = << >>, s[i] = t[i + 1] \o t[i + 2]
               PROVE  FlattenSeq(t) = FlattenSeq(s)
  BY Zenon
<1> DEFINE p == IF i = 1 THEN << >> ELSE Flat(s)[i - 1]
           x == t[i + 1]
           y == t[i + 2]
<1>1. /\ Len(s) \in Nat /\ i \in Nat \ {0} /\ i =< Len(s) /\ Len(t) = Len(s) + 2
      /\ i + 1 \in 1 .. Len(t) /\ i + 2 \in 1 .. Len(t) /\ i \in 1 .. Len(t)
  BY <1>c, <1>0
<1>2. x \in Seq(S) /\ y \in Seq(S) /\ s[i] \in Seq(S)
  BY <1>c, <1>0, <1>1
<1>3. p \in Seq(S)
  BY <1>c, <1>e, <1>1, <1>0
<1>4. Flat(t)[i] = p
  <2>1. CASE i = 1
    BY <1>b, <1>0, <1>1, <2>1
  <2>2. CASE i # 1
    <3>1. i - 1 \in 1 .. Len(s) /\ i - 1 \in 1 .. Len(t) /\ i - 1 =< Len(s)
          /\ \A a \in 1 .. i - 1 : a \in 1 .. Len(t) /\ a < i
      BY <1>1, <2>2
    <3>2. \A a \in 1 .. i - 1 : t[a] = s[a]
      BY <1>0, <3>1
    <3>3. Flat(t)[i - 1] = Flat(s)[i - 1]
      BY <1>0, <1>d, <3>1, <3>2
    <3>4. Flat(t)[i] = Flat(t)[i - 1] \o t[i]
      BY <1>0, <1>1, <1>g, <2>2
    <3> QED
      BY <1>0, <1>3, <1>e, <2>2, <3>3, <3>4
  <2> QED
    BY <2>1, <2>2
<1>5. Flat(s)[i] = p \o s[i]
  BY <1>0, <1>1, <1>2, <1>b, <1>e
<1>6. Flat(t)[i + 2] = Flat(s)[i]
  <2>1. PICK j, l \in 1 .. Len(t) :
           j = i + 1 /\ l = i + 2 /\ j # 1 /\ l # 1 /\ j - 1 = i /\ l - 1 = j
    BY <1>1, SMTT(30)
  <2> HIDE DEF p
  <2>2. Flat(t)[j] = p \o t[j]
    <3>1. Flat(t)[j] = Flat(t)[j - 1] \o t[j]
      BY <1>g, <2>1, Zenon
    <3>2. Flat(t)[j - 1] = p
      BY <1>4, <2>1, Zenon
    <3> QED
      BY <3>1, <3>2, Zenon
  <2>3. Flat(t)[l] = (p \o t[j]) \o t[l]
    <3>1. Flat(t)[l] = Flat(t)[l - 1] \o t[l]
      BY <1>g, <2>1, Zenon
    <3>2. Flat(t)[l - 1] = Flat(t)[j]
      BY <2>1, Zenon
    <3> QED
      BY <2>2, <3>1, <3>2, Zenon
  <2>4. Flat(t)[i + 2] = (p \o x) \o y
    BY <2>1, <2>3
  <2>5. (p \o x) \o y = p \o s[i]
    <3>1. s[i] = x \o y
      BY <1>0
    <3> HIDE DEF x, y
    <3>2. (p \o x) \o y = p \o (x \o y)
      BY <1>2, <1>3, <1>a, Zenon
    <3> QED
      BY <3>1, <3>2
  <2> QED
    BY <1>5, <2>4, <2>5
<1> HIDE DEF p, x, y
<1> DEFINE n == Len(s) - i
           T == {k \in 0 .. n : Flat(t)[i + k + 2] = Flat(s)[i + k]}
<1>7. 0 \in T /\ n \in Nat
  BY <1>1, <1>6
<1>8. ASSUME NEW k \in 0 .. n - 1, k \in T PROVE k + 1 \in T
  <2>1. PICK j \in Nat : j = i + k + 1
    BY <1>1
  <2>2. /\ j \in 1 .. Len(s) /\ j # 1 /\ j - 1 = i + k
        /\ j + 2 \in 1 .. Len(t) /\ j + 2 # 1 /\ (j + 2) - 1 = i + k + 2 /\ (j + 2) - 2 = j
        /\ j + 2 > i + 2
    BY <1>1, <2>1
  <2>3. Flat(s)[j] = Flat(s)[i + k] \o s[j]
    BY <1>0, <1>g, <2>2
  <2>4. Flat(t)[j + 2] = Flat(t)[i + k + 2] \o t[j + 2]
    BY <1>0, <1>g, <2>2
  <2>5. t[j + 2] = s[j]
    BY <1>0, <2>2
  <2>6. Flat(t)[j + 2] = Flat(s)[j]
    BY <1>8, <2>3, <2>4, <2>5
  <2>7. k + 1 \in 0 .. n /\ i + (k + 1) = j /\ i + (k + 1) + 2 = j + 2
    BY <1>1, <2>1
  <2> QED
    BY <2>6, <2>7
<1> HIDE DEF T
<1>9. n \in T
  <2> HIDE DEF n
  <2>1. \A k \in 0 .. n : k \in T
    BY <1>7, <1>8, InductionUpTo
  <2> QED
    BY <1>7, <2>1
<1>10. Flat(t)[Len(t)] = Flat(s)[Len(s)]
  <2>1. i + n = Len(s) /\ i + n + 2 = Len(t)
    BY <1>1
  <2> QED
    BY <1>9, <2>1 DEF T
<1>11. Len(s) # 0 /\ Len(t) # 0
  BY <1>1
<1>12. FlattenSeq(s) = Flat(s)[Len(s)] /\ FlattenSeq(t) = Flat(t)[Len(t)]
  BY <1>11, FlattenIsFlat, Zenon
<1> QED
  BY <1>10, <1>12
=============================================================================
