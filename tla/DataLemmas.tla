---------------------------- MODULE DataLemmas -----------------------------
(***************************************************************************)
(* Lemmas that several proofs need.  Induction, stated of sets instead of  *)
(* predicates so that it can be cited for any of them, and what it gives:  *)
(* the functions that are defined by recursion over a sequence or over the *)
(* subsets of a finite set exist.  What the operators on sequences do.     *)
(***************************************************************************)
EXTENDS Integers, Sequences, FiniteSetTheorems, WellFoundedInduction, TLAPS

(* A set of natural numbers has a least one. *)
LEMMA LeastOf ==
  ASSUME NEW S \in SUBSET Nat, S # {}
  PROVE  \E n \in S : \A m \in S : n <= m
  <1> DEFINE R == OpToRel(<, Nat)
  <1>1. IsWellFoundedOn(R, Nat)
    BY NatLessThanWellFounded
  <1>2. \A x, y \in Nat : <<x, y>> \in R <=> x < y
    BY DEF OpToRel
  <1> HIDE DEF R
  <1>3. PICK n \in S : \A m \in S : ~(<<m, n>> \in R)
    BY <1>1, WFMin
  <1>4. ASSUME NEW m \in S PROVE n <= m
    <2>1. n \in Nat /\ m \in Nat /\ ~(<<m, n>> \in R)
      BY <1>3
    <2>2. ~(m < n)
      BY <1>2, <2>1
    <2> QED BY <2>1, <2>2
  <1> QED BY <1>4

(* A set of numbers up to N has a greatest one. *)
LEMMA GreatestOf ==
  ASSUME NEW N \in Nat, NEW S \in SUBSET (0 .. N), S # {}
  PROVE  \E n \in S : \A m \in S : m <= n
  <1> DEFINE Gaps == {N - n : n \in S}
  <1>1. Gaps \in SUBSET Nat /\ Gaps # {}
    <2>1. \A n \in S : n \in 0 .. N /\ N - n \in Nat
      OBVIOUS
    <2> QED BY <2>1
  <1>2. PICK g \in Gaps : \A h \in Gaps : g <= h
    <2> HIDE DEF Gaps
    <2> QED BY <1>1, LeastOf
  <1>3. PICK n \in S : g = N - n
    OBVIOUS
  <1>4. ASSUME NEW m \in S PROVE m <= n
    <2>1. g <= N - m
      BY <1>2
    <2> QED BY <1>3, <2>1
  <1> QED BY <1>4

(* Induction up to a number: what holds of 0, and of the successors of     *)
(* those it holds of.                                                      *)
LEMMA UpTo ==
  ASSUME NEW N \in Nat, NEW S, 0 \in S, \A n \in 0 .. N - 1 : n \in S => n + 1 \in S
  PROVE  0 .. N \subseteq S
  <1> SUFFICES ASSUME (0 .. N) \ S # {} PROVE FALSE
    OBVIOUS
  <1> DEFINE Rest == (0 .. N) \ S
  <1>2. Rest \in SUBSET Nat /\ Rest # {}
    OBVIOUS
  <1>1. PICK n \in Rest : \A m \in Rest : n <= m
    <2> HIDE DEF Rest
    <2> QED BY <1>2, LeastOf
  <1> QED BY <1>1

(* Induction over a finite set, one element at a time. *)
LEMMA OneByOne ==
  ASSUME NEW S, IsFiniteSet(S), NEW F, {} \in F,
         \A T \in SUBSET S : \A x \in S \ T : T \in F => T \cup {x} \in F
  PROVE  S \in F
  <1> DEFINE Sizes == {Cardinality(S \ T) : T \in F \cap SUBSET S}
  <1>1. \A T \in SUBSET S : Cardinality(S \ T) \in Nat /\ IsFiniteSet(S \ T)
    BY FS_Subset, FS_CardinalityType
  <1>2. Sizes \in SUBSET Nat /\ Sizes # {}
    BY <1>1
  <1> HIDE DEF Sizes
  <1>3. PICK n \in Sizes : \A m \in Sizes : n <= m
    BY <1>2, LeastOf
  <1>4. PICK T \in F \cap SUBSET S : n = Cardinality(S \ T)
    BY DEF Sizes
  <1>5. CASE S \ T = {}
    <2>1. S = T /\ T \in F
      BY <1>4, <1>5
    <2> QED BY <2>1, Zenon
  <1>6. CASE S \ T # {}
    <2>1. PICK x \in S \ T : TRUE
      BY <1>6
    <2>2. T \cup {x} \in F \cap SUBSET S
      BY <1>4, <2>1
    <2>3. S \ (T \cup {x}) = (S \ T) \ {x}
      OBVIOUS
    <2>4. Cardinality(S \ (T \cup {x})) = n - 1
      <3>1. IsFiniteSet(S \ T) /\ x \in S \ T /\ n = Cardinality(S \ T)
        BY <1>1, <1>4, <2>1
      <3>2. Cardinality((S \ T) \ {x}) = n - 1
        BY <3>1, FS_RemoveElement
      <3> QED BY <2>3, <3>2
    <2>5. Cardinality(S \ (T \cup {x})) \in Sizes
      BY <2>2 DEF Sizes
    <2>6. n \in Nat /\ n - 1 \in Sizes
      BY <1>2, <2>4, <2>5
    <2>7. n <= n - 1
      BY <1>3, <2>6
    <2> QED BY <2>6, <2>7
  <1> QED BY <1>5, <1>6

(* A family of subsets of a finite set has one that no longer is in the    *)
(* family whichever element is taken from it.                              *)
LEMMA LeastSubset ==
  ASSUME NEW S, IsFiniteSet(S), NEW F \in SUBSET SUBSET S, F # {}
  PROVE  \E T \in F : \A x \in T : T \ {x} \notin F
  <1> DEFINE Sizes == {Cardinality(T) : T \in F}
  <1>1. \A T \in F : Cardinality(T) \in Nat /\ IsFiniteSet(T)
    BY FS_Subset, FS_CardinalityType
  <1>2. Sizes \in SUBSET Nat /\ Sizes # {}
    BY <1>1
  <1> HIDE DEF Sizes
  <1>3. PICK n \in Sizes : \A m \in Sizes : n <= m
    BY <1>2, LeastOf
  <1>4. PICK T \in F : n = Cardinality(T)
    BY DEF Sizes
  <1>5. ASSUME NEW x \in T, T \ {x} \in F PROVE FALSE
    <2>1. IsFiniteSet(T) /\ n \in Nat
      BY <1>1, <1>4
    <2>2. Cardinality(T \ {x}) = n - 1
      BY <1>4, <2>1, FS_RemoveElement
    <2>3. n - 1 \in Sizes
      BY <1>5, <2>2 DEF Sizes
    <2>4. n <= n - 1
      BY <1>3, <2>3
    <2> QED BY <2>1, <2>4
  <1> QED BY <1>5

-----------------------------------------------------------------------------
(* f sums the first i numbers of w, for i up to n. *)
Sums(n, w, f) ==
  /\ f[0] = 0
  /\ \A i \in 1 .. n : f[i] = f[i - 1] + w[i]

LEMMA SumsExist ==
  ASSUME NEW N \in Nat, NEW w \in [1 .. N -> Nat]
  PROVE  \E f \in [0 .. N -> Nat] : Sums(N, w, f)
  <1> DEFINE Summed == {n \in 0 .. N : \E f \in [0 .. N -> Nat] : Sums(n, w, f)}
  <1>1. 0 \in Summed
    <2> DEFINE f == [i \in 0 .. N |-> 0]
    <2>1. f \in [0 .. N -> Nat] /\ Sums(0, w, f)
      BY DEF Sums
    <2> QED BY <2>1
  <1>2. ASSUME NEW n \in 0 .. N - 1, n \in Summed PROVE n + 1 \in Summed
    <2>1. PICK f \in [0 .. N -> Nat] : Sums(n, w, f)
      BY <1>2
    <2> DEFINE g == [f EXCEPT ![n + 1] = f[n] + w[n + 1]]
    <2>2. g \in [0 .. N -> Nat]
      OBVIOUS
    <2>4. ASSUME NEW i \in 1 .. n + 1 PROVE g[i] = g[i - 1] + w[i]
      <3>1. i \in 0 .. N /\ i - 1 \in 0 .. N /\ g[i - 1] = f[i - 1]
        OBVIOUS
      <3>2. CASE i = n + 1
        BY <3>1, <3>2
      <3>3. CASE i # n + 1
        <4>1. i \in 1 .. n /\ g[i] = f[i]
          BY <3>1, <3>3
        <4> QED BY <2>1, <3>1, <4>1 DEF Sums
      <3> QED BY <3>2, <3>3
    <2>5. g[0] = 0
      BY <2>1 DEF Sums
    <2>3. Sums(n + 1, w, g)
      BY <2>4, <2>5 DEF Sums
    <2> HIDE DEF g
    <2> QED BY <2>2, <2>3
  <1> HIDE DEF Summed
  <1>3. 0 .. N \subseteq Summed
    BY <1>1, <1>2, UpTo
  <1>4. N \in Summed
    BY <1>3
  <1> QED BY <1>4 DEF Summed

(* An element of a set. *)
Some(S) == CHOOSE x \in S : TRUE

LEMMA SomeIsIn ==
  ASSUME NEW S, S # {}
  PROVE  Some(S) \in S
  BY DEF Some

(* g sums w over the subsets of S of at most n elements, each taking its   *)
(* elements in whatever order they are chosen.                             *)
SetSums(S, n, w, g) ==
  \A T \in SUBSET S : Cardinality(T) <= n =>
    g[T] = IF T = {} THEN 0 ELSE w[Some(T)] + g[T \ {Some(T)}]

LEMMA SetSumsExist ==
  ASSUME NEW S, IsFiniteSet(S), NEW w \in [S -> Nat]
  PROVE  \E g \in [SUBSET S -> Nat] : SetSums(S, Cardinality(S), w, g)
  <1> DEFINE Summed == {n \in Nat : \E g \in [SUBSET S -> Nat] : SetSums(S, n, w, g)}
  <1>1. ASSUME NEW T \in SUBSET S
        PROVE  /\ IsFiniteSet(T) /\ Cardinality(T) \in Nat
               /\ Cardinality(T) = 0 <=> T = {}
    BY FS_Subset, FS_CardinalityType, FS_EmptySet
  <1>2. ASSUME NEW T \in SUBSET S, T # {}
        PROVE  Some(T) \in T /\ Cardinality(T \ {Some(T)}) = Cardinality(T) - 1
    <2>1. Some(T) \in T
      BY <1>2, SomeIsIn
    <2> QED BY <1>1, <2>1, FS_RemoveElement
  <1>3. 0 \in Summed
    <2> DEFINE g == [T \in SUBSET S |-> 0]
    <2>1. g \in [SUBSET S -> Nat]
      OBVIOUS
    <2>2. SetSums(S, 0, w, g)
      <3>1. \A T \in SUBSET S : Cardinality(T) <= 0 => T = {}
        BY <1>1
      <3> QED BY <2>1, <3>1 DEF SetSums
    <2> HIDE DEF g
    <2> QED BY <2>1, <2>2
  <1>4. ASSUME NEW n \in Nat, n \in Summed PROVE n + 1 \in Summed
    <2>1. PICK f \in [SUBSET S -> Nat] : SetSums(S, n, w, f)
      BY <1>4
    <2> DEFINE g == [T \in SUBSET S |->
                       IF Cardinality(T) = n + 1 THEN w[Some(T)] + f[T \ {Some(T)}] ELSE f[T]]
    <2>2. \A T \in SUBSET S : Cardinality(T) = n + 1 => T # {}
      BY <1>1
    <2>3. g \in [SUBSET S -> Nat]
      BY <1>2, <2>2
    <2>4. ASSUME NEW T \in SUBSET S, Cardinality(T) <= n + 1
          PROVE  g[T] = IF T = {} THEN 0 ELSE w[Some(T)] + g[T \ {Some(T)}]
      <3>1. CASE T = {}
        <4>1. Cardinality(T) = 0
          BY <1>1, <3>1
        <4> QED BY <2>1, <3>1, <4>1 DEF SetSums
      <3>2. CASE T # {}
        <4>1. Cardinality(T) \in Nat /\ Cardinality(T \ {Some(T)}) = Cardinality(T) - 1
          <5>1. Cardinality(T) \in Nat
            BY <1>1
          <5> QED BY <1>2, <3>2, <5>1
        <4>2. T \ {Some(T)} \in SUBSET S
          OBVIOUS
        <4>3. g[T \ {Some(T)}] = f[T \ {Some(T)}]
          <5>1. Cardinality(T \ {Some(T)}) # n + 1
            BY <2>4, <4>1
          <5> QED BY <4>2, <5>1
        <4>4. CASE Cardinality(T) = n + 1
          BY <3>2, <4>3, <4>4
        <4>5. CASE Cardinality(T) # n + 1
          <5>1. Cardinality(T) <= n /\ g[T] = f[T]
            BY <2>4, <4>1, <4>5
          <5> HIDE DEF g
          <5> QED BY <2>1, <3>2, <4>3, <5>1 DEF SetSums
        <4> QED BY <4>4, <4>5
      <3> QED BY <3>1, <3>2
    <2> HIDE DEF g
    <2>5. SetSums(S, n + 1, w, g)
      BY <2>4 DEF SetSums
    <2> QED BY <2>3, <2>5
  <1> HIDE DEF Summed
  <1>5. Cardinality(S) \in Nat
    BY FS_CardinalityType
  <1>6. 0 .. Cardinality(S) \subseteq Summed
    <2>1. \A n \in 0 .. Cardinality(S) - 1 : n \in Summed => n + 1 \in Summed
      BY <1>4
    <2> QED BY <1>3, <1>5, <2>1, UpTo
  <1>7. Cardinality(S) \in Summed
    BY <1>5, <1>6
  <1> QED BY <1>7 DEF Summed

-----------------------------------------------------------------------------
(* Sequences.                                                              *)

(* What appending does to a sequence. *)
LEMMA Appended ==
  ASSUME NEW S, NEW s \in Seq(S), NEW e \in S
  PROVE  /\ Append(s, e) \in Seq(S)
         /\ Len(Append(s, e)) = Len(s) + 1
         /\ DOMAIN Append(s, e) = DOMAIN s \cup {Len(s) + 1}
         /\ \A i \in DOMAIN s : Append(s, e)[i] = s[i]
         /\ Append(s, e)[Len(s) + 1] = e
  OBVIOUS

(* What a sequence is that has one element more than another. *)
LEMMA IsAppended ==
  ASSUME NEW T, NEW q \in Seq(T), NEW x \in T, NEW f \in Seq(T), Len(f) = Len(q) + 1,
         \A k \in 1 .. Len(q) : f[k] = q[k], f[Len(q) + 1] = x
  PROVE  f = Append(q, x)
  <1> DEFINE A == Append(q, x)
             n == Len(q)
  <1>1. A \in Seq(T) /\ Len(A) = n + 1 /\ n \in Nat /\ (\A k \in 1 .. n : A[k] = q[k]) /\ A[n + 1] = x
    OBVIOUS
  <1> HIDE DEF A
  <1>2. A = [k \in 1 .. n + 1 |-> A[k]]
    <2>1. A \in [1 .. n + 1 -> T]
      BY <1>1
    <2> QED BY <2>1
  <1>3. ASSUME NEW k \in 1 .. n + 1 PROVE A[k] = f[k]
    <2>1. k \in 1 .. n \/ k = n + 1
      BY <1>1
    <2> QED BY <1>1, <2>1
  <1>4. f = [k \in 1 .. n + 1 |-> f[k]]
    <2>1. f \in [1 .. n + 1 -> T]
      BY <1>1
    <2> QED BY <2>1
  <1> QED BY <1>2, <1>3, <1>4 DEF A

(* A function on 1 .. n is a sequence. *)
LEMMA ListOf ==
  ASSUME NEW S, NEW n \in Nat, NEW f \in [1 .. n -> S]
  PROVE  f \in Seq(S) /\ Len(f) = n /\ DOMAIN f = 1 .. n
  OBVIOUS

(* A sequence cut after its first k elements, and one put before another. *)
LEMMA Cut ==
  ASSUME NEW T, NEW q \in Seq(T), NEW k \in 0 .. Len(q)
  PROVE  /\ SubSeq(q, 1, k) \in Seq(T) /\ Len(SubSeq(q, 1, k)) = k
         /\ \A i \in 1 .. k : SubSeq(q, 1, k)[i] = q[i]
         /\ SubSeq(q, k + 1, Len(q)) \in Seq(T) /\ Len(SubSeq(q, k + 1, Len(q))) = Len(q) - k
         /\ \A i \in 1 .. Len(q) - k : SubSeq(q, k + 1, Len(q))[i] = q[i + k]
  OBVIOUS

LEMMA Joined ==
  ASSUME NEW T, NEW q \in Seq(T), NEW r \in Seq(T)
  PROVE  /\ q \o r \in Seq(T) /\ Len(q \o r) = Len(q) + Len(r)
         /\ \A i \in 1 .. Len(q) : (q \o r)[i] = q[i]
         /\ \A i \in 1 .. Len(r) : (q \o r)[Len(q) + i] = r[i]
  OBVIOUS

(* What is before the n-th of a sequence stays where it is when the n-th   *)
(* is taken out.                                                           *)
LEMMA TakenOut ==
  ASSUME NEW T, NEW s \in Seq(T), NEW n \in DOMAIN s,
         NEW t, t = SubSeq(s, 1, n - 1) \o SubSeq(s, n + 1, Len(s))
  PROVE  /\ t \in Seq(T)
         /\ \A k \in DOMAIN s : k < n => k \in DOMAIN t /\ t[k] = s[k]
  <1>1. n \in 1 .. Len(s) /\ Len(s) \in Nat
    OBVIOUS
  <1> DEFINE q == SubSeq(s, 1, n - 1)
             r == SubSeq(s, n + 1, Len(s))
  <1>2. q \in Seq(T) /\ Len(q) = n - 1 /\ \A k \in 1 .. n - 1 : q[k] = s[k]
    <2>1. n - 1 \in 0 .. Len(s)
      BY <1>1
    <2> QED BY <2>1, Cut
  <1>3. r \in Seq(T)
    <2>1. n \in 0 .. Len(s)
      BY <1>1
    <2> QED BY <2>1, Cut
  <1> HIDE DEF q, r
  <1>4. /\ q \o r \in Seq(T) /\ Len(q \o r) = n - 1 + Len(r) /\ Len(r) \in Nat
        /\ \A k \in 1 .. n - 1 : (q \o r)[k] = s[k]
    BY <1>2, <1>3, Joined
  <1>5. t = q \o r
    BY DEF q, r
  <1>6. \A k \in DOMAIN s : k < n => k \in 1 .. n - 1
    OBVIOUS
  <1>7. \A k \in 1 .. n - 1 : k \in DOMAIN (q \o r)
    BY <1>1, <1>4
  <1> QED BY <1>4, <1>5, <1>6, <1>7

(* A set of positions is finite. *)
LEMMA PositionsFinite ==
  ASSUME NEW n \in Nat, NEW S \in SUBSET (1 .. n)
  PROVE  /\ IsFiniteSet(S) /\ Cardinality(S) \in Nat
         /\ Cardinality(S) = 0 <=> S = {}
         /\ \A i \in S : i \in Nat /\ 1 <= i /\ i <= n
  <1>1. IsFiniteSet(1 .. n)
    BY FS_Interval
  <1>2. IsFiniteSet(S)
    BY <1>1, FS_Subset
  <1>3. Cardinality(S) \in Nat /\ (Cardinality(S) = 0 <=> S = {})
    BY <1>2, FS_CardinalityType, FS_EmptySet
  <1>4. ASSUME NEW i \in S PROVE i \in Nat /\ 1 <= i /\ i <= n
    <2>1. i \in 1 .. n
      OBVIOUS
    <2> QED BY <2>1
  <1> QED BY <1>2, <1>3, <1>4
=============================================================================
