-------------------------- MODULE SubsequenceProofs -------------------------
(***************************************************************************)
(* What the proofs about logs and conversations need to know of Picked.    *)
(***************************************************************************)
EXTENDS Subsequence, FiniteSetTheorems, WellFoundedInduction, TLAPS

-----------------------------------------------------------------------------
(* Induction, over sets of numbers.                                        *)

\* A set of numbers that is not empty has a least element.
LEMMA LeastNumber ==
    ASSUME NEW T \in SUBSET Nat, T # {}
    PROVE  \E n \in T : \A k \in T : n <= k
<1> DEFINE Less == {p \in Nat \X Nat : p[1] < p[2]}
<1>1. OpToRel(<, Nat) = Less
  BY Zenon DEF OpToRel
<1>2. IsWellFoundedOn(Less, Nat)
  BY <1>1, NatLessThanWellFounded, Zenon
<1>3. \A x, y \in Nat : x < y => <<x, y>> \in Less
  OBVIOUS
<1> HIDE DEF Less
<1>4. PICK n \in T : \A k \in T : ~(<<k, n>> \in Less)
  BY <1>2, WFMin, Zenon
<1>5. \A k \in T : ~(k < n)
  BY <1>3, <1>4
<1>6. \A k \in T : n <= k
  BY <1>5
<1> QED BY <1>6

\* A set that holds 0 and, up to m, the successor of what it holds, holds
\* every number up to m.
LEMMA InductionUpTo ==
    ASSUME NEW m \in Nat, NEW S, 0 \in S,
           \A n \in 0 .. m : n \in S /\ n < m => n + 1 \in S
    PROVE  \A n \in 0 .. m : n \in S
<1> DEFINE T == (0 .. m) \ S
<1> SUFFICES ASSUME T # {} PROVE FALSE
  OBVIOUS
<1>0. T \in SUBSET Nat
  OBVIOUS
<1>1. PICK n \in T : \A k \in T : n <= k
  <2> HIDE DEF T
  <2> QED BY <1>0, LeastNumber
<1>2. n \in 0 .. m /\ n \notin S /\ n # 0
  BY <1>1
<1>3. n - 1 \in 0 .. m /\ n - 1 < m /\ (n - 1) + 1 = n
  BY <1>2
<1>4. n - 1 \notin T
  BY <1>1, <1>2
<1> QED BY <1>2, <1>3, <1>4

-----------------------------------------------------------------------------
(* Positions.                                                              *)

\* Positions of a finite interval form a finite set, and so do those up to i.
LEMMA PositionsFinite ==
    ASSUME NEW m \in Nat, NEW D \in SUBSET (1 .. m)
    PROVE  /\ IsFiniteSet(D) /\ Cardinality(D) \in Nat
           /\ \A i : /\ IsFiniteSet({j \in D : j <= i})
                     /\ Rank(D, i) \in 0 .. Cardinality(D)
<1>1. IsFiniteSet(1 .. m)
  BY FS_Interval
<1>2. IsFiniteSet(D) /\ Cardinality(D) \in Nat
  BY <1>1, FS_Subset, FS_CardinalityType
<1>3. ASSUME NEW i
      PROVE  IsFiniteSet({j \in D : j <= i}) /\ Rank(D, i) \in 0 .. Cardinality(D)
  <2>1. {j \in D : j <= i} \in SUBSET D
    OBVIOUS
  <2>2. /\ IsFiniteSet({j \in D : j <= i})
        /\ Cardinality({j \in D : j <= i}) <= Cardinality(D)
        /\ Cardinality({j \in D : j <= i}) \in Nat
    BY <1>2, <2>1, FS_Subset, FS_CardinalityType
  <2> QED BY <1>2, <2>2 DEF Rank
<1> QED BY <1>2, <1>3

\* Later positions have a higher rank, and the ranks of positions count from 1.
LEMMA RankIncreases ==
    ASSUME NEW m \in Nat, NEW D \in SUBSET (1 .. m), NEW i \in D
    PROVE  /\ Rank(D, i) \in 1 .. Cardinality(D)
           /\ \A k \in D : i < k => Rank(D, i) < Rank(D, k)
<1> DEFINE upto(k) == {j \in D : j <= k}
<1>1. /\ \A k : IsFiniteSet(upto(k)) /\ Rank(D, k) = Cardinality(upto(k))
      /\ \A k : Rank(D, k) \in 0 .. Cardinality(D)
      /\ Cardinality(D) \in Nat
  BY PositionsFinite DEF Rank
<1>2. upto(i) # {}
  <2>1. i \in upto(i)
    OBVIOUS
  <2> QED BY <2>1
<1>3. Cardinality(upto(i)) # 0
  <2> HIDE DEF upto
  <2> QED BY <1>1, <1>2, FS_EmptySet
<1>4. ASSUME NEW k \in D, i < k
      PROVE  Rank(D, i) < Rank(D, k)
  <2>1. i \in Int /\ k \in Int /\ D \subseteq Int
    OBVIOUS
  <2>a. \A j \in D : j <= i => j <= k
    BY <1>4, <2>1
  <2>b. k <= k /\ ~(k <= i)
    BY <1>4, <2>1
  <2>2. upto(i) \in SUBSET upto(k) /\ k \in upto(k) /\ k \notin upto(i)
    BY <2>a, <2>b, Zenon
  <2> HIDE DEF upto
  <2>3. upto(i) # upto(k)
    BY <2>2
  <2>4. Cardinality(upto(i)) <= Cardinality(upto(k)) /\ Cardinality(upto(i)) # Cardinality(upto(k))
    BY <1>1, <2>2, <2>3, FS_Subset
  <2> QED BY <1>1, <2>4
<1> QED BY <1>1, <1>3, <1>4

\* There is exactly one n-th position.
LEMMA NthPosition ==
    ASSUME NEW m \in Nat, NEW D \in SUBSET (1 .. m), NEW n \in 1 .. Cardinality(D)
    PROVE  /\ Nth(D, n) \in D
           /\ Rank(D, Nth(D, n)) = n
           /\ \A i \in D : Rank(D, i) = n => i = Nth(D, n)
<1> DEFINE rank == [i \in D |-> Rank(D, i)]
           T == 1 .. Cardinality(D)
<1>1. IsFiniteSet(D) /\ Cardinality(D) \in Nat
  BY PositionsFinite
<1>2. IsFiniteSet(T) /\ Cardinality(T) = Cardinality(D)
  BY <1>1, FS_Interval
<1>3. \A i, k \in D : Rank(D, i) = Rank(D, k) => i = k
  <2>1. \A i \in D : /\ Rank(D, i) \in 1 .. Cardinality(D)
                     /\ \A k \in D : i < k => Rank(D, i) < Rank(D, k)
    BY RankIncreases
  <2>2. \A i, k \in D : i < k \/ k < i \/ i = k
    OBVIOUS
  <2> QED BY <1>1, <2>1, <2>2
<1>4. rank \in Injection(D, T)
  <2>1. rank \in [D -> T]
    BY RankIncreases
  <2> QED BY <2>1, <1>3 DEF Injection, IsInjective
<1>5. rank \in Surjection(D, T)
  <2> HIDE DEF rank, T
  <2> QED BY <1>1, <1>2, <1>4, FS_Injection
<1>6. \E i \in D : Rank(D, i) = n
  BY <1>5 DEF Surjection
<1>7. Nth(D, n) \in D /\ Rank(D, Nth(D, n)) = n
  BY <1>6 DEF Nth
<1> QED BY <1>3, <1>7

-----------------------------------------------------------------------------

\* Picked(s, D) is a sequence with one element for each position.
LEMMA PickedType ==
    ASSUME NEW S, NEW s \in Seq(S), NEW D \in SUBSET (1 .. Len(s))
    PROVE  /\ Picked(s, D) \in Seq(S)
           /\ Len(Picked(s, D)) = Cardinality(D)
           /\ DOMAIN Picked(s, D) = 1 .. Cardinality(D)
           /\ \A n \in 1 .. Cardinality(D) : Picked(s, D)[n] = s[Nth(D, n)]
<1>1. Len(s) \in Nat /\ \A i \in 1 .. Len(s) : s[i] \in S
  OBVIOUS
<1>2. Cardinality(D) \in Nat /\ \A n \in 1 .. Cardinality(D) : Nth(D, n) \in D
  BY <1>1, PositionsFinite, NthPosition
<1>3. \A n \in 1 .. Cardinality(D) : s[Nth(D, n)] \in S
  BY <1>1, <1>2, Zenon
<1> QED BY <1>2, <1>3 DEF Picked

\* Picking nothing.
LEMMA PickedNone ==
    ASSUME NEW S, NEW s \in Seq(S)
    PROVE  Picked(s, {}) = <<>>
<1>1. Cardinality({}) = 0
  BY FS_EmptySet
<1>2. {} \in SUBSET (1 .. Len(s))
  OBVIOUS
<1>3. Picked(s, {}) \in Seq(S) /\ Len(Picked(s, {})) = 0
  BY <1>1, <1>2, PickedType
<1> QED BY <1>3

\* Every position of D is some Nth one.
LEMMA EveryPositionIsNth ==
    ASSUME NEW m \in Nat, NEW D \in SUBSET (1 .. m), NEW i \in D
    PROVE  Rank(D, i) \in 1 .. Cardinality(D) /\ Nth(D, Rank(D, i)) = i
<1>1. Rank(D, i) \in 1 .. Cardinality(D)
  BY RankIncreases
<1>2. \A n \in 1 .. Cardinality(D) : \A k \in D : Rank(D, k) = n => k = Nth(D, n)
  BY NthPosition
<1> QED BY <1>1, <1>2

\* Elements that are not picked may be appended without effect.
LEMMA PickedUnmoved ==
    ASSUME NEW S, NEW s \in Seq(S), NEW e \in S, NEW D \in SUBSET (1 .. Len(s))
    PROVE  Picked(Append(s, e), D) = Picked(s, D)
<1>0. Len(s) \in Nat
  OBVIOUS
<1>1. \A n \in 1 .. Cardinality(D) : Nth(D, n) \in 1 .. Len(s)
  <2>1. \A n \in 1 .. Cardinality(D) : Nth(D, n) \in D
    BY <1>0, NthPosition
  <2> QED BY <2>1, Zenon
<1>2. \A i \in 1 .. Len(s) : Append(s, e)[i] = s[i]
  OBVIOUS
<1> QED BY <1>1, <1>2 DEF Picked

\* Picking the same positions from a longer sequence.
LEMMA PickedPrefix ==
    ASSUME NEW S, NEW s \in Seq(S), NEW D \in SUBSET (1 .. Len(s)), NEW t,
           \A i \in 1 .. Len(s) : t[i] = s[i]
    PROVE  Picked(t, D) = Picked(s, D)
<1>0. Len(s) \in Nat
  OBVIOUS
<1>1. \A n \in 1 .. Cardinality(D) : Nth(D, n) \in D
  BY <1>0, NthPosition
<1>2. \A n \in 1 .. Cardinality(D) : t[Nth(D, n)] = s[Nth(D, n)]
  BY <1>1
<1> QED BY <1>2 DEF Picked

\* Ranks below a new highest position stay as they are, and it comes last.
LEMMA RankExtended ==
    ASSUME NEW m \in Nat, NEW D \in SUBSET (1 .. m)
    PROVE  LET E == D \cup {m + 1} IN
           /\ Cardinality(E) = Cardinality(D) + 1
           /\ \A n \in 1 .. Cardinality(D) : Nth(E, n) = Nth(D, n)
           /\ Nth(E, Cardinality(D) + 1) = m + 1
<1> DEFINE E == D \cup {m + 1}
<1>1. IsFiniteSet(D) /\ Cardinality(D) \in Nat /\ m + 1 \notin D
  <2>1. IsFiniteSet(D) /\ Cardinality(D) \in Nat
    BY PositionsFinite
  <2>2. m + 1 \notin D
    OBVIOUS
  <2> QED BY <2>1, <2>2
<1>2. Cardinality(E) = Cardinality(D) + 1
  BY <1>1, FS_AddElement
<1>3. m + 1 \in Nat /\ E \in SUBSET (1 .. m + 1)
  OBVIOUS
<1>4. \A i \in D : Rank(E, i) = Rank(D, i)
  <2>1. \A i \in D : {j \in E : j <= i} = {j \in D : j <= i}
    OBVIOUS
  <2> QED BY <2>1 DEF Rank
<1>5. Rank(E, m + 1) = Cardinality(D) + 1
  <2>1. \A j \in E : j <= m + 1
    OBVIOUS
  <2>2. {j \in E : j <= m + 1} = E
    BY <2>1, Zenon
  <2> QED BY <1>2, <2>2 DEF Rank
<1>6. \A n \in 1 .. Cardinality(D) : Nth(D, n) \in D /\ Rank(D, Nth(D, n)) = n
  BY NthPosition
<1>7. \A n \in 1 .. Cardinality(E) : \A i \in E : Rank(E, i) = n => i = Nth(E, n)
  <2> HIDE DEF E
  <2> QED BY <1>3, NthPosition
<1>8. ASSUME NEW n \in 1 .. Cardinality(D) PROVE Nth(E, n) = Nth(D, n)
  <2>1. n \in 1 .. Cardinality(E)
    BY <1>1, <1>2
  <2>2. Nth(D, n) \in D /\ Rank(E, Nth(D, n)) = n
    BY <1>4, <1>6
  <2> QED BY <1>7, <2>1, <2>2
<1>9. Nth(E, Cardinality(D) + 1) = m + 1
  BY <1>1, <1>2, <1>5, <1>7
<1> QED BY <1>2, <1>8, <1>9

\* An element appended and picked comes last.
LEMMA PickedAppend ==
    ASSUME NEW S, NEW s \in Seq(S), NEW e \in S, NEW D \in SUBSET (1 .. Len(s))
    PROVE  Picked(Append(s, e), D \cup {Len(s) + 1}) = Append(Picked(s, D), e)
<1> DEFINE m == Len(s)
           c == Cardinality(D)
           E == D \cup {m + 1}
           t == Append(s, e)
           p == Picked(s, D)
           q == Picked(t, E)
<1>0. m \in Nat /\ t \in Seq(S) /\ Len(t) = m + 1
  OBVIOUS
<1>1. m \in Nat /\ t \in Seq(S) /\ Len(t) = m + 1 /\ E \in SUBSET (1 .. Len(t)) /\ c \in Nat
  <2>1. c \in Nat
    BY <1>0, PositionsFinite
  <2>2. \A i \in E : i \in 1 .. m + 1
    <3>1. \A i \in 1 .. m : i \in 1 .. m + 1
      BY <1>0
    <3>2. m + 1 \in 1 .. m + 1
      BY <1>0
    <3> QED BY <3>1, <3>2, Zenon
  <2> QED BY <1>0, <2>1, <2>2
<1>2. /\ Cardinality(E) = c + 1
      /\ \A n \in 1 .. c : Nth(E, n) = Nth(D, n)
      /\ Nth(E, c + 1) = m + 1
  BY <1>1, RankExtended
<1>3. \A n \in 1 .. c : Nth(D, n) \in 1 .. m
  <2>1. \A n \in 1 .. c : Nth(D, n) \in D
    BY <1>1, NthPosition
  <2> QED BY <2>1
<1>4. \A i \in 1 .. m : t[i] = s[i]
  OBVIOUS
<1>5. t[m + 1] = e
  OBVIOUS
<1>6. /\ p \in Seq(S) /\ Len(p) = c
      /\ \A n \in 1 .. c : p[n] = s[Nth(D, n)]
  BY PickedType
<1> HIDE DEF t, E
<1>7. /\ q \in Seq(S) /\ Len(q) = Cardinality(E)
      /\ \A n \in 1 .. Cardinality(E) : q[n] = t[Nth(E, n)]
  BY <1>1, PickedType
<1> HIDE DEF p, q, c, m
<1>8. \A n \in 1 .. c : q[n] = p[n]
  BY <1>1, <1>2, <1>3, <1>4, <1>6, <1>7
<1>9. q[c + 1] = e
  BY <1>1, <1>2, <1>5, <1>7
<1>10. q = Append(p, e)
  <2>1. Append(p, e) \in Seq(S) /\ Len(Append(p, e)) = c + 1
    BY <1>6
  <2>2. \A n \in 1 .. c + 1 : q[n] = Append(p, e)[n]
    BY <1>1, <1>6, <1>8, <1>9
  <2> QED BY <1>1, <1>2, <1>7, <2>1, <2>2
<1> QED BY <1>10 DEF p, q, m, E, t

\* The positions of D that hold an element of V.
At(s, D, V) == {i \in D : s[i] \in V}

\* Picking keeps count: as many elements of Picked(s, D) have a property as
\* there are positions of D at which s has it.  V holds the values that have it.
LEMMA PickedCount ==
    ASSUME NEW S, NEW s \in Seq(S), NEW D \in SUBSET (1 .. Len(s)), NEW V
    PROVE  /\ IsFiniteSet(At(s, D, V))
           /\ Cardinality(At(Picked(s, D), DOMAIN Picked(s, D), V)) = Cardinality(At(s, D, V))
<1> DEFINE c == Cardinality(D)
           p == Picked(s, D)
           A == {i \in D : s[i] \in V}
           B == {n \in 1 .. c : p[n] \in V}
           nth == [n \in B |-> Nth(D, n)]
<1>0. Len(s) \in Nat
  OBVIOUS
<1>1. DOMAIN p = 1 .. c /\ \A n \in 1 .. c : p[n] = s[Nth(D, n)]
  BY PickedType
<1>2. IsFiniteSet(D) /\ c \in Nat
  BY <1>0, PositionsFinite
<1>3. IsFiniteSet(A)
  <2>1. A \in SUBSET D
    OBVIOUS
  <2> HIDE DEF A
  <2> QED BY <1>2, <2>1, FS_Subset
<1>4. IsFiniteSet(B)
  <2>1. B \in SUBSET (1 .. c) /\ IsFiniteSet(1 .. c)
    BY <1>2, FS_Interval
  <2> HIDE DEF B
  <2> QED BY <2>1, FS_Subset
<1>5. \A n \in 1 .. c : Nth(D, n) \in D /\ Rank(D, Nth(D, n)) = n
  BY <1>0, NthPosition
<1>6. \A i \in D : Rank(D, i) \in 1 .. c /\ Nth(D, Rank(D, i)) = i
  BY <1>0, EveryPositionIsNth
<1> HIDE DEF p, c
<1>7. nth \in [B -> A]
  <2>1. \A n \in B : Nth(D, n) \in A
    BY <1>1, <1>5
  <2> QED BY <2>1
<1>8. nth \in Bijection(B, A)
  <2>1. \A a, b \in B : nth[a] = nth[b] => a = b
    BY <1>5
  <2>2. \A i \in A : \E n \in B : nth[n] = i
    <3> SUFFICES ASSUME NEW i \in A PROVE \E n \in B : nth[n] = i
      OBVIOUS
    <3>1. Rank(D, i) \in 1 .. c /\ Nth(D, Rank(D, i)) = i
      BY <1>6
    <3>2. Rank(D, i) \in B
      BY <1>1, <3>1
    <3> QED BY <3>1, <3>2
  <2> HIDE DEF nth, A, B
  <2>3. nth \in Injection(B, A)
    BY <1>7, <2>1 DEF Injection, IsInjective
  <2>4. nth \in Surjection(B, A)
    BY <1>7, <2>2 DEF Surjection
  <2> QED BY <2>3, <2>4 DEF Bijection
<1>9. Cardinality(B) = Cardinality(A)
  <2> HIDE DEF nth, A, B
  <2>1. ExistsBijection(B, A)
    BY <1>8 DEF ExistsBijection
  <2> QED BY <1>3, <1>4, <2>1, FS_Bijection
<1> QED BY <1>1, <1>3, <1>4, <1>9 DEF p, At

-----------------------------------------------------------------------------
(* The same for sequences whose elements belong to no particular set.      *)

IsSequence(s) == s \in Seq({s[i] : i \in DOMAIN s})

\* The empty sequence is one, and so is every sequence over some set.
LEMMA SequenceOver ==
    /\ IsSequence(<<>>)
    /\ \A S : \A s \in Seq(S) : IsSequence(s)
<1>1. ASSUME NEW S, NEW s \in Seq(S) PROVE IsSequence(s)
  <2> DEFINE R == {s[i] : i \in DOMAIN s}
  <2>1. Len(s) \in Nat /\ s \in [1 .. Len(s) -> S] /\ DOMAIN s = 1 .. Len(s)
    OBVIOUS
  <2>2. s \in [1 .. Len(s) -> R]
    BY <2>1
  <2> HIDE DEF R
  <2>3. s \in Seq(R)
    BY <2>1, <2>2
  <2> QED BY <2>3 DEF IsSequence, R
<1>2. <<>> \in Seq({})
  OBVIOUS
<1> QED BY <1>1, <1>2

\* What appending does.
LEMMA AppendSequence ==
    ASSUME NEW s, NEW e, IsSequence(s)
    PROVE  /\ IsSequence(Append(s, e))
           /\ Len(s) \in Nat /\ DOMAIN s = 1 .. Len(s)
           /\ Len(Append(s, e)) = Len(s) + 1
           /\ DOMAIN Append(s, e) = 1 .. Len(s) + 1
           /\ \A i \in 1 .. Len(s) : Append(s, e)[i] = s[i]
           /\ Append(s, e)[Len(s) + 1] = e
<1> DEFINE S == {s[i] : i \in DOMAIN s} \cup {e}
<1>1. e \in S /\ s \in Seq(S)
  <2>1. s \in Seq({s[i] : i \in DOMAIN s})
    BY DEF IsSequence
  <2> QED BY <2>1
<1> HIDE DEF S
<1>2. Append(s, e) \in Seq(S)
  BY <1>1
<1>3. IsSequence(Append(s, e))
  BY <1>2, SequenceOver
<1> QED BY <1>1, <1>2, <1>3

\* Picking from a sequence that grows.
LEMMA PickedGrows ==
    ASSUME NEW s, NEW e, IsSequence(s), NEW D \in SUBSET (1 .. Len(s))
    PROVE  /\ IsSequence(Picked(s, D))
           /\ Picked(Append(s, e), D) = Picked(s, D)
           /\ Picked(Append(s, e), D \cup {Len(s) + 1}) = Append(Picked(s, D), e)
<1> DEFINE S == {s[i] : i \in DOMAIN s} \cup {e}
<1>1. e \in S /\ s \in Seq(S)
  <2>1. s \in Seq({s[i] : i \in DOMAIN s})
    BY DEF IsSequence
  <2> QED BY <2>1
<1> HIDE DEF S
<1>2. Picked(s, D) \in Seq(S)
  BY <1>1, PickedType
<1>3. IsSequence(Picked(s, D))
  BY <1>2, SequenceOver
<1>4. Picked(Append(s, e), D) = Picked(s, D)
  BY <1>1, PickedUnmoved
<1>5. Picked(Append(s, e), D \cup {Len(s) + 1}) = Append(Picked(s, D), e)
  BY <1>1, PickedAppend
<1> QED BY <1>3, <1>4, <1>5

\* A function on 1 .. n is a sequence of length n.
LEMMA FunctionSequence ==
    ASSUME NEW n \in Nat, NEW f, DOMAIN f = 1 .. n, f = [i \in 1 .. n |-> f[i]]
    PROVE  IsSequence(f) /\ Len(f) = n
<1> DEFINE R == {f[i] : i \in DOMAIN f}
<1>1. f \in [1 .. n -> R]
  OBVIOUS
<1> HIDE DEF R
<1>2. f \in Seq(R) /\ Len(f) = n
  BY <1>1
<1> QED BY <1>2 DEF IsSequence, R

\* A sequence that agrees with p and then has e is Append(p, e).
LEMMA IsAppend ==
    ASSUME NEW p, NEW q, NEW e, IsSequence(p), IsSequence(q), Len(q) = Len(p) + 1,
           \A i \in 1 .. Len(p) : q[i] = p[i], q[Len(p) + 1] = e
    PROVE  q = Append(p, e)
<1> DEFINE t == Append(p, e)
           S == {t[i] : i \in DOMAIN t} \cup {q[i] : i \in DOMAIN q}
<1>1. /\ Len(p) \in Nat /\ IsSequence(t) /\ Len(t) = Len(p) + 1
      /\ \A i \in 1 .. Len(p) : t[i] = p[i]
      /\ t[Len(p) + 1] = e
  BY AppendSequence
<1> HIDE DEF t
<1>2. t \in Seq(S) /\ q \in Seq(S)
  BY <1>1 DEF IsSequence
<1>3. \A i \in 1 .. Len(p) + 1 : i \in 1 .. Len(p) \/ i = Len(p) + 1
  BY <1>1
<1>4. \A i \in 1 .. Len(p) + 1 : t[i] = q[i]
  BY <1>1, <1>3
<1> HIDE DEF S
<1>5. t = q
  BY <1>1, <1>2, <1>4
<1> QED BY <1>5 DEF t

=============================================================================
