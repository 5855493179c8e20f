-------------------------- MODULE FilesystemProofs ---------------------------
(***************************************************************************)
(* Proofs about Filesystem.  A walk is a function of at most Steps(w)      *)
(* steps; the first part shows that it is what its step says, by equations *)
(* that need no numbers, and the rest reasons by these.                    *)
(***************************************************************************)
EXTENDS Filesystem, SequenceTheorems, SubsequenceProofs

\* A walk under way, or one that has failed.
Walker == [at : Seq(Name) \cup Failure, rest : Seq(Name), links : Nat]

\* What the operating system keeps a disk to: nothing below a file, a link or
\* nothing.
IsTree ==
    /\ kind \in [Entry -> Kinds]
    /\ target \in [Entry -> Entry]
    /\ \A p \in Entry \ {<<>>} : kind[p] # "absent" => kind[Parent(p)] = "dir"

\* And its root is a directory.
DiskInv == IsTree /\ kind[<<>>] = "dir"

-----------------------------------------------------------------------------
(* Paths.                                                                  *)

\* The paths of a depth are the sequences that are no longer.
LEMMA PathsToDepth ==
    ASSUME NEW depth \in Nat
    PROVE  \A p : p \in PathsTo(depth) <=> p \in Seq(Name) /\ Len(p) <= depth
<1>1. ASSUME NEW p \in PathsTo(depth)
      PROVE  p \in Seq(Name) /\ Len(p) <= depth
  <2>1. PICK n \in 0 .. depth : p \in [1 .. n -> Name]
    BY <1>1 DEF PathsTo
  <2>2. n \in Nat /\ p \in Seq(Name)
    BY <2>1, SeqDef
  <2>3. Len(p) = n
    BY <2>1
  <2> QED BY <2>2, <2>3
<1>2. ASSUME NEW p \in Seq(Name), Len(p) <= depth
      PROVE  p \in PathsTo(depth)
  <2>1. Len(p) \in 0 .. depth /\ p \in [1 .. Len(p) -> Name]
    BY <1>2, LenProperties
  <2> QED BY <2>1 DEF PathsTo
<1> QED BY <1>1, <1>2

\* Entries are paths, the root is one, and what is no entry is absent.
LEMMA Entries ==
    ASSUME IsTree
    PROVE  /\ \A p \in Entry : p \in Seq(Name) /\ Len(p) \in 0 .. MaxDepth
           /\ <<>> \in Entry
           /\ \A p \in Entry : /\ kind[p] \in Kinds /\ KindAt(p) = kind[p]
                               /\ target[p] \in Entry
           /\ \A p : KindAt(p) \in Kinds /\ (KindAt(p) # "absent" => p \in Entry)
<1>1. MaxDepth \in Nat
  BY FilesystemAssumption
<1>2. \A p : p \in Entry <=> p \in Seq(Name) /\ Len(p) <= MaxDepth
  BY <1>1, PathsToDepth DEF Entry
<1>3. \A p \in Seq(Name) : Len(p) \in Nat
  BY LenProperties
<1>4. <<>> \in Seq(Name) /\ Len(<<>>) <= MaxDepth
  <2>1. Len(<<>>) = 0
    BY EmptySeq
  <2> QED BY <1>1, <2>1, EmptySeq
<1>5. <<>> \in Entry /\ \A p \in Entry : p \in Seq(Name) /\ Len(p) \in 0 .. MaxDepth
  <2>1. <<>> \in Entry
    BY <1>2, <1>4, Zenon
  <2>2. ASSUME NEW p \in Entry PROVE p \in Seq(Name) /\ Len(p) \in 0 .. MaxDepth
    <3>1. p \in Seq(Name) /\ Len(p) <= MaxDepth
      BY <1>2, Zenon
    <3> QED BY <1>1, <1>3, <3>1
  <2> QED BY <2>1, <2>2
<1>6. \A p \in Entry : kind[p] \in Kinds /\ KindAt(p) = kind[p] /\ target[p] \in Entry
  BY DEF IsTree, KindAt
<1>7. \A p : KindAt(p) \in Kinds /\ (KindAt(p) # "absent" => p \in Entry)
  BY <1>6 DEF KindAt, Kinds
<1> QED BY <1>5, <1>6, <1>7

\* A path without its last component, and with it again.
LEMMA FrontAppend ==
    ASSUME NEW p \in Seq(Name), NEW x \in Name
    PROVE  Append(p, x) \in Seq(Name) /\ Append(p, x) # <<>> /\ Parent(Append(p, x)) = p
<1>1. /\ Append(p, x) \in Seq(Name) /\ Append(p, x) # <<>>
      /\ Len(Append(p, x)) = Len(p) + 1 /\ Len(p) \in Nat
      /\ Append(p, x) = p \o <<x>>
  BY AppendProperties, LenProperties, AppendIsConcat
<1>2. Parent(Append(p, x)) = SubSeq(Append(p, x), 1, Len(p))
  BY <1>1 DEF Parent, Front
<1>3. SubSeq(Append(p, x), 1, Len(p)) = p
  <2>1. CASE p = <<>>
    BY <1>1, <2>1, SubSeqEmpty, EmptySeq
  <2>2. CASE p # <<>>
    <3>1. Len(p) \in 1 .. Len(p) /\ 1 \in 1 .. Len(p)
      BY <2>2, EmptySeq
    <3>2. <<x>> \in Seq(Name)
      OBVIOUS
    <3>3. SubSeq(p \o <<x>>, 1, Len(p)) = SubSeq(p, 1, Len(p))
      BY <3>1, <3>2, SubSeqOfConcat1
    <3> QED BY <1>1, <3>3, SubSeqFull
  <2> QED BY <2>1, <2>2
<1> QED BY <1>1, <1>2, <1>3

\* Three paths in a row.
LEMMA ThreeParts ==
    \A s, t, u \in Seq(Name) : (s \o t) \o u = s \o (t \o u)
BY ConcatAssociative

\* The first component of two paths in a row, and the others.
LEMMA HeadTailConcat ==
    ASSUME NEW s \in Seq(Name), s # <<>>, NEW t \in Seq(Name)
    PROVE  Head(s \o t) = Head(s) /\ Tail(s \o t) = Tail(s) \o t
<1>1. /\ s \o t \in Seq(Name) /\ s \o t # <<>>
      /\ Len(s) \in Nat /\ Len(t) \in Nat /\ Len(s) # 0
      /\ Len(s \o t) = Len(s) + Len(t)
      /\ \A i \in 1 .. Len(s) + Len(t) :
             (s \o t)[i] = IF i <= Len(s) THEN s[i] ELSE t[i - Len(s)]
  <2>1. s \o t # <<>>
    BY ConcatEqualIffEmpty
  <2> QED BY <2>1, ConcatProperties, EmptySeq, LenProperties
<1>2. /\ Tail(s) \in Seq(Name) /\ Len(Tail(s)) = Len(s) - 1
      /\ \A i \in 1 .. Len(s) - 1 : Tail(s)[i] = s[i + 1]
  BY HeadTailProperties
<1>3. /\ Tail(s \o t) \in Seq(Name) /\ Len(Tail(s \o t)) = Len(s) + Len(t) - 1
      /\ \A i \in 1 .. Len(s) + Len(t) - 1 : Tail(s \o t)[i] = (s \o t)[i + 1]
  BY <1>1, HeadTailProperties
<1>4. /\ Tail(s) \o t \in Seq(Name) /\ Len(Tail(s) \o t) = Len(s) - 1 + Len(t)
      /\ \A i \in 1 .. Len(s) - 1 + Len(t) :
             (Tail(s) \o t)[i] = IF i <= Len(s) - 1 THEN Tail(s)[i] ELSE t[i - (Len(s) - 1)]
  BY <1>1, <1>2, ConcatProperties
<1>5. Head(s \o t) = Head(s)
  <2>1. Head(s \o t) = (s \o t)[1] /\ Head(s) = s[1]
    OBVIOUS
  <2> QED BY <1>1, <2>1
<1>6. ASSUME NEW i \in 1 .. Len(s) + Len(t) - 1
      PROVE  Tail(s \o t)[i] = (Tail(s) \o t)[i]
  <2>1. i + 1 \in 1 .. Len(s) + Len(t) /\ i \in 1 .. Len(s) - 1 + Len(t)
        /\ (i + 1) - Len(s) = i - (Len(s) - 1)
    BY <1>1
  <2>2. Tail(s \o t)[i] = (s \o t)[i + 1]
    BY <1>3
  <2>3. CASE i <= Len(s) - 1
    <3>1. i + 1 <= Len(s) /\ i \in 1 .. Len(s) - 1
      BY <1>1, <2>3
    <3>2. (s \o t)[i + 1] = s[i + 1] /\ (Tail(s) \o t)[i] = Tail(s)[i] /\ Tail(s)[i] = s[i + 1]
      BY <1>1, <1>2, <1>4, <2>1, <2>3, <3>1
    <3> QED BY <2>2, <3>2
  <2>4. CASE ~(i <= Len(s) - 1)
    <3>1. ~(i + 1 <= Len(s))
      BY <1>1, <2>4
    <3>2. (s \o t)[i + 1] = t[(i + 1) - Len(s)] /\ (Tail(s) \o t)[i] = t[i - (Len(s) - 1)]
      BY <1>1, <1>4, <2>1, <2>4, <3>1
    <3> QED BY <2>1, <2>2, <3>2
  <2> QED BY <2>3, <2>4
<1>7. Tail(s \o t) = Tail(s) \o t
  BY <1>1, <1>3, <1>4, <1>6, SeqEqual
<1> QED BY <1>5, <1>7

-----------------------------------------------------------------------------
(* One step of a walk.                                                     *)

\* A step leads from walker to walker, and every step is one step less to go.
LEMMA FollowType ==
    ASSUME IsTree, NEW w \in Walker, NEW create \in BOOLEAN, w.rest # <<>>
    PROVE  Follow(w, create) \in Walker /\ Steps(Follow(w, create)) < Steps(w)
<1> DEFINE next == Append(w.at, Head(w.rest))
           more == Tail(w.rest)
<1>1. /\ more \in Seq(Name) /\ Head(w.rest) \in Name
      /\ Len(w.rest) \in Nat /\ Len(more) = Len(w.rest) - 1 /\ Len(w.rest) > 0
  BY HeadTailProperties, EmptySeq DEF Walker
<1>2. MaxDepth \in Nat /\ w.links \in Nat /\ w.links * MaxDepth \in Nat
  BY FilesystemAssumption DEF Walker
<1>3. <<>> \in Seq(Name) /\ Len(<<>>) = 0
  BY EmptySeq
<1>4. ASSUME NEW why \in Failure
      PROVE  Stop(w, why) \in Walker /\ Steps(Stop(w, why)) < Steps(w)
  BY <1>1, <1>2, <1>3 DEF Stop, Walker, Steps
<1>5. ASSUME w.at \notin Failure
      PROVE  LET onward == [at |-> next, rest |-> more, links |-> w.links]
             IN  onward \in Walker /\ Steps(onward) < Steps(w)
  <2>1. w.at \in Seq(Name)
    BY <1>5 DEF Walker
  <2>2. next \in Seq(Name)
    BY <1>1, <2>1, FrontAppend
  <2> HIDE DEF next, more
  <2> QED BY <1>1, <1>2, <2>2 DEF Walker, Steps
<1>6. ASSUME KindAt(next) = "link", w.links # 0
      PROVE  LET followed == [at |-> <<>>, rest |-> target[next] \o more, links |-> w.links - 1]
             IN  followed \in Walker /\ Steps(followed) < Steps(w)
  <2> DEFINE followed == [at |-> <<>>, rest |-> target[next] \o more, links |-> w.links - 1]
  <2>1. target[next] \in Seq(Name) /\ Len(target[next]) \in 0 .. MaxDepth
    BY <1>6, Entries
  <2> HIDE DEF next, more
  <2>2. /\ target[next] \o more \in Seq(Name)
        /\ Len(target[next] \o more) = Len(target[next]) + Len(more)
    BY <1>1, <2>1, ConcatProperties
  <2>3. w.links - 1 \in Nat
    BY <1>2, <1>6
  <2>4. Steps(followed) = Len(target[next]) + (Len(w.rest) - 1) + (w.links - 1) * MaxDepth
    BY <1>1, <2>2 DEF Steps
  <2>5. Len(target[next]) \in Nat /\ Len(target[next]) <= MaxDepth
    BY <1>2, <2>1
  <2>6. \A t, r, l, d \in Nat :
            t <= d => t + (r - 1) + (l - 1) * d < r + l * d
    OBVIOUS
  <2>7. Steps(followed) < Steps(w)
    <3> HIDE DEF followed
    <3> QED BY <1>1, <1>2, <2>4, <2>5, <2>6, Zenon DEF Steps
  <2>8. followed \in Walker
    BY <1>3, <2>2, <2>3 DEF Walker
  <2> HIDE DEF followed
  <2> QED BY <2>7, <2>8 DEF followed
<1>7. NotFound \in Failure /\ TooManyLinks \in Failure
  BY DEF Failure
<1> QED BY <1>4, <1>5, <1>6, <1>7 DEF Follow

\* What there is to go is a number, and with none to go the walk is over.
LEMMA StepsType ==
    ASSUME NEW w \in Walker
    PROVE  Steps(w) \in Nat /\ (Steps(w) = 0 => w.rest = <<>>)
<1>1. Len(w.rest) \in Nat /\ (w.rest # <<>> => Len(w.rest) # 0) /\ w.links \in Nat
  BY EmptySeq, LenProperties DEF Walker
<1>2. w.links * MaxDepth \in Nat
  BY <1>1, FilesystemAssumption
<1> DEFINE product == w.links * MaxDepth
<1> HIDE DEF product
<1> QED BY <1>1, <1>2 DEF Steps, product

\* The same of a step, which does nothing when the walk is over.
LEMMA StepType ==
    ASSUME IsTree, NEW w \in Walker, NEW create \in BOOLEAN
    PROVE  /\ Step(w, create) \in Walker
           /\ IF w.rest = <<>> THEN Step(w, create) = w
              ELSE /\ Step(w, create) = Follow(w, create)
                   /\ Steps(Step(w, create)) < Steps(w)
BY FollowType DEF Step

-----------------------------------------------------------------------------
(* A walk as its steps.                                                    *)

IsTrace(f, m, create) ==
    /\ f \in [0 .. m -> Walker]
    /\ \A n \in 1 .. m : f[n] = Step(f[n - 1], create)

\* What Walk defines walked by.
Solves(f, w, create, m) ==
    f = [n \in 0 .. m |-> IF n = 0 THEN w ELSE Step(f[n - 1], create)]

\* The recursion of Walk has a solution, built up one step at a time.
LEMMA WalkedExists ==
    ASSUME NEW w, NEW create, NEW m \in Nat
    PROVE  \E f : Solves(f, w, create, m)
<1> DEFINE S == {k \in 0 .. m : \E f : Solves(f, w, create, k)}
<1>1. 0 \in S
  <2> DEFINE f == [n \in 0 .. 0 |-> w]
  <2>1. Solves(f, w, create, 0)
    BY DEF Solves
  <2> HIDE DEF f
  <2>2. \E g : Solves(g, w, create, 0)
    BY <2>1, Zenon
  <2> QED BY <2>2
<1>2. ASSUME NEW k \in 0 .. m, k \in S, k < m
      PROVE  k + 1 \in S
  <2>1. PICK f : Solves(f, w, create, k)
    BY <1>2, Zenon
  <2> DEFINE g == [n \in 0 .. k + 1 |-> IF n <= k THEN f[n] ELSE Step(f[k], create)]
  <2>2. \A n \in 0 .. k : f[n] = IF n = 0 THEN w ELSE Step(f[n - 1], create)
    BY <2>1 DEF Solves
  <2>3. ASSUME NEW n \in 0 .. k + 1
        PROVE  g[n] = IF n = 0 THEN w ELSE Step(g[n - 1], create)
    <3>1. CASE n <= k
      <4>1. n \in 0 .. k /\ g[n] = f[n]
        BY <3>1
      <4>2. n # 0 => g[n - 1] = f[n - 1]
        BY <3>1
      <4> HIDE DEF g
      <4> QED BY <2>2, <4>1, <4>2
    <3>2. CASE ~(n <= k)
      <4>1. n = k + 1 /\ n # 0 /\ n - 1 = k /\ k \in 0 .. k + 1 /\ k <= k
        BY <3>2
      <4>2. g[n] = Step(f[k], create) /\ g[k] = f[k]
        BY <3>2, <4>1
      <4> HIDE DEF g
      <4> QED BY <4>1, <4>2
    <3> QED BY <3>1, <3>2
  <2>4. Solves(g, w, create, k + 1)
    <3>1. g = [n \in 0 .. k + 1 |-> g[n]]
      OBVIOUS
    <3> HIDE DEF g
    <3> QED BY <2>3, <3>1 DEF Solves
  <2> HIDE DEF g
  <2>5. \E h : Solves(h, w, create, k + 1)
    BY <2>4, Zenon
  <2>6. k + 1 \in 0 .. m
    BY <1>2
  <2> QED BY <2>5, <2>6
<1>3. \A k \in 0 .. m : k \in S
  <2> HIDE DEF S
  <2> QED BY <1>1, <1>2, InductionUpTo
<1>4. \E f : Solves(f, w, create, m)
  BY <1>3
<1> QED BY <1>4

\* So a walk is the end of a trace that starts with the walker.
LEMMA WalkIsTrace ==
    ASSUME IsTree, NEW w \in Walker, NEW create \in BOOLEAN
    PROVE  \E f : /\ IsTrace(f, Steps(w), create)
                  /\ f[0] = w
                  /\ Walk(w, create) = f[Steps(w)]
<1> DEFINE m == Steps(w)
           f == CHOOSE g : g = [n \in 0 .. m |-> IF n = 0 THEN w ELSE Step(g[n - 1], create)]
<1>1. m \in Nat
  BY StepsType
<1>2. Walk(w, create) = f[m]
  BY DEF Walk
<1> HIDE DEF m
<1>3. f = [n \in 0 .. m |-> IF n = 0 THEN w ELSE Step(f[n - 1], create)]
  <2>1. \E g : Solves(g, w, create, m)
    BY <1>1, WalkedExists, Zenon
  <2>2. Solves(f, w, create, m)
    BY <2>1, Zenon DEF Solves
  <2> QED BY <2>2, Zenon DEF Solves
<1> HIDE DEF f
<1>4. f[0] = w /\ \A n \in 1 .. m : f[n] = Step(f[n - 1], create)
  BY <1>1, <1>3
<1>5. \A n \in 0 .. m : f[n] \in Walker
  <2> DEFINE S == {n \in 0 .. m : f[n] \in Walker}
  <2>1. 0 \in S
    BY <1>1, <1>4
  <2>2. ASSUME NEW n \in 0 .. m, n \in S, n < m PROVE n + 1 \in S
    <3>1. n + 1 \in 1 .. m /\ n + 1 \in 0 .. m /\ (n + 1) - 1 = n
      BY <1>1, <2>2
    <3>2. f[n + 1] = Step(f[n], create)
      BY <1>4, <3>1
    <3>3. f[n] \in Walker
      BY <2>2
    <3> QED BY <3>1, <3>2, <3>3, StepType
  <2> HIDE DEF S
  <2>3. \A n \in 0 .. m : n \in S
    BY <1>1, <2>1, <2>2, InductionUpTo
  <2> QED BY <2>3 DEF S
<1>6. f \in [0 .. m -> Walker]
  BY <1>3, <1>5
<1>7. IsTrace(f, m, create)
  BY <1>4, <1>6 DEF IsTrace
<1> QED BY <1>2, <1>4, <1>7 DEF m

\* A trace that is long enough ends with nothing to go.
LEMMA TraceEnds ==
    ASSUME IsTree, NEW create \in BOOLEAN, NEW m \in Nat, NEW f, IsTrace(f, m, create),
           Steps(f[0]) <= m
    PROVE  f[m].rest = <<>>
<1> DEFINE S == {n \in 0 .. m : f[n].rest = <<>> \/ Steps(f[n]) + n <= Steps(f[0])}
<1>1. \A n \in 0 .. m : f[n] \in Walker /\ Steps(f[n]) \in Nat
  BY StepsType DEF IsTrace
<1>2. 0 \in S
  BY <1>1
<1>3. ASSUME NEW n \in 0 .. m, n \in S, n < m
      PROVE  n + 1 \in S
  <2>1. n + 1 \in 1 .. m /\ n + 1 \in 0 .. m /\ (n + 1) - 1 = n
    BY <1>3
  <2>2. f[n + 1] = Step(f[n], create)
    BY <2>1 DEF IsTrace
  <2>3. f[n] \in Walker
    BY <1>1
  <2>4. CASE f[n].rest = <<>>
    BY <2>1, <2>2, <2>3, <2>4, StepType
  <2>5. CASE f[n].rest # <<>>
    <3>1. Steps(f[n + 1]) < Steps(f[n])
      BY <2>2, <2>3, <2>5, StepType
    <3>2. Steps(f[n]) + n <= Steps(f[0])
      BY <1>3, <2>5
    <3>3. Steps(f[n]) \in Nat /\ Steps(f[n + 1]) \in Nat /\ Steps(f[0]) \in Nat
      BY <1>1, <2>1
    <3>4. Steps(f[n + 1]) + (n + 1) <= Steps(f[0])
      BY <3>1, <3>2, <3>3
    <3> QED BY <2>1, <3>4
  <2> QED BY <2>4, <2>5
<1>4. \A n \in 0 .. m : n \in S
  <2> HIDE DEF S
  <2> QED BY <1>2, <1>3, InductionUpTo
<1>5. m \in 0 .. m /\ 0 \in 0 .. m
  OBVIOUS
<1>6. f[m].rest = <<>> \/ Steps(f[m]) = 0
  BY <1>1, <1>4, <1>5
<1> QED BY <1>1, <1>5, <1>6, StepsType

\* Two traces from one walker come to the same end.
LEMMA TracesAgree ==
    ASSUME IsTree, NEW create \in BOOLEAN, NEW m \in Nat, NEW k \in 0 .. m,
           NEW f, IsTrace(f, m, create), NEW g, IsTrace(g, k, create),
           f[0] = g[0], g[k].rest = <<>>
    PROVE  f[m] = g[k]
<1> DEFINE S == {n \in 0 .. m : /\ n <= k => f[n] = g[n]
                                /\ n >= k => f[n] = g[k]}
<1>1. 0 \in S
  OBVIOUS
<1>2. ASSUME NEW n \in 0 .. m, n \in S, n < m
      PROVE  n + 1 \in S
  <2>1. n + 1 \in 1 .. m /\ n + 1 \in 0 .. m /\ (n + 1) - 1 = n
    BY <1>2
  <2>2. f[n + 1] = Step(f[n], create)
    BY <2>1 DEF IsTrace
  <2>3. CASE n < k
    <3>1. n + 1 \in 1 .. k
      BY <2>3
    <3>2. g[n + 1] = Step(g[n], create)
      BY <2>1, <3>1 DEF IsTrace
    <3>3. f[n] = g[n]
      BY <1>2, <2>3
    <3> QED BY <2>1, <2>2, <3>1, <3>2, <3>3
  <2>4. CASE ~(n < k)
    <3>1. f[n] = g[k] /\ n + 1 > k
      BY <1>2, <2>4
    <3>2. f[n + 1] = g[k]
      BY <2>2, <3>1 DEF Step
    <3> QED BY <2>1, <3>1, <3>2
  <2> QED BY <2>3, <2>4
<1>3. \A n \in 0 .. m : n \in S
  <2> HIDE DEF S
  <2> QED BY <1>1, <1>2, InductionUpTo
<1> QED BY <1>3

\* What a walk is: nothing, or one step and a walk.
LEMMA WalkUnfolds ==
    ASSUME IsTree, NEW w \in Walker, NEW create \in BOOLEAN
    PROVE  /\ Walk(w, create) \in Walker
           /\ Walk(w, create).rest = <<>>
           /\ IF w.rest = <<>> THEN Walk(w, create) = w
              ELSE Walk(w, create) = Walk(Follow(w, create), create)
<1> DEFINE m == Steps(w)
<1>1. PICK f : IsTrace(f, m, create) /\ f[0] = w /\ Walk(w, create) = f[m]
  BY WalkIsTrace
<1>2. m \in Nat /\ m \in 0 .. m
  BY StepsType
<1>3. f[m] \in Walker /\ f[m].rest = <<>>
  <2> HIDE DEF m
  <2>1. f[m].rest = <<>>
    BY <1>1, <1>2, TraceEnds DEF m
  <2> QED BY <1>1, <1>2, <2>1 DEF IsTrace
<1>4. ASSUME w.rest = <<>>
      PROVE  Walk(w, create) = w
  <2> DEFINE g == [n \in 0 .. 0 |-> w]
  <2>1. IsTrace(g, 0, create) /\ g[0] = w
    BY DEF IsTrace
  <2>2. 0 \in 0 .. m
    BY <1>2
  <2> HIDE DEF g, m
  <2> QED BY <1>1, <1>2, <1>4, <2>1, <2>2, TracesAgree
<1>5. ASSUME w.rest # <<>>
      PROVE  Walk(w, create) = Walk(Follow(w, create), create)
  <2> DEFINE v == Follow(w, create)
             k == Steps(v)
             h == [n \in 0 .. m - 1 |-> f[n + 1]]
  <2>1. v \in Walker /\ k < m /\ k \in Nat
    BY <1>5, FollowType, StepsType
  <2>2. PICK g : IsTrace(g, k, create) /\ g[0] = v /\ Walk(v, create) = g[k]
    BY <2>1, WalkIsTrace
  <2>3. g[k].rest = <<>>
    <3> HIDE DEF v
    <3>1. Steps(g[0]) <= k
      BY <2>1, <2>2
    <3> HIDE DEF k
    <3> QED BY <2>1, <2>2, <3>1, TraceEnds
  <2> HIDE DEF v, k, m
  <2>4. m - 1 \in Nat /\ k \in 0 .. m - 1
    BY <1>2, <2>1
  <2>5. IsTrace(h, m - 1, create)
    <3>1. \A n \in 0 .. m - 1 : h[n] = f[n + 1] /\ n + 1 \in 0 .. m
      BY <1>2
    <3>2. h \in [0 .. m - 1 -> Walker]
      BY <1>1, <3>1 DEF IsTrace
    <3>3. ASSUME NEW n \in 1 .. m - 1 PROVE h[n] = Step(h[n - 1], create)
      <4>1. n + 1 \in 1 .. m /\ (n + 1) - 1 = n /\ n - 1 \in 0 .. m - 1 /\ n \in 0 .. m - 1
            /\ (n - 1) + 1 = n
        BY <1>2
      <4>2. f[n + 1] = Step(f[n], create)
        BY <1>1, <4>1 DEF IsTrace
      <4>3. h[n] = f[n + 1] /\ h[n - 1] = f[n]
        BY <4>1
      <4> QED BY <4>2, <4>3
    <3> HIDE DEF h
    <3> QED BY <3>2, <3>3 DEF IsTrace
  <2>6. h[0] = v
    <3>1. 1 \in 1 .. m /\ 1 - 1 = 0 /\ 0 \in 0 .. m - 1 /\ 0 + 1 = 1
      BY <1>2, <2>4
    <3>2. f[1] = Step(w, create)
      BY <1>1, <3>1 DEF IsTrace
    <3>3. h[0] = f[1]
      BY <3>1
    <3> QED BY <1>5, <3>2, <3>3 DEF Step, v
  <2>7. h[m - 1] = f[m]
    BY <1>2, <2>4
  <2> HIDE DEF h
  <2>8. h[m - 1] = g[k]
    BY <2>2, <2>3, <2>4, <2>5, <2>6, TracesAgree
  <2> QED BY <1>1, <2>2, <2>7, <2>8 DEF v
<1> QED BY <1>1, <1>3, <1>4, <1>5

\* What holds of walkers with nothing to go, and of a walker when it holds of
\* the one it steps to, holds of every walker.
LEMMA WalkInduction ==
    ASSUME IsTree, NEW create \in BOOLEAN, NEW S,
           \A w \in Walker : w.rest = <<>> => w \in S,
           \A w \in Walker : w.rest # <<>> /\ Follow(w, create) \in S => w \in S
    PROVE  \A w \in Walker : w \in S
<1> SUFFICES ASSUME NEW w \in Walker PROVE w \in S
  OBVIOUS
<1> DEFINE m == Steps(w)
           T == {n \in 0 .. m : \A v \in Walker : Steps(v) <= n => v \in S}
<1>1. m \in Nat
  BY StepsType
<1> HIDE DEF m
<1>2. 0 \in T
  <2>1. ASSUME NEW v \in Walker, Steps(v) <= 0 PROVE v \in S
    <3>1. Steps(v) = 0
      BY <2>1, StepsType
    <3>2. v.rest = <<>>
      BY <3>1, StepsType
    <3> QED BY <3>2
  <2> QED BY <1>1, <2>1
<1>3. ASSUME NEW n \in 0 .. m, n \in T, n < m
      PROVE  n + 1 \in T
  <2>1. ASSUME NEW v \in Walker, Steps(v) <= n + 1 PROVE v \in S
    <3>1. CASE v.rest = <<>>
      BY <3>1
    <3>2. CASE v.rest # <<>>
      <4>1. Follow(v, create) \in Walker /\ Steps(Follow(v, create)) < Steps(v)
        BY <3>2, FollowType
      <4>2. Steps(v) \in Nat /\ Steps(Follow(v, create)) \in Nat
        BY <4>1, StepsType
      <4>3. Steps(Follow(v, create)) <= n
        BY <2>1, <4>1, <4>2
      <4>4. Follow(v, create) \in S
        BY <1>3, <4>1, <4>3
      <4> QED BY <3>2, <4>4
    <3> QED BY <3>1, <3>2
  <2>2. n + 1 \in 0 .. m
    BY <1>1, <1>3
  <2> QED BY <2>1, <2>2
<1>4. \A n \in 0 .. m : n \in T
  <2> HIDE DEF T
  <2> QED BY <1>1, <1>2, <1>3, InductionUpTo
<1>5. m \in T
  BY <1>1, <1>4
<1>6. Steps(w) <= m
  BY <1>1 DEF m
<1> QED BY <1>5, <1>6

-----------------------------------------------------------------------------
(* What walks do.                                                          *)

\* A walk that has failed stays failed.
LEMMA FailedStays ==
    ASSUME IsTree, NEW w \in Walker, NEW create \in BOOLEAN, w.at \in Failure
    PROVE  Walk(w, create) = Stop(w, w.at)
<1>1. CASE w.rest = <<>>
  <2>1. Stop(w, w.at) = w
    BY <1>1 DEF Stop, Walker
  <2> QED BY <1>1, <2>1, WalkUnfolds
<1>2. CASE w.rest # <<>>
  <2>1. Follow(w, create) = Stop(w, w.at)
    BY DEF Follow
  <2>2. Stop(w, w.at) \in Walker
    BY <1>2, <2>1, FollowType
  <2>3. Stop(w, w.at).rest = <<>>
    BY DEF Stop
  <2>4. Walk(Stop(w, w.at), create) = Stop(w, w.at)
    BY <2>2, <2>3, WalkUnfolds
  <2> QED BY <1>2, <2>1, <2>4, WalkUnfolds
<1> QED BY <1>1, <1>2

\* What follows a failed step.
LEMMA FailedStep ==
    ASSUME IsTree, NEW w \in Walker, NEW create \in BOOLEAN, w.rest # <<>>,
           Follow(w, create).at \in Failure
    PROVE  /\ Follow(w, create) = Stop(w, Follow(w, create).at)
           /\ Walk(w, create) = Follow(w, create)
<1>1. Follow(w, create) \in Walker
  BY FollowType
<1>2. Follow(w, create) = Stop(w, Follow(w, create).at)
  <2>1. Failure \cap Seq(Name) = {}
    BY FailureAssumption
  <2>2. <<>> \in Seq(Name)
    BY EmptySeq
  <2>3. w.at \notin Failure => Append(w.at, Head(w.rest)) \in Seq(Name)
    <3>1. Head(w.rest) \in Name
      BY HeadTailProperties DEF Walker
    <3>2. w.at \notin Failure => w.at \in Seq(Name)
      BY DEF Walker
    <3> QED BY <3>1, <3>2, FrontAppend
  <2> QED BY <2>1, <2>2, <2>3 DEF Follow, Stop
<1>3. Walk(Follow(w, create), create) = Follow(w, create)
  <2>1. Follow(w, create).rest = <<>>
    BY <1>2 DEF Stop
  <2> QED BY <1>1, <2>1, WalkUnfolds
<1> QED BY <1>2, <1>3, WalkUnfolds

\* The same walker with more to go.
Longer(w, t) == [at |-> w.at, rest |-> w.rest \o t, links |-> w.links]

LEMMA FollowLonger ==
    ASSUME IsTree, NEW w \in Walker, NEW create \in BOOLEAN,
           NEW t \in Seq(Name), t # <<>>, w.rest # <<>>
    PROVE  Follow(Longer(w, t), create) =
               IF Follow(w, FALSE).at \in Failure THEN Follow(w, FALSE)
               ELSE Longer(Follow(w, FALSE), t)
<1> DEFINE next == Append(w.at, Head(w.rest))
           more == Tail(w.rest)
<1>1. w.rest \in Seq(Name) /\ more \in Seq(Name)
  BY HeadTailProperties DEF Walker
<1>2. Head(w.rest \o t) = Head(w.rest) /\ Tail(w.rest \o t) = more \o t
  BY <1>1, HeadTailConcat
<1>3. more \o t # <<>>
  BY <1>1, ConcatEqualIffEmpty
<1>4. /\ Longer(w, t).at = w.at /\ Longer(w, t).links = w.links
      /\ Head(Longer(w, t).rest) = Head(w.rest) /\ Tail(Longer(w, t).rest) = more \o t
  BY <1>2 DEF Longer
<1>5. \A why : Stop(Longer(w, t), why) = Stop(w, why) /\ Stop(w, why).at = why
  BY DEF Longer, Stop
<1>6. NotFound \in Failure /\ TooManyLinks \in Failure
  BY DEF Failure
<1>7. CASE w.at \in Failure \/ KindAt(w.at) # "dir"
  BY <1>4, <1>5, <1>6, <1>7 DEF Follow
<1>8. CASE w.at \notin Failure /\ KindAt(w.at) = "dir"
  <2>1. next \in Seq(Name) /\ next \notin Failure
    <3>1. Head(w.rest) \in Name /\ w.at \in Seq(Name)
      BY <1>8, HeadTailProperties DEF Walker
    <3> QED BY <3>1, FrontAppend, FailureAssumption
  <2>2. CASE KindAt(next) = "link"
    <3>1. CASE w.links = 0
      BY <1>4, <1>5, <1>6, <1>8, <2>2, <3>1 DEF Follow
    <3>2. CASE w.links # 0
      <4>1. target[next] \in Seq(Name)
        BY <2>2, Entries
      <4>2. target[next] \o (more \o t) = (target[next] \o more) \o t
        <5> HIDE DEF next, more
        <5> QED BY <1>1, <4>1, ThreeParts, Zenon
      <4>3. <<>> \notin Failure
        BY EmptySeq, FailureAssumption
      <4>4. Follow(w, FALSE) = [at |-> <<>>, rest |-> target[next] \o more, links |-> w.links - 1]
        BY <1>8, <2>2, <3>2 DEF Follow
      <4>5. Follow(Longer(w, t), create) =
                [at |-> <<>>, rest |-> target[next] \o (more \o t), links |-> w.links - 1]
        <5> HIDE DEF next, more
        <5>1. Append(Longer(w, t).at, Head(Longer(w, t).rest)) = next
          BY <1>4 DEF next
        <5> QED BY <1>4, <1>8, <2>2, <3>2, <5>1 DEF Follow
      <4> HIDE DEF next, more
      <4> DEFINE u == Follow(w, FALSE)
      <4>6. u = [at |-> <<>>, rest |-> target[next] \o more, links |-> w.links - 1]
        BY <4>4
      <4> HIDE DEF u
      <4>7. /\ u.at = <<>>
            /\ Longer(u, t) = [at |-> <<>>, rest |-> (target[next] \o more) \o t,
                               links |-> w.links - 1]
        BY <4>6 DEF Longer
      <4> QED BY <4>2, <4>3, <4>5, <4>7, Zenon DEF u
    <3> QED BY <3>1, <3>2
  <2>3. CASE KindAt(next) # "link" /\ KindAt(next) # "absent"
    <3>1. Follow(w, FALSE) = [at |-> next, rest |-> more, links |-> w.links]
      BY <1>8, <2>3 DEF Follow
    <3>2. Follow(Longer(w, t), create) = [at |-> next, rest |-> more \o t, links |-> w.links]
      BY <1>4, <1>8, <2>3 DEF Follow
    <3> HIDE DEF next, more
    <3> DEFINE u == Follow(w, FALSE)
    <3>3. u = [at |-> next, rest |-> more, links |-> w.links]
      BY <3>1
    <3> HIDE DEF u
    <3>4. u.at = next /\ Longer(u, t) = [at |-> next, rest |-> more \o t, links |-> w.links]
      BY <3>3 DEF Longer
    <3> QED BY <2>1, <3>2, <3>4, Zenon DEF u
  <2>4. CASE KindAt(next) = "absent"
    BY <1>3, <1>4, <1>5, <1>6, <1>8, <2>4 DEF Follow
  <2> QED BY <2>2, <2>3, <2>4
<1> QED BY <1>7, <1>8

\* A path is walked by walking its first part, for reading, and going on from
\* where that leads.
LEMMA WalkOn ==
    ASSUME IsTree, NEW w \in Walker, NEW create \in BOOLEAN,
           NEW t \in Seq(Name), t # <<>>
    PROVE  /\ Longer(Walk(w, FALSE), t) \in Walker
           /\ Walk(Longer(w, t), create) = Walk(Longer(Walk(w, FALSE), t), create)
<1>a. \A v \in Walker : Longer(v, t) \in Walker /\ Longer(v, t).rest # <<>>
  <2> TAKE v \in Walker
  <2>1. v.rest \o t \in Seq(Name) /\ v.rest \o t # <<>>
    BY ConcatProperties, ConcatEqualIffEmpty DEF Walker
  <2> QED BY <2>1 DEF Longer, Walker
<1> DEFINE S == {v \in Walker :
                    Walk(Longer(v, t), create) = Walk(Longer(Walk(v, FALSE), t), create)}
<1>1. ASSUME NEW v \in Walker, v.rest = <<>> PROVE v \in S
  BY <1>1, WalkUnfolds
<1>2. ASSUME NEW v \in Walker, v.rest # <<>>, Follow(v, FALSE) \in S PROVE v \in S
  <2>1. Walk(Longer(v, t), create) = Walk(Follow(Longer(v, t), create), create)
    BY <1>a, WalkUnfolds
  <2>2. Walk(v, FALSE) = Walk(Follow(v, FALSE), FALSE)
    BY <1>2, WalkUnfolds
  <2>3. CASE Follow(v, FALSE).at \notin Failure
    <3>1. Follow(Longer(v, t), create) = Longer(Follow(v, FALSE), t)
      BY <1>2, <2>3, FollowLonger
    <3> QED BY <1>2, <2>1, <2>2, <3>1
  <2>4. CASE Follow(v, FALSE).at \in Failure
    <3> DEFINE u == Follow(v, FALSE)
    <3>1. Follow(Longer(v, t), create) = u
      BY <1>2, <2>4, FollowLonger
    <3>2. Walk(v, FALSE) = u /\ u = Stop(v, u.at) /\ u \in Walker
      BY <1>2, <2>4, FailedStep, FollowType
    <3> HIDE DEF u
    <3>3. Walk(u, create) = Stop(u, u.at) /\ Walk(Longer(u, t), create) = Stop(Longer(u, t), u.at)
      <4>1. Longer(u, t).at = u.at
        BY DEF Longer
      <4> QED BY <1>a, <2>4, <3>2, <4>1, FailedStays DEF u
    <3>4. Stop(u, u.at) = Stop(Longer(u, t), u.at)
      BY DEF Stop, Longer
    <3> QED BY <2>1, <3>1, <3>2, <3>3, <3>4
  <2> QED BY <2>3, <2>4
<1>3. \A v \in Walker : v \in S
  <2> HIDE DEF S
  <2> QED BY <1>1, <1>2, WalkInduction
<1> QED BY <1>3, <1>a, WalkUnfolds

\* The same walker with more links to spend.
Richer(w, k) == [at |-> w.at, rest |-> w.rest, links |-> w.links + k]

LEMMA FollowRicher ==
    ASSUME IsTree, NEW w \in Walker, NEW create \in BOOLEAN, NEW k \in Nat,
           w.rest # <<>>, Follow(w, create).at # TooManyLinks
    PROVE  Follow(Richer(w, k), create) = Richer(Follow(w, create), k)
<1> DEFINE next == Append(w.at, Head(w.rest))
           more == Tail(w.rest)
           u == Follow(w, create)
<1>1. /\ Richer(w, k).at = w.at /\ Richer(w, k).rest = w.rest
      /\ Richer(w, k).links = w.links + k
  BY DEF Richer
<1>2. \A why : Stop(Richer(w, k), why) = Richer(Stop(w, why), k) /\ Stop(w, why).at = why
  BY DEF Richer, Stop
<1>3. w.links \in Nat
  BY DEF Walker
<1>4. CASE w.at \in Failure \/ KindAt(w.at) # "dir"
  BY <1>1, <1>2, <1>4 DEF Follow
<1>5. CASE w.at \notin Failure /\ KindAt(w.at) = "dir"
  <2>1. CASE KindAt(next) = "link"
    <3>1. CASE w.links = 0
      <4>1. u = Stop(w, TooManyLinks)
        BY <1>5, <2>1, <3>1 DEF Follow
      <4> HIDE DEF u
      <4>2. u.at = TooManyLinks
        BY <1>2, <4>1
      <4> QED BY <4>2 DEF u
    <3>2. CASE w.links # 0
      <4>1. u = [at |-> <<>>, rest |-> target[next] \o more, links |-> w.links - 1]
        BY <1>5, <2>1, <3>2 DEF Follow
      <4>2. Follow(Richer(w, k), create) =
                [at |-> <<>>, rest |-> target[next] \o more, links |-> (w.links + k) - 1]
        <5>1. w.links + k # 0
          BY <1>3, <3>2
        <5> QED BY <1>1, <1>5, <2>1, <5>1 DEF Follow
      <4>3. (w.links + k) - 1 = (w.links - 1) + k
        BY <1>3
      <4> HIDE DEF u, next, more
      <4>4. Richer(u, k) = [at |-> <<>>, rest |-> target[next] \o more,
                            links |-> (w.links - 1) + k]
        BY <4>1 DEF Richer
      <4> QED BY <4>2, <4>3, <4>4, Zenon DEF u
    <3> QED BY <3>1, <3>2
  <2>2. CASE KindAt(next) # "link" /\ (KindAt(next) # "absent" \/ (create /\ more = <<>>))
    <3>1. u = [at |-> next, rest |-> more, links |-> w.links]
      BY <1>5, <2>2 DEF Follow
    <3>2. Follow(Richer(w, k), create) = [at |-> next, rest |-> more, links |-> w.links + k]
      BY <1>1, <1>5, <2>2 DEF Follow
    <3> HIDE DEF u, next, more
    <3>3. Richer(u, k) = [at |-> next, rest |-> more, links |-> w.links + k]
      BY <3>1 DEF Richer
    <3> QED BY <3>2, <3>3, Zenon DEF u
  <2>3. CASE KindAt(next) = "absent" /\ ~(create /\ more = <<>>)
    BY <1>1, <1>2, <1>5, <2>3 DEF Follow
  <2> QED BY <2>1, <2>2, <2>3
<1> QED BY <1>4, <1>5

\* A walk that does not run out of links comes to the same end with more.
LEMMA MoreLinks ==
    ASSUME IsTree, NEW w \in Walker, NEW create \in BOOLEAN, NEW k \in Nat,
           Walk(w, create).at # TooManyLinks
    PROVE  /\ Richer(w, k) \in Walker
           /\ Walk(Richer(w, k), create) = Richer(Walk(w, create), k)
<1>a. \A v \in Walker : /\ Richer(v, k) \in Walker
                        /\ Richer(v, k).at = v.at /\ Richer(v, k).rest = v.rest
  BY DEF Richer, Walker
<1> DEFINE S == {v \in Walker : Walk(v, create).at # TooManyLinks =>
                    Walk(Richer(v, k), create) = Richer(Walk(v, create), k)}
<1>1. ASSUME NEW v \in Walker, v.rest = <<>> PROVE v \in S
  BY <1>a, <1>1, WalkUnfolds
<1>2. ASSUME NEW v \in Walker, v.rest # <<>>, Follow(v, create) \in S PROVE v \in S
  <2> SUFFICES ASSUME Walk(v, create).at # TooManyLinks
               PROVE  Walk(Richer(v, k), create) = Richer(Walk(v, create), k)
    OBVIOUS
  <2>1. Walk(v, create) = Walk(Follow(v, create), create)
    BY <1>2, WalkUnfolds
  <2>2. Follow(v, create).at # TooManyLinks
    <3>1. TooManyLinks \in Failure
      BY DEF Failure
    <3> QED BY <1>2, <3>1, FailedStep
  <2>3. Follow(Richer(v, k), create) = Richer(Follow(v, create), k)
    BY <1>2, <2>2, FollowRicher
  <2>4. Walk(Richer(v, k), create) = Walk(Follow(Richer(v, k), create), create)
    BY <1>a, <1>2, WalkUnfolds
  <2> QED BY <1>2, <2>1, <2>3, <2>4
<1>3. \A v \in Walker : v \in S
  <2> HIDE DEF S
  <2> QED BY <1>1, <1>2, WalkInduction
<1> QED BY <1>3, <1>a

\* Opening for writing differs from opening for reading only where nothing is
\* found to be read.
LEMMA ReadOrWrite ==
    ASSUME IsTree, NEW w \in Walker, Walk(w, FALSE).at # NotFound
    PROVE  Walk(w, TRUE) = Walk(w, FALSE)
<1> DEFINE S == {v \in Walker :
                    Walk(v, FALSE).at # NotFound => Walk(v, TRUE) = Walk(v, FALSE)}
<1>1. ASSUME NEW v \in Walker, v.rest = <<>> PROVE v \in S
  BY <1>1, WalkUnfolds
<1>2. ASSUME NEW v \in Walker, v.rest # <<>>, Follow(v, FALSE) \in S PROVE v \in S
  <2> SUFFICES ASSUME Walk(v, FALSE).at # NotFound
               PROVE  Walk(v, TRUE) = Walk(v, FALSE)
    OBVIOUS
  <2>1. Follow(v, FALSE).at # NotFound
    <3>1. NotFound \in Failure
      BY DEF Failure
    <3> QED BY <1>2, <3>1, FailedStep
  <2>2. Follow(v, TRUE) = Follow(v, FALSE)
    <3>1. Stop(v, NotFound).at = NotFound
      BY DEF Stop
    <3> QED BY <2>1, <3>1 DEF Follow
  <2>3. /\ Walk(v, FALSE) = Walk(Follow(v, FALSE), FALSE)
        /\ Walk(v, TRUE) = Walk(Follow(v, TRUE), TRUE)
    BY <1>2, WalkUnfolds
  <2> QED BY <1>2, <2>2, <2>3
<1>3. \A v \in Walker : v \in S
  <2> HIDE DEF S
  <2> QED BY <1>1, <1>2, WalkInduction
<1> QED BY <1>3

\* Links are only spent.
LEMMA LinksSpent ==
    ASSUME IsTree, NEW w \in Walker, NEW create \in BOOLEAN
    PROVE  Walk(w, create).links \in 0 .. w.links
<1> DEFINE S == {v \in Walker : Walk(v, create).links \in 0 .. v.links}
<1>1. ASSUME NEW v \in Walker, v.rest = <<>> PROVE v \in S
  <2>1. v.links \in Nat /\ Walk(v, create) = v
    BY <1>1, WalkUnfolds DEF Walker
  <2> QED BY <2>1
<1>2. ASSUME NEW v \in Walker, v.rest # <<>>, Follow(v, create) \in S PROVE v \in S
  <2>1. Follow(v, create).links \in {v.links, v.links - 1}
    BY DEF Follow, Stop
  <2>2. v.links \in Nat /\ Follow(v, create).links \in Nat
    BY <1>2, FollowType DEF Walker
  <2>3. Walk(v, create).links \in 0 .. Follow(v, create).links
    BY <1>2, WalkUnfolds
  <2> QED BY <2>1, <2>2, <2>3
<1>3. \A v \in Walker : v \in S
  <2> HIDE DEF S
  <2> QED BY <1>1, <1>2, WalkInduction
<1> QED BY <1>3

\* Where a walk may be: it has failed, is at a directory or a file, or, if it
\* may make one, at nothing in a directory.
Sound(p, create) ==
    \/ p \in Failure
    \/ KindAt(p) \in {"dir", "file"}
    \/ /\ create /\ KindAt(p) = "absent"
       /\ p \in Seq(Name) \ {<<>>} /\ KindAt(Parent(p)) = "dir"

LEMMA Lands ==
    ASSUME DiskInv, NEW w \in Walker, NEW create \in BOOLEAN, Sound(w.at, create)
    PROVE  Sound(Walk(w, create).at, create)
<1> DEFINE S == {v \in Walker : Sound(v.at, create) => Sound(Walk(v, create).at, create)}
<1>0. IsTree /\ KindAt(<<>>) = "dir"
  BY Entries DEF DiskInv
<1>1. ASSUME NEW v \in Walker, v.rest = <<>> PROVE v \in S
  BY <1>0, <1>1, WalkUnfolds
<1>2. ASSUME NEW v \in Walker, v.rest # <<>>, Follow(v, create) \in S PROVE v \in S
  <2> DEFINE next == Append(v.at, Head(v.rest))
             u == Follow(v, create)
  <2>1. Sound(u.at, create)
    <3>1. \A why : Stop(v, why).at = why
      BY DEF Stop
    <3>2. CASE v.at \in Failure \/ KindAt(v.at) # "dir" \/ (KindAt(next) = "link" /\ v.links = 0)
      BY <3>1, <3>2 DEF Follow, Sound, Failure
    <3>3. CASE v.at \notin Failure /\ KindAt(v.at) = "dir" /\ KindAt(next) = "link" /\ v.links # 0
      <4>1. u.at = <<>>
        BY <3>3 DEF Follow
      <4> HIDE DEF u
      <4> QED BY <1>0, <4>1 DEF Sound
    <3>4. CASE v.at \notin Failure /\ KindAt(v.at) = "dir" /\ KindAt(next) # "link"
      <4>1. v.at \in Seq(Name) /\ Head(v.rest) \in Name
        BY <1>2, <3>4, HeadTailProperties DEF Walker
      <4>2. next \in Seq(Name) \ {<<>>} /\ Parent(next) = v.at
        BY <4>1, FrontAppend
      <4>3. u.at = NotFound \/ (u.at = next /\ (KindAt(next) # "absent" \/ create))
        BY <3>1, <3>4 DEF Follow
      <4>4. KindAt(next) \in {"absent", "file", "dir"}
        BY <1>0, <3>4, Entries DEF Kinds
      <4> HIDE DEF u, next
      <4> QED BY <3>4, <4>2, <4>3, <4>4 DEF Sound, Failure
    <3> QED BY <3>2, <3>3, <3>4
  <2>2. Walk(v, create) = Walk(u, create)
    BY <1>0, <1>2, WalkUnfolds
  <2> QED BY <1>2, <2>1, <2>2
<1>3. \A v \in Walker : v \in S
  <2> HIDE DEF S
  <2> QED BY <1>0, <1>1, <1>2, WalkInduction
<1> QED BY <1>3

-----------------------------------------------------------------------------
(* Prefixes, and canonical paths.                                          *)

\* A prefix of a path, and the one before it.
LEMMA PrefixFacts ==
    ASSUME NEW p \in Seq(Name), NEW n \in 0 .. Len(p)
    PROVE  /\ Len(p) \in Nat
           /\ SubSeq(p, 1, n) \in Seq(Name) /\ Len(SubSeq(p, 1, n)) = n
           /\ n = 0 => SubSeq(p, 1, n) = <<>>
           /\ n > 0 => /\ p[n] \in Name
                       /\ SubSeq(p, 1, n) = SubSeq(p, 1, n - 1) \o <<p[n]>>
                       /\ SubSeq(p, 1, n) = Append(SubSeq(p, 1, n - 1), p[n])
                       /\ Parent(SubSeq(p, 1, n)) = SubSeq(p, 1, n - 1)
<1>1. Len(p) \in Nat /\ \A i \in 1 .. Len(p) : p[i] \in Name
  BY LenProperties, ElementOfSeq
<1>2. \A k \in 0 .. Len(p) : SubSeq(p, 1, k) \in Seq(Name) /\ Len(SubSeq(p, 1, k)) = k
  <2> TAKE k \in 0 .. Len(p)
  <2>1. \A i \in 1 .. k : p[i] \in Name
    BY <1>1
  <2>2. k \in Int /\ 1 \in Int /\ (IF 1 <= k THEN k - 1 + 1 ELSE 0) = k
    BY <1>1
  <2> QED BY <2>1, <2>2, SubSeqProperties
<1>3. n = 0 => SubSeq(p, 1, n) = <<>>
  BY SubSeqEmpty
<1>4. ASSUME n > 0
      PROVE  /\ p[n] \in Name
             /\ SubSeq(p, 1, n) = SubSeq(p, 1, n - 1) \o <<p[n]>>
             /\ SubSeq(p, 1, n) = Append(SubSeq(p, 1, n - 1), p[n])
             /\ Parent(SubSeq(p, 1, n)) = SubSeq(p, 1, n - 1)
  <2>1. n \in 1 .. Len(p) /\ 1 \in 1 .. Len(p) /\ n - 1 \in 0 .. Len(p)
    BY <1>1, <1>4
  <2>2. p[n] \in Name /\ SubSeq(p, 1, n - 1) \in Seq(Name)
    BY <1>1, <1>2, <2>1
  <2>3. SubSeq(p, 1, n) = SubSeq(p, 1, n - 1) \o <<p[n]>>
    BY <2>1, SubSeqRecursiveSecond
  <2>4. Append(SubSeq(p, 1, n - 1), p[n]) = SubSeq(p, 1, n - 1) \o <<p[n]>>
    BY <2>2, AppendIsConcat
  <2>5. Parent(Append(SubSeq(p, 1, n - 1), p[n])) = SubSeq(p, 1, n - 1)
    BY <2>2, FrontAppend
  <2> QED BY <2>2, <2>3, <2>4, <2>5
<1> QED BY <1>1, <1>2, <1>3, <1>4

\* Everything above what is there is a directory.
LEMMA Ancestors ==
    ASSUME DiskInv, NEW p \in Entry, kind[p] # "absent"
    PROVE  \A n \in 0 .. Len(p) :
               n < Len(p) => SubSeq(p, 1, n) \in Entry /\ kind[SubSeq(p, 1, n)] = "dir"
<1> DEFINE m == Len(p)
           above(j) == SubSeq(p, 1, m - j)
           S == {j \in 0 .. m : /\ above(j) \in Entry
                                /\ kind[above(j)] # "absent"
                                /\ j > 0 => kind[above(j)] = "dir"}
<1>0. IsTree
  BY DEF DiskInv
<1>1. p \in Seq(Name) /\ m \in Nat /\ m <= MaxDepth
  BY <1>0, Entries, LenProperties
<1>2. 0 \in S
  <2>1. above(0) = p
    <3>1. m - 0 = m
      BY <1>1
    <3> QED BY <1>1, <3>1, SubSeqFull
  <2>2. 0 \in 0 .. m /\ ~(0 > 0)
    BY <1>1
  <2> HIDE DEF above, m
  <2> QED BY <2>1, <2>2
<1>3. ASSUME NEW j \in 0 .. m, j \in S, j < m
      PROVE  j + 1 \in S
  <2>1. m - j \in 0 .. Len(p) /\ m - j > 0 /\ (m - j) - 1 = m - (j + 1) /\ j + 1 \in 0 .. m
        /\ m - (j + 1) \in 0 .. Len(p) /\ m - (j + 1) <= MaxDepth
    BY <1>1, <1>3, FilesystemAssumption
  <2>2. Parent(above(j)) = above(j + 1)
    BY <1>1, <2>1, PrefixFacts
  <2>3. above(j) # <<>>
    <3>1. Len(above(j)) = m - j
      BY <1>1, <2>1, PrefixFacts
    <3>2. Len(<<>>) = 0
      BY EmptySeq
    <3>3. m - j # 0
      <4> HIDE DEF m
      <4> QED BY <2>1
    <3> HIDE DEF above, m
    <3> QED BY <3>1, <3>2, <3>3
  <2>4. kind[Parent(above(j))] = "dir"
    BY <1>0, <1>3, <2>3 DEF IsTree
  <2>5. above(j + 1) \in Entry
    <3>1. above(j + 1) \in Seq(Name) /\ Len(above(j + 1)) = m - (j + 1)
      BY <1>1, <2>1, PrefixFacts
    <3> QED BY <2>1, <3>1, PathsToDepth, FilesystemAssumption DEF Entry
  <2> HIDE DEF above
  <2> QED BY <2>1, <2>2, <2>4, <2>5
<1>4. \A j \in 0 .. m : j \in S
  <2> HIDE DEF S, m
  <2> QED BY <1>1, <1>2, <1>3, InductionUpTo
<1>5. ASSUME NEW n \in 0 .. m, n < m
      PROVE  SubSeq(p, 1, n) \in Entry /\ kind[SubSeq(p, 1, n)] = "dir"
  <2>1. m - n \in 0 .. m /\ m - n > 0 /\ m - (m - n) = n
    BY <1>1, <1>5
  <2>2. m - n \in S
    BY <1>4, <2>1
  <2> QED BY <2>1, <2>2
<1> QED BY <1>5

\* One component from a directory to what is in it.
LEMMA EnterOne ==
    ASSUME DiskInv, NEW p \in Seq(Name), NEW x \in Name, NEW links \in Nat,
           KindAt(p) = "dir", KindAt(Append(p, x)) \in {"dir", "file"}
    PROVE  Walk([at |-> p, rest |-> <<x>>, links |-> links], FALSE) =
               [at |-> Append(p, x), rest |-> <<>>, links |-> links]
<1> DEFINE w == [at |-> p, rest |-> <<x>>, links |-> links]
           v == [at |-> Append(p, x), rest |-> <<>>, links |-> links]
<1>0. IsTree
  BY DEF DiskInv
<1>1. w \in Walker /\ w.rest # <<>>
  BY DEF Walker
<1>2. v \in Walker /\ v.rest = <<>>
  <2>1. Append(p, x) \in Seq(Name) /\ <<>> \in Seq(Name)
    BY FrontAppend, EmptySeq
  <2> QED BY <2>1 DEF Walker
<1>3. Follow(w, FALSE) = v
  <2>1. w.at = p /\ Head(w.rest) = x /\ Tail(w.rest) = <<>> /\ w.links = links
    OBVIOUS
  <2>2. p \notin Failure
    BY FailureAssumption
  <2> HIDE DEF w
  <2> QED BY <2>1, <2>2 DEF Follow
<1> HIDE DEF w, v
<1>4. Walk(w, FALSE) = Walk(v, FALSE)
  BY <1>0, <1>1, <1>3, WalkUnfolds
<1>5. Walk(v, FALSE) = v
  BY <1>0, <1>2, WalkUnfolds
<1> QED BY <1>4, <1>5 DEF w, v

\* The walk along a path without links ends where the path says, and spends
\* none.
LEMMA CanonicalStays ==
    ASSUME DiskInv, NEW p \in Entry, kind[p] \in {"dir", "file"}, NEW links \in Nat
    PROVE  Walk([at |-> <<>>, rest |-> p, links |-> links], FALSE) =
               [at |-> p, rest |-> <<>>, links |-> links]
<1> DEFINE m == Len(p)
           start(n) == [at |-> <<>>, rest |-> SubSeq(p, 1, n), links |-> links]
           there(n) == [at |-> SubSeq(p, 1, n), rest |-> <<>>, links |-> links]
           S == {n \in 0 .. m : Walk(start(n), FALSE) = there(n)}
<1>0. IsTree
  BY DEF DiskInv
<1>1. p \in Seq(Name) /\ m \in Nat /\ <<>> \in Seq(Name)
  BY <1>0, Entries, LenProperties, EmptySeq
<1>2. \A n \in 0 .. m : start(n) \in Walker
  BY <1>1, PrefixFacts DEF Walker
<1>3. 0 \in S
  <2>1. SubSeq(p, 1, 0) = <<>>
    BY <1>1, PrefixFacts
  <2>2. start(0) = there(0) /\ start(0).rest = <<>> /\ 0 \in 0 .. m
    BY <1>1, <2>1
  <2> HIDE DEF start, there
  <2> QED BY <1>0, <1>2, <2>2, WalkUnfolds
<1>4. ASSUME NEW n \in 0 .. m, n \in S, n < m
      PROVE  n + 1 \in S
  <2> DEFINE q == SubSeq(p, 1, n)
             r == SubSeq(p, 1, n + 1)
             x == p[n + 1]
  <2>1. n + 1 \in 0 .. m /\ n + 1 > 0 /\ (n + 1) - 1 = n
    BY <1>1, <1>4
  <2>2. q \in Seq(Name) /\ x \in Name /\ r = q \o <<x>> /\ r = Append(q, x)
    BY <1>1, <2>1, PrefixFacts
  <2>3. q \in Entry /\ KindAt(q) = "dir"
    BY <1>0, <1>4, Ancestors, Entries
  <2>4. KindAt(r) \in {"dir", "file"}
    <3>1. CASE n + 1 < m
      BY <1>0, <2>1, <3>1, Ancestors, Entries
    <3>2. CASE n + 1 = m
      <4>1. r = p
        BY <1>1, <3>2, SubSeqFull
      <4> QED BY <1>0, <4>1, Entries
    <3> QED BY <1>1, <1>4, <2>1, <3>1, <3>2
  <2>5. <<x>> \in Seq(Name) /\ <<x>> # <<>> /\ <<>> \o <<x>> = <<x>>
    BY <2>2
  <2>6. Longer(start(n), <<x>>) = start(n + 1)
    <3> HIDE DEF q, x, r
    <3>1. start(n) = [at |-> <<>>, rest |-> q, links |-> links]
      BY DEF q
    <3>2. start(n + 1) = [at |-> <<>>, rest |-> r, links |-> links]
      BY DEF r
    <3> HIDE DEF start
    <3> QED BY <2>2, <3>1, <3>2 DEF Longer
  <2>7. Longer(there(n), <<x>>) = [at |-> q, rest |-> <<x>>, links |-> links]
    <3> HIDE DEF x
    <3> QED BY <2>5 DEF Longer
  <2>8. Walk(start(n), FALSE) = there(n)
    BY <1>4
  <2>9. Walk(start(n + 1), FALSE) = Walk([at |-> q, rest |-> <<x>>, links |-> links], FALSE)
    <3>1. start(n) \in Walker
      BY <1>2
    <3> HIDE DEF start, there, q, x
    <3>2. Walk(Longer(start(n), <<x>>), FALSE) = Walk(Longer(Walk(start(n), FALSE), <<x>>), FALSE)
      BY <1>0, <2>5, <3>1, WalkOn
    <3> QED BY <2>6, <2>7, <2>8, <3>2, Zenon
  <2>10. Walk([at |-> q, rest |-> <<x>>, links |-> links], FALSE) =
             [at |-> r, rest |-> <<>>, links |-> links]
    <3> HIDE DEF q, x, r
    <3> QED BY <2>2, <2>3, <2>4, EnterOne
  <2> QED BY <2>1, <2>9, <2>10
<1>5. \A n \in 0 .. m : n \in S
  <2> HIDE DEF S, m
  <2> QED BY <1>1, <1>3, <1>4, InductionUpTo
<1>6. m \in S
  <2> HIDE DEF S, m
  <2> QED BY <1>1, <1>5
<1>7. SubSeq(p, 1, m) = p
  BY <1>1, SubSeqFull
<1> QED BY <1>6, <1>7

-----------------------------------------------------------------------------
(* Resolution.                                                             *)

\* A path cut in two is the two parts in a row.
LEMMA CutInTwo ==
    ASSUME NEW p \in Seq(Name), NEW n \in 0 .. Len(p)
    PROVE  LET rest == SubSeq(p, n + 1, Len(p))
           IN  /\ rest \in Seq(Name) /\ Len(rest) = Len(p) - n
               /\ p = SubSeq(p, 1, n) \o rest
<1> DEFINE rest == SubSeq(p, n + 1, Len(p))
<1>1. Len(p) \in Nat /\ \A i \in 1 .. Len(p) : p[i] \in Name
  BY LenProperties, ElementOfSeq
<1>2. rest \in Seq(Name) /\ Len(rest) = Len(p) - n
  <2>1. \A i \in n + 1 .. Len(p) : p[i] \in Name
    BY <1>1
  <2>2. n + 1 \in Int /\ Len(p) \in Int
        /\ (IF n + 1 <= Len(p) THEN Len(p) - (n + 1) + 1 ELSE 0) = Len(p) - n
    BY <1>1
  <2> QED BY <2>1, <2>2, SubSeqProperties
<1>3. SubSeq(p, 1, n) \o rest = SubSeq(p, 1, Len(p))
  <2>1. 1 \in 1 .. Len(p) + 1 /\ n \in 1 - 1 .. Len(p) /\ Len(p) \in n .. Len(p)
    BY <1>1
  <2> QED BY <2>1, ConcatAdjacentSubSeq
<1>4. SubSeq(p, 1, Len(p)) = p
  BY SubSeqFull
<1> QED BY <1>2, <1>3, <1>4

\* And two paths in a row are cut where the first one ends.
LEMMA CutAtFirst ==
    ASSUME NEW q \in Seq(Name), NEW t \in Seq(Name)
    PROVE  /\ Len(q) \in 0 .. Len(q \o t)
           /\ SubSeq(q \o t, 1, Len(q)) = q
           /\ SubSeq(q \o t, Len(q) + 1, Len(q \o t)) = t
<1> DEFINE p == q \o t
<1>1. p \in Seq(Name) /\ Len(p) = Len(q) + Len(t) /\ Len(q) \in Nat /\ Len(t) \in Nat
  BY ConcatProperties, LenProperties
<1>2. Len(q) \in 0 .. Len(p)
  BY <1>1
<1>3. SubSeq(p, 1, Len(q)) = q
  <2>1. CASE q = <<>>
    <3>1. Len(q) = 0 /\ Len(q) \in Int /\ 1 \in Int
      BY <2>1, EmptySeq
    <3> QED BY <2>1, <3>1, SubSeqEmpty
  <2>2. CASE q # <<>>
    <3>1. Len(q) \in 1 .. Len(q) /\ 1 \in 1 .. Len(q)
      BY <2>2, EmptySeq
    <3> QED BY <3>1, SubSeqOfConcat1, SubSeqFull
  <2> QED BY <2>1, <2>2
<1>4. SubSeq(p, Len(q) + 1, Len(p)) \in Seq(Name)
      /\ p = q \o SubSeq(p, Len(q) + 1, Len(p))
  BY <1>1, <1>2, <1>3, CutInTwo
<1>5. SubSeq(p, Len(q) + 1, Len(p)) = t
  BY <1>4, ConcatSimplifications
<1> QED BY <1>2, <1>3, <1>5

\* Nothing longer than q along q \o t exists.
NoFurther(q, t) ==
    \A u, v \in Seq(Name) : t = u \o v /\ u # <<>> => ~Exists(q \o u)

\* Every path has a longest part that exists: the root at least does.
LEMMA LongestExists ==
    ASSUME IsTree, NEW p \in Seq(Name)
    PROVE  \E q, t \in Seq(Name) : p = q \o t /\ Exists(q) /\ NoFurther(q, t)
<1> DEFINE m == Len(p)
           S == {n \in 0 .. m : Exists(SubSeq(p, 1, m - n))}
<1>1. m \in Nat
  BY LenProperties
<1>2. m \in S
  <2>1. SubSeq(p, 1, m - m) = <<>>
    BY <1>1, PrefixFacts
  <2>2. FromRoot(<<>>) \in Walker /\ FromRoot(<<>>).rest = <<>> /\ FromRoot(<<>>).at = <<>>
    BY EmptySeq, FilesystemAssumption DEF FromRoot, Walker
  <2>3. ReachedByRead(<<>>) = <<>>
    BY <2>2, WalkUnfolds DEF ReachedByRead
  <2>4. Exists(<<>>)
    BY <2>3, EmptySeq, FailureAssumption DEF Exists
  <2>5. m \in 0 .. m
    BY <1>1
  <2> HIDE DEF m
  <2> QED BY <2>1, <2>4, <2>5
<1>3. PICK n \in S : \A k \in S : n <= k
  <2>1. S \in SUBSET Nat
    OBVIOUS
  <2> HIDE DEF S
  <2> QED BY <1>2, <2>1, LeastNumber
<1> DEFINE q == SubSeq(p, 1, m - n)
           t == SubSeq(p, (m - n) + 1, m)
<1>4. /\ m - n \in 0 .. m /\ q \in Seq(Name) /\ Len(q) = m - n
      /\ t \in Seq(Name) /\ Len(t) = n /\ p = q \o t /\ Exists(q)
  <2>1. m - n \in 0 .. m /\ m - (m - n) = n
    BY <1>1
  <2> QED BY <2>1, PrefixFacts, CutInTwo
<1>5. NoFurther(q, t)
  <2> SUFFICES ASSUME NEW u \in Seq(Name), NEW v \in Seq(Name), t = u \o v, u # <<>>,
                      Exists(q \o u)
               PROVE  FALSE
    BY DEF NoFurther
  <2> DEFINE k == m - Len(q \o u)
  <2>1. /\ q \o u \in Seq(Name) /\ Len(q \o u) = (m - n) + Len(u)
        /\ Len(u) \in Nat /\ Len(v) \in Nat /\ Len(u) # 0 /\ n = Len(u) + Len(v)
    <3> HIDE DEF q, t, m
    <3>1. q \o u \in Seq(Name) /\ Len(q \o u) = Len(q) + Len(u)
      BY <1>4, ConcatProperties
    <3>2. Len(u \o v) = Len(u) + Len(v) /\ Len(u) \in Nat /\ Len(v) \in Nat /\ Len(u) # 0
      BY ConcatProperties, LenProperties, EmptySeq
    <3> QED BY <1>4, <3>1, <3>2
  <2>2. k \in 0 .. m /\ k < n /\ m - k = Len(q \o u)
    <3> HIDE DEF q, t, m
    <3> QED BY <1>1, <1>4, <2>1
  <2>3. p = (q \o u) \o v
    <3> HIDE DEF q, t, m
    <3>1. q \in Seq(Name) /\ p = q \o t
      BY <1>4
    <3>2. (q \o u) \o v = q \o (u \o v)
      BY <3>1, ConcatAssociative
    <3> QED BY <3>1, <3>2, Zenon
  <2>4. SubSeq(p, 1, m - k) = q \o u
    <3> HIDE DEF q, t, m, k
    <3> QED BY <2>1, <2>2, <2>3, CutAtFirst
  <2>5. k \in S
    <3> HIDE DEF q, t, m, k
    <3> QED BY <2>2, <2>4
  <2> HIDE DEF k, S, m
  <2> QED BY <1>1, <1>3, <1>4, <2>2, <2>5
<1> QED BY <1>4, <1>5

\* What resolving a path comes to.
LEMMA ResolveAt ==
    ASSUME IsTree, NEW q \in Seq(Name), NEW t \in Seq(Name), Exists(q), NoFurther(q, t)
    PROVE  ResolveExistingAncestor(q \o t) = ReachedByRead(q) \o t
<1> DEFINE p == q \o t
           D == {n \in 0 .. Len(p) : Exists(SubSeq(p, 1, n))}
<1>1. p \in Seq(Name) /\ Len(p) \in Nat
  BY ConcatProperties, LenProperties
<1>2. Len(q) \in D /\ SubSeq(p, 1, Len(q)) = q /\ SubSeq(p, Len(q) + 1, Len(p)) = t
  BY CutAtFirst
<1>3. ASSUME NEW n \in D, n > Len(q)
      PROVE  FALSE
  <2> DEFINE u == SubSeq(p, Len(q) + 1, n)
             v == SubSeq(p, n + 1, Len(p))
  <2>1. /\ 1 \in 1 .. Len(p) + 1 /\ Len(q) \in 1 - 1 .. Len(p) /\ n \in Len(q) .. Len(p)
        /\ Len(q) + 1 \in 1 .. Len(p) + 1 /\ n \in (Len(q) + 1) - 1 .. Len(p)
        /\ Len(p) \in n .. Len(p) /\ n \in 0 .. Len(p) /\ n \in Int /\ Len(q) + 1 \in Int
        /\ Len(q) + 1 <= n
    BY <1>1, <1>2, <1>3
  <2>2. SubSeq(p, 1, Len(q)) \o u = SubSeq(p, 1, n)
    BY <1>1, <2>1, ConcatAdjacentSubSeq
  <2>3. u \o v = t
    BY <1>1, <1>2, <2>1, ConcatAdjacentSubSeq
  <2>4. u \in Seq(Name) /\ Len(u) = n - (Len(q) + 1) + 1
    <3>1. \A i \in Len(q) + 1 .. n : p[i] \in Name
      BY <1>1, <2>1, ElementOfSeq
    <3> QED BY <2>1, <3>1, SubSeqProperties
  <2>5. v \in Seq(Name)
    BY <1>1, <2>1, CutInTwo
  <2>6. u # <<>>
    <3>1. Len(<<>>) = 0
      BY EmptySeq
    <3>2. Len(u) # 0
      <4> HIDE DEF u, p, D
      <4> QED BY <1>1, <2>1, <2>4
    <3> HIDE DEF u
    <3> QED BY <3>1, <3>2
  <2>7. Exists(q \o u)
    <3>1. Exists(SubSeq(p, 1, n))
      BY <1>3
    <3> HIDE DEF u, p
    <3> QED BY <1>2, <2>2, <3>1
  <2> HIDE DEF u, v
  <2> QED BY <2>3, <2>4, <2>5, <2>6, <2>7 DEF NoFurther
<1>4. Max(D) = Len(q)
  <2>1. D \subseteq Nat
    BY <1>1
  <2>2. \A n \in D : n <= Len(q)
    <3>1. Len(q) \in D
      BY <1>2
    <3> HIDE DEF D
    <3> QED BY <1>3, <2>1, <3>1
  <2> HIDE DEF D
  <2>3. Len(q) \in D /\ Len(q) \in Nat
    BY <1>2, <2>1
  <2>4. ASSUME NEW x \in D, \A y \in D : x >= y PROVE x = Len(q)
    <3>1. x \in Nat /\ x >= Len(q) /\ x <= Len(q)
      BY <2>1, <2>2, <2>3, <2>4
    <3> QED BY <2>3, <3>1
  <2>5. \A y \in D : Len(q) >= y
    BY <2>1, <2>2, <2>3
  <2> QED BY <2>3, <2>4, <2>5, Zenon DEF Max
<1>5. ResolveExistingAncestor(p) =
          Canonicalize(SubSeq(p, 1, Max(D))) \o SubSeq(p, Max(D) + 1, Len(p))
  BY DEF ResolveExistingAncestor
<1> HIDE DEF D, p
<1>6. ResolveExistingAncestor(p) = Canonicalize(q) \o t
  BY <1>2, <1>4, <1>5
<1> QED BY <1>6 DEF Canonicalize, p

\* Walks start at the root, which exists.
LEMMA Starts ==
    ASSUME IsTree, NEW p \in Seq(Name)
    PROVE  /\ FromRoot(p) \in Walker
           /\ p = <<>> => ReachedByRead(p) = <<>> /\ Exists(p)
           /\ \A create \in BOOLEAN : Walk(FromRoot(p), create) \in Walker
<1>1. FromRoot(p) \in Walker /\ FromRoot(p).rest = p /\ FromRoot(p).at = <<>>
  BY EmptySeq, FilesystemAssumption DEF FromRoot, Walker
<1>2. ASSUME p = <<>> PROVE ReachedByRead(p) = <<>> /\ Exists(p)
  <2>1. ReachedByRead(p) = <<>>
    BY <1>1, <1>2, WalkUnfolds DEF ReachedByRead
  <2> QED BY <2>1, EmptySeq, FailureAssumption DEF Exists
<1> QED BY <1>1, <1>2, WalkUnfolds

\* What a path that exists leads to is a directory or a file, at a path
\* without links.
LEMMA Reached ==
    ASSUME DiskInv, NEW q \in Seq(Name), Exists(q)
    PROVE  LET d == ReachedByRead(q)
           IN  /\ d \in Entry /\ d \in Seq(Name) /\ kind[d] \in {"dir", "file"}
               /\ KindAt(d) = kind[d] /\ ReachedByRead(d) = d /\ Exists(d)
               /\ \E k \in 0 .. MaxLinks :
                      Walk(FromRoot(q), FALSE) = [at |-> d, rest |-> <<>>, links |-> k]
<1> DEFINE d == ReachedByRead(q)
           e == Walk(FromRoot(q), FALSE)
<1>0. IsTree /\ MaxLinks \in Nat
  BY FilesystemAssumption DEF DiskInv
<1>1. FromRoot(q) \in Walker /\ FromRoot(q).at = <<>> /\ FromRoot(q).links = MaxLinks
  BY <1>0, Starts DEF FromRoot
<1>2. e \in Walker /\ e.rest = <<>>
  BY <1>0, <1>1, WalkUnfolds
<1>3. d = e.at /\ d \notin Failure
  BY DEF ReachedByRead, Exists
<1>4. e.links \in 0 .. MaxLinks
  BY <1>0, <1>1, LinksSpent
<1>5. Sound(d, FALSE)
  <2>1. Sound(<<>>, FALSE)
    BY <1>0, Entries DEF Sound, DiskInv
  <2> QED BY <1>1, <1>3, <2>1, Lands
<1>6. d \in Entry /\ kind[d] \in {"dir", "file"} /\ d \in Seq(Name) /\ KindAt(d) = kind[d]
  <2>1. KindAt(d) \in {"dir", "file"}
    BY <1>3, <1>5 DEF Sound
  <2> HIDE DEF d
  <2> QED BY <1>0, <2>1, Entries
<1>7. e = [at |-> d, rest |-> <<>>, links |-> e.links]
  BY <1>2, <1>3 DEF Walker
<1> HIDE DEF d
<1>8. ReachedByRead(d) = d
  <2> DEFINE v == [at |-> d, rest |-> <<>>, links |-> MaxLinks]
  <2>1. Walk(FromRoot(d), FALSE) = v
    BY <1>0, <1>6, CanonicalStays DEF FromRoot
  <2>2. v.at = d
    OBVIOUS
  <2> HIDE DEF v
  <2> QED BY <2>1, <2>2, Zenon DEF ReachedByRead
<1>9. Exists(d)
  BY <1>6, <1>8, FailureAssumption DEF Exists
<1> HIDE DEF e
<1> QED BY <1>4, <1>6, <1>7, <1>8, <1>9 DEF d, e

\* A path is walked as its first part is, and on from there.
LEMMA FirstPart ==
    ASSUME IsTree, NEW q \in Seq(Name), NEW t \in Seq(Name), t # <<>>, NEW create \in BOOLEAN
    PROVE  Walk(FromRoot(q \o t), create) = Walk(Longer(Walk(FromRoot(q), FALSE), t), create)
<1>1. FromRoot(q) \in Walker
  BY Starts
<1>2. Longer(FromRoot(q), t) = FromRoot(q \o t)
  BY DEF Longer, FromRoot
<1> QED BY <1>1, <1>2, WalkOn

\* Where the first part fails, the path fails, for the same reason.
LEMMA FailsOnward ==
    ASSUME IsTree, NEW q \in Seq(Name), NEW t \in Seq(Name), t # <<>>, NEW create \in BOOLEAN,
           ~Exists(q)
    PROVE  Walk(FromRoot(q \o t), create).at = ReachedByRead(q)
<1> DEFINE e == Walk(FromRoot(q), FALSE)
<1>1. FromRoot(q) \in Walker
  BY Starts
<1>2. Longer(e, t) \in Walker /\ Longer(e, t).at = e.at
  BY <1>1, WalkOn DEF Longer
<1>3. e.at \in Failure /\ e.at = ReachedByRead(q)
  BY DEF Exists, ReachedByRead
<1>4. Walk(Longer(e, t), create) = Stop(Longer(e, t), e.at)
  <2> HIDE DEF e
  <2> QED BY <1>2, <1>3, FailedStays
<1>5. Walk(FromRoot(q \o t), create) = Walk(Longer(e, t), create)
  BY FirstPart
<1> HIDE DEF e
<1>6. Stop(Longer(e, t), e.at).at = e.at
  BY DEF Stop
<1> QED BY <1>3, <1>4, <1>5, <1>6

\* The canonical form of what exists leads on to where the path itself does,
\* unless this runs out of links.
LEMMA FromCanonical ==
    ASSUME DiskInv, NEW q \in Seq(Name), NEW t \in Seq(Name), t # <<>>, NEW create \in BOOLEAN,
           Exists(q), Walk(FromRoot(q \o t), create).at # TooManyLinks
    PROVE  Walk(FromRoot(ReachedByRead(q) \o t), create).at = Walk(FromRoot(q \o t), create).at
<1> DEFINE d == ReachedByRead(q)
<1>0. IsTree /\ MaxLinks \in Nat
  BY FilesystemAssumption DEF DiskInv
<1>1. /\ d \in Entry /\ d \in Seq(Name) /\ kind[d] \in {"dir", "file"}
      /\ ReachedByRead(d) = d /\ Exists(d)
  BY Reached
<1>2. PICK k \in 0 .. MaxLinks :
          Walk(FromRoot(q), FALSE) = [at |-> d, rest |-> <<>>, links |-> k]
  BY Reached
<1> HIDE DEF d
<1>3. Walk(FromRoot(d), FALSE) = [at |-> d, rest |-> <<>>, links |-> MaxLinks]
  BY <1>0, <1>1, CanonicalStays DEF FromRoot
<1>4. <<>> \o t = t
  BY ConcatEmptySeq
<1> DEFINE w == [at |-> d, rest |-> t, links |-> k]
<1>5. Walk(FromRoot(q \o t), create) = Walk(w, create)
  <2>1. Longer([at |-> d, rest |-> <<>>, links |-> k], t) = w
    BY <1>4 DEF Longer
  <2> HIDE DEF w
  <2> QED BY <1>0, <1>2, <2>1, FirstPart
<1>6. Walk(FromRoot(d \o t), create) = Walk(Richer(w, MaxLinks - k), create)
  <2>1. Longer([at |-> d, rest |-> <<>>, links |-> MaxLinks], t) =
            [at |-> d, rest |-> t, links |-> MaxLinks]
    BY <1>4 DEF Longer
  <2>2. k + (MaxLinks - k) = MaxLinks
    BY <1>0
  <2>3. Richer(w, MaxLinks - k) = [at |-> d, rest |-> t, links |-> MaxLinks]
    BY <2>2 DEF Richer
  <2>4. Walk(FromRoot(d \o t), create) = Walk(Longer(Walk(FromRoot(d), FALSE), t), create)
    BY <1>0, <1>1, FirstPart
  <2> HIDE DEF w
  <2> QED BY <1>3, <2>1, <2>3, <2>4, Zenon
<1>7. w \in Walker /\ MaxLinks - k \in Nat
  BY <1>0, <1>1 DEF Walker
<1> HIDE DEF w
<1>8. Walk(Richer(w, MaxLinks - k), create) = Richer(Walk(w, create), MaxLinks - k)
  BY <1>0, <1>5, <1>7, MoreLinks
<1>9. Richer(Walk(w, create), MaxLinks - k).at = Walk(w, create).at
  BY DEF Richer
<1> QED BY <1>5, <1>6, <1>8, <1>9 DEF d

-----------------------------------------------------------------------------
(* The properties, of any path.                                            *)

\* A path that exists is resolved to what a read of it reaches.
LEMMA ReadsAnyPath ==
    ASSUME IsTree, NEW p \in Seq(Name), Exists(p)
    PROVE  ResolveExistingAncestor(p) = ReachedByRead(p)
<1>1. <<>> \in Seq(Name) /\ p \o <<>> = p
  BY EmptySeq, ConcatEmptySeq
<1>2. NoFurther(p, <<>>)
  BY ConcatSimplifications DEF NoFurther
<1>3. ResolveExistingAncestor(p) = ReachedByRead(p) \o <<>>
  BY <1>1, <1>2, ResolveAt
<1>4. ReachedByRead(p) \in Seq(Name)
  BY Starts DEF ReachedByRead, Exists, Walker
<1> QED BY <1>3, <1>4, ConcatEmptySeq

\* A path that can be written is resolved to what is written, or to a link
\* that leads to nothing.
LEMMA WritesAnyPath ==
    ASSUME DiskInv, NEW p \in Seq(Name), ReachedByWrite(p) \notin Failure
    PROVE  \/ ResolveExistingAncestor(p) = ReachedByWrite(p)
           \/ Dangling(ResolveExistingAncestor(p))
<1>0. IsTree
  BY DEF DiskInv
<1>a. ReachedByRead(p) # NotFound => ReachedByWrite(p) = ReachedByRead(p)
  BY <1>0, Starts, ReadOrWrite DEF ReachedByRead, ReachedByWrite
<1>1. CASE Exists(p)
  <2>1. ReachedByRead(p) # NotFound
    BY <1>1 DEF Exists, Failure
  <2> QED BY <1>0, <1>1, <1>a, <2>1, ReadsAnyPath
<1>2. CASE ~Exists(p)
  <2>1. ReachedByRead(p) = NotFound
    BY <1>2, <1>a DEF Exists
  <2>2. p # <<>>
    BY <1>0, <1>2, Starts
  <2>3. PICK q \in Seq(Name), x \in Name : p = Append(q, x)
    BY <2>2, SequenceEmptyOrAppend
  <2> DEFINE t == <<x>>
  <2>4. p = q \o t /\ t \in Seq(Name) /\ t # <<>>
    BY <2>3, AppendIsConcat
  <2>5. Exists(q)
    <3>1. ASSUME ~Exists(q) PROVE FALSE
      <4>1. ReachedByWrite(p) = ReachedByRead(q)
        <5> HIDE DEF t
        <5> QED BY <1>0, <2>4, <3>1, FailsOnward DEF ReachedByWrite
      <4> QED BY <3>1, <4>1 DEF Exists
    <3> QED BY <3>1
  <2>6. NoFurther(q, t)
    <3> SUFFICES ASSUME NEW u \in Seq(Name), NEW v \in Seq(Name), t = u \o v, u # <<>>
                 PROVE  ~Exists(q \o u)
      BY DEF NoFurther
    <3>1. Len(t) = 1
      OBVIOUS
    <3> HIDE DEF t
    <3>2. Len(u \o v) = Len(u) + Len(v) /\ Len(u) \in Nat \ {0} /\ Len(v) \in Nat
      BY ConcatProperties, EmptySeq
    <3>3. Len(v) = 0
      BY <3>1, <3>2
    <3>4. v = <<>>
      BY <3>3, EmptySeq
    <3>5. u = t
      BY <3>4, ConcatEmptySeq
    <3> QED BY <1>2, <2>4, <3>5
  <2> DEFINE d == ReachedByRead(q)
             r == Append(d, x)
  <2>7. d \in Seq(Name) /\ ReachedByRead(d) = d
    BY <2>5, Reached
  <2>8. r = d \o t /\ r \in Seq(Name)
    <3> HIDE DEF d
    <3> QED BY <2>7, AppendIsConcat, AppendProperties
  <2>9. ResolveExistingAncestor(p) = r
    <3> HIDE DEF t, r
    <3> QED BY <1>0, <2>4, <2>5, <2>6, <2>8, ResolveAt
  <2>10. ReachedByRead(r) = NotFound
    <3>1. Walk(FromRoot(q \o t), FALSE).at = NotFound
      BY <2>1, <2>4 DEF ReachedByRead
    <3>2. Walk(FromRoot(d \o t), FALSE).at = Walk(FromRoot(q \o t), FALSE).at
      <4> HIDE DEF t
      <4> QED BY <2>4, <2>5, <3>1, FromCanonical, FailureAssumption
    <3> HIDE DEF t, r, d
    <3> QED BY <2>8, <3>1, <3>2, Zenon DEF ReachedByRead
  <2>11. CASE KindAt(r) = "link"
    BY <2>9, <2>10, <2>11 DEF Dangling
  <2>12. CASE KindAt(r) \in {"dir", "file"}
    <3>1. r \in Entry /\ kind[r] \in {"dir", "file"}
      <4> HIDE DEF r
      <4> QED BY <1>0, <2>12, Entries
    <3>2. ReachedByRead(r) = r
      <4> HIDE DEF r
      <4> DEFINE v == [at |-> r, rest |-> <<>>, links |-> MaxLinks]
      <4>1. Walk(FromRoot(r), FALSE) = v
        BY <3>1, CanonicalStays, FilesystemAssumption DEF FromRoot
      <4>2. v.at = r
        OBVIOUS
      <4> HIDE DEF v
      <4> QED BY <4>1, <4>2, Zenon DEF ReachedByRead
    <3> HIDE DEF r
    <3> QED BY <2>8, <2>10, <3>2, FailureAssumption DEF Failure
  <2>13. CASE KindAt(r) = "absent"
    <3>1. PICK k \in 0 .. MaxLinks :
              Walk(FromRoot(q), FALSE) = [at |-> d, rest |-> <<>>, links |-> k]
      BY <2>5, Reached
    <3> HIDE DEF d
    <3> DEFINE w == [at |-> d, rest |-> t, links |-> k]
               v == [at |-> r, rest |-> <<>>, links |-> k]
    <3>2. w \in Walker /\ v \in Walker /\ w.rest # <<>> /\ v.rest = <<>> /\ v.at = r
      <4>1. k \in Nat /\ <<>> \in Seq(Name)
        BY FilesystemAssumption, EmptySeq
      <4> HIDE DEF r, t
      <4> QED BY <2>4, <2>7, <2>8, <4>1 DEF Walker
    <3>3. Walk(FromRoot(p), TRUE) = Walk(w, TRUE)
      <4>1. Longer([at |-> d, rest |-> <<>>, links |-> k], t) = w
        <5>1. <<>> \o t = t
          BY <2>4, ConcatEmptySeq
        <5> HIDE DEF t
        <5> QED BY <5>1 DEF Longer
      <4> HIDE DEF w, t
      <4> QED BY <1>0, <2>4, <3>1, <4>1, FirstPart
    <3>4. Follow(w, TRUE) \in {v, Stop(w, NotFound)}
      <4>1. w.at = d /\ Head(w.rest) = x /\ Tail(w.rest) = <<>> /\ w.links = k
        OBVIOUS
      <4>2. d \notin Failure
        BY <2>7, FailureAssumption
      <4> HIDE DEF w
      <4> QED BY <2>13, <4>1, <4>2 DEF Follow
    <3>5. Walk(FromRoot(p), TRUE).at \in {r, NotFound}
      <4>1. Stop(w, NotFound).at = NotFound /\ NotFound \in Failure
        BY DEF Stop, Failure
      <4> HIDE DEF w, v, r
      <4>2. CASE Follow(w, TRUE) = v
        <5>1. Walk(w, TRUE) = Walk(v, TRUE) /\ Walk(v, TRUE) = v
          BY <1>0, <3>2, <4>2, WalkUnfolds
        <5> QED BY <3>2, <3>3, <5>1
      <4>3. CASE Follow(w, TRUE) = Stop(w, NotFound)
        <5>1. Walk(w, TRUE) = Stop(w, NotFound)
          BY <1>0, <3>2, <4>1, <4>3, FailedStep
        <5> QED BY <3>3, <4>1, <5>1
      <4> QED BY <3>4, <4>2, <4>3
    <3> HIDE DEF r
    <3> QED BY <2>9, <3>5 DEF ReachedByWrite, Failure
  <2>14. KindAt(r) \in Kinds
    <3> HIDE DEF r
    <3> QED BY <1>0, Entries
  <2> QED BY <2>11, <2>12, <2>13, <2>14 DEF Kinds
<1> QED BY <1>1, <1>2

\* Resolved twice is resolved once, where the system does not run out of links.
LEMMA ResolvesAnyPathOnce ==
    ASSUME DiskInv, NEW p \in Seq(Name), ReachedByRead(p) # TooManyLinks
    PROVE  ResolveExistingAncestor(ResolveExistingAncestor(p)) = ResolveExistingAncestor(p)
<1>0. IsTree
  BY DEF DiskInv
<1>1. PICK q \in Seq(Name), t \in Seq(Name) : p = q \o t /\ Exists(q) /\ NoFurther(q, t)
  BY <1>0, LongestExists
<1> DEFINE d == ReachedByRead(q)
<1>2. ResolveExistingAncestor(p) = d \o t
  BY <1>0, <1>1, ResolveAt
<1>3. d \in Seq(Name) /\ ReachedByRead(d) = d /\ Exists(d)
  BY <1>1, Reached
<1>4. NoFurther(d, t)
  <2> SUFFICES ASSUME NEW u \in Seq(Name), NEW v \in Seq(Name), t = u \o v, u # <<>>
               PROVE  ~Exists(d \o u)
    BY DEF NoFurther
  <2>1. ~Exists(q \o u) /\ q \o u \in Seq(Name)
    BY <1>1, ConcatProperties DEF NoFurther
  <2>2. (q \o u) \o v = p
    <3>1. (q \o u) \o v = q \o (u \o v)
      BY ConcatAssociative
    <3> QED BY <1>1, <3>1
  <2>3. ReachedByRead(q \o u) = ReachedByRead(p)
    <3>1. CASE v = <<>>
      <4>1. q \o u = p
        BY <2>1, <2>2, <3>1, ConcatEmptySeq
      <4> QED BY <4>1
    <3>2. CASE v # <<>>
      <4>1. Walk(FromRoot((q \o u) \o v), FALSE).at = ReachedByRead(q \o u)
        BY <1>0, <2>1, <3>2, FailsOnward
      <4> QED BY <2>2, <4>1 DEF ReachedByRead
    <3> QED BY <3>1, <3>2
  <2>4. Walk(FromRoot(q \o u), FALSE).at # TooManyLinks
    BY <2>3 DEF ReachedByRead
  <2>5. Walk(FromRoot(d \o u), FALSE).at = Walk(FromRoot(q \o u), FALSE).at
    BY <1>1, <2>4, FromCanonical
  <2>6. ReachedByRead(d \o u) = ReachedByRead(q \o u)
    <3> HIDE DEF d
    <3> QED BY <2>5 DEF ReachedByRead
  <2> HIDE DEF d
  <2> QED BY <2>1, <2>6 DEF Exists
<1> HIDE DEF d
<1>5. ResolveExistingAncestor(d \o t) = ReachedByRead(d) \o t
  BY <1>0, <1>3, <1>4, ResolveAt
<1> QED BY <1>2, <1>3, <1>5

-----------------------------------------------------------------------------
(* The disk stays a tree.                                                  *)

\* The parent of an entry is an entry, and another one.
LEMMA ParentEntry ==
    ASSUME IsTree, NEW p \in Entry, p # <<>>
    PROVE  Parent(p) \in Entry /\ Parent(p) # p
<1>1. p \in Seq(Name) /\ Len(p) \in Nat /\ Len(p) <= MaxDepth /\ MaxDepth \in Nat
  BY Entries, FilesystemAssumption
<1>2. PICK q \in Seq(Name), x \in Name : p = Append(q, x)
  BY <1>1, SequenceEmptyOrAppend
<1>3. Parent(p) = q /\ Len(p) = Len(q) + 1 /\ Len(q) \in Nat
  BY <1>2, FrontAppend, AppendProperties, LenProperties
<1>4. q \in Entry
  BY <1>1, <1>3, PathsToDepth DEF Entry
<1>5. q # p
  BY <1>3
<1> QED BY <1>3, <1>4, <1>5

\* One entry changes.  It is in a directory if it is there, and nothing is in
\* it unless it is one.
LEMMA OneChange ==
    ASSUME DiskInv, NEW p \in Entry, p # <<>>, NEW k \in Kinds,
           kind' = [kind EXCEPT ![p] = k], target' \in [Entry -> Entry],
           k # "absent" => kind[Parent(p)] = "dir",
           \A q \in Children(p) : kind[q] # "absent" => k = "dir"
    PROVE  DiskInv'
<1>0. IsTree /\ kind \in [Entry -> Kinds]
  BY DEF DiskInv, IsTree
<1>1. kind' \in [Entry -> Kinds]
  BY <1>0
<1>2. \A q \in Entry : kind'[q] = IF q = p THEN k ELSE kind[q]
  BY <1>0
<1>3. ASSUME NEW q \in Entry \ {<<>>}, kind'[q] # "absent"
      PROVE  kind'[Parent(q)] = "dir"
  <2>1. Parent(q) \in Entry /\ Parent(q) # q
    BY <1>0, ParentEntry
  <2>2. CASE q = p
    BY <1>2, <1>3, <2>1, <2>2
  <2>3. CASE q # p
    <3>1. kind[q] # "absent" /\ kind[Parent(q)] = "dir"
      BY <1>0, <1>2, <1>3, <2>3 DEF IsTree
    <3>2. Parent(q) = p => k = "dir"
      BY <3>1 DEF Children
    <3> QED BY <1>2, <2>1, <3>1, <3>2
  <2> QED BY <2>2, <2>3
<1>4. <<>> \in Entry
  BY <1>0, Entries
<1>5. kind'[<<>>] = "dir"
  BY <1>2, <1>4 DEF DiskInv
<1> QED BY <1>1, <1>3, <1>5 DEF DiskInv, IsTree

LEMMA InitDisk == Init => DiskInv
<1> SUFFICES ASSUME Init PROVE DiskInv
  OBVIOUS
<1>1. <<>> \in Entry
  <2>1. MaxDepth \in Nat /\ \A p : p \in Entry <=> p \in Seq(Name) /\ Len(p) <= MaxDepth
    BY PathsToDepth, FilesystemAssumption DEF Entry
  <2>2. Len(<<>>) = 0 /\ <<>> \in Seq(Name)
    BY EmptySeq
  <2>3. Len(<<>>) <= MaxDepth
    BY <2>1, <2>2
  <2> QED BY <2>1, <2>2, <2>3, Zenon
<1>2. \A p \in Entry : kind[p] = (IF p = <<>> THEN "dir" ELSE "absent")
  BY DEF Init
<1>3. kind \in [Entry -> Kinds] /\ target \in [Entry -> Entry]
  BY <1>1 DEF Init, Kinds
<1> QED BY <1>1, <1>2, <1>3 DEF DiskInv, IsTree

LEMMA CreateDisk ==
    ASSUME DiskInv, NEW p \in Entry, NEW k \in {"file", "dir"}, Create(p, k)
    PROVE  DiskInv'
<1>1. kind[p] = "absent" /\ p # <<>> /\ kind[Parent(p)] = "dir"
  BY DEF Create, Vacant
<1>2. \A q \in Children(p) : kind[q] = "absent"
  BY <1>1 DEF DiskInv, IsTree, Children
<1>3. target' \in [Entry -> Entry]
  BY DEF Create, DiskInv, IsTree
<1>4. kind' = [kind EXCEPT ![p] = k] /\ k \in Kinds
  BY DEF Create, Kinds
<1> QED BY <1>1, <1>2, <1>3, <1>4, OneChange

LEMMA LinkDisk ==
    ASSUME DiskInv, NEW p \in Entry, NEW to \in Entry, Link(p, to)
    PROVE  DiskInv'
<1>1. kind[p] = "absent" /\ p # <<>> /\ kind[Parent(p)] = "dir"
  BY DEF Link, Vacant
<1>2. \A q \in Children(p) : kind[q] = "absent"
  BY <1>1 DEF DiskInv, IsTree, Children
<1>3. target' \in [Entry -> Entry]
  BY DEF Link, DiskInv, IsTree
<1>4. kind' = [kind EXCEPT ![p] = "link"] /\ "link" \in Kinds
  BY DEF Link, Kinds
<1> QED BY <1>1, <1>2, <1>3, <1>4, OneChange

LEMMA DeleteDisk ==
    ASSUME DiskInv, NEW p \in Entry, Delete(p)
    PROVE  DiskInv'
<1>1. p # <<>> /\ \A q \in Children(p) : kind[q] = "absent"
  BY DEF Delete
<1>2. target' \in [Entry -> Entry]
  <2>1. <<>> \in Entry
    BY Entries DEF DiskInv
  <2> QED BY <2>1 DEF Delete, DiskInv, IsTree
<1>3. kind' = [kind EXCEPT ![p] = "absent"] /\ "absent" \in Kinds
  BY DEF Delete, Kinds
<1> QED BY <1>1, <1>2, <1>3, OneChange

LEMMA FsWriteDisk ==
    ASSUME DiskInv, NEW p \in Seq(Name), FsWrite(p)
    PROVE  DiskInv'
<1> DEFINE r == ReachedByWrite(p)
<1>0. IsTree /\ kind[<<>>] = "dir"
  BY DEF DiskInv
<1>1. r \in Entry /\ kind[r] \in {"absent", "file"} /\ KindAt(r) = kind[r]
  <2>1. r \in Entry /\ KindAt(r) \in {"absent", "file"}
    BY DEF FsWrite
  <2> HIDE DEF r
  <2> QED BY <1>0, <2>1, Entries
<1>2. kind' = [kind EXCEPT ![r] = "file"] /\ "file" \in Kinds
  BY DEF FsWrite, Kinds
<1>3. target' \in [Entry -> Entry]
  BY <1>0 DEF FsWrite, IsTree
<1>4. Sound(r, TRUE)
  <2>1. Sound(<<>>, TRUE) /\ FromRoot(p).at = <<>>
    BY <1>0, Entries DEF Sound, FromRoot
  <2> QED BY <1>0, <2>1, Starts, Lands DEF ReachedByWrite
<1> HIDE DEF r
<1>5. r # <<>> /\ r \in Seq(Name) /\ r \notin Failure
  BY <1>0, <1>1, Entries, FailureAssumption
<1>6. Parent(r) \in Entry /\ KindAt(Parent(r)) = kind[Parent(r)]
  BY <1>0, <1>1, <1>5, ParentEntry, Entries
<1>7. kind[Parent(r)] = "dir"
  <2>1. CASE kind[r] = "file"
    BY <1>0, <1>1, <1>5, <2>1 DEF IsTree
  <2>2. CASE kind[r] = "absent"
    BY <1>1, <1>4, <1>5, <1>6, <2>2 DEF Sound
  <2> QED BY <1>1, <2>1, <2>2
<1>8. \A q \in Children(r) : kind[q] = "absent"
  BY <1>0, <1>1 DEF IsTree, Children
<1> QED BY <1>1, <1>2, <1>3, <1>5, <1>7, <1>8, OneChange

\* The paths asked about are paths.
LEMMA Queries == \A p \in Query : p \in Seq(Name)
BY PathsToDepth, FilesystemAssumption DEF Query

LEMMA DiskStep ==
    ASSUME DiskInv, [Next]_vars
    PROVE  DiskInv'
<1>1. ASSUME NEW p \in Entry, NEW k \in {"file", "dir"}, Create(p, k) PROVE DiskInv'
  BY <1>1, CreateDisk
<1>2. ASSUME NEW p \in Entry, NEW to \in Entry, Link(p, to) PROVE DiskInv'
  BY <1>2, LinkDisk
<1>3. ASSUME NEW p \in Entry, Delete(p) PROVE DiskInv'
  BY <1>3, DeleteDisk
<1>4. ASSUME NEW p \in Query, FsWrite(p) PROVE DiskInv'
  BY <1>4, Queries, FsWriteDisk
<1>5. ASSUME UNCHANGED vars PROVE DiskInv'
  BY <1>5 DEF DiskInv, IsTree, vars
<1> QED BY <1>1, <1>2, <1>3, <1>4, <1>5 DEF Next

\* Whatever is created, linked, removed and written, by the program and by
\* others, the disk stays a tree with a directory at its root.
THEOREM StaysATree == Spec => []DiskInv
<1>1. Init => DiskInv
  BY InitDisk
<1>2. DiskInv /\ [Next]_vars => DiskInv'
  BY DiskStep
<1> QED BY <1>1, <1>2, PTL DEF Spec

\* The decision about a read is about the path that is read.
THEOREM ReadsResolved == Spec => []ReadsWhatWasResolved
<1>1. ASSUME DiskInv PROVE ReadsWhatWasResolved
  BY <1>1, Queries, ReadsAnyPath DEF ReadsWhatWasResolved, Exists, DiskInv
<1> QED BY <1>1, StaysATree, PTL

\* The decision about a write is about the path that is written, unless it was
\* made about a link that leads to nothing.
THEOREM WritesResolved == Spec => []WritesWhatWasResolved
<1>1. ASSUME DiskInv PROVE WritesWhatWasResolved
  BY <1>1, Queries, WritesAnyPath DEF WritesWhatWasResolved
<1> QED BY <1>1, StaysATree, PTL

\* A path resolved again, as the roots in a capability are when it is
\* attenuated, is what it was.
THEOREM ResolvesOnce == Spec => []ResolutionIdempotent
<1>1. ASSUME DiskInv PROVE ResolutionIdempotent
  BY <1>1, Queries, ResolvesAnyPathOnce DEF ResolutionIdempotent
<1> QED BY <1>1, StaysATree, PTL

-----------------------------------------------------------------------------
(* What the other modules take from here.                                  *)

\* The scopes over all paths, which are absolute and hold no . or .. component
\* here; no time or executable comes in.
Scopes ==
    INSTANCE Scope WITH Path <- Seq(Name), SafePath <- Seq(Name), Binary <- {},
                        Rfc3339Max <- 0, TimeMax <- 1, DurationMax <- 2, I64Max <- 3

\* The `resolve' of Scope, for the disk as it is.
Resolve == [p \in Seq(Name) |-> ResolveExistingAncestor(p)]

LEMMA ResolvedType ==
    ASSUME DiskInv, NEW p \in Seq(Name)
    PROVE  ResolveExistingAncestor(p) \in Seq(Name) /\ (p = <<>> => ResolveExistingAncestor(p) = <<>>)
<1>0. IsTree
  BY DEF DiskInv
<1>1. PICK q \in Seq(Name), t \in Seq(Name) : p = q \o t /\ Exists(q) /\ NoFurther(q, t)
  BY <1>0, LongestExists
<1>2. ResolveExistingAncestor(p) = ReachedByRead(q) \o t
  BY <1>0, <1>1, ResolveAt
<1>3. ReachedByRead(q) \in Seq(Name)
  BY <1>1, Reached
<1>4. p = <<>> => ResolveExistingAncestor(p) = <<>>
  BY <1>0, Starts, ReadsAnyPath
<1> QED BY <1>2, <1>3, <1>4, ConcatProperties

\* The disk resolves paths as the model of capabilities assumes it does.
THEOREM ResolvesAsAssumed == Spec => [](Resolve \in Scopes!Resolution)
<1>1. ASSUME DiskInv PROVE Resolve \in Scopes!Resolution
  BY <1>1, ResolvedType DEF Resolve, Scopes!Resolution
<1> QED BY <1>1, StaysATree, PTL

\* What the roots of a capability promise, on a disk that is as it was when
\* the decision was made: a read that is allowed and succeeds reads below a
\* root, and a write that is allowed and succeeds writes below one, unless it
\* was allowed for a link that leads to nothing.
StaysInRoots ==
    \A permissions \in Scopes!Permissions, p \in Seq(Name) :
        /\ /\ Scopes!AllowsRead(permissions, Resolve, p)
           /\ ReachedByRead(p) \notin Failure
           => Scopes!IsUnderAnyRoot(ReachedByRead(p), permissions.readable_roots)
        /\ /\ Scopes!AllowsWrite(permissions, Resolve, p)
           /\ ReachedByWrite(p) \notin Failure
           /\ ~Dangling(Resolve[p])
           => Scopes!IsUnderAnyRoot(ReachedByWrite(p), permissions.writable_roots)

\* No link, no number of links and no path leads a read out of the roots, and
\* none leads a write out but the dangling one.
THEOREM RootsHold == Spec => []StaysInRoots
<1>1. ASSUME DiskInv PROVE StaysInRoots
  <2> SUFFICES ASSUME NEW permissions \in Scopes!Permissions, NEW p \in Seq(Name)
               PROVE  /\ /\ Scopes!AllowsRead(permissions, Resolve, p)
                         /\ ReachedByRead(p) \notin Failure
                         => Scopes!IsUnderAnyRoot(ReachedByRead(p), permissions.readable_roots)
                      /\ /\ Scopes!AllowsWrite(permissions, Resolve, p)
                         /\ ReachedByWrite(p) \notin Failure
                         /\ ~Dangling(Resolve[p])
                         => Scopes!IsUnderAnyRoot(ReachedByWrite(p), permissions.writable_roots)
    BY DEF StaysInRoots
  <2>1. Resolve[p] = ResolveExistingAncestor(p)
    BY DEF Resolve
  <2>2. ReachedByRead(p) \notin Failure => Resolve[p] = ReachedByRead(p)
    BY <1>1, <2>1, ReadsAnyPath DEF Exists, DiskInv
  <2>3. ReachedByWrite(p) \notin Failure /\ ~Dangling(Resolve[p]) => Resolve[p] = ReachedByWrite(p)
    BY <1>1, <2>1, WritesAnyPath
  <2> QED BY <2>2, <2>3 DEF Scopes!AllowsRead, Scopes!AllowsWrite, Scopes!CheckedPath
<1> QED BY <1>1, StaysATree, PTL

=============================================================================
