----------------------------- MODULE ListLemmas -----------------------------
(***************************************************************************)
(* Induction over numbers and sequences, as facts about sets, and what     *)
(* folds over a sequence compute.  The induction theorems of the library   *)
(* take a predicate as their parameter, which the provers cannot           *)
(* instantiate; here a predicate is the set of the values that have it,    *)
(* and the step of a fold is a function.                                   *)
(***************************************************************************)
EXTENDS Lists, FiniteSetsExt, WellFoundedInduction,
        FiniteSetTheorems, SequenceTheorems, TLAPS

-----------------------------------------------------------------------------
\* Numbers

Below == {p \in Nat \X Nat : p[1] < p[2]}

LEMMA BelowIsWellFounded == IsWellFoundedOn(Below, Nat)
<1>1. Below = OpToRel(<, Nat)
  BY DEF Below, OpToRel
<1> QED
  BY <1>1, NatLessThanWellFounded

LEMMA Least ==
  ASSUME NEW S, S \subseteq Nat, S # {}
  PROVE  \E n \in S : \A m \in S : n <= m
<1>1. \E x \in S : \A y \in S : ~(<<y, x>> \in Below)
  BY BelowIsWellFounded, WFMin
<1>2. PICK n \in S : \A m \in S : ~(<<m, n>> \in Below)
  BY <1>1
<1>3. ASSUME NEW m \in S PROVE n <= m
  <2>1. ~(<<m, n>> \in Below)
    BY <1>2
  <2>2. m \in Nat /\ n \in Nat
    OBVIOUS
  <2> QED
    BY <2>1, <2>2 DEF Below
<1> QED
  BY <1>3

LEMMA Induct ==
  ASSUME NEW S, 0 \in S, \A n \in Nat : n \in S => n + 1 \in S
  PROVE  Nat \subseteq S
<1> SUFFICES ASSUME Nat \ S # {} PROVE FALSE
  OBVIOUS
<1>1. PICK n \in Nat \ S : \A m \in Nat \ S : n <= m
  BY Least
<1>2. n # 0 /\ n - 1 \in Nat
  BY <1>1
<1>3. n - 1 \in S
  BY <1>1, <1>2
<1> QED
  BY <1>1, <1>2, <1>3

\* The largest of finitely many numbers is one of them.
LEMMA MaxIsLargest ==
  ASSUME NEW n \in Nat, NEW s \in SUBSET (1..n), s # {}
  PROVE  /\ Max(s) \in s
         /\ \A x \in s : x <= Max(s)
<1> DEFINE bounds == {b \in Nat : \A x \in s : x <= b}
<1>1. PICK b \in bounds : \A c \in bounds : b <= c
  <2>1. n \in bounds
    OBVIOUS
  <2> QED
    BY <2>1, Least
<1>2. b \in s
  <2> SUFFICES ASSUME b \notin s PROVE FALSE
    OBVIOUS
  <2>2. b \in Nat /\ \A x \in s : x <= b
    BY <1>1
  <2>3. \A x \in s : x \in 1..n /\ x # b
    OBVIOUS
  <2>4. \A x \in s : x <= b - 1
    BY <2>2, <2>3
  <2>5. b - 1 \in Nat
    <3>1. PICK x \in s : TRUE
      OBVIOUS
    <3>2. x \in 1..n /\ x <= b
      BY <2>2, <2>3, <3>1
    <3> QED
      BY <2>2, <3>2
  <2>1. b - 1 \in bounds
    BY <2>4, <2>5
  <2> QED
    BY <1>1, <2>1
<1>3. \E x \in s : \A y \in s : x >= y
  BY <1>1, <1>2
<1> QED
  BY <1>3 DEF Max

-----------------------------------------------------------------------------
\* Recursion along a sequence, and folds

\* A recursive function over 0..n exists when its step is a function.
IsRecursion(g, n, base, step) ==
  g[0] = base /\ \A i \in 1..n : g[i] = step[<<i, g[i - 1]>>]

LEMMA RecursionExists ==
  ASSUME NEW A, NEW base \in A, NEW n \in Nat, NEW step \in [(1..n) \X A -> A]
  PROVE  \E g \in [0..n -> A] : IsRecursion(g, n, base, step)
<1> DEFINE upTo(g, k) == IsRecursion(g, k, base, step)
           S == {k \in Nat : k <= n => \E g \in [0..k -> A] : upTo(g, k)}
<1>1. 0 \in S
  <2>1. upTo([i \in 0..0 |-> base], 0) /\ [i \in 0..0 |-> base] \in [0..0 -> A]
    BY DEF IsRecursion
  <2> QED
    BY <2>1
<1>2. ASSUME NEW k \in Nat, k \in S
      PROVE  k + 1 \in S
  <2> SUFFICES ASSUME k + 1 <= n
               PROVE  \E g \in [0..(k + 1) -> A] : upTo(g, k + 1)
    OBVIOUS
  <2>1. PICK g \in [0..k -> A] : upTo(g, k)
    BY <1>2
  <2> DEFINE h == [i \in 0..(k + 1) |-> IF i <= k THEN g[i] ELSE step[<<k + 1, g[k]>>]]
  <2>2. h \in [0..(k + 1) -> A]
    OBVIOUS
  <2>3. upTo(h, k + 1)
    <3>1. h[0] = base
      BY <2>1 DEF IsRecursion
    <3>2. \A i \in 1..(k + 1) : h[i] = IF i <= k THEN g[i] ELSE step[<<k + 1, g[k]>>]
      OBVIOUS
    <3>3. \A i \in 1..(k + 1) : h[i - 1] = g[i - 1]
      OBVIOUS
    <3> HIDE DEF h
    <3>4. ASSUME NEW i \in 1..(k + 1) PROVE h[i] = step[<<i, h[i - 1]>>]
      <4>1. CASE i <= k
        BY <2>1, <3>2, <3>3, <4>1 DEF IsRecursion
      <4>2. CASE i = k + 1
        BY <3>2, <3>3, <4>2
      <4> QED BY <4>1, <4>2
    <3> QED
      BY <3>1, <3>4 DEF IsRecursion
  <2> QED
    BY <2>2, <2>3
<1> HIDE DEF S
<1>3. n \in S
  BY <1>1, <1>2, Induct
<1> QED
  BY <1>3 DEF S

\* g is what FoldLeft is defined by, for a sequence of k elements.
IsFold(g, k, base, step) ==
  \A s \in SUBSET (1..k) :
    g[s] = IF s = {} THEN base ELSE step[<<Max(s), g[s \ {Max(s)}]>>]

\* It exists when the step is a function.
LEMMA FoldExists ==
  ASSUME NEW A, NEW base \in A, NEW n \in Nat, NEW step \in [(1..n) \X A -> A]
  PROVE  \E g \in [SUBSET (1..n) -> A] :
           IsFold(g, n, base, step)
<1> DEFINE levels == {k \in Nat :
                \E g \in [SUBSET (1..k) -> A] : IsFold(g, k, base, step)}
           S == {k \in Nat : k <= n => k \in levels}
<1> HIDE DEF levels
<1>1. 0 \in levels
  <2> DEFINE g == [s \in SUBSET (1..0) |-> base]
  <2>1. g \in [SUBSET (1..0) -> A] /\ IsFold(g, 0, base, step)
    BY DEF IsFold
  <2> QED
    BY <2>1 DEF levels
<1>2. ASSUME NEW k \in Nat, k \in levels, k + 1 <= n
      PROVE  k + 1 \in levels
  <2>1. PICK g \in [SUBSET (1..k) -> A] : IsFold(g, k, base, step)
    BY <1>2 DEF levels
  <2> DEFINE h == [s \in SUBSET (1..(k + 1)) |->
                     IF k + 1 \in s THEN step[<<k + 1, g[s \ {k + 1}]>>] ELSE g[s]]
  <2>2. ASSUME NEW s \in SUBSET (1..(k + 1)), k + 1 \notin s
        PROVE  s \in SUBSET (1..k)
    BY <2>2
  <2>3. ASSUME NEW s \in SUBSET (1..(k + 1))
        PROVE  s \ {k + 1} \in SUBSET (1..k)
    OBVIOUS
  <2>4. h \in [SUBSET (1..(k + 1)) -> A]
    <3>1. ASSUME NEW s \in SUBSET (1..(k + 1))
          PROVE  (IF k + 1 \in s THEN step[<<k + 1, g[s \ {k + 1}]>>] ELSE g[s]) \in A
      <4>1. CASE k + 1 \in s
        <5>1. g[s \ {k + 1}] \in A /\ k + 1 \in 1..n
          BY <1>2, <2>3
        <5> QED
          BY <4>1, <5>1
      <4>2. CASE k + 1 \notin s
        BY <2>2, <4>2
      <4> QED
        BY <4>1, <4>2
    <3> QED
      BY <3>1
  <2>5. \A s \in SUBSET (1..(k + 1)) :
          h[s] = IF k + 1 \in s THEN step[<<k + 1, g[s \ {k + 1}]>>] ELSE g[s]
    OBVIOUS
  <2> HIDE DEF h
  <2>7. ASSUME NEW s \in SUBSET (1..(k + 1)), s # {}
        PROVE  Max(s) \in s /\ \A x \in s : x <= Max(s)
    <3>1. k + 1 \in Nat
      OBVIOUS
    <3> QED
      BY <2>7, <3>1, MaxIsLargest
  <2>6. ASSUME NEW s \in SUBSET (1..(k + 1))
        PROVE  h[s] = IF s = {} THEN base ELSE step[<<Max(s), h[s \ {Max(s)}]>>]
    <3>1. CASE s = {}
      <4>1. s \in SUBSET (1..k) /\ k + 1 \notin s
        BY <3>1
      <4>2. g[s] = base
        BY <2>1, <3>1, <4>1 DEF IsFold
      <4> QED
        BY <2>5, <3>1, <4>1, <4>2
    <3>2. CASE k + 1 \in s
      <4>1. Max(s) \in s /\ \A x \in s : x <= Max(s)
        BY <2>7, <3>2
      <4>2. Max(s) = k + 1
        <5>1. Max(s) \in 1..(k + 1)
          BY <4>1
        <5> QED
          BY <3>2, <4>1, <5>1
      <4>3. h[s \ {k + 1}] = g[s \ {k + 1}]
        BY <2>5
      <4> QED
        BY <2>5, <3>2, <4>2, <4>3
    <3>3. CASE k + 1 \notin s /\ s # {}
      <4>1. s \in SUBSET (1..k)
        BY <2>2, <3>3
      <4>2. Max(s) \in s /\ s \ {Max(s)} \in SUBSET (1..(k + 1))
        BY <2>7, <3>3
      <4>3. h[s \ {Max(s)}] = g[s \ {Max(s)}]
        BY <2>5, <3>3, <4>2
      <4>4. g[s] = step[<<Max(s), g[s \ {Max(s)}]>>]
        BY <2>1, <3>3, <4>1 DEF IsFold
      <4> QED
        BY <2>5, <3>3, <4>3, <4>4
    <3> QED
      BY <3>1, <3>2, <3>3
  <2> QED
    <3>1. IsFold(h, k + 1, base, step)
      BY <2>6 DEF IsFold
    <3> QED
      BY <2>4, <3>1 DEF levels
<1>3. Nat \subseteq S
  <2>1. 0 \in S
    BY <1>1
  <2>2. ASSUME NEW k \in Nat, k \in S PROVE k + 1 \in S
    <3>1. CASE k + 1 <= n
      <4>1. k \in levels
        BY <2>2, <3>1
      <4>2. k + 1 \in levels
        BY <1>2, <3>1, <4>1
      <4> QED
        BY <4>2
    <3>2. CASE ~(k + 1 <= n)
      BY <3>2
    <3> QED
      BY <3>1, <3>2
  <2> HIDE DEF S
  <2> QED
    BY <2>1, <2>2, Induct
<1>4. n \in levels
  BY <1>3
<1> QED
  BY <1>4 DEF levels

\* The numbers up to i, as the argument of that function.
LEMMA UpTo ==
  ASSUME NEW n \in Nat, NEW i \in 1..n
  PROVE  /\ 1..i \in SUBSET (1..n) /\ 1..i # {}
         /\ Max(1..i) = i /\ (1..i) \ {i} = 1..(i - 1)
<1>1. 1..i \in SUBSET (1..n) /\ 1..i # {} /\ i \in 1..i
  OBVIOUS
<1>2. Max(1..i) \in 1..i /\ i <= Max(1..i)
  BY <1>1, MaxIsLargest
<1>3. Max(1..i) = i
  BY <1>2
<1> QED
  BY <1>1, <1>3

-----------------------------------------------------------------------------
\* Sequences

\* A set with the empty sequence and every extension of its members has all.
LEMMA SeqInduct ==
  ASSUME NEW T, NEW P, <<>> \in P,
         \A s \in Seq(T) : s \in P => \A x \in T : Append(s, x) \in P
  PROVE  Seq(T) \subseteq P
<1> DEFINE S == {n \in Nat : \A s \in Seq(T) : Len(s) = n => s \in P}
<1>1. 0 \in S
  <2>1. \A s \in Seq(T) : Len(s) = 0 => s = <<>>
    OBVIOUS
  <2> QED
    BY <2>1
<1>2. ASSUME NEW n \in Nat, n \in S PROVE n + 1 \in S
  <2> SUFFICES ASSUME NEW s \in Seq(T), Len(s) = n + 1 PROVE s \in P
    OBVIOUS
  <2>1. PICK t \in Seq(T), x \in T : s = Append(t, x)
    <3>1. s # <<>>
      OBVIOUS
    <3> QED
      BY <3>1, SequenceEmptyOrAppend
  <2>2. Len(t) = n
    BY <2>1
  <2> QED
    BY <1>2, <2>1, <2>2
<1> HIDE DEF S
<1>3. Nat \subseteq S
  BY <1>1, <1>2, Induct
<1> QED
  BY <1>3 DEF S

\* The elements of a sequence.
LEMMA ToSetOfNone == ToSet(<<>>) = {}
  BY DEF ToSet

LEMMA ToSetOfNext ==
  ASSUME NEW T, NEW s \in Seq(T), NEW x
  PROVE  ToSet(Append(s, x)) = ToSet(s) \cup {x}
<1>1. /\ DOMAIN s = 1..Len(s) /\ Len(s) \in Nat
      /\ DOMAIN Append(s, x) = 1..(Len(s) + 1)
      /\ \A i \in 1..Len(s) : Append(s, x)[i] = s[i]
      /\ Append(s, x)[Len(s) + 1] = x
  OBVIOUS
<1>2. 1..(Len(s) + 1) = (1..Len(s)) \cup {Len(s) + 1}
  BY <1>1
<1> QED
  BY <1>1, <1>2 DEF ToSet

LEMMA ToSetOfOne ==
  ASSUME NEW x
  PROVE  <<x>> \in Seq({x}) /\ ToSet(<<x>>) = {x}
  BY DEF ToSet

LEMMA ToSetOfConcat ==
  ASSUME NEW T, NEW s \in Seq(T), NEW t \in Seq(T)
  PROVE  s \o t \in Seq(T) /\ ToSet(s \o t) = ToSet(s) \cup ToSet(t)
<1> DEFINE u == s \o t
<1>1. /\ u \in Seq(T) /\ DOMAIN u = 1..(Len(s) + Len(t))
      /\ DOMAIN s = 1..Len(s) /\ DOMAIN t = 1..Len(t)
      /\ Len(s) \in Nat /\ Len(t) \in Nat
      /\ \A i \in 1..(Len(s) + Len(t)) :
           u[i] = IF i <= Len(s) THEN s[i] ELSE t[i - Len(s)]
  BY ConcatProperties, LenProperties
<1> HIDE DEF u
<1>2. ToSet(u) \subseteq ToSet(s) \cup ToSet(t)
  <2> SUFFICES ASSUME NEW i \in DOMAIN u PROVE u[i] \in ToSet(s) \cup ToSet(t)
    BY DEF ToSet
  <2>1. CASE i <= Len(s)
    <3>1. i \in DOMAIN s /\ u[i] = s[i]
      BY <1>1, <2>1
    <3> QED
      BY <3>1 DEF ToSet
  <2>2. CASE i > Len(s)
    <3>1. i - Len(s) \in DOMAIN t /\ u[i] = t[i - Len(s)]
      BY <1>1, <2>2
    <3> QED
      BY <3>1 DEF ToSet
  <2> QED
    BY <1>1, <2>1, <2>2
<1>3. ToSet(s) \subseteq ToSet(u)
  <2> SUFFICES ASSUME NEW i \in DOMAIN s PROVE s[i] \in ToSet(u)
    BY DEF ToSet
  <2>1. i \in DOMAIN u /\ u[i] = s[i]
    BY <1>1
  <2> QED
    BY <2>1 DEF ToSet
<1>4. ToSet(t) \subseteq ToSet(u)
  <2> SUFFICES ASSUME NEW i \in DOMAIN t PROVE t[i] \in ToSet(u)
    BY DEF ToSet
  <2>1. /\ i + Len(s) \in DOMAIN u /\ ~(i + Len(s) <= Len(s))
        /\ (i + Len(s)) - Len(s) = i
    BY <1>1
  <2>2. u[i + Len(s)] = t[i]
    BY <1>1, <2>1
  <2> QED
    BY <2>1, <2>2 DEF ToSet
<1> QED
  BY <1>1, <1>2, <1>3, <1>4 DEF u

LEMMA ConcatNext ==
  ASSUME NEW T, NEW s \in Seq(T), NEW t \in Seq(T), NEW x \in T
  PROVE  s \o Append(t, x) = Append(s \o t, x) /\ s \o t \in Seq(T)
  OBVIOUS

LEMMA SeqOfElements ==
  ASSUME NEW T, NEW s \in Seq(T)
  PROVE  /\ s \in Seq(ToSet(s)) /\ ToSet(s) \subseteq T
         /\ \A i \in DOMAIN s : s[i] \in ToSet(s)
<1>1. DOMAIN s = 1..Len(s) /\ Len(s) \in Nat /\ \A i \in 1..Len(s) : s[i] \in T
  BY LenProperties, ElementOfSeq
<1>2. /\ ToSet(s) \subseteq T
      /\ \A i \in DOMAIN s : s[i] \in ToSet(s)
  BY <1>1 DEF ToSet
<1>3. s = [i \in 1..Len(s) |-> s[i]]
  BY LenProperties
<1>4. s \in [1..Len(s) -> ToSet(s)]
  BY <1>1, <1>2, <1>3
<1>5. s \in Seq(ToSet(s))
  BY <1>1, <1>4
<1> QED
  BY <1>2, <1>5

LEMMA ToSetIsFinite ==
  ASSUME NEW T, NEW s \in Seq(T)
  PROVE  /\ IsFiniteSet(ToSet(s))
         /\ Cardinality(ToSet(s)) \in Nat /\ Cardinality(ToSet(s)) <= Len(s)
<1> DEFINE P == {u \in Seq(T) : /\ IsFiniteSet(ToSet(u))
                                /\ Cardinality(ToSet(u)) <= Len(u)}
<1>1. <<>> \in P
  <2>1. <<>> \in Seq(T) /\ Len(<<>>) = 0
    OBVIOUS
  <2>2. IsFiniteSet(ToSet(<<>>)) /\ Cardinality(ToSet(<<>>)) = 0
    BY ToSetOfNone, FS_EmptySet
  <2> QED
    BY <2>1, <2>2
<1>2. ASSUME NEW u \in Seq(T), u \in P, NEW x \in T PROVE Append(u, x) \in P
  <2>1. ToSet(Append(u, x)) = ToSet(u) \cup {x}
    BY ToSetOfNext
  <2>2. /\ IsFiniteSet(ToSet(u)) /\ Cardinality(ToSet(u)) \in Nat
        /\ Cardinality(ToSet(u)) <= Len(u)
    BY <1>2, FS_CardinalityType
  <2>3. /\ IsFiniteSet(ToSet(u) \cup {x})
        /\ Cardinality(ToSet(u) \cup {x}) <= Cardinality(ToSet(u)) + 1
    <3>1. /\ IsFiniteSet(ToSet(u) \cup {x})
          /\ Cardinality(ToSet(u) \cup {x}) =
               IF x \in ToSet(u) THEN Cardinality(ToSet(u)) ELSE Cardinality(ToSet(u)) + 1
      BY <2>2, FS_AddElement, Zenon
    <3> DEFINE c == Cardinality(ToSet(u))
    <3>2. c \in Nat
      BY <2>2
    <3> HIDE DEF c
    <3> QED
      BY <3>1, <3>2 DEF c
  <2>4. Append(u, x) \in Seq(T) /\ Len(Append(u, x)) = Len(u) + 1 /\ Len(u) \in Nat
    OBVIOUS
  <2>5. Cardinality(ToSet(u) \cup {x}) \in Nat
    BY <2>3, FS_CardinalityType
  <2>6. Cardinality(ToSet(u) \cup {x}) <= Len(u) + 1
    BY <2>2, <2>3, <2>4, <2>5
  <2> QED
    BY <2>1, <2>3, <2>4, <2>6
<1> HIDE DEF P
<1>3. Seq(T) \subseteq P
  BY <1>1, <1>2, SeqInduct
<1> QED
  BY <1>3, FS_CardinalityType DEF P

\* What Retain is after each of the first n elements.
RunsAlong(g, s, n, keep) ==
  /\ g[0] = <<>>
  /\ \A i \in 1..n :
       g[i] = IF s[i] \in keep THEN Append(g[i - 1], s[i]) ELSE g[i - 1]

LEMMA RetainRuns ==
  ASSUME NEW T, NEW s \in Seq(T), NEW keep
  PROVE  \E g : RunsAlong(g, s, Len(s), keep) /\ Retain(s, keep) = g[Len(s)]
<1> DEFINE n == Len(s)
           next(kept, x) == IF x \in keep THEN Append(kept, x) ELSE kept
           step == [p \in (1..n) \X Seq(T) |-> next(p[2], s[p[1]])]
           body(f) == [u \in SUBSET DOMAIN s |->
                         IF u = {} THEN <<>>
                         ELSE LET x == Max(u) IN next(f[u \ {x}], s[x])]
           fold == CHOOSE f : f = body(f)
<1>1. n \in Nat /\ DOMAIN s = 1..n /\ <<>> \in Seq(T)
  OBVIOUS
<1>2. step \in [(1..n) \X Seq(T) -> Seq(T)]
  OBVIOUS
<1>3. \A i \in 1..n, kept \in Seq(T) : step[<<i, kept>>] = next(kept, s[i])
  OBVIOUS
<1>4. Retain(s, keep) = fold[DOMAIN s]
  BY DEF Retain, FoldLeft, MapThenFoldSet
<1> HIDE DEF step
<1>5. PICK g \in [SUBSET (1..n) -> Seq(T)] : IsFold(g, n, <<>>, step)
  BY <1>1, <1>2, FoldExists
<1>6. g = body(g)
  <2>1. ASSUME NEW u \in SUBSET (1..n)
        PROVE  g[u] = IF u = {} THEN <<>> ELSE next(g[u \ {Max(u)}], s[Max(u)])
    <3>1. CASE u = {}
      BY <1>5, <3>1 DEF IsFold
    <3>2. CASE u # {}
      <4>1. Max(u) \in 1..n /\ u \ {Max(u)} \in SUBSET (1..n)
        BY <1>1, <3>2, MaxIsLargest
      <4>2. g[u] = step[<<Max(u), g[u \ {Max(u)}]>>]
        BY <1>5, <3>2 DEF IsFold
      <4>3. g[u \ {Max(u)}] \in Seq(T)
        BY <4>1
      <4> QED
        BY <1>3, <3>2, <4>1, <4>2, <4>3
    <3> QED
      BY <3>1, <3>2
  <2> HIDE DEF next
  <2> QED
    BY <1>1, <2>1
<1>7. fold = body(fold)
  <2> HIDE DEF body
  <2> QED
    BY <1>6, Zenon
<1> HIDE DEF fold
<1>8. \A u \in SUBSET (1..n) :
        fold[u] = IF u = {} THEN <<>> ELSE next(fold[u \ {Max(u)}], s[Max(u)])
  <2> HIDE DEF next
  <2>1. \A u \in SUBSET DOMAIN s :
          body(fold)[u] = IF u = {} THEN <<>>
                          ELSE next(fold[u \ {Max(u)}], s[Max(u)])
    OBVIOUS
  <2> QED
    BY <1>1, <1>7, <2>1
<1> HIDE DEF next
<1> DEFINE at == [i \in 0..n |-> fold[1..i]]
<1>9. fold[1..0] = <<>>
  <2>1. 1..0 = {} /\ 1..0 \in SUBSET (1..n)
    OBVIOUS
  <2> QED
    BY <1>8, <2>1
<1>10. ASSUME NEW i \in 1..n
       PROVE  fold[1..i] = next(fold[1..(i - 1)], s[i])
  BY <1>1, <1>8, UpTo
<1>11. /\ at[0] = <<>> /\ at[Len(s)] = Retain(s, keep)
       /\ \A i \in 1..Len(s) : at[i] = next(at[i - 1], s[i])
  BY <1>1, <1>4, <1>9, <1>10
<1> HIDE DEF at
<1>12. RunsAlong(at, s, Len(s), keep)
  BY <1>11 DEF next, RunsAlong
<1> QED
  BY <1>11, <1>12

\* Two runs over sequences with a common prefix agree on it.
LEMMA RunsAgree ==
  ASSUME NEW n \in Nat, NEW s, NEW t, NEW g, NEW h, NEW keep,
         \A i \in 1..n : s[i] = t[i],
         RunsAlong(g, s, n, keep), RunsAlong(h, t, n, keep)
  PROVE  g[n] = h[n]
<1> DEFINE S == {i \in Nat : i <= n => g[i] = h[i]}
<1>1. 0 \in S
  BY DEF RunsAlong
<1>2. ASSUME NEW i \in Nat, i \in S PROVE i + 1 \in S
  <2> SUFFICES ASSUME i + 1 <= n PROVE g[i + 1] = h[i + 1]
    OBVIOUS
  <2>1. i + 1 \in 1..n /\ (i + 1) - 1 = i /\ g[i] = h[i]
    BY <1>2
  <2> QED
    BY <2>1 DEF RunsAlong
<1> HIDE DEF S
<1>3. n \in S
  BY <1>1, <1>2, Induct
<1> QED
  BY <1>3 DEF S

\* Retain looks at the elements one by one.
LEMMA RetainNone ==
  ASSUME NEW keep
  PROVE  Retain(<<>>, keep) = <<>>
<1>1. <<>> \in Seq({}) /\ Len(<<>>) = 0
  OBVIOUS
<1>2. PICK g : RunsAlong(g, <<>>, Len(<<>>), keep) /\ Retain(<<>>, keep) = g[Len(<<>>)]
  BY <1>1, RetainRuns
<1> QED
  BY <1>1, <1>2 DEF RunsAlong

LEMMA RetainNext ==
  ASSUME NEW T, NEW s \in Seq(T), NEW x \in T, NEW keep
  PROVE  Retain(Append(s, x), keep) =
           IF x \in keep THEN Append(Retain(s, keep), x) ELSE Retain(s, keep)
<1> DEFINE t == Append(s, x)
           n == Len(s)
<1>1. /\ t \in Seq(T) /\ n \in Nat /\ Len(t) = n + 1 /\ t[n + 1] = x
      /\ \A i \in 1..n : t[i] = s[i]
  OBVIOUS
<1>2. PICK g : RunsAlong(g, s, n, keep) /\ Retain(s, keep) = g[n]
  BY RetainRuns
<1> HIDE DEF t
<1>3. PICK h : RunsAlong(h, t, n + 1, keep) /\ Retain(t, keep) = h[n + 1]
  BY <1>1, RetainRuns
<1>4. h[n] = g[n]
  <2>1. RunsAlong(h, t, n, keep)
    BY <1>1, <1>3 DEF RunsAlong
  <2> HIDE DEF n
  <2>2. \A i \in 1..n : s[i] = t[i]
    BY <1>1
  <2> QED
    BY <1>1, <1>2, <2>1, <2>2, RunsAgree
<1>5. h[n + 1] = IF x \in keep THEN Append(h[n], x) ELSE h[n]
  BY <1>1, <1>3 DEF RunsAlong
<1>6. Retain(t, keep) = IF x \in keep THEN Append(Retain(s, keep), x)
                        ELSE Retain(s, keep)
  BY <1>1, <1>2, <1>3, <1>4, <1>5
<1> QED
  BY <1>6 DEF t

\* What is retained is of s and in keep, and nothing else is lost.
LEMMA RetainKeeps ==
  ASSUME NEW T, NEW s \in Seq(T), NEW keep
  PROVE  /\ Retain(s, keep) \in Seq(T \cap keep)
         /\ Len(Retain(s, keep)) <= Len(s)
         /\ ToSet(Retain(s, keep)) = ToSet(s) \cap keep
<1> DEFINE P == {u \in Seq(T) : /\ Retain(u, keep) \in Seq(T \cap keep)
                                /\ Len(Retain(u, keep)) <= Len(u)
                                /\ ToSet(Retain(u, keep)) = ToSet(u) \cap keep}
<1>1. <<>> \in P
  <2>1. <<>> \in Seq(T) /\ <<>> \in Seq(T \cap keep)
    OBVIOUS
  <2>2. Retain(<<>>, keep) = <<>> /\ ToSet(<<>>) = ToSet(<<>>) \cap keep
    BY RetainNone, ToSetOfNone
  <2>3. Len(<<>>) <= Len(<<>>)
    OBVIOUS
  <2> QED
    BY <2>1, <2>2, <2>3, Zenon
<1>2. ASSUME NEW u \in Seq(T), u \in P, NEW x \in T PROVE Append(u, x) \in P
  <2> DEFINE r == Retain(u, keep)
  <2>1. /\ r \in Seq(T \cap keep) /\ Len(r) <= Len(u)
        /\ ToSet(r) = ToSet(u) \cap keep
    BY <1>2
  <2>2. Retain(Append(u, x), keep) = IF x \in keep THEN Append(r, x) ELSE r
    BY RetainNext
  <2> HIDE DEF r
  <2>3. ToSet(Append(u, x)) = ToSet(u) \cup {x}
    BY ToSetOfNext
  <2>4. CASE x \in keep
    <3>1. Append(r, x) \in Seq(T \cap keep) /\ Len(Append(r, x)) = Len(r) + 1
      BY <2>1, <2>4
    <3>2. ToSet(Append(r, x)) = ToSet(r) \cup {x}
      BY <2>1, ToSetOfNext
    <3>3. ToSet(Append(r, x)) = ToSet(Append(u, x)) \cap keep
      BY <2>1, <2>3, <2>4, <3>2
    <3>4. Append(u, x) \in Seq(T) /\ Len(Append(u, x)) = Len(u) + 1
      OBVIOUS
    <3>5. Len(r) \in Nat /\ Len(u) \in Nat
      BY <2>1
    <3> DEFINE v == Append(u, x)
               w == Append(r, x)
    <3>6. /\ v \in Seq(T) /\ w \in Seq(T \cap keep) /\ Len(w) <= Len(v)
          /\ ToSet(w) = ToSet(v) \cap keep /\ Retain(v, keep) = w
      BY <2>1, <2>2, <2>4, <3>1, <3>3, <3>4, <3>5
    <3> HIDE DEF v, w
    <3>7. v \in P
      BY <3>6
    <3> QED
      BY <3>7 DEF v
  <2>5. CASE x \notin keep
    BY <2>1, <2>2, <2>3, <2>5
  <2> QED
    BY <2>4, <2>5
<1> HIDE DEF P
<1>3. Seq(T) \subseteq P
  BY <1>1, <1>2, SeqInduct
<1> QED
  BY <1>3 DEF P

\* Whatever is in keep only by what s cannot have does not matter.
LEMMA RetainSame ==
  ASSUME NEW T, NEW s \in Seq(T), NEW keep, NEW other,
         T \cap keep = T \cap other
  PROVE  Retain(s, keep) = Retain(s, other)
<1> DEFINE P == {u \in Seq(T) : Retain(u, keep) = Retain(u, other)}
<1>1. <<>> \in P
  <2>1. <<>> \in Seq(T)
    OBVIOUS
  <2> QED
    BY <2>1, RetainNone
<1>2. ASSUME NEW u \in Seq(T), u \in P, NEW x \in T PROVE Append(u, x) \in P
  <2>1. /\ Retain(Append(u, x), keep) =
              IF x \in keep THEN Append(Retain(u, keep), x) ELSE Retain(u, keep)
        /\ Retain(Append(u, x), other) =
              IF x \in other THEN Append(Retain(u, other), x) ELSE Retain(u, other)
    BY RetainNext
  <2>2. x \in keep <=> x \in other
    OBVIOUS
  <2> QED
    BY <1>2, <2>1, <2>2
<1> HIDE DEF P
<1>3. Seq(T) \subseteq P
  BY <1>1, <1>2, SeqInduct
<1> QED
  BY <1>3 DEF P

LEMMA RetainAll ==
  ASSUME NEW T, NEW s \in Seq(T), NEW keep, T \subseteq keep
  PROVE  Retain(s, keep) = s
<1> DEFINE P == {u \in Seq(T) : Retain(u, keep) = u}
<1>1. <<>> \in P
  <2>1. <<>> \in Seq(T)
    OBVIOUS
  <2> QED
    BY <2>1, RetainNone
<1>2. ASSUME NEW u \in Seq(T), u \in P, NEW x \in T PROVE Append(u, x) \in P
  <2>1. Retain(Append(u, x), keep) =
          IF x \in keep THEN Append(Retain(u, keep), x) ELSE Retain(u, keep)
    BY RetainNext
  <2> QED
    BY <1>2, <2>1
<1> HIDE DEF P
<1>3. Seq(T) \subseteq P
  BY <1>1, <1>2, SeqInduct
<1> QED
  BY <1>3 DEF P

LEMMA RetainNothing ==
  ASSUME NEW T, NEW s \in Seq(T), NEW keep, T \cap keep = {}
  PROVE  Retain(s, keep) = <<>>
<1>1. Retain(s, keep) \in Seq({})
  BY RetainKeeps
<1>2. \A u \in Seq({}) : u = <<>>
  <2> SUFFICES ASSUME NEW u \in Seq({}) PROVE u = <<>>
    OBVIOUS
  <2>1. Len(u) = 0
    <3> SUFFICES ASSUME Len(u) # 0 PROVE FALSE
      OBVIOUS
    <3>1. u[1] \in {}
      BY ElementOfSeq
    <3> QED
      BY <3>1
  <2> QED
    BY <2>1, EmptySeq
<1> QED
  BY <1>1, <1>2

LEMMA RetainTwice ==
  ASSUME NEW T, NEW s \in Seq(T), NEW keep, NEW other
  PROVE  Retain(Retain(s, keep), other) = Retain(s, keep \cap other)
<1> DEFINE P == {u \in Seq(T) :
                   Retain(Retain(u, keep), other) = Retain(u, keep \cap other)}
<1>1. <<>> \in P
  <2>1. <<>> \in Seq(T)
    OBVIOUS
  <2> QED
    BY <2>1, RetainNone
<1>2. ASSUME NEW u \in Seq(T), u \in P, NEW x \in T PROVE Append(u, x) \in P
  <2> DEFINE r == Retain(u, keep)
  <2>1. r \in Seq(T)
    <3>1. r \in Seq(T \cap keep)
      BY RetainKeeps
    <3> QED
      BY <3>1
  <2>2. Retain(Append(u, x), keep) = IF x \in keep THEN Append(r, x) ELSE r
    BY RetainNext
  <2>3. Retain(Append(u, x), keep \cap other) =
          IF x \in keep \cap other THEN Append(Retain(u, keep \cap other), x)
          ELSE Retain(u, keep \cap other)
    BY RetainNext
  <2> HIDE DEF r
  <2>4. Retain(Append(r, x), other) =
          IF x \in other THEN Append(Retain(r, other), x) ELSE Retain(r, other)
    BY <2>1, RetainNext
  <2>5. Retain(r, other) = Retain(u, keep \cap other)
    BY <1>2 DEF r
  <2> DEFINE v == Append(u, x)
  <2>6. v \in Seq(T)
    OBVIOUS
  <2>7. CASE x \in keep
    <3>1. Retain(Retain(v, keep), other) = Retain(Append(r, x), other)
      BY <2>2, <2>7
    <3>2. Retain(v, keep \cap other) = Retain(Append(r, x), other)
      BY <2>3, <2>4, <2>5, <2>7
    <3> HIDE DEF v
    <3>3. v \in P
      BY <2>6, <3>1, <3>2
    <3> QED
      BY <3>3 DEF v
  <2>8. CASE x \notin keep
    <3>1. Retain(v, keep) = r /\ Retain(v, keep \cap other) = Retain(r, other)
      BY <2>2, <2>3, <2>5, <2>8
    <3> HIDE DEF v
    <3>2. v \in P
      BY <2>6, <3>1
    <3> QED
      BY <3>2 DEF v
  <2> QED
    BY <2>7, <2>8
<1> HIDE DEF P
<1>3. Seq(T) \subseteq P
  BY <1>1, <1>2, SeqInduct
<1> QED
  BY <1>3 DEF P

LEMMA RetainConcat ==
  ASSUME NEW T, NEW s \in Seq(T), NEW t \in Seq(T), NEW keep
  PROVE  Retain(s \o t, keep) = Retain(s, keep) \o Retain(t, keep)
<1> DEFINE R == Retain(s, keep)
           P == {u \in Seq(T) : Retain(s \o u, keep) = R \o Retain(u, keep)}
<1>0. R \in Seq(T \cap keep)
  BY RetainKeeps
<1>1. <<>> \in P
  <2>1. <<>> \in Seq(T) /\ s \o <<>> = s
    BY ConcatEmptySeq
  <2>2. R \o <<>> = R
    BY <1>0, ConcatEmptySeq
  <2> QED
    BY <2>1, <2>2, RetainNone
<1>2. ASSUME NEW u \in Seq(T), u \in P, NEW x \in T PROVE Append(u, x) \in P
  <2> DEFINE r == Retain(u, keep)
  <2>1. r \in Seq(T \cap keep)
    BY RetainKeeps
  <2>2. Retain(Append(u, x), keep) = IF x \in keep THEN Append(r, x) ELSE r
    BY RetainNext
  <2>3. s \o Append(u, x) = Append(s \o u, x) /\ s \o u \in Seq(T)
    OBVIOUS
  <2>4. Retain(Append(s \o u, x), keep) =
          IF x \in keep THEN Append(Retain(s \o u, keep), x)
          ELSE Retain(s \o u, keep)
    BY <2>3, RetainNext
  <2>5. Retain(s \o u, keep) = R \o r
    BY <1>2
  <2> HIDE DEF r, R
  <2> DEFINE v == Append(u, x)
  <2>6. v \in Seq(T)
    OBVIOUS
  <2>7. CASE x \in keep
    <3>1. Append(R \o r, x) = R \o Append(r, x)
      <4>1. R \in Seq(T) /\ r \in Seq(T)
        BY <1>0, <2>1
      <4>2. \A a, b \in Seq(T) : a \o Append(b, x) = Append(a \o b, x)
        OBVIOUS
      <4> QED
        BY <4>1, <4>2, Zenon
    <3>2. Retain(v, keep) = Append(r, x)
      BY <2>2, <2>7
    <3>3. Retain(s \o v, keep) = Append(R \o r, x)
      BY <2>3, <2>4, <2>5, <2>7
    <3> HIDE DEF v
    <3>4. v \in P
      BY <2>6, <3>1, <3>2, <3>3
    <3> QED
      BY <3>4 DEF v
  <2>8. CASE x \notin keep
    <3>1. Retain(v, keep) = r /\ Retain(s \o v, keep) = R \o r
      BY <2>2, <2>3, <2>4, <2>5, <2>8
    <3> HIDE DEF v
    <3>2. v \in P
      BY <2>6, <3>1
    <3> QED
      BY <3>2 DEF v
  <2> QED
    BY <2>7, <2>8
<1> HIDE DEF P
<1>3. Seq(T) \subseteq P
  BY <1>1, <1>2, SeqInduct
<1> QED
  BY <1>3 DEF P

-----------------------------------------------------------------------------
\* FlattenSeq puts the sequences one behind the other

FlattensAlong(g, s, n) ==
  /\ g[0] = <<>>
  /\ \A i \in 1..n : g[i] = g[i - 1] \o s[i]

LEMMA FlattenRuns ==
  ASSUME NEW T, NEW s \in Seq(Seq(T))
  PROVE  \E g : /\ FlattensAlong(g, s, Len(s)) /\ FlattenSeq(s) = g[Len(s)]
                /\ \A i \in 0..Len(s) : g[i] \in Seq(T)
<1> DEFINE n == Len(s)
           step == [p \in (1..n) \X Seq(T) |-> p[2] \o s[p[1]]]
           body(f) == [i \in 1..Len(s) |-> IF i = 1 THEN s[i] ELSE f[i - 1] \o s[i]]
           flatten == CHOOSE f : f = body(f)
<1>1. /\ n \in Nat /\ DOMAIN s = 1..n /\ <<>> \in Seq(T)
      /\ \A i \in 1..n : s[i] \in Seq(T)
  BY LenProperties, ElementOfSeq
<1>2. step \in [(1..n) \X Seq(T) -> Seq(T)]
  BY <1>1, ConcatProperties
<1>3. \A i \in 1..n, u \in Seq(T) : step[<<i, u>>] = u \o s[i]
  OBVIOUS
<1> HIDE DEF step
<1>4. PICK g \in [0..n -> Seq(T)] :
        g[0] = <<>> /\ \A i \in 1..n : g[i] = step[<<i, g[i - 1]>>]
  <2> HIDE DEF n
  <2> DEFINE A == Seq(T)
             base == <<>>
  <2>1. base \in A /\ n \in Nat /\ step \in [(1..n) \X A -> A]
    BY <1>1, <1>2
  <2> HIDE DEF A, base
  <2>2. \E g \in [0..n -> A] : IsRecursion(g, n, base, step)
    BY <2>1, RecursionExists
  <2> QED
    BY <2>2 DEF A, base, IsRecursion
<1>5. /\ g[0] = <<>>
      /\ \A i \in 1..n : g[i] \in Seq(T) /\ g[i - 1] \in Seq(T)
                         /\ g[i] = g[i - 1] \o s[i]
  <2>1. ASSUME NEW i \in 1..n
        PROVE  g[i] \in Seq(T) /\ g[i - 1] \in Seq(T) /\ g[i] = g[i - 1] \o s[i]
    <3>1. i \in 0..n /\ i - 1 \in 0..n
      BY <1>1
    <3>2. g[i] \in Seq(T) /\ g[i - 1] \in Seq(T)
      BY <1>4, <3>1
    <3> QED
      BY <1>3, <1>4, <3>2
  <2> QED
    BY <1>4, <2>1
<1> DEFINE h == [i \in 1..n |-> g[i]]
<1>6. h = body(h)
  <2>1. ASSUME NEW i \in 1..n
        PROVE  g[i] = IF i = 1 THEN s[i] ELSE h[i - 1] \o s[i]
    <3>1. CASE i = 1
      <4>1. i - 1 = 0
        BY <3>1
      <4>2. g[i] = <<>> \o s[i]
        BY <1>5, <4>1
      <4> QED
        BY <1>1, <3>1, <4>2, ConcatEmptySeq
    <3>2. CASE i # 1
      <4>1. i - 1 \in 1..n
        BY <1>1, <3>2
      <4> QED
        BY <1>5, <3>2, <4>1
    <3> QED
      BY <3>1, <3>2
  <2> QED
    BY <2>1
<1>7. flatten = body(flatten)
  <2> HIDE DEF body, h
  <2> QED
    BY <1>6, Zenon
<1> HIDE DEF flatten, h
<1>8. \A i \in 1..n : flatten[i] = IF i = 1 THEN s[i] ELSE flatten[i - 1] \o s[i]
  <2>1. \A i \in 1..n :
          body(flatten)[i] = IF i = 1 THEN s[i] ELSE flatten[i - 1] \o s[i]
    OBVIOUS
  <2> HIDE DEF body
  <2> QED
    BY <1>7, <2>1
<1> DEFINE at == [i \in 0..n |-> IF i = 0 THEN <<>> ELSE flatten[i]]
<1>9. /\ at[0] = <<>>
      /\ \A i \in 1..n : at[i] = flatten[i]
      /\ \A i \in 1..n : at[i - 1] = IF i = 1 THEN <<>> ELSE flatten[i - 1]
  BY <1>1
<1> HIDE DEF at
<1>10. ASSUME NEW i \in 1..n PROVE at[i] = at[i - 1] \o s[i]
  <2>1. CASE i = 1
    <3>1. at[i] = s[i] /\ at[i - 1] = <<>> /\ s[i] \in Seq(T)
      BY <1>1, <1>8, <1>9, <2>1
    <3> QED
      BY <3>1, ConcatEmptySeq
  <2>2. CASE i # 1
    BY <1>8, <1>9, <2>2
  <2> QED
    BY <2>1, <2>2
<1>11. FlattensAlong(at, s, n)
  BY <1>9, <1>10 DEF FlattensAlong
<1>12. FlattenSeq(s) = at[n]
  <2>1. CASE n = 0
    BY <1>1, <1>9, <2>1, EmptySeq DEF FlattenSeq
  <2>2. CASE n # 0
    <3>1. FlattenSeq(s) = flatten[n]
      BY <2>2, Zenon DEF FlattenSeq, flatten
    <3> QED
      BY <1>1, <1>9, <2>2, <3>1
  <2> QED
    BY <2>1, <2>2
<1>13. \A i \in 0..n : at[i] \in Seq(T)
  <2> DEFINE S == {i \in Nat : i <= n => at[i] \in Seq(T)}
  <2>1. 0 \in S
    BY <1>1, <1>9
  <2>2. ASSUME NEW i \in Nat, i \in S PROVE i + 1 \in S
    <3> SUFFICES ASSUME i + 1 <= n PROVE at[i + 1] \in Seq(T)
      OBVIOUS
    <3>1. i + 1 \in 1..n /\ (i + 1) - 1 = i /\ at[i] \in Seq(T)
      BY <1>1, <2>2
    <3>2. at[i + 1] = at[i] \o s[i + 1]
      BY <1>10, <3>1
    <3> QED
      BY <1>1, <3>1, <3>2, ConcatProperties
  <2> HIDE DEF S
  <2>3. Nat \subseteq S
    BY <2>1, <2>2, Induct
  <2> QED
    BY <1>1, <2>3 DEF S
<1> HIDE DEF n
<1>14. /\ FlattensAlong(at, s, Len(s)) /\ FlattenSeq(s) = at[Len(s)]
       /\ \A i \in 0..Len(s) : at[i] \in Seq(T)
  BY <1>11, <1>12, <1>13 DEF n
<1> QED
  BY <1>14

LEMMA FlattenNone == FlattenSeq(<<>>) = <<>>
<1>1. Len(<<>>) = 0
  OBVIOUS
<1> QED
  BY <1>1 DEF FlattenSeq

LEMMA FlattenTyped ==
  ASSUME NEW T, NEW s \in Seq(Seq(T))
  PROVE  FlattenSeq(s) \in Seq(T)
<1>1. PICK g : /\ FlattenSeq(s) = g[Len(s)]
               /\ \A i \in 0..Len(s) : g[i] \in Seq(T)
  BY FlattenRuns
<1> QED
  BY <1>1

LEMMA FlattenNext ==
  ASSUME NEW T, NEW s \in Seq(Seq(T)), NEW x \in Seq(T)
  PROVE  FlattenSeq(Append(s, x)) = FlattenSeq(s) \o x
<1> DEFINE t == Append(s, x)
           n == Len(s)
<1>1. /\ t \in Seq(Seq(T)) /\ n \in Nat /\ Len(t) = n + 1 /\ t[n + 1] = x
      /\ \A i \in 1..n : t[i] = s[i]
  OBVIOUS
<1>2. PICK g : FlattensAlong(g, s, n) /\ FlattenSeq(s) = g[n]
  BY FlattenRuns
<1> HIDE DEF t
<1>3. PICK h : FlattensAlong(h, t, n + 1) /\ FlattenSeq(t) = h[n + 1]
  BY <1>1, FlattenRuns
<1> HIDE DEF n
<1> DEFINE S == {i \in Nat : i <= n => h[i] = g[i]}
<1>4. 0 \in S
  BY <1>2, <1>3 DEF FlattensAlong
<1>5. ASSUME NEW i \in Nat, i \in S PROVE i + 1 \in S
  <2> SUFFICES ASSUME i + 1 <= n PROVE h[i + 1] = g[i + 1]
    OBVIOUS
  <2>1. /\ i + 1 \in 1..n /\ i + 1 \in 1..(n + 1)
        /\ (i + 1) - 1 = i /\ g[i] = h[i]
    BY <1>1, <1>5
  <2>2. h[i + 1] = h[i] \o t[i + 1] /\ g[i + 1] = g[i] \o s[i + 1]
    BY <1>2, <1>3, <2>1 DEF FlattensAlong
  <2> QED
    BY <1>1, <2>1, <2>2
<1> HIDE DEF S
<1>6. n \in S
  BY <1>1, <1>4, <1>5, Induct
<1>7. h[n] = g[n]
  BY <1>1, <1>6 DEF S
<1>8. h[n + 1] = h[n] \o t[n + 1]
  <2>1. n + 1 \in 1..(n + 1) /\ (n + 1) - 1 = n
    BY <1>1
  <2> QED
    BY <1>3, <2>1 DEF FlattensAlong
<1> QED
  BY <1>1, <1>2, <1>3, <1>7, <1>8 DEF t

============================================================================
