--------------------------- MODULE DictIndexProofs ---------------------------
(***************************************************************************)
(* Proofs about DictIndex and the modules it is built from, for any phrases, *)
(* any sizes of nodes, chains and chunks, and any number of headwords: the   *)
(* storage gives every block back from its address, the tree has every key   *)
(* once and a search in it ends where the order of the keys says, and so     *)
(* headwords lead to their articles, searches are exact and complete, and    *)
(* the lists of headwords have every key.                                    *)
(***************************************************************************)
EXTENDS DictIndex, FunctionTheorems, FiniteSetTheorems, SequenceTheorems,
        WellFoundedInduction, TLAPS

-----------------------------------------------------------------------------
(* Recursion, and the order of the keys. *)

\* A set of natural numbers has a smallest one.
LEMMA SmallestNumber ==
  ASSUME NEW T, T \subseteq Nat, T # {}
  PROVE  \E x \in T : \A y \in T : x <= y
<1> DEFINE Below == {1 .. x : x \in T}
           R == StrictSubsetOrdering(Nat)
<1>1. Below \subseteq FiniteSubsetsOf(Nat) /\ Below # {}
  <2>1. ASSUME NEW x \in T
        PROVE  1 .. x \subseteq Nat /\ IsFiniteSet(1 .. x)
    BY FS_Interval
  <2> QED
    BY <2>1 DEF FiniteSubsetsOf
<1>2. PICK B \in Below : \A C \in Below : ~(<<C, B>> \in R)
  <2> HIDE DEF Below
  <2> QED
    BY <1>1, WFMin, FS_StrictSubsetOrderingWellFounded, Zenon
<1>3. PICK x \in T : B = 1 .. x
  OBVIOUS
<1>4. ASSUME NEW y \in T, y < x
      PROVE  FALSE
  <2>1. 1 .. y \subseteq 1 .. x /\ x \in 1 .. x /\ x \notin 1 .. y
    BY <1>4
  <2>2. <<1 .. y, B>> \in R
    BY <2>1, <1>3 DEF StrictSubsetOrdering
  <2> QED
    BY <2>2, <1>2
<1> QED
  BY <1>4

\* The functions that solve a recursive equation as far as a measure goes.
SolvedUpTo(S, V, mu, G, n) ==
  {f \in [S -> V] : \A x \in S : mu[x] < n => f[x] = G[x][f]}

\* G looks only at what is smaller by the measure.
Contracts(S, V, mu, G) ==
  \A x \in S, f, g \in [S -> V] :
    (\A y \in S : mu[y] < mu[x] => f[y] = g[y]) => G[x][f] = G[x][g]

Agreeing(S, V, mu, G) ==
  \A n, k \in Nat :
    n <= k => \A f \in SolvedUpTo(S, V, mu, G, n), g \in SolvedUpTo(S, V, mu, G, k) :
                \A x \in S : mu[x] < n => f[x] = g[x]

\* Two solutions agree as far as both go.
LEMMA SolutionsAgree ==
  ASSUME NEW S, NEW V, NEW mu \in [S -> Nat], NEW G \in [S -> [[S -> V] -> V]],
         Contracts(S, V, mu, G)
  PROVE  Agreeing(S, V, mu, G)
<1> SUFFICES ASSUME NEW n \in Nat, NEW k \in Nat, n <= k,
                    NEW f \in SolvedUpTo(S, V, mu, G, n), NEW g \in SolvedUpTo(S, V, mu, G, k),
                    NEW x \in S, mu[x] < n
             PROVE  f[x] = g[x]
  BY Zenon DEF Agreeing
<1> DEFINE Bad == {mu[y] : y \in {z \in S : mu[z] < n /\ f[z] # g[z]}}
<1>1. CASE Bad = {}
  <2> SUFFICES ASSUME f[x] # g[x] PROVE FALSE
    OBVIOUS
  <2>1. x \in {z \in S : mu[z] < n /\ f[z] # g[z]}
    OBVIOUS
  <2>2. mu[x] \in Bad
    BY <2>1, Zenon
  <2> QED
    BY <1>1, <2>2, Zenon
<1>2. CASE Bad # {}
  <2>1. Bad \subseteq Nat
    OBVIOUS
  <2>2. PICK b \in Bad : \A c \in Bad : b <= c
    <3> HIDE DEF Bad
    <3> QED
      BY <2>1, <1>2, SmallestNumber
  <2>3. PICK y \in S : mu[y] = b /\ mu[y] < n /\ f[y] # g[y]
    OBVIOUS
  <2>4. \A z \in S : mu[z] < mu[y] => f[z] = g[z]
    <3> SUFFICES ASSUME NEW z \in S, mu[z] < mu[y], f[z] # g[z] PROVE FALSE
      OBVIOUS
    <3>1. mu[z] \in Nat /\ mu[y] \in Nat /\ mu[z] < n
      BY <2>3
    <3>2. mu[z] \in Bad
      BY <3>1
    <3>3. b <= mu[z]
      BY <2>2, <3>2, Zenon
    <3> QED
      BY <2>3, <3>1, <3>3
  <2>5. f \in [S -> V] /\ g \in [S -> V]
    BY Zenon DEF SolvedUpTo
  <2>6. G[y][f] = G[y][g]
    BY <2>4, <2>5, Zenon DEF Contracts
  <2>7. mu[y] < k
    <3>1. mu[y] \in Nat
      OBVIOUS
    <3> QED
      BY <2>3, <3>1
  <2>8. f[y] = G[y][f] /\ g[y] = G[y][g]
    BY <2>3, <2>7, Zenon DEF SolvedUpTo
  <2> QED
    BY <2>3, <2>6, <2>8, Zenon
<1> QED
  BY <1>1, <1>2, Zenon

\* There are solutions up to every measure.
LEMMA SolutionUpTo ==
  ASSUME NEW S, NEW V, NEW v \in V, NEW mu \in [S -> Nat], NEW G \in [S -> [[S -> V] -> V]],
         Contracts(S, V, mu, G), NEW n \in Nat
  PROVE  SolvedUpTo(S, V, mu, G, n) # {}
<1> DEFINE Bad == {k \in Nat : SolvedUpTo(S, V, mu, G, k) = {}}
<1>1. CASE Bad = {}
  BY <1>1
<1>2. CASE Bad # {}
  <2>1. PICK b \in Bad : \A c \in Bad : b <= c
    <3>1. Bad \subseteq Nat
      OBVIOUS
    <3> HIDE DEF Bad
    <3> QED
      BY <3>1, <1>2, SmallestNumber
  <2>2. CASE b = 0
    <3>1. [x \in S |-> v] \in [S -> V]
      OBVIOUS
    <3>2. \A x \in S : ~(mu[x] < 0)
      OBVIOUS
    <3>3. [x \in S |-> v] \in SolvedUpTo(S, V, mu, G, 0)
      BY <3>1, <3>2 DEF SolvedUpTo
    <3> QED
      BY <2>2, <3>3, Zenon
  <2>3. CASE b # 0
    <3>1. b - 1 \in Nat /\ ~(b <= b - 1)
      BY <2>3
    <3>2. PICK f : f \in SolvedUpTo(S, V, mu, G, b - 1)
      BY <2>1, <3>1, Zenon
    <3>3. f \in [S -> V] /\ \A x \in S : mu[x] < b - 1 => f[x] = G[x][f]
      BY <3>2, Zenon DEF SolvedUpTo
    <3> DEFINE g == [x \in S |-> G[x][f]]
    <3>4. g \in [S -> V] /\ \A x \in S : g[x] = G[x][f]
      BY <3>3
    <3> HIDE DEF g
    <3>5. ASSUME NEW x \in S, mu[x] < b
          PROVE  g[x] = G[x][g]
      <4>1. \A y \in S : mu[y] < mu[x] => f[y] = g[y]
        <5> SUFFICES ASSUME NEW y \in S, mu[y] < mu[x] PROVE f[y] = g[y]
          OBVIOUS
        <5>1. mu[y] \in Nat /\ mu[x] \in Nat /\ b \in Nat
          OBVIOUS
        <5>2. mu[y] < b - 1
          BY <5>1, <3>5
        <5> QED
          BY <5>2, <3>3, <3>4, Zenon
      <4>2. G[x][f] = G[x][g]
        BY <4>1, <3>3, <3>4, Zenon DEF Contracts
      <4> QED
        BY <4>2, <3>4, Zenon
    <3>6. g \in SolvedUpTo(S, V, mu, G, b)
      BY <3>4, <3>5, Zenon DEF SolvedUpTo
    <3> QED
      BY <3>6, Zenon
  <2> QED
    BY <2>2, <2>3
<1> QED
  BY <1>1, <1>2

Solvable(S, V, G) == \E f \in [S -> V] : \A x \in S : f[x] = G[x][f]

\* A recursive definition whose calls get smaller by a measure has a solution.
LEMMA RecursionExists ==
  ASSUME NEW S, NEW V, NEW v \in V, NEW mu \in [S -> Nat], NEW G \in [S -> [[S -> V] -> V]],
         Contracts(S, V, mu, G)
  PROVE  Solvable(S, V, G)
<1> DEFINE Some(n) == CHOOSE f : f \in SolvedUpTo(S, V, mu, G, n)
           h == [x \in S |-> Some(mu[x] + 1)[x]]
<1>0. Agreeing(S, V, mu, G)
  BY SolutionsAgree
<1>1. ASSUME NEW n \in Nat PROVE Some(n) \in SolvedUpTo(S, V, mu, G, n)
  <2>1. \E f : f \in SolvedUpTo(S, V, mu, G, n)
    <3>1. SolvedUpTo(S, V, mu, G, n) # {}
      BY SolutionUpTo
    <3> QED
      BY <3>1, Zenon
  <2> QED
    BY <2>1, Zenon
<1>2. \A n \in Nat : Some(n) \in [S -> V]
  BY <1>1, Zenon DEF SolvedUpTo
<1> HIDE DEF Some
<1>3. h \in [S -> V] /\ \A x \in S : h[x] = Some(mu[x] + 1)[x]
  BY <1>2
<1> HIDE DEF h
<1>4. ASSUME NEW x \in S
      PROVE  h[x] = G[x][h]
  <2> DEFINE f == Some(mu[x] + 1)
  <2>0. mu[x] \in Nat /\ mu[x] + 1 \in Nat /\ mu[x] < mu[x] + 1
    OBVIOUS
  <2>1. f \in SolvedUpTo(S, V, mu, G, mu[x] + 1)
    BY <1>1, <2>0
  <2> HIDE DEF f
  <2>2. f \in [S -> V] /\ f[x] = G[x][f]
    BY <2>0, <2>1, Zenon DEF SolvedUpTo
  <2>3. ASSUME NEW y \in S, mu[y] < mu[x]
        PROVE  h[y] = f[y]
    <3>1. mu[y] \in Nat /\ mu[y] + 1 \in Nat /\ mu[y] < mu[y] + 1 /\ mu[y] + 1 <= mu[x] + 1
      BY <2>3
    <3> DEFINE e == Some(mu[y] + 1)
    <3>2. e \in SolvedUpTo(S, V, mu, G, mu[y] + 1)
      BY <1>1, <3>1
    <3>3. h[y] = e[y]
      BY <1>3, Zenon
    <3> HIDE DEF e
    <3>4. e[y] = f[y]
      BY <1>0, <2>0, <2>1, <3>1, <3>2, Zenon DEF Agreeing
    <3> QED
      BY <3>3, <3>4, Zenon
  <2>4. G[x][h] = G[x][f]
    BY <2>2, <2>3, <1>3, Zenon DEF Contracts
  <2> QED
    BY <2>2, <2>4, <1>3, Zenon DEF f
<1> QED
  BY <1>3, <1>4, Zenon DEF Solvable

Keys == Seq(Nat)

\* A key is not less than itself.
LEMMA KeyNotLess ==
  ASSUME NEW s \in Keys
  PROVE  ~KeyLess(s, s)
  BY DEF KeyLess, Keys

\* The order of the keys is transitive.
LEMMA KeyLessTransitive ==
  ASSUME NEW s \in Keys, NEW t \in Keys, NEW u \in Keys, KeyLess(s, t), KeyLess(t, u)
  PROVE  KeyLess(s, u)
<1>1. PICK i \in 0 .. Len(s) :
        /\ Len(t) > i /\ \A j \in 1 .. i : s[j] = t[j]
        /\ i = Len(s) \/ s[i + 1] < t[i + 1]
  BY DEF KeyLess
<1>2. PICK k \in 0 .. Len(t) :
        /\ Len(u) > k /\ \A j \in 1 .. k : t[j] = u[j]
        /\ k = Len(t) \/ t[k + 1] < u[k + 1]
  BY DEF KeyLess
<1>3. CASE i < k
  <2>1. Len(u) > i /\ \A j \in 1 .. i : s[j] = u[j]
    BY <1>1, <1>2, <1>3 DEF Keys
  <2>2. i + 1 \in 1 .. k
    BY <1>3
  <2>3. i = Len(s) \/ s[i + 1] < u[i + 1]
    BY <1>1, <1>2, <2>2
  <2> QED
    BY <2>1, <2>3 DEF KeyLess
<1>4. CASE i = k
  <2>1. Len(u) > i /\ \A j \in 1 .. i : s[j] = u[j]
    BY <1>1, <1>2, <1>4 DEF Keys
  <2>2. k # Len(t)
    BY <1>1, <1>4 DEF Keys
  <2>3. ASSUME i # Len(s)
        PROVE  s[i + 1] < u[i + 1]
    <3>1. i + 1 \in 1 .. Len(s) /\ i + 1 \in 1 .. Len(t) /\ i + 1 \in 1 .. Len(u)
      BY <2>1, <2>2, <2>3, <1>1, <1>4 DEF Keys
    <3>2. s[i + 1] \in Nat /\ t[i + 1] \in Nat /\ u[i + 1] \in Nat
      <4>1. s \in [1 .. Len(s) -> Nat] /\ t \in [1 .. Len(t) -> Nat] /\ u \in [1 .. Len(u) -> Nat]
        BY LenProperties DEF Keys
      <4> QED
        BY <3>1, <4>1
    <3>3. s[i + 1] < t[i + 1] /\ t[i + 1] < u[i + 1]
      BY <1>1, <1>2, <1>4, <2>2, <2>3
    <3> QED
      BY <3>2, <3>3
  <2> QED
    BY <2>1, <2>3 DEF KeyLess
<1>5. CASE k < i
  <2>1. k \in 0 .. Len(s) /\ Len(u) > k /\ \A j \in 1 .. k : s[j] = u[j]
    BY <1>1, <1>2, <1>5, SMTT(30) DEF Keys
  <2>2. k + 1 \in 1 .. i /\ k # Len(t)
    BY <1>1, <1>2, <1>5 DEF Keys
  <2>3. s[k + 1] < u[k + 1]
    BY <1>1, <1>2, <2>2
  <2> QED
    BY <2>1, <2>3 DEF KeyLess
<1> QED
  BY <1>3, <1>4, <1>5 DEF Keys

\* Two keys neither of which is less are the same.
LEMMA KeyLessTotal ==
  ASSUME NEW s \in Keys, NEW t \in Keys, ~KeyLess(s, t), ~KeyLess(t, s)
  PROVE  s = t
<1> DEFINE Differ == {i \in Nat : i \in 1 .. Len(s) /\ i \in 1 .. Len(t) /\ s[i] # t[i]}
<1>0. Len(s) \in Nat /\ Len(t) \in Nat
  BY DEF Keys
<1>1. CASE Differ = {}
  <2>1. \A i \in 1 .. Len(s) : i \in 1 .. Len(t) => s[i] = t[i]
    BY <1>1, <1>0
  <2>2. CASE Len(s) < Len(t)
    <3>1. KeyLess(s, t)
      BY <1>0, <2>1, <2>2 DEF KeyLess
    <3> QED
      BY <3>1
  <2>3. CASE Len(t) < Len(s)
    <3>1. KeyLess(t, s)
      BY <1>0, <2>1, <2>3 DEF KeyLess
    <3> QED
      BY <3>1
  <2>4. CASE Len(s) = Len(t)
    BY <1>0, <2>1, <2>4, SeqEqual DEF Keys
  <2> QED
    BY <1>0, <2>2, <2>3, <2>4
<1>2. CASE Differ # {}
  <2>1. PICK d \in Differ : \A c \in Differ : d <= c
    <3>1. Differ \subseteq Nat
      OBVIOUS
    <3> HIDE DEF Differ
    <3> QED
      BY <3>1, <1>2, SmallestNumber
  <2>2. d \in 1 .. Len(s) /\ d \in 1 .. Len(t) /\ s[d] # t[d]
    OBVIOUS
  <2>3. \A j \in 1 .. d - 1 : s[j] = t[j]
    <3> SUFFICES ASSUME NEW j \in 1 .. d - 1, s[j] # t[j] PROVE FALSE
      OBVIOUS
    <3>1. j \in Differ
      BY <2>2
    <3> HIDE DEF Differ
    <3> QED
      BY <2>1, <3>1, <2>2
  <2>4. s[d] \in Nat /\ t[d] \in Nat
    BY <2>2 DEF Keys
  <2>5. d - 1 \in 0 .. Len(s) /\ d - 1 \in 0 .. Len(t) /\ (d - 1) + 1 = d
        /\ Len(s) > d - 1 /\ Len(t) > d - 1
    BY <2>2, <1>0
  <2> HIDE DEF Differ
  <2>6. CASE s[d] < t[d]
    <3>1. KeyLess(s, t)
      BY <2>3, <2>5, <2>6 DEF KeyLess
    <3> QED
      BY <3>1
  <2>7. CASE t[d] < s[d]
    <3>1. KeyLess(t, s)
      BY <2>3, <2>5, <2>7 DEF KeyLess
    <3> QED
      BY <3>1
  <2> QED
    BY <2>2, <2>4, <2>6, <2>7
<1> QED
  BY <1>1, <1>2

\* What a prefix is, letter by letter.
LEMMA PrefixLetters ==
  ASSUME NEW s \in Keys, NEW t \in Keys
  PROVE  IsPrefix(s, t) <=> Len(s) <= Len(t) /\ \A i \in 1 .. Len(s) : t[i] = s[i]
<1>0. Len(s) \in Nat /\ Len(t) \in Nat
  BY DEF Keys
<1> DEFINE a == SubSeq(s, 1, Len(s))
           b == SubSeq(t, 1, Len(s))
<1>1. a \in Keys /\ Len(a) = Len(s) /\ \A i \in 1 .. Len(s) : a[i] = s[i]
  BY <1>0 DEF Keys
<1>2. ASSUME Len(s) <= Len(t)
      PROVE  b \in Keys /\ Len(b) = Len(s) /\ \A i \in 1 .. Len(s) : b[i] = t[i]
  BY <1>0, <1>2 DEF Keys
<1>3. IsPrefix(s, t) <=> Len(s) <= Len(t) /\ a = b
  BY DEF IsPrefix
<1> HIDE DEF a, b
<1>4. ASSUME Len(s) <= Len(t), \A i \in 1 .. Len(s) : t[i] = s[i]
      PROVE  a = b
  BY <1>1, <1>2, <1>4, SeqEqual DEF Keys
<1>5. ASSUME Len(s) <= Len(t), a = b
      PROVE  \A i \in 1 .. Len(s) : t[i] = s[i]
  BY <1>1, <1>2, <1>5
<1> QED
  BY <1>3, <1>4, <1>5

\* No key that begins with a prefix is less than it.
LEMMA PrefixNotLess ==
  ASSUME NEW s \in Keys, NEW t \in Keys, IsPrefix(s, t)
  PROVE  ~KeyLess(t, s)
<1>1. Len(s) <= Len(t) /\ \A i \in 1 .. Len(s) : t[i] = s[i]
  BY PrefixLetters
<1> QED
  BY <1>1, SMTT(30) DEF KeyLess, Keys

\* Between a prefix and a key that begins with it every key begins with it.
LEMMA PrefixBetween ==
  ASSUME NEW p \in Keys, NEW s \in Keys, NEW t \in Keys,
         IsPrefix(p, t), ~KeyLess(s, p), ~KeyLess(t, s)
  PROVE  IsPrefix(p, s)
<1> SUFFICES ASSUME ~IsPrefix(p, s) PROVE FALSE
  OBVIOUS
<1>0. Len(s) \in Nat /\ Len(t) \in Nat /\ Len(p) \in Nat
  BY DEF Keys
<1>1. Len(p) <= Len(t) /\ \A i \in 1 .. Len(p) : t[i] = p[i]
  BY PrefixLetters
<1>2. p # s
  BY PrefixLetters, <1>0
<1>3. KeyLess(p, s)
  BY <1>2, KeyLessTotal
<1>4. PICK i \in 0 .. Len(p) :
        /\ Len(s) > i /\ \A j \in 1 .. i : p[j] = s[j]
        /\ i = Len(p) \/ p[i + 1] < s[i + 1]
  BY <1>3 DEF KeyLess
<1>5. i # Len(p)
  BY <1>4, <1>0, PrefixLetters
<1>6. i \in 0 .. Len(t) /\ Len(s) > i /\ i + 1 \in 1 .. Len(p)
  BY <1>0, <1>1, <1>4, <1>5
<1>7. (\A j \in 1 .. i : t[j] = s[j]) /\ t[i + 1] < s[i + 1]
  BY <1>1, <1>4, <1>5, <1>6
<1> QED
  BY <1>6, <1>7 DEF KeyLess

\* The empty key begins every key, and is less than any other.
LEMMA EmptyKeyFirst ==
  ASSUME NEW t \in Keys
  PROVE  <<>> \in Keys /\ ~KeyLess(t, <<>>) /\ (t # <<>> => KeyLess(<<>>, t))
<1>1. <<>> \in Keys /\ Len(<<>>) = 0
  BY EmptySeq DEF Keys
<1>2. ~KeyLess(t, <<>>)
  BY <1>1 DEF KeyLess, Keys
<1> QED
  BY <1>1, <1>2, KeyLessTotal

Before(keys, s) == {t \in keys : KeyLess(t, s)}

\* The keys in their order: each of them once, from the least to the greatest.
InOrder(words, keys) ==
  /\ words \in Seq(Keys) /\ Range(words) = keys
  /\ \A i, j \in DOMAIN words : i < j => KeyLess(words[i], words[j])

\* Of two keys the greater one has more keys before it.
LEMMA RankGrows ==
  ASSUME NEW keys \in SUBSET Keys, IsFiniteSet(keys), NEW s \in keys, NEW t \in keys, KeyLess(s, t)
  PROVE  Cardinality(Before(keys, s)) < Cardinality(Before(keys, t))
<1>1. s \in Keys /\ t \in Keys
  OBVIOUS
<1>2. Before(keys, s) \subseteq Before(keys, t)
  <2> SUFFICES ASSUME NEW u \in keys, KeyLess(u, s) PROVE KeyLess(u, t)
    BY DEF Before
  <2>1. u \in Keys
    OBVIOUS
  <2> QED
    BY <1>1, <2>1, KeyLessTransitive
<1>3. s \in Before(keys, t) /\ s \notin Before(keys, s)
  BY <1>1, KeyNotLess DEF Before
<1>4. IsFiniteSet(Before(keys, s)) /\ IsFiniteSet(Before(keys, t))
  BY FS_Subset DEF Before
<1>5. /\ Cardinality(Before(keys, s)) \in Nat /\ Cardinality(Before(keys, t)) \in Nat
      /\ Cardinality(Before(keys, s)) <= Cardinality(Before(keys, t))
      /\ Cardinality(Before(keys, s)) = Cardinality(Before(keys, t)) => Before(keys, s) = Before(keys, t)
  BY <1>2, <1>4, FS_Subset, FS_CardinalityType
<1> QED
  BY <1>3, <1>5

\* The keys before a key are fewer than all.
LEMMA RankInRange ==
  ASSUME NEW keys \in SUBSET Keys, IsFiniteSet(keys), NEW s \in keys
  PROVE  Cardinality(Before(keys, s)) + 1 \in 1 .. Cardinality(keys)
<1>1. Before(keys, s) \subseteq keys /\ s \notin Before(keys, s)
  BY KeyNotLess DEF Before
<1>2. IsFiniteSet(Before(keys, s))
  BY <1>1, FS_Subset
<1>3. /\ Cardinality(Before(keys, s)) \in Nat /\ Cardinality(keys) \in Nat
      /\ Cardinality(Before(keys, s)) <= Cardinality(keys)
      /\ Cardinality(Before(keys, s)) = Cardinality(keys) => Before(keys, s) = keys
  BY <1>1, <1>2, FS_Subset, FS_CardinalityType
<1> QED
  BY <1>1, <1>3

\* The ranks of the keys are all the numbers from one on.
LEMMA SortedInOrder ==
  ASSUME NEW keys \in SUBSET Keys, IsFiniteSet(keys)
  PROVE  InOrder(SortedKeys(keys), keys) /\ Len(SortedKeys(keys)) = Cardinality(keys)
<1> DEFINE n == Cardinality(keys)
           rank == [s \in keys |-> Cardinality(Before(keys, s)) + 1]
           words == SortedKeys(keys)
<1>1. n \in Nat
  BY FS_CardinalityType
<1>2. rank \in [keys -> 1 .. n]
  BY RankInRange
<1>3. ASSUME NEW s \in keys, NEW t \in keys, rank[s] = rank[t]
      PROVE  s = t
  <2>1. s \in Keys /\ t \in Keys
    OBVIOUS
  <2>2. Cardinality(Before(keys, s)) = Cardinality(Before(keys, t))
        /\ Cardinality(Before(keys, s)) \in Nat
    <3>1. IsFiniteSet(Before(keys, s)) /\ IsFiniteSet(Before(keys, t))
      BY FS_Subset DEF Before
    <3>2. Cardinality(Before(keys, s)) \in Nat /\ Cardinality(Before(keys, t)) \in Nat
      BY <3>1, FS_CardinalityType
    <3> QED
      BY <3>2, <1>3
  <2>3. ~KeyLess(s, t) /\ ~KeyLess(t, s)
    BY <2>2, RankGrows
  <2> QED
    BY <2>1, <2>3, KeyLessTotal
<1>4. \A s, t \in keys : KeyLess(s, t) => rank[s] < rank[t]
  <2> SUFFICES ASSUME NEW s \in keys, NEW t \in keys, KeyLess(s, t) PROVE rank[s] < rank[t]
    OBVIOUS
  <2>1. Cardinality(Before(keys, s)) < Cardinality(Before(keys, t))
    BY RankGrows
  <2>2. IsFiniteSet(Before(keys, s)) /\ IsFiniteSet(Before(keys, t))
    BY FS_Subset DEF Before
  <2>3. Cardinality(Before(keys, s)) \in Nat /\ Cardinality(Before(keys, t)) \in Nat
    BY <2>2, FS_CardinalityType
  <2> QED
    BY <2>1, <2>3
<1>5. \A s \in keys, k \in 1 .. n : rank[s] = k <=> Cardinality({t \in keys : KeyLess(t, s)}) = k - 1
  <2> SUFFICES ASSUME NEW s \in keys, NEW k \in 1 .. n
               PROVE  rank[s] = k <=> Cardinality(Before(keys, s)) = k - 1
    BY DEF Before
  <2>1. IsFiniteSet(Before(keys, s))
    BY FS_Subset DEF Before
  <2>2. Cardinality(Before(keys, s)) \in Nat
    BY <2>1, FS_CardinalityType
  <2> QED
    BY <2>2
<1>6. words = [k \in 1 .. n |-> CHOOSE s \in keys : Cardinality({t \in keys : KeyLess(t, s)}) = k - 1]
  BY Zenon DEF SortedKeys
<1> HIDE DEF rank, words, n
<1>7. \A k \in 1 .. n : \E s \in keys : rank[s] = k
  <2>1. rank \in Injection(keys, 1 .. n)
    BY <1>2, <1>3, Zenon DEF Injection, IsInjective
  <2>2. IsFiniteSet(1 .. n) /\ Cardinality(1 .. n) = n
    BY <1>1, FS_Interval
  <2>3. rank \in Surjection(keys, 1 .. n)
    BY <2>1, <2>2, FS_PigeonHole, FS_Injection, FS_Surjection DEF n
  <2> QED
    BY <2>3, Zenon DEF Surjection
<1>8. ASSUME NEW k \in 1 .. n
      PROVE  words[k] \in keys /\ rank[words[k]] = k
  <2>1. PICK s \in keys : Cardinality({t \in keys : KeyLess(t, s)}) = k - 1
    BY <1>5, <1>7, Zenon
  <2>2. words[k] \in keys /\ Cardinality({t \in keys : KeyLess(t, words[k])}) = k - 1
    BY <1>6, <2>1, Zenon
  <2> QED
    BY <1>5, <2>2, Zenon
<1>9. words \in [1 .. n -> keys]
  BY <1>6, <1>8, Zenon
<1>10. words \in Seq(Keys) /\ Len(words) = n /\ DOMAIN words = 1 .. n
  <2>1. words \in [1 .. n -> Keys]
    BY <1>9
  <2> QED
    BY <1>1, <2>1, SeqDef, LenProperties
<1>11. Range(words) = keys
  <2>1. ASSUME NEW s \in keys PROVE s \in Range(words)
    <3>1. rank[s] \in 1 .. n
      BY <1>2
    <3>2. words[rank[s]] = s
      BY <3>1, <1>3, <1>8
    <3> QED
      BY <3>1, <3>2, <1>10, Zenon DEF Range
  <2> QED
    BY <1>8, <1>10, <2>1 DEF Range
<1>12. ASSUME NEW i \in 1 .. n, NEW j \in 1 .. n, i < j
       PROVE  KeyLess(words[i], words[j])
  <2>1. words[i] \in keys /\ words[j] \in keys /\ rank[words[i]] = i /\ rank[words[j]] = j
    BY <1>8
  <2>2. ~KeyLess(words[j], words[i])
    BY <1>4, <1>12, <2>1
  <2>3. words[i] # words[j]
    BY <1>12, <2>1
  <2> QED
    BY <2>1, <2>2, <2>3, KeyLessTotal
<1> QED
  BY <1>10, <1>11, <1>12 DEF InOrder, words, n

-----------------------------------------------------------------------------
(* Building the tree. *)

\* Division rounds down.
LEMMA DivBounds ==
  ASSUME NEW a \in Nat, NEW d \in Nat \ {0}
  PROVE  a \div d \in Nat /\ (a \div d) * d <= a /\ a < (a \div d) * d + d
<1>1. d \in Int /\ d > 0 /\ a \in Int
  OBVIOUS
<1> DEFINE q == a \div d
           r == a % d
<1>2. q \in Int /\ r \in 0 .. d - 1 /\ a = d * q + r
  BY <1>1
<1> HIDE DEF q, r
<1>3. d * q = q * d /\ d * q \in Int
  BY <1>1, <1>2
<1>4. q >= 0
  <2> SUFFICES ASSUME q < 0 PROVE FALSE
    BY <1>2
  <2>1. q <= -1
    BY <1>2
  <2>2. d * q <= d * (-1)
    BY <1>1, <1>2, <2>1
  <2> QED
    BY <1>1, <1>2, <2>2
<1>5. q * d <= a /\ a < q * d + d /\ q \in Nat
  BY <1>1, <1>2, <1>3, <1>4
<1> QED
  BY <1>5 DEF q

\* A product with one more.
LEMMA OneMoreTime ==
  ASSUME NEW a \in Nat, NEW x \in Nat \ {0}
  PROVE  a * x \in Nat /\ a * (x - 1) \in Nat /\ a * x = a * (x - 1) + a
  OBVIOUS

\* A product grows with its factor.
LEMMA ProductGrows ==
  ASSUME NEW a \in Int, NEW b \in Int, NEW d \in Nat, a <= b
  PROVE  a * d \in Int /\ b * d \in Int /\ a * d <= b * d
<1>1. (b - a) * d >= 0 /\ (b - a) * d = b * d - a * d
  OBVIOUS
<1>2. a * d \in Int /\ b * d \in Int
  OBVIOUS
<1> QED
  BY <1>1, <1>2

\* Where the part of child x ends.
EndOf(n, m, x) == (n * x) \div (m + 1)

\* Every child of a node gets some of its keys and none gets all; when there are
\* few enough for two levels none gets more than a leaf takes.
LEMMA ShareFacts ==
  ASSUME NEW m \in Nat \ {0}, NEW n \in Nat, n > m, NEW x \in 1 .. m + 1
  PROVE  /\ EndOf(n, m, x) \in Nat /\ EndOf(n, m, x - 1) \in Nat
         /\ Share(n, m, x) = EndOf(n, m, x) - EndOf(n, m, x - 1)
         /\ Share(n, m, x) \in 1 .. n - 1
         /\ n <= m * (m + 1) => Share(n, m, x) <= m
<1> DEFINE d == m + 1
           q == EndOf(n, m, x)
           p == EndOf(n, m, x - 1)
           s == q - p
<1>1. d \in Nat \ {0} /\ x - 1 \in Nat /\ x \in Nat \ {0} /\ d >= 2 /\ n >= d
  OBVIOUS
<1>2. n * x \in Nat /\ n * (x - 1) \in Nat /\ n * x = n * (x - 1) + n
  BY <1>1, OneMoreTime
<1>3. q \in Nat /\ q * d <= n * x /\ n * x < q * d + d
  <2>1. (n * x) \div d \in Nat /\ ((n * x) \div d) * d <= n * x /\ n * x < ((n * x) \div d) * d + d
    <3> HIDE DEF d
    <3> QED
      BY <1>1, <1>2, DivBounds
  <2> QED
    BY <2>1, Zenon DEF EndOf
<1>4. p \in Nat /\ p * d <= n * (x - 1) /\ n * (x - 1) < p * d + d
  <2>1. /\ (n * (x - 1)) \div d \in Nat /\ ((n * (x - 1)) \div d) * d <= n * (x - 1)
        /\ n * (x - 1) < ((n * (x - 1)) \div d) * d + d
    <3> HIDE DEF d
    <3> QED
      BY <1>1, <1>2, DivBounds
  <2> QED
    BY <2>1, Zenon DEF EndOf
<1>5. Share(n, m, x) = s
  BY Zenon DEF Share, EndOf
<1> HIDE DEF d, q, p
<1>6. s \in Int /\ s * d = q * d - p * d /\ q * d \in Int /\ p * d \in Int
  BY <1>1, <1>3, <1>4
<1> HIDE DEF s
<1>7. s * d > n - d /\ s * d < n + d
  BY <1>1, <1>2, <1>3, <1>4, <1>6
<1>8. s >= 1
  <2> SUFFICES ASSUME s <= 0 PROVE FALSE
    BY <1>6
  <2>1. s * d <= 0 * d
    BY <1>1, <1>6, ProductGrows
  <2> QED
    BY <1>1, <1>6, <1>7, <2>1
<1>9. s <= n - 1
  <2> SUFFICES ASSUME n <= s PROVE FALSE
    BY <1>6
  <2>1. n * d <= s * d /\ n * d \in Int
    BY <1>1, <1>6, ProductGrows
  <2>2. n * 2 <= n * d
    BY <1>1
  <2>3. n * 2 = n + n
    OBVIOUS
  <2>4. n + n < n + d
    BY <1>1, <1>6, <1>7, <2>1, <2>2, <2>3
  <2> QED
    BY <1>1, <2>4
<1>10. ASSUME n <= m * d
       PROVE  s <= m
  <2> SUFFICES ASSUME d <= s PROVE FALSE
    BY <1>6 DEF d
  <2>1. d * d <= s * d /\ d * d \in Int
    BY <1>1, <1>6, ProductGrows
  <2>2. d * d = m * d + d /\ m * d \in Int
    BY DEF d
  <2> QED
    BY <1>1, <1>6, <1>7, <1>10, <2>1, <2>2
<1> QED
  BY <1>3, <1>4, <1>5, <1>6, <1>8, <1>9, <1>10 DEF q, p, d, s

\* The parts end where the node's keys end.
LEMMA EndsAtEnd ==
  ASSUME NEW m \in Nat, NEW n \in Nat
  PROVE  EndOf(n, m, 0) = 0 /\ EndOf(n, m, m + 1) = n
<1> DEFINE d == m + 1
<1>1. d \in Nat \ {0}
  OBVIOUS
<1>2. n * 0 = 0 /\ n * d \in Nat
  BY <1>1
<1> HIDE DEF d
<1>3. /\ (n * d) \div d \in Nat /\ ((n * d) \div d) * d <= n * d
      /\ n * d < ((n * d) \div d) * d + d
  BY <1>1, <1>2, DivBounds
<1> DEFINE q == (n * d) \div d
<1>4. q = n
  <2> HIDE DEF q
  <2>0. q \in Nat /\ q * d <= n * d /\ n * d < q * d + d
    BY <1>3 DEF q
  <2>1. ASSUME q >= n + 1 PROVE FALSE
    <3>1. (n + 1) * d <= q * d
      BY <1>1, <2>0, <2>1, ProductGrows
    <3>2. (n + 1) * d = n * d + d
      BY <1>1
    <3> QED
      BY <1>1, <1>2, <2>0, <3>1, <3>2
  <2>2. ASSUME q + 1 <= n PROVE FALSE
    <3>1. (q + 1) * d <= n * d
      BY <1>1, <2>0, <2>2, ProductGrows
    <3>2. (q + 1) * d = q * d + d
      BY <1>1, <2>0
    <3> QED
      BY <1>1, <1>2, <2>0, <3>1, <3>2
  <2> QED
    BY <2>0, <2>1, <2>2
<1>5. 0 \div d = 0
  <2>1. 0 \div d \in Nat /\ (0 \div d) * d <= 0 /\ 0 < (0 \div d) * d + d
    BY <1>1, DivBounds
  <2> DEFINE z == 0 \div d
  <2>2. z \in Nat /\ z * d <= 0
    BY <2>1
  <2> HIDE DEF z
  <2>3. z >= 1 => 1 * d <= z * d
    BY <1>1, <2>2, ProductGrows
  <2>4. z = 0
    BY <1>1, <2>2, <2>3
  <2> QED
    BY <2>4 DEF z
<1> QED
  BY <1>2, <1>4, <1>5 DEF EndOf, d

\* The number of separators of a node: one at least, and enough for two levels
\* when the keys are few enough for two levels of the largest nodes.
LEMMA TreeElementsFacts ==
  ASSUME NEW n \in Nat
  PROVE  /\ TreeElements(n) \in Nat \ {0}
         /\ n <= MaxElements * (MaxElements + 1) =>
              n <= TreeElements(n) * (TreeElements(n) + 1)
<1>0. MinElements \in Nat \ {0} /\ MaxElements \in Nat /\ MinElements <= MaxElements
  BY BtreeAssumption DEF BtreeAssumption
<1> DEFINE Over == {r \in Nat : n < (r + 1) * (r + 1)}
           r == Root(n)
           m == TreeElements(n)
<1>1. r \in 0 .. n /\ r * r <= n /\ n < (r + 1) * (r + 1)
  <2>1. Over \subseteq Nat /\ n \in Over
    OBVIOUS
  <2>2. PICK k \in Over : \A c \in Over : k <= c
    <3> HIDE DEF Over
    <3> QED
      BY <2>1, SmallestNumber
  <2>3. k \in 0 .. n /\ n < (k + 1) * (k + 1)
    BY <2>1, <2>2
  <2>4. k * k <= n
    <3>1. CASE k = 0
      BY <3>1
    <3>2. CASE k # 0
      <4>1. k - 1 \in Nat /\ (k - 1) + 1 = k /\ ~(k <= k - 1)
        BY <2>3, <3>2
      <4>2. k - 1 \notin Over
        BY <2>2, <4>1
      <4>3. ~(n < k * k)
        BY <4>1, <4>2
      <4> QED
        BY <4>3, <2>3
    <3> QED
      BY <3>1, <3>2
  <2> QED
    BY <2>3, <2>4 DEF Root
<1> HIDE DEF r
<1>2. m = IF r + 1 < MinElements THEN MinElements
          ELSE IF r + 1 > MaxElements THEN MaxElements ELSE r + 1
  BY DEF TreeElements, r
<1> HIDE DEF m
<1>3. m \in Nat \ {0} /\ (m >= r + 1 \/ m = MaxElements)
  BY <1>0, <1>1, <1>2
<1>4. ASSUME m >= r + 1
      PROVE  n <= m * (m + 1)
  <2>0. r + 1 \in Nat /\ m \in Nat
    BY <1>1, <1>3
  <2>1. (r + 1) * (r + 1) <= m * (r + 1)
    BY <1>4, <2>0, ProductGrows
  <2>2. (r + 1) * m <= (m + 1) * m
    BY <1>4, <2>0, ProductGrows
  <2>3. (r + 1) * m = m * (r + 1) /\ (m + 1) * m = m * (m + 1)
    BY <2>0
  <2>4. (r + 1) * (r + 1) \in Nat /\ m * (r + 1) \in Nat /\ m * (m + 1) \in Nat
    BY <2>0
  <2> QED
    BY <1>1, <2>1, <2>2, <2>3, <2>4
<1>5. n <= MaxElements * (MaxElements + 1) => n <= m * (m + 1)
  BY <1>3, <1>4
<1> QED
  BY <1>3, <1>5 DEF m

\* A loop that goes through its turns one after the other.
Runs(f, N, b, T) == f[0] = b /\ \A i \in 1 .. N : f[i] = T[i][f[i - 1]]

\* A loop over a data structure of some type has a run.
LEMMA LoopExists ==
  ASSUME NEW N \in Nat, NEW X, NEW b \in X, NEW T \in [1 .. N -> [X -> X]]
  PROVE  \E f \in [0 .. N -> X] : Runs(f, N, b, T)
<1> DEFINE S == 0 .. N
           mu == [i \in S |-> i]
           G == [i \in S |-> [f \in [S -> X] |-> IF i = 0 THEN b ELSE T[i][f[i - 1]]]]
<1>1. \A i \in S : i # 0 => i \in 1 .. N /\ i - 1 \in S /\ i - 1 < i
  OBVIOUS
<1>2. mu \in [S -> Nat] /\ \A i \in S : mu[i] = i
  OBVIOUS
<1>3. G \in [S -> [[S -> X] -> X]]
  <2> SUFFICES ASSUME NEW i \in S, NEW f \in [S -> X]
               PROVE  (IF i = 0 THEN b ELSE T[i][f[i - 1]]) \in X
    OBVIOUS
  <2>1. CASE i = 0
    BY <2>1
  <2>2. CASE i # 0
    <3>1. f[i - 1] \in X /\ T[i] \in [X -> X]
      BY <2>2, <1>1
    <3> QED
      BY <2>2, <3>1
  <2> QED
    BY <2>1, <2>2
<1>4. \A i \in S, f \in [S -> X] : G[i][f] = IF i = 0 THEN b ELSE T[i][f[i - 1]]
  BY Zenon
<1> HIDE DEF S, mu, G
<1>5. Contracts(S, X, mu, G)
  <2> SUFFICES ASSUME NEW i \in S, NEW f \in [S -> X], NEW g \in [S -> X],
                      \A j \in S : mu[j] < mu[i] => f[j] = g[j]
               PROVE  G[i][f] = G[i][g]
    BY Zenon DEF Contracts
  <2>1. i # 0 => f[i - 1] = g[i - 1]
    BY <1>1, <1>2
  <2> QED
    BY <1>4, <2>1
<1>6. PICK f \in [S -> X] : \A i \in S : f[i] = G[i][f]
  <2>1. Solvable(S, X, G)
    BY <1>2, <1>3, <1>5, RecursionExists
  <2> QED
    BY <2>1, Zenon DEF Solvable
<1>7. 0 \in S /\ \A i \in 1 .. N : i \in S /\ i # 0
  BY DEF S
<1>8. f[0] = b /\ \A i \in 1 .. N : f[i] = T[i][f[i - 1]]
  BY <1>4, <1>6, <1>7, Zenon
<1> QED
  BY <1>6, <1>8, Zenon DEF S, Runs

-----------------------------------------------------------------------------
\* What the building of a node keeps of one that was there: all but the link.
SameNode(x, y) ==
  /\ x.leaf = y.leaf /\ x.first = y.first /\ x.count = y.count
  /\ x.kids = y.kids /\ x.seps = y.seps

\* The file has grown: what there was is there.
Extends(F, H) == Len(F) <= Len(H) /\ \A o \in 1 .. Len(F) : SameNode(F[o], H[o])

\* Linking the last leaf changes nothing else in the file.
LEMMA LinkLeafFacts ==
  ASSUME NEW file \in Seq(Nodes), NEW last \in Nat
  PROVE  /\ LinkLeaf(file, last) \in Seq(Nodes) /\ Len(LinkLeaf(file, last)) = Len(file)
         /\ \A o \in 1 .. Len(file) :
              /\ SameNode(file[o], LinkLeaf(file, last)[o])
              /\ LinkLeaf(file, last)[o].link =
                   IF o = last /\ last # 0 THEN Len(file) + 1 ELSE file[o].link
<1>1. Len(file) \in Nat /\ DOMAIN file = 1 .. Len(file) /\ \A o \in 1 .. Len(file) : file[o] \in Nodes
  BY ElementOfSeq, LenProperties
<1>2. CASE last = 0
  <2>1. LinkLeaf(file, last) = file
    BY <1>2 DEF LinkLeaf
  <2> QED
    BY <1>1, <1>2, <2>1 DEF SameNode
<1>3. CASE last # 0
  <2> DEFINE node(o) == IF o = last THEN [file[o] EXCEPT !.link = Len(file) + 1] ELSE file[o]
             linked == [o \in 1 .. Len(file) |-> node(o)]
  <2>1. LinkLeaf(file, last) = linked
    BY <1>1, <1>3 DEF LinkLeaf
  <2>2. ASSUME NEW o \in 1 .. Len(file)
        PROVE  /\ node(o) \in Nodes /\ SameNode(file[o], node(o))
               /\ node(o).link = IF o = last THEN Len(file) + 1 ELSE file[o].link
    <3>1. file[o] \in Nodes
      BY <1>1
    <3>2. CASE o = last
      <4> DEFINE l == Len(file) + 1
                 new == [file[o] EXCEPT !.link = l]
      <4>1. l \in Nat
        BY <1>1
      <4> HIDE DEF l
      <4>2. new \in Nodes
        BY <3>1, <4>1 DEF Nodes
      <4>3. SameNode(file[o], new) /\ new.link = l
        BY <3>1 DEF Nodes, SameNode
      <4>4. node(o) = new
        BY <3>2 DEF l
      <4> QED
        BY <3>2, <4>2, <4>3, <4>4 DEF l
    <3>3. CASE o # last
      BY <3>1, <3>3 DEF SameNode
    <3> QED
      BY <3>2, <3>3
  <2> HIDE DEF node
  <2>3. linked \in [1 .. Len(file) -> Nodes]
    BY <2>2
  <2>4. linked \in Seq(Nodes) /\ Len(linked) = Len(file)
    BY <1>1, <2>3, SeqDef, LenProperties
  <2> QED
    BY <1>3, <2>1, <2>2, <2>4
<1> QED
  BY <1>2, <1>3

\* A file that grows twice has grown.
LEMMA ExtendsTransitive ==
  ASSUME NEW F \in Seq(Nodes), NEW H \in Seq(Nodes), NEW K \in Seq(Nodes), Extends(F, H), Extends(H, K)
  PROVE  Extends(F, K)
<1>1. Len(F) \in Nat /\ Len(H) \in Nat /\ Len(K) \in Nat
  BY LenProperties
<1> QED
  BY <1>1 DEF Extends, SameNode

\* A file extends itself.
LEMMA ExtendsItself ==
  ASSUME NEW F \in Seq(Nodes)
  PROVE  Extends(F, F)
  BY LenProperties DEF Extends, SameNode

\* The nodes of a file are as they should be: what a node has between its children
\* is where the keys of the next one begin.
NodeOK(F, m, o) ==
  /\ F[o].first # 0 /\ F[o].count # 0
  /\ F[o].leaf <=> F[o].count <= m
  /\ ~F[o].leaf =>
       /\ Len(F[o].kids) = m + 1 /\ Len(F[o].seps) = m
       /\ \A x \in 1 .. m + 1 :
            /\ F[o].kids[x] \in 1 .. o - 1
            /\ F[F[o].kids[x]].first = F[o].first + EndOf(F[o].count, m, x - 1)
            /\ F[F[o].kids[x]].count = Share(F[o].count, m, x)
       /\ \A x \in 1 .. m : F[o].seps[x] = F[o].first + EndOf(F[o].count, m, x)

\* The file as it is after a node was built: every leaf but the last one leads to
\* the one that goes on with the next key.
Grown(m, b) ==
  /\ b \in Builds /\ b.next # 0
  /\ \A o \in 1 .. Len(b.file) : NodeOK(b.file, m, o) /\ b.file[o].first + b.file[o].count <= b.next
  /\ IF b.last = 0 THEN Len(b.file) = 0
     ELSE /\ b.last \in 1 .. Len(b.file)
          /\ b.file[b.last].leaf /\ b.file[b.last].link = 0
          /\ b.file[b.last].first + b.file[b.last].count = b.next
  /\ \A o \in 1 .. Len(b.file) : b.file[o].leaf /\ o # b.last =>
       /\ b.file[o].link \in 1 .. Len(b.file)
       /\ b.file[b.file[o].link].leaf
       /\ b.file[b.file[o].link].first = b.file[o].first + b.file[o].count

\* A node was built for n keys.
Built(m, b, n, c) ==
  /\ Grown(m, c) /\ c.next = b.next + n
  /\ Extends(b.file, c.file) /\ Len(c.file) > Len(b.file)
  /\ c.file[Len(c.file)].first = b.next /\ c.file[Len(c.file)].count = n

\* A node stays as it should be when the file grows.
LEMMA NodeKept ==
  ASSUME NEW F \in Seq(Nodes), NEW H \in Seq(Nodes), NEW m \in Nat, Extends(F, H),
         NEW o \in 1 .. Len(F), NodeOK(F, m, o)
  PROVE  NodeOK(H, m, o)
<1>0. Len(F) \in Nat
  BY LenProperties
<1>1. SameNode(F[o], H[o])
  BY DEF Extends
<1>2. \A k \in 1 .. o - 1 : H[k].first = F[k].first /\ H[k].count = F[k].count
  <2> SUFFICES ASSUME NEW k \in 1 .. o - 1 PROVE H[k].first = F[k].first /\ H[k].count = F[k].count
    OBVIOUS
  <2>1. k \in 1 .. Len(F)
    BY <1>0
  <2> QED
    BY <2>1 DEF Extends, SameNode
<1>3. F[o].first # 0 /\ F[o].count # 0 /\ (F[o].leaf <=> F[o].count <= m)
  BY Zenon DEF NodeOK
<1>4. ASSUME ~F[o].leaf
      PROVE  /\ Len(F[o].kids) = m + 1 /\ Len(F[o].seps) = m
             /\ \A x \in 1 .. m + 1 :
                  /\ F[o].kids[x] \in 1 .. o - 1
                  /\ F[F[o].kids[x]].first = F[o].first + EndOf(F[o].count, m, x - 1)
                  /\ F[F[o].kids[x]].count = Share(F[o].count, m, x)
             /\ \A x \in 1 .. m : F[o].seps[x] = F[o].first + EndOf(F[o].count, m, x)
  BY <1>4, Zenon DEF NodeOK
<1>5. /\ H[o].leaf = F[o].leaf /\ H[o].first = F[o].first /\ H[o].count = F[o].count
      /\ H[o].kids = F[o].kids /\ H[o].seps = F[o].seps
  BY <1>1, Zenon DEF SameNode
<1> QED
  BY <1>2, <1>3, <1>4, <1>5, Zenon DEF NodeOK

\* A leaf, as it is written.
LEMMA LeafNode ==
  ASSUME NEW first \in Nat, NEW count \in Nat
  PROVE  /\ Leaf(first, count) \in Nodes
         /\ Leaf(first, count).leaf /\ Leaf(first, count).link = 0
         /\ Leaf(first, count).first = first /\ Leaf(first, count).count = count
<1>1. <<>> \in Seq(Nat)
  BY EmptySeq
<1> QED
  BY <1>1 DEF Leaf, Nodes

\* The file after a leaf was added: the leaf at its end, linked from the one before.
LEMMA AddLeafFacts ==
  ASSUME NEW b \in Builds, NEW n \in Nat
  PROVE  /\ AddLeaf(b, n) \in Builds
         /\ Len(AddLeaf(b, n).file) = Len(b.file) + 1 /\ Extends(b.file, AddLeaf(b, n).file)
         /\ AddLeaf(b, n).next = b.next + n /\ AddLeaf(b, n).last = Len(b.file) + 1
         /\ AddLeaf(b, n).file[Len(b.file) + 1] = Leaf(b.next, n)
         /\ \A o \in 1 .. Len(b.file) :
              AddLeaf(b, n).file[o].link =
                IF o = b.last /\ b.last # 0 THEN Len(b.file) + 1 ELSE b.file[o].link
<1> DEFINE F == b.file
           L == LinkLeaf(F, b.last)
           new == Leaf(b.next, n)
           H == Append(L, new)
<1>1. F \in Seq(Nodes) /\ b.next \in Nat /\ b.last \in Nat
  BY DEF Builds
<1>2. new \in Nodes
  BY <1>1, LeafNode
<1>3. L \in Seq(Nodes) /\ Len(L) = Len(F) /\ Len(F) \in Nat
  BY <1>1, LinkLeafFacts, LenProperties
<1>4. \A o \in 1 .. Len(F) :
        SameNode(F[o], L[o])
        /\ L[o].link = IF o = b.last /\ b.last # 0 THEN Len(F) + 1 ELSE F[o].link
  BY <1>1, LinkLeafFacts
<1>5. AddLeaf(b, n) = [file |-> H, next |-> b.next + n, last |-> Len(F) + 1]
  BY DEF AddLeaf
<1> HIDE DEF F, L, new
<1>6. H \in Seq(Nodes) /\ Len(H) = Len(F) + 1 /\ H[Len(F) + 1] = new
      /\ \A o \in 1 .. Len(F) : H[o] = L[o]
  BY <1>2, <1>3, AppendProperties
<1> HIDE DEF H
<1>7. Extends(F, H)
  BY <1>3, <1>4, <1>6 DEF Extends
<1>8. AddLeaf(b, n) \in Builds
  BY <1>1, <1>3, <1>5, <1>6 DEF Builds
<1> QED
  BY <1>4, <1>5, <1>6, <1>7, <1>8 DEF F, new

\* A leaf is built.
LEMMA LeafBuilt ==
  ASSUME NEW m \in Nat, NEW n \in 1 .. m, NEW b, Grown(m, b)
  PROVE  Built(m, b, n, AddLeaf(b, n))
<1> DEFINE F == b.file
           c == AddLeaf(b, n)
           H == c.file
           k == Len(F) + 1
<1>1. b \in Builds /\ b.next # 0 /\ b.next \in Nat /\ F \in Seq(Nodes) /\ n \in Nat /\ b.last \in Nat
  BY DEF Grown, Builds
<1>2. /\ c \in Builds /\ Len(H) = k /\ Extends(F, H) /\ c.next = b.next + n /\ c.last = k
      /\ H[k] = Leaf(b.next, n)
  BY <1>1, AddLeafFacts
<1>3. \A o \in 1 .. Len(F) :
        H[o].link = IF o = b.last /\ b.last # 0 THEN k ELSE F[o].link
  BY <1>1, AddLeafFacts
<1>4. H \in Seq(Nodes) /\ Len(F) \in Nat
  BY <1>1, <1>2, LenProperties DEF Builds
<1>5. H[k].leaf /\ H[k].link = 0 /\ H[k].first = b.next /\ H[k].count = n
  BY <1>1, <1>2, LeafNode
<1>6. \A o \in 1 .. Len(F) : SameNode(F[o], H[o])
  BY <1>2, Zenon DEF Extends
<1>7. /\ \A o \in 1 .. Len(F) : NodeOK(F, m, o) /\ F[o].first + F[o].count <= b.next
      /\ IF b.last = 0 THEN Len(F) = 0
         ELSE /\ b.last \in 1 .. Len(F) /\ F[b.last].leaf
              /\ F[b.last].first + F[b.last].count = b.next
      /\ \A o \in 1 .. Len(F) : F[o].leaf /\ o # b.last =>
           /\ F[o].link \in 1 .. Len(F) /\ F[F[o].link].leaf
           /\ F[F[o].link].first = F[o].first + F[o].count
  BY DEF Grown
<1> HIDE DEF F, c, H, k
<1>8. k \in Nat /\ k = Len(F) + 1 /\ k # 0 /\ \A o \in 1 .. k : o # k => o \in 1 .. Len(F)
  BY <1>4 DEF k
<1>9. NodeOK(H, m, k)
  BY <1>1, <1>5 DEF NodeOK
<1>10. ASSUME NEW o \in 1 .. Len(F) PROVE NodeOK(H, m, o)
  BY <1>1, <1>2, <1>4, <1>7, NodeKept
<1>11. ASSUME NEW o \in 1 .. k
       PROVE  NodeOK(H, m, o) /\ H[o].first + H[o].count <= c.next
  <2>1. CASE o = k
    BY <2>1, <1>1, <1>2, <1>5, <1>9
  <2>2. CASE o # k
    <3>1. o \in 1 .. Len(F)
      BY <1>8, <2>2
    <3>2. NodeOK(H, m, o)
      BY <1>10, <3>1
    <3>3. H[o].first = F[o].first /\ H[o].count = F[o].count /\ F[o].first + F[o].count <= b.next
      BY <1>6, <1>7, <3>1 DEF SameNode
    <3>4. F[o] \in Nodes
      BY <3>1, <1>1, ElementOfSeq
    <3>5. F[o].first \in Nat /\ F[o].count \in Nat
      BY <3>4 DEF Nodes
    <3> QED
      BY <1>1, <1>2, <3>2, <3>3, <3>5, SMTT(30)
  <2> QED
    BY <2>1, <2>2
<1>12. ASSUME NEW o \in 1 .. k, H[o].leaf, o # k
       PROVE  /\ H[o].link \in 1 .. k /\ H[H[o].link].leaf
              /\ H[H[o].link].first = H[o].first + H[o].count
  <2>1. o \in 1 .. Len(F)
    BY <1>8, <1>12
  <2>2. F[o].leaf /\ H[o].first = F[o].first /\ H[o].count = F[o].count
    BY <1>6, <1>12, <2>1 DEF SameNode
  <2>3. CASE o = b.last
    <3>1. b.last # 0
      BY <2>1, <2>3
    <3>2. H[o].link = k /\ F[o].first + F[o].count = b.next
      BY <1>3, <1>7, <2>1, <2>3, <3>1
    <3> QED
      BY <1>5, <1>8, <2>2, <3>2
  <2>4. CASE o # b.last
    <3>1. H[o].link = F[o].link
      BY <1>3, <2>1, <2>4
    <3>2. F[o].link \in 1 .. Len(F) /\ F[F[o].link].leaf
          /\ F[F[o].link].first = F[o].first + F[o].count
      BY <1>7, <2>1, <2>2, <2>4
    <3>3. H[F[o].link].leaf /\ H[F[o].link].first = F[F[o].link].first
      BY <1>6, <3>2 DEF SameNode
    <3>4. F[o].link \in 1 .. k
      BY <1>4, <1>8, <3>2
    <3> QED
      BY <2>2, <3>1, <3>2, <3>3, <3>4
  <2> QED
    BY <2>3, <2>4
<1>13. k \in 1 .. k /\ c.next # 0
  BY <1>1, <1>2, <1>4, <1>8
<1>14. Grown(m, c)
  BY <1>2, <1>5, <1>8, <1>11, <1>12, <1>13 DEF Grown, H
<1>15. Len(H) > Len(F)
  BY <1>2, <1>4, <1>8
<1> QED
  BY <1>2, <1>5, <1>14, <1>15 DEF Built, F, c, H

\* Ways to build a node: none goes back in the keys.
Growing == {g \in [Builds -> Builds] : \A b \in Builds : b.next <= g[b].next}

\* What is known of a node of which some children are built.
Accs(b) == {a \in [b : Builds, kids : Seq(Nat), seps : Seq(Nat)] : b.next <= a.b.next}

\* What one child more adds to the children and the separators.
LEMMA AddChildFacts ==
  ASSUME NEW b \in Builds, NEW a \in Accs(b), NEW g \in Growing, NEW isLast \in BOOLEAN
  PROVE  /\ AddChild(a, g, isLast) \in Accs(b)
         /\ AddChild(a, g, isLast).b = g[a.b]
         /\ AddChild(a, g, isLast).kids = Append(a.kids, Len(g[a.b].file))
         /\ AddChild(a, g, isLast).seps =
              IF isLast THEN a.seps ELSE Append(a.seps, g[a.b].next)
<1> DEFINE c == g[a.b]
           kids == Append(a.kids, Len(c.file))
           seps == IF isLast THEN a.seps ELSE Append(a.seps, c.next)
<1>1. a.b \in Builds /\ a.kids \in Seq(Nat) /\ a.seps \in Seq(Nat) /\ b.next <= a.b.next
  BY DEF Accs
<1>2. c \in Builds /\ a.b.next <= c.next
  BY <1>1 DEF Growing
<1>3. b.next \in Nat /\ a.b.next \in Nat /\ c.next \in Nat /\ c.file \in Seq(Nodes)
  BY <1>1, <1>2 DEF Builds
<1>4. AddChild(a, g, isLast) = [b |-> c, kids |-> kids, seps |-> seps]
  BY DEF AddChild, Separator
<1> HIDE DEF c
<1>5. kids \in Seq(Nat)
  <2>1. Len(c.file) \in Nat
    BY <1>3, LenProperties
  <2> QED
    BY <1>1, <2>1, AppendProperties
<1>6. seps \in Seq(Nat)
  BY <1>1, <1>3, AppendProperties
<1>7. b.next <= c.next
  BY <1>1, <1>2, <1>3
<1> HIDE DEF kids, seps
<1>8. AddChild(a, g, isLast) \in Accs(b)
  BY <1>2, <1>4, <1>5, <1>6, <1>7 DEF Accs
<1> QED
  BY <1>4, <1>8 DEF c, kids, seps

\* A node that gets its children one after the other.
InnerLoop(f, k, b, builds) ==
  /\ f \in [0 .. k -> Accs(b)]
  /\ f[0] = [b |-> b, kids |-> <<>>, seps |-> <<>>]
  /\ \A x \in 1 .. k : f[x] = AddChild(f[x - 1], builds[x], x = k)

InnerResult(b, a) ==
  [a.b EXCEPT !.file = Append(@, Inner(b.next, a.b.next - b.next, a.kids, a.seps))]

\* The children of a node are built one after the other.
LEMMA AddInnerLoop ==
  ASSUME NEW k \in Nat, NEW b \in Builds, NEW builds \in [1 .. k -> Growing]
  PROVE  \E f : InnerLoop(f, k, b, builds) /\ AddInner(b, builds) = InnerResult(b, f[k])
<1> DEFINE n == Len(builds)
           X == Accs(b)
           first == [b |-> b, kids |-> <<>>, seps |-> <<>>]
           Turn(x, a) == AddChild(a, builds[x], x = n)
           T == [x \in 1 .. n |-> [a \in X |-> Turn(x, a)]]
           Step(g) == [x \in 0 .. n |-> IF x = 0 THEN first ELSE Turn(x, g[x - 1])]
           acc == CHOOSE g : g = Step(g)
<1>1. n = k /\ n \in Nat
  <2>1. builds \in Seq(Growing)
    BY SeqDef
  <2> QED
    BY <2>1, LenProperties
<1>2. AddInner(b, builds) = InnerResult(b, acc[n])
  BY Zenon DEF AddInner, InnerResult
<1>3. first \in X
  <2>1. <<>> \in Seq(Nat) /\ b.next <= b.next
    BY EmptySeq DEF Builds
  <2> QED
    BY <2>1 DEF Accs
<1>4. \A x \in 1 .. n, a \in X : Turn(x, a) \in X
  <2> SUFFICES ASSUME NEW x \in 1 .. n, NEW a \in X PROVE AddChild(a, builds[x], x = n) \in X
    BY Zenon
  <2>1. builds[x] \in Growing /\ (x = n) \in BOOLEAN
    BY <1>1
  <2> HIDE DEF X
  <2> QED
    BY <2>1, AddChildFacts DEF X
<1> HIDE DEF X, Turn, first, n
<1>5. T \in [1 .. n -> [X -> X]] /\ \A x \in 1 .. n, a \in X : T[x][a] = Turn(x, a)
  BY <1>4
<1> HIDE DEF T
<1>6. PICK h \in [0 .. n -> X] : h[0] = first /\ \A x \in 1 .. n : h[x] = T[x][h[x - 1]]
  <2>1. PICK h \in [0 .. n -> X] : Runs(h, n, first, T)
    BY <1>1, <1>3, <1>5, LoopExists
  <2> QED
    BY <2>1, Zenon DEF Runs
<1>7. \A x \in 0 .. n : x # 0 => x \in 1 .. n /\ x - 1 \in 0 .. n
  BY <1>1
<1>8. h = Step(h)
  <2>1. h = [x \in 0 .. n |-> h[x]]
    BY <1>6
  <2>2. \A x \in 0 .. n : h[x] = IF x = 0 THEN first ELSE Turn(x, h[x - 1])
    BY <1>5, <1>6, <1>7
  <2> QED
    BY <2>1, <2>2, Zenon
<1>9. acc = Step(acc)
  BY <1>8, Zenon
<1> HIDE DEF acc
<1>10. \A x \in 0 .. n : acc[x] = IF x = 0 THEN first ELSE Turn(x, acc[x - 1])
  BY <1>9, Zenon
<1>11. acc = [x \in 0 .. n |-> acc[x]]
  BY <1>9, Zenon
<1>12. 0 \in 0 .. n /\ \A x \in 1 .. n : x \in 0 .. n /\ x # 0
  BY <1>1
<1>13. acc[0] = first /\ \A x \in 1 .. n : acc[x] = Turn(x, acc[x - 1])
  BY <1>10, <1>12, Zenon
<1>14. \A x \in 0 .. n : acc[x] = h[x]
  <2> DEFINE Bad == {x \in 0 .. n : acc[x] # h[x]}
  <2> SUFFICES ASSUME Bad # {} PROVE FALSE
    BY Zenon
  <2>1. PICK x \in Bad : \A y \in Bad : x <= y
    <3>1. Bad \subseteq Nat
      OBVIOUS
    <3> HIDE DEF Bad
    <3> QED
      BY <3>1, SmallestNumber
  <2>2. x \in 0 .. n /\ acc[x] # h[x]
    OBVIOUS
  <2>3. x # 0
    BY <2>2, <1>6, <1>13
  <2>4. x \in 1 .. n /\ x - 1 \in 0 .. n /\ ~(x <= x - 1)
    BY <1>1, <2>2, <2>3
  <2>5. acc[x - 1] = h[x - 1]
    BY <2>1, <2>4
  <2>6. h[x] = Turn(x, h[x - 1])
    BY <1>5, <1>6, <2>4
  <2> QED
    BY <1>13, <2>2, <2>4, <2>5, <2>6, Zenon
<1>15. acc \in [0 .. n -> X]
  BY <1>6, <1>11, <1>14
<1>16. InnerLoop(acc, n, b, builds)
  BY <1>13, <1>15, Zenon DEF InnerLoop, X, Turn, first
<1> QED
  BY <1>1, <1>2, <1>16, Zenon

\* The file after an inner node was added.
LEMMA InnerResultType ==
  ASSUME NEW b \in Builds, NEW a \in Accs(b)
  PROVE  /\ InnerResult(b, a) \in Builds /\ InnerResult(b, a).next = a.b.next
         /\ InnerResult(b, a).last = a.b.last
         /\ InnerResult(b, a).file =
              Append(a.b.file, Inner(b.next, a.b.next - b.next, a.kids, a.seps))
         /\ Inner(b.next, a.b.next - b.next, a.kids, a.seps) \in Nodes
<1> DEFINE new == Inner(b.next, a.b.next - b.next, a.kids, a.seps)
           H == Append(a.b.file, new)
<1>1. a.b \in Builds /\ a.kids \in Seq(Nat) /\ a.seps \in Seq(Nat) /\ b.next <= a.b.next
  BY DEF Accs
<1>2. b.next \in Nat /\ a.b.next - b.next \in Nat /\ a.b.file \in Seq(Nodes)
  BY <1>1 DEF Builds
<1>3. new \in Nodes
  BY <1>1, <1>2 DEF Inner, Nodes
<1> HIDE DEF new
<1>4. H \in Seq(Nodes)
  BY <1>2, <1>3, AppendProperties
<1>5. InnerResult(b, a) = [a.b EXCEPT !.file = H]
  BY DEF InnerResult, new
<1> HIDE DEF H
<1> QED
  BY <1>1, <1>3, <1>4, <1>5 DEF Builds, H, new

\* Building an inner node hands on a file, with no key given back.
LEMMA AddInnerGrows ==
  ASSUME NEW k \in Nat, NEW b \in Builds, NEW builds \in [1 .. k -> Growing]
  PROVE  AddInner(b, builds) \in Builds /\ b.next <= AddInner(b, builds).next
<1>1. PICK f : InnerLoop(f, k, b, builds) /\ AddInner(b, builds) = InnerResult(b, f[k])
  BY AddInnerLoop
<1>2. f[k] \in Accs(b)
  BY <1>1 DEF InnerLoop
<1>3. InnerResult(b, f[k]) \in Builds /\ InnerResult(b, f[k]).next = f[k].b.next
  BY <1>2, InnerResultType
<1>4. b.next <= f[k].b.next
  BY <1>2 DEF Accs
<1> QED
  BY <1>1, <1>3, <1>4

\* One way to build a node for n keys from the ways to build smaller ones.
Way(m, n, f) ==
  IF n <= m THEN [b \in Builds |-> AddLeaf(b, n)]
  ELSE [b \in Builds |-> AddInner(b, [x \in 1 .. m + 1 |-> f[Share(n, m, x)]])]

\* Building a node hands on a file, with no key given back.
LEMMA WayGrows ==
  ASSUME NEW m \in Nat \ {0}, NEW n \in Nat, NEW f \in [Nat -> Growing]
  PROVE  Way(m, n, f) \in Growing
<1>1. CASE n <= m
  <2>1. ASSUME NEW b \in Builds PROVE AddLeaf(b, n) \in Builds /\ b.next <= AddLeaf(b, n).next
    <3>1. AddLeaf(b, n) \in Builds /\ AddLeaf(b, n).next = b.next + n /\ b.next \in Nat
      BY AddLeafFacts DEF Builds
    <3> QED
      BY <3>1
  <2>2. Way(m, n, f) = [b \in Builds |-> AddLeaf(b, n)]
    BY <1>1 DEF Way
  <2> QED
    BY <2>1, <2>2 DEF Growing
<1>2. CASE ~(n <= m)
  <2> DEFINE builds == [x \in 1 .. m + 1 |-> f[Share(n, m, x)]]
             k == m + 1
  <2>1. \A x \in 1 .. m + 1 : Share(n, m, x) \in Nat
    <3> SUFFICES ASSUME NEW x \in 1 .. m + 1 PROVE Share(n, m, x) \in Nat
      OBVIOUS
    <3>1. Share(n, m, x) \in 1 .. n - 1
      BY <1>2, ShareFacts
    <3> QED
      BY <3>1
  <2>2. builds \in [1 .. k -> Growing] /\ k \in Nat
    BY <2>1
  <2>3. Way(m, n, f) = [b \in Builds |-> AddInner(b, builds)]
    BY <1>2 DEF Way
  <2> HIDE DEF builds, k
  <2>4. ASSUME NEW b \in Builds PROVE AddInner(b, builds) \in Builds /\ b.next <= AddInner(b, builds).next
    BY <2>2, AddInnerGrows
  <2> QED
    BY <2>3, <2>4 DEF Growing
<1> QED
  BY <1>1, <1>2

\* buildBtreeNode() calls itself for fewer keys: the definition has a solution.
LEMMA BuildNodeSteps ==
  ASSUME NEW m \in Nat \ {0}
  PROVE  BuildNode(m) \in [Nat -> Growing] /\ \A n \in Nat : BuildNode(m)[n] = Way(m, n, BuildNode(m))
<1> DEFINE V == Growing
           G == [n \in Nat |-> [f \in [Nat -> V] |-> Way(m, n, f)]]
           mu == [n \in Nat |-> n]
           Step(g) ==
             [n \in Nat |->
                IF n <= m THEN [b \in Builds |-> AddLeaf(b, n)]
                ELSE [b \in Builds |-> AddInner(b, [x \in 1 .. m + 1 |-> g[Share(n, m, x)]])]]
           build == CHOOSE g : g = Step(g)
<1>1. BuildNode(m) = build
  BY Zenon DEF BuildNode
<1>2. [b \in Builds |-> b] \in V
  BY DEF Growing, Builds
<1>3. \A n \in Nat, f \in [Nat -> V] : Way(m, n, f) \in V
  BY WayGrows
<1> HIDE DEF V
<1>4. G \in [Nat -> [[Nat -> V] -> V]] /\ \A n \in Nat, f \in [Nat -> V] : G[n][f] = Way(m, n, f)
  BY <1>3
<1>5. mu \in [Nat -> Nat] /\ \A n \in Nat : mu[n] = n
  OBVIOUS
<1> HIDE DEF G, mu
<1>6. ASSUME NEW n \in Nat, NEW f, NEW g, \A k \in Nat : k < n => f[k] = g[k]
      PROVE  Way(m, n, f) = Way(m, n, g)
  <2>1. CASE n <= m
    BY <2>1 DEF Way
  <2>2. CASE ~(n <= m)
    <3>1. ASSUME NEW x \in 1 .. m + 1 PROVE f[Share(n, m, x)] = g[Share(n, m, x)]
      <4>1. Share(n, m, x) \in 1 .. n - 1
        BY <2>2, ShareFacts
      <4> DEFINE k == Share(n, m, x)
      <4>2. k \in Nat /\ k < n
        BY <4>1
      <4> HIDE DEF k
      <4>3. f[k] = g[k]
        BY <1>6, <4>2
      <4> QED
        BY <4>3 DEF k
    <3>2. [x \in 1 .. m + 1 |-> f[Share(n, m, x)]] = [x \in 1 .. m + 1 |-> g[Share(n, m, x)]]
      BY <3>1, Zenon
    <3> QED
      BY <2>2, <3>2, Zenon DEF Way
  <2> QED
    BY <2>1, <2>2
<1>7. Contracts(Nat, V, mu, G)
  <2> SUFFICES ASSUME NEW n \in Nat, NEW f \in [Nat -> V], NEW g \in [Nat -> V],
                      \A k \in Nat : mu[k] < mu[n] => f[k] = g[k]
               PROVE  G[n][f] = G[n][g]
    BY Zenon DEF Contracts
  <2>1. \A k \in Nat : k < n => f[k] = g[k]
    BY <1>5
  <2>2. Way(m, n, f) = Way(m, n, g)
    BY <1>6, <2>1
  <2> QED
    BY <1>4, <2>2, Zenon
<1>8. PICK h \in [Nat -> V] : \A n \in Nat : h[n] = G[n][h]
  <2>1. Solvable(Nat, V, G)
    BY <1>2, <1>4, <1>5, <1>7, RecursionExists
  <2> QED
    BY <2>1, Zenon DEF Solvable
<1>9. h = Step(h)
  <2>1. \A n \in Nat : h[n] = Way(m, n, h)
    BY <1>4, <1>8, Zenon
  <2>2. h = [n \in Nat |-> h[n]]
    BY <1>8
  <2>3. h = [n \in Nat |-> Way(m, n, h)]
    BY <2>1, <2>2, Zenon
  <2> QED
    BY <2>3, Zenon DEF Way
<1>10. build = Step(build)
  BY <1>9, Zenon
<1> HIDE DEF build
<1>11. \A n \in Nat : build[n] = Way(m, n, build)
  BY <1>10, Zenon DEF Way
<1>12. build = [n \in Nat |-> build[n]]
  BY <1>10, Zenon
<1>13. \A n \in Nat : build[n] = h[n]
  <2> DEFINE Bad == {n \in Nat : build[n] # h[n]}
  <2> SUFFICES ASSUME Bad # {} PROVE FALSE
    BY Zenon
  <2>1. PICK n \in Bad : \A k \in Bad : n <= k
    <3>1. Bad \subseteq Nat
      OBVIOUS
    <3> HIDE DEF Bad
    <3> QED
      BY <3>1, SmallestNumber
  <2>2. n \in Nat /\ build[n] # h[n]
    OBVIOUS
  <2>3. \A k \in Nat : k < n => build[k] = h[k]
    BY <2>1
  <2> HIDE DEF Bad
  <2>4. Way(m, n, build) = Way(m, n, h)
    BY <1>6, <2>2, <2>3
  <2> QED
    BY <1>4, <1>8, <1>11, <2>2, <2>4, Zenon
<1>14. build \in [Nat -> V]
  BY <1>8, <1>12, <1>13
<1> QED
  BY <1>1, <1>11, <1>14, Zenon DEF V

\* The first x children of a node for n keys are built.
ChildrenOK(m, n, b, x, a) ==
  /\ Grown(m, a.b) /\ a.b.next = b.next + EndOf(n, m, x)
  /\ Extends(b.file, a.b.file)
  /\ Len(a.kids) = x /\ Len(a.seps) = IF x = m + 1 THEN m ELSE x
  /\ \A y \in 1 .. x :
       /\ a.kids[y] \in 1 .. Len(a.b.file)
       /\ a.b.file[a.kids[y]].first = b.next + EndOf(n, m, y - 1)
       /\ a.b.file[a.kids[y]].count = Share(n, m, y)
  /\ \A y \in 1 .. x : y <= m => a.seps[y] = b.next + EndOf(n, m, y)

\* When its children are built a node has one child and one separator more.
LEMMA ChildBuilt ==
  ASSUME NEW m \in Nat \ {0}, NEW n \in Nat, n > m, NEW x \in 1 .. m + 1, NEW b \in Builds,
         NEW a \in Accs(b), ChildrenOK(m, n, b, x - 1, a), NEW g \in Growing,
         Built(m, a.b, Share(n, m, x), g[a.b])
  PROVE  ChildrenOK(m, n, b, x, AddChild(a, g, x = m + 1))
<1> DEFINE c == g[a.b]
           r == AddChild(a, g, x = m + 1)
           kid == Len(c.file)
<1>1. (x = m + 1) \in BOOLEAN
  OBVIOUS
<1>2. /\ r \in Accs(b) /\ r.b = c /\ r.kids = Append(a.kids, kid)
      /\ r.seps = IF x = m + 1 THEN a.seps ELSE Append(a.seps, c.next)
  BY <1>1, AddChildFacts
<1>3. /\ Grown(m, c) /\ c.next = a.b.next + Share(n, m, x)
      /\ Extends(a.b.file, c.file) /\ kid > Len(a.b.file)
      /\ c.file[kid].first = a.b.next /\ c.file[kid].count = Share(n, m, x)
  BY DEF Built
<1>4. /\ a.b.next = b.next + EndOf(n, m, x - 1) /\ Extends(b.file, a.b.file)
      /\ Len(a.kids) = x - 1 /\ Len(a.seps) = x - 1
      /\ \A y \in 1 .. x - 1 :
           /\ a.kids[y] \in 1 .. Len(a.b.file)
           /\ a.b.file[a.kids[y]].first = b.next + EndOf(n, m, y - 1)
           /\ a.b.file[a.kids[y]].count = Share(n, m, y)
      /\ \A y \in 1 .. x - 1 : y <= m => a.seps[y] = b.next + EndOf(n, m, y)
  <2> DEFINE z == x - 1
  <2>1. ~(z = m + 1) /\ ChildrenOK(m, n, b, z, a)
    OBVIOUS
  <2> HIDE DEF z
  <2>2. /\ a.b.next = b.next + EndOf(n, m, z) /\ Extends(b.file, a.b.file)
        /\ Len(a.kids) = z
        /\ \A y \in 1 .. z :
             /\ a.kids[y] \in 1 .. Len(a.b.file)
             /\ a.b.file[a.kids[y]].first = b.next + EndOf(n, m, y - 1)
             /\ a.b.file[a.kids[y]].count = Share(n, m, y)
        /\ \A y \in 1 .. z : y <= m => a.seps[y] = b.next + EndOf(n, m, y)
    BY <2>1, Zenon DEF ChildrenOK
  <2>3. Len(a.seps) = z
    BY <2>1, Zenon DEF ChildrenOK
  <2> QED
    BY <2>2, <2>3, Zenon DEF z
<1>5. /\ EndOf(n, m, x) \in Nat /\ EndOf(n, m, x - 1) \in Nat
      /\ Share(n, m, x) = EndOf(n, m, x) - EndOf(n, m, x - 1)
  BY ShareFacts
<1>6. /\ a.b \in Builds /\ a.kids \in Seq(Nat) /\ a.seps \in Seq(Nat) /\ c \in Builds
      /\ b.next \in Nat /\ a.b.next \in Nat /\ c.next \in Nat
      /\ b.file \in Seq(Nodes) /\ a.b.file \in Seq(Nodes) /\ c.file \in Seq(Nodes)
  BY <1>3 DEF Accs, Builds, Grown
<1> HIDE DEF c, r
<1>7. kid \in Nat /\ Len(a.b.file) \in Nat
  BY <1>6, LenProperties
<1> HIDE DEF kid
<1>8. c.next = b.next + EndOf(n, m, x)
  BY <1>3, <1>4, <1>5, <1>6, SMTT(30)
<1>9. Extends(b.file, c.file)
  BY <1>3, <1>4, <1>6, ExtendsTransitive
<1>10. Len(r.kids) = x /\ r.kids[x] = kid /\ \A y \in 1 .. x - 1 : r.kids[y] = a.kids[y]
  <2>1. Len(r.kids) = Len(a.kids) + 1 /\ r.kids[Len(a.kids) + 1] = kid
        /\ \A y \in 1 .. Len(a.kids) : r.kids[y] = a.kids[y]
    BY <1>2, <1>6, <1>7, AppendProperties
  <2> QED
    BY <1>4, <2>1
<1>11. /\ Len(r.seps) = IF x = m + 1 THEN m ELSE x
       /\ \A y \in 1 .. x - 1 : r.seps[y] = a.seps[y]
       /\ x <= m => r.seps[x] = c.next
  <2>1. CASE x = m + 1
    BY <1>2, <1>4, <2>1
  <2>2. CASE x # m + 1
    <3>1. Len(r.seps) = Len(a.seps) + 1 /\ r.seps[Len(a.seps) + 1] = c.next
          /\ \A y \in 1 .. Len(a.seps) : r.seps[y] = a.seps[y]
      BY <1>2, <1>6, <2>2, AppendProperties, SMTT(30)
    <3> QED
      BY <1>4, <2>2, <3>1
  <2> QED
    BY <2>1, <2>2
<1>12. ASSUME NEW y \in 1 .. x
       PROVE  /\ r.kids[y] \in 1 .. Len(c.file)
              /\ c.file[r.kids[y]].first = b.next + EndOf(n, m, y - 1)
              /\ c.file[r.kids[y]].count = Share(n, m, y)
  <2>1. CASE y = x
    <3>1. kid \in 1 .. Len(c.file)
      BY <1>3, <1>7 DEF kid
    <3> QED
      BY <1>3, <1>4, <1>10, <2>1, <3>1
  <2>2. CASE y # x
    <3>1. y \in 1 .. x - 1
      BY <2>2
    <3> DEFINE z == a.kids[y]
    <3>2. /\ z \in 1 .. Len(a.b.file) /\ r.kids[y] = z
          /\ a.b.file[z].first = b.next + EndOf(n, m, y - 1)
          /\ a.b.file[z].count = Share(n, m, y)
      BY <1>4, <1>10, <3>1
    <3> HIDE DEF z
    <3>3. SameNode(a.b.file[z], c.file[z]) /\ z \in 1 .. Len(c.file)
      BY <1>3, <1>7, <3>2 DEF Extends, kid
    <3> QED
      BY <3>2, <3>3 DEF SameNode
  <2> QED
    BY <2>1, <2>2
<1>13. ASSUME NEW y \in 1 .. x, y <= m
       PROVE  r.seps[y] = b.next + EndOf(n, m, y)
  <2>1. CASE y = x
    BY <1>8, <1>11, <1>13, <2>1
  <2>2. CASE y # x
    <3>1. y \in 1 .. x - 1
      BY <2>2
    <3> QED
      BY <1>4, <1>11, <1>13, <3>1
  <2> QED
    BY <2>1, <2>2
<1>14. ChildrenOK(m, n, b, x, r)
  BY <1>2, <1>3, <1>8, <1>9, <1>10, <1>11, <1>12, <1>13 DEF ChildrenOK
<1> QED
  BY <1>14 DEF r

\* With all its children built a node is as it should be.
LEMMA NodeFinished ==
  ASSUME NEW m \in Nat \ {0}, NEW n \in Nat, n > m, NEW b \in Builds, b.next # 0,
         NEW a \in Accs(b), ChildrenOK(m, n, b, m + 1, a)
  PROVE  Built(m, b, n, InnerResult(b, a))
<1> DEFINE r == InnerResult(b, a)
           F == a.b.file
           H == r.file
           k == Len(F) + 1
           new == Inner(b.next, a.b.next - b.next, a.kids, a.seps)
<1>1. /\ r \in Builds /\ r.next = a.b.next /\ r.last = a.b.last /\ H = Append(F, new)
      /\ new \in Nodes
  BY InnerResultType
<1>2. a.b \in Builds /\ b.next \in Nat /\ a.b.next \in Nat /\ F \in Seq(Nodes) /\ b.file \in Seq(Nodes)
      /\ H \in Seq(Nodes)
  BY <1>1 DEF Accs, Builds
<1>3. Len(F) \in Nat
  BY <1>2, LenProperties
<1>4. Len(H) = k /\ H[k] = new /\ \A o \in 1 .. Len(F) : H[o] = F[o]
  <2> HIDE DEF F, H, new
  <2> QED
    BY <1>1, <1>2, AppendProperties
<1>5. /\ Grown(m, a.b) /\ a.b.next = b.next + EndOf(n, m, m + 1) /\ Extends(b.file, F)
      /\ Len(a.kids) = m + 1 /\ Len(a.seps) = m
      /\ \A y \in 1 .. m + 1 :
           /\ a.kids[y] \in 1 .. Len(F)
           /\ F[a.kids[y]].first = b.next + EndOf(n, m, y - 1)
           /\ F[a.kids[y]].count = Share(n, m, y)
      /\ \A y \in 1 .. m + 1 : y <= m => a.seps[y] = b.next + EndOf(n, m, y)
  BY Zenon DEF ChildrenOK
<1>6. a.b.next = b.next + n
  BY <1>5, EndsAtEnd
<1>7. ~new.leaf /\ new.first = b.next /\ new.count = n /\ new.kids = a.kids /\ new.seps = a.seps
  BY <1>2, <1>6 DEF Inner
<1>8. /\ \A o \in 1 .. Len(F) : NodeOK(F, m, o) /\ F[o].first + F[o].count <= a.b.next
      /\ IF a.b.last = 0 THEN Len(F) = 0
         ELSE /\ a.b.last \in 1 .. Len(F)
              /\ F[a.b.last].leaf /\ F[a.b.last].link = 0
              /\ F[a.b.last].first + F[a.b.last].count = a.b.next
      /\ \A o \in 1 .. Len(F) : F[o].leaf /\ o # a.b.last =>
           /\ F[o].link \in 1 .. Len(F) /\ F[F[o].link].leaf
           /\ F[F[o].link].first = F[o].first + F[o].count
  BY <1>5, Zenon DEF Grown
<1> HIDE DEF r, F, H, new
<1>9. Extends(F, H)
  BY <1>3, <1>4 DEF Extends, SameNode
<1>10. Extends(b.file, H)
  BY <1>2, <1>5, <1>9, ExtendsTransitive
<1>11. k \in Nat /\ Len(H) = k /\ \A o \in 1 .. k : o # k => o \in 1 .. Len(F)
  BY <1>3, <1>4
<1>12. NodeOK(H, m, k)
  <2>1. H[k].first # 0 /\ H[k].count # 0 /\ ~H[k].leaf /\ ~(H[k].count <= m)
    BY <1>4, <1>7
  <2>2. Len(H[k].kids) = m + 1 /\ Len(H[k].seps) = m
    BY <1>4, <1>5, <1>7
  <2>3. ASSUME NEW x \in 1 .. m + 1
        PROVE  /\ H[k].kids[x] \in 1 .. k - 1
               /\ H[H[k].kids[x]].first = H[k].first + EndOf(H[k].count, m, x - 1)
               /\ H[H[k].kids[x]].count = Share(H[k].count, m, x)
    <3> DEFINE z == a.kids[x]
    <3>1. z \in 1 .. Len(F) /\ F[z].first = b.next + EndOf(n, m, x - 1) /\ F[z].count = Share(n, m, x)
      BY <1>5
    <3> HIDE DEF z
    <3>2. H[z] = F[z] /\ z \in 1 .. k - 1
      BY <1>3, <1>4, <3>1
    <3>3. H[k].kids[x] = z /\ H[k].first = b.next /\ H[k].count = n
      BY <1>4, <1>7 DEF z
    <3> QED
      BY <3>1, <3>2, <3>3
  <2>4. ASSUME NEW x \in 1 .. m
        PROVE  H[k].seps[x] = H[k].first + EndOf(H[k].count, m, x)
    <3>1. x \in 1 .. m + 1 /\ x <= m
      OBVIOUS
    <3> QED
      BY <1>4, <1>5, <1>7, <3>1
  <2> QED
    BY <2>1, <2>2, <2>3, <2>4 DEF NodeOK
<1>13. ASSUME NEW o \in 1 .. k
       PROVE  NodeOK(H, m, o) /\ H[o].first + H[o].count <= r.next
  <2>1. CASE o = k
    BY <1>1, <1>2, <1>4, <1>6, <1>7, <1>12, <2>1
  <2>2. CASE o # k
    <3>1. o \in 1 .. Len(F)
      BY <1>11, <2>2
    <3>2. NodeOK(F, m, o) /\ F[o].first + F[o].count <= a.b.next
      BY <1>8, <3>1
    <3>3. NodeOK(H, m, o)
      BY <1>2, <1>9, <3>1, <3>2, NodeKept
    <3> QED
      BY <1>1, <1>4, <3>1, <3>2, <3>3
  <2> QED
    BY <2>1, <2>2
<1>14. IF r.last = 0 THEN Len(H) = 0
       ELSE /\ r.last \in 1 .. Len(H)
            /\ H[r.last].leaf /\ H[r.last].link = 0
            /\ H[r.last].first + H[r.last].count = r.next
  <2>1. r.last # 0
    <3>1. 1 \in 1 .. m + 1
      OBVIOUS
    <3>2. a.kids[1] \in 1 .. Len(F)
      BY <1>5, <3>1
    <3> QED
      BY <1>1, <1>3, <1>8, <3>2
  <2>2. r.last \in 1 .. Len(F) /\ H[r.last] = F[r.last]
    BY <1>1, <1>4, <1>8, <2>1
  <2>3. r.last \in 1 .. Len(H)
    BY <1>3, <1>4, <2>2
  <2> QED
    BY <1>1, <1>8, <2>1, <2>2, <2>3
<1>15. ASSUME NEW o \in 1 .. k, H[o].leaf, o # r.last
       PROVE  /\ H[o].link \in 1 .. Len(H) /\ H[H[o].link].leaf
              /\ H[H[o].link].first = H[o].first + H[o].count
  <2>1. o # k
    BY <1>4, <1>7, <1>15
  <2>2. o \in 1 .. Len(F) /\ H[o] = F[o]
    BY <1>4, <1>11, <2>1
  <2> DEFINE l == F[o].link
  <2>3. l \in 1 .. Len(F) /\ F[l].leaf /\ F[l].first = F[o].first + F[o].count
    BY <1>1, <1>8, <1>15, <2>2
  <2> HIDE DEF l
  <2>4. H[l] = F[l] /\ l \in 1 .. Len(H)
    BY <1>3, <1>4, <2>3
  <2> QED
    BY <2>2, <2>3, <2>4 DEF l
<1>16. r.next # 0
  BY <1>1, <1>2, <1>6
<1>17. Grown(m, r)
  BY <1>1, <1>11, <1>13, <1>14, <1>15, <1>16 DEF Grown, H
<1>18. Len(b.file) \in Nat /\ Len(b.file) <= Len(F)
  BY <1>2, <1>5, LenProperties DEF Extends
<1>19. Len(H) > Len(b.file)
  BY <1>3, <1>11, <1>18
<1>20. H[Len(H)].first = b.next /\ H[Len(H)].count = n
  BY <1>4, <1>7
<1> QED
  BY <1>1, <1>6, <1>10, <1>17, <1>19, <1>20 DEF Built, r, H

\* A node with children is built.
LEMMA InnerBuilt ==
  ASSUME NEW m \in Nat \ {0}, NEW n \in Nat, n > m, NEW b, Grown(m, b),
         NEW builds \in [1 .. m + 1 -> Growing],
         \A x \in 1 .. m + 1, a \in Builds :
           Grown(m, a) => Built(m, a, Share(n, m, x), builds[x][a])
  PROVE  Built(m, b, n, AddInner(b, builds))
<1> DEFINE k == m + 1
<1>1. b \in Builds /\ b.next # 0 /\ k \in Nat
  BY DEF Grown
<1>2. PICK f : InnerLoop(f, k, b, builds) /\ AddInner(b, builds) = InnerResult(b, f[k])
  <2> HIDE DEF k
  <2>1. builds \in [1 .. k -> Growing]
    BY DEF k
  <2> QED
    BY <1>1, <2>1, AddInnerLoop
<1>3. /\ \A x \in 0 .. k : f[x] \in Accs(b)
      /\ f[0] = [b |-> b, kids |-> <<>>, seps |-> <<>>]
      /\ \A x \in 1 .. k : f[x] = AddChild(f[x - 1], builds[x], x = k)
  BY <1>2, Zenon DEF InnerLoop
<1>4. ChildrenOK(m, n, b, 0, f[0])
  <2> DEFINE a == f[0]
  <2>1. a.b = b /\ a.kids = <<>> /\ a.seps = <<>>
    BY <1>3
  <2>2. b.next = b.next + EndOf(n, m, 0)
    BY <1>1, EndsAtEnd DEF Builds
  <2>3. Extends(b.file, b.file)
    BY <1>1, ExtendsItself DEF Builds
  <2>4. Len(<<>>) = 0 /\ 0 # m + 1 /\ \A y \in 1 .. 0 : FALSE
    OBVIOUS
  <2> HIDE DEF a
  <2> QED
    BY <2>1, <2>2, <2>3, <2>4 DEF ChildrenOK, a
<1>5. ASSUME NEW x \in 1 .. k, ChildrenOK(m, n, b, x - 1, f[x - 1])
      PROVE  ChildrenOK(m, n, b, x, f[x])
  <2> DEFINE a == f[x - 1]
             g == builds[x]
  <2>1. x - 1 \in 0 .. k /\ x \in 1 .. m + 1
    OBVIOUS
  <2>2. a \in Accs(b) /\ g \in Growing /\ f[x] = AddChild(a, g, x = m + 1)
    BY <1>3, <2>1
  <2>3. a.b \in Builds /\ Grown(m, a.b)
    BY <1>5 DEF ChildrenOK, Grown
  <2>4. Built(m, a.b, Share(n, m, x), g[a.b])
    BY <2>1, <2>3
  <2>5. ChildrenOK(m, n, b, x - 1, a)
    BY <1>5
  <2> HIDE DEF a, g
  <2>6. ChildrenOK(m, n, b, x, AddChild(a, g, x = m + 1))
    BY <1>1, <2>1, <2>2, <2>4, <2>5, ChildBuilt
  <2> QED
    BY <2>2, <2>6
<1>6. ASSUME NEW x \in 0 .. k PROVE ChildrenOK(m, n, b, x, f[x])
  <2> DEFINE Bad == {y \in 0 .. k : ~ChildrenOK(m, n, b, y, f[y])}
  <2> SUFFICES ASSUME Bad # {} PROVE FALSE
    BY Zenon
  <2>1. PICK y \in Bad : \A z \in Bad : y <= z
    <3>1. Bad \subseteq Nat
      OBVIOUS
    <3> HIDE DEF Bad
    <3> QED
      BY <3>1, SmallestNumber
  <2>2. y \in 0 .. k /\ ~ChildrenOK(m, n, b, y, f[y])
    BY Zenon
  <2>3. y # 0
    BY <1>4, <2>2
  <2>4. y \in 1 .. k /\ y - 1 \in 0 .. k /\ ~(y <= y - 1)
    BY <2>2, <2>3
  <2>5. ChildrenOK(m, n, b, y - 1, f[y - 1])
    BY <2>1, <2>4, Zenon
  <2> QED
    BY <1>5, <2>2, <2>4, <2>5, Zenon
<1>7. k \in 0 .. k
  BY <1>1
<1>8. f[k] \in Accs(b) /\ ChildrenOK(m, n, b, m + 1, f[k])
  BY <1>3, <1>6, <1>7, Zenon
<1>9. Built(m, b, n, InnerResult(b, f[k]))
  BY <1>1, <1>8, NodeFinished
<1> QED
  BY <1>2, <1>9, Zenon

\* The keys of a dictionary, in whatever number, get a node.
LEMMA NodeBuilt ==
  ASSUME NEW m \in Nat \ {0}
  PROVE  \A n \in Nat \ {0}, b \in Builds : Grown(m, b) => Built(m, b, n, BuildNode(m)[n][b])
<1> DEFINE build == BuildNode(m)
           Right(n) == \A b \in Builds : Grown(m, b) => Built(m, b, n, build[n][b])
           Bad == {n \in Nat \ {0} : ~Right(n)}
<1>1. build \in [Nat -> Growing] /\ \A n \in Nat : build[n] = Way(m, n, build)
  BY BuildNodeSteps
<1> SUFFICES ASSUME Bad # {} PROVE FALSE
  BY Zenon
<1>2. PICK n \in Bad : \A k \in Bad : n <= k
  <2>1. Bad \subseteq Nat
    OBVIOUS
  <2> HIDE DEF Bad
  <2> QED
    BY <2>1, SmallestNumber
<1>3. n \in Nat \ {0} /\ ~Right(n)
  BY Zenon
<1>4. \A k \in Nat \ {0} : k < n => Right(k)
  <2> HIDE DEF Right
  <2> QED
    BY <1>2, <1>3
<1>5. PICK b \in Builds : Grown(m, b) /\ ~Built(m, b, n, build[n][b])
  BY <1>3, Zenon
<1> HIDE DEF build, Bad
<1>6. CASE n <= m
  <2>1. n \in 1 .. m
    BY <1>3, <1>6
  <2>2. Built(m, b, n, AddLeaf(b, n))
    BY <1>5, <2>1, LeafBuilt
  <2>3. build[n] = [c \in Builds |-> AddLeaf(c, n)]
    BY <1>1, <1>3, <1>6 DEF Way
  <2>4. build[n][b] = AddLeaf(b, n)
    BY <2>3
  <2> QED
    BY <1>5, <2>2, <2>4, Zenon
<1>7. CASE ~(n <= m)
  <2> DEFINE builds == [x \in 1 .. m + 1 |-> build[Share(n, m, x)]]
  <2>1. n \in Nat /\ n > m
    BY <1>3, <1>7
  <2>2. ASSUME NEW x \in 1 .. m + 1
        PROVE  Share(n, m, x) \in Nat \ {0} /\ Share(n, m, x) < n
    <3>1. Share(n, m, x) \in 1 .. n - 1
      BY <2>1, ShareFacts
    <3> QED
      BY <2>1, <3>1
  <2>3. builds \in [1 .. m + 1 -> Growing]
    BY <1>1, <2>2
  <2>4. ASSUME NEW x \in 1 .. m + 1, NEW a \in Builds, Grown(m, a)
        PROVE  Built(m, a, Share(n, m, x), builds[x][a])
    <3>1. Right(Share(n, m, x))
      <4> HIDE DEF Right
      <4> QED
        BY <1>4, <2>2
    <3>2. builds[x] = build[Share(n, m, x)]
      OBVIOUS
    <3> QED
      BY <2>4, <3>1, <3>2, Zenon
  <2>5. build[n] = [c \in Builds |-> AddInner(c, builds)]
    BY <1>1, <1>3, <1>7 DEF Way
  <2> HIDE DEF builds
  <2>6. Built(m, b, n, AddInner(b, builds))
    BY <1>5, <2>1, <2>3, <2>4, InnerBuilt
  <2>7. build[n][b] = AddInner(b, builds)
    BY <2>5
  <2> QED
    BY <1>5, <2>6, <2>7, Zenon
<1> QED
  BY <1>6, <1>7

-----------------------------------------------------------------------------
(* The binary searches. *)

\* The number of the first of the keys that is not before t, one past the last if
\* there is none.
LowerBound(words, t, L) ==
  L \in 1 .. Len(words) + 1 /\ \A k \in 1 .. Len(words) : KeyLess(words[k], t) <=> k < L

\* Every target has a first key that is not before it.
LEMMA LowerBoundExists ==
  ASSUME NEW keys \in SUBSET Keys, NEW words, InOrder(words, keys), NEW t \in Keys
  PROVE  \E L \in Nat : LowerBound(words, t, L)
<1> DEFINE n == Len(words)
           Late == {k \in 1 .. n + 1 : k = n + 1 \/ ~KeyLess(words[k], t)}
<1>1. words \in Seq(Keys) /\ n \in Nat /\ DOMAIN words = 1 .. n
      /\ \A k \in 1 .. n : words[k] \in Keys
  BY LenProperties, ElementOfSeq DEF InOrder
<1>2. PICK L \in Late : \A k \in Late : L <= k
  <2>1. Late \subseteq Nat /\ n + 1 \in Late
    BY <1>1
  <2> HIDE DEF Late
  <2> QED
    BY <2>1, SmallestNumber
<1>3. L \in 1 .. n + 1 /\ (L = n + 1 \/ ~KeyLess(words[L], t))
  BY <1>2
<1>4. ASSUME NEW k \in 1 .. n, k < L
      PROVE  KeyLess(words[k], t)
  <2>1. k \in 1 .. n + 1 /\ ~(L <= k)
    BY <1>1, <1>3, <1>4
  <2>2. k \notin Late
    BY <1>2, <2>1, Zenon
  <2> QED
    BY <2>1, <2>2
<1>5. ASSUME NEW k \in 1 .. n, ~(k < L), KeyLess(words[k], t)
      PROVE  FALSE
  <2>1. L \in 1 .. n /\ L <= k
    BY <1>1, <1>3, <1>5
  <2>2. ~KeyLess(words[L], t) /\ L # k
    BY <1>1, <1>3, <1>5, <2>1
  <2>3. KeyLess(words[L], words[k])
    BY <1>1, <2>1, <2>2 DEF InOrder
  <2> QED
    BY <1>1, <1>5, <2>1, <2>2, <2>3, KeyLessTransitive
<1> QED
  BY <1>1, <1>3, <1>4, <1>5 DEF LowerBound

\* Where a key lies to the first that is not before t.
LEMMA LowerBoundSides ==
  ASSUME NEW keys \in SUBSET Keys, NEW words, InOrder(words, keys), NEW t \in Keys,
         NEW L \in Nat, LowerBound(words, t, L), NEW k \in 1 .. Len(words)
  PROVE  /\ words[k] \in Keys
         /\ k < L => KeyLess(words[k], t) /\ ~KeyLess(t, words[k]) /\ t # words[k]
         /\ k > L => KeyLess(t, words[k]) /\ t # words[k]
         /\ k >= L => t = words[k] \/ KeyLess(t, words[k])
         /\ t = words[k] => k = L
<1>1. Len(words) \in Nat /\ DOMAIN words = 1 .. Len(words)
      /\ \A i \in 1 .. Len(words) : words[i] \in Keys
  BY LenProperties, ElementOfSeq DEF InOrder
<1>2. words[k] \in Keys /\ (KeyLess(words[k], t) <=> k < L)
  BY <1>1 DEF LowerBound
<1>3. ASSUME k < L
      PROVE  KeyLess(words[k], t) /\ ~KeyLess(t, words[k]) /\ t # words[k]
  BY <1>2, <1>3, KeyNotLess, KeyLessTransitive
<1>4. ASSUME k >= L
      PROVE  t = words[k] \/ KeyLess(t, words[k])
  BY <1>2, <1>4, KeyLessTotal
<1>5. ASSUME k > L
      PROVE  t # words[k]
  <2>1. L \in 1 .. Len(words)
    BY <1>1, <1>5 DEF LowerBound
  <2>2. KeyLess(words[L], words[k]) /\ ~KeyLess(words[L], t)
    BY <1>1, <1>5, <2>1 DEF InOrder, LowerBound
  <2> QED
    BY <2>2
<1>6. k > L => k >= L
  OBVIOUS
<1>7. t = words[k] => k = L
  BY <1>3, <1>5, <1>1
<1> QED
  BY <1>2, <1>3, <1>4, <1>5, <1>6, <1>7

\* What a binary search in a window gives when x is looked for.
Clamped(x, w) == IF x < w[1] THEN w[1] ELSE IF x > w[2] THEN w[2] ELSE x

\* A window is a range that is not empty.
LEMMA WindowFacts ==
  ASSUME NEW a \in Nat, NEW b \in Nat, NEW w \in Windows(a, b)
  PROVE  /\ w[1] \in Nat /\ w[2] \in Nat /\ w[1] \in a .. b /\ w[2] \in a .. b /\ w[1] < w[2]
         /\ w = <<w[1], w[2]>>
  BY DEF Windows

\* A range within a window is a window.
LEMMA WindowPart ==
  ASSUME NEW a \in Nat, NEW b \in Nat, NEW w \in Windows(a, b), NEW i \in Nat, NEW j \in Nat,
         w[1] <= i, i < j, j <= w[2]
  PROVE  <<i, j>> \in Windows(a, b)
  BY WindowFacts DEF Windows

\* The half of a number is less than the number.
LEMMA HalfFacts ==
  ASSUME NEW x \in Nat \ {0}
  PROVE  x \div 2 \in 0 .. x - 1
  OBVIOUS

\* The search in a leaf finds the first key that is not before the target.
LEMMA LeafSearchRight ==
  ASSUME NEW keys \in SUBSET Keys, NEW words, InOrder(words, keys), NEW t \in Keys,
         NEW L \in Nat, LowerBound(words, t, L), NEW node,
         node.first \in Nat \ {0}, node.count \in Nat \ {0},
         node.first + node.count <= Len(words) + 1
  PROVE  LeafSearch(t, words, node) = Clamped(L, <<node.first, node.first + node.count>>)
<1> DEFINE a == node.first
           b == node.first + node.count
           W == Windows(a, b)
           Mid(w) == w[1] + (w[2] - w[1]) \div 2
           Turn(w, f) ==
             LET half == (w[2] - w[1]) \div 2
                 c == w[1] + half
             IN  CASE t = words[c] -> c
                   [] KeyLess(t, words[c]) -> IF half = 0 THEN c ELSE f[<<w[1], c>>]
                   [] OTHER -> IF c + 1 = w[2] THEN c + 1 ELSE f[<<c + 1, w[2]>>]
           Step(f) == [w \in W |-> Turn(w, f)]
           found == CHOOSE f : f = Step(f)
           h == [w \in W |-> Clamped(L, w)]
<1>1. LeafSearch(t, words, node) = found[<<a, b>>]
  BY Zenon DEF LeafSearch
<1>2. Len(words) \in Nat /\ a \in Nat /\ b \in Nat /\ a # 0 /\ a < b /\ b <= Len(words) + 1
  BY LenProperties DEF InOrder
<1> HIDE DEF a, b
<1>3. ASSUME NEW w \in W
      PROVE  /\ w[1] \in Nat /\ w[2] \in Nat /\ w[1] >= 1 /\ w[2] <= Len(words) + 1 /\ w[1] < w[2]
             /\ Mid(w) \in w[1] .. w[2] - 1 /\ Mid(w) \in 1 .. Len(words)
             /\ (w[2] - w[1]) \div 2 \in Nat
             /\ ((w[2] - w[1]) \div 2 = 0 => Mid(w) = w[1])
             /\ ((w[2] - w[1]) \div 2 # 0 => <<w[1], Mid(w)>> \in W /\ w[1] < Mid(w))
             /\ (Mid(w) + 1 # w[2] => <<Mid(w) + 1, w[2]>> \in W)
  <2>1. w[1] \in a .. b /\ w[2] \in a .. b /\ w[1] < w[2]
    BY <1>2, WindowFacts
  <2>2. w[1] \in Nat /\ w[2] \in Nat /\ w[1] >= 1 /\ w[2] <= Len(words) + 1
    BY <1>2, <2>1
  <2>3. (w[2] - w[1]) \div 2 \in Nat /\ Mid(w) \in w[1] .. w[2] - 1
        /\ ((w[2] - w[1]) \div 2 = 0 => Mid(w) = w[1])
        /\ ((w[2] - w[1]) \div 2 # 0 => w[1] < Mid(w))
    <3> DEFINE x == w[2] - w[1]
               half == x \div 2
    <3>1. x \in Nat \ {0}
      BY <2>1, <2>2
    <3>2. half \in 0 .. x - 1
      <4> HIDE DEF x
      <4> QED
        BY <3>1, HalfFacts
    <3>3. Mid(w) = w[1] + half
      OBVIOUS
    <3> HIDE DEF half, Mid
    <3>4. half \in Nat /\ Mid(w) \in w[1] .. w[2] - 1 /\ (half = 0 => Mid(w) = w[1])
          /\ (half # 0 => w[1] < Mid(w))
      BY <2>2, <3>1, <3>2, <3>3, SMTT(30)
    <3> QED
      BY <3>4 DEF half
  <2> HIDE DEF Mid
  <2>4. Mid(w) \in 1 .. Len(words) /\ Mid(w) \in Nat
    BY <1>2, <2>2, <2>3, SMTT(30)
  <2> DEFINE half == (w[2] - w[1]) \div 2
             c == Mid(w)
  <2>7. w \in Windows(a, b)
    OBVIOUS
  <2>8. /\ half \in Nat /\ c \in w[1] .. w[2] - 1 /\ c \in Nat
        /\ (half # 0 => w[1] < c)
    BY <2>3, <2>4
  <2> HIDE DEF half, c, W
  <2>5. half # 0 => <<w[1], c>> \in Windows(a, b)
    BY <1>2, <2>2, <2>7, <2>8, WindowPart
  <2>6. c + 1 # w[2] => <<c + 1, w[2]>> \in Windows(a, b)
    <3>1. ASSUME c + 1 # w[2]
          PROVE  c + 1 \in Nat /\ w[1] <= c + 1 /\ c + 1 < w[2] /\ w[2] <= w[2]
      BY <2>2, <2>8, <3>1
    <3> QED
      BY <1>2, <2>2, <2>7, <3>1, WindowPart
  <2> QED
    BY <2>1, <2>2, <2>3, <2>4, <2>5, <2>6 DEF half, c, W
<1>4. ASSUME NEW w \in W, NEW f,
             \A v \in W : v[2] - v[1] < w[2] - w[1] => f[v] = Clamped(L, v)
      PROVE  Turn(w, f) = Clamped(L, w)
  <2> DEFINE c == Mid(w)
             half == (w[2] - w[1]) \div 2
  <2>1. /\ w[1] \in Nat /\ w[2] \in Nat /\ c \in w[1] .. w[2] - 1 /\ c \in 1 .. Len(words)
        /\ half \in Nat /\ (half = 0 => c = w[1])
        /\ (half # 0 => <<w[1], c>> \in W /\ w[1] < c)
        /\ (c + 1 # w[2] => <<c + 1, w[2]>> \in W)
    BY <1>3
  <2>2. Turn(w, f) = CASE t = words[c] -> c
                       [] KeyLess(t, words[c]) -> IF half = 0 THEN c ELSE f[<<w[1], c>>]
                       [] OTHER -> IF c + 1 = w[2] THEN c + 1 ELSE f[<<c + 1, w[2]>>]
    BY Zenon
  <2> HIDE DEF c, half, Turn, W
  <2>3. /\ c < L => ~KeyLess(t, words[c]) /\ t # words[c]
        /\ c > L => KeyLess(t, words[c]) /\ t # words[c]
        /\ c >= L => t = words[c] \/ KeyLess(t, words[c])
        /\ t = words[c] => c = L
    BY <2>1, LowerBoundSides
  <2>4. CASE t = words[c]
    <3>1. Turn(w, f) = c /\ c = L
      <4>1. ~KeyLess(t, words[c])
        BY <2>4, KeyNotLess
      <4> QED
        BY <2>2, <2>3, <2>4, <4>1
    <3> QED
      BY <2>1, <3>1 DEF Clamped
  <2>5. CASE t # words[c] /\ KeyLess(t, words[c])
    <3>1. L <= c
      BY <2>1, <2>3, <2>5
    <3>2. Turn(w, f) = IF half = 0 THEN c ELSE f[<<w[1], c>>]
      BY <2>2, <2>5
    <3>3. CASE half = 0
      <4>1. Turn(w, f) = w[1]
        BY <2>1, <3>2, <3>3
      <4> QED
        BY <2>1, <3>1, <3>3, <4>1 DEF Clamped
    <3>4. CASE half # 0
      <4> DEFINE v == <<w[1], c>>
      <4>1. v \in W /\ v[1] = w[1] /\ v[2] = c
        BY <2>1, <3>4
      <4>2. v[2] - v[1] < w[2] - w[1]
        BY <2>1, <4>1
      <4>3. Turn(w, f) = Clamped(L, v)
        BY <1>4, <3>2, <3>4, <4>1, <4>2
      <4> HIDE DEF v
      <4> QED
        BY <2>1, <3>1, <4>1, <4>3 DEF Clamped
    <3> QED
      BY <3>3, <3>4
  <2>6. CASE t # words[c] /\ ~KeyLess(t, words[c])
    <3>1. c < L
      BY <2>1, <2>3, <2>6
    <3>2. Turn(w, f) = IF c + 1 = w[2] THEN c + 1 ELSE f[<<c + 1, w[2]>>]
      BY <2>2, <2>6
    <3>3. CASE c + 1 = w[2]
      <4>1. Turn(w, f) = w[2]
        BY <3>2, <3>3
      <4> QED
        BY <2>1, <3>1, <3>3, <4>1 DEF Clamped
    <3>4. CASE c + 1 # w[2]
      <4> DEFINE v == <<c + 1, w[2]>>
      <4>1. v \in W /\ v[1] = c + 1 /\ v[2] = w[2]
        BY <2>1, <3>4
      <4>2. v[2] - v[1] < w[2] - w[1]
        BY <2>1, <4>1
      <4>3. Turn(w, f) = Clamped(L, v)
        BY <1>4, <3>2, <3>4, <4>1, <4>2
      <4> HIDE DEF v
      <4> QED
        BY <2>1, <3>1, <4>1, <4>3 DEF Clamped
    <3> QED
      BY <3>3, <3>4
  <2> QED
    BY <2>4, <2>5, <2>6
<1>10. \A w \in W : w[2] - w[1] \in Nat
  <2> SUFFICES ASSUME NEW w \in W PROVE w[2] - w[1] \in Nat
    BY Zenon
  <2> DEFINE c == Mid(w)
  <2>1. w[1] \in Nat /\ w[2] \in Nat /\ w[1] < w[2]
    BY <1>3
  <2> QED
    BY <2>1
<1> HIDE DEF Turn, Mid
<1>5. h = Step(h)
  <2>1. \A w \in W : h[w] = Clamped(L, w)
    BY Zenon
  <2>2. \A w \in W : Turn(w, h) = Clamped(L, w)
    <3> HIDE DEF h, W
    <3> QED
      BY <1>4, <2>1
  <2> QED
    BY <2>2, Zenon
<1>6. found = Step(found)
  BY <1>5, Zenon
<1> HIDE DEF found, h
<1>7. \A w \in W : found[w] = Turn(w, found)
  BY <1>6, Zenon
<1>8. ASSUME NEW w \in W PROVE found[w] = Clamped(L, w)
  <2> DEFINE Size(v) == v[2] - v[1]
             Bad == {Size(v) : v \in {u \in W : found[u] # Clamped(L, u)}}
  <2> SUFFICES ASSUME Bad # {} PROVE FALSE
    <3>1. found[w] # Clamped(L, w) => w \in {u \in W : found[u] # Clamped(L, u)}
      OBVIOUS
    <3> QED
      BY <3>1, Zenon
  <2>1. PICK s \in Bad : \A k \in Bad : s <= k
    <3>1. \A v \in W : Size(v) \in Nat
      BY <1>10, Zenon
    <3>2. Bad \subseteq Nat
      BY <3>1, Zenon
    <3> HIDE DEF Bad
    <3> QED
      BY <3>2, SmallestNumber
  <2>2. PICK v \in W : Size(v) = s /\ found[v] # Clamped(L, v)
    BY Zenon
  <2>3. ASSUME NEW u \in W, Size(u) < Size(v)
        PROVE  found[u] = Clamped(L, u)
    <3> SUFFICES ASSUME found[u] # Clamped(L, u) PROVE FALSE
      OBVIOUS
    <3>1. u \in {x \in W : found[x] # Clamped(L, x)}
      OBVIOUS
    <3>2. Size(u) \in Bad
      BY <3>1, Zenon
    <3>3. s <= Size(u) /\ Size(u) \in Nat /\ Size(v) \in Nat
      <4> HIDE DEF Bad
      <4>1. Size(u) \in Nat /\ Size(v) \in Nat
        BY <1>10, Zenon
      <4> QED
        BY <2>1, <3>2, <4>1
    <3> HIDE DEF Size
    <3> QED
      BY <2>2, <2>3, <3>3
  <2>4. Turn(v, found) = Clamped(L, v)
    <3> HIDE DEF W
    <3> QED
      BY <1>4, <2>3
  <2> QED
    BY <1>7, <2>2, <2>4, Zenon
<1>9. <<a, b>> \in W
  BY <1>2 DEF Windows
<1> QED
  BY <1>1, <1>8, <1>9, Zenon DEF a, b

\* Numbers that grow from each to the next grow throughout.
LEMMA GrowThroughout ==
  ASSUME NEW N \in Nat, NEW f, \A i \in 1 .. N : f[i] \in Nat,
         \A i \in 1 .. N - 1 : f[i] < f[i + 1]
  PROVE  \A i, j \in 1 .. N : i < j => f[i] < f[j]
<1> SUFFICES ASSUME NEW i \in 1 .. N, NEW j \in 1 .. N, i < j, ~(f[i] < f[j]) PROVE FALSE
  BY Zenon
<1> DEFINE Bad == {k \in 1 .. N : i < k /\ ~(f[i] < f[k])}
<1>1. PICK k \in Bad : \A l \in Bad : k <= l
  <2>1. Bad \subseteq Nat /\ j \in Bad
    OBVIOUS
  <2> HIDE DEF Bad
  <2> QED
    BY <2>1, SmallestNumber
<1>2. k \in 1 .. N /\ i < k /\ ~(f[i] < f[k])
  BY <1>1
<1>3. k - 1 \in 1 .. N - 1 /\ k - 1 \in 1 .. N /\ (k - 1) + 1 = k /\ ~(k <= k - 1)
  BY <1>2
<1>4. f[k - 1] < f[k] /\ f[k - 1] \in Nat /\ f[k] \in Nat /\ f[i] \in Nat
  <2>1. f[k - 1] < f[(k - 1) + 1]
    BY <1>3
  <2> QED
    BY <1>2, <1>3, <2>1
<1>5. CASE k - 1 = i
  BY <1>2, <1>4, <1>5
<1>6. CASE k - 1 # i
  <2>1. i < k - 1
    BY <1>2, <1>3, <1>6
  <2>2. k - 1 \notin Bad
    BY <1>1, <1>3, Zenon
  <2>3. f[i] < f[k - 1]
    BY <1>3, <2>1, <2>2
  <2> QED
    BY <1>2, <1>4, <2>3
<1> QED
  BY <1>5, <1>6

\* The strings of a node lie one after the other.
LEMMA StartsGrow ==
  ASSUME NEW words \in Seq(Keys), NEW seps \in Seq(1 .. Len(words))
  PROVE  /\ \A i \in 1 .. Len(seps) + 1 : StartsOf(words, seps)[i] \in Nat
         /\ \A i, j \in 1 .. Len(seps) + 1 :
              i < j => StartsOf(words, seps)[i] < StartsOf(words, seps)[j]
<1> DEFINE N == Len(seps) + 1
           S == 1 .. N
           Gap(i) == Len(words[seps[i]]) + 1
           mu == [i \in S |-> i]
           G == [i \in S |-> [f \in [S -> Nat] |-> IF i = 1 THEN 0 ELSE f[i - 1] + Gap(i - 1)]]
           Step(f) == [i \in S |-> IF i = 1 THEN 0 ELSE f[i - 1] + Len(words[seps[i - 1]]) + 1]
           start == CHOOSE f : f = Step(f)
<1>1. StartsOf(words, seps) = start
  BY Zenon DEF StartsOf
<1>2. Len(seps) \in Nat /\ N \in Nat
  BY LenProperties
<1>3. \A i \in 1 .. Len(seps) : Gap(i) \in Nat \ {0} /\ Gap(i) = Len(words[seps[i]]) + 1
  <2> SUFFICES ASSUME NEW i \in 1 .. Len(seps) PROVE Len(words[seps[i]]) + 1 \in Nat \ {0}
    BY Zenon
  <2>1. seps[i] \in 1 .. Len(words)
    BY ElementOfSeq
  <2>2. words[seps[i]] \in Keys
    BY <2>1, ElementOfSeq
  <2>3. Len(words[seps[i]]) \in Nat
    BY <2>2, LenProperties DEF Keys
  <2> QED
    BY <2>3
<1> HIDE DEF Gap
<1>4. \A i \in S : i # 1 => i - 1 \in S /\ i - 1 \in 1 .. Len(seps) /\ i - 1 < i
  BY <1>2
<1>5. mu \in [S -> Nat] /\ \A i \in S : mu[i] = i
  OBVIOUS
<1>6. \A i \in S, f \in [S -> Nat] :
        /\ (IF i = 1 THEN 0 ELSE f[i - 1] + Gap(i - 1)) \in Nat
        /\ i # 1 => f[i - 1] + Gap(i - 1) = f[i - 1] + Len(words[seps[i - 1]]) + 1
  <2> SUFFICES ASSUME NEW i \in S, NEW f \in [S -> Nat], i # 1
               PROVE  f[i - 1] + Gap(i - 1) \in Nat
                      /\ f[i - 1] + Gap(i - 1) = f[i - 1] + Len(words[seps[i - 1]]) + 1
    OBVIOUS
  <2>1. f[i - 1] \in Nat /\ Gap(i - 1) \in Nat /\ Gap(i - 1) = Len(words[seps[i - 1]]) + 1
    BY <1>3, <1>4
  <2>3. seps[i - 1] \in 1 .. Len(words)
    BY <1>4, ElementOfSeq
  <2>4. words[seps[i - 1]] \in Keys
    BY <2>3, ElementOfSeq
  <2>5. Len(words[seps[i - 1]]) \in Nat
    BY <2>4, LenProperties DEF Keys
  <2> DEFINE l == Len(words[seps[i - 1]])
             gap == Gap(i - 1)
             u == f[i - 1]
  <2>6. l \in Nat /\ gap = l + 1 /\ u \in Nat
    BY <2>1, <2>5
  <2> HIDE DEF l, gap, u
  <2>7. u + gap \in Nat /\ u + gap = u + l + 1
    BY <2>6
  <2> QED
    BY <2>7 DEF l, gap, u
<1>7. G \in [S -> [[S -> Nat] -> Nat]]
      /\ \A i \in S, f \in [S -> Nat] : G[i][f] = IF i = 1 THEN 0 ELSE f[i - 1] + Gap(i - 1)
  BY <1>6
<1> HIDE DEF mu, G, S
<1>8. Contracts(S, Nat, mu, G)
  <2> SUFFICES ASSUME NEW i \in S, NEW f \in [S -> Nat], NEW g \in [S -> Nat],
                      \A j \in S : mu[j] < mu[i] => f[j] = g[j]
               PROVE  G[i][f] = G[i][g]
    BY Zenon DEF Contracts
  <2>1. i # 1 => f[i - 1] = g[i - 1]
    BY <1>4, <1>5
  <2>2. G[i][f] = (IF i = 1 THEN 0 ELSE f[i - 1] + Gap(i - 1))
        /\ G[i][g] = (IF i = 1 THEN 0 ELSE g[i - 1] + Gap(i - 1))
    BY <1>7, Zenon
  <2> QED
    BY <2>1, <2>2, Zenon
<1>9. PICK h \in [S -> Nat] : \A i \in S : h[i] = G[i][h]
  <2>1. Solvable(S, Nat, G)
    BY <1>5, <1>7, <1>8, RecursionExists
  <2> QED
    BY <2>1, Zenon DEF Solvable
<1>10. h = Step(h)
  <2>1. \A i \in S : h[i] = IF i = 1 THEN 0 ELSE h[i - 1] + Len(words[seps[i - 1]]) + 1
    <3> SUFFICES ASSUME NEW i \in S
                 PROVE  h[i] = IF i = 1 THEN 0 ELSE h[i - 1] + Len(words[seps[i - 1]]) + 1
      BY Zenon
    <3>1. h[i] = IF i = 1 THEN 0 ELSE h[i - 1] + Gap(i - 1)
      BY <1>7, <1>9, Zenon
    <3> QED
      BY <3>1, <1>6
  <2>2. h = [i \in S |-> h[i]]
    BY <1>9
  <2> QED
    BY <2>1, <2>2, Zenon
<1>11. start = Step(start)
  BY <1>10, Zenon
<1> HIDE DEF start
<1>12. \A i \in S : start[i] = IF i = 1 THEN 0 ELSE start[i - 1] + Len(words[seps[i - 1]]) + 1
  BY <1>11, Zenon
<1>13. \A i \in S : start[i] = h[i]
  <2> DEFINE Bad == {i \in S : start[i] # h[i]}
  <2> SUFFICES ASSUME Bad # {} PROVE FALSE
    BY Zenon
  <2>1. PICK i \in Bad : \A k \in Bad : i <= k
    <3>1. Bad \subseteq Nat
      BY DEF S
    <3> HIDE DEF Bad
    <3> QED
      BY <3>1, SmallestNumber
  <2>2. i \in S /\ start[i] # h[i]
    OBVIOUS
  <2>3. i # 1
    BY <1>7, <1>9, <1>12, <2>2
  <2>4. i - 1 \in S /\ ~(i <= i - 1)
    BY <1>4, <2>2, <2>3 DEF S
  <2>5. start[i - 1] = h[i - 1]
    BY <2>1, <2>4
  <2>6. h[i] = h[i - 1] + Len(words[seps[i - 1]]) + 1
    BY <1>6, <1>7, <1>9, <2>2, <2>3, SMTT(30)
  <2> QED
    BY <1>12, <2>2, <2>3, <2>5, <2>6, Zenon
<1>14. \A i \in 1 .. N : h[i] \in Nat
  BY <1>9 DEF S
<1>15. \A i \in 1 .. N - 1 : h[i] < h[i + 1]
  <2> SUFFICES ASSUME NEW i \in 1 .. N - 1 PROVE h[i] < h[i + 1]
    OBVIOUS
  <2>1. i + 1 \in S /\ i + 1 # 1 /\ (i + 1) - 1 = i /\ i \in 1 .. Len(seps) /\ i \in 1 .. N
    BY <1>2 DEF S
  <2>2. h[i + 1] = h[i] + Gap(i)
    BY <1>7, <1>9, <2>1
  <2> QED
    BY <1>3, <1>14, <2>1, <2>2
<1>16. \A i, j \in 1 .. N : i < j => h[i] < h[j]
  <2> HIDE DEF N
  <2> QED
    BY <1>2, <1>14, <1>15, GrowThroughout
<1> QED
  BY <1>1, <1>13, <1>14, <1>16 DEF S

\* The child whose keys reach from the last separator that is not after t to the
\* first that is.
ChildAt(words, seps, t, r) ==
  r \in 1 .. Len(seps) + 1 /\ \A x \in 1 .. Len(seps) : x < r <=> ~KeyLess(t, words[seps[x]])

\* Every target has a child to go to.
LEMMA ChildExists ==
  ASSUME NEW words \in Seq(Keys), NEW seps \in Seq(1 .. Len(words)), NEW t \in Keys,
         \A x, y \in 1 .. Len(seps) : x < y => KeyLess(words[seps[x]], words[seps[y]])
  PROVE  \E r \in Nat : ChildAt(words, seps, t, r)
<1> DEFINE n == Len(seps)
           After == {x \in 1 .. n + 1 : x = n + 1 \/ KeyLess(t, words[seps[x]])}
<1>1. n \in Nat /\ \A x \in 1 .. n : words[seps[x]] \in Keys
  <2>1. \A x \in 1 .. n : seps[x] \in 1 .. Len(words)
    BY ElementOfSeq
  <2>2. \A k \in 1 .. Len(words) : words[k] \in Keys
    BY ElementOfSeq
  <2> QED
    BY <2>1, <2>2, LenProperties
<1>2. PICK r \in After : \A x \in After : r <= x
  <2>1. After \subseteq Nat /\ n + 1 \in After
    BY <1>1
  <2> HIDE DEF After
  <2> QED
    BY <2>1, SmallestNumber
<1>3. r \in 1 .. n + 1 /\ (r = n + 1 \/ KeyLess(t, words[seps[r]]))
  BY <1>2
<1>4. ASSUME NEW x \in 1 .. n, x < r
      PROVE  ~KeyLess(t, words[seps[x]])
  <2>1. x \in 1 .. n + 1 /\ ~(r <= x)
    BY <1>1, <1>3, <1>4
  <2>2. x \notin After
    BY <1>2, <2>1, Zenon
  <2> QED
    BY <2>1, <2>2
<1>5. ASSUME NEW x \in 1 .. n, ~(x < r)
      PROVE  KeyLess(t, words[seps[x]])
  <2>1. r \in 1 .. n /\ r <= x
    BY <1>1, <1>3, <1>5
  <2>2. KeyLess(t, words[seps[r]])
    BY <1>1, <1>3, <2>1
  <2>3. CASE r = x
    BY <2>2, <2>3
  <2>4. CASE r # x
    <3>1. KeyLess(words[seps[r]], words[seps[x]])
      BY <2>1, <2>4
    <3> QED
      BY <1>1, <2>1, <2>2, <3>1, KeyLessTransitive
  <2> QED
    BY <2>3, <2>4
<1> QED
  BY <1>1, <1>3, <1>4, <1>5 DEF ChildAt

\* The string that the middle of a window falls in.
LEMMA StringHit ==
  ASSUME NEW N \in Nat, NEW start, \A i \in 1 .. N : start[i] \in Nat,
         \A i, j \in 1 .. N : i < j => start[i] < start[j],
         NEW u \in 1 .. N, NEW v \in 1 .. N, u < v
  PROVE  \E j \in u .. v - 1 :
           LET testPoint == start[u] + (start[v] - start[u]) \div 2
           IN  start[j] <= testPoint /\ testPoint < start[j + 1]
<1> DEFINE x == start[v] - start[u]
           p == start[u] + x \div 2
           Right == {j \in u .. v - 1 : p < start[j + 1]}
<1>1. start[u] \in Nat /\ start[v] \in Nat /\ x \in Nat \ {0}
  BY start[u] \in Nat, start[v] \in Nat, start[u] < start[v]
<1>2. p \in Nat /\ start[u] <= p /\ p < start[v]
  <2>1. x \div 2 \in 0 .. x - 1
    <3> HIDE DEF x
    <3> QED
      BY <1>1, HalfFacts
  <2> DEFINE half == x \div 2
  <2>2. half \in 0 .. x - 1 /\ p = start[u] + half
    BY <2>1
  <2> HIDE DEF half, p
  <2> QED
    BY <1>1, <2>2
<1> HIDE DEF p
<1>3. PICK j \in Right : \A k \in Right : j <= k
  <2>1. v - 1 \in u .. v - 1 /\ (v - 1) + 1 = v /\ Right \subseteq Nat
    OBVIOUS
  <2>2. v - 1 \in Right
    BY <1>2, <2>1
  <2> HIDE DEF Right
  <2> QED
    BY <2>1, <2>2, SmallestNumber
<1>4. j \in u .. v - 1 /\ p < start[j + 1]
  OBVIOUS
<1>5. start[j] <= p
  <2>1. CASE j = u
    BY <1>2, <2>1
  <2>2. CASE j # u
    <3>1. j - 1 \in u .. v - 1 /\ (j - 1) + 1 = j /\ ~(j <= j - 1) /\ j \in 1 .. N
      BY <1>4, <2>2
    <3>2. ~(p < start[j])
      BY <1>3, <3>1
    <3> QED
      BY <1>2, <3>1, <3>2
  <2> QED
    BY <2>1, <2>2
<1> QED
  BY <1>4, <1>5 DEF p, x

\* The search in the separators of a node finds the child that reaches to the target.
LEMMA ChildForRight ==
  ASSUME NEW words \in Seq(Keys), NEW seps \in Seq(1 .. Len(words)), NEW t \in Keys,
         \A x, y \in 1 .. Len(seps) : x < y => KeyLess(words[seps[x]], words[seps[y]]),
         Len(seps) # 0, NEW r \in Nat, ChildAt(words, seps, t, r)
  PROVE  ChildFor(t, words, seps) = r
<1> DEFINE start == StartsOf(words, seps)
           N == Len(seps) + 1
           W == Windows(1, N)
           Hit(w) == CHOOSE j \in w[1] .. w[2] - 1 :
                       /\ start[j] <= start[w[1]] + (start[w[2]] - start[w[1]]) \div 2
                       /\ start[w[1]] + (start[w[2]] - start[w[1]]) \div 2 < start[j + 1]
           Turn(w, f) ==
             LET testPoint == start[w[1]] + (start[w[2]] - start[w[1]]) \div 2
                 i == CHOOSE j \in w[1] .. w[2] - 1 :
                        start[j] <= testPoint /\ testPoint < start[j + 1]
             IN  CASE t = words[seps[i]] -> i + 1
                   [] KeyLess(t, words[seps[i]]) -> IF i = w[1] THEN i ELSE f[<<w[1], i>>]
                   [] OTHER -> IF i + 1 = w[2] THEN i + 1 ELSE f[<<i + 1, w[2]>>]
           Step(f) == [w \in W |-> Turn(w, f)]
           found == CHOOSE f : f = Step(f)
           h == [w \in W |-> Clamped(r, w)]
<1>1. ChildFor(t, words, seps) = found[<<1, N>>]
  BY Zenon DEF ChildFor
<1>2. N \in Nat /\ 1 < N /\ N = Len(seps) + 1 /\ Len(seps) \in Nat
  BY LenProperties
<1>3. /\ \A i \in 1 .. N : start[i] \in Nat
      /\ \A i, j \in 1 .. N : i < j => start[i] < start[j]
  BY StartsGrow
<1>4. \A w \in W : \A f :
        Turn(w, f) = CASE t = words[seps[Hit(w)]] -> Hit(w) + 1
                       [] KeyLess(t, words[seps[Hit(w)]]) ->
                            IF Hit(w) = w[1] THEN Hit(w) ELSE f[<<w[1], Hit(w)>>]
                       [] OTHER -> IF Hit(w) + 1 = w[2] THEN Hit(w) + 1 ELSE f[<<Hit(w) + 1, w[2]>>]
  BY Zenon
<1> HIDE DEF start, N
<1>5. ASSUME NEW w \in W
      PROVE  w[1] \in Nat /\ w[2] \in Nat /\ w[1] < w[2] /\ w[1] >= 1 /\ w[2] <= N
             /\ Hit(w) \in w[1] .. w[2] - 1
  <2>1. w[1] \in 1 .. N /\ w[2] \in 1 .. N /\ w[1] < w[2]
    BY <1>2, WindowFacts
  <2>2. \E j \in w[1] .. w[2] - 1 :
          LET testPoint == start[w[1]] + (start[w[2]] - start[w[1]]) \div 2
          IN  start[j] <= testPoint /\ testPoint < start[j + 1]
    <3> DEFINE u == w[1]
               v == w[2]
    <3>1. u \in 1 .. N /\ v \in 1 .. N /\ u < v
      BY <2>1
    <3> HIDE DEF u, v
    <3>2. \E j \in u .. v - 1 :
            LET testPoint == start[u] + (start[v] - start[u]) \div 2
            IN  start[j] <= testPoint /\ testPoint < start[j + 1]
      BY <1>2, <1>3, <3>1, StringHit
    <3> QED
      BY <3>2 DEF u, v
  <2>3. Hit(w) \in w[1] .. w[2] - 1
    BY <2>2, Zenon
  <2> HIDE DEF Hit
  <2> QED
    BY <1>2, <2>1, <2>3
<1> HIDE DEF Hit, Turn
<1>6. ASSUME NEW w \in W, NEW f,
             \A v \in W : v[2] - v[1] < w[2] - w[1] => f[v] = Clamped(r, v)
      PROVE  Turn(w, f) = Clamped(r, w)
  <2> DEFINE i == Hit(w)
             sep == words[seps[i]]
  <2>1. /\ w[1] \in Nat /\ w[2] \in Nat /\ w[1] < w[2] /\ w[1] >= 1 /\ w[2] <= N
        /\ i \in w[1] .. w[2] - 1
    BY <1>5
  <2>2. Turn(w, f) = CASE t = sep -> i + 1
                       [] KeyLess(t, sep) -> IF i = w[1] THEN i ELSE f[<<w[1], i>>]
                       [] OTHER -> IF i + 1 = w[2] THEN i + 1 ELSE f[<<i + 1, w[2]>>]
    BY <1>4, Zenon
  <2> HIDE DEF i
  <2>3. i \in 1 .. Len(seps) /\ i \in Nat
    BY <1>2, <2>1
  <2>4. i < r <=> ~KeyLess(t, sep)
    BY <2>3 DEF ChildAt
  <2>5. t = sep => ~KeyLess(t, sep)
    BY KeyNotLess
  <2>6. w \in Windows(1, N) /\ 1 \in Nat
    OBVIOUS
  <2> HIDE DEF sep, W
  <2>7. CASE t = sep
    <3>1. Turn(w, f) = i + 1 /\ i < r
      BY <2>2, <2>4, <2>5, <2>7
    <3>2. ASSUME r > i + 1 PROVE FALSE
      <4>1. i + 1 \in 1 .. Len(seps) /\ i < i + 1 /\ i + 1 < r
        BY <1>2, <2>3, <3>2 DEF ChildAt
      <4>2. ~KeyLess(t, words[seps[i + 1]])
        BY <4>1 DEF ChildAt
      <4>3. KeyLess(words[seps[i]], words[seps[i + 1]])
        BY <2>3, <4>1
      <4> QED
        BY <2>7, <4>2, <4>3 DEF sep
    <3>3. r = i + 1
      BY <2>3, <3>1, <3>2
    <3> QED
      BY <2>1, <3>1, <3>3 DEF Clamped
  <2>8. CASE t # sep /\ KeyLess(t, sep)
    <3>1. r <= i
      BY <2>3, <2>4, <2>8
    <3>2. Turn(w, f) = IF i = w[1] THEN i ELSE f[<<w[1], i>>]
      BY <2>2, <2>8
    <3>3. CASE i = w[1]
      BY <2>1, <3>1, <3>2, <3>3 DEF Clamped
    <3>4. CASE i # w[1]
      <4> DEFINE v == <<w[1], i>>
      <4>1. w[1] <= w[1] /\ w[1] < i /\ i <= w[2]
        BY <2>1, <3>4
      <4>2. v \in W /\ v[1] = w[1] /\ v[2] = i
        BY <1>2, <2>1, <2>3, <2>6, <4>1, WindowPart DEF W
      <4>3. v[2] - v[1] < w[2] - w[1]
        BY <2>1, <4>2
      <4>4. Turn(w, f) = Clamped(r, v)
        BY <1>6, <3>2, <3>4, <4>2, <4>3
      <4> HIDE DEF v
      <4> QED
        BY <2>1, <3>1, <4>2, <4>4 DEF Clamped
    <3> QED
      BY <3>3, <3>4
  <2>9. CASE t # sep /\ ~KeyLess(t, sep)
    <3>1. i < r
      BY <2>4, <2>9
    <3>2. Turn(w, f) = IF i + 1 = w[2] THEN i + 1 ELSE f[<<i + 1, w[2]>>]
      BY <2>2, <2>9
    <3>3. CASE i + 1 = w[2]
      <4>1. Turn(w, f) = w[2]
        BY <3>2, <3>3
      <4> QED
        BY <2>1, <3>1, <3>3, <4>1 DEF Clamped
    <3>4. CASE i + 1 # w[2]
      <4> DEFINE v == <<i + 1, w[2]>>
      <4>1. w[1] <= i + 1 /\ i + 1 < w[2] /\ w[2] <= w[2] /\ i + 1 \in Nat
        BY <2>1, <2>3, <3>4
      <4>2. v \in W /\ v[1] = i + 1 /\ v[2] = w[2]
        BY <1>2, <2>1, <2>6, <4>1, WindowPart DEF W
      <4>3. v[2] - v[1] < w[2] - w[1]
        BY <2>1, <4>2
      <4>4. Turn(w, f) = Clamped(r, v)
        BY <1>6, <3>2, <3>4, <4>2, <4>3
      <4> HIDE DEF v
      <4> QED
        BY <2>1, <3>1, <4>2, <4>4 DEF Clamped
    <3> QED
      BY <3>3, <3>4
  <2> QED
    BY <2>7, <2>8, <2>9
<1>7. \A w \in W : w[2] - w[1] \in Nat
  <2> SUFFICES ASSUME NEW w \in W PROVE w[2] - w[1] \in Nat
    BY Zenon
  <2>1. w[1] \in Nat /\ w[2] \in Nat /\ w[1] < w[2]
    BY <1>5
  <2> QED
    BY <2>1
<1>8. h = Step(h)
  <2>1. \A w \in W : h[w] = Clamped(r, w)
    BY Zenon
  <2>2. \A w \in W : Turn(w, h) = Clamped(r, w)
    <3> HIDE DEF h, W
    <3> QED
      BY <1>6, <2>1
  <2> QED
    BY <2>2, Zenon
<1>9. found = Step(found)
  BY <1>8, Zenon
<1> HIDE DEF found, h
<1>10. \A w \in W : found[w] = Turn(w, found)
  BY <1>9, Zenon
<1>11. ASSUME NEW w \in W PROVE found[w] = Clamped(r, w)
  <2> DEFINE Size(v) == v[2] - v[1]
             Bad == {Size(v) : v \in {u \in W : found[u] # Clamped(r, u)}}
  <2> SUFFICES ASSUME Bad # {} PROVE FALSE
    <3>1. found[w] # Clamped(r, w) => w \in {u \in W : found[u] # Clamped(r, u)}
      OBVIOUS
    <3> QED
      BY <3>1, Zenon
  <2>1. PICK s \in Bad : \A k \in Bad : s <= k
    <3>1. \A v \in W : Size(v) \in Nat
      BY <1>7, Zenon
    <3>2. Bad \subseteq Nat
      BY <3>1, Zenon
    <3> HIDE DEF Bad
    <3> QED
      BY <3>2, SmallestNumber
  <2>2. PICK v \in W : Size(v) = s /\ found[v] # Clamped(r, v)
    BY Zenon
  <2>3. ASSUME NEW u \in W, Size(u) < Size(v)
        PROVE  found[u] = Clamped(r, u)
    <3> SUFFICES ASSUME found[u] # Clamped(r, u) PROVE FALSE
      OBVIOUS
    <3>1. u \in {x \in W : found[x] # Clamped(r, x)}
      OBVIOUS
    <3>2. Size(u) \in Bad
      BY <3>1, Zenon
    <3>3. s <= Size(u) /\ Size(u) \in Nat /\ Size(v) \in Nat
      <4> HIDE DEF Bad
      <4>1. Size(u) \in Nat /\ Size(v) \in Nat
        BY <1>7, Zenon
      <4> QED
        BY <2>1, <3>2, <4>1
    <3> HIDE DEF Size
    <3> QED
      BY <2>2, <2>3, <3>3
  <2>4. Turn(v, found) = Clamped(r, v)
    <3> HIDE DEF W
    <3> QED
      BY <1>6, <2>3
  <2> QED
    BY <1>10, <2>2, <2>4, Zenon
<1>12. <<1, N>> \in W
  BY <1>2 DEF Windows
<1>13. Clamped(r, <<1, N>>) = r
  BY <1>2 DEF Clamped, ChildAt
<1> QED
  BY <1>1, <1>11, <1>12, <1>13, Zenon

-----------------------------------------------------------------------------
(* The index as built, and looking for a key in it. *)

\* The file of an index that holds keys: its root is over all of them, and every
\* leaf leads to the one that goes on.
FileOK(words, F, m) ==
  /\ F \in Seq(Nodes) /\ Len(F) # 0 /\ Len(words) # 0
  /\ F[Len(F)].first = 1 /\ F[Len(F)].count = Len(words)
  /\ \A o \in 1 .. Len(F) : NodeOK(F, m, o) /\ F[o].first + F[o].count <= Len(words) + 1
  /\ \A o \in 1 .. Len(F) : F[o].leaf =>
       IF F[o].first + F[o].count = Len(words) + 1 THEN F[o].link = 0
       ELSE /\ F[o].link \in 1 .. Len(F) /\ F[F[o].link].leaf
            /\ F[F[o].link].first = F[o].first + F[o].count

\* An index as it should be for some keys.
IndexOK(ix, keys) ==
  /\ InOrder(ix.words, keys \ {<<>>})
  /\ ix.file \in Seq(Nodes)
  /\ IF Len(ix.words) = 0 THEN Len(ix.file) = 1 /\ ix.file[1] = Leaf(1, 0)
     ELSE FileOK(ix.words, ix.file, TreeElements(Len(ix.words)))

\* A file grown from nothing is a file as it should be.
LEMMA GrownFile ==
  ASSUME NEW words \in Seq(Keys), NEW m \in Nat, NEW b, NEW c,
         Built(m, b, Len(words), c), b.next = 1, Len(b.file) = 0, Len(words) # 0
  PROVE  FileOK(words, c.file, m)
<1> DEFINE F == c.file
           n == Len(words)
<1>1. /\ Grown(m, c) /\ c.next = 1 + n /\ Len(F) > 0 /\ F[Len(F)].first = 1 /\ F[Len(F)].count = n
  BY DEF Built
<1>2. n \in Nat /\ F \in Seq(Nodes)
  BY <1>1, LenProperties DEF Grown, Builds
<1>3. Len(F) \in Nat /\ \A o \in 1 .. Len(F) : F[o].first \in Nat /\ F[o].count \in Nat
  <2>1. \A o \in 1 .. Len(F) : F[o] \in Nodes
    BY <1>2, ElementOfSeq
  <2> QED
    BY <1>2, <2>1, LenProperties DEF Nodes
<1>4. /\ \A o \in 1 .. Len(F) : NodeOK(F, m, o) /\ F[o].first + F[o].count <= c.next
      /\ IF c.last = 0 THEN Len(F) = 0
         ELSE /\ c.last \in 1 .. Len(F) /\ F[c.last].leaf /\ F[c.last].link = 0
              /\ F[c.last].first + F[c.last].count = c.next
      /\ \A o \in 1 .. Len(F) : F[o].leaf /\ o # c.last =>
           /\ F[o].link \in 1 .. Len(F) /\ F[F[o].link].leaf
           /\ F[F[o].link].first = F[o].first + F[o].count
  BY <1>1 DEF Grown
<1> HIDE DEF F, n
<1>5. c.next = n + 1 /\ Len(F) # 0
  BY <1>1, <1>2, <1>3
<1>6. ASSUME NEW o \in 1 .. Len(F), F[o].leaf
      PROVE  IF F[o].first + F[o].count = n + 1 THEN F[o].link = 0
             ELSE /\ F[o].link \in 1 .. Len(F) /\ F[F[o].link].leaf
                  /\ F[F[o].link].first = F[o].first + F[o].count
  <2>1. CASE o = c.last
    BY <1>4, <1>5, <2>1
  <2>2. CASE o # c.last
    <3> DEFINE l == F[o].link
    <3>1. l \in 1 .. Len(F) /\ F[l].leaf /\ F[l].first = F[o].first + F[o].count
      BY <1>4, <1>6, <2>2
    <3> HIDE DEF l
    <3>2. F[l].count # 0 /\ F[l].first + F[l].count <= n + 1
      BY <1>4, <1>5, <3>1 DEF NodeOK
    <3>3. F[o].first + F[o].count # n + 1
      BY <1>2, <1>3, <3>1, <3>2
    <3> QED
      BY <3>1, <3>3 DEF l
  <2> QED
    BY <2>1, <2>2
<1> QED
  BY <1>1, <1>2, <1>4, <1>5, <1>6 DEF FileOK, F, n

\* buildIndex() makes an index as it should be, of any finite number of keys.
LEMMA IndexBuilt ==
  ASSUME NEW keys \in SUBSET Keys, IsFiniteSet(keys)
  PROVE  IndexOK(BuildIndex(keys), keys)
<1> DEFINE words == SortedKeys(keys \ {<<>>})
           n == Len(words)
           m == TreeElements(n)
           b == [file |-> <<>>, next |-> 1, last |-> 0]
           c == BuildNode(m)[n][b]
           ix == BuildIndex(keys)
<1>1. ix = [words |-> words, file |-> c.file]
  BY Zenon DEF BuildIndex
<1>2. InOrder(words, keys \ {<<>>})
  <2>1. IsFiniteSet(keys \ {<<>>}) /\ keys \ {<<>>} \in SUBSET Keys
    BY FS_Subset
  <2> QED
    BY <2>1, SortedInOrder
<1>3. words \in Seq(Keys) /\ n \in Nat
  BY <1>2, LenProperties DEF InOrder
<1>4. m \in Nat \ {0}
  BY <1>3, TreeElementsFacts
<1>5. b \in Builds /\ b.next = 1 /\ b.last = 0 /\ b.file = <<>> /\ Len(b.file) = 0
  <2>1. <<>> \in Seq(Nodes) /\ Len(<<>>) = 0
    BY EmptySeq
  <2> QED
    BY <2>1 DEF Builds
<1> HIDE DEF words, n, m, b
<1>6. Grown(m, b)
  <2>1. \A o \in 1 .. 0 : FALSE
    OBVIOUS
  <2> QED
    BY <1>5, <2>1 DEF Grown
<1>7. CASE n = 0
  <2>1. BuildNode(m)[0] = Way(m, 0, BuildNode(m))
    BY <1>4, BuildNodeSteps
  <2>2. Way(m, 0, BuildNode(m)) = [a \in Builds |-> AddLeaf(a, 0)]
    BY <1>4 DEF Way
  <2>3. c = AddLeaf(b, 0)
    BY <1>5, <1>7, <2>1, <2>2
  <2>4. /\ AddLeaf(b, 0) \in Builds /\ Len(AddLeaf(b, 0).file) = Len(b.file) + 1
        /\ AddLeaf(b, 0).file[Len(b.file) + 1] = Leaf(b.next, 0)
    BY <1>5, AddLeafFacts
  <2>5. c.file \in Seq(Nodes) /\ Len(c.file) = 1 /\ c.file[1] = Leaf(1, 0)
    BY <1>5, <2>3, <2>4 DEF Builds
  <2> HIDE DEF c
  <2>6. Len(ix.words) = 0 /\ ix.words = words /\ ix.file = c.file
    BY <1>1, <1>7 DEF n
  <2> QED
    BY <1>2, <2>5, <2>6 DEF IndexOK
<1>8. CASE n # 0
  <2>1. Built(m, b, n, c)
    BY <1>3, <1>4, <1>5, <1>6, <1>8, NodeBuilt
  <2> HIDE DEF c
  <2>2. Len(words) = n
    BY DEF n
  <2>3. FileOK(words, c.file, m) /\ c.file \in Seq(Nodes)
    BY <1>3, <1>4, <1>5, <1>8, <2>1, <2>2, GrownFile DEF FileOK
  <2>4. ix.words = words /\ ix.file = c.file /\ Len(ix.words) = n
    BY <1>1, <2>2
  <2> QED
    BY <1>2, <1>8, <2>3, <2>4 DEF IndexOK, m
<1> QED
  BY <1>7, <1>8

\* The parts of a node's keys end one after the other.
LEMMA EndsGrow ==
  ASSUME NEW m \in Nat \ {0}, NEW n \in Nat, n > m
  PROVE  /\ \A x \in 0 .. m + 1 : EndOf(n, m, x) \in 0 .. n
         /\ \A x, y \in 0 .. m + 1 : x < y => EndOf(n, m, x) < EndOf(n, m, y)
<1> DEFINE N == m + 2
           f == [i \in 1 .. N |-> EndOf(n, m, i - 1)]
<1>1. ASSUME NEW x \in 1 .. m + 1
      PROVE  EndOf(n, m, x) \in Nat /\ EndOf(n, m, x - 1) \in Nat /\ EndOf(n, m, x - 1) < EndOf(n, m, x)
  <2>1. /\ EndOf(n, m, x) \in Nat /\ EndOf(n, m, x - 1) \in Nat
        /\ Share(n, m, x) = EndOf(n, m, x) - EndOf(n, m, x - 1) /\ Share(n, m, x) \in 1 .. n - 1
    BY ShareFacts
  <2> QED
    BY <2>1
<1>2. EndOf(n, m, 0) = 0 /\ EndOf(n, m, m + 1) = n
  BY EndsAtEnd
<1>3. \A x \in 0 .. m + 1 : EndOf(n, m, x) \in Nat
  BY <1>1, <1>2
<1>4. N \in Nat /\ \A i \in 1 .. N : i - 1 \in 0 .. m + 1 /\ f[i] = EndOf(n, m, i - 1)
  OBVIOUS
<1>5. \A i \in 1 .. N - 1 : i \in 1 .. m + 1 /\ i + 1 \in 1 .. N /\ i \in 1 .. N /\ (i + 1) - 1 = i
  OBVIOUS
<1> HIDE DEF f
<1>6. \A i \in 1 .. N : f[i] \in Nat
  BY <1>3, <1>4
<1>7. \A i \in 1 .. N - 1 : f[i] < f[i + 1]
  <2> SUFFICES ASSUME NEW i \in 1 .. N - 1 PROVE f[i] < f[i + 1]
    OBVIOUS
  <2>1. f[i] = EndOf(n, m, i - 1) /\ f[i + 1] = EndOf(n, m, i)
    BY <1>4, <1>5
  <2>2. i \in 1 .. m + 1
    BY <1>5
  <2> QED
    BY <1>1, <2>1, <2>2
<1>8. \A i, j \in 1 .. N : i < j => f[i] < f[j]
  <2> HIDE DEF N
  <2> QED
    BY <1>4, <1>6, <1>7, GrowThroughout
<1>9. ASSUME NEW x \in 0 .. m + 1, NEW y \in 0 .. m + 1, x < y
      PROVE  EndOf(n, m, x) < EndOf(n, m, y)
  <2>1. x + 1 \in 1 .. N /\ y + 1 \in 1 .. N /\ x + 1 < y + 1 /\ (x + 1) - 1 = x /\ (y + 1) - 1 = y
    BY <1>9
  <2>2. f[x + 1] < f[y + 1] /\ f[x + 1] = EndOf(n, m, x) /\ f[y + 1] = EndOf(n, m, y)
    BY <1>4, <1>8, <2>1
  <2> QED
    BY <2>2
<1>10. \A x \in 0 .. m + 1 : EndOf(n, m, x) \in 0 .. n
  <2> SUFFICES ASSUME NEW x \in 0 .. m + 1 PROVE EndOf(n, m, x) <= n /\ EndOf(n, m, x) \in Nat
    OBVIOUS
  <2>1. CASE x = m + 1
    BY <1>2, <2>1
  <2>2. CASE x # m + 1
    <3>1. x < m + 1 /\ m + 1 \in 0 .. m + 1
      BY <2>2
    <3>2. EndOf(n, m, x) < EndOf(n, m, m + 1)
      BY <1>9, <3>1
    <3> QED
      BY <1>2, <1>3, <3>2
  <2> QED
    BY <2>1, <2>2
<1> QED
  BY <1>9, <1>10

\* What is known of a node of the file.
LEMMA NodeFacts ==
  ASSUME NEW words \in Seq(Keys), NEW F, NEW m \in Nat \ {0}, FileOK(words, F, m),
         NEW o \in 1 .. Len(F)
  PROVE  /\ F[o].leaf \in BOOLEAN /\ F[o].first \in Nat \ {0} /\ F[o].count \in Nat \ {0}
         /\ F[o].link \in Nat /\ F[o].kids \in Seq(Nat) /\ F[o].seps \in Seq(Nat)
         /\ F[o].first + F[o].count <= Len(words) + 1
         /\ (F[o].leaf <=> F[o].count <= m)
<1>1. F \in Seq(Nodes) /\ NodeOK(F, m, o) /\ F[o].first + F[o].count <= Len(words) + 1
  BY DEF FileOK
<1>2. F[o] \in Nodes
  BY <1>1, ElementOfSeq
<1>3. F[o].first # 0 /\ F[o].count # 0 /\ (F[o].leaf <=> F[o].count <= m)
  BY <1>1 DEF NodeOK
<1> QED
  BY <1>1, <1>2, <1>3 DEF Nodes

\* A node with children: its separators are keys in their order, and its children
\* share its keys.
InnerOK(words, F, m, o) ==
  /\ F[o].seps \in Seq(1 .. Len(words)) /\ Len(F[o].seps) = m
  /\ \A x, y \in 1 .. m : x < y => KeyLess(words[F[o].seps[x]], words[F[o].seps[y]])
  /\ Len(F[o].kids) = m + 1
  /\ \A x \in 1 .. m + 1 :
       /\ F[o].kids[x] \in 1 .. o - 1
       /\ F[F[o].kids[x]].first = IF x = 1 THEN F[o].first ELSE F[o].seps[x - 1]
       /\ F[F[o].kids[x]].first + F[F[o].kids[x]].count =
            IF x = m + 1 THEN F[o].first + F[o].count ELSE F[o].seps[x]

\* The separators of an inner node are the first keys of its children but the first.
LEMMA InnerFacts ==
  ASSUME NEW words \in Seq(Keys), NEW F, NEW m \in Nat \ {0}, FileOK(words, F, m),
         NEW o \in 1 .. Len(F), ~F[o].leaf,
         \A i, j \in DOMAIN words : i < j => KeyLess(words[i], words[j])
  PROVE  InnerOK(words, F, m, o)
<1> DEFINE first == F[o].first
           n == F[o].count
           seps == F[o].seps
           kids == F[o].kids
<1>1. /\ first \in Nat \ {0} /\ n \in Nat \ {0} /\ n > m /\ first + n <= Len(words) + 1
      /\ seps \in Seq(Nat) /\ Len(words) \in Nat
  BY NodeFacts, LenProperties
<1>2. /\ Len(kids) = m + 1 /\ Len(seps) = m
      /\ \A x \in 1 .. m + 1 :
           /\ kids[x] \in 1 .. o - 1
           /\ F[kids[x]].first = first + EndOf(n, m, x - 1)
           /\ F[kids[x]].count = Share(n, m, x)
      /\ \A x \in 1 .. m : seps[x] = first + EndOf(n, m, x)
  <2>1. NodeOK(F, m, o)
    BY DEF FileOK
  <2> QED
    BY <2>1 DEF NodeOK
<1> HIDE DEF first, n, seps, kids
<1>3. /\ \A x \in 0 .. m + 1 : EndOf(n, m, x) \in 0 .. n
      /\ \A x, y \in 0 .. m + 1 : x < y => EndOf(n, m, x) < EndOf(n, m, y)
  BY <1>1, EndsGrow
<1>4. EndOf(n, m, 0) = 0 /\ EndOf(n, m, m + 1) = n
  BY <1>1, EndsAtEnd
<1>5. ASSUME NEW x \in 1 .. m
      PROVE  seps[x] \in 1 .. Len(words)
  <2>1. x \in 0 .. m + 1 /\ m + 1 \in 0 .. m + 1 /\ x < m + 1
    OBVIOUS
  <2>2. EndOf(n, m, x) < n /\ EndOf(n, m, x) \in Nat
    BY <1>3, <1>4, <2>1
  <2>3. seps[x] = first + EndOf(n, m, x)
    BY <1>2
  <2> QED
    BY <1>1, <2>2, <2>3, SMTT(30)
<1>6. seps \in Seq(1 .. Len(words))
  <2>1. seps \in [1 .. m -> Nat]
    BY <1>1, <1>2, LenProperties
  <2>2. seps \in [1 .. m -> 1 .. Len(words)]
    BY <1>5, <2>1
  <2> QED
    BY <2>2, SeqDef
<1>7. ASSUME NEW x \in 1 .. m, NEW y \in 1 .. m, x < y
      PROVE  KeyLess(words[seps[x]], words[seps[y]])
  <2>1. x \in 0 .. m + 1 /\ y \in 0 .. m + 1
    OBVIOUS
  <2>2. seps[x] < seps[y]
    <3>1. seps[x] = first + EndOf(n, m, x) /\ seps[y] = first + EndOf(n, m, y)
      BY <1>2
    <3>2. EndOf(n, m, x) \in Nat /\ EndOf(n, m, y) \in Nat /\ EndOf(n, m, x) < EndOf(n, m, y)
      BY <1>3, <1>7, <2>1
    <3> QED
      BY <1>1, <3>1, <3>2
  <2>3. DOMAIN words = 1 .. Len(words)
    BY LenProperties
  <2> QED
    BY <1>5, <2>2, <2>3
<1>8. ASSUME NEW x \in 1 .. m + 1
      PROVE  /\ F[kids[x]].first = IF x = 1 THEN first ELSE seps[x - 1]
             /\ F[kids[x]].first + F[kids[x]].count = IF x = m + 1 THEN first + n ELSE seps[x]
  <2>1. EndOf(n, m, x) \in Nat /\ EndOf(n, m, x - 1) \in Nat
        /\ Share(n, m, x) = EndOf(n, m, x) - EndOf(n, m, x - 1)
    BY <1>1, ShareFacts
  <2>2. F[kids[x]].first = first + EndOf(n, m, x - 1) /\ F[kids[x]].count = Share(n, m, x)
    BY <1>2
  <2>3. F[kids[x]].first + F[kids[x]].count = first + EndOf(n, m, x)
    BY <1>1, <2>1, <2>2
  <2>4. F[kids[x]].first = IF x = 1 THEN first ELSE seps[x - 1]
    <3>1. CASE x = 1
      BY <1>1, <1>4, <2>2, <3>1
    <3>2. CASE x # 1
      <4>1. x - 1 \in 1 .. m
        BY <3>2
      <4> QED
        BY <1>2, <2>2, <3>2, <4>1
    <3> QED
      BY <3>1, <3>2
  <2>5. F[kids[x]].first + F[kids[x]].count = IF x = m + 1 THEN first + n ELSE seps[x]
    <3>1. CASE x = m + 1
      BY <1>4, <2>3, <3>1
    <3>2. CASE x # m + 1
      <4>1. x \in 1 .. m
        BY <3>2
      <4> QED
        BY <1>2, <2>3, <3>2, <4>1
    <3> QED
      BY <3>1, <3>2
  <2> QED
    BY <2>4, <2>5
<1>9. \A x \in 1 .. m + 1 : kids[x] \in 1 .. o - 1
  BY <1>2
<1> QED
  BY <1>2, <1>6, <1>7, <1>8, <1>9 DEF InnerOK, first, n, seps, kids

\* The keys in the span of a node.
InSpan(node, L) == node.first <= L /\ L <= node.first + node.count

\* The way to the target goes to a child, and to one whose span has the first key that
\* is not before the target.
LEMMA TowardRight ==
  ASSUME NEW keys \in SUBSET Keys, NEW ix, InOrder(ix.words, keys),
         NEW m \in Nat \ {0}, FileOK(ix.words, ix.file, m), NEW t \in Keys,
         NEW L \in Nat, LowerBound(ix.words, t, L),
         NEW o \in 1 .. Len(ix.file), ~ix.file[o].leaf
  PROVE  /\ Toward(ix, ix.file[o], t) \in 1 .. o - 1
         /\ InSpan(ix.file[o], L) => InSpan(ix.file[Toward(ix, ix.file[o], t)], L)
<1> DEFINE words == ix.words
           F == ix.file
           seps == F[o].seps
           kids == F[o].kids
           r == IF t = <<>> THEN 1 ELSE ChildFor(t, words, seps)
           kid == kids[r]
<1>1. words \in Seq(Keys) /\ \A i, j \in DOMAIN words : i < j => KeyLess(words[i], words[j])
  BY DEF InOrder
<1>2. /\ seps \in Seq(1 .. Len(words)) /\ Len(seps) = m
      /\ \A x, y \in 1 .. m : x < y => KeyLess(words[seps[x]], words[seps[y]])
      /\ \A x \in 1 .. m + 1 :
           /\ kids[x] \in 1 .. o - 1
           /\ F[kids[x]].first = IF x = 1 THEN F[o].first ELSE seps[x - 1]
           /\ F[kids[x]].first + F[kids[x]].count =
                IF x = m + 1 THEN F[o].first + F[o].count ELSE seps[x]
  <2>1. FileOK(words, F, m) /\ o \in 1 .. Len(F) /\ ~F[o].leaf
    OBVIOUS
  <2> HIDE DEF words, F
  <2>2. InnerOK(words, F, m, o)
    BY <1>1, <2>1, InnerFacts
  <2> QED
    BY <2>2, Zenon DEF InnerOK
<1>3. F[o].first \in Nat \ {0} /\ F[o].count \in Nat \ {0} /\ Len(words) \in Nat
      /\ F[o].first + F[o].count <= Len(words) + 1
  BY <1>1, NodeFacts, LenProperties
<1>4. Toward(ix, F[o], t) = kid
  BY DEF Toward
<1>5. \A x \in 1 .. m : seps[x] \in 1 .. Len(words)
  BY <1>2, ElementOfSeq
<1>6. CASE t = <<>>
  <2>1. r = 1 /\ 1 \in 1 .. m + 1
    BY <1>6
  <2>2. kid \in 1 .. o - 1 /\ F[kid].first = F[o].first
    BY <1>2, <2>1
  <2>3. L = 1
    <3>1. 1 \in 1 .. Len(words)
      BY <1>3
    <3>2. words[1] \in Keys
      BY <1>1, <3>1, ElementOfSeq
    <3>3. ~KeyLess(words[1], t)
      BY <1>6, <3>2, EmptyKeyFirst
    <3> QED
      BY <1>3, <3>1, <3>3 DEF LowerBound
  <2>4. F[kid].first + F[kid].count >= 1
    <3>1. kid \in 1 .. Len(F)
      <4>1. Len(F) \in Nat
        BY LenProperties DEF FileOK
      <4> QED
        BY <2>2, <4>1
    <3>2. FileOK(words, F, m)
      OBVIOUS
    <3> HIDE DEF kid, words, F
    <3>3. F[kid].first \in Nat \ {0} /\ F[kid].count \in Nat \ {0}
      BY <1>1, <3>1, <3>2, NodeFacts
    <3> QED
      BY <3>3
  <2> HIDE DEF kid, r
  <2> QED
    BY <1>3, <1>4, <2>2, <2>3, <2>4 DEF InSpan
<1>7. CASE t # <<>>
  <2> HIDE DEF words, F, seps, kids
  <2>1. PICK c \in Nat : ChildAt(words, seps, t, c)
    BY <1>1, <1>2, ChildExists
  <2>2. ChildFor(t, words, seps) = c
    BY <1>1, <1>2, <2>1, ChildForRight
  <2>3. r = c /\ c \in 1 .. m + 1
    BY <1>2, <1>7, <2>1, <2>2 DEF ChildAt
  <2>4. /\ kid \in 1 .. o - 1
        /\ F[kid].first = IF c = 1 THEN F[o].first ELSE seps[c - 1]
        /\ F[kid].first + F[kid].count = IF c = m + 1 THEN F[o].first + F[o].count ELSE seps[c]
    BY <1>2, <2>3
  <2> HIDE DEF kid, r
  <2>5. \A k \in 1 .. Len(words) : (k < L => ~KeyLess(t, words[k])) /\ (k > L => KeyLess(t, words[k]))
    <3> SUFFICES ASSUME NEW k \in 1 .. Len(words)
                 PROVE  (k < L => ~KeyLess(t, words[k])) /\ (k > L => KeyLess(t, words[k]))
      OBVIOUS
    <3>1. InOrder(words, keys) /\ LowerBound(words, t, L)
      BY DEF words
    <3> QED
      BY <3>1, LowerBoundSides
  <2>6. ASSUME InSpan(F[o], L)
        PROVE  InSpan(F[kid], L)
    <3>1. F[o].first <= L /\ L <= F[o].first + F[o].count
      BY <2>6 DEF InSpan
    <3>2. F[kid].first <= L
      <4>1. CASE c = 1
        BY <2>4, <3>1, <4>1
      <4>2. CASE c # 1
        <5>1. c - 1 \in 1 .. m /\ c - 1 < c
          BY <2>3, <4>2
        <5>2. ~KeyLess(t, words[seps[c - 1]]) /\ seps[c - 1] \in 1 .. Len(words)
          BY <1>2, <1>5, <2>1, <5>1 DEF ChildAt
        <5>3. ~(seps[c - 1] > L)
          BY <2>5, <5>2
        <5> QED
          BY <2>4, <4>2, <5>2, <5>3
      <4> QED
        BY <4>1, <4>2
    <3>3. L <= F[kid].first + F[kid].count
      <4>1. CASE c = m + 1
        BY <2>4, <3>1, <4>1
      <4>2. CASE c # m + 1
        <5>1. c \in 1 .. m /\ ~(c < c)
          BY <2>3, <4>2
        <5>2. KeyLess(t, words[seps[c]]) /\ seps[c] \in 1 .. Len(words)
          BY <1>2, <1>5, <2>1, <5>1 DEF ChildAt
        <5>3. ~(seps[c] < L)
          BY <2>5, <5>2
        <5> QED
          BY <2>4, <4>2, <5>2, <5>3
      <4> QED
        BY <4>1, <4>2
    <3> QED
      BY <3>2, <3>3 DEF InSpan
  <2> QED
    BY <1>4, <2>4, <2>6 DEF F
<1> QED
  BY <1>6, <1>7

\* A place to read on from: the chain of key k, or none after the last key.
ChainAt(ix, c, k) ==
  IF k > Len(ix.words) THEN c = NoChain ELSE c \in Chains(ix) /\ c.at = k

\* From a leaf reading goes on with the chain of the next key.
LEMMA AtRight ==
  ASSUME NEW ix, ix.words \in Seq(Keys), NEW m \in Nat \ {0}, FileOK(ix.words, ix.file, m),
         NEW o \in 1 .. Len(ix.file), ix.file[o].leaf, NEW k \in Nat, InSpan(ix.file[o], k)
  PROVE  ChainAt(ix, At(ix, o, k), k)
<1> DEFINE words == ix.words
           F == ix.file
           end == F[o].first + F[o].count
           l == F[o].link
<1>1. /\ F[o].first \in Nat \ {0} /\ F[o].count \in Nat \ {0} /\ l \in Nat
      /\ end <= Len(words) + 1 /\ Len(words) \in Nat /\ DOMAIN words = 1 .. Len(words)
      /\ DOMAIN F = 1 .. Len(F)
  <2>1. FileOK(words, F, m) /\ words \in Seq(Keys) /\ o \in 1 .. Len(F)
    OBVIOUS
  <2>2. F \in Seq(Nodes)
    BY <2>1 DEF FileOK
  <2> HIDE DEF words, F
  <2> QED
    BY <2>1, <2>2, NodeFacts, LenProperties
<1>2. F[o].first <= k /\ k <= end
  BY DEF InSpan
<1>3. At(ix, o, k) = CASE k < end -> [leaf |-> o, at |-> k]
                       [] k >= end /\ l # 0 -> [leaf |-> l, at |-> F[l].first]
                       [] OTHER -> NoChain
  BY Zenon DEF At
<1>4. IF end = Len(words) + 1 THEN l = 0 ELSE l \in 1 .. Len(F) /\ F[l].leaf /\ F[l].first = end
  BY DEF FileOK
<1>8. end \in Nat
  BY <1>1, SMTT(30)
<1>5. CASE k < end
  <2> DEFINE c == [leaf |-> o, at |-> k]
  <2>1. At(ix, o, k) = c
    <3> HIDE DEF end, l, c
    <3>1. ~(k >= end)
      BY <1>5, <1>8
    <3> QED
      BY <1>3, <1>5, <3>1 DEF c
  <2>2. k \in 1 .. Len(words)
    BY <1>1, <1>2, <1>5, SMTT(30)
  <2>3. c \in Chains(ix)
    BY <1>1, <1>2, <1>5, <2>2 DEF Chains
  <2>4. c.at = k /\ ~(k > Len(words))
    BY <2>2
  <2> HIDE DEF c
  <2> QED
    BY <2>1, <2>3, <2>4 DEF ChainAt
<1>6. CASE k = end /\ end = Len(words) + 1
  <2> HIDE DEF end, l
  <2>1. At(ix, o, k) = NoChain
    BY <1>1, <1>3, <1>4, <1>6
  <2>2. k > Len(words)
    BY <1>1, <1>6
  <2> QED
    BY <2>1, <2>2 DEF ChainAt
<1>7. CASE k = end /\ end # Len(words) + 1
  <2> DEFINE c == [leaf |-> l, at |-> F[l].first]
  <2>1. l \in 1 .. Len(F) /\ F[l].leaf /\ F[l].first = k /\ l # 0
    BY <1>4, <1>7
  <2>2. At(ix, o, k) = c
    <3> HIDE DEF end, l
    <3>1. ~(k < end) /\ k >= end
      BY <1>2, <1>7
    <3> QED
      BY <1>3, <2>1, <3>1
  <2>3. F[l].count \in Nat \ {0}
    <3>1. FileOK(words, F, m) /\ words \in Seq(Keys)
      OBVIOUS
    <3> HIDE DEF words, F, l
    <3> QED
      BY <2>1, <3>1, NodeFacts
  <2>4. k \in 1 .. Len(words)
    <3> HIDE DEF end, l
    <3>1. end \in Nat
      BY <1>1, SMTT(30) DEF end
    <3> QED
      BY <1>1, <1>2, <1>7, <3>1
  <2>5. F[l].first <= k /\ k < F[l].first + F[l].count
    BY <2>1, <2>3, SMTT(30)
  <2> HIDE DEF l
  <2>6. c \in [leaf : DOMAIN ix.file, at : DOMAIN ix.words] /\ c.leaf = l /\ c.at = k
    BY <1>1, <2>1, <2>4
  <2>7. c \in Chains(ix)
    <3> HIDE DEF c
    <3> QED
      BY <2>1, <2>5, <2>6 DEF Chains
  <2>8. ~(k > Len(words))
    BY <1>1, <2>4
  <2> HIDE DEF c
  <2> QED
    BY <2>2, <2>6, <2>7, <2>8 DEF ChainAt
<1> HIDE DEF end
<1> QED
  BY <1>2, <1>5, <1>6, <1>7, <1>8

\* The way from the root down ends, as every child was written before its node.
LEMMA FindChainSteps ==
  ASSUME NEW ix, NEW t, ix.file \in Seq(Nodes), Len(ix.file) # 0,
         \A o \in 1 .. Len(ix.file) :
           ~ix.file[o].leaf => Toward(ix, ix.file[o], t) \in 1 .. o - 1
  PROVE  \E f : /\ FindChain(ix, t) = f[Len(ix.file)]
                /\ \A o \in 1 .. Len(ix.file) :
                     f[o] = IF ix.file[o].leaf THEN InLeaf(ix, o, t)
                            ELSE f[Toward(ix, ix.file[o], t)]
<1> DEFINE F == ix.file
           S == 1 .. Len(F)
           next(o) == Toward(ix, F[o], t)
           V == {InLeaf(ix, o, t) : o \in S}
           mu == [o \in S |-> o]
           G == [o \in S |-> [f \in [S -> V] |->
                   IF F[o].leaf THEN InLeaf(ix, o, t) ELSE f[next(o)]]]
           Step(f) == [offset \in DOMAIN ix.file |->
                         IF ix.file[offset].leaf THEN InLeaf(ix, offset, t)
                         ELSE f[Toward(ix, ix.file[offset], t)]]
           reach == CHOOSE f : f = Step(f)
<1>1. FindChain(ix, t) = reach[Len(F)]
  BY Zenon DEF FindChain, RootOf
<1>2. Len(F) \in Nat /\ DOMAIN ix.file = S /\ Len(F) \in S
  BY LenProperties
<1>3. \A o \in S : ~F[o].leaf => next(o) \in S /\ next(o) < o
  <2> SUFFICES ASSUME NEW o \in S, ~F[o].leaf PROVE next(o) \in S /\ next(o) < o
    BY Zenon
  <2>1. next(o) \in 1 .. o - 1
    OBVIOUS
  <2> HIDE DEF next, F
  <2> QED
    BY <1>2, <2>1
<1> HIDE DEF next
<1>4. \A o \in S, f \in [S -> V] : (IF F[o].leaf THEN InLeaf(ix, o, t) ELSE f[next(o)]) \in V
  <2> SUFFICES ASSUME NEW o \in S, NEW f \in [S -> V]
               PROVE  (IF F[o].leaf THEN InLeaf(ix, o, t) ELSE f[next(o)]) \in V
    BY Zenon
  <2>1. InLeaf(ix, o, t) \in V
    BY Zenon
  <2>2. ~F[o].leaf => f[next(o)] \in V
    <3> HIDE DEF V, S
    <3> QED
      BY <1>3
  <2> HIDE DEF V
  <2> QED
    BY <2>1, <2>2
<1>5. InLeaf(ix, Len(F), t) \in V
  BY <1>2, Zenon
<1>6. mu \in [S -> Nat] /\ \A o \in S : mu[o] = o
  OBVIOUS
<1> HIDE DEF V
<1>7. G \in [S -> [[S -> V] -> V]]
      /\ \A o \in S, f \in [S -> V] :
           G[o][f] = IF F[o].leaf THEN InLeaf(ix, o, t) ELSE f[next(o)]
  BY <1>4
<1> HIDE DEF mu, G, S
<1>8. Contracts(S, V, mu, G)
  <2> SUFFICES ASSUME NEW o \in S, NEW f \in [S -> V], NEW g \in [S -> V],
                      \A j \in S : mu[j] < mu[o] => f[j] = g[j]
               PROVE  G[o][f] = G[o][g]
    BY Zenon DEF Contracts
  <2>1. ~F[o].leaf => f[next(o)] = g[next(o)]
    BY <1>3, <1>6
  <2>2. G[o][f] = (IF F[o].leaf THEN InLeaf(ix, o, t) ELSE f[next(o)])
        /\ G[o][g] = (IF F[o].leaf THEN InLeaf(ix, o, t) ELSE g[next(o)])
    BY <1>7, Zenon
  <2>3. CASE F[o].leaf
    BY <2>2, <2>3, Zenon
  <2>4. CASE ~F[o].leaf
    BY <2>1, <2>2, <2>4, Zenon
  <2> QED
    BY <2>3, <2>4
<1>9. PICK h \in [S -> V] : \A o \in S : h[o] = G[o][h]
  <2>1. Solvable(S, V, G)
    BY <1>5, <1>6, <1>7, <1>8, RecursionExists
  <2> QED
    BY <2>1, Zenon DEF Solvable
<1>10. h = Step(h)
  <2>1. \A o \in S : h[o] = IF F[o].leaf THEN InLeaf(ix, o, t) ELSE h[next(o)]
    BY <1>7, <1>9, Zenon
  <2>2. h = [o \in S |-> h[o]]
    BY <1>9
  <2> QED
    BY <1>2, <2>1, <2>2, Zenon DEF next, F
<1>11. reach = Step(reach)
  BY <1>10, Zenon
<1> HIDE DEF reach
<1>12. \A o \in S : reach[o] = IF F[o].leaf THEN InLeaf(ix, o, t) ELSE reach[next(o)]
  BY <1>2, <1>11, Zenon DEF next, F
<1> QED
  BY <1>1, <1>12, Zenon DEF S, next, F

\* In the leaf where the way ends the target's first key is found, or the one to read on
\* from after the leaf.
LEMMA InLeafRight ==
  ASSUME NEW keys \in SUBSET Keys, NEW ix, InOrder(ix.words, keys),
         NEW m \in Nat \ {0}, FileOK(ix.words, ix.file, m), NEW t \in Keys,
         NEW L \in Nat, LowerBound(ix.words, t, L),
         NEW o \in 1 .. Len(ix.file), ix.file[o].leaf, InSpan(ix.file[o], L)
  PROVE  ChainAt(ix, InLeaf(ix, o, t), L)
<1> DEFINE words == ix.words
           F == ix.file
           a == F[o].first
           e == F[o].first + F[o].count
<1>1. words \in Seq(Keys)
  BY DEF InOrder
<1>2. /\ a \in Nat \ {0} /\ F[o].count \in Nat \ {0} /\ e <= Len(words) + 1
      /\ Len(words) \in Nat /\ DOMAIN words = 1 .. Len(words)
      /\ DOMAIN F = 1 .. Len(F)
  <2>1. FileOK(words, F, m) /\ o \in 1 .. Len(F)
    OBVIOUS
  <2>2. F \in Seq(Nodes)
    BY <2>1 DEF FileOK
  <2> HIDE DEF words, F
  <2> QED
    BY <1>1, <2>1, <2>2, NodeFacts, LenProperties
<1>3. a <= L /\ L <= e
  BY DEF InSpan
<1>4. CASE t = <<>>
  <2>1. L = 1
    <3>1. 1 \in 1 .. Len(words)
      BY <1>2, SMTT(30)
    <3>2. words[1] \in Keys
      BY <1>1, <3>1, ElementOfSeq
    <3>3. ~KeyLess(words[1], t)
      BY <1>4, <3>2, EmptyKeyFirst
    <3> QED
      BY <1>2, <3>1, <3>3 DEF LowerBound
  <2>2. InLeaf(ix, o, t) = [leaf |-> o, at |-> a]
    <3>1. F[o].count # 0 /\ F[o].count > 0
      BY <1>2
    <3> QED
      BY <1>4, <3>1, Zenon DEF InLeaf
  <2>3. [leaf |-> o, at |-> a] \in Chains(ix)
    <3>1. a \in DOMAIN words /\ o \in DOMAIN F /\ a < e
      BY <1>2, <1>3, <2>1
    <3> DEFINE c == [leaf |-> o, at |-> a]
    <3>2. c \in [leaf : DOMAIN F, at : DOMAIN words] /\ c.leaf = o /\ c.at = a
      BY <3>1
    <3>3. F[c.leaf].leaf /\ F[c.leaf].first <= c.at /\ c.at < F[c.leaf].first + F[c.leaf].count
      <4>1. a <= a
        BY <1>2
      <4> QED
        BY <3>1, <3>2, <4>1, Zenon
    <3> HIDE DEF c
    <3> QED
      BY <3>2, <3>3, Zenon DEF Chains, c
  <2>4. a = L /\ ~(L > Len(words))
    BY <1>2, <1>3, <2>1
  <2> QED
    BY <2>2, <2>3, <2>4 DEF ChainAt
<1>5. CASE t # <<>>
  <2>1. InLeaf(ix, o, t) = At(ix, o, LeafSearch(t, words, F[o]))
    <3>1. F[o].count # 0 /\ F[o].count > 0
      BY <1>2
    <3> QED
      BY <1>5, <3>1, Zenon DEF InLeaf
  <2>2. LeafSearch(t, words, F[o]) = Clamped(L, <<a, e>>)
    <3>1. InOrder(words, keys) /\ LowerBound(words, t, L)
      OBVIOUS
    <3> DEFINE node == F[o]
    <3>2. /\ node.first \in Nat \ {0} /\ node.count \in Nat \ {0}
          /\ node.first + node.count <= Len(words) + 1
      BY <1>2
    <3> HIDE DEF words, node
    <3>3. LeafSearch(t, words, node) = Clamped(L, <<node.first, node.first + node.count>>)
      BY <3>1, <3>2, LeafSearchRight
    <3> QED
      BY <3>3, Zenon DEF node
  <2>3. Clamped(L, <<a, e>>) = L
    <3>1. a \in Nat /\ e \in Nat
      BY <1>2, SMTT(30)
    <3> HIDE DEF a, e
    <3>2. <<a, e>>[1] = a /\ <<a, e>>[2] = e /\ ~(L < a) /\ ~(L > e)
      BY <1>3, <3>1
    <3> QED
      BY <3>2, Zenon DEF Clamped
  <2> QED
    BY <1>1, <2>1, <2>2, <2>3, AtRight
<1> QED
  BY <1>4, <1>5

\* The search for a chain ends at the first key that is not before the target.
LEMMA FindChainRight ==
  ASSUME NEW keys \in SUBSET Keys, NEW ix, IndexOK(ix, keys), NEW t \in Keys,
         NEW L \in Nat, LowerBound(ix.words, t, L)
  PROVE  ChainAt(ix, FindChain(ix, t), L)
<1> DEFINE words == ix.words
           F == ix.file
           n == Len(words)
           m == TreeElements(n)
<1>1. /\ InOrder(words, keys \ {<<>>}) /\ words \in Seq(Keys) /\ n \in Nat
      /\ F \in Seq(Nodes) /\ keys \ {<<>>} \in SUBSET Keys
  BY LenProperties DEF IndexOK, InOrder
<1>2. CASE n = 0
  <2>1. Len(F) = 1 /\ F[1] = Leaf(1, 0)
    BY <1>2 DEF IndexOK
  <2>2. F[1].leaf /\ F[1].count = 0
    BY <2>1 DEF Leaf
  <2>3. \A o \in 1 .. Len(F) : F[o].leaf
    BY <2>1, <2>2
  <2>4. FindChain(ix, t) = InLeaf(ix, 1, t)
    <3>1. PICK f : FindChain(ix, t) = f[Len(F)]
            /\ \A o \in 1 .. Len(F) :
                 f[o] = IF F[o].leaf THEN InLeaf(ix, o, t) ELSE f[Toward(ix, F[o], t)]
      BY <1>1, <2>1, <2>3, FindChainSteps, SMTT(30)
    <3>2. 1 \in 1 .. Len(F)
      BY <2>1
    <3> QED
      BY <2>1, <2>2, <3>1, <3>2, Zenon
  <2>5. InLeaf(ix, 1, t) = NoChain
    BY <2>2 DEF InLeaf
  <2>6. L > n
    BY <1>2 DEF LowerBound
  <2> QED
    BY <2>4, <2>5, <2>6 DEF ChainAt
<1>3. CASE n # 0
  <2>1. FileOK(words, F, m)
    BY <1>3 DEF IndexOK
  <2>2. m \in Nat \ {0}
    BY <1>1, TreeElementsFacts
  <2>3. LowerBound(words, t, L)
    OBVIOUS
  <2> HIDE DEF m
  <2>4. Len(F) \in Nat \ {0} /\ F[Len(F)].first = 1 /\ F[Len(F)].count = n
    BY <1>1, <2>1, LenProperties DEF FileOK
  <2>5. \A o \in 1 .. Len(F) : ~F[o].leaf =>
          /\ Toward(ix, F[o], t) \in 1 .. o - 1
          /\ InSpan(F[o], L) => InSpan(F[Toward(ix, F[o], t)], L)
    BY <1>1, <2>1, <2>2, <2>3, TowardRight
  <2>6. PICK f : FindChain(ix, t) = f[Len(F)]
          /\ \A o \in 1 .. Len(F) :
               f[o] = IF F[o].leaf THEN InLeaf(ix, o, t) ELSE f[Toward(ix, F[o], t)]
    BY <1>1, <2>4, <2>5, FindChainSteps, SMTT(30)
  <2> DEFINE Bad == {o \in 1 .. Len(F) : InSpan(F[o], L) /\ ~ChainAt(ix, f[o], L)}
  <2>7. Bad = {}
    <3> SUFFICES ASSUME Bad # {} PROVE FALSE
      OBVIOUS
    <3>1. PICK o \in Bad : \A y \in Bad : o <= y
      <4>1. Bad \subseteq Nat
        OBVIOUS
      <4> HIDE DEF Bad
      <4> QED
        BY <4>1, SmallestNumber
    <3>2. o \in 1 .. Len(F) /\ InSpan(F[o], L) /\ ~ChainAt(ix, f[o], L)
      BY <3>1
    <3>3. CASE F[o].leaf
      <4>1. f[o] = InLeaf(ix, o, t)
        BY <2>6, <3>2, <3>3, Zenon
      <4>2. ChainAt(ix, InLeaf(ix, o, t), L)
        BY <1>1, <2>1, <2>2, <2>3, <3>2, <3>3, InLeafRight
      <4> QED
        BY <3>2, <4>1, <4>2
    <3>4. CASE ~F[o].leaf
      <4> DEFINE o2 == Toward(ix, F[o], t)
      <4>1. f[o] = f[o2]
        BY <2>6, <3>2, <3>4, Zenon
      <4>2. o2 \in 1 .. o - 1 /\ InSpan(F[o2], L)
        BY <2>5, <3>2, <3>4
      <4> HIDE DEF o2
      <4>3. o2 \in Bad /\ ~(o <= o2)
        BY <2>4, <3>2, <4>1, <4>2
      <4> QED
        BY <3>1, <4>3
    <3> QED
      BY <3>3, <3>4
  <2>8. InSpan(F[Len(F)], L)
    BY <1>1, <2>4, <2>3 DEF InSpan, LowerBound
  <2> QED
    BY <2>4, <2>6, <2>7, <2>8
<1> QED
  BY <1>2, <1>3

-----------------------------------------------------------------------------
(* Listing the keys. *)

\* After a chain comes the chain of the next key.
LEMMA ChainFacts ==
  ASSUME NEW keys \in SUBSET Keys, NEW ix, IndexOK(ix, keys), NEW c \in Chains(ix)
  PROVE  /\ c.at \in 1 .. Len(ix.words) /\ Len(ix.words) \in Nat /\ c # NoChain
         /\ ChainAt(ix, At(ix, c.leaf, c.at + 1), c.at + 1)
<1> DEFINE words == ix.words
           F == ix.file
           n == Len(words)
           m == TreeElements(n)
           o == c.leaf
<1>1. /\ words \in Seq(Keys) /\ n \in Nat /\ DOMAIN words = 1 .. n
      /\ F \in Seq(Nodes) /\ DOMAIN F = 1 .. Len(F)
  BY LenProperties DEF IndexOK, InOrder
<1>2. /\ c \in [leaf : DOMAIN F, at : DOMAIN words]
      /\ F[o].leaf /\ F[o].first <= c.at /\ c.at < F[o].first + F[o].count
  BY Zenon DEF Chains
<1>3. c.at \in 1 .. n /\ o \in 1 .. Len(F)
  BY <1>1, <1>2
<1>4. n # 0
  BY <1>1, <1>3
<1>5. c # NoChain
  BY <1>1, <1>3 DEF NoChain
<1>6. FileOK(words, F, m) /\ m \in Nat \ {0}
  BY <1>1, <1>4, TreeElementsFacts DEF IndexOK
<1> HIDE DEF m
<1>7. F[o].first \in Nat \ {0} /\ F[o].count \in Nat \ {0}
  BY <1>1, <1>3, <1>6, NodeFacts
<1>8. InSpan(F[o], c.at + 1) /\ c.at + 1 \in Nat
  BY <1>1, <1>2, <1>3, <1>7 DEF InSpan
<1>9. ChainAt(ix, At(ix, o, c.at + 1), c.at + 1)
  BY <1>1, <1>2, <1>3, <1>6, <1>8, AtRight
<1> QED
  BY <1>1, <1>3, <1>5, <1>9

\* What is listed from a chain on: all keys from the chain's on.
LEMMA KeysFromRight ==
  ASSUME NEW keys \in SUBSET Keys, NEW ix, IndexOK(ix, keys), NEW c \in Chains(ix)
  PROVE  KeysFrom(ix, c) = SubSeq(ix.words, c.at, Len(ix.words))
<1> DEFINE C == Chains(ix)
           words == ix.words
           n == Len(words)
           succ(e) == At(ix, e.leaf, e.at + 1)
           All(e) == SubSeq(words, e.at, n)
           h == [e \in C |-> All(e)]
           Step(f) == [e \in Chains(ix) |->
                         LET next == At(ix, e.leaf, e.at + 1)
                         IN  <<ix.words[e.at]>> \o (IF next = NoChain THEN <<>> ELSE f[next])]
           list == CHOOSE f : f = Step(f)
<1>1. \A e \in C : /\ e.at \in 1 .. n /\ n \in Nat /\ e # NoChain
                   /\ ChainAt(ix, succ(e), e.at + 1)
  BY ChainFacts
<1>2. KeysFrom(ix, c) = list[c]
  BY <1>1, Zenon DEF KeysFrom
<1> HIDE DEF list, C, n
<1>3. \A e \in C : IF e.at = n THEN succ(e) = NoChain
                   ELSE succ(e) # NoChain /\ succ(e) \in C /\ succ(e).at = e.at + 1
  <2> SUFFICES ASSUME NEW e \in C
               PROVE  IF e.at = n THEN succ(e) = NoChain
                      ELSE succ(e) # NoChain /\ succ(e) \in C /\ succ(e).at = e.at + 1
    BY Zenon
  <2> DEFINE s == succ(e)
  <2>1. e.at \in 1 .. n /\ n \in Nat /\ ChainAt(ix, s, e.at + 1)
    BY <1>1
  <2>2. e.at + 1 > Len(ix.words) <=> e.at = n
    BY <2>1 DEF n
  <2> HIDE DEF s
  <2>3. IF e.at = n THEN s = NoChain ELSE s \in C /\ s.at = e.at + 1
    BY <2>1, <2>2, Zenon DEF ChainAt, C
  <2>4. s \in C => s # NoChain
    BY <1>1
  <2> QED
    BY <2>3, <2>4, Zenon DEF s
<1> HIDE DEF succ
<1>4. \A e \in C : All(e) = <<words[e.at]>> \o (IF succ(e) = NoChain THEN <<>> ELSE All(succ(e)))
  <2> SUFFICES ASSUME NEW e \in C
               PROVE  All(e) = <<words[e.at]>> \o (IF succ(e) = NoChain THEN <<>> ELSE All(succ(e)))
    BY Zenon
  <2>1. e.at \in 1 .. n /\ n \in Nat
    BY <1>1
  <2>2. words \in Seq(Keys)
    BY DEF IndexOK, InOrder
  <2>3. All(e) = <<words[e.at]>> \o SubSeq(words, e.at + 1, n)
    <3>1. e.at \in 1 .. Len(words) /\ Len(words) \in e.at .. Len(words)
      BY <2>1 DEF n
    <3> HIDE DEF words
    <3> QED
      BY <2>2, <3>1, SubSeqRecursiveFirst DEF n
  <2>4. CASE e.at = n
    <3>1. SubSeq(words, e.at + 1, n) = <<>>
      <4>1. e.at + 1 \in Int /\ n \in Int /\ n < e.at + 1
        BY <2>1, <2>4
      <4> HIDE DEF words
      <4> QED
        BY <4>1, SubSeqEmpty
    <3>2. succ(e) = NoChain
      BY <1>3, <2>4, Zenon
    <3> HIDE DEF All
    <3> QED
      BY <2>3, <3>1, <3>2, Zenon
  <2>5. CASE e.at # n
    <3>1. succ(e) # NoChain /\ succ(e).at = e.at + 1
      BY <1>3, <2>5, Zenon
    <3>2. All(succ(e)) = SubSeq(words, e.at + 1, n)
      BY <3>1
    <3> HIDE DEF All
    <3> QED
      BY <2>3, <3>1, <3>2, Zenon
  <2> QED
    BY <2>4, <2>5
<1> HIDE DEF All
<1>5. h = Step(h)
  <2>1. \A e \in C : succ(e) # NoChain => h[succ(e)] = All(succ(e))
    BY <1>3, Zenon
  <2>2. \A e \in C : All(e) = <<ix.words[e.at]>> \o (IF succ(e) = NoChain THEN <<>> ELSE h[succ(e)])
    <3> SUFFICES ASSUME NEW e \in C
                 PROVE  All(e) = <<words[e.at]>> \o (IF succ(e) = NoChain THEN <<>> ELSE h[succ(e)])
      BY Zenon
    <3> HIDE DEF h
    <3>1. CASE succ(e) = NoChain
      BY <1>4, <3>1, Zenon
    <3>2. CASE succ(e) # NoChain
      BY <1>4, <2>1, <3>2, Zenon
    <3> QED
      BY <3>1, <3>2, Zenon
  <2> QED
    BY <2>2, Zenon DEF succ, C
<1>6. list = Step(list)
  <2> HIDE DEF h
  <2> QED
    BY <1>5, Zenon DEF list
<1>7. \A e \in C : list[e] = <<words[e.at]>> \o (IF succ(e) = NoChain THEN <<>> ELSE list[succ(e)])
  BY <1>6, Zenon DEF succ, C
<1> DEFINE Bad == {e \in C : list[e] # All(e)}
<1>8. Bad = {}
  <2> SUFFICES ASSUME Bad # {} PROVE FALSE
    OBVIOUS
  <2> DEFINE D == {n - e.at : e \in Bad}
  <2>1. PICK d \in D : \A y \in D : d <= y
    <3>1. D \subseteq Nat /\ D # {}
      BY <1>1
    <3> HIDE DEF D
    <3> QED
      BY <3>1, SmallestNumber
  <2>2. PICK e \in Bad : d = n - e.at
    BY <2>1
  <2>3. e \in C /\ list[e] # All(e)
    BY <2>2
  <2>4. succ(e) # NoChain /\ list[succ(e)] # All(succ(e))
    <3> HIDE DEF Bad
    <3>1. CASE succ(e) = NoChain
      BY <1>4, <1>7, <2>3, <3>1, Zenon
    <3>2. CASE succ(e) # NoChain /\ list[succ(e)] = All(succ(e))
      BY <1>4, <1>7, <2>3, <3>2, Zenon
    <3> QED
      BY <3>1, <3>2
  <2>5. succ(e) \in C /\ succ(e).at = e.at + 1 /\ e.at \in Nat /\ n \in Nat
    BY <1>1, <1>3, <2>3, <2>4
  <2>6. n - succ(e).at \in D
    BY <2>4, <2>5
  <2>7. ~(n - e.at <= n - succ(e).at)
    BY <2>5
  <2> QED
    BY <2>1, <2>2, <2>6, <2>7
<1> QED
  BY <1>2, <1>8, Zenon DEF All, C, n

\* The walk along the links from the first chain on meets the keys in their order.
LEMMA WalkComplete ==
  ASSUME NEW keys \in SUBSET Keys, NEW ix, IndexOK(ix, keys)
  PROVE  KeysFrom(ix, FindChain(ix, <<>>)) = ix.words
<1> DEFINE words == ix.words
           n == Len(words)
           c == FindChain(ix, <<>>)
<1>1. /\ words \in Seq(Keys) /\ n \in Nat /\ DOMAIN words = 1 .. n
      /\ Range(words) = keys \ {<<>>}
  BY LenProperties DEF IndexOK, InOrder
<1>2. <<>> \in Keys
  BY EmptySeq DEF Keys
<1>3. LowerBound(words, <<>>, 1)
  <2>1. \A k \in 1 .. n : words[k] \in Keys
    BY <1>1, ElementOfSeq
  <2>2. \A k \in 1 .. n : ~KeyLess(words[k], <<>>) /\ ~(k < 1)
    BY <2>1, EmptyKeyFirst
  <2> QED
    BY <1>1, <2>2 DEF LowerBound
<1>4. ChainAt(ix, c, 1)
  BY <1>2, <1>3, FindChainRight
<1> HIDE DEF c
<1>5. CASE n = 0
  <2>1. c = NoChain
    BY <1>4, <1>5 DEF ChainAt
  <2>2. KeysFrom(ix, c) = <<>>
    BY <2>1, Zenon DEF KeysFrom
  <2>3. words = <<>>
    BY <1>1, <1>5, EmptySeq
  <2> QED
    BY <2>2, <2>3 DEF c
<1>6. CASE n # 0
  <2>1. c \in Chains(ix) /\ c.at = 1
    BY <1>1, <1>4, <1>6 DEF ChainAt
  <2>2. KeysFrom(ix, c) = SubSeq(words, 1, n)
    BY <2>1, KeysFromRight
  <2>3. SubSeq(words, 1, n) = words
    BY <1>1, SubSeqFull
  <2> QED
    BY <2>2, <2>3 DEF c
<1> QED
  BY <1>5, <1>6

\* The ends of the parts of a node's keys leave none of the keys out.
LEMMA PartExists ==
  ASSUME NEW m \in Nat \ {0}, NEW n \in Nat, n > m, NEW k \in 1 .. n
  PROVE  \E x \in 1 .. m + 1 : EndOf(n, m, x - 1) < k /\ k <= EndOf(n, m, x)
<1> DEFINE Late == {x \in 1 .. m + 1 : k <= EndOf(n, m, x)}
<1>1. PICK x \in Late : \A y \in Late : x <= y
  <2>1. Late \subseteq Nat
    OBVIOUS
  <2>2. m + 1 \in Late
    BY EndsAtEnd
  <2> HIDE DEF Late
  <2> QED
    BY <2>1, <2>2, SmallestNumber
<1>2. x \in 1 .. m + 1 /\ k <= EndOf(n, m, x)
  BY <1>1
<1>3. EndOf(n, m, x - 1) < k
  <2>1. CASE x = 1
    BY <2>1, EndsAtEnd
  <2>2. CASE x # 1
    <3>1. x - 1 \in 1 .. m + 1 /\ ~(x <= x - 1)
      BY <1>2, <2>2
    <3>2. ~(k <= EndOf(n, m, x - 1))
      BY <1>1, <3>1
    <3>3. EndOf(n, m, x - 1) \in Nat
      BY <1>2, ShareFacts
    <3> QED
      BY <3>2, <3>3
  <2> QED
    BY <2>1, <2>2
<1> QED
  BY <1>2, <1>3

\* A tree of two levels: each child of the root is a leaf with a part of the keys.
LEMMA RootKids ==
  ASSUME NEW words \in Seq(Keys), NEW F, NEW m \in Nat \ {0}, FileOK(words, F, m),
         Len(words) <= m * (m + 1), ~F[Len(F)].leaf, NEW x \in 1 .. m + 1
  PROVE  LET kid == F[F[Len(F)].kids[x]]
         IN  /\ kid.leaf /\ F[Len(F)].kids[x] \in Nat
             /\ kid.first = 1 + EndOf(Len(words), m, x - 1)
             /\ kid.first + kid.count - 1 = EndOf(Len(words), m, x)
<1> DEFINE o == Len(F)
           n == Len(words)
           y == F[o].kids[x]
           kid == F[y]
<1>1. n \in Nat /\ o \in Nat \ {0} /\ F[o].first = 1 /\ F[o].count = n
  BY LenProperties DEF FileOK
<1>2. o \in 1 .. Len(F)
  BY <1>1
<1>3. n > m /\ NodeOK(F, m, o)
  <2>1. F[o].leaf <=> F[o].count <= m
    BY <1>2, NodeFacts
  <2>2. NodeOK(F, m, o)
    BY <1>2, Zenon DEF FileOK
  <2> QED
    BY <1>1, <2>1, <2>2
<1>4. y \in 1 .. o - 1 /\ kid.first = 1 + EndOf(n, m, x - 1) /\ kid.count = Share(n, m, x)
  BY <1>1, <1>3 DEF NodeOK
<1>5. /\ EndOf(n, m, x) \in Nat /\ EndOf(n, m, x - 1) \in Nat
      /\ Share(n, m, x) = EndOf(n, m, x) - EndOf(n, m, x - 1) /\ Share(n, m, x) <= m
  BY <1>1, <1>3, ShareFacts
<1>6. y \in 1 .. Len(F)
  BY <1>1, <1>4
<1> HIDE DEF y
<1>7. kid.leaf <=> kid.count <= m
  BY <1>6, NodeFacts
<1>8. y \in Nat
  BY <1>6
<1> HIDE DEF n
<1> QED
  BY <1>4, <1>5, <1>7, <1>8 DEF y, n

\* The parts of a list between marks that grow, one after the other.
Parts(w, end, N) == [x \in 1 .. N |-> SubSeq(w, 1 + end[x - 1], end[x])]

\* Such parts, put together, are the list up to the last mark.
LEMMA FlattenParts ==
  ASSUME NEW w \in Seq(Keys), NEW N \in Nat \ {0}, NEW end \in [0 .. N -> 0 .. Len(w)],
         end[0] = 0, \A x \in 1 .. N : end[x - 1] <= end[x]
  PROVE  FlattenSeq(Parts(w, end, N)) = SubSeq(w, 1, end[N])
<1> DEFINE parts == Parts(w, end, N)
           h == [x \in 1 .. N |-> SubSeq(w, 1, end[x])]
           Step(f) == [x \in 1 .. N |-> IF x = 1 THEN parts[x] ELSE f[x - 1] \o parts[x]]
           flat == CHOOSE f : f = Step(f)
<1>1. parts \in Seq(Seq(Keys)) /\ Len(parts) = N /\ N # 0
  <2>1. ASSUME NEW x \in 1 .. N PROVE SubSeq(w, 1 + end[x - 1], end[x]) \in Seq(Keys)
    <3>1. end[x - 1] \in 0 .. Len(w) /\ end[x] \in 0 .. Len(w)
      OBVIOUS
    <3>2. \A k \in 1 + end[x - 1] .. end[x] : w[k] \in Keys
      BY <3>1, ElementOfSeq
    <3> QED
      BY <3>1, <3>2, SubSeqProperties
  <2> QED
    BY <2>1 DEF Parts
<1>2. FlattenSeq(parts) = flat[N]
  <2> HIDE DEF parts
  <2> QED
    BY <1>1 DEF FlattenSeq
<1>3. \A x \in 1 .. N : parts[x] = SubSeq(w, 1 + end[x - 1], end[x])
  BY DEF Parts
<1> HIDE DEF flat, parts
<1>4. h = Step(h)
  <2> SUFFICES ASSUME NEW x \in 1 .. N
               PROVE  SubSeq(w, 1, end[x]) = IF x = 1 THEN parts[x] ELSE h[x - 1] \o parts[x]
    BY Zenon
  <2>1. CASE x = 1
    <3>1. end[x - 1] = 0 /\ 1 + 0 = 1 /\ 1 + end[x - 1] = 1
      BY <2>1
    <3>2. parts[x] = SubSeq(w, 1, end[x])
      BY <1>3, <3>1
    <3> HIDE DEF h
    <3> QED
      BY <2>1, <3>2, Zenon
  <2>2. CASE x # 1
    <3>1. x - 1 \in 1 .. N /\ x - 1 \in 0 .. N
      BY <2>2
    <3>2. h[x - 1] = SubSeq(w, 1, end[x - 1])
      BY <3>1
    <3>3. /\ 1 \in 1 .. Len(w) + 1 /\ end[x - 1] \in 1 - 1 .. Len(w)
          /\ end[x] \in end[x - 1] .. Len(w) /\ end[x - 1] + 1 = 1 + end[x - 1]
      <4>1. end[x - 1] \in 0 .. Len(w) /\ end[x] \in 0 .. Len(w) /\ end[x - 1] <= end[x]
            /\ Len(w) \in Nat
        BY <3>1
      <4> QED
        BY <4>1
    <3> DEFINE a == end[x - 1]
               b == end[x]
    <3>4. a \in 1 - 1 .. Len(w) /\ b \in a .. Len(w) /\ a + 1 = 1 + a
      BY <3>3
    <3>5. parts[x] = SubSeq(w, a + 1, b) /\ h[x - 1] = SubSeq(w, 1, a)
      BY <1>3, <3>2, <3>4
    <3> HIDE DEF a, b, h
    <3>6. SubSeq(w, 1, a) \o SubSeq(w, a + 1, b) = SubSeq(w, 1, b)
      BY <3>3, <3>4, ConcatAdjacentSubSeq
    <3> QED
      BY <2>2, <3>5, <3>6 DEF b
  <2> QED
    BY <2>1, <2>2
<1>5. flat = Step(flat)
  <2> HIDE DEF h
  <2> QED
    BY <1>4, Zenon DEF flat
<1>6. h \in [1 .. N -> Seq(Keys) \cup {h[x] : x \in 1 .. N}]
      /\ (\A x \in 1 .. N : h[x] = IF x = 1 THEN parts[x] ELSE h[x - 1] \o parts[x])
      /\ (\A x \in 1 .. N : flat[x] = IF x = 1 THEN parts[x] ELSE flat[x - 1] \o parts[x])
  <2>1. \A x \in 1 .. N : Step(h)[x] = IF x = 1 THEN parts[x] ELSE h[x - 1] \o parts[x]
    OBVIOUS
  <2>2. \A x \in 1 .. N : Step(flat)[x] = IF x = 1 THEN parts[x] ELSE flat[x - 1] \o parts[x]
    OBVIOUS
  <2>3. h \in [1 .. N -> Seq(Keys) \cup {h[x] : x \in 1 .. N}]
    OBVIOUS
  <2> HIDE DEF Step, h
  <2> QED
    BY <1>4, <1>5, <2>1, <2>2, <2>3, Zenon
<1> DEFINE Bad == {x \in 1 .. N : flat[x] # h[x]}
<1>7. Bad = {}
  <2> SUFFICES ASSUME Bad # {} PROVE FALSE
    OBVIOUS
  <2>1. PICK x \in Bad : \A y \in Bad : x <= y
    <3>1. Bad \subseteq Nat
      OBVIOUS
    <3> HIDE DEF Bad
    <3> QED
      BY <3>1, SmallestNumber
  <2>2. x \in 1 .. N /\ flat[x] # h[x]
    BY <2>1
  <2> HIDE DEF h
  <2>3. x # 1 /\ flat[x - 1] # h[x - 1]
    BY <1>6, <2>2, Zenon
  <2>4. x - 1 \in Bad /\ ~(x <= x - 1)
    BY <2>2, <2>3
  <2> QED
    BY <2>1, <2>4
<1>8. N \in 1 .. N
  OBVIOUS
<1>9. flat[N] = h[N]
  BY <1>7, <1>8
<1> QED
  BY <1>2, <1>8, <1>9 DEF parts

\* The nodes that are listed have the keys in their order.
NodesHaveAll(ix) == KeysOfNodes(ix, FindNodes(ix)) = ix.words

\* The leaves that are listed have the keys in their order, when there are few enough
\* for two levels.
LEMMA LeavesListed ==
  ASSUME NEW keys \in SUBSET Keys, NEW ix, IndexOK(ix, keys),
         Len(ix.words) <= MaxElements * (MaxElements + 1)
  PROVE  /\ \A o \in Range(FindNodes(ix)) : ix.file[o].leaf
         /\ NodesHaveAll(ix)
<1> DEFINE words == ix.words
           F == ix.file
           n == Len(words)
           m == TreeElements(n)
           root == Len(F)
           nodes == FindNodes(ix)
<1>1. /\ words \in Seq(Keys) /\ n \in Nat /\ DOMAIN words = 1 .. n
      /\ F \in Seq(Nodes)
  BY LenProperties DEF IndexOK, InOrder
<1>2. m \in Nat \ {0} /\ n <= m * (m + 1)
  BY <1>1, TreeElementsFacts
<1>3. SubSeq(words, 1, n) = words
  BY <1>1, SubSeqFull
<1>4. CASE F[root].leaf
  <2>1. F[root].first = 1 /\ F[root].count = n
    <3>1. CASE n = 0
      BY <3>1 DEF IndexOK, Leaf
    <3>2. CASE n # 0
      BY <3>2 DEF IndexOK, FileOK
    <3> QED
      BY <3>1, <3>2
  <2>2. nodes = <<root>>
    BY <1>4, Zenon DEF FindNodes, RootOf
  <2>3. Range(nodes) = {root} /\ DOMAIN nodes = 1 .. 1 /\ nodes[1] = root
    BY <2>2 DEF Range
  <2>4. KeysOfNode(ix, root) = words
    <3>1. F[root].first + F[root].count - 1 = n
      BY <1>1, <2>1
    <3> QED
      BY <1>3, <2>1, <3>1, Zenon DEF KeysOfNode
  <2> DEFINE parts == [i \in DOMAIN nodes |-> KeysOfNode(ix, nodes[i])]
  <2> HIDE DEF nodes
  <2>5. parts = <<words>>
    <3>1. parts = [i \in 1 .. 1 |-> words]
      <4>1. \A i \in 1 .. 1 : nodes[i] = root
        BY <2>3
      <4> QED
        BY <2>3, <2>4, <4>1, Zenon
    <3> HIDE DEF parts, words
    <3> QED
      BY <3>1
  <2>6. FlattenSeq(parts) = words
    <3> HIDE DEF parts, words
    <3>1. FlattenSeq(<<words>>) = words
      <4> DEFINE Step(f) == [i \in 1 .. 1 |-> IF i = 1 THEN words ELSE f[i - 1] \o words]
                 h == [i \in 1 .. 1 |-> words]
                 flat == CHOOSE f : f = Step(f)
      <4>1. h = Step(h)
        OBVIOUS
      <4>2. flat = Step(flat)
        <5> HIDE DEF h
        <5> QED
          BY <4>1, Zenon
      <4>3. flat[1] = words
        <5> HIDE DEF flat
        <5>1. Step(flat)[1] = words
          OBVIOUS
        <5> QED
          BY <4>2, <5>1
      <4>4. FlattenSeq(<<words>>) = flat[1]
        <5>1. Len(<<words>>) = 1 /\ <<words>>[1] = words
          OBVIOUS
        <5>2. \A i \in 1 .. 1 : <<words>>[i] = words
          BY <5>1
        <5> QED
          BY <5>1, <5>2 DEF FlattenSeq
      <4> QED
        BY <4>3, <4>4
    <3> QED
      BY <2>5, <3>1
  <2> QED
    BY <1>4, <2>3, <2>6 DEF nodes, NodesHaveAll, KeysOfNodes
<1>5. CASE ~F[root].leaf
  <2> DEFINE kids == F[root].kids
  <2>1. n # 0
    BY <1>5 DEF IndexOK, Leaf
  <2>2. FileOK(words, F, m)
    BY <2>1 DEF IndexOK
  <2>3. nodes = kids
    BY <1>5, Zenon DEF FindNodes, RootOf
  <2> HIDE DEF m, nodes
  <2>4. root \in 1 .. Len(F) /\ F[root].count = n
    BY <1>1, <2>2, LenProperties DEF FileOK
  <2>5. n > m /\ kids \in Seq(Nat)
    <3>1. (F[root].leaf <=> F[root].count <= m) /\ kids \in Seq(Nat)
      BY <1>1, <1>2, <2>2, <2>4, NodeFacts
    <3> QED
      BY <1>1, <1>2, <1>5, <2>4, <3>1
  <2>6. DOMAIN kids = 1 .. m + 1
    <3>1. NodeOK(F, m, root)
      BY <2>2, <2>4, Zenon DEF FileOK
    <3>2. Len(kids) = m + 1
      BY <1>5, <3>1 DEF NodeOK
    <3> QED
      BY <2>5, <3>2, LenProperties
  <2>7. \A x \in 1 .. m + 1 :
           /\ F[kids[x]].leaf
           /\ F[kids[x]].first = 1 + EndOf(n, m, x - 1)
           /\ F[kids[x]].first + F[kids[x]].count - 1 = EndOf(n, m, x)
    <3> SUFFICES ASSUME NEW x \in 1 .. m + 1
                 PROVE  /\ F[kids[x]].leaf
                        /\ F[kids[x]].first = 1 + EndOf(n, m, x - 1)
                        /\ F[kids[x]].first + F[kids[x]].count - 1 = EndOf(n, m, x)
      BY Zenon
    <3>1. Len(words) <= m * (m + 1)
      BY <1>2
    <3> HIDE DEF words, F
    <3> QED
      BY <1>1, <1>2, <1>5, <2>2, <3>1, RootKids
  <2>8. Range(nodes) = {kids[x] : x \in 1 .. m + 1}
    BY <2>3, <2>6, Zenon DEF Range
  <2>9. \A o \in Range(nodes) : F[o].leaf
    BY <2>7, <2>8, Zenon
  <2> DEFINE end == [x \in 0 .. m + 1 |-> EndOf(n, m, x)]
             N == m + 1
  <2>10. /\ N \in Nat \ {0} /\ end \in [0 .. N -> 0 .. n]
         /\ end[0] = 0 /\ end[N] = n
         /\ \A x \in 1 .. N : /\ end[x - 1] = EndOf(n, m, x - 1)
                              /\ end[x] = EndOf(n, m, x) /\ end[x - 1] <= end[x]
    <3> HIDE DEF n
    <3>1. /\ \A y \in 0 .. m + 1 : EndOf(n, m, y) \in 0 .. n
          /\ \A x, y \in 0 .. m + 1 : x < y => EndOf(n, m, x) < EndOf(n, m, y)
      BY <1>1, <1>2, <2>5, EndsGrow
    <3>2. EndOf(n, m, 0) = 0 /\ EndOf(n, m, m + 1) = n
      BY <1>1, <1>2, EndsAtEnd
    <3>3. N \in Nat \ {0} /\ 0 \in 0 .. m + 1 /\ m + 1 \in 0 .. m + 1
      BY <1>2
    <3>4. end \in [0 .. N -> 0 .. n] /\ end[0] = 0 /\ end[N] = n
      BY <3>1, <3>2, <3>3
    <3>5. ASSUME NEW x \in 1 .. N
          PROVE  /\ end[x - 1] = EndOf(n, m, x - 1)
                 /\ end[x] = EndOf(n, m, x) /\ end[x - 1] <= end[x]
      <4>1. x - 1 \in 0 .. m + 1 /\ x \in 0 .. m + 1 /\ x - 1 < x
        BY <1>2
      <4>2. end[x - 1] = EndOf(n, m, x - 1) /\ end[x] = EndOf(n, m, x)
        BY <4>1
      <4>3. EndOf(n, m, x - 1) < EndOf(n, m, x)
        BY <3>1, <4>1
      <4>4. EndOf(n, m, x - 1) \in Int /\ EndOf(n, m, x) \in Int
        BY <3>1, <4>1
      <4> HIDE DEF end
      <4> QED
        BY <4>2, <4>3, <4>4
    <3> HIDE DEF end, N
    <3> QED
      BY <3>3, <3>4, <3>5
  <2> HIDE DEF end
  <2>11. [x \in DOMAIN nodes |-> KeysOfNode(ix, nodes[x])] = Parts(words, end, N)
    <3>1. ASSUME NEW x \in 1 .. N
          PROVE  KeysOfNode(ix, kids[x]) = SubSeq(words, 1 + end[x - 1], end[x])
      <4>1. x \in 1 .. m + 1 /\ end[x - 1] = EndOf(n, m, x - 1) /\ end[x] = EndOf(n, m, x)
        BY <2>10, Zenon
      <4>2. /\ F[kids[x]].first = 1 + end[x - 1]
            /\ F[kids[x]].first + F[kids[x]].count - 1 = end[x]
        BY <2>7, <4>1, Zenon
      <4> QED
        BY <4>2, Zenon DEF KeysOfNode
    <3> HIDE DEF words, kids
    <3> QED
      BY <2>3, <2>6, <3>1, Zenon DEF Parts
  <2>12. FlattenSeq(Parts(words, end, N)) = SubSeq(words, 1, end[N])
    <3> HIDE DEF N, words
    <3> QED
      BY <1>1, <2>10, FlattenParts
  <2> HIDE DEF N
  <2>13. KeysOfNodes(ix, nodes) = words
    BY <1>3, <2>10, <2>11, <2>12, Zenon DEF KeysOfNodes
  <2> QED
    BY <2>9, <2>13 DEF nodes, NodesHaveAll
<1> QED
  BY <1>4, <1>5

-----------------------------------------------------------------------------
(* The chunked storage. *)

\* The bytes of block b are in `bytes' from its offset on, and in their order.
Holds(bytes, b) ==
  /\ address[b].offset = 0 \/ address[b].offset - 1 \in DOMAIN bytes
  /\ \A k \in 0 .. size[b] - 1 :
       /\ address[b].offset + k \in DOMAIN bytes
       /\ bytes[address[b].offset + k] = [block |-> b, place |-> k]

StorageShape ==
  /\ nChunks \in Nat /\ bufferUsed \in Nat /\ nBlocks \in Nat
  /\ DOMAIN chunks = 0 .. nChunks - 1
  /\ DOMAIN buffer = 0 .. bufferUsed - 1
  /\ size \in [Blocks -> Nat] /\ home \in [Blocks -> Nat]

\* Where a block is: in the chunk of its number once that is written, in the
\* buffer before; only the last block ends where the buffer does.
BlockInv(b) ==
  /\ address[b].offset \in Nat
  /\ address[b].chunk = home[b] % Half
  /\ home[b] <= nChunks
  /\ home[b] < nChunks => Holds(chunks[home[b]], b)
  /\ home[b] = nChunks => Holds(buffer, b)

LastInv ==
  nBlocks > 0 /\ ~finished =>
    home[nBlocks] = nChunks /\ address[nBlocks].offset + size[nBlocks] = bufferUsed

\* A block of no bytes keeps its chunk pending.
PendingInv ==
  \A b \in Blocks : home[b] = nChunks => ~finished /\ ChunkPending

StorageInv ==
  StorageShape /\ (\A b \in Blocks : BlockInv(b)) /\ LastInv /\ PendingInv

\* A number that fits the half of an address stays as it is.
LEMMA ModSmall ==
  ASSUME NEW h \in Nat \ {0}, NEW x \in Nat, x < h
  PROVE  x % h = x
  OBVIOUS

\* Writing the buffer as a chunk leaves every block where its number says.
LEMMA ChunkSaved ==
  ASSUME StorageShape, \A b \in Blocks : BlockInv(b), SaveCurrentChunk
  PROVE  /\ nChunks' \in Nat /\ bufferUsed' = 0
         /\ DOMAIN chunks' = 0 .. nChunks' - 1
         /\ DOMAIN buffer' = 0 .. bufferUsed' - 1
         /\ \A b \in Blocks : home[b] < nChunks' /\ Holds(chunks'[home[b]], b)
<1>1. /\ nChunks' = nChunks + 1 /\ bufferUsed' = 0
      /\ chunks' = [c \in 0 .. nChunks |-> IF c = nChunks THEN buffer ELSE chunks[c]]
      /\ DOMAIN buffer' = {}
  BY DEF SaveCurrentChunk
<1>2. nChunks' \in Nat /\ DOMAIN chunks' = 0 .. nChunks' - 1 /\ 0 .. bufferUsed' - 1 = {}
  BY <1>1 DEF StorageShape
<1>3. ASSUME NEW b \in Blocks
      PROVE  home[b] < nChunks' /\ Holds(chunks'[home[b]], b)
  <2>1. home[b] \in Nat /\ home[b] <= nChunks /\ BlockInv(b)
    BY DEF StorageShape, BlockInv
  <2>2. CASE home[b] = nChunks
    <3>1. chunks'[home[b]] = buffer
      BY <1>1, <2>1, <2>2
    <3> QED
      BY <1>1, <2>1, <2>2, <3>1 DEF BlockInv
  <2>3. CASE home[b] < nChunks
    <3>1. chunks'[home[b]] = chunks[home[b]]
      BY <1>1, <2>1, <2>3 DEF StorageShape
    <3> QED
      BY <1>1, <2>1, <2>3, <3>1 DEF BlockInv, StorageShape
  <2> QED
    BY <2>1, <2>2, <2>3 DEF StorageShape
<1> QED
  BY <1>1, <1>2, <1>3

\* A block begun at the end of what is in use is found there, and the blocks
\* before it stay as they were.
LEMMA BlockBegun ==
  ASSUME StorageShape, ~finished, NEW used \in Nat, NEW n \in Nat,
         used < ChunkMaxSize, NewBlock(used, n),
         nChunks' = n, DOMAIN chunks' = 0 .. n - 1,
         bufferUsed' = used, DOMAIN buffer' = 0 .. used - 1,
         \A b \in Blocks :
           /\ address[b].offset \in Nat /\ address[b].chunk = home[b] % Half
           /\ home[b] <= n
           /\ home[b] < n => Holds(chunks'[home[b]], b)
           /\ home[b] = n => Holds(buffer', b)
  PROVE  StorageInv'
<1> DEFINE new == nBlocks + 1
<1>1. /\ nBlocks' = new /\ nBlocks \in Nat
      /\ address' = [b \in 1 .. new |-> IF b = new THEN Address(used, n) ELSE address[b]]
      /\ home' = [b \in 1 .. new |-> IF b = new THEN n ELSE home[b]]
      /\ size' = [b \in 1 .. new |-> IF b = new THEN 0 ELSE size[b]]
  BY DEF NewBlock, StorageShape
<1>2. chunkStarted' = TRUE /\ finished' = finished
  BY DEF NewBlock
<1>3. address'[new] = [offset |-> used, chunk |-> n % Half] /\ home'[new] = n /\ size'[new] = 0
  <2>1. used % Half = used
    BY ChunkedStorageAssumption, ModSmall
  <2> QED
    BY <1>1, <2>1 DEF Address
<1>4. ASSUME NEW b \in Blocks
      PROVE  /\ b \in 1 .. new /\ b # new
             /\ address'[b] = address[b] /\ home'[b] = home[b] /\ size'[b] = size[b]
  BY <1>1 DEF Blocks
<1>5. StorageShape'
  <2>1. size' \in [1 .. new -> Nat] /\ home' \in [1 .. new -> Nat]
    BY <1>1, SMTT(30) DEF StorageShape, Blocks
  <2> QED
    BY <1>1, <2>1, SMTT(30) DEF StorageShape, Blocks
<1>6. ASSUME NEW b \in Blocks' PROVE BlockInv(b)'
  <2>1. CASE b = new
    BY <1>3, <2>1 DEF BlockInv, Holds
  <2>2. CASE b # new
    <3>1. b \in 1 .. nBlocks + 1 /\ b # nBlocks + 1 /\ nBlocks \in Nat
      BY <1>1, <2>2 DEF Blocks
    <3>2. b \in Blocks
      BY <3>1 DEF Blocks
    <3>3. /\ address'[b] = address[b] /\ home'[b] = home[b] /\ size'[b] = size[b]
      BY <1>4, <3>2
    <3>4. /\ address[b].offset \in Nat /\ address[b].chunk = home[b] % Half
          /\ home[b] <= n
          /\ home[b] < n => Holds(chunks'[home[b]], b)
          /\ home[b] = n => Holds(buffer', b)
      BY <3>2
    <3>5. /\ home[b] < n => Holds(chunks[home[b]], b)'
          /\ home[b] = n => Holds(buffer, b)'
      BY <3>3, <3>4 DEF Holds
    <3> QED
      BY <3>3, <3>4, <3>5 DEF BlockInv
  <2> QED
    BY <2>1, <2>2
<1>7. LastInv'
  <2>1. home'[nBlocks'] = nChunks' /\ address'[nBlocks'].offset + size'[nBlocks'] = bufferUsed'
    BY <1>1, <1>3
  <2> QED
    BY <2>1 DEF LastInv
<1>8. PendingInv'
  BY <1>2 DEF PendingInv, ChunkPending
<1> QED
  BY <1>5, <1>6, <1>7, <1>8 DEF StorageInv

\* startNewBlock() keeps every block where its address says.
LEMMA StartKeeps == ASSUME StorageInv, StartNewBlock PROVE StorageInv'
<1>1. ~finished /\ StorageShape /\ \A b \in Blocks : BlockInv(b)
  BY DEF StartNewBlock, StartInChunk, StartAfterFlush, NewBlock, StorageInv
<1>2. CASE StartInChunk
  <2>1. /\ NewBlock(bufferUsed, nChunks) /\ bufferUsed < ChunkMaxSize
        /\ bufferUsed \in Nat /\ nChunks \in Nat
    BY <1>1, <1>2, ChunkedStorageAssumption
    DEF StartInChunk, MustFlush, StorageShape, ChunkedStorageAssumption
  <2>2. UNCHANGED <<nChunks, chunks, buffer, bufferUsed>>
    BY <1>2 DEF StartInChunk
  <2>3. \A b \in Blocks :
           /\ address[b].offset \in Nat /\ address[b].chunk = home[b] % Half
           /\ home[b] <= nChunks
           /\ home[b] < nChunks => Holds(chunks'[home[b]], b)
           /\ home[b] = nChunks => Holds(buffer', b)
    BY <1>1, <2>2 DEF BlockInv
  <2> QED
    BY <1>1, <2>1, <2>2, <2>3, BlockBegun DEF StorageShape
<1>3. CASE StartAfterFlush
  <2>1. NewBlock(0, nChunks + 1) /\ SaveCurrentChunk /\ nChunks' = nChunks + 1
    BY <1>3 DEF StartAfterFlush, SaveCurrentChunk
  <2>2. /\ nChunks' \in Nat /\ bufferUsed' = 0
        /\ DOMAIN chunks' = 0 .. nChunks' - 1
        /\ DOMAIN buffer' = 0 .. bufferUsed' - 1
        /\ \A b \in Blocks : home[b] < nChunks' /\ Holds(chunks'[home[b]], b)
    BY <1>1, <2>1, ChunkSaved
  <2>3. \A b \in Blocks :
           /\ address[b].offset \in Nat /\ address[b].chunk = home[b] % Half
           /\ home[b] \in Nat
    BY <1>1 DEF BlockInv, StorageShape
  <2>4. \A b \in Blocks :
           /\ address[b].offset \in Nat /\ address[b].chunk = home[b] % Half
           /\ home[b] <= nChunks'
           /\ home[b] < nChunks' => Holds(chunks'[home[b]], b)
           /\ home[b] = nChunks' => Holds(buffer', b)
    BY <2>2, <2>3
  <2>5. 0 < ChunkMaxSize
    BY ChunkedStorageAssumption DEF ChunkedStorageAssumption
  <2> QED
    BY <1>1, <2>1, <2>2, <2>4, <2>5, BlockBegun
<1> QED
  BY <1>2, <1>3 DEF StartNewBlock

\* addToBlock() keeps every block where its address says.
LEMMA AddKeeps ==
  ASSUME StorageInv, NEW n \in 1 .. MaxBytes, AddToBlock(n) PROVE StorageInv'
<1> DEFINE last == nBlocks
<1>0. n \in Nat \ {0} /\ MaxBytes \in Nat
  BY ChunkedStorageAssumption DEF ChunkedStorageAssumption
<1>1. /\ ~finished /\ last \in Blocks /\ last \in Nat
      /\ bufferUsed \in Nat /\ size \in [Blocks -> Nat] /\ home \in [Blocks -> Nat]
      /\ nChunks \in Nat
      /\ StorageShape /\ \A b \in Blocks : BlockInv(b)
  BY SMTT(30) DEF AddToBlock, StorageInv, StorageShape, Blocks
<1>2. /\ buffer' = [i \in 0 .. bufferUsed + n - 1 |->
                      IF i < bufferUsed THEN buffer[i]
                      ELSE [block |-> last, place |-> size[last] + i - bufferUsed]]
      /\ bufferUsed' = bufferUsed + n
      /\ size' = [size EXCEPT ![last] = @ + n]
      /\ UNCHANGED <<nChunks, chunks, nBlocks, address, home>> /\ finished' = finished
  BY DEF AddToBlock
<1>3. home[last] = nChunks /\ address[last].offset + size[last] = bufferUsed
      /\ address[last].offset \in Nat
  BY <1>1 DEF StorageInv, LastInv, BlockInv, Blocks
<1>4. StorageShape'
  BY <1>0, <1>1, <1>2 DEF StorageShape, Blocks
<1>5. ASSUME NEW b \in Blocks' PROVE BlockInv(b)'
  <2>1. b \in Blocks /\ BlockInv(b)
    BY <1>1, <1>2 DEF Blocks
  <2>2. CASE b # last
    <3>1. size'[b] = size[b] /\ size[b] \in Nat
      BY <1>1, <1>2, <2>1, <2>2
    <3>2. ASSUME NEW i \in DOMAIN buffer PROVE i \in DOMAIN buffer' /\ buffer'[i] = buffer[i]
      BY <1>0, <1>1, <1>2 DEF StorageShape
    <3>3. Holds(buffer, b) => Holds(buffer, b)'
      <4>1. address'[b] = address[b]
        BY <1>2
      <4> QED
        BY <3>1, <3>2, <4>1 DEF Holds
    <3>4. home[b] < nChunks => Holds(chunks[home[b]], b)'
      BY <1>2, <2>1, <3>1 DEF BlockInv, Holds
    <3> QED
      BY <1>2, <2>1, <3>3, <3>4 DEF BlockInv
  <2>3. CASE b = last
    <3> DEFINE o == address[last].offset
    <3>1. o \in Nat /\ o + size[last] = bufferUsed /\ size[last] \in Nat
      BY <1>1, <1>3
    <3>2. size'[last] = size[last] + n /\ address' = address /\ home' = home
      BY <1>1, <1>2
    <3>3. o = 0 \/ o - 1 \in DOMAIN buffer'
      <4>1. DOMAIN buffer' = 0 .. bufferUsed + n - 1
        BY <1>2
      <4>2. o = 0 \/ o - 1 \in 0 .. bufferUsed + n - 1
        BY <1>0, <1>1, <3>1
      <4> QED
        BY <4>1, <4>2
    <3>4. ASSUME NEW k \in 0 .. size'[last] - 1
          PROVE  o + k \in DOMAIN buffer' /\ buffer'[o + k] = [block |-> last, place |-> k]
      <4>1. o + k \in 0 .. bufferUsed + n - 1 /\ k \in Nat
        BY <1>0, <1>1, <3>1, <3>2
      <4>2. CASE k < size[last]
        <5>1. o + k < bufferUsed /\ buffer'[o + k] = buffer[o + k]
          BY <1>2, <3>1, <4>1, <4>2
        <5>2. buffer[o + k] = [block |-> last, place |-> k]
          BY <1>1, <1>3, <3>1, <4>1, <4>2 DEF BlockInv, Holds
        <5> QED
          BY <1>2, <4>1, <5>1, <5>2
      <4>3. CASE k >= size[last]
        <5>1. ~(o + k < bufferUsed) /\ size[last] + (o + k) - bufferUsed = k
          BY <3>1, <4>1, <4>3
        <5> QED
          BY <1>2, <4>1, <5>1
      <4> QED
        BY <3>1, <4>1, <4>2, <4>3
    <3>5. Holds(buffer, b)'
      <4>1. address'[b].offset = o /\ size'[b] = size'[last]
        BY <2>3, <3>2
      <4>2. \A k \in 0 .. size'[b] - 1 :
              o + k \in DOMAIN buffer' /\ buffer'[o + k] = [block |-> b, place |-> k]
        BY <2>3, <3>4, <4>1
      <4> QED
        BY <3>3, <4>1, <4>2 DEF Holds
    <3> QED
      BY <1>1, <1>2, <1>3, <2>1, <2>3, <3>5 DEF BlockInv
  <2> QED
    BY <2>2, <2>3
<1>6. LastInv'
  <2>1. size'[last] = size[last] + n /\ size[last] \in Nat
    BY <1>1, <1>2
  <2>2. home'[last] = nChunks' /\ address'[last].offset = address[last].offset
    BY <1>2, <1>3
  <2>3. address[last].offset + (size[last] + n) = bufferUsed + n
    BY <1>0, <1>1, <1>3, <2>1
  <2> QED
    BY <1>2, <2>1, <2>2, <2>3 DEF LastInv
<1>7. PendingInv'
  <2>1. bufferUsed' > 0
    BY <1>0, <1>1, <1>2
  <2> QED
    BY <1>1, <1>2, <2>1 DEF PendingInv, ChunkPending
<1> QED
  BY <1>4, <1>5, <1>6, <1>7 DEF StorageInv

\* finish() keeps every block where its address says.
LEMMA FinishKeeps == ASSUME StorageInv, Finish PROVE StorageInv'
<1>1. /\ finished' = TRUE /\ ~finished /\ UNCHANGED <<nBlocks, address, home, size>>
      /\ StorageShape /\ (\A b \in Blocks : BlockInv(b)) /\ Blocks' = Blocks
  BY DEF Finish, StorageInv, Blocks
<1>2. LastInv'
  BY <1>1 DEF LastInv
<1>3. CASE ChunkPending /\ SaveCurrentChunk
  <2>1. /\ nChunks' \in Nat /\ bufferUsed' = 0
        /\ DOMAIN chunks' = 0 .. nChunks' - 1
        /\ DOMAIN buffer' = 0 .. bufferUsed' - 1
        /\ \A b \in Blocks : home[b] < nChunks' /\ Holds(chunks'[home[b]], b)
    BY <1>1, <1>3, ChunkSaved
  <2>2. StorageShape'
    BY <1>1, <2>1 DEF StorageShape
  <2>3. ASSUME NEW b \in Blocks PROVE BlockInv(b)' /\ home'[b] # nChunks'
    <3>1. home[b] \in Nat /\ BlockInv(b) /\ home[b] < nChunks' /\ Holds(chunks'[home[b]], b)
      BY <1>1, <2>1 DEF StorageShape
    <3>2. Holds(chunks[home[b]], b)'
      BY <1>1, <3>1 DEF Holds
    <3> QED
      BY <1>1, <2>1, <3>1, <3>2 DEF BlockInv
  <2> QED
    BY <1>1, <1>2, <2>2, <2>3 DEF StorageInv, PendingInv
<1>4. CASE ~ChunkPending /\ UNCHANGED <<nChunks, chunks, buffer, bufferUsed>>
  <2>1. \A b \in Blocks : home[b] # nChunks
    BY <1>4 DEF StorageInv, PendingInv
  <2>2. StorageShape'
    BY <1>1, <1>4 DEF StorageShape
  <2>3. ASSUME NEW b \in Blocks PROVE BlockInv(b)'
    BY <1>1, <1>4 DEF BlockInv, Holds
  <2> QED
    BY <1>1, <1>2, <1>4, <2>1, <2>2, <2>3 DEF StorageInv, PendingInv
<1> QED
  BY <1>3, <1>4 DEF Finish

\* Every step of the storage keeps its invariant.
LEMMA StorageInvInductive == StorageInv /\ [StorageNext]_storageVars => StorageInv'
<1>1. CASE UNCHANGED storageVars
  BY <1>1 DEF storageVars, StorageInv, StorageShape, BlockInv, Holds, LastInv,
              PendingInv, ChunkPending, Blocks
<1> QED
  BY <1>1, StartKeeps, AddKeeps, FinishKeeps DEF StorageNext

\* An empty storage has the invariant.
LEMMA StorageInvInit == StorageInit => StorageInv
<1> SUFFICES ASSUME StorageInit PROVE StorageInv
  OBVIOUS
<1>1. Blocks = {}
  BY DEF StorageInit, Blocks
<1> QED
  BY <1>1 DEF StorageInit, StorageInv, StorageShape, LastInv, PendingInv

\* In a finished storage the reader finds every block.
LEMMA StorageInvReadsBack == StorageInv => BlocksReadBack
<1> SUFFICES ASSUME StorageInv, finished, NEW b \in Blocks, home[b] < Half
             PROVE  /\ InRange(address[b])
                    /\ \A k \in 0 .. size[b] - 1 :
                         /\ address[b].offset + k \in DOMAIN chunks[address[b].chunk]
                         /\ ByteAt(address[b], k) = [block |-> b, place |-> k]
  BY DEF BlocksReadBack
<1>1. home[b] \in Nat /\ home[b] < nChunks
  BY DEF StorageInv, PendingInv, BlockInv, StorageShape
<1>2. address[b].chunk = home[b]
  BY <1>1, ModSmall, ChunkedStorageAssumption
  DEF ChunkedStorageAssumption, StorageInv, BlockInv
<1>3. Holds(chunks[home[b]], b)
  BY <1>1 DEF StorageInv, BlockInv
<1> QED
  BY <1>1, <1>2, <1>3 DEF Holds, InRange, ByteAt

\* What ChunkedStorage::Writer stores under an address is what
\* ChunkedStorage::Reader reads back from it, for any blocks and any sizes
\* (src/src/dict/chunkedstorage.cc).
THEOREM StorageReadsBack == StorageSpec => []BlocksReadBack
  BY StorageInvInit, StorageInvInductive, StorageInvReadsBack, PTL DEF StorageSpec

-----------------------------------------------------------------------------
(* The words gathered. *)

Link(p, i, b) == [phrase |-> p, from |-> i, article |-> address[b]]

\* The links that may be in the chain of a key.
LinksFor(k) ==
  UNION {{Link(q[1], i, q[2]) : i \in {j \in Starts(q[1]) : KeyAt(q[1], j) = k}} : q \in put}

\* A part of a headword leads to its article, or has been crowded out.
Linked(p, i, b) ==
  /\ KeyAt(p, i) \in DOMAIN entries
  /\ Link(p, i, b) \in Range(entries[KeyAt(p, i)]) \/ CrowdedOut(p, i)

\* The words gathered: every link is there for a headword that was given, and every
\* headword given has its links.
EntriesInv ==
  /\ put \subseteq Phrases \X Blocks /\ IsFiniteSet(Given)
  /\ DOMAIN entries \subseteq Keys /\ IsFiniteSet(DOMAIN entries)
  /\ \A k \in DOMAIN entries : entries[k] \in Seq(LinksFor(k))
  /\ \A q \in put : \A i \in Starts(q[1]) : Linked(q[1], i, q[2])

\* The index is the one of all the words, and there is nothing of a search before
\* one is begun.
PhaseInv ==
  /\ phase \in {"source", "built", "reading", "done"}
  /\ phase # "source" => finished /\ idx = BuildIndex(DOMAIN entries)
  /\ phase \in {"source", "built"} =>
       search = NoSearch /\ folded = <<>> /\ chop = 0 /\ cur = NoChain /\ matches = {}

\* What is left of the string when some of its letters are chopped.
FoldedInv ==
  /\ search.str \in Keys /\ search.stemmed \in BOOLEAN
  /\ IF search.stemmed
     THEN /\ chop \in 0 .. CharsToChop(search.str)
          /\ folded = SubSeq(search.str, 1, Len(search.str) - CharsToChop(search.str) + chop)
     ELSE chop = 0 /\ folded = search.str

CurInv ==
  cur # NoChain => cur \in Chains(idx) /\ ~KeyLess(idx.words[cur.at], folded)

\* The chains already read.
Passed(k) == cur = NoChain \/ k < cur.at

\* Of the keys that begin with what is left of the string all that were passed have
\* given their matches, as long as there was room for them.
MatchesInv ==
  /\ matches \subseteq {p \in Given : \E i \in Starts(p) : Fits(p, i)}
  /\ ~isCancelled /\ Cardinality(matches) < MaxResults =>
       \A p \in Given \ matches : \A i \in Starts(p) : \A k \in 1 .. Len(idx.words) :
         /\ Fits(p, i) /\ idx.words[k] = KeyAt(p, i)
         /\ IsPrefix(folded, idx.words[k]) /\ Passed(k)
         => CrowdedOut(p, i)

SearchInv ==
  phase \in {"reading", "done"} =>
    /\ FoldedInv /\ CurInv /\ MatchesInv
    /\ phase = "done" /\ ~isCancelled => chop = 0 /\ ~ChainFits

DictInv == StorageInv /\ EntriesInv /\ PhaseInv /\ SearchInv

-----------------------------------------------------------------------------

\* The words of a phrase begin within it or at its end, the first at its beginning.
LEMMA StartsFacts ==
  ASSUME NEW p \in Phrases
  PROVE  /\ Len(p.text) \in Nat /\ p.text \in Keys
         /\ Starts(p) \subseteq 1 .. Len(p.text) + 1 /\ 1 \in Starts(p) /\ Min(Starts(p)) = 1
<1>1. /\ p.text \in Seq(Nat) /\ p.starts \subseteq 1 .. Len(p.text) + 1
      /\ p.starts = {} \/ 1 \in p.starts
  BY DictIndexAssumption DEF DictIndexAssumption
<1>2. Len(p.text) \in Nat
  BY <1>1, LenProperties
<1>3. Starts(p) \subseteq 1 .. Len(p.text) + 1 /\ 1 \in Starts(p)
  <2>1. 1 \in 1 .. Len(p.text) + 1
    BY <1>2
  <2> QED
    BY <1>1, <2>1, Zenon DEF Starts
<1> DEFINE T == Starts(p)
<1>4. Min(Starts(p)) = 1
  <2>1. 1 \in T /\ T \subseteq Nat /\ \A y \in T : 1 <= y
    BY <1>2, <1>3
  <2> HIDE DEF T
  <2>2. \E x \in T : \A y \in T : x <= y
    BY <2>1, Zenon
  <2>3. Min(T) \in T /\ \A y \in T : Min(T) <= y
    BY <2>2, Zenon DEF Min
  <2>4. Min(T) <= 1 /\ 1 <= Min(T) /\ Min(T) \in Nat
    BY <2>1, <2>3
  <2> QED
    BY <2>4 DEF T
<1> QED
  BY <1>1, <1>2, <1>3, <1>4 DEF Keys

\* The key of a word of a phrase tells where in it the word begins.
LEMMA KeyFacts ==
  ASSUME NEW p \in Phrases, NEW i \in Starts(p)
  PROVE  /\ i \in Nat /\ KeyAt(p, i) \in Keys
         /\ Len(p.text) + 1 - Len(KeyAt(p, i)) = i
         /\ KeyAt(p, 1) = p.text
<1>1. Len(p.text) \in Nat /\ p.text \in Seq(Nat) /\ i \in 1 .. Len(p.text) + 1
  BY StartsFacts DEF Keys
<1>2. \A j \in 1 .. Len(p.text) : p.text[j] \in Nat
  BY <1>1, ElementOfSeq
<1> DEFINE n == Len(p.text)
           s == SubSeq(p.text, i, n)
<1>3. s \in Seq(Nat) /\ Len(s) = IF i <= n THEN n - i + 1 ELSE 0
  BY <1>1, <1>2, SubSeqProperties
<1>4. KeyAt(p, 1) = p.text
  <2>1. /\ SubSeq(p.text, 1, n) \in Seq(Nat)
        /\ Len(SubSeq(p.text, 1, n)) = n
        /\ \A j \in 1 .. n : SubSeq(p.text, 1, n)[j] = p.text[j]
    BY <1>1, <1>2
  <2> QED
    BY <1>1, <2>1 DEF KeyAt
<1> QED
  BY <1>1, <1>3, <1>4 DEF KeyAt, Keys

\* A link may be in the chain of a key when it is one of a headword given.
LEMMA LinksForMember ==
  ASSUME NEW k, NEW l
  PROVE  l \in LinksFor(k) <=>
           \E q \in put : \E i \in Starts(q[1]) : l = Link(q[1], i, q[2]) /\ KeyAt(q[1], i) = k
<1> DEFINE Of(q) == {Link(q[1], i, q[2]) : i \in {j \in Starts(q[1]) : KeyAt(q[1], j) = k}}
<1>1. l \in LinksFor(k) <=> \E q \in put : l \in Of(q)
  BY Zenon DEF LinksFor
<1>2. \A q \in put : l \in Of(q) <=>
        \E i \in Starts(q[1]) : l = Link(q[1], i, q[2]) /\ KeyAt(q[1], i) = k
  BY Zenon
<1> QED
  BY <1>1, <1>2, Zenon

\* The keys of a phrase are finitely many.
LEMMA FewKeys ==
  ASSUME NEW p \in Phrases
  PROVE  IsFiniteSet({KeyAt(p, i) : i \in Starts(p)})
<1> DEFINE S == Starts(p)
           T == {KeyAt(p, i) : i \in S}
           f == [i \in S |-> KeyAt(p, i)]
<1>1. IsFiniteSet(S)
  <2>1. S \subseteq 1 .. Len(p.text) + 1 /\ Len(p.text) \in Nat
    BY StartsFacts
  <2>2. IsFiniteSet(1 .. Len(p.text) + 1)
    BY <2>1, FS_Interval
  <2> QED
    BY <2>1, <2>2, FS_Subset
<1>2. f \in [S -> T] /\ \A t \in T : \E i \in S : f[i] = t
  BY Zenon
<1> HIDE DEF S, T, f
<1>3. f \in Surjection(S, T)
  BY <1>2, Zenon DEF Surjection
<1>4. IsFiniteSet(T)
  BY <1>1, <1>3, FS_Surjection
<1> QED
  BY <1>4 DEF S, T

\* The blocks keep their addresses while the source is read.
LEMMA StorageGrows ==
  ASSUME StorageInv, StartNewBlock \/ \E n \in 1 .. MaxBytes : AddToBlock(n)
  PROVE  /\ StorageInv' /\ Blocks \subseteq Blocks'
         /\ \A b \in Blocks : address'[b] = address[b]
<1>0. nBlocks \in Nat
  BY DEF StorageInv, StorageShape
<1>1. CASE StartNewBlock
  <2>1. StorageInv'
    BY <1>1, StartKeeps
  <2>2. /\ nBlocks' = nBlocks + 1
        /\ address' = [b \in 1 .. nBlocks + 1 |->
             IF b = nBlocks + 1 THEN address'[b] ELSE address[b]]
    <3>1. \E used, n : NewBlock(used, n)
      BY <1>1, Zenon DEF StartNewBlock, StartInChunk, StartAfterFlush
    <3>2. PICK used, n : NewBlock(used, n)
      BY <3>1, Zenon
    <3> QED
      BY <1>0, <3>2 DEF NewBlock
  <2>3. \A b \in Blocks : b \in 1 .. nBlocks + 1 /\ b # nBlocks + 1
    BY <1>0 DEF Blocks
  <2>4. Blocks \subseteq Blocks'
    BY <1>0, <2>2 DEF Blocks
  <2>5. \A b \in Blocks : address'[b] = address[b]
    BY <2>2, <2>3, Zenon
  <2> QED
    BY <2>1, <2>4, <2>5
<1>2. CASE \E n \in 1 .. MaxBytes : AddToBlock(n)
  <2>1. PICK n \in 1 .. MaxBytes : AddToBlock(n)
    BY <1>2, Zenon
  <2>2. StorageInv'
    BY <2>1, AddKeeps
  <2> QED
    BY <2>1, <2>2 DEF AddToBlock, Blocks
<1> QED
  BY <1>1, <1>2

\* New blocks change nothing for the words gathered.
LEMMA EntriesKept ==
  ASSUME EntriesInv, UNCHANGED <<entries, put>>, Blocks \subseteq Blocks',
         \A b \in Blocks : address'[b] = address[b]
  PROVE  EntriesInv' /\ Given' = Given
<1>1. \A q \in put : q[2] \in Blocks /\ q[1] \in Phrases
  BY DEF EntriesInv
<1>2. Given' = Given
  <2>1. \A p \in Phrases : (\E b \in Blocks' : <<p, b>> \in put) <=> \E b \in Blocks : <<p, b>> \in put
    <3> SUFFICES ASSUME NEW p \in Phrases, NEW b \in Blocks', <<p, b>> \in put PROVE b \in Blocks
      BY Zenon
    <3>1. <<p, b>>[2] \in Blocks
      BY <1>1, Zenon
    <3> QED
      BY <3>1
  <2> QED
    BY <2>1, Zenon DEF Given
<1>3. \A q \in put : \A i : Link(q[1], i, q[2])' = Link(q[1], i, q[2])
  BY <1>1 DEF Link
<1>4. ASSUME NEW k
      PROVE  LinksFor(k)' = LinksFor(k)
  <2> DEFINE I(q) == {j \in Starts(q[1]) : KeyAt(q[1], j) = k}
             Before1(q) == {Link(q[1], i, q[2]) : i \in I(q)}
             After1(q) == {Link(q[1], i, q[2])' : i \in I(q)}
  <2>1. LinksFor(k) = UNION {Before1(q) : q \in put}
        /\ LinksFor(k)' = UNION {After1(q) : q \in put}
    BY Zenon DEF LinksFor
  <2>2. \A q \in put : After1(q) = Before1(q)
    BY <1>3, Zenon
  <2> HIDE DEF After1, Before1
  <2>3. {After1(q) : q \in put} = {Before1(q) : q \in put}
    BY <2>2, Zenon
  <2> QED
    BY <2>1, <2>3, Zenon
<1>5. \A p, i : CrowdedOut(p, i)' <=> CrowdedOut(p, i)
  BY DEF CrowdedOut, Chain
<1>6. \A q \in put : \A i \in Starts(q[1]) : Linked(q[1], i, q[2])'
  BY <1>3, <1>5, Zenon DEF EntriesInv, Linked
<1>7. put' \subseteq Phrases \X Blocks'
  BY DEF EntriesInv
<1>8. \A k \in DOMAIN entries : entries[k] \in Seq(LinksFor(k)')
  BY <1>4, Zenon DEF EntriesInv
<1> QED
  BY <1>2, <1>6, <1>7, <1>8 DEF EntriesInv

\* The same after a step that leaves the addresses alone.
LEMMA LinksForMemberNext ==
  ASSUME NEW k, NEW l, UNCHANGED address
  PROVE  l \in LinksFor(k)' <=>
           \E q \in put' : \E i \in Starts(q[1]) : l = Link(q[1], i, q[2]) /\ KeyAt(q[1], i) = k
<1> DEFINE Of(q) == {Link(q[1], i, q[2]) : i \in {j \in Starts(q[1]) : KeyAt(q[1], j) = k}}
<1>0. \A p, i, b : Link(p, i, b)' = Link(p, i, b)
  BY DEF Link
<1>1. LinksFor(k)' =
        UNION {{Link(q[1], i, q[2])' : i \in {j \in Starts(q[1]) : KeyAt(q[1], j) = k}} :
                 q \in put'}
  BY Zenon DEF LinksFor
<1>2. l \in LinksFor(k)' <=> \E q \in put' : l \in Of(q)
  <2> DEFINE Then(q) == {Link(q[1], i, q[2])' : i \in {j \in Starts(q[1]) : KeyAt(q[1], j) = k}}
  <2>1. \A q : Then(q) = Of(q)
    BY <1>0, Zenon
  <2>2. LinksFor(k)' = UNION {Then(q) : q \in put'}
    BY <1>1, Zenon
  <2> HIDE DEF Then, Of
  <2>3. l \in LinksFor(k)' <=> \E q \in put' : l \in Then(q)
    BY <2>2, Zenon
  <2> QED
    BY <2>1, <2>3, Zenon
<1>3. \A q \in put' : l \in Of(q) <=>
        \E i \in Starts(q[1]) : l = Link(q[1], i, q[2]) /\ KeyAt(q[1], i) = k
  BY Zenon
<1> QED
  BY <1>2, <1>3, Zenon

\* What addWord() does to the chain of each key.
LEMMA ChainsAfterAdd ==
  ASSUME NEW p \in Phrases, AddWord(p)
  PROVE  LET new == {KeyAt(p, i) : i \in Starts(p)}
         IN  /\ DOMAIN entries' = DOMAIN entries \cup new
             /\ \A k \in DOMAIN entries \ new : entries'[k] = entries[k]
             /\ \A i \in Starts(p) : LET k == KeyAt(p, i)
                                     IN  entries'[k] = IF Kept(Chain(k), p, i)
                                                       THEN Append(Chain(k), Link(p, i, nBlocks))
                                                       ELSE Chain(k)
<1> DEFINE new == {KeyAt(p, i) : i \in Starts(p)}
           at == [k \in new |-> Len(p.text) + 1 - Len(k)]
           Longer(k) == IF k \in DOMAIN at /\ Kept(Chain(k), p, at[k])
                        THEN Append(Chain(k), [phrase |-> p, from |-> at[k],
                                               article |-> address[nBlocks]])
                        ELSE Chain(k)
<1>1. entries' = [k \in DOMAIN entries \cup DOMAIN at |-> Longer(k)]
  BY Zenon DEF AddWord
<1>2. DOMAIN at = new
  BY Zenon
<1>3. \A k \in new : at[k] = Len(p.text) + 1 - Len(k)
  BY Zenon
<1>4. ASSUME NEW i \in Starts(p)
      PROVE  KeyAt(p, i) \in new /\ at[KeyAt(p, i)] = i
  <2>1. KeyAt(p, i) \in new
    BY Zenon
  <2>2. Len(p.text) + 1 - Len(KeyAt(p, i)) = i
    BY KeyFacts
  <2> HIDE DEF new, at
  <2> QED
    BY <2>1, <2>2, <1>3
<1> HIDE DEF at, new
<1>5. \A k \in DOMAIN entries \ new : entries'[k] = entries[k]
  <2> SUFFICES ASSUME NEW k \in DOMAIN entries \ new PROVE entries'[k] = entries[k]
    BY Zenon
  <2>1. entries'[k] = Longer(k)
    BY <1>1, Zenon
  <2>2. Longer(k) = Chain(k)
    BY <1>2, Zenon
  <2> QED
    BY <2>1, <2>2, Zenon DEF Chain
<1>6. ASSUME NEW i \in Starts(p)
      PROVE  entries'[KeyAt(p, i)] = IF Kept(Chain(KeyAt(p, i)), p, i)
                                     THEN Append(Chain(KeyAt(p, i)), Link(p, i, nBlocks))
                                     ELSE Chain(KeyAt(p, i))
  <2> DEFINE k == KeyAt(p, i)
  <2>1. k \in DOMAIN at /\ at[k] = i
    BY <1>2, <1>4, Zenon
  <2> HIDE DEF k
  <2>2. entries'[k] = Longer(k)
    BY <1>1, <2>1, Zenon
  <2>3. [phrase |-> p, from |-> at[k], article |-> address[nBlocks]] = Link(p, i, nBlocks)
    BY <2>1 DEF Link
  <2>4. CASE Kept(Chain(k), p, i)
    <3>1. Longer(k) = Append(Chain(k), Link(p, i, nBlocks))
      BY <2>1, <2>3, <2>4, Zenon
    <3> QED
      BY <2>2, <2>4, <3>1, Zenon DEF k
  <2>5. CASE ~Kept(Chain(k), p, i)
    <3>1. Longer(k) = Chain(k)
      BY <2>1, <2>5, Zenon
    <3> QED
      BY <2>2, <2>5, <3>1, Zenon DEF k
  <2> QED
    BY <2>4, <2>5
<1> HIDE DEF Longer
<1>7. DOMAIN entries' = DOMAIN entries \cup new
  BY <1>1, <1>2, Zenon
<1> QED
  BY <1>5, <1>6, <1>7, Zenon DEF new

\* addWord() keeps what the words gathered promise: chains only grow, and one link is
\* left out only of a full chain.
LEMMA EntriesAdd ==
  ASSUME EntriesInv, StorageInv, NEW p \in Phrases, AddWord(p)
  PROVE  EntriesInv'
<1> DEFINE b == nBlocks
           new == {KeyAt(p, i) : i \in Starts(p)}
<1>1. /\ put' = put \cup {<<p, b>>} /\ UNCHANGED storageVars
      /\ b \in Blocks /\ Blocks' = Blocks /\ UNCHANGED address
  <2>1. put' = put \cup {<<p, b>>} /\ UNCHANGED storageVars /\ nBlocks > 0
    BY DEF AddWord
  <2>2. nBlocks' = nBlocks /\ UNCHANGED address
    BY <2>1 DEF storageVars
  <2>3. b \in Blocks
    BY <2>1 DEF Blocks, StorageInv, StorageShape
  <2> QED
    BY <2>1, <2>2, <2>3 DEF Blocks
<1>2. /\ DOMAIN entries' = DOMAIN entries \cup new
      /\ \A k \in DOMAIN entries \ new : entries'[k] = entries[k]
      /\ \A i \in Starts(p) : LET k == KeyAt(p, i)
                              IN  entries'[k] = IF Kept(Chain(k), p, i)
                                                THEN Append(Chain(k), Link(p, i, nBlocks))
                                                ELSE Chain(k)
  BY ChainsAfterAdd
<1>3. /\ put \subseteq Phrases \X Blocks /\ IsFiniteSet(Given)
      /\ DOMAIN entries \subseteq Keys /\ IsFiniteSet(DOMAIN entries)
      /\ \A k \in DOMAIN entries : entries[k] \in Seq(LinksFor(k))
      /\ \A q \in put : \A i \in Starts(q[1]) : Linked(q[1], i, q[2])
  BY DEF EntriesInv
<1>4. put' \subseteq Phrases \X Blocks'
  BY <1>1, <1>3
<1>5. IsFiniteSet(Given')
  <2>1. Given' = Given \cup {p}
    <3>1. \A r \in Phrases : (\E c \in Blocks : <<r, c>> \in put') <=>
                             r = p \/ \E c \in Blocks : <<r, c>> \in put
      BY <1>1
    <3> QED
      BY <1>1, <3>1 DEF Given
  <2> QED
    BY <1>3, <2>1, FS_AddElement
<1>6. DOMAIN entries' \subseteq Keys /\ IsFiniteSet(DOMAIN entries')
  <2>1. new \subseteq Keys
    BY KeyFacts
  <2>2. IsFiniteSet(new)
    BY FewKeys
  <2> HIDE DEF new
  <2> QED
    BY <1>2, <1>3, <2>1, <2>2, FS_Union
<1>7. \A k : Chain(k) \in Seq(LinksFor(k))
  <2> SUFFICES ASSUME NEW k PROVE Chain(k) \in Seq(LinksFor(k))
    OBVIOUS
  <2>1. CASE k \in DOMAIN entries
    BY <1>3, <2>1 DEF Chain
  <2>2. CASE k \notin DOMAIN entries
    <3>1. Chain(k) = <<>>
      BY <2>2 DEF Chain
    <3> QED
      BY <3>1
  <2> QED
    BY <2>1, <2>2
<1>8. \A k : LinksFor(k) \subseteq LinksFor(k)'
  <2> SUFFICES ASSUME NEW k, NEW l \in LinksFor(k) PROVE l \in LinksFor(k)'
    BY Zenon
  <2>1. \E q \in put : \E i \in Starts(q[1]) : l = Link(q[1], i, q[2]) /\ KeyAt(q[1], i) = k
    BY LinksForMember, Zenon
  <2>2. \E q \in put' : \E i \in Starts(q[1]) : l = Link(q[1], i, q[2]) /\ KeyAt(q[1], i) = k
    BY <1>1, <2>1, Zenon
  <2>3. UNCHANGED address
    BY <1>1
  <2> QED
    BY <2>2, <2>3, LinksForMemberNext, Zenon
<1>9. \A k : Chain(k) \in Seq(LinksFor(k)')
  <2> SUFFICES ASSUME NEW k PROVE Chain(k) \in Seq(LinksFor(k)')
    OBVIOUS
  <2> DEFINE S == LinksFor(k)
             T == LinksFor(k)'
             s == Chain(k)
  <2>1. s \in Seq(S) /\ S \subseteq T
    BY <1>7, <1>8, Zenon
  <2> HIDE DEF S, T, s
  <2>2. s \in Seq(T)
    <3>1. s \in [1 .. Len(s) -> S] /\ Len(s) \in Nat
      BY <2>1, LenProperties
    <3>2. s \in [1 .. Len(s) -> T]
      BY <2>1, <3>1
    <3> QED
      BY <3>1, <3>2, SeqDef
  <2> QED
    BY <2>2 DEF T, s
<1>10. \A i \in Starts(p) : Link(p, i, b) \in LinksFor(KeyAt(p, i))'
  <2> SUFFICES ASSUME NEW i \in Starts(p) PROVE Link(p, i, b) \in LinksFor(KeyAt(p, i))'
    OBVIOUS
  <2>1. <<p, b>> \in put' /\ <<p, b>>[1] = p /\ <<p, b>>[2] = b
    BY <1>1
  <2>2. \E q \in put' : \E j \in Starts(q[1]) :
          Link(p, i, b) = Link(q[1], j, q[2]) /\ KeyAt(q[1], j) = KeyAt(p, i)
    BY <2>1, Zenon
  <2> QED
    BY <1>1, <2>2, LinksForMemberNext
<1> HIDE DEF new
<1>11. ASSUME NEW k \in DOMAIN entries'
       PROVE  /\ entries'[k] \in Seq(LinksFor(k)')
              /\ Range(Chain(k)) \subseteq Range(entries'[k]) /\ Len(Chain(k)) <= Len(entries'[k])
  <2> DEFINE T == LinksFor(k)'
             s == Chain(k)
             e == entries'[k]
  <2>1. e = s \/ \E i \in Starts(p) : k = KeyAt(p, i) /\ e = Append(s, Link(p, i, b))
    <3>1. CASE k \in new
      <4>1. PICK i \in Starts(p) : k = KeyAt(p, i)
        BY <3>1 DEF new
      <4>2. e = IF Kept(s, p, i) THEN Append(s, Link(p, i, b)) ELSE s
        BY <1>2, <4>1, Zenon
      <4> HIDE DEF e, s
      <4> QED
        BY <4>1, <4>2
    <3>2. CASE k \notin new
      <4>1. k \in DOMAIN entries \ new
        BY <1>2, <3>2
      <4> QED
        BY <1>2, <4>1 DEF Chain
    <3> QED
      BY <3>1, <3>2
  <2>2. s \in Seq(T)
    BY <1>9, Zenon
  <2>3. \A i \in Starts(p) : k = KeyAt(p, i) => Link(p, i, b) \in T
    BY <1>10, Zenon
  <2> HIDE DEF T, s, e
  <2>4. CASE e = s
    <3>1. Len(s) \in Nat
      BY <2>2, LenProperties
    <3> QED
      BY <2>2, <2>4, <3>1 DEF T, s, e
  <2>5. ASSUME NEW i \in Starts(p), k = KeyAt(p, i), e = Append(s, Link(p, i, b))
        PROVE  e \in Seq(T) /\ Range(s) \subseteq Range(e) /\ Len(s) <= Len(e)
    <3> DEFINE l == Link(p, i, b)
    <3>1. l \in T
      BY <2>3, <2>5
    <3> HIDE DEF l
    <3>2. /\ e \in Seq(T) /\ Len(e) = Len(s) + 1 /\ Len(s) \in Nat
          /\ \A j \in 1 .. Len(s) : e[j] = s[j]
          /\ DOMAIN s = 1 .. Len(s) /\ DOMAIN e = 1 .. Len(e)
      <4>1. e = Append(s, l)
        BY <2>5 DEF l
      <4> QED
        BY <2>2, <3>1, <4>1, AppendProperties, LenProperties
    <3> QED
      BY <3>2 DEF Range
  <2> QED
    BY <2>1, <2>4, <2>5 DEF T, s, e
<1>12. \A q \in put' : \A i \in Starts(q[1]) : Linked(q[1], i, q[2])'
  <2> SUFFICES ASSUME NEW q \in put', NEW i \in Starts(q[1]) PROVE Linked(q[1], i, q[2])'
    BY Zenon
  <2> DEFINE k == KeyAt(q[1], i)
             l == Link(q[1], i, q[2])
  <2>0. q[1] \in Phrases /\ k \in Keys
    <3>1. q[1] \in Phrases
      BY <1>4
    <3> QED
      BY <3>1, KeyFacts
  <2>1. Link(q[1], i, q[2])' = l
    BY <1>1 DEF Link
  <2> SUFFICES k \in DOMAIN entries' /\ (l \in Range(entries'[k]) \/ CrowdedOut(q[1], i)')
    BY <2>1, Zenon DEF Linked
  <2>2. ASSUME k \in DOMAIN entries', Len(Chain(k)) >= ChainCap, ~IsWhole(q[1], i)
        PROVE  CrowdedOut(q[1], i)'
    <3>1. Len(Chain(k)) <= Len(entries'[k]) /\ Len(Chain(k)) \in Nat /\ Len(entries'[k]) \in Nat
      <4>1. Chain(k) \in Seq(LinksFor(k)') /\ entries'[k] \in Seq(LinksFor(k)')
            /\ Len(Chain(k)) <= Len(entries'[k])
        BY <1>9, <1>11, <2>2
      <4> QED
        BY <4>1, LenProperties
    <3>2. Chain(k)' = entries'[k]
      BY <2>2 DEF Chain
    <3>3. ChainCap \in Nat
      BY DictIndexAssumption DEF DictIndexAssumption
    <3>4. Len(entries'[k]) >= ChainCap
      BY <2>2, <3>1, <3>3
    <3>5. Len(Chain(k)') >= ChainCap
      BY <3>2, <3>4
    <3> QED
      BY <2>2, <3>5, Zenon DEF CrowdedOut
  <2>3. CASE q \in put
    <3>1. Linked(q[1], i, q[2])
      BY <1>3, <2>3
    <3>2. k \in DOMAIN entries /\ (l \in Range(entries[k]) \/ CrowdedOut(q[1], i))
      BY <3>1 DEF Linked
    <3>3. k \in DOMAIN entries'
      BY <1>2, <3>2
    <3>4. Chain(k) = entries[k]
      BY <3>2 DEF Chain
    <3>5. CASE l \in Range(entries[k])
      <4>1. Range(Chain(k)) \subseteq Range(entries'[k])
        BY <1>11, <3>3
      <4> QED
        BY <3>3, <3>4, <3>5, <4>1
    <3>6. CASE CrowdedOut(q[1], i)
      BY <2>2, <3>3, <3>6, Zenon DEF CrowdedOut
    <3> QED
      BY <3>2, <3>5, <3>6
  <2>4. CASE q = <<p, b>>
    <3>1. q[1] = p /\ q[2] = b /\ i \in Starts(p) /\ k = KeyAt(p, i) /\ l = Link(p, i, b)
      BY <2>4
    <3>2. k \in DOMAIN entries'
      BY <1>2, <3>1 DEF new
    <3> DEFINE s == Chain(k)
               e == entries'[k]
    <3>3. e = IF Kept(s, p, i) THEN Append(s, l) ELSE s
      BY <1>2, <3>1, Zenon
    <3>4. s \in Seq(LinksFor(k)') /\ l \in LinksFor(k)'
      BY <1>9, <1>10, <3>1, Zenon
    <3> HIDE DEF k, l, s, e
    <3>5. CASE Kept(s, p, i)
      <4>1. e = Append(s, l)
        BY <3>3, <3>5
      <4>2. /\ e \in Seq(LinksFor(k)') /\ Len(e) = Len(s) + 1 /\ Len(s) \in Nat /\ e[Len(s) + 1] = l
        BY <3>4, <4>1, AppendProperties, LenProperties
      <4>3. DOMAIN e = 1 .. Len(e)
        BY <4>2, LenProperties
      <4>4. l \in Range(e)
        BY <4>2, <4>3 DEF Range
      <4> QED
        BY <3>2, <4>4 DEF e, k, l
    <3>6. CASE ~Kept(s, p, i)
      <4>1. ~(Len(s) < ChainCap) /\ ~IsWhole(p, i)
        BY <3>6 DEF Kept
      <4>2. Len(s) >= ChainCap
        <5>1. Len(s) \in Nat /\ ChainCap \in Nat
          BY <3>4, DictIndexAssumption, LenProperties DEF DictIndexAssumption
        <5> QED
          BY <4>1, <5>1
      <4>3. CrowdedOut(q[1], i)'
        BY <2>2, <3>1, <3>2, <4>1, <4>2 DEF s, k
      <4> QED
        BY <3>2, <4>3 DEF k
    <3> QED
      BY <3>5, <3>6
  <2> QED
    BY <1>1, <2>3, <2>4
<1> QED
  BY <1>4, <1>5, <1>6, <1>11, <1>12 DEF EntriesInv

-----------------------------------------------------------------------------
(* The search. *)

\* Once the source is read the index is the one of its words.
LEMMA IndexReady ==
  ASSUME EntriesInv, PhaseInv, phase # "source"
  PROVE  IndexOK(idx, DOMAIN entries)
<1>1. idx = BuildIndex(DOMAIN entries)
  BY DEF PhaseInv
<1>2. DOMAIN entries \in SUBSET Keys /\ IsFiniteSet(DOMAIN entries)
  BY DEF EntriesInv
<1> QED
  BY <1>1, <1>2, IndexBuilt

\* The chain found for a string is at a key not before it, and no key that begins with
\* the string is passed over.
LEMMA FoundChain ==
  ASSUME NEW keys \in SUBSET Keys, NEW ix, IndexOK(ix, keys), NEW t \in Keys
  PROVE  LET c == FindChain(ix, t)
         IN  /\ c # NoChain => c \in Chains(ix) /\ ~KeyLess(ix.words[c.at], t)
             /\ \A k \in 1 .. Len(ix.words) :
                  ~KeyLess(ix.words[k], t) => c # NoChain /\ ~(k < c.at)
<1> DEFINE words == ix.words
           n == Len(words)
           c == FindChain(ix, t)
<1>1. InOrder(words, keys \ {<<>>}) /\ keys \ {<<>>} \in SUBSET Keys
  BY DEF IndexOK
<1>2. n \in Nat
  BY <1>1, LenProperties DEF InOrder
<1>3. PICK L \in Nat : LowerBound(words, t, L)
  BY <1>1, LowerBoundExists
<1>4. ChainAt(ix, c, L)
  BY <1>3, FindChainRight
<1>5. \A e \in Chains(ix) : e # NoChain /\ e.at \in 1 .. n
  BY ChainFacts
<1> HIDE DEF c
<1>6. \A k \in 1 .. n : KeyLess(words[k], t) <=> k < L
  BY <1>3 DEF LowerBound
<1> HIDE DEF n
<1>7. L > Len(ix.words) <=> L > n
  BY DEF n
<1>8. ASSUME c # NoChain
      PROVE  c \in Chains(ix) /\ ~KeyLess(words[c.at], t)
  <2>1. c \in Chains(ix) /\ c.at = L
    BY <1>4, <1>8 DEF ChainAt
  <2>2. c.at \in 1 .. n /\ ~(L < L)
    BY <1>5, <2>1
  <2> QED
    BY <1>6, <2>1, <2>2
<1>9. ASSUME NEW k \in 1 .. n, ~KeyLess(words[k], t)
      PROVE  c # NoChain /\ ~(k < c.at)
  <2>1. ~(k < L)
    BY <1>6, <1>9
  <2>2. ~(L > n)
    BY <1>2, <2>1
  <2>3. c \in Chains(ix) /\ c.at = L
    BY <1>4, <1>7, <2>2 DEF ChainAt
  <2> QED
    BY <1>5, <2>1, <2>3
<1> QED
  BY <1>8, <1>9 DEF n, c

\* The letters that may be chopped are letters of the string.
LEMMA ChopFacts ==
  ASSUME NEW s \in Keys
  PROVE  CharsToChop(s) \in 0 .. Len(s) /\ Len(s) \in Nat
<1>0. Len(s) \in Nat /\ StemMinLength \in Nat /\ StemMaxSuffix \in Nat
  BY DictIndexAssumption, LenProperties DEF DictIndexAssumption, Keys
<1>1. CASE Len(s) <= StemMinLength
  BY <1>0, <1>1 DEF CharsToChop
<1>2. CASE ~(Len(s) <= StemMinLength)
  <2> DEFINE a == Len(s) - StemMinLength
             T == {a, StemMaxSuffix}
  <2>1. a \in 0 .. Len(s) /\ a \in Nat /\ StemMaxSuffix \in Nat
    BY <1>0, <1>2
  <2>2. CharsToChop(s) = Min(T)
    BY <1>2 DEF CharsToChop
  <2> HIDE DEF a
  <2>3. T \subseteq Nat /\ T # {}
    BY <2>1
  <2>4. Min(T) \in T /\ \A y \in T : Min(T) <= y
    <3>1. \E x \in T : \A y \in T : x <= y
      <4> HIDE DEF T
      <4> QED
        BY <2>3, SmallestNumber
    <3> HIDE DEF T
    <3> QED
      BY <3>1, Zenon DEF Min
  <2>5. Min(T) \in Nat /\ Min(T) <= a
    BY <2>3, <2>4
  <2> HIDE DEF T
  <2> QED
    BY <1>0, <2>1, <2>2, <2>5
<1> QED
  BY <1>0, <1>1, <1>2

\* Chopping takes the last letter off.
LEMMA FrontOfPart ==
  ASSUME NEW s \in Keys, NEW n \in 1 .. Len(s)
  PROVE  /\ SubSeq(s, 1, n) \in Keys /\ Len(SubSeq(s, 1, n)) = n
         /\ \A i \in 1 .. n : SubSeq(s, 1, n)[i] = s[i]
         /\ Front(SubSeq(s, 1, n)) = SubSeq(s, 1, n - 1)
<1>1. Len(s) \in Nat /\ \A i \in 1 .. Len(s) : s[i] \in Nat
  BY LenProperties, ElementOfSeq DEF Keys
<1> DEFINE u == SubSeq(s, 1, n)
           v == SubSeq(s, 1, n - 1)
           w == Front(u)
<1>2. u \in Seq(Nat) /\ Len(u) = n /\ \A i \in 1 .. n : u[i] = s[i]
  BY <1>1, SubSeqProperties
<1>3. v \in Seq(Nat) /\ Len(v) = n - 1 /\ \A i \in 1 .. n - 1 : v[i] = s[i]
  BY <1>1, SubSeqProperties
<1>4. w = SubSeq(u, 1, n - 1)
  BY <1>2 DEF Front
<1> HIDE DEF u, v, w
<1>5. w \in Seq(Nat) /\ Len(w) = n - 1 /\ \A i \in 1 .. n - 1 : w[i] = u[i]
  BY <1>1, <1>2, <1>4, SubSeqProperties
<1>6. w = v
  <2>1. \A i \in 1 .. n - 1 : w[i] = v[i]
    <3>1. \A i \in 1 .. n - 1 : i \in 1 .. n
      BY <1>1
    <3> QED
      BY <1>2, <1>3, <1>5, <3>1, Zenon
  <2> QED
    BY <1>3, <1>5, <2>1, SeqEqual
<1> QED
  BY <1>2, <1>6 DEF u, v, w, Keys

\* The matches after a chain with some links, from those before it: nothing is added but
\* the phrases of wanted links, and all of them when there is room.
ChainRead(m, links, key) ==
  /\ matches \subseteq m.all /\ m.full \in BOOLEAN
  /\ \A p \in m.all \ matches : \E j \in 1 .. Len(links) : p = links[j].phrase /\ Wanted(links[j], key)
  /\ m.full => Cardinality(m.all) >= MaxResults
  /\ ~m.full => \A j \in 1 .. Len(links) : Wanted(links[j], key) => links[j].phrase \in m.all

\* The loop over the links of a chain.
LEMMA AfterChainRight ==
  ASSUME NEW key, NEW X, entries[key] \in Seq(X), IsFiniteSet(matches)
  PROVE  ChainRead(AfterChain(key), entries[key], key)
<1> DEFINE links == entries[key]
           N == Len(links)
           Turn(i, m) == AfterLink(m, links[i], key)
           first == [all |-> matches, full |-> FALSE]
           Step(f) == [i \in 0 .. Len(links) |->
                         IF i = 0 THEN [all |-> matches, full |-> FALSE]
                         ELSE AfterLink(f[i - 1], links[i], key)]
           after == CHOOSE f : f = Step(f)
           A == matches \cup {links[i].phrase : i \in 1 .. N}
           V == [all : SUBSET A, full : BOOLEAN]
           T == [i \in 1 .. N |-> [m \in V |-> Turn(i, m)]]
<1>1. AfterChain(key) = after[N]
  BY Zenon DEF AfterChain
<1>2. N \in Nat
  BY LenProperties
<1> HIDE DEF after
<1>A. IsFiniteSet(A)
  <2> DEFINE P == {links[i].phrase : i \in 1 .. N}
             f == [i \in 1 .. N |-> links[i].phrase]
  <2>1. f \in Surjection(1 .. N, P)
    BY Zenon DEF Surjection
  <2>2. IsFiniteSet(1 .. N)
    BY <1>2, FS_Interval
  <2> HIDE DEF f, P
  <2>3. IsFiniteSet(P)
    BY <2>1, <2>2, FS_Surjection
  <2> QED
    BY <2>3, FS_Union DEF P
<1>3. ASSUME NEW i \in 1 .. N, NEW m \in V
      PROVE  /\ Turn(i, m) \in V
             /\ m.full => Turn(i, m) = m
             /\ ~m.full =>
                  /\ Turn(i, m).all = m.all \cup (IF Wanted(links[i], key) THEN {links[i].phrase} ELSE {})
                  /\ Turn(i, m).full <=> Cardinality(Turn(i, m).all) >= MaxResults
  <2>1. m.full \in BOOLEAN /\ m.all \subseteq A /\ links[i].phrase \in A
    BY Zenon
  <2> DEFINE all == m.all \cup (IF Wanted(links[i], key) THEN {links[i].phrase} ELSE {})
  <2>2. all \subseteq A
    <3> HIDE DEF A
    <3> QED
      BY <2>1, Zenon
  <2>3. (Cardinality(all) >= MaxResults) \in BOOLEAN
    <3> HIDE DEF all, A
    <3>1. IsFiniteSet(all)
      BY <1>A, <2>2, FS_Subset
    <3>2. Cardinality(all) \in Nat /\ MaxResults \in Nat
      BY <3>1, FS_CardinalityType, DictIndexAssumption DEF DictIndexAssumption
    <3> QED
      BY <3>2
  <2> HIDE DEF all, A
  <2>4. CASE m.full
    <3>1. Turn(i, m) = m
      BY <2>4, Zenon DEF AfterLink
    <3> QED
      BY <2>4, <3>1
  <2>5. CASE ~m.full
    <3>1. Turn(i, m) = [all |-> all, full |-> Cardinality(all) >= MaxResults]
      BY <2>5, Zenon DEF AfterLink, all
    <3> DEFINE big == Cardinality(all) >= MaxResults
    <3> HIDE DEF big
    <3>2. Turn(i, m) = [all |-> all, full |-> big] /\ big \in BOOLEAN
      BY <2>3, <3>1 DEF big
    <3> DEFINE r == Turn(i, m)
    <3> HIDE DEF r
    <3>3. r = [all |-> all, full |-> big]
      BY <3>2 DEF r
    <3>4. r \in V /\ r.all = all /\ (r.full <=> big)
      BY <2>2, <3>2, <3>3
    <3>5. big <=> Cardinality(r.all) >= MaxResults
      BY <3>4, Zenon DEF big
    <3> QED
      BY <2>5, <3>4, <3>5 DEF all, r
  <2> QED
    BY <2>4, <2>5
<1>4. first \in V /\ first.all = matches /\ ~first.full
  BY Zenon
<1> HIDE DEF Turn, V, first
<1>5. T \in [1 .. N -> [V -> V]] /\ \A i \in 1 .. N, m \in V : T[i][m] = Turn(i, m)
  BY <1>3
<1> HIDE DEF T
<1>6. PICK h \in [0 .. N -> V] : Runs(h, N, first, T)
  BY <1>2, <1>4, <1>5, LoopExists
<1>7. h[0] = first /\ \A i \in 1 .. N : h[i] = Turn(i, h[i - 1])
  <2>1. h[0] = first /\ \A i \in 1 .. N : h[i] = T[i][h[i - 1]]
    BY <1>6 DEF Runs
  <2>2. \A i \in 1 .. N : h[i - 1] \in V
    BY <1>2, <1>6
  <2> QED
    BY <1>5, <2>1, <2>2
<1>8. h = Step(h)
  <2>1. \A i \in 0 .. N : h[i] = IF i = 0 THEN first ELSE Turn(i, h[i - 1])
    <3> SUFFICES ASSUME NEW i \in 0 .. N PROVE h[i] = IF i = 0 THEN first ELSE Turn(i, h[i - 1])
      OBVIOUS
    <3>1. i # 0 => i \in 1 .. N
      BY <1>2
    <3> QED
      BY <1>7, <3>1
  <2>2. h = [i \in 0 .. N |-> h[i]]
    BY <1>6
  <2> QED
    BY <2>1, <2>2, Zenon DEF Turn, first
<1>9. after = Step(after)
  BY <1>8, Zenon DEF after
<1>10. \A i \in 0 .. N : after[i] = IF i = 0 THEN first ELSE Turn(i, after[i - 1])
  BY <1>9, Zenon DEF Turn, first
<1> DEFINE Fine(i) ==
      /\ after[i] \in V
      /\ matches \subseteq after[i].all
      /\ \A p \in after[i].all \ matches :
           \E j \in 1 .. i : p = links[j].phrase /\ Wanted(links[j], key)
      /\ after[i].full => Cardinality(after[i].all) >= MaxResults
      /\ ~after[i].full => \A j \in 1 .. i : Wanted(links[j], key) => links[j].phrase \in after[i].all
           Bad == {i \in 0 .. N : ~Fine(i)}
<1>11. Fine(0)
  <2>1. after[0] = first
    BY <1>2, <1>10
  <2> QED
    BY <1>4, <2>1
<1>12. ASSUME NEW i \in 1 .. N, Fine(i - 1)
       PROVE  Fine(i)
  <2> DEFINE m == after[i - 1]
             r == after[i]
  <2>1. r = Turn(i, m) /\ m \in V
    <3>1. i \in 0 .. N /\ i # 0
      BY <1>2
    <3> QED
      BY <1>10, <1>12, <3>1, Zenon
  <2>2. 1 .. i = (1 .. i - 1) \cup {i}
    BY <1>2
  <2>3. m.full \in BOOLEAN /\ r.full \in BOOLEAN /\ r \in V
    <3>1. r \in V
      BY <1>3, <2>1
    <3> QED
      BY <2>1, <3>1, Zenon DEF V
  <2>4. CASE m.full
    <3>1. r = m
      BY <1>3, <2>1, <2>4
    <3> QED
      BY <1>12, <2>2, <2>4, <3>1, Zenon
  <2>5. CASE ~m.full
    <3>1. /\ r.all = m.all \cup (IF Wanted(links[i], key) THEN {links[i].phrase} ELSE {})
          /\ r.full <=> Cardinality(r.all) >= MaxResults
      BY <1>3, <2>1, <2>5
    <3>2. /\ matches \subseteq m.all
          /\ \A p \in m.all \ matches :
               \E j \in 1 .. i - 1 : p = links[j].phrase /\ Wanted(links[j], key)
          /\ \A j \in 1 .. i - 1 : Wanted(links[j], key) => links[j].phrase \in m.all
      BY <1>12, <2>5
    <3> HIDE DEF m, r, links
    <3>3. matches \subseteq r.all
      BY <3>1, <3>2, Zenon
    <3>4. \A p \in r.all \ matches :
            \E j \in 1 .. i : p = links[j].phrase /\ Wanted(links[j], key)
      <4> SUFFICES ASSUME NEW p \in r.all \ matches
                   PROVE  \E j \in 1 .. i : p = links[j].phrase /\ Wanted(links[j], key)
        BY Zenon
      <4>1. CASE p \in m.all
        BY <2>2, <3>2, <4>1, Zenon
      <4>2. CASE p \notin m.all
        <5>1. Wanted(links[i], key) /\ p = links[i].phrase
          BY <3>1, <4>2
        <5> QED
          BY <2>2, <5>1, Zenon
      <4> QED
        BY <4>1, <4>2
    <3>5. \A j \in 1 .. i : Wanted(links[j], key) => links[j].phrase \in r.all
      <4> SUFFICES ASSUME NEW j \in 1 .. i, Wanted(links[j], key) PROVE links[j].phrase \in r.all
        BY Zenon
      <4>1. CASE j \in 1 .. i - 1
        BY <3>1, <3>2, <4>1, Zenon
      <4>2. CASE j = i
        BY <3>1, <4>2
      <4> QED
        BY <2>2, <4>1, <4>2
    <3> QED
      BY <2>3, <3>1, <3>3, <3>4, <3>5 DEF r, links
  <2> QED
    BY <2>3, <2>4, <2>5
<1> HIDE DEF Fine
<1>13. Bad = {}
  <2> SUFFICES ASSUME Bad # {} PROVE FALSE
    OBVIOUS
  <2>1. PICK i \in Bad : \A y \in Bad : i <= y
    <3>1. Bad \subseteq Nat
      BY <1>2
    <3> HIDE DEF Bad
    <3> QED
      BY <3>1, SmallestNumber
  <2>2. i \in 0 .. N /\ ~Fine(i)
    BY <2>1
  <2>3. i # 0
    BY <1>11, <2>2
  <2>4. i \in 1 .. N /\ i - 1 \in 0 .. N /\ ~(i <= i - 1)
    BY <1>2, <2>2, <2>3
  <2>5. Fine(i - 1)
    BY <2>1, <2>4
  <2> QED
    BY <1>12, <2>2, <2>4, <2>5
<1>14. Fine(N) /\ N \in 0 .. N
  BY <1>2, <1>13
<1>15. after[N].full \in BOOLEAN
  BY <1>14, Zenon DEF Fine, V
<1> QED
  BY <1>1, <1>14, <1>15, Zenon DEF Fine, ChainRead

\* What a step of the search leaves alone.
LEMMA FrameKept ==
  ASSUME StorageInv, EntriesInv, UNCHANGED <<storageVars, entries, put, idx>>
  PROVE  /\ StorageInv' /\ EntriesInv' /\ Given' = Given
         /\ \A p, i : CrowdedOut(p, i)' <=> CrowdedOut(p, i)
<1>1. StorageInv'
  BY StorageInvInductive
<1>2. Blocks' = Blocks /\ UNCHANGED address
  BY DEF storageVars, Blocks
<1>3. EntriesInv' /\ Given' = Given
  BY <1>2, EntriesKept
<1>4. \A p, i : CrowdedOut(p, i)' <=> CrowdedOut(p, i)
  BY DEF CrowdedOut, Chain
<1> QED
  BY <1>1, <1>3, <1>4

\* A beginning of a string that a key begins with.
LEMMA PartPrefix ==
  ASSUME NEW s \in Keys, NEW n \in 0 .. Len(s), NEW m \in 0 .. Len(s), n <= m, NEW key \in Keys,
         IsPrefix(SubSeq(s, 1, m), key)
  PROVE  IsPrefix(SubSeq(s, 1, n), key)
<1>1. Len(s) \in Nat /\ \A i \in 1 .. Len(s) : s[i] \in Nat
  BY LenProperties, ElementOfSeq DEF Keys
<1> DEFINE u == SubSeq(s, 1, n)
           v == SubSeq(s, 1, m)
<1>2. u \in Keys /\ Len(u) = n /\ \A i \in 1 .. n : u[i] = s[i]
  BY <1>1, SubSeqProperties DEF Keys
<1>3. v \in Keys /\ Len(v) = m /\ \A i \in 1 .. m : v[i] = s[i]
  BY <1>1, SubSeqProperties DEF Keys
<1> HIDE DEF u, v
<1>4. Len(v) <= Len(key) /\ \A i \in 1 .. Len(v) : key[i] = v[i]
  BY <1>3, PrefixLetters DEF v
<1>5. Len(key) \in Nat
  BY LenProperties DEF Keys
<1>6. Len(u) <= Len(key) /\ \A i \in 1 .. Len(u) : key[i] = u[i]
  <2>1. Len(u) <= Len(key)
    BY <1>1, <1>2, <1>3, <1>4, <1>5
  <2>2. \A i \in 1 .. n : i \in 1 .. m
    BY <1>1
  <2> QED
    BY <1>2, <1>3, <1>4, <2>1, <2>2, Zenon
<1> QED
  BY <1>2, <1>6, PrefixLetters DEF u

\* A link that is wanted, of a key that begins with what is left of the string, is of a
\* phrase that fits.
LEMMA WantedFits ==
  ASSUME FoldedInv, NEW p \in Phrases, NEW i \in Starts(p), NEW b, KeyAt(p, i) # <<>>,
         IsPrefix(folded, KeyAt(p, i)), Wanted(Link(p, i, b), KeyAt(p, i))
  PROVE  Fits(p, i)
<1> DEFINE key == KeyAt(p, i)
           s == search.str
           l == Link(p, i, b)
<1>1. key \in Keys /\ s \in Keys
  BY KeyFacts DEF FoldedInv
<1>2. CASE search.stemmed
  <2>1. NoPrefix(l) /\ Len(key) <= Len(s) + StemMaxSuffix
    BY <1>2, Zenon DEF Wanted
  <2>2. i = Min(Starts(p))
    BY <2>1 DEF NoPrefix, Link
  <2>3. /\ chop \in 0 .. CharsToChop(s) /\ folded = SubSeq(s, 1, Len(s) - CharsToChop(s) + chop)
    BY <1>2 DEF FoldedInv
  <2>4. CharsToChop(s) \in 0 .. Len(s) /\ Len(s) \in Nat
    BY <1>1, ChopFacts
  <2>5. /\ Len(s) - CharsToChop(s) \in 0 .. Len(s)
        /\ Len(s) - CharsToChop(s) + chop \in 0 .. Len(s)
        /\ Len(s) - CharsToChop(s) <= Len(s) - CharsToChop(s) + chop
    BY <2>3, <2>4
  <2>6. IsPrefix(SubSeq(s, 1, Len(s) - CharsToChop(s) + chop), key)
    BY <2>3
  <2> DEFINE n == Len(s) - CharsToChop(s)
             m == n + chop
  <2> HIDE DEF s, key, n, m
  <2>7. IsPrefix(SubSeq(s, 1, n), key)
    BY <1>1, <2>5, <2>6, PartPrefix DEF n, m
  <2> QED
    BY <1>2, <2>1, <2>2, <2>7 DEF Fits, s, key, n
<1>3. CASE ~search.stemmed
  <2>1. folded = search.str
    BY <1>3 DEF FoldedInv
  <2> QED
    BY <1>3, <2>1, Zenon DEF Fits
<1> QED
  BY <1>2, <1>3

\* A phrase that fits has wanted links.
LEMMA FitsWanted ==
  ASSUME NEW p, NEW i, NEW b, Fits(p, i)
  PROVE  Wanted(Link(p, i, b), KeyAt(p, i))
  BY DEF Fits, Wanted, NoPrefix, Link

\* After a chain was looked for none that begins with the string was passed.
LEMMA NothingPassed ==
  ASSUME EntriesInv, PhaseInv, phase # "source", idx' = idx, folded' \in Keys,
         cur' = FindChain(idx, folded')
  PROVE  /\ CurInv'
         /\ \A k \in 1 .. Len(idx.words) : ~(IsPrefix(folded', idx.words[k]) /\ Passed(k)')
<1> DEFINE t == folded'
           c == FindChain(idx, t)
           words == idx.words
<1>1. IndexOK(idx, DOMAIN entries) /\ DOMAIN entries \in SUBSET Keys
  BY IndexReady DEF EntriesInv
<1>2. /\ c # NoChain => c \in Chains(idx) /\ ~KeyLess(words[c.at], t)
      /\ \A k \in 1 .. Len(words) : ~KeyLess(words[k], t) => c # NoChain /\ ~(k < c.at)
  BY <1>1, FoundChain
<1>3. \A k \in 1 .. Len(words) : words[k] \in Keys
  <2>1. words \in Seq(Keys)
    BY <1>1 DEF IndexOK, InOrder
  <2> QED
    BY <2>1, ElementOfSeq
<1>4. CurInv'
  <2>1. Chains(idx)' = Chains(idx)
    BY DEF Chains
  <2> HIDE DEF t, c
  <2> QED
    BY <1>2, <2>1 DEF CurInv, t, c
<1>5. ASSUME NEW k \in 1 .. Len(words), IsPrefix(t, words[k]), Passed(k)'
      PROVE  FALSE
  <2>1. ~KeyLess(words[k], t)
    BY <1>3, <1>5, PrefixNotLess
  <2>2. c # NoChain /\ ~(k < c.at)
    BY <1>2, <2>1
  <2>3. cur' = NoChain \/ k < cur'.at
    BY <1>5, Zenon DEF Passed
  <2> QED
    BY <2>2, <2>3
<1> QED
  BY <1>4, <1>5

\* A search is begun at the first key that is not before the string.
LEMMA SearchStarts ==
  ASSUME DictInv, NEW s \in Strings, NEW stem \in BOOLEAN, StartSearch(s, stem)
  PROVE  DictInv'
<1>1. StorageInv /\ EntriesInv /\ PhaseInv
  BY DEF DictInv
<1>2. /\ phase = "built" /\ phase' = "reading"
      /\ search' = [str |-> s, stemmed |-> stem]
      /\ folded' = s /\ chop' = (IF stem THEN CharsToChop(s) ELSE 0)
      /\ cur' = FindChain(idx, s)
      /\ matches' = {} /\ isCancelled' = FALSE
      /\ UNCHANGED <<storageVars, entries, put, idx>>
  BY DEF StartSearch
<1>3. /\ StorageInv' /\ EntriesInv' /\ Given' = Given
  BY <1>1, <1>2, FrameKept
<1>4. s \in Keys
  BY DictIndexAssumption DEF DictIndexAssumption, Keys
<1>5. PhaseInv'
  <2>1. finished' = finished
    BY <1>2 DEF storageVars
  <2> QED
    BY <1>1, <1>2, <2>1 DEF PhaseInv
<1>6. FoldedInv'
  <2>1. search'.str = s /\ search'.stemmed = stem
    BY <1>2
  <2>2. CharsToChop(s) \in 0 .. Len(s) /\ Len(s) \in Nat
    BY <1>4, ChopFacts
  <2>3. CharsToChop(s) \in 0 .. CharsToChop(s) /\ Len(s) - CharsToChop(s) + CharsToChop(s) = Len(s)
    BY <2>2
  <2>4. s = SubSeq(s, 1, Len(s))
    <3>1. \A i \in 1 .. Len(s) : s[i] \in Nat
      BY <1>4, ElementOfSeq DEF Keys
    <3>2. /\ SubSeq(s, 1, Len(s)) \in Seq(Nat) /\ Len(SubSeq(s, 1, Len(s))) = Len(s)
          /\ \A i \in 1 .. Len(s) : SubSeq(s, 1, Len(s))[i] = s[i]
      BY <2>2, <3>1, SubSeqProperties
    <3> QED
      BY <1>4, <3>2, SeqEqual DEF Keys
  <2>5. CharsToChop(search.str)' = CharsToChop(s) /\ Len(search.str)' = Len(s)
    BY <2>1
  <2>6. CASE stem
    <3>1. chop' = CharsToChop(s)
      BY <1>2, <2>6
    <3>2. folded' = SubSeq(s, 1, Len(s) - CharsToChop(s) + CharsToChop(s))
      BY <1>2, <2>3, <2>4
    <3> QED
      BY <1>4, <2>1, <2>3, <2>6, <3>1, <3>2 DEF FoldedInv
  <2>7. CASE ~stem
    <3>1. chop' = 0
      BY <1>2, <2>7
    <3> QED
      BY <1>2, <1>4, <2>1, <2>7, <3>1 DEF FoldedInv
  <2> QED
    BY <2>6, <2>7
<1>7. CurInv' /\ \A k \in 1 .. Len(idx.words) : ~(IsPrefix(folded', idx.words[k]) /\ Passed(k)')
  <2>1. phase # "source" /\ idx' = idx /\ folded' \in Keys /\ cur' = FindChain(idx, folded')
    BY <1>2, <1>4
  <2> QED
    BY <1>1, <2>1, NothingPassed
<1>8. MatchesInv'
  <2>1. idx' = idx
    BY <1>2
  <2> QED
    BY <1>2, <1>7, <2>1, Zenon DEF MatchesInv
<1> QED
  BY <1>2, <1>3, <1>5, <1>6, <1>7, <1>8 DEF DictInv, SearchInv

\* With a letter less the search starts again, and no key is passed by.
LEMMA SearchChops ==
  ASSUME DictInv, Chop
  PROVE  DictInv'
<1>1. StorageInv /\ EntriesInv /\ PhaseInv /\ SearchInv
  BY DEF DictInv
<1>2. /\ phase = "reading" /\ chop > 0
      /\ chop' = chop - 1 /\ folded' = Front(folded)
      /\ cur' = FindChain(idx, Front(folded))
      /\ UNCHANGED <<storageVars, entries, put, idx, phase, search, matches, isCancelled>>
  BY DEF Chop
<1>3. FoldedInv /\ CurInv /\ MatchesInv
  BY <1>1, <1>2 DEF SearchInv
<1>4. /\ StorageInv' /\ EntriesInv' /\ Given' = Given
  BY <1>1, <1>2, FrameKept
<1>5. PhaseInv'
  <2>1. finished' = finished /\ phase' = phase /\ idx' = idx /\ entries' = entries
    BY <1>2 DEF storageVars
  <2> QED
    BY <1>1, <1>2, <2>1 DEF PhaseInv
<1> DEFINE s == search.str
           n == Len(s) - CharsToChop(s) + chop
<1>6. search.stemmed /\ chop \in 1 .. CharsToChop(s) /\ folded = SubSeq(s, 1, n) /\ s \in Keys
  <2>1. search.stemmed
    BY <1>2, <1>3 DEF FoldedInv
  <2>2. chop \in 0 .. CharsToChop(s) /\ folded = SubSeq(s, 1, n) /\ s \in Keys
    BY <1>3, <2>1 DEF FoldedInv
  <2>3. CharsToChop(s) \in Nat
    BY <2>2, ChopFacts
  <2> QED
    BY <1>2, <2>1, <2>2, <2>3
<1>7. /\ CharsToChop(s) \in 0 .. Len(s) /\ Len(s) \in Nat
      /\ n \in 1 .. Len(s) /\ n - 1 = Len(s) - CharsToChop(s) + (chop - 1)
      /\ chop - 1 \in 0 .. CharsToChop(s)
  BY <1>6, ChopFacts
<1>8. folded' = SubSeq(s, 1, n - 1) /\ folded' \in Keys
  <2>1. folded' = SubSeq(s, 1, n - 1)
    BY <1>2, <1>6, <1>7, FrontOfPart
  <2>2. \A i \in 1 .. n - 1 : s[i] \in Nat
    <3>1. \A i \in 1 .. n - 1 : i \in 1 .. Len(s)
      BY <1>7
    <3> QED
      BY <1>6, <3>1, ElementOfSeq DEF Keys
  <2>3. SubSeq(s, 1, n - 1) \in Seq(Nat)
    BY <1>7, <2>2, SubSeqProperties
  <2> QED
    BY <2>1, <2>3 DEF Keys
<1>9. FoldedInv'
  <2>1. search' = search /\ search'.str = s
    BY <1>2
  <2>2. folded' = SubSeq(s, 1, Len(s) - CharsToChop(s) + (chop - 1))
    BY <1>7, <1>8
  <2>3. CharsToChop(search.str)' = CharsToChop(s) /\ Len(search.str)' = Len(s)
    BY <2>1
  <2>4. search'.stemmed \in BOOLEAN
    BY <1>3, <2>1 DEF FoldedInv
  <2> HIDE DEF s, n
  <2> QED
    BY <1>2, <1>6, <1>7, <2>1, <2>2, <2>3, <2>4 DEF FoldedInv
<1>10. CurInv' /\ \A k \in 1 .. Len(idx.words) : ~(IsPrefix(folded', idx.words[k]) /\ Passed(k)')
  <2>1. phase # "source" /\ idx' = idx /\ cur' = FindChain(idx, folded')
    BY <1>2
  <2> QED
    BY <1>1, <1>8, <2>1, NothingPassed
<1>11. MatchesInv'
  <2>1. idx' = idx /\ matches' = matches
    BY <1>2
  <2>2. \A p, i : Fits(p, i)' <=> Fits(p, i)
    BY <1>2 DEF Fits
  <2>3. matches' \subseteq {p \in Given' : \E i \in Starts(p) : Fits(p, i)'}
    BY <1>3, <1>4, <2>1, <2>2, Zenon DEF MatchesInv
  <2> QED
    BY <1>10, <2>1, <2>3, Zenon DEF MatchesInv
<1> QED
  BY <1>2, <1>4, <1>5, <1>9, <1>10, <1>11 DEF DictInv, SearchInv

\* A search ends when no chain is left to read, or it was cancelled.
LEMMA SearchFinishes ==
  ASSUME DictInv, FinishSearch \/ Cancel \/ Drop
  PROVE  DictInv'
<1>1. StorageInv /\ EntriesInv /\ PhaseInv /\ SearchInv
  BY DEF DictInv
<1>2. /\ phase \in {"reading", "done"}
      /\ UNCHANGED <<storageVars, entries, put, idx>>
  BY DEF FinishSearch, Cancel, Drop
<1>3. FoldedInv /\ CurInv /\ MatchesInv
  BY <1>1, <1>2 DEF SearchInv
<1>4. /\ StorageInv' /\ EntriesInv' /\ Given' = Given
      /\ \A p, i : CrowdedOut(p, i)' <=> CrowdedOut(p, i)
  BY <1>1, <1>2, FrameKept
<1>5. finished' = finished /\ idx' = idx /\ entries' = entries
  BY <1>2 DEF storageVars
<1>6. CASE Drop
  <2>1. phase' = "built" /\ PhaseInv'
    BY <1>1, <1>2, <1>5, <1>6 DEF Drop, PhaseInv
  <2> QED
    BY <1>4, <2>1 DEF DictInv, SearchInv
<1>7. CASE FinishSearch \/ Cancel
  <2>1. /\ UNCHANGED <<search, folded, chop, cur, matches>>
        /\ phase' \in {"reading", "done"} /\ (isCancelled => isCancelled')
    BY <1>2, <1>7 DEF FinishSearch, Cancel, searchVars
  <2>2. PhaseInv'
    BY <1>1, <1>2, <1>5, <2>1 DEF PhaseInv
  <2>3. FoldedInv'
    BY <1>3, <2>1 DEF FoldedInv
  <2>4. CurInv'
    BY <1>3, <1>5, <2>1 DEF CurInv, Chains
  <2>5. MatchesInv'
    <3>1. \A p, i : Fits(p, i)' <=> Fits(p, i)
      BY <2>1 DEF Fits
    <3>2. \A k : Passed(k)' <=> Passed(k)
      BY <2>1 DEF Passed
    <3>3. matches' = matches /\ folded' = folded
      BY <2>1
    <3> QED
      BY <1>3, <1>4, <1>5, <2>1, <3>1, <3>2, <3>3, Zenon DEF MatchesInv
  <2>6. phase' = "done" /\ ~isCancelled' => chop' = 0 /\ ~ChainFits'
    <3>1. CASE FinishSearch
      <4>1. ~ChainFits /\ (chop = 0 \/ isCancelled) /\ UNCHANGED searchVars
        BY <3>1 DEF FinishSearch
      <4>2. ChainFits' <=> ChainFits
        BY <1>5, <4>1 DEF ChainFits, searchVars
      <4> QED
        BY <4>1, <4>2 DEF searchVars
    <3>2. CASE Cancel
      BY <3>2 DEF Cancel
    <3> QED
      BY <1>7, <3>1, <3>2
  <2> QED
    BY <1>4, <2>2, <2>3, <2>4, <2>5, <2>6 DEF DictInv, SearchInv
<1> QED
  BY <1>6, <1>7

\* The chain that is read: a key of the index, with links of headwords given.
LEMMA ReadKey ==
  ASSUME EntriesInv, PhaseInv, phase # "source", cur \in Chains(idx)
  PROVE  /\ cur.at \in 1 .. Len(idx.words) /\ Len(idx.words) \in Nat /\ cur # NoChain
         /\ ChainAt(idx, At(idx, cur.leaf, cur.at + 1), cur.at + 1)
         /\ idx.words[cur.at] \in DOMAIN entries \ {<<>>} /\ idx.words[cur.at] \in Keys
         /\ \A k \in 1 .. Len(idx.words) : idx.words[k] \in Keys
         /\ \A j, k \in 1 .. Len(idx.words) : j < k => KeyLess(idx.words[j], idx.words[k])
<1>1. IndexOK(idx, DOMAIN entries) /\ DOMAIN entries \in SUBSET Keys
  BY IndexReady DEF EntriesInv
<1>2. InOrder(idx.words, DOMAIN entries \ {<<>>})
  BY <1>1 DEF IndexOK
<1>3. /\ cur.at \in 1 .. Len(idx.words) /\ Len(idx.words) \in Nat /\ cur # NoChain
      /\ ChainAt(idx, At(idx, cur.leaf, cur.at + 1), cur.at + 1)
  BY <1>1, ChainFacts
<1>4. idx.words \in Seq(Keys) /\ Range(idx.words) = DOMAIN entries \ {<<>>}
      /\ DOMAIN idx.words = 1 .. Len(idx.words)
      /\ \A j, k \in DOMAIN idx.words : j < k => KeyLess(idx.words[j], idx.words[k])
  BY <1>2, LenProperties DEF InOrder
<1>5. \A k \in 1 .. Len(idx.words) : idx.words[k] \in Keys
  BY <1>4, ElementOfSeq
<1>6. idx.words[cur.at] \in Range(idx.words)
  BY <1>3, <1>4, Zenon DEF Range
<1> QED
  BY <1>3, <1>4, <1>5, <1>6

\* A link of a chain is of a headword given that has the chain's key.
LEMMA LinkSource ==
  ASSUME EntriesInv, NEW key \in DOMAIN entries, NEW j \in 1 .. Len(entries[key])
  PROVE  \E p \in Given : \E i \in Starts(p) : \E b \in Blocks :
           /\ <<p, b>> \in put /\ KeyAt(p, i) = key /\ entries[key][j] = Link(p, i, b)
<1> DEFINE l == entries[key][j]
<1>1. entries[key] \in Seq(LinksFor(key))
  BY DEF EntriesInv
<1>2. l \in LinksFor(key)
  BY <1>1, ElementOfSeq
<1> HIDE DEF l
<1>3. PICK q \in put : \E i \in Starts(q[1]) : l = Link(q[1], i, q[2]) /\ KeyAt(q[1], i) = key
  BY <1>2, LinksForMember, Zenon
<1>4. PICK i \in Starts(q[1]) : l = Link(q[1], i, q[2]) /\ KeyAt(q[1], i) = key
  BY <1>3, Zenon
<1>5. q[1] \in Phrases /\ q[2] \in Blocks /\ <<q[1], q[2]>> \in put
  <2>1. q \in Phrases \X Blocks
    BY DEF EntriesInv
  <2> QED
    BY <2>1
<1>6. q[1] \in Given
  BY <1>5, Zenon DEF Given
<1> QED
  BY <1>4, <1>5, <1>6, Zenon DEF l

\* Reading a chain takes the matches of its key, and no other key is passed by.
LEMMA SearchReads ==
  ASSUME DictInv, ReadChain
  PROVE  DictInv'
<1> DEFINE words == idx.words
           n == Len(words)
           k0 == cur.at
           key == words[k0]
           links == entries[key]
           m == AfterChain(key)
           next == At(idx, cur.leaf, k0 + 1)
<1>1. StorageInv /\ EntriesInv /\ PhaseInv /\ SearchInv
  BY DEF DictInv
<1>2. /\ phase = "reading" /\ ~isCancelled /\ cur # NoChain /\ IsPrefix(folded, key)
      /\ matches' = m.all /\ cur' = (IF m.full THEN NoChain ELSE next)
      /\ UNCHANGED <<storageVars, entries, put, idx, phase, search, folded, chop, isCancelled>>
  BY DEF ReadChain, ChainFits
<1>3. FoldedInv /\ CurInv /\ MatchesInv
  BY <1>1, <1>2 DEF SearchInv
<1>4. /\ StorageInv' /\ EntriesInv' /\ Given' = Given
      /\ \A p, i : CrowdedOut(p, i)' <=> CrowdedOut(p, i)
  BY <1>1, <1>2, FrameKept
<1>5. PhaseInv'
  <2>1. finished' = finished /\ phase' = phase /\ idx' = idx /\ entries' = entries
    BY <1>2 DEF storageVars
  <2> QED
    BY <1>1, <1>2, <2>1 DEF PhaseInv
<1>6. FoldedInv'
  BY <1>2, <1>3 DEF FoldedInv
<1>7. cur \in Chains(idx) /\ ~KeyLess(key, folded)
  BY <1>2, <1>3 DEF CurInv
<1>8. /\ k0 \in 1 .. n /\ n \in Nat /\ ChainAt(idx, next, k0 + 1)
      /\ key \in DOMAIN entries \ {<<>>} /\ key \in Keys
      /\ \A k \in 1 .. n : words[k] \in Keys
      /\ \A j, k \in 1 .. n : j < k => KeyLess(words[j], words[k])
  BY <1>1, <1>2, <1>7, ReadKey
<1>9. ChainRead(m, links, key) /\ Len(links) \in Nat /\ DOMAIN links = 1 .. Len(links)
      /\ IsFiniteSet(Given) /\ IsFiniteSet(matches)
  <2>1. entries[key] \in Seq(LinksFor(key)) /\ IsFiniteSet(Given)
    BY <1>1, <1>8 DEF EntriesInv
  <2>2. matches \subseteq Given
    BY <1>3 DEF MatchesInv
  <2>3. IsFiniteSet(matches)
    BY <2>1, <2>2, FS_Subset
  <2> HIDE DEF key
  <2> QED
    BY <2>1, <2>3, AfterChainRight, LenProperties
<1>10. next # NoChain => next \in Chains(idx) /\ next.at = k0 + 1 /\ k0 + 1 \in 1 .. n
  BY <1>8 DEF ChainAt
<1>11. next = NoChain => k0 = n
  <2>1. \A c \in Chains(idx) : c # NoChain
    <3>1. IndexOK(idx, DOMAIN entries) /\ DOMAIN entries \in SUBSET Keys
      BY <1>1, <1>2, IndexReady DEF EntriesInv
    <3> QED
      BY <3>1, ChainFacts
  <2>2. next = NoChain => k0 + 1 > n
    BY <1>8, <2>1 DEF ChainAt
  <2> QED
    BY <1>8, <2>2
<1>12. folded \in Keys
  <2>1. search.str \in Keys /\ search.stemmed \in BOOLEAN
    BY <1>3 DEF FoldedInv
  <2>2. CASE search.stemmed
    <3> DEFINE s == search.str
               x == Len(s) - CharsToChop(s) + chop
    <3>1. folded = SubSeq(s, 1, x) /\ chop \in 0 .. CharsToChop(s)
      BY <1>3, <2>2 DEF FoldedInv
    <3>2. CharsToChop(s) \in 0 .. Len(s) /\ Len(s) \in Nat
      BY <2>1, ChopFacts
    <3>3. x \in 0 .. Len(s)
      BY <3>1, <3>2
    <3>4. \A i \in 1 .. x : s[i] \in Nat
      <4>1. \A i \in 1 .. x : i \in 1 .. Len(s)
        BY <3>2, <3>3
      <4> QED
        BY <2>1, <4>1, ElementOfSeq DEF Keys
    <3> HIDE DEF s, x
    <3>5. SubSeq(s, 1, x) \in Seq(Nat)
      BY <3>3, <3>4, SubSeqProperties
    <3> QED
      BY <3>1, <3>5 DEF Keys
  <2>3. CASE ~search.stemmed
    BY <1>3, <2>1, <2>3 DEF FoldedInv
  <2> QED
    BY <2>1, <2>2, <2>3
<1>13. CurInv'
  <2>1. Chains(idx)' = Chains(idx) /\ idx' = idx /\ folded' = folded
    BY <1>2 DEF Chains
  <2>2. CASE m.full \/ next = NoChain
    BY <1>2, <2>2 DEF CurInv
  <2>3. CASE ~m.full /\ next # NoChain
    <3>1. cur' = next /\ next \in Chains(idx) /\ next.at = k0 + 1 /\ k0 + 1 \in 1 .. n
      BY <1>2, <1>10, <2>3
    <3>2. KeyLess(key, words[k0 + 1]) /\ words[k0 + 1] \in Keys
      <4>1. k0 < k0 + 1
        BY <1>8
      <4> QED
        BY <1>8, <3>1, <4>1
    <3>3. ~KeyLess(words[k0 + 1], folded)
      BY <1>7, <1>8, <1>12, <3>2, KeyLessTransitive
    <3> HIDE DEF next
    <3> QED
      BY <2>1, <3>1, <3>3 DEF CurInv
  <2> QED
    BY <2>2, <2>3
<1>14. \A p, i : Fits(p, i)' <=> Fits(p, i)
  BY <1>2 DEF Fits
<1> HIDE DEF m, links
<1>15. m.all \subseteq {p \in Given : \E i \in Starts(p) : Fits(p, i)}
  <2> SUFFICES ASSUME NEW p \in m.all
               PROVE  p \in Given /\ \E i \in Starts(p) : Fits(p, i)
    BY Zenon
  <2>1. CASE p \in matches
    BY <1>3, <2>1 DEF MatchesInv
  <2>2. CASE p \notin matches
    <3>1. PICK j \in 1 .. Len(links) : p = links[j].phrase /\ Wanted(links[j], key)
      <4> HIDE DEF key
      <4>1. ChainRead(m, links, key) /\ p \in m.all \ matches
        BY <1>9, <2>2
      <4>2. \E j \in 1 .. Len(links) : p = links[j].phrase /\ Wanted(links[j], key)
        BY <4>1, Zenon DEF ChainRead
      <4> QED
        BY <4>2, Zenon
    <3>2. PICK r \in Given : \E i \in Starts(r) : \E b \in Blocks :
            /\ <<r, b>> \in put /\ KeyAt(r, i) = key /\ links[j] = Link(r, i, b)
      <4> HIDE DEF key
      <4>1. key \in DOMAIN entries /\ j \in 1 .. Len(entries[key])
        BY <1>8 DEF links
      <4> QED
        BY <1>1, <4>1, LinkSource, Zenon DEF links
    <3>3. PICK i \in Starts(r) : \E b \in Blocks : KeyAt(r, i) = key /\ links[j] = Link(r, i, b)
      BY <3>2, Zenon
    <3>4. PICK b \in Blocks : KeyAt(r, i) = key /\ links[j] = Link(r, i, b)
      BY <3>3, Zenon
    <3>5. r = p
      BY <3>1, <3>4 DEF Link
    <3>6. r \in Phrases /\ KeyAt(r, i) # <<>> /\ IsPrefix(folded, KeyAt(r, i))
          /\ Wanted(Link(r, i, b), KeyAt(r, i))
      <4>1. r \in Phrases
        BY DEF Given
      <4>2. KeyAt(r, i) # <<>>
        BY <1>8, <3>4
      <4> HIDE DEF key
      <4> QED
        BY <1>2, <3>1, <3>4, <4>1, <4>2
    <3>7. Fits(r, i)
      BY <1>3, <3>6, WantedFits
    <3> QED
      BY <3>2, <3>5, <3>7
  <2> QED
    BY <2>1, <2>2
<1>16. ASSUME ~isCancelled', Cardinality(matches') < MaxResults,
              NEW p \in Given \ m.all, NEW i \in Starts(p), NEW k \in 1 .. n,
              Fits(p, i), words[k] = KeyAt(p, i), IsPrefix(folded, words[k]), Passed(k)'
       PROVE  CrowdedOut(p, i)
  <2>1. Cardinality(matches) < MaxResults /\ ~m.full /\ matches \subseteq m.all
    <3>1. matches \subseteq m.all /\ IsFiniteSet(m.all) /\ MaxResults \in Nat
      <4>1. m.all \subseteq Given
        BY <1>15
      <4> QED
        BY <1>9, <4>1, FS_Subset, DictIndexAssumption DEF DictIndexAssumption, ChainRead
    <3>2. Cardinality(m.all) \in Nat /\ Cardinality(matches) \in Nat
          /\ Cardinality(matches) <= Cardinality(m.all)
      BY <1>9, <3>1, FS_Subset, FS_CardinalityType
    <3>3. Cardinality(m.all) < MaxResults
      BY <1>2, <1>16
    <3>4. m.full => Cardinality(m.all) >= MaxResults
      BY <1>9, Zenon DEF ChainRead
    <3> QED
      BY <3>1, <3>2, <3>3, <3>4
  <2>2. p \notin matches
    BY <1>16, <2>1
  <2>3. CASE Passed(k)
    BY <1>2, <1>3, <1>16, <2>1, <2>2, <2>3, Zenon DEF MatchesInv
  <2>4. CASE ~Passed(k)
    <3>1. k = k0
      <4>1. ~(k < k0) /\ (cur' = NoChain \/ k < cur'.at)
        BY <1>16, <2>4, Zenon DEF Passed
      <4>2. cur' = next
        BY <1>2, <2>1
      <4>3. k0 \in Nat /\ k \in Nat /\ k <= n /\ k0 <= n
        BY <1>8
      <4> HIDE DEF next, k0, n
      <4>4. CASE next = NoChain
        BY <1>11, <4>1, <4>3, <4>4
      <4>5. CASE next # NoChain
        BY <1>10, <4>1, <4>2, <4>3, <4>5
      <4> QED
        BY <4>4, <4>5
    <3>2. KeyAt(p, i) = key
      BY <1>16, <3>1
    <3>3. PICK b \in Blocks : <<p, b>> \in put
      BY DEF Given
    <3>4. Linked(p, i, b)
      <4>1. \A q \in put : \A x \in Starts(q[1]) : Linked(q[1], x, q[2])
        BY <1>1 DEF EntriesInv
      <4>2. <<p, b>>[1] = p /\ <<p, b>>[2] = b
        OBVIOUS
      <4> QED
        BY <3>3, <4>1, <4>2, Zenon
    <3>5. Link(p, i, b) \in Range(links) \/ CrowdedOut(p, i)
      BY <3>2, <3>4 DEF Linked, links
    <3>6. CASE Link(p, i, b) \in Range(links)
      <4>1. PICK j \in 1 .. Len(links) : links[j] = Link(p, i, b)
        BY <1>9, <3>6 DEF Range
      <4>2. Wanted(Link(p, i, b), KeyAt(p, i))
        BY <1>16, FitsWanted
      <4>3. Wanted(links[j], key)
        <5> HIDE DEF key
        <5> QED
          BY <3>2, <4>1, <4>2
      <4>4. links[j].phrase \in m.all
        BY <1>9, <2>1, <4>3, Zenon DEF ChainRead
      <4>5. links[j].phrase = p
        BY <4>1 DEF Link
      <4> QED
        BY <1>16, <4>4, <4>5
    <3> QED
      BY <3>5, <3>6
  <2> QED
    BY <2>3, <2>4
<1>17. MatchesInv'
  <2>1. idx' = idx /\ folded' = folded /\ matches' = m.all
    BY <1>2
  <2>2. matches' \subseteq {p \in Given' : \E i \in Starts(p) : Fits(p, i)'}
    BY <1>4, <1>14, <1>15, <2>1, Zenon
  <2>3. ~isCancelled' /\ Cardinality(matches') < MaxResults =>
          \A p \in Given' \ matches' : \A i \in Starts(p) : \A k \in 1 .. Len(idx'.words) :
            /\ Fits(p, i)' /\ idx'.words[k] = KeyAt(p, i)
            /\ IsPrefix(folded', idx'.words[k]) /\ Passed(k)'
            => CrowdedOut(p, i)'
    <3> HIDE DEF next, key
    <3> QED
      BY <1>4, <1>14, <1>16, <2>1, Zenon
  <2> QED
    BY <2>2, <2>3, Zenon DEF MatchesInv
<1> QED
  BY <1>2, <1>4, <1>5, <1>6, <1>13, <1>17 DEF DictInv, SearchInv

-----------------------------------------------------------------------------
(* The theorems. *)

\* While the source is read there is no search.
LEMMA SourceSteps ==
  ASSUME DictInv, StoreArticle \/ (\E p \in Phrases : AddWord(p)) \/ Build
  PROVE  DictInv'
<1>1. StorageInv /\ EntriesInv /\ PhaseInv /\ phase = "source"
  BY DEF DictInv, StoreArticle, AddWord, Build
<1>2. search = NoSearch /\ folded = <<>> /\ chop = 0 /\ cur = NoChain /\ matches = {}
  BY <1>1 DEF PhaseInv
<1>3. CASE StoreArticle
  <2>1. /\ StartNewBlock \/ \E n \in 1 .. MaxBytes : AddToBlock(n)
        /\ UNCHANGED <<entries, put, idx, phase, searchVars>>
    BY <1>3 DEF StoreArticle
  <2>2. StorageInv' /\ Blocks \subseteq Blocks' /\ \A b \in Blocks : address'[b] = address[b]
    BY <1>1, <2>1, StorageGrows
  <2>3. EntriesInv'
    BY <1>1, <2>1, <2>2, EntriesKept
  <2>4. PhaseInv' /\ phase' = "source"
    BY <1>1, <1>2, <2>1 DEF PhaseInv, searchVars
  <2> QED
    BY <2>2, <2>3, <2>4 DEF DictInv, SearchInv
<1>4. CASE \E p \in Phrases : AddWord(p)
  <2>1. PICK p \in Phrases : AddWord(p)
    BY <1>4, Zenon
  <2>2. EntriesInv'
    BY <1>1, <2>1, EntriesAdd
  <2>3. UNCHANGED <<storageVars, idx, phase, searchVars>>
    BY <2>1 DEF AddWord
  <2>4. StorageInv'
    BY <1>1, <2>3, StorageInvInductive
  <2>5. PhaseInv' /\ phase' = "source"
    BY <1>1, <1>2, <2>3 DEF PhaseInv, searchVars
  <2> QED
    BY <2>2, <2>4, <2>5 DEF DictInv, SearchInv
<1>5. CASE Build
  <2>1. Finish /\ idx' = BuildIndex(DOMAIN entries) /\ phase' = "built"
        /\ UNCHANGED <<entries, put, searchVars>>
    BY <1>5 DEF Build
  <2>2. StorageInv'
    BY <1>1, <2>1, FinishKeeps
  <2>3. finished' = TRUE /\ Blocks' = Blocks /\ UNCHANGED address
    BY <2>1 DEF Finish, Blocks
  <2>4. EntriesInv'
    BY <1>1, <2>1, <2>3, EntriesKept
  <2>5. PhaseInv'
    BY <1>2, <2>1, <2>3 DEF PhaseInv, searchVars
  <2> QED
    BY <2>1, <2>2, <2>4, <2>5 DEF DictInv, SearchInv
<1> QED
  BY <1>3, <1>4, <1>5

\* Before the source is read there is nothing to get wrong.
LEMMA DictInvInit == Init => DictInv
<1> SUFFICES ASSUME Init PROVE DictInv
  OBVIOUS
<1>1. StorageInv
  BY StorageInvInit DEF Init
<1>2. EntriesInv
  <2>1. put = {} /\ DOMAIN entries = {}
    BY DEF Init
  <2>2. Given = {}
    BY <2>1 DEF Given
  <2> QED
    BY <2>1, <2>2, FS_EmptySet DEF EntriesInv
<1>3. PhaseInv /\ phase = "source"
  BY DEF Init, PhaseInv
<1> QED
  BY <1>1, <1>2, <1>3 DEF DictInv, SearchInv

\* Every step keeps the invariant.
LEMMA DictInvInductive == DictInv /\ [Next]_vars => DictInv'
<1> SUFFICES ASSUME DictInv, [Next]_vars PROVE DictInv'
  OBVIOUS
<1>1. CASE UNCHANGED vars
  <2>1. UNCHANGED <<storageVars, entries, put, idx>>
        /\ UNCHANGED <<phase, search, folded, chop, cur, matches, isCancelled>>
    BY <1>1 DEF vars, searchVars
  <2>2. StorageInv /\ EntriesInv /\ PhaseInv /\ SearchInv
    BY DEF DictInv
  <2>3. StorageInv' /\ EntriesInv' /\ Given' = Given /\ \A p, i : CrowdedOut(p, i)' <=> CrowdedOut(p, i)
    BY <2>1, <2>2, FrameKept
  <2>4. finished' = finished /\ idx' = idx /\ entries' = entries
    BY <2>1 DEF storageVars
  <2>5. PhaseInv'
    BY <2>1, <2>2, <2>4 DEF PhaseInv
  <2>6. SearchInv'
    <3>1. FoldedInv' <=> FoldedInv
      BY <2>1 DEF FoldedInv
    <3>2. CurInv' <=> CurInv
      BY <2>1, <2>4 DEF CurInv, Chains
    <3>3. \A p, i : Fits(p, i)' <=> Fits(p, i)
      BY <2>1 DEF Fits
    <3>4. \A k : Passed(k)' <=> Passed(k)
      BY <2>1 DEF Passed
    <3>5. matches' = matches /\ folded' = folded /\ (isCancelled' <=> isCancelled) /\ phase' = phase
          /\ chop' = chop
      BY <2>1
    <3>6. MatchesInv => MatchesInv'
      BY <2>3, <2>4, <3>3, <3>4, <3>5, Zenon DEF MatchesInv
    <3>7. ChainFits' <=> ChainFits
      BY <2>1, <2>4 DEF ChainFits
    <3> QED
      BY <2>2, <3>1, <3>2, <3>5, <3>6, <3>7 DEF SearchInv
  <2> QED
    BY <2>3, <2>5, <2>6 DEF DictInv
<1>2. CASE PrefixMatch \/ StemmedMatch
  <2>1. \E s \in Strings : \E stem \in BOOLEAN : StartSearch(s, stem)
    BY <1>2, Zenon DEF PrefixMatch, StemmedMatch
  <2> QED
    BY <2>1, SearchStarts
<1>3. CASE ReadChain
  BY <1>3, SearchReads
<1>4. CASE Chop
  BY <1>4, SearchChops
<1>5. CASE FinishSearch \/ Cancel \/ Drop
  BY <1>5, SearchFinishes
<1>6. CASE StoreArticle \/ (\E p \in Phrases : AddWord(p)) \/ Build
  BY <1>6, SourceSteps
<1> QED
  BY <1>1, <1>2, <1>3, <1>4, <1>5, <1>6 DEF Next

-----------------------------------------------------------------------------

\* The keys of the index, in their order, are each of them once.
LEMMA WordsOnce ==
  ASSUME NEW keys \in SUBSET Keys, NEW ix, IndexOK(ix, keys)
  PROVE  EachOnce(ix.words, keys \ {<<>>})
<1> DEFINE words == ix.words
<1>1. /\ words \in Seq(Keys) /\ Range(words) = keys \ {<<>>}
      /\ \A i, j \in DOMAIN words : i < j => KeyLess(words[i], words[j])
      /\ Len(words) \in Nat /\ DOMAIN words = 1 .. Len(words)
  BY LenProperties DEF IndexOK, InOrder
<1>2. ASSUME NEW i \in DOMAIN words, NEW j \in DOMAIN words, words[i] = words[j]
      PROVE  i = j
  <2>1. words[i] \in Keys
    BY <1>1, ElementOfSeq
  <2>2. ~KeyLess(words[i], words[j]) /\ ~KeyLess(words[j], words[i])
    BY <1>2, <2>1, KeyNotLess
  <2>3. ~(i < j) /\ ~(j < i)
    BY <1>1, <2>2
  <2> QED
    BY <1>1, <2>3
<1> HIDE DEF words
<1>3. IsInjective(words)
  BY <1>2, Zenon DEF IsInjective
<1> QED
  BY <1>1, <1>3, Zenon DEF EachOnce, words

\* What the invariant says of the listing.
LEMMA DictInvListed == DictInv => HeadwordsListed
<1> SUFFICES ASSUME DictInv, phase = "built", Len(idx.words) \in 1 .. MaxElements * (MaxElements + 1)
             PROVE  LET keys == DOMAIN entries \ {<<>>}
                        nodes == FindNodes(idx)
                    IN  /\ \A n \in Range(nodes) : idx.file[n].leaf
                        /\ EachOnce(KeysOfNodes(idx, nodes), keys)
                        /\ EachOnce(KeysFrom(idx, FindChain(idx, <<>>)), keys)
  BY Zenon DEF HeadwordsListed
<1>1. IndexOK(idx, DOMAIN entries) /\ DOMAIN entries \in SUBSET Keys
  BY IndexReady DEF DictInv, EntriesInv
<1>2. Len(idx.words) <= MaxElements * (MaxElements + 1)
  OBVIOUS
<1> DEFINE keys == DOMAIN entries
           ix == idx
<1>3. IndexOK(ix, keys) /\ keys \in SUBSET Keys /\ Len(ix.words) <= MaxElements * (MaxElements + 1)
  BY <1>1, <1>2
<1> HIDE DEF keys, ix
<1>4. (\A o \in Range(FindNodes(ix)) : ix.file[o].leaf) /\ NodesHaveAll(ix)
  BY <1>3, LeavesListed
<1>5. KeysFrom(ix, FindChain(ix, <<>>)) = ix.words
  BY <1>3, WalkComplete
<1>6. EachOnce(ix.words, keys \ {<<>>})
  BY <1>3, WordsOnce
<1>7. /\ EachOnce(KeysOfNodes(ix, FindNodes(ix)), keys \ {<<>>})
      /\ EachOnce(KeysFrom(ix, FindChain(ix, <<>>)), keys \ {<<>>})
  BY <1>4, <1>5, <1>6, Zenon DEF NodesHaveAll
<1> QED
  BY <1>4, <1>7, Zenon DEF keys, ix

\* What the invariant says of the articles found.
LEMMA DictInvFound == DictInv => ArticlesFound
<1> SUFFICES ASSUME DictInv, phase = "built", NEW p \in Phrases
             PROVE  LET blocks == {b \in Blocks : <<p, b>> \in put}
                        found == FindArticles(p)
                    IN  /\ found \subseteq {address[b] : b \in blocks}
                        /\ \A b \in blocks :
                             /\ address[b] \in found \/ p.text = <<>> \/ CrowdedOut(p, Min(Starts(p)))
                             /\ size[b] > 0 /\ home[b] < Half =>
                                  ByteAt(address[b], 0) = [block |-> b, place |-> 0]
  BY Zenon DEF ArticlesFound
<1> DEFINE blocks == {b \in Blocks : <<p, b>> \in put}
           found == FindArticles(p)
           t == p.text
           c == FindChain(idx, t)
           links == {l \in Range(entries[t]) : Antialiased(p, l)}
<1>0. StorageInv /\ EntriesInv /\ PhaseInv /\ finished
  BY DEF DictInv, PhaseInv
<1>1. IndexOK(idx, DOMAIN entries) /\ DOMAIN entries \in SUBSET Keys
  BY <1>0, IndexReady DEF EntriesInv
<1>2. /\ t \in Keys /\ 1 \in Starts(p) /\ Min(Starts(p)) = 1 /\ KeyAt(p, 1) = t
  BY StartsFacts, KeyFacts
<1>3. found = IF t # <<>> /\ ExactMatch(c, t) THEN {link.article : link \in links} ELSE {}
  BY Zenon DEF FindArticles
<1>4. InOrder(idx.words, DOMAIN entries \ {<<>>}) /\ DOMAIN entries \ {<<>>} \in SUBSET Keys
  BY <1>1 DEF IndexOK
<1>5. idx.words \in Seq(Keys) /\ Range(idx.words) = DOMAIN entries \ {<<>>}
      /\ DOMAIN idx.words = 1 .. Len(idx.words) /\ Len(idx.words) \in Nat
  BY <1>4, LenProperties DEF InOrder
<1>6. ASSUME t \in DOMAIN entries, t # <<>>
      PROVE  ExactMatch(c, t)
  <2>1. PICK k \in 1 .. Len(idx.words) : idx.words[k] = t
    <3>1. t \in Range(idx.words)
      BY <1>5, <1>6
    <3> QED
      BY <1>5, <3>1 DEF Range
  <2>2. PICK L \in Nat : LowerBound(idx.words, t, L)
    BY <1>2, <1>4, LowerBoundExists
  <2>3. k = L
    BY <1>2, <1>4, <2>1, <2>2, LowerBoundSides
  <2>4. ChainAt(idx, c, L)
    BY <1>1, <1>2, <2>2, FindChainRight
  <2> HIDE DEF c
  <2>5. c \in Chains(idx) /\ c.at = k
    BY <1>5, <2>1, <2>3, <2>4 DEF ChainAt
  <2>6. c # NoChain
    BY <1>1, <2>5, ChainFacts
  <2> QED
    BY <2>1, <2>5, <2>6 DEF ExactMatch
<1>7. ASSUME ExactMatch(c, t)
      PROVE  t \in DOMAIN entries
  <2>1. c # NoChain /\ idx.words[c.at] = t
    BY <1>7 DEF ExactMatch
  <2>2. c \in Chains(idx)
    BY <1>1, <1>2, <2>1, FoundChain
  <2> HIDE DEF c
  <2>3. c.at \in 1 .. Len(idx.words)
    BY <1>1, <2>2, ChainFacts
  <2>4. idx.words[c.at] \in Range(idx.words)
    BY <1>5, <2>3, Zenon DEF Range
  <2> QED
    BY <1>5, <2>1, <2>4
<1>8. ASSUME t \in DOMAIN entries, NEW l \in links
      PROVE  l.article \in {address[b] : b \in blocks}
  <2>1. entries[t] \in Seq(LinksFor(t))
    BY <1>0, <1>8 DEF EntriesInv
  <2>2. PICK j \in 1 .. Len(entries[t]) : l = entries[t][j]
    <3>1. DOMAIN entries[t] = 1 .. Len(entries[t])
      BY <2>1, LenProperties
    <3> QED
      BY <1>8, <3>1 DEF Range
  <2>3. PICK r \in Given : \E i \in Starts(r) : \E b \in Blocks :
           /\ <<r, b>> \in put /\ KeyAt(r, i) = t /\ entries[t][j] = Link(r, i, b)
    <3> HIDE DEF t
    <3> QED
      BY <1>0, <1>8, LinkSource, Zenon
  <2>4. PICK b \in Blocks : <<r, b>> \in put /\ \E i : l = Link(r, i, b)
    BY <2>2, <2>3, Zenon
  <2>5. r = p /\ l.article = address[b]
    BY <1>8, <2>4 DEF Link, Antialiased
  <2> QED
    BY <2>4, <2>5
<1>9. found \subseteq {address[b] : b \in blocks}
  <2> HIDE DEF found, blocks, c, t
  <2>1. CASE t # <<>> /\ ExactMatch(c, t)
    <3>1. found = {link.article : link \in links} /\ t \in DOMAIN entries
      BY <1>3, <1>7, <2>1
    <3> QED
      BY <1>8, <3>1, Zenon
  <2>2. CASE ~(t # <<>> /\ ExactMatch(c, t))
    BY <1>3, <2>2
  <2> QED
    BY <2>1, <2>2
<1>10. ASSUME NEW b \in blocks
       PROVE  address[b] \in found \/ t = <<>> \/ CrowdedOut(p, Min(Starts(p)))
  <2>1. Linked(p, 1, b)
    <3>1. \A q \in put : \A x \in Starts(q[1]) : Linked(q[1], x, q[2])
      BY <1>0 DEF EntriesInv
    <3>2. <<p, b>>[1] = p /\ <<p, b>>[2] = b /\ <<p, b>> \in put
      OBVIOUS
    <3> QED
      BY <1>2, <3>1, <3>2, Zenon
  <2>2. t \in DOMAIN entries /\ (Link(p, 1, b) \in Range(entries[t]) \/ CrowdedOut(p, 1))
    BY <1>2, <2>1 DEF Linked
  <2>3. ASSUME Link(p, 1, b) \in Range(entries[t]), t # <<>>
        PROVE  address[b] \in found
    <3>1. Link(p, 1, b) \in links
      BY <2>3 DEF Antialiased, Link
    <3>2. Link(p, 1, b).article = address[b]
      BY DEF Link
    <3>3. ExactMatch(c, t)
      BY <1>6, <2>2, <2>3
    <3>4. found = {link.article : link \in links}
      BY <1>3, <2>3, <3>3, Zenon
    <3> HIDE DEF found, links
    <3> QED
      BY <3>1, <3>2, <3>4, Zenon
  <2> HIDE DEF found
  <2> QED
    BY <1>2, <2>2, <2>3
<1>11. ASSUME NEW b \in blocks, size[b] > 0, home[b] < Half
       PROVE  ByteAt(address[b], 0) = [block |-> b, place |-> 0]
  <2>1. BlocksReadBack
    BY <1>0, StorageInvReadsBack
  <2>2. size[b] \in Nat
    BY <1>0 DEF StorageInv, StorageShape
  <2>3. 0 \in 0 .. size[b] - 1
    BY <1>11, <2>2
  <2>4. b \in Blocks
    OBVIOUS
  <2> QED
    BY <1>0, <1>11, <2>1, <2>3, <2>4 DEF BlocksReadBack
<1> HIDE DEF found, c
<1> QED
  BY <1>9, <1>10, <1>11 DEF found

\* What the invariant says of the matches.
LEMMA DictInvExact == DictInv => MatchesExact
<1> SUFFICES ASSUME DictInv PROVE MatchesExact
  OBVIOUS
<1>1. StorageInv /\ EntriesInv /\ PhaseInv /\ SearchInv
  BY DEF DictInv
<1>2. CASE phase \in {"source", "built"}
  BY <1>1, <1>2 DEF PhaseInv, MatchesExact
<1>3. CASE phase \in {"reading", "done"}
  <2>1. FoldedInv /\ CurInv /\ MatchesInv
    BY <1>1, <1>3 DEF SearchInv
  <2> DEFINE words == idx.words
             n == Len(words)
             s == search.str
  <2>2. ASSUME phase = "done", ~isCancelled, Cardinality(matches) < MaxResults,
               NEW p \in Given \ matches, NEW i \in Starts(p), Fits(p, i)
        PROVE  CrowdedOut(p, i)
    <3> DEFINE key == KeyAt(p, i)
    <3>1. chop = 0 /\ ~ChainFits
      BY <1>1, <2>2 DEF SearchInv
    <3>2. s \in Keys /\ key # <<>> /\ IsPrefix(folded, key) /\ folded \in Keys
      <4>1. s \in Keys /\ key # <<>>
        BY <2>1, <2>2 DEF FoldedInv, Fits
      <4>2. CASE search.stemmed
        <5>1. CharsToChop(s) \in 0 .. Len(s) /\ Len(s) \in Nat
          BY <4>1, ChopFacts
        <5> DEFINE x == Len(s) - CharsToChop(s)
        <5>2. folded = SubSeq(s, 1, x + chop)
          BY <2>1, <4>2 DEF FoldedInv
        <5>3. x + chop = x /\ x \in 0 .. Len(s)
          BY <3>1, <5>1
        <5>4. IsPrefix(SubSeq(s, 1, x), key)
          BY <2>2, <4>2, Zenon DEF Fits
        <5>5. \A j \in 1 .. x : s[j] \in Nat
          <6>1. \A j \in 1 .. x : j \in 1 .. Len(s)
            BY <5>1, <5>3
          <6> QED
            BY <4>1, <6>1, ElementOfSeq DEF Keys
        <5> HIDE DEF x, s, key
        <5>6. SubSeq(s, 1, x) \in Keys
          BY <5>3, <5>5, SubSeqProperties DEF Keys
        <5> QED
          BY <4>1, <5>2, <5>3, <5>4, <5>6
      <4>3. CASE ~search.stemmed
        <5>1. folded = s
          BY <2>1, <4>3 DEF FoldedInv
        <5>2. IsPrefix(s, key)
          BY <2>2, <4>3, Zenon DEF Fits
        <5> QED
          BY <4>1, <5>1, <5>2
      <4> QED
        BY <4>2, <4>3
    <3>3. p \in Phrases /\ key \in DOMAIN entries /\ key \in Keys
      <4>1. PICK b \in Blocks : <<p, b>> \in put
        BY DEF Given
      <4>2. Linked(p, i, b)
        <5>1. \A q \in put : \A x \in Starts(q[1]) : Linked(q[1], x, q[2])
          BY <1>1 DEF EntriesInv
        <5>2. <<p, b>>[1] = p /\ <<p, b>>[2] = b
          OBVIOUS
        <5> QED
          BY <4>1, <5>1, <5>2, Zenon
      <4> QED
        BY <1>1, <4>2 DEF Linked, EntriesInv, Given
    <3>4. /\ IndexOK(idx, DOMAIN entries) /\ words \in Seq(Keys) /\ n \in Nat
          /\ Range(words) = DOMAIN entries \ {<<>>} /\ DOMAIN words = 1 .. n
          /\ \A j, k \in DOMAIN words : j < k => KeyLess(words[j], words[k])
      <4>1. IndexOK(idx, DOMAIN entries)
        BY <1>1, <1>3, IndexReady
      <4> QED
        BY <4>1, LenProperties DEF IndexOK, InOrder
    <3>5. PICK k \in 1 .. n : words[k] = key
      <4>1. key \in Range(words)
        BY <3>2, <3>3, <3>4
      <4> QED
        BY <3>4, <4>1 DEF Range
    <3>6. Passed(k)
      <4> SUFFICES ASSUME cur # NoChain, ~(k < cur.at) PROVE FALSE
        BY Zenon DEF Passed
      <4>1. cur \in Chains(idx) /\ ~KeyLess(words[cur.at], folded)
        BY <2>1 DEF CurInv
      <4>2. cur.at \in 1 .. n /\ words[cur.at] \in Keys
        BY <1>1, <1>3, <4>1, ReadKey
      <4>3. ~KeyLess(key, words[cur.at])
        <5>1. CASE k = cur.at
          BY <3>3, <3>5, <5>1, KeyNotLess
        <5>2. CASE k # cur.at
          <6>1. cur.at < k
            BY <3>4, <4>2, <5>2
          <6>2. KeyLess(words[cur.at], key)
            BY <3>4, <3>5, <4>2, <6>1
          <6> HIDE DEF key
          <6>3. ASSUME KeyLess(key, words[cur.at]) PROVE FALSE
            <7>1. KeyLess(key, key)
              BY <3>3, <4>2, <6>2, <6>3, KeyLessTransitive
            <7> QED
              BY <3>3, <7>1, KeyNotLess
          <6> QED
            BY <6>3
        <5> QED
          BY <5>1, <5>2
      <4>4. IsPrefix(folded, words[cur.at])
        <5> HIDE DEF key
        <5> QED
          BY <3>2, <3>3, <4>1, <4>2, <4>3, PrefixBetween
      <4> QED
        BY <2>2, <3>1, <4>4 DEF ChainFits
    <3>7. IsPrefix(folded, words[k])
      BY <3>2, <3>5
    <3> HIDE DEF words
    <3> QED
      BY <2>1, <2>2, <3>5, <3>6, <3>7 DEF MatchesInv, words
  <2> QED
    BY <2>1, <2>2, Zenon DEF MatchesExact, MatchesInv
<1> QED
  BY <1>1, <1>2, <1>3 DEF PhaseInv

\* The words gathered, the tree and the search agree.
THEOREM DictInvariant == Spec => []DictInv
  BY DictInvInit, DictInvInductive, PTL DEF Spec

\* A headword leads to all the articles that have it and to no other, whatever the
\* headwords, the size of the nodes and the depth of the tree
\* (src/src/dict/btreeidx.cc:60, src/src/dict/chunkedstorage.cc:138).
THEOREM HeadwordLeadsToArticles == Spec => []ArticlesFound
  BY DictInvariant, DictInvFound, PTL

\* A search gives the phrases that fit and, when it was neither cancelled nor stopped
\* by maxResults, all of them (src/src/dict/btreeidx.cc:253).
THEOREM SearchExact == Spec => []MatchesExact
  BY DictInvariant, DictInvExact, PTL

\* The leaves listed and the walk along their links each meet every key, and none twice,
\* when there are keys and they are few enough for two levels
\* (src/src/dict/btreeidx.cc:1265, :1089).
THEOREM ListingComplete == Spec => []HeadwordsListed
  BY DictInvariant, DictInvListed, PTL

\* Every article of a dictionary is read back from its address, whole and unmixed
\* (src/src/dict/chunkedstorage.cc:44).
THEOREM IndexReadsBack == Spec => []BlocksReadBack
<1>1. DictInv => BlocksReadBack
  BY StorageInvReadsBack DEF DictInv
<1> QED
  BY <1>1, DictInvariant, PTL
=============================================================================
