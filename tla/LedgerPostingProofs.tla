------------------------ MODULE LedgerPostingProofs ------------------------
(***************************************************************************)
(* Theorems about LedgerPosting, for every set of requests, tenants, keys  *)
(* and lines and any number of calls in flight.                            *)
(***************************************************************************)
EXTENDS LedgerPosting, FiniteSetTheorems, TLAPS

(* Sums over finite sets. *)

LEMMA LeastNat ==
    ASSUME NEW S, S \subseteq Nat, S # {}
    PROVE  \E x \in S : \A y \in S : x <= y
<1> DEFINE R == OpToRel(<, Nat)
<1>1. IsWellFoundedOn(R, Nat)
  BY NatLessThanWellFounded
<1>2. \A x, y \in Nat : x < y => <<x, y>> \in R
  BY DEF OpToRel
<1> HIDE DEF R
<1>3. PICK x \in S : \A y \in S : ~(<<y, x>> \in R)
  BY <1>1, WFMin
<1>4. \A y \in S : x \in Nat /\ y \in Nat /\ ~(y < x)
  BY <1>2, <1>3
<1>5. \A y \in S : x <= y
  BY <1>4
<1>6. QED
  BY <1>3, <1>5

\* What a finite set has if a set has it whenever it does without any one of its elements.
LEMMA SetInduction ==
    ASSUME NEW S, IsFiniteSet(S), NEW G,
           \A s \in SUBSET S : (\A x \in s : s \ {x} \in G) => s \in G
    PROVE  S \in G
<1> DEFINE T == {Cardinality(s) : s \in {t \in SUBSET S : t \notin G}}
<1>1. \A s \in SUBSET S : IsFiniteSet(s) /\ Cardinality(s) \in Nat
  BY FS_Subset, FS_CardinalityType
<1> SUFFICES ASSUME S \notin G PROVE FALSE
  OBVIOUS
<1>2. T \subseteq Nat /\ T # {}
  <2>1. T \subseteq Nat
    BY <1>1
  <2>2. S \in {t \in SUBSET S : t \notin G}
    OBVIOUS
  <2>3. QED
    BY <2>1, <2>2
<1>3. PICK n \in T : \A m \in T : n <= m
  BY <1>2, LeastNat
<1>4. PICK s \in SUBSET S : s \notin G /\ n = Cardinality(s)
  BY <1>3
<1>5. PICK x \in s : s \ {x} \notin G
  BY <1>4
<1>6. s \ {x} \in SUBSET S
  OBVIOUS
<1>7. Cardinality(s \ {x}) = Cardinality(s) - 1 /\ Cardinality(s \ {x}) \in Nat /\ Cardinality(s) \in Nat
  BY <1>1, <1>6, FS_RemoveElement
<1>8. Cardinality(s \ {x}) \in T
  BY <1>5, <1>6
<1> HIDE DEF T
<1>9. n <= Cardinality(s \ {x})
  BY <1>3, <1>8
<1>10. QED
  BY <1>4, <1>7, <1>9

-----------------------------------------------------------------------------
\* The function by which SumFunctionOnSet is defined, and its value for one set.
Chosen(s) == CHOOSE x \in s : TRUE
Value(sum, f, s) == IF s = {} THEN 0 ELSE f[Chosen(s)] + sum[s \ {Chosen(s)}]
Iter(sum, f, S) == sum = [s \in SUBSET S |-> Value(sum, f, s)]

LEMMA SumIsIter ==
    ASSUME NEW f, NEW S
    PROVE  SumFunctionOnSet(f, S) = (CHOOSE sum : Iter(sum, f, S))[S]
BY DEF SumFunctionOnSet, FoldFunctionOnSet, MapThenFoldSet, Iter, Value, Chosen

LEMMA IterExists ==
    ASSUME NEW f, NEW S, IsFiniteSet(S)
    PROVE  \E sum : Iter(sum, f, S)
<1> DEFINE UpTo(sum, n) == /\ sum = [s \in SUBSET S |-> sum[s]]
                           /\ \A s \in SUBSET S : Cardinality(s) <= n => sum[s] = Value(sum, f, s)
           T == {n \in Nat : ~\E sum : UpTo(sum, n)}
<1>1. \A s \in SUBSET S : IsFiniteSet(s) /\ Cardinality(s) \in Nat
  BY FS_Subset, FS_CardinalityType
<1>2. T = {}
  <2> SUFFICES ASSUME T # {} PROVE FALSE
    OBVIOUS
  <2>1. PICK n \in T : \A m \in T : n <= m
    <3>1. T \subseteq Nat
      OBVIOUS
    <3> HIDE DEF T
    <3>2. QED
      BY <3>1, LeastNat
  <2>2. PICK old : /\ old = [s \in SUBSET S |-> old[s]]
                   /\ \A s \in SUBSET S : Cardinality(s) < n => old[s] = Value(old, f, s)
    <3>1. CASE n = 0
      <4>1. \A s \in SUBSET S : ~(Cardinality(s) < n)
        BY <1>1, <3>1
      <4> PICK old : old = [s \in SUBSET S |-> 0]
        OBVIOUS
      <4>2. QED
        BY <4>1
    <3>2. CASE n # 0
      <4>1. n - 1 \in Nat /\ n - 1 \notin T
        <5>1. n \in Nat
          OBVIOUS
        <5> HIDE DEF T
        <5>2. n - 1 \in Nat /\ ~(n <= n - 1)
          BY <3>2, <5>1
        <5>3. QED
          BY <2>1, <5>2
      <4>2. PICK old : UpTo(old, n - 1)
        BY <4>1
      <4>3. \A s \in SUBSET S : Cardinality(s) < n => Cardinality(s) <= n - 1
        BY <1>1, <2>1
      <4>4. QED
        BY <4>2, <4>3
    <3>3. QED
      BY <3>1, <3>2
  <2> DEFINE new == [s \in SUBSET S |-> Value(old, f, s)]
  <2>3. ASSUME NEW s \in SUBSET S, Cardinality(s) <= n
        PROVE  new[s] = Value(new, f, s)
    <3>1. CASE s = {}
      BY <3>1 DEF Value
    <3>2. CASE s # {}
      <4> DEFINE t == s \ {Chosen(s)}
      <4>1. Chosen(s) \in s
        BY <3>2 DEF Chosen
      <4>2. t \in SUBSET S /\ Cardinality(t) < n
        <5>1. t \in SUBSET S
          OBVIOUS
        <5>2. Cardinality(t) = Cardinality(s) - 1
          BY <1>1, <4>1, FS_RemoveElement
        <5>3. QED
          BY <1>1, <2>1, <2>3, <5>1, <5>2
      <4>3. new[t] = Value(old, f, t)
        BY <4>2
      <4>4. old[t] = new[t]
        BY <2>2, <4>2, <4>3
      <4>5. new[s] = f[Chosen(s)] + old[t] /\ Value(new, f, s) = f[Chosen(s)] + new[t]
        BY <3>2 DEF Value
      <4>6. QED
        BY <4>4, <4>5
    <3>3. QED
      BY <3>1, <3>2
  <2>4. new = [s \in SUBSET S |-> new[s]]
    OBVIOUS
  <2> HIDE DEF new
  <2>5. UpTo(new, n)
    BY <2>3, <2>4
  <2>6. QED
    BY <2>1, <2>5
<1>3. PICK sum : UpTo(sum, Cardinality(S))
  BY <1>1, <1>2
<1>4. \A s \in SUBSET S : Cardinality(s) <= Cardinality(S)
  BY FS_Subset
<1>5. QED
  BY <1>3, <1>4 DEF Iter

LEMMA IterUnique ==
    ASSUME NEW f, NEW S, IsFiniteSet(S), NEW U, S \subseteq U, NEW V, S \subseteq V,
           NEW g, Iter(g, f, U), NEW h, Iter(h, f, V)
    PROVE  g[S] = h[S]
<1> DEFINE G == {s \in SUBSET S : g[s] = h[s]}
<1>1. ASSUME NEW s \in SUBSET S, \A x \in s : s \ {x} \in G
      PROVE  s \in G
  <2>1. g[s] = Value(g, f, s) /\ h[s] = Value(h, f, s)
    <3>1. s \in SUBSET U /\ s \in SUBSET V
      OBVIOUS
    <3>2. QED
      BY <3>1 DEF Iter
  <2>2. CASE s = {}
    BY <2>1, <2>2 DEF Value
  <2>3. CASE s # {}
    <3>1. Chosen(s) \in s
      BY <2>3 DEF Chosen
    <3>2. g[s \ {Chosen(s)}] = h[s \ {Chosen(s)}]
      BY <1>1, <3>1
    <3>3. QED
      BY <2>1, <2>3, <3>2 DEF Value
  <2>4. QED
    BY <2>2, <2>3
<1> HIDE DEF G
<1>2. S \in G
  BY <1>1, SetInduction
<1>3. QED
  BY <1>2 DEF G

\* A sum takes the chosen element first.
LEMMA SumChosen ==
    ASSUME NEW f, NEW S, IsFiniteSet(S)
    PROVE  SumFunctionOnSet(f, S) =
              IF S = {} THEN 0
              ELSE f[Chosen(S)] + SumFunctionOnSet(f, S \ {Chosen(S)})
<1> DEFINE T == S \ {Chosen(S)}
           g == CHOOSE sum : Iter(sum, f, S)
           h == CHOOSE sum : Iter(sum, f, T)
<1>1. IsFiniteSet(T) /\ T \subseteq S
  BY FS_Subset
<1>2. Iter(g, f, S) /\ Iter(h, f, T)
  <2>1. Iter(g, f, S)
    BY IterExists
  <2>2. Iter(h, f, T)
    <3>1. \E sum : Iter(sum, f, T)
      BY <1>1, IterExists
    <3>2. QED
      BY <3>1
  <2>3. QED
    BY <2>1, <2>2
<1>3. SumFunctionOnSet(f, S) = g[S] /\ SumFunctionOnSet(f, T) = h[T]
  BY SumIsIter
<1> HIDE DEF g, h
<1>4. g[T] = h[T]
  BY <1>1, <1>2, IterUnique
<1>5. g[S] = Value(g, f, S)
  BY <1>2 DEF Iter
<1>6. QED
  BY <1>3, <1>4, <1>5 DEF Value

LEMMA SumEmpty == ASSUME NEW f PROVE SumFunctionOnSet(f, {}) = 0
BY SumChosen, FS_EmptySet

LEMMA SumType ==
    ASSUME NEW S, IsFiniteSet(S), NEW f, \A x \in S : f[x] \in Int
    PROVE  SumFunctionOnSet(f, S) \in Int
<1> DEFINE G == {s \in SUBSET S : SumFunctionOnSet(f, s) \in Int}
<1>1. ASSUME NEW s \in SUBSET S, \A x \in s : s \ {x} \in G
      PROVE  s \in G
  <2>1. IsFiniteSet(s)
    BY FS_Subset
  <2>2. CASE s = {}
    BY <2>2, SumEmpty
  <2>3. CASE s # {}
    <3>1. Chosen(s) \in s
      BY <2>3 DEF Chosen
    <3>2. SumFunctionOnSet(f, s \ {Chosen(s)}) \in Int /\ f[Chosen(s)] \in Int
      BY <1>1, <3>1
    <3>3. SumFunctionOnSet(f, s) = f[Chosen(s)] + SumFunctionOnSet(f, s \ {Chosen(s)})
      BY <2>1, <2>3, SumChosen
    <3>4. QED
      BY <3>2, <3>3
  <2>4. QED
    BY <2>2, <2>3
<1> HIDE DEF G
<1>2. S \in G
  BY <1>1, SetInduction
<1>3. QED
  BY <1>2 DEF G

\* A sum may take any element first.
LEMMA SumRemove ==
    ASSUME NEW S, IsFiniteSet(S), NEW f, \A y \in S : f[y] \in Int, NEW x \in S
    PROVE  /\ SumFunctionOnSet(f, S) = f[x] + SumFunctionOnSet(f, S \ {x})
           /\ SumFunctionOnSet(f, S) \in Int /\ SumFunctionOnSet(f, S \ {x}) \in Int
<1> DEFINE Sum(s) == SumFunctionOnSet(f, s)
           G == {s \in SUBSET S : \A y \in s : Sum(s) = f[y] + Sum(s \ {y})}
<1>1. \A s \in SUBSET S : IsFiniteSet(s) /\ Sum(s) \in Int
  <2> TAKE s \in SUBSET S
  <2>1. IsFiniteSet(s)
    BY FS_Subset
  <2>2. QED
    BY <2>1, SumType
<1>2. ASSUME NEW s \in SUBSET S, \A y \in s : s \ {y} \in G
      PROVE  s \in G
  <2> SUFFICES ASSUME NEW y \in s PROVE Sum(s) = f[y] + Sum(s \ {y})
    OBVIOUS
  <2>1. PICK c : c = Chosen(s)
    OBVIOUS
  <2>2. c \in s /\ Sum(s) = f[c] + Sum(s \ {c})
    BY <1>1, <2>1, SumChosen DEF Chosen
  <2>3. CASE c = y
    BY <2>2, <2>3
  <2>4. CASE c # y
    <3>1. s \ {c} \in G /\ s \ {y} \in G /\ y \in s \ {c} /\ c \in s \ {y}
      BY <1>2, <2>2, <2>4
    <3>2. /\ Sum(s \ {c}) = f[y] + Sum((s \ {c}) \ {y})
          /\ Sum(s \ {y}) = f[c] + Sum((s \ {y}) \ {c})
      BY <3>1
    <3>3. (s \ {c}) \ {y} = (s \ {y}) \ {c} /\ (s \ {y}) \ {c} \in SUBSET S
      OBVIOUS
    <3>4. PICK a : a = Sum((s \ {y}) \ {c})
      OBVIOUS
    <3>5. a \in Int /\ f[c] \in Int /\ f[y] \in Int
      BY <1>1, <2>2, <3>3, <3>4
    <3>6. Sum(s \ {c}) = f[y] + a /\ Sum(s \ {y}) = f[c] + a
      BY <3>2, <3>3, <3>4
    <3> HIDE DEF Sum, G
    <3>7. QED
      BY <2>2, <3>5, <3>6
  <2>5. QED
    BY <2>3, <2>4
<1> HIDE DEF G
<1>3. S \in G
  BY <1>2, SetInduction
<1>4. QED
  BY <1>1, <1>3 DEF G

LEMMA SumSame ==
    ASSUME NEW S, IsFiniteSet(S), NEW f, NEW g, \A x \in S : f[x] = g[x]
    PROVE  SumFunctionOnSet(f, S) = SumFunctionOnSet(g, S)
<1> DEFINE G == {s \in SUBSET S : SumFunctionOnSet(f, s) = SumFunctionOnSet(g, s)}
<1>1. ASSUME NEW s \in SUBSET S, \A x \in s : s \ {x} \in G
      PROVE  s \in G
  <2>1. IsFiniteSet(s)
    BY FS_Subset
  <2>2. CASE s = {}
    BY <2>2, SumEmpty
  <2>3. CASE s # {}
    <3>1. Chosen(s) \in s
      BY <2>3 DEF Chosen
    <3>2. /\ SumFunctionOnSet(f, s \ {Chosen(s)}) = SumFunctionOnSet(g, s \ {Chosen(s)})
          /\ f[Chosen(s)] = g[Chosen(s)]
      BY <1>1, <3>1
    <3>3. QED
      BY <2>1, <2>3, <3>2, SumChosen
  <2>4. QED
    BY <2>2, <2>3
<1> HIDE DEF G
<1>2. S \in G
  BY <1>1, SetInduction
<1>3. QED
  BY <1>2 DEF G

LEMMA SumPlus ==
    ASSUME NEW S, IsFiniteSet(S), NEW f, NEW g, NEW h,
           \A x \in S : f[x] \in Int /\ g[x] \in Int /\ h[x] = f[x] + g[x]
    PROVE  SumFunctionOnSet(h, S) = SumFunctionOnSet(f, S) + SumFunctionOnSet(g, S)
<1> DEFINE Sum(e, s) == SumFunctionOnSet(e, s)
           G == {s \in SUBSET S : Sum(h, s) = Sum(f, s) + Sum(g, s)}
<1>1. ASSUME NEW s \in SUBSET S, \A x \in s : s \ {x} \in G
      PROVE  s \in G
  <2>1. IsFiniteSet(s)
    BY FS_Subset
  <2>2. CASE s = {}
    BY <2>2, SumEmpty
  <2>3. CASE s # {}
    <3>1. PICK x \in s : TRUE
      BY <2>3
    <3>2. Sum(h, s \ {x}) = Sum(f, s \ {x}) + Sum(g, s \ {x})
      BY <1>1, <3>1
    <3>3. \A y \in s : f[y] \in Int /\ g[y] \in Int /\ h[y] \in Int
      OBVIOUS
    <3>4. /\ Sum(f, s) = f[x] + Sum(f, s \ {x}) /\ Sum(f, s \ {x}) \in Int
          /\ Sum(g, s) = g[x] + Sum(g, s \ {x}) /\ Sum(g, s \ {x}) \in Int
          /\ Sum(h, s) = h[x] + Sum(h, s \ {x}) /\ Sum(h, s \ {x}) \in Int
      BY <2>1, <3>1, <3>3, SumRemove
    <3> HIDE DEF Sum
    <3>5. QED
      BY <3>1, <3>2, <3>3, <3>4
  <2>4. QED
    BY <2>2, <2>3
<1> HIDE DEF G
<1>2. S \in G
  BY <1>1, SetInduction
<1>3. QED
  BY <1>2 DEF G

LEMMA SumUnion ==
    ASSUME NEW S, IsFiniteSet(S), NEW T, IsFiniteSet(T), S \cap T = {},
           NEW f, \A x \in S \cup T : f[x] \in Int
    PROVE  SumFunctionOnSet(f, S \cup T) = SumFunctionOnSet(f, S) + SumFunctionOnSet(f, T)
<1> DEFINE Sum(s) == SumFunctionOnSet(f, s)
           G == {s \in SUBSET S : Sum(s \cup T) = Sum(s) + Sum(T)}
<1>0. Sum(T) \in Int
  BY SumType
<1>1. ASSUME NEW s \in SUBSET S, \A x \in s : s \ {x} \in G
      PROVE  s \in G
  <2>1. IsFiniteSet(s) /\ IsFiniteSet(s \cup T)
    BY FS_Subset, FS_Union
  <2>2. CASE s = {}
    <3>1. s \cup T = T
      BY <2>2
    <3>2. Sum(s) = 0
      BY <2>2, SumEmpty
    <3>3. PICK a \in Int : a = Sum(T)
      BY <1>0
    <3>4. Sum(s \cup T) = a
      BY <3>1, <3>3
    <3> HIDE DEF Sum
    <3>5. Sum(s \cup T) = Sum(s) + Sum(T)
      BY <3>2, <3>3, <3>4
    <3>6. QED
      BY <3>5
  <2>3. CASE s # {}
    <3>1. PICK x \in s : TRUE
      BY <2>3
    <3>2. Sum((s \ {x}) \cup T) = Sum(s \ {x}) + Sum(T)
      BY <1>1, <3>1
    <3>3. (s \cup T) \ {x} = (s \ {x}) \cup T /\ x \in s \cup T
      OBVIOUS
    <3>4. /\ Sum(s) = f[x] + Sum(s \ {x}) /\ Sum(s \ {x}) \in Int
          /\ Sum(s \cup T) = f[x] + Sum((s \cup T) \ {x})
      BY <2>1, <3>1, <3>3, SumRemove
    <3>5. PICK a, b \in Int : a = Sum(s \ {x}) /\ b = Sum(T)
      BY <1>0, <3>4
    <3>6. f[x] \in Int /\ Sum((s \cup T) \ {x}) = a + b
      BY <3>2, <3>3, <3>5
    <3> HIDE DEF Sum
    <3>7. Sum(s \cup T) = Sum(s) + Sum(T)
      BY <3>4, <3>5, <3>6
    <3>8. QED
      BY <3>7
  <2>4. QED
    BY <2>2, <2>3
<1> HIDE DEF G
<1>2. S \in G
  BY <1>1, SetInduction
<1>3. QED
  BY <1>2 DEF G

LEMMA SumZero ==
    ASSUME NEW S, IsFiniteSet(S), NEW f, \A x \in S : f[x] = 0
    PROVE  SumFunctionOnSet(f, S) = 0
<1> DEFINE G == {s \in SUBSET S : SumFunctionOnSet(f, s) = 0}
<1>1. ASSUME NEW s \in SUBSET S, \A x \in s : s \ {x} \in G
      PROVE  s \in G
  <2>1. CASE s = {}
    BY <2>1, SumEmpty
  <2>2. CASE s # {}
    <3>1. PICK x \in s : TRUE
      BY <2>2
    <3>2. SumFunctionOnSet(f, s \ {x}) = 0 /\ f[x] = 0 /\ \A y \in s : f[y] \in Int
      BY <1>1, <3>1
    <3>3. IsFiniteSet(s)
      BY FS_Subset
    <3>4. SumFunctionOnSet(f, s) = f[x] + SumFunctionOnSet(f, s \ {x})
      BY <3>1, <3>2, <3>3, SumRemove
    <3>5. QED
      BY <3>2, <3>4
  <2>3. QED
    BY <2>1, <2>2
<1> HIDE DEF G
<1>2. S \in G
  BY <1>1, SetInduction
<1>3. QED
  BY <1>2 DEF G

LEMMA SumMinus ==
    ASSUME NEW S, IsFiniteSet(S), NEW f, NEW g, \A x \in S : f[x] \in Int /\ g[x] = -f[x]
    PROVE  SumFunctionOnSet(g, S) = -SumFunctionOnSet(f, S) /\ SumFunctionOnSet(f, S) \in Int
<1>1. PICK h : h = [x \in S |-> 0]
  OBVIOUS
<1>2. \A x \in S : h[x] = 0 /\ h[x] = f[x] + g[x] /\ g[x] \in Int
  BY <1>1
<1>3. SumFunctionOnSet(h, S) = 0
  BY <1>2, SumZero
<1>4. SumFunctionOnSet(h, S) = SumFunctionOnSet(f, S) + SumFunctionOnSet(g, S)
  BY <1>2, SumPlus
<1>5. SumFunctionOnSet(f, S) \in Int /\ SumFunctionOnSet(g, S) \in Int
  BY <1>2, SumType
<1>6. QED
  BY <1>3, <1>4, <1>5

\* Sums of terms that are nowhere above.
LEMMA SumAtMost ==
    ASSUME NEW S, IsFiniteSet(S), NEW f, NEW g,
           \A x \in S : f[x] \in Int /\ g[x] \in Int /\ f[x] <= g[x]
    PROVE  SumFunctionOnSet(f, S) <= SumFunctionOnSet(g, S)
<1> DEFINE Sum(e, s) == SumFunctionOnSet(e, s)
           G == {s \in SUBSET S : Sum(f, s) <= Sum(g, s)}
<1>1. ASSUME NEW s \in SUBSET S, \A x \in s : s \ {x} \in G
      PROVE  s \in G
  <2>1. IsFiniteSet(s)
    BY FS_Subset
  <2>2. CASE s = {}
    BY <2>2, SumEmpty
  <2>3. CASE s # {}
    <3>1. PICK x \in s : TRUE
      BY <2>3
    <3>2. Sum(f, s \ {x}) <= Sum(g, s \ {x})
      BY <1>1, <3>1
    <3>3. \A y \in s : f[y] \in Int /\ g[y] \in Int
      OBVIOUS
    <3>4. /\ Sum(f, s) = f[x] + Sum(f, s \ {x}) /\ Sum(f, s \ {x}) \in Int
          /\ Sum(g, s) = g[x] + Sum(g, s \ {x}) /\ Sum(g, s \ {x}) \in Int
      BY <2>1, <3>1, <3>3, SumRemove
    <3>5. f[x] \in Int /\ g[x] \in Int /\ f[x] <= g[x]
      BY <3>1
    <3> HIDE DEF Sum
    <3>6. QED
      BY <3>2, <3>4, <3>5
  <2>4. QED
    BY <2>2, <2>3
<1> HIDE DEF G
<1>2. S \in G
  BY <1>1, SetInduction
<1>3. QED
  BY <1>2 DEF G

\* A sum of which all but one term are zero.
LEMMA SumPoint ==
    ASSUME NEW S, IsFiniteSet(S), NEW f, NEW u \in S, f[u] \in Int, \A x \in S \ {u} : f[x] = 0
    PROVE  SumFunctionOnSet(f, S) = f[u]
<1>1. \A x \in S : f[x] \in Int
  OBVIOUS
<1>2. SumFunctionOnSet(f, S) = f[u] + SumFunctionOnSet(f, S \ {u})
  BY <1>1, SumRemove
<1>3. IsFiniteSet(S \ {u})
  BY FS_Subset
<1>4. SumFunctionOnSet(f, S \ {u}) = 0
  BY <1>3, SumZero
<1>5. QED
  BY <1>2, <1>4

\* Terms that are zero may be left out.
LEMMA SumPart ==
    ASSUME NEW S, IsFiniteSet(S), NEW T \in SUBSET S, NEW f,
           \A x \in T : f[x] \in Int, \A x \in S \ T : f[x] = 0
    PROVE  SumFunctionOnSet(f, S) = SumFunctionOnSet(f, T)
<1>1. IsFiniteSet(T) /\ IsFiniteSet(S \ T)
  BY FS_Subset
<1>2. T \cap (S \ T) = {} /\ T \cup (S \ T) = S /\ \A x \in T \cup (S \ T) : f[x] \in Int
  OBVIOUS
<1>3. SumFunctionOnSet(f, T \cup (S \ T)) = SumFunctionOnSet(f, T) + SumFunctionOnSet(f, S \ T)
  BY <1>1, <1>2, SumUnion
<1>4. SumFunctionOnSet(f, S \ T) = 0
  BY <1>1, SumZero
<1>5. PICK n \in Int : n = SumFunctionOnSet(f, T)
  BY <1>1, SumType
<1>6. SumFunctionOnSet(f, T \cup (S \ T)) = n
  BY <1>3, <1>4, <1>5
<1>7. QED
  BY <1>2, <1>5, <1>6

\* rows and columns are the sums of f, whose columns are the rows of turned.
Table(S, T, f, rows, turned, columns) ==
    /\ IsFiniteSet(S) /\ IsFiniteSet(T)
    /\ \A x \in S, y \in T : f[x][y] \in Int /\ turned[y][x] = f[x][y]
    /\ \A x \in S : rows[x] = SumFunctionOnSet(f[x], T)
    /\ \A y \in T : columns[y] = SumFunctionOnSet(turned[y], S)

\* Columns first or rows first.
LEMMA SumSwap ==
    ASSUME NEW S, NEW T, NEW f, NEW rows, NEW turned, NEW columns,
           Table(S, T, f, rows, turned, columns)
    PROVE  SumFunctionOnSet(rows, S) = SumFunctionOnSet(columns, T)
<1> USE DEF Table
<1> DEFINE C(s) == [y \in T |-> SumFunctionOnSet(turned[y], s)]
           G == {s \in SUBSET S : SumFunctionOnSet(rows, s) = SumFunctionOnSet(C(s), T)}
<1>1. ASSUME NEW s \in SUBSET S, \A x \in s : s \ {x} \in G
      PROVE  s \in G
  <2>1. IsFiniteSet(s)
    BY FS_Subset
  <2>2. CASE s = {}
    <3>1. SumFunctionOnSet(rows, s) = 0 /\ \A y \in T : C(s)[y] = 0
      BY <2>2, SumEmpty
    <3> HIDE DEF C
    <3>2. SumFunctionOnSet(C(s), T) = 0
      BY <3>1, SumZero
    <3>3. QED
      BY <3>1, <3>2
  <2>3. CASE s # {}
    <3>1. PICK x \in s : TRUE
      BY <2>3
    <3>2. PICK r : r = s \ {x}
      OBVIOUS
    <3>3. r \in SUBSET S /\ SumFunctionOnSet(rows, r) = SumFunctionOnSet(C(r), T)
      BY <1>1, <3>1, <3>2
    <3>4. IsFiniteSet(r)
      BY <3>3, FS_Subset
    <3>5. ASSUME NEW y \in T
          PROVE  /\ C(s)[y] = f[x][y] + C(r)[y]
                 /\ f[x][y] \in Int /\ C(r)[y] \in Int
      <4>1. \A z \in s : turned[y][z] \in Int
        OBVIOUS
      <4>2. /\ SumFunctionOnSet(turned[y], s) = turned[y][x] + SumFunctionOnSet(turned[y], s \ {x})
            /\ SumFunctionOnSet(turned[y], s \ {x}) \in Int
        BY <2>1, <3>1, <4>1, SumRemove
      <4>3. QED
        BY <3>1, <3>2, <4>2
    <3> HIDE DEF C, G
    <3>6. SumFunctionOnSet(C(s), T) = SumFunctionOnSet(f[x], T) + SumFunctionOnSet(C(r), T)
      BY <3>5, SumPlus
    <3>7. \A z \in s : rows[z] \in Int
      <4> SUFFICES ASSUME NEW z \in s PROVE rows[z] \in Int
        OBVIOUS
      <4>1. SumFunctionOnSet(f[z], T) \in Int
        BY SumType
      <4>2. QED
        BY <4>1
    <3>8. SumFunctionOnSet(rows, s) = rows[x] + SumFunctionOnSet(rows, r)
      BY <2>1, <3>1, <3>2, <3>7, SumRemove
    <3>9. SumFunctionOnSet(rows, s) = SumFunctionOnSet(C(s), T)
      BY <3>1, <3>3, <3>6, <3>8
    <3>10. QED
      BY <3>9 DEF G
  <2>4. QED
    BY <2>2, <2>3
<1> HIDE DEF G
<1>2. S \in G
  BY <1>1, SetInduction
<1>3. \A y \in T : C(S)[y] = columns[y]
  OBVIOUS
<1> HIDE DEF C
<1>4. SumFunctionOnSet(C(S), T) = SumFunctionOnSet(columns, T)
  BY <1>3, SumSame
<1>5. QED
  BY <1>2, <1>4 DEF G

\* h renames the elements of S to those of T, and f to g.
Renaming(S, T, h, f, g) ==
    /\ IsFiniteSet(S) /\ IsFiniteSet(T)
    /\ \A x \in S : h[x] \in T
    /\ \A x, y \in S : h[x] = h[y] => x = y
    /\ \A z \in T : \E x \in S : h[x] = z
    /\ \A x \in S : f[x] \in Int /\ g[h[x]] = f[x]

\* The terms of a sum under other names.
LEMMA SumRenamed ==
    ASSUME NEW S, NEW T, NEW h, NEW f, NEW g, Renaming(S, T, h, f, g)
    PROVE  SumFunctionOnSet(f, S) = SumFunctionOnSet(g, T)
<1> USE DEF Renaming
<1> DEFINE Im(s) == {z \in T : \E x \in s : h[x] = z}
           G == {s \in SUBSET S : SumFunctionOnSet(f, s) = SumFunctionOnSet(g, Im(s))}
<1>1. ASSUME NEW s \in SUBSET S, \A x \in s : s \ {x} \in G
      PROVE  s \in G
  <2>1. IsFiniteSet(s) /\ IsFiniteSet(Im(s))
    <3>1. Im(s) \subseteq T
      OBVIOUS
    <3> HIDE DEF Im
    <3>2. QED
      BY <3>1, FS_Subset
  <2>2. CASE s = {}
    <3>1. Im(s) = {}
      BY <2>2
    <3>2. QED
      BY <2>2, <3>1, SumEmpty
  <2>3. CASE s # {}
    <3>1. PICK x \in s : TRUE
      BY <2>3
    <3>2. PICK z \in T : z = h[x]
      BY <3>1
    <3>3. Im(s) \ {z} = Im(s \ {x}) /\ z \in Im(s) /\ \A y \in Im(s) : g[y] \in Int
      BY <3>1, <3>2
    <3>4. SumFunctionOnSet(f, s \ {x}) = SumFunctionOnSet(g, Im(s \ {x}))
      BY <1>1, <3>1
    <3> HIDE DEF Im, G
    <3>5. SumFunctionOnSet(g, Im(s)) = g[z] + SumFunctionOnSet(g, Im(s) \ {z})
      BY <2>1, <3>3, SumRemove
    <3>6. SumFunctionOnSet(f, s) = f[x] + SumFunctionOnSet(f, s \ {x})
      BY <2>1, <3>1, SumRemove
    <3>7. SumFunctionOnSet(f, s) = SumFunctionOnSet(g, Im(s))
      BY <3>1, <3>2, <3>3, <3>4, <3>5, <3>6
    <3>8. QED
      BY <3>7 DEF G
  <2>4. QED
    BY <2>2, <2>3
<1> HIDE DEF G
<1>2. S \in G
  BY <1>1, SetInduction
<1>3. Im(S) = T
  OBVIOUS
<1>4. QED
  BY <1>2, <1>3 DEF G

LEMMA ImageFinite ==
    ASSUME NEW S, IsFiniteSet(S), NEW k
    PROVE  IsFiniteSet({k[x] : x \in S})
<1> DEFINE G == {s \in SUBSET S : IsFiniteSet({k[x] : x \in s})}
<1>1. ASSUME NEW s \in SUBSET S, \A x \in s : s \ {x} \in G
      PROVE  s \in G
  <2>1. CASE s = {}
    <3>1. {k[x] : x \in s} = {}
      BY <2>1
    <3>2. QED
      BY <3>1, FS_EmptySet
  <2>2. CASE s # {}
    <3>1. PICK x \in s : TRUE
      BY <2>2
    <3>2. PICK u : u = {k[y] : y \in s \ {x}}
      OBVIOUS
    <3>3. IsFiniteSet(u)
      BY <1>1, <3>1, <3>2
    <3>4. IsFiniteSet(u \cup {k[x]})
      BY <3>3, FS_AddElement
    <3>5. {k[y] : y \in s} = u \cup {k[x]}
      BY <3>1, <3>2
    <3>6. QED
      BY <3>4, <3>5
  <2>3. QED
    BY <2>1, <2>2
<1> HIDE DEF G
<1>2. S \in G
  BY <1>1, SetInduction
<1>3. QED
  BY <1>2 DEF G

\* T are the groups of S by k, sums those of g over each.
Grouping(S, T, k, g, sums) ==
    /\ IsFiniteSet(S) /\ T = {k[x] : x \in S}
    /\ \A x \in S : g[x] \in Int
    /\ \A z \in T : sums[z] = SumFunctionOnSet(g, {x \in S : k[x] = z})

\* A sum taken group by group; k[x] is the group of x.
LEMMA SumGrouped ==
    ASSUME NEW S, NEW T, NEW k, NEW g, NEW sums, Grouping(S, T, k, g, sums)
    PROVE  SumFunctionOnSet(sums, T) = SumFunctionOnSet(g, S)
<1> USE DEF Grouping
<1> DEFINE Of(s, z) == {x \in s : k[x] = z}
           F(s) == [z \in T |-> SumFunctionOnSet(g, Of(s, z))]
           G == {s \in SUBSET S : SumFunctionOnSet(F(s), T) = SumFunctionOnSet(g, s)}
<1>0. IsFiniteSet(T)
  BY ImageFinite
<1>1. ASSUME NEW s \in SUBSET S, \A x \in s : s \ {x} \in G
      PROVE  s \in G
  <2>1. IsFiniteSet(s)
    BY FS_Subset
  <2>2. CASE s = {}
    <3>1. \A z \in T : Of(s, z) = {}
      BY <2>2
    <3>2. \A z \in T : F(s)[z] = 0
      BY <3>1, SumEmpty
    <3> HIDE DEF F
    <3>3. SumFunctionOnSet(F(s), T) = 0
      BY <1>0, <3>2, SumZero
    <3>4. QED
      BY <2>2, <3>3, SumEmpty
  <2>3. CASE s # {}
    <3>1. PICK x \in s : TRUE
      BY <2>3
    <3>2. PICK r, u : r = s \ {x} /\ u = k[x]
      OBVIOUS
    <3>3. r \in SUBSET S /\ SumFunctionOnSet(F(r), T) = SumFunctionOnSet(g, r) /\ u \in T
      BY <1>1, <3>1, <3>2
    <3>4. \A q \in SUBSET S, z \in T : IsFiniteSet(Of(q, z)) /\ F(q)[z] \in Int
      <4> SUFFICES ASSUME NEW q \in SUBSET S, NEW z \in T
                   PROVE  IsFiniteSet(Of(q, z)) /\ F(q)[z] \in Int
        OBVIOUS
      <4>1. Of(q, z) \subseteq S
        OBVIOUS
      <4>2. IsFiniteSet(Of(q, z))
        BY <4>1, FS_Subset
      <4> HIDE DEF Of
      <4>3. SumFunctionOnSet(g, Of(q, z)) \in Int
        BY <4>1, <4>2, SumType
      <4>4. QED
        BY <4>2, <4>3
    <3>5. F(s)[u] = g[x] + F(r)[u]
      <4>1. Of(s, u) \ {x} = Of(r, u) /\ x \in Of(s, u) /\ \A y \in Of(s, u) : g[y] \in Int
        BY <3>1, <3>2
      <4>2. IsFiniteSet(Of(s, u))
        BY <3>3, <3>4
      <4> HIDE DEF Of
      <4>3. SumFunctionOnSet(g, Of(s, u)) = g[x] + SumFunctionOnSet(g, Of(s, u) \ {x})
        BY <4>1, <4>2, SumRemove
      <4>4. QED
        BY <3>3, <4>1, <4>3
    <3>6. ASSUME NEW z \in T \ {u} PROVE F(s)[z] = F(r)[z]
      <4>1. Of(s, z) = Of(r, z)
        BY <3>1, <3>2
      <4> HIDE DEF Of
      <4>2. QED
        BY <4>1
    <3> HIDE DEF F, Of, G
    <3>7. /\ SumFunctionOnSet(F(s), T) = F(s)[u] + SumFunctionOnSet(F(s), T \ {u})
          /\ SumFunctionOnSet(F(s), T \ {u}) \in Int
      <4>1. PICK h : h = F(s)
        OBVIOUS
      <4>2. \A z \in T : h[z] \in Int
        BY <3>4, <4>1
      <4>3. /\ SumFunctionOnSet(h, T) = h[u] + SumFunctionOnSet(h, T \ {u})
            /\ SumFunctionOnSet(h, T \ {u}) \in Int
        <5>1. u \in T
          BY <3>3
        <5>2. QED
          BY ONLY <1>0, <4>2, <5>1, SumRemove
      <4>4. QED
        BY <4>1, <4>3
    <3>8. SumFunctionOnSet(F(r), T) = F(r)[u] + SumFunctionOnSet(F(r), T \ {u})
      <4>1. PICK h : h = F(r)
        OBVIOUS
      <4>2. \A z \in T : h[z] \in Int
        BY <3>3, <3>4, <4>1
      <4>3. SumFunctionOnSet(h, T) = h[u] + SumFunctionOnSet(h, T \ {u})
        <5>1. u \in T
          BY <3>3
        <5>2. QED
          BY ONLY <1>0, <4>2, <5>1, SumRemove
      <4>4. QED
        BY <4>1, <4>3
    <3>9. SumFunctionOnSet(F(s), T \ {u}) = SumFunctionOnSet(F(r), T \ {u})
      <4>1. IsFiniteSet(T \ {u})
        BY <1>0, FS_Subset
      <4>2. QED
        BY <3>6, <4>1, SumSame
    <3>10. SumFunctionOnSet(g, s) = g[x] + SumFunctionOnSet(g, r)
      BY <2>1, <3>1, <3>2, SumRemove
    <3>11. F(r)[u] \in Int /\ g[x] \in Int
      BY <3>1, <3>3, <3>4
    <3>12. SumFunctionOnSet(F(s), T) = SumFunctionOnSet(g, s)
      <4>1. PICK n \in Int : n = SumFunctionOnSet(F(s), T \ {u})
        BY <3>7
      <4>2. PICK d, c : d = F(r)[u] /\ c = g[x]
        OBVIOUS
      <4>3. SumFunctionOnSet(F(r), T) = d + n
        BY <3>8, <3>9, <4>1, <4>2
      <4>4. SumFunctionOnSet(F(s), T) = c + d + n
        BY <3>5, <3>7, <3>11, <4>1, <4>2
      <4>5. SumFunctionOnSet(g, s) = c + (d + n)
        BY <3>3, <3>10, <4>2, <4>3
      <4>6. d \in Int /\ c \in Int
        BY <3>11, <4>2
      <4>7. QED
        BY <4>4, <4>5, <4>6
    <3>13. QED
      BY <3>12 DEF G
  <2>4. QED
    BY <2>2, <2>3
<1> HIDE DEF G
<1>2. S \in G
  BY <1>1, SetInduction
<1>3. \A z \in T : F(S)[z] = sums[z]
  OBVIOUS
<1> HIDE DEF F
<1>4. SumFunctionOnSet(F(S), T) = SumFunctionOnSet(sums, T)
  BY <1>0, <1>3, SumSame
<1>5. QED
  BY <1>2, <1>4 DEF G

\* Each of R takes back the amount of its target in P; of[e] are those of e.
Reversing(P, R, a, t, of, net) ==
    /\ IsFiniteSet(P) /\ IsFiniteSet(R) /\ P \cap R = {}
    /\ \A x \in P \cup R : a[x] \in Int
    /\ \A x \in R : t[x] \in P /\ a[x] = -a[t[x]]
    /\ \A e \in P : /\ of[e] \in SUBSET R /\ \A x \in R : x \in of[e] <=> t[x] = e
                   /\ net[e] = a[e] * (1 - Cardinality(of[e]))

\* Reversals taken one by one: each takes the amount of its posting back.
LEMMA NetOfReversals ==
    ASSUME NEW P, NEW R, NEW a, NEW t, NEW of, NEW net, Reversing(P, R, a, t, of, net)
    PROVE  SumFunctionOnSet(a, P \cup R) = SumFunctionOnSet(net, P)
<1> USE DEF Reversing
<1> DEFINE Of(s, e) == {x \in s : t[x] = e}
           Left(s) == [e \in P |-> a[e] * (1 - Cardinality(Of(s, e)))]
           Sound == {s \in SUBSET R :
                        SumFunctionOnSet(a, P \cup s) = SumFunctionOnSet(Left(s), P)}
<1>1. \A s \in SUBSET R, e \in P :
         /\ IsFiniteSet(Of(s, e)) /\ Cardinality(Of(s, e)) \in Nat
  <2> TAKE s \in SUBSET R, e \in P
  <2>1. Of(s, e) \subseteq R
    OBVIOUS
  <2>2. IsFiniteSet(Of(s, e))
    BY <2>1, FS_Subset
  <2>3. QED
    BY <2>2, FS_CardinalityType
<1>2. \A s \in SUBSET R, e \in P :
         Left(s)[e] = a[e] * (1 - Cardinality(Of(s, e))) /\ Left(s)[e] \in Int
  <2> HIDE DEF Of
  <2>1. QED
    BY <1>1
<1>3. \A s \in SUBSET R : IsFiniteSet(P \cup s) /\ \A x \in P \cup s : a[x] \in Int
  <2> TAKE s \in SUBSET R
  <2>1. IsFiniteSet(s)
    BY FS_Subset
  <2>2. QED
    BY <2>1, FS_Union
<1>4. ASSUME NEW s \in SUBSET R, \A x \in s : s \ {x} \in Sound
      PROVE  s \in Sound
  <2>1. CASE s = {}
    <3>1. P \cup s = P
      BY <2>1
    <3>2. ASSUME NEW e \in P PROVE a[e] = Left(s)[e]
      <4>1. Of(s, e) = {}
        BY <2>1
      <4>2. Cardinality(Of(s, e)) = 0
        BY <4>1, FS_EmptySet
      <4>3. Left(s)[e] = a[e] * (1 - 0) /\ a[e] \in Int
        BY <1>2, <4>2
      <4> HIDE DEF Left
      <4>4. QED
        BY <4>3
    <3> HIDE DEF Left
    <3>3. SumFunctionOnSet(a, P) = SumFunctionOnSet(Left(s), P)
      BY <3>2, SumSame
    <3>4. QED
      BY <3>1, <3>3
  <2>2. CASE s # {}
    <3>1. PICK x \in s : TRUE
      BY <2>2
    <3>2. PICK r, e : r = s \ {x} /\ e = t[x]
      OBVIOUS
    <3>3. r \in SUBSET R /\ r \in Sound /\ e \in P /\ x \in R /\ a[x] = -a[e] /\ x \notin P
      BY <1>4, <3>1, <3>2
    <3>4. SumFunctionOnSet(a, P \cup r) = SumFunctionOnSet(Left(r), P)
      BY <3>3
    <3>5. /\ SumFunctionOnSet(a, P \cup s) = a[x] + SumFunctionOnSet(a, P \cup r)
          /\ SumFunctionOnSet(a, P \cup r) \in Int
      <4>1. PICK u : u = P \cup s
        OBVIOUS
      <4>2. u \ {x} = P \cup r /\ x \in u
        BY <3>1, <3>2, <3>3, <4>1
      <4>3. IsFiniteSet(u) /\ \A y \in u : a[y] \in Int
        BY <1>3, <4>1
      <4> HIDE DEF Sound
      <4>4. /\ SumFunctionOnSet(a, u) = a[x] + SumFunctionOnSet(a, u \ {x})
            /\ SumFunctionOnSet(a, u \ {x}) \in Int
        BY <4>2, <4>3, SumRemove
      <4>5. QED
        BY <4>1, <4>2, <4>4
    <3>6. Left(s)[e] = Left(r)[e] - a[e]
      <4>1. Of(r, e) = Of(s, e) \ {x} /\ x \in Of(s, e)
        BY <3>1, <3>2
      <4> HIDE DEF Of, Sound
      <4>2. PICK k \in Nat : k = Cardinality(Of(r, e))
        BY <1>1, <3>3
      <4>3. Cardinality(Of(r, e)) = Cardinality(Of(s, e)) - 1 /\ Cardinality(Of(s, e)) \in Nat
        <5>1. PICK c : c = Of(s, e)
          OBVIOUS
        <5>2. IsFiniteSet(c) /\ Cardinality(c) \in Nat
          BY <1>1, <3>3, <5>1
        <5>3. x \in c /\ Of(r, e) = c \ {x}
          BY <4>1, <5>1
        <5>4. Cardinality(c \ {x}) = Cardinality(c) - 1
          BY <5>2, <5>3, FS_RemoveElement
        <5>5. QED
          BY <5>1, <5>2, <5>3, <5>4
      <4>4. Cardinality(Of(s, e)) = k + 1
        BY <4>2, <4>3
      <4>5. PICK n \in Int : n = a[e]
        BY <3>3
      <4>6. Left(s)[e] = n * (1 - (k + 1)) /\ Left(r)[e] = n * (1 - k)
        BY <1>2, <3>3, <4>2, <4>4, <4>5
      <4>7. n * (1 - (k + 1)) = n * (1 - k) - n
        OBVIOUS
      <4> HIDE DEF Left
      <4>8. QED
        BY <4>5, <4>6, <4>7
    <3>7. ASSUME NEW f \in P \ {e} PROVE Left(s)[f] = Left(r)[f]
      <4>1. Of(s, f) = Of(r, f)
        BY <3>2
      <4>2. QED
        BY <1>2, <3>3, <4>1
    <3> HIDE DEF Left, Sound
    <3>8. /\ SumFunctionOnSet(Left(s), P) = Left(s)[e] + SumFunctionOnSet(Left(s), P \ {e})
          /\ SumFunctionOnSet(Left(s), P \ {e}) \in Int
      <4>1. \A f \in P : Left(s)[f] \in Int
        BY <1>2
      <4>2. QED
        BY <3>3, <4>1, SumRemove
    <3>9. SumFunctionOnSet(Left(r), P) = Left(r)[e] + SumFunctionOnSet(Left(r), P \ {e})
      <4>1. \A f \in P : Left(r)[f] \in Int
        BY <1>2, <3>3
      <4>2. QED
        BY <3>3, <4>1, SumRemove
    <3>10. SumFunctionOnSet(Left(s), P \ {e}) = SumFunctionOnSet(Left(r), P \ {e})
      <4>1. IsFiniteSet(P \ {e})
        BY FS_Subset
      <4>2. QED
        BY <3>7, <4>1, SumSame
    <3>11. Left(r)[e] \in Int /\ a[e] \in Int
      BY <1>2, <3>3
    <3>12. SumFunctionOnSet(a, P \cup s) = SumFunctionOnSet(Left(s), P)
      BY <3>3, <3>4, <3>5, <3>6, <3>8, <3>9, <3>10, <3>11
    <3>13. QED
      BY <3>12 DEF Sound
  <2>3. QED
    BY <2>1, <2>2
<1> HIDE DEF Sound
<1>5. R \in Sound
  BY <1>4, SetInduction
<1>6. SumFunctionOnSet(a, P \cup R) = SumFunctionOnSet(Left(R), P)
  BY <1>5 DEF Sound
<1>7. ASSUME NEW e \in P PROVE Left(R)[e] = net[e]
  <2>1. Of(R, e) = {x \in of[e] : TRUE}
    OBVIOUS
  <2>2. Of(R, e) = of[e]
    BY <2>1
  <2>3. QED
    BY <2>2
<1> HIDE DEF Left
<1>8. SumFunctionOnSet(Left(R), P) = SumFunctionOnSet(net, P)
  BY <1>7, SumSame
<1>9. QED
  BY <1>6, <1>8
-----------------------------------------------------------------------------
USE LedgerPostingAssumption

\* The elements of a sequence over S are in S, and that makes it one.
LEMMA SeqElement ==
    ASSUME NEW S, NEW q \in Seq(S), NEW i \in 1 .. Len(q)
    PROVE  q[i] \in S
OBVIOUS

LEMMA SeqFromElements ==
    ASSUME NEW S, NEW T, NEW q \in Seq(S), \A i \in 1 .. Len(q) : q[i] \in T
    PROVE  q \in Seq(T)
OBVIOUS

\* Negating lines gives lines.
LEMMA NegateType ==
    ASSUME NEW lines \in Seq(Line)
    PROVE  Negate(lines) \in Seq(Line)
<1>1. ASSUME NEW i \in 1 .. Len(lines)
      PROVE  [lines[i] EXCEPT !.amount = 0 - lines[i].amount] \in Line
  <2>1. lines[i] \in Line
    BY SeqElement
  <2>2. QED
    BY <2>1 DEF Line
<1>2. Negate(lines) \in [1 .. Len(lines) -> Line]
  BY <1>1 DEF Negate
<1>3. QED
  BY <1>2

\* Lines that passed validation may be stored.
LEMMA ValidLinesType ==
    ASSUME NEW c \in PostCommand, ValidCommand(c)
    PROVE  PostedRow(c) \in EventRow(Request)
<1>1. c.lines \in Seq([member : Member \cup {GroupAccount}, bucket : BucketName, amount : Int])
  BY LinesAssumption DEF PostCommand
<1>2. ASSUME NEW i \in 1 .. Len(c.lines)
      PROVE  c.lines[i] \in Line
  <2>1. c.lines[i] \in [member : Member \cup {GroupAccount}, bucket : BucketName, amount : Int]
    BY <1>1, SeqElement
  <2>2. c.lines[i].bucket \in FundBucket
    BY <1>1 DEF ValidCommand
  <2>3. QED
    BY <2>1, <2>2 DEF Line
<1>3. c.lines \in Seq(Line)
  BY <1>1, <1>2, SeqFromElements
<1>4. QED
  BY <1>3 DEF PostedRow, EventRow, PostCommand

\* The row of a reversal may be stored.
LEMMA ReversalRowType ==
    ASSUME NEW c \in ReverseCommand, TypeOK, events[c.target] # NoEvent
    PROVE  ReversalRow(c) \in EventRow(Request)
<1>1. events[c.target] \in EventRow(Request)
  BY DEF TypeOK, ReverseCommand
<1>2. Negate(events[c.target].lines) \in Seq(Line)
  BY <1>1, NegateType DEF EventRow
<1>3. QED
  BY <1>2 DEF ReversalRow, EventRow, ReverseCommand

\* Every variable keeps its type.
LEMMA TypeStep == TypeOK /\ CallInv /\ [Next]_vars => TypeOK'
<1> SUFFICES ASSUME TypeOK, CallInv, [Next]_vars PROVE TypeOK'
  OBVIOUS
<1> USE DEF Step, PostStep, ReversalStep, Finished, Goto, Return
<1>1. ASSUME NEW r \in Request, NEW c \in PostCommand, StartPost(r, c) PROVE TypeOK'
  BY <1>1 DEF TypeOK, StartPost, Command
<1>2. ASSUME NEW r \in Request, Lookup(r) PROVE TypeOK'
  BY <1>2 DEF TypeOK, Lookup, ByKey, Ids
<1>3. ASSUME NEW r \in Request, Insert(r) PROVE TypeOK'
  <2>1. command[r] \in PostCommand /\ ValidCommand(command[r])
    BY <1>3 DEF Insert, CallInv, CallShape
  <2>2. PostedRow(command[r]) \in EventRow(Request)
    BY <2>1, ValidLinesType
  <2>3. QED
    BY <1>3, <2>2 DEF TypeOK, Insert
<1>4. ASSUME NEW r \in Request, Audit(r) PROVE TypeOK'
  BY <1>4 DEF TypeOK, Audit, AuditRow
<1>5. ASSUME NEW r \in Request, NEW c \in ReverseCommand, StartReversal(r, c) PROVE TypeOK'
  BY <1>5 DEF TypeOK, StartReversal, Command
<1>6. ASSUME NEW r \in Request, ReadOriginal(r) PROVE TypeOK'
  BY <1>6 DEF TypeOK, ReadOriginal
<1>7. ASSUME NEW r \in Request, FindReversal(r) PROVE TypeOK'
  BY <1>7 DEF TypeOK, FindReversal
<1>8. ASSUME NEW r \in Request, InsertReversal(r) PROVE TypeOK'
  <2>1. command[r] \in ReverseCommand /\ events[command[r].target] # NoEvent
    BY <1>8 DEF InsertReversal, CallInv, CallShape, OriginalRead, Ids
  <2>2. ReversalRow(command[r]) \in EventRow(Request)
    BY <2>1, ReversalRowType
  <2>3. QED
    BY <1>8, <2>2 DEF TypeOK, InsertReversal
<1>9. ASSUME NEW r \in Request, AuditReversal(r) PROVE TypeOK'
  BY <1>9 DEF TypeOK, AuditReversal, AuditRow
<1>10. ASSUME NEW r \in Request, Crash(r) PROVE TypeOK'
  BY <1>10 DEF TypeOK, Crash
<1>11. CASE UNCHANGED vars
  BY <1>11 DEF TypeOK, vars
<1>12. QED
  BY <1>1, <1>2, <1>3, <1>4, <1>5, <1>6, <1>7, <1>8, <1>9, <1>10, <1>11
     DEF Next, Post, Reversal

-----------------------------------------------------------------------------
\* A call only ever writes its own row, and only one that was free.
LEMMA RowsKept ==
    ASSUME TypeOK, CallInv, [Next]_vars, NEW e \in Ids(events)
    PROVE  events'[e] = events[e] /\ e \in Ids(events)'
<1> USE DEF Ids, TypeOK
<1>1. ASSUME NEW r \in Request, Insert(r) PROVE events'[e] = events[e]
  BY <1>1 DEF Insert, CallInv, OwnRow
<1>2. ASSUME NEW r \in Request, InsertReversal(r) PROVE events'[e] = events[e]
  BY <1>2 DEF InsertReversal, CallInv, OwnRow
<1>3. events'[e] = events[e]
  BY <1>1, <1>2 DEF Next, Post, Reversal, StartPost, Lookup, Audit, StartReversal,
     ReadOriginal, FindReversal, AuditReversal, Crash, vars
<1>4. DOMAIN events' = DOMAIN events
  BY DEF Next, Post, Reversal, StartPost, Lookup, Insert, Audit, StartReversal,
     ReadOriginal, FindReversal, InsertReversal, AuditReversal, Crash, vars
<1>5. QED
  BY <1>3, <1>4

\* What each statement relies on is left by the statements before it.
LEMMA CallStep == TypeOK /\ CallInv /\ [Next]_vars => CallInv'
<1> SUFFICES ASSUME TypeOK, CallInv, [Next]_vars PROVE CallInv'
  OBVIOUS
<1>1. CallShape'
  <2> USE DEF CallShape, TypeOK, Step, PostStep, ReversalStep, Finished, Goto, Return
  <2>1. ASSUME NEW r \in Request, NEW c \in PostCommand, StartPost(r, c) PROVE CallShape'
    BY <2>1 DEF StartPost, CallInv
  <2>2. ASSUME NEW r \in Request, Lookup(r) PROVE CallShape'
    BY <2>2 DEF Lookup, CallInv, Command, ValidCommand
  <2>3. ASSUME NEW r \in Request, Insert(r) PROVE CallShape'
    BY <2>3 DEF Insert, CallInv, ValidCommand
  <2>4. ASSUME NEW r \in Request, Audit(r) PROVE CallShape'
    BY <2>4 DEF Audit, CallInv, Command, ValidCommand
  <2>5. ASSUME NEW r \in Request, NEW c \in ReverseCommand, StartReversal(r, c)
        PROVE CallShape'
    BY <2>5 DEF StartReversal, CallInv, ValidCommand
  <2>6. ASSUME NEW r \in Request, ReadOriginal(r) PROVE CallShape'
    BY <2>6 DEF ReadOriginal, CallInv, ValidCommand
  <2>7. ASSUME NEW r \in Request, FindReversal(r) PROVE CallShape'
    BY <2>7 DEF FindReversal, CallInv, ValidCommand
  <2>8. ASSUME NEW r \in Request, InsertReversal(r) PROVE CallShape'
    BY <2>8 DEF InsertReversal, CallInv, ValidCommand
  <2>9. ASSUME NEW r \in Request, AuditReversal(r) PROVE CallShape'
    BY <2>9 DEF AuditReversal, CallInv, Command, ValidCommand
  <2>10. ASSUME NEW r \in Request, Crash(r) PROVE CallShape'
    BY <2>10 DEF Crash, CallInv, ValidCommand
  <2>11. CASE UNCHANGED vars
    BY <2>11 DEF vars, CallInv, ValidCommand
  <2>12. QED
    BY <2>1, <2>2, <2>3, <2>4, <2>5, <2>6, <2>7, <2>8, <2>9, <2>10, <2>11
       DEF Next, Post, Reversal
<1>2. OwnRow'
  <2> USE DEF OwnRow, TypeOK, Step, PostStep, ReversalStep, Finished, Goto, Return
  <2>1. ASSUME NEW r \in Request, NEW c \in PostCommand, StartPost(r, c) PROVE OwnRow'
    BY <2>1 DEF StartPost, CallInv, PostedRow
  <2>2. ASSUME NEW r \in Request, Lookup(r) PROVE OwnRow'
    BY <2>2 DEF Lookup, CallInv, PostedRow
  <2>3. ASSUME NEW r \in Request, Insert(r) PROVE OwnRow'
    BY <2>3 DEF Insert, CallInv, PostedRow
  <2>4. ASSUME NEW r \in Request, Audit(r) PROVE OwnRow'
    BY <2>4 DEF Audit, CallInv, PostedRow
  <2>5. ASSUME NEW r \in Request, NEW c \in ReverseCommand, StartReversal(r, c)
        PROVE OwnRow'
    BY <2>5 DEF StartReversal, CallInv, PostedRow
  <2>6. ASSUME NEW r \in Request, ReadOriginal(r) PROVE OwnRow'
    BY <2>6 DEF ReadOriginal, CallInv, PostedRow
  <2>7. ASSUME NEW r \in Request, FindReversal(r) PROVE OwnRow'
    BY <2>7 DEF FindReversal, CallInv, PostedRow
  <2>8. ASSUME NEW r \in Request, InsertReversal(r) PROVE OwnRow'
    <3>1. command[r].target # NoEvent
      BY <2>8 DEF InsertReversal, CallInv, CallShape, ReverseCommand
    <3>2. ReversalRow(command[r]) # NoEvent
      BY <2>8, ReversalRowType DEF InsertReversal, CallInv, CallShape, OriginalRead, Ids
    <3>3. QED
      BY <2>8, <3>1, <3>2 DEF InsertReversal, CallInv, PostedRow, ReversalRow
  <2>9. ASSUME NEW r \in Request, AuditReversal(r) PROVE OwnRow'
    BY <2>9 DEF AuditReversal, CallInv, PostedRow
  <2>10. ASSUME NEW r \in Request, Crash(r) PROVE OwnRow'
    BY <2>10 DEF Crash, CallInv, PostedRow
  <2>11. CASE UNCHANGED vars
    BY <2>11 DEF vars, CallInv, PostedRow
  <2>12. QED
    BY <2>1, <2>2, <2>3, <2>4, <2>5, <2>6, <2>7, <2>8, <2>9, <2>10, <2>11
       DEF Next, Post, Reversal
<1>3. OriginalRead'
  <2> SUFFICES ASSUME NEW q \in Request, pc'[q] \in {"findReversal", "insertReversal"}
               PROVE  /\ command'[q].target \in Ids(events)'
                      /\ events'[command'[q].target].tenant = command'[q].tenant
    BY DEF OriginalRead
  <2>1. /\ pc[q] \in {"readOriginal", "findReversal"} \/ pc'[q] = pc[q]
        /\ command'[q] = command[q]
        /\ pc[q] = "readOriginal" => ReadOriginal(q)
    BY DEF TypeOK, Step, PostStep, ReversalStep, Finished, Goto, Return, Next, Post,
       Reversal, StartPost, Lookup, Insert, Audit, StartReversal, ReadOriginal,
       FindReversal, InsertReversal, AuditReversal, Crash, vars
  <2>2. CASE pc[q] = "readOriginal"
    <3>1. command[q].target \in Request
      BY <2>2 DEF CallInv, CallShape, ReverseCommand, ReversalStep
    <3>2. QED
      BY <2>1, <2>2, <3>1, RowsKept DEF ReadOriginal, Goto, Ids, TypeOK
  <2>3. CASE pc[q] \in {"findReversal", "insertReversal"}
    BY <2>1, <2>3, RowsKept DEF CallInv, OriginalRead
  <2>4. QED
    BY <2>1, <2>2, <2>3
<1>4. QED
  BY <1>1, <1>2, <1>3 DEF CallInv

\* Type correctness and the call invariant hold in every state, whatever the
\* interleaving of the calls and wherever they die.
THEOREM TypeCorrect == Spec => [](TypeOK /\ CallInv)
<1>1. Init => TypeOK /\ CallInv
  BY DEF Init, TypeOK, CallInv, CallShape, OwnRow, OriginalRead, Step, PostStep,
     ReversalStep, Finished
<1>2. TypeOK /\ CallInv /\ [Next]_vars => (TypeOK /\ CallInv)'
  BY TypeStep, CallStep
<1>3. QED
  BY <1>1, <1>2, PTL DEF Spec
-----------------------------------------------------------------------------
\* An insert under a key requires that no row has it: the unique index is all
\* that stands between two overlapping calls and a double posting.
LEMMA OneEventPerKeyStep ==
    TypeOK /\ CallInv /\ OneEventPerKey /\ [Next]_vars => OneEventPerKey'
<1> SUFFICES ASSUME TypeOK, CallInv, OneEventPerKey, [Next]_vars PROVE OneEventPerKey'
  OBVIOUS
<1>1. ASSUME NEW r \in Request, Insert(r) PROVE OneEventPerKey'
  <2>1. CASE KeyFree(events, command[r].key)
    <3>1. \A e \in Ids(events) :
             events[e].key = command[r].key => command[r].key = NoKey
      BY <2>1 DEF KeyFree, ByKey
    <3>2. events' = [events EXCEPT ![r] = PostedRow(command[r])]
      BY <1>1, <2>1 DEF Insert
    <3>3. QED
      BY <3>1, <3>2 DEF OneEventPerKey, Ids, PostedRow, TypeOK
  <2>2. CASE ~KeyFree(events, command[r].key)
    BY <1>1, <2>2 DEF Insert, OneEventPerKey, Ids
  <2>3. QED
    BY <2>1, <2>2
<1>2. ASSUME NEW r \in Request, InsertReversal(r) PROVE OneEventPerKey'
  BY <1>2 DEF InsertReversal, ReversalRow, OneEventPerKey, Ids, TypeOK
<1>3. CASE UNCHANGED events
  BY <1>3 DEF OneEventPerKey, Ids
<1>4. QED
  BY <1>1, <1>2, <1>3 DEF Next, Post, Reversal, StartPost, Lookup, Audit, StartReversal,
     ReadOriginal, FindReversal, AuditReversal, Crash, vars

\* However calls with the same key overlap, fail and are retried, the ledger
\* holds at most one event under that key.
THEOREM AtMostOneEventPerKey == Spec => []OneEventPerKey
<1>1. Init => OneEventPerKey
  BY DEF Init, OneEventPerKey, Ids
<1>2. QED
  BY <1>1, OneEventPerKeyStep, TypeCorrect, PTL DEF Spec

\* A reversal is written from an original that is in the table, and neither
\* row changes afterwards.
LEMMA ReversalNegatesStep ==
    TypeOK /\ CallInv /\ ReversalNegates /\ [Next]_vars => ReversalNegates'
<1> SUFFICES ASSUME TypeOK, CallInv, ReversalNegates, [Next]_vars,
                    NEW e \in Ids(events)', events'[e].reverses # NoEvent
             PROVE  /\ events'[e].reverses \in Ids(events)'
                    /\ events'[e].key = NoKey
                    /\ events'[e].tenant = events'[events'[e].reverses].tenant
                    /\ events'[e].lines = Negate(events'[events'[e].reverses].lines)
  BY DEF ReversalNegates, Negate
<1>1. CASE e \in Ids(events)
  <2>1. events'[e] = events[e]
    BY <1>1, RowsKept
  <2>2. /\ events[e].reverses \in Ids(events)
        /\ events[e].key = NoKey
        /\ events[e].tenant = events[events[e].reverses].tenant
        /\ events[e].lines = Negate(events[events[e].reverses].lines)
    BY <1>1, <2>1 DEF ReversalNegates
  <2>3. /\ events'[events[e].reverses] = events[events[e].reverses]
        /\ events[e].reverses \in Ids(events)'
    BY <2>2, RowsKept
  <2>4. QED
    BY <2>1, <2>2, <2>3
<1>2. CASE e \notin Ids(events)
  <2>1. e \in Request /\ (Insert(e) \/ InsertReversal(e))
    BY <1>2 DEF Ids, TypeOK, Next, Post, Reversal, StartPost, Lookup, Insert, Audit,
       StartReversal, ReadOriginal, FindReversal, InsertReversal, AuditReversal, Crash, vars
  <2>2. InsertReversal(e)
    <3>1. Insert(e) => events'[e] = PostedRow(command[e])
      BY <1>2, <2>1 DEF Insert, Ids, TypeOK
    <3>2. PostedRow(command[e]).reverses = NoEvent
      BY DEF PostedRow
    <3>3. QED
      BY <2>1, <3>1, <3>2
  <2>3. /\ command[e].target \in Ids(events)
        /\ events[command[e].target].tenant = command[e].tenant
        /\ events'[e] = ReversalRow(command[e])
    BY <2>1, <2>2 DEF InsertReversal, CallInv, OriginalRead, TypeOK
  <2>4. /\ events'[command[e].target] = events[command[e].target]
        /\ command[e].target \in Ids(events)'
    BY <2>3, RowsKept
  <2>5. /\ events'[e].reverses = command[e].target
        /\ events'[e].key = NoKey
        /\ events'[e].tenant = command[e].tenant
        /\ events'[e].lines = Negate(events[command[e].target].lines)
    BY <2>3 DEF ReversalRow
  <2>6. QED
    BY <2>3, <2>4, <2>5
<1>3. QED
  BY <1>1, <1>2

\* Every reversal in the ledger is the exact negation of an event of the same
\* tenant, however many calls reverse at the same time.
THEOREM ReversalsNegate == Spec => []ReversalNegates
<1>1. Init => ReversalNegates
  BY DEF Init, ReversalNegates, Ids
<1>2. QED
  BY <1>1, ReversalNegatesStep, TypeCorrect, PTL DEF Spec

\* The event that a post returns is the one under the caller's key.
LEMMA ReturnsOwnEventStep ==
    TypeOK /\ CallInv /\ ReversalNegates /\ ReturnsOwnEvent /\ [Next]_vars => ReturnsOwnEvent'
<1> SUFFICES ASSUME TypeOK, CallInv, ReversalNegates, ReturnsOwnEvent, [Next]_vars,
                    NEW q \in Request, pc'[q] = "done", command'[q].op = "post"
             PROVE  /\ result'[q] \in Ids(events)'
                    /\ events'[result'[q]].tenant = command'[q].tenant
                    /\ events'[result'[q]].key = command'[q].key
                    /\ events'[result'[q]].reverses = NoEvent
  BY DEF ReturnsOwnEvent
<1>1. \/ Lookup(q)
      \/ Audit(q)
      \/ AuditReversal(q)
      \/ pc[q] = "done" /\ result'[q] = result[q] /\ command'[q] = command[q]
  BY DEF TypeOK, Goto, Return, Next, Post, Reversal, StartPost, Lookup, Insert, Audit,
     StartReversal, ReadOriginal, FindReversal, InsertReversal, AuditReversal, Crash, vars
<1>2. CASE Lookup(q)
  <2>1. PICK e \in ByKey(events, command[q].key) :
            events[e].tenant = command[q].tenant /\ Return(q, e)
    BY <1>2 DEF Lookup, Goto, TypeOK
  <2>2. result'[q] = e /\ events' = events /\ command' = command
    BY <1>2, <2>1 DEF Lookup, Return, TypeOK
  <2>3. events[e].reverses = NoEvent
    \* a reversal has no key, and only a keyed post looks a key up
    BY <1>2, <2>1 DEF Lookup, CallInv, CallShape, ReversalNegates, ByKey
  <2>4. QED
    BY <2>1, <2>2, <2>3 DEF ByKey, Ids
<1>3. CASE Audit(q)
  <2>1. PostedRow(command[q]) # NoEvent
    BY <1>3, ValidLinesType DEF Audit, CallInv, CallShape, PostStep
  <2>2. events[q] = PostedRow(command[q])
    BY <1>3 DEF Audit, CallInv, OwnRow
  <2>3. QED
    BY <1>3, <2>1, <2>2 DEF Audit, Return, PostedRow, Ids, TypeOK
<1>4. CASE AuditReversal(q)
  BY <1>4 DEF AuditReversal, CallInv, CallShape, ReversalStep, ReverseCommand
<1>5. CASE pc[q] = "done" /\ result'[q] = result[q] /\ command'[q] = command[q]
  BY <1>5, RowsKept DEF ReturnsOwnEvent
<1>6. QED
  BY <1>1, <1>2, <1>3, <1>4, <1>5

\* A caller that gets an id back from post holds an event of its own tenant
\* and key, also when another call of the same key created it.
THEOREM PostReturnsOwnEvent == Spec => []ReturnsOwnEvent
<1>1. Init => ReturnsOwnEvent
  BY DEF Init, ReturnsOwnEvent
<1>2. QED
  BY <1>1, ReturnsOwnEventStep, ReversalsNegate, TypeCorrect, PTL DEF Spec

\* A reversal returns from its audit statement, when its row is in the table.
LEMMA ReturnsOwnReversalStep ==
    TypeOK /\ CallInv /\ ReturnsOwnReversal /\ [Next]_vars => ReturnsOwnReversal'
<1> SUFFICES ASSUME TypeOK, CallInv, ReturnsOwnReversal, [Next]_vars,
                    NEW q \in Request, pc'[q] = "done", command'[q].op = "reverse"
             PROVE  /\ result'[q] \in Ids(events)'
                    /\ events'[result'[q]].reverses = command'[q].target
  BY DEF ReturnsOwnReversal
<1>1. CASE AuditReversal(q)
  <2>1. events[q] # NoEvent /\ events[q].reverses = command[q].target
    BY <1>1 DEF AuditReversal, CallInv, OwnRow
  <2>2. QED
    BY <1>1, <2>1 DEF AuditReversal, Return, Ids, TypeOK
<1>2. CASE pc[q] = "done"
  <2>1. command'[q] = command[q] /\ result'[q] = result[q]
    BY <1>2 DEF TypeOK, Goto, Return, Next, Post, Reversal, StartPost, Lookup, Insert,
       Audit, StartReversal, ReadOriginal, FindReversal, InsertReversal,
       AuditReversal, Crash, vars
  <2>2. result[q] \in Ids(events) /\ events[result[q]].reverses = command[q].target
    BY <1>2, <2>1 DEF ReturnsOwnReversal
  <2>3. QED
    BY <2>1, <2>2, RowsKept
<1>3. CASE pc[q] # "done" /\ ~AuditReversal(q)
  <2>1. Lookup(q) \/ Audit(q)
    BY <1>3 DEF TypeOK, Goto, Return, Next, Post, Reversal, StartPost, Lookup, Insert,
       Audit, StartReversal, ReadOriginal, FindReversal, InsertReversal,
       AuditReversal, Crash, vars
  <2>2. command[q] \in PostCommand
    BY <2>1 DEF Lookup, Audit, CallInv, CallShape, PostStep
  <2>3. QED
    BY <2>1, <2>2 DEF Lookup, Audit, PostCommand
<1>4. QED
  BY <1>1, <1>2, <1>3

\* The id that a reversal returns names an event that reverses its target.
THEOREM ReversalReturnsOwnEvent == Spec => []ReturnsOwnReversal
<1>1. Init => ReturnsOwnReversal
  BY DEF Init, ReturnsOwnReversal
<1>2. QED
  BY <1>1, ReturnsOwnReversalStep, TypeCorrect, PTL DEF Spec
-----------------------------------------------------------------------------
\* Only a call that is about to audit, or died, leaves its event unaudited.
LEMMA AuditTrailStep == TypeOK /\ CallInv /\ AuditTrail /\ [Next]_vars => AuditTrail'
<1> SUFFICES ASSUME TypeOK, CallInv, AuditTrail, [Next]_vars PROVE AuditTrail'
  OBVIOUS
<1>1. ASSUME NEW a \in auditLog'
      PROVE  /\ a.entity \in Ids(events)'
             /\ a.action = IF events'[a.entity].reverses = NoEvent
                           THEN "LEDGER_POSTED" ELSE "LEDGER_REVERSED"
  <2>1. CASE a \in auditLog
    BY <2>1, RowsKept DEF AuditTrail
  <2>2. CASE a \notin auditLog
    <3>1. \E r \in Request : \/ Audit(r) /\ a = [action |-> "LEDGER_POSTED", entity |-> r]
                             \/ AuditReversal(r) /\ a = [action |-> "LEDGER_REVERSED", entity |-> r]
      BY <2>2 DEF Next, Post, Reversal, StartPost, Lookup, Insert, Audit, StartReversal,
         ReadOriginal, FindReversal, InsertReversal, AuditReversal, Crash, vars
    <3>2. ASSUME NEW r \in Request, Audit(r)
          PROVE  r \in Ids(events) /\ events'[r] = events[r] /\ events[r].reverses = NoEvent
      <4>1. PostedRow(command[r]) # NoEvent /\ events[r] = PostedRow(command[r])
        BY <3>2, ValidLinesType DEF Audit, CallInv, CallShape, OwnRow, PostStep
      <4>2. QED
        BY <3>2, <4>1 DEF Audit, Ids, PostedRow, TypeOK
    <3>3. ASSUME NEW r \in Request, AuditReversal(r)
          PROVE  r \in Ids(events) /\ events'[r] = events[r] /\ events[r].reverses # NoEvent
      <4>1. command[r] \in ReverseCommand
        BY <3>3 DEF AuditReversal, CallInv, CallShape, ReversalStep
      <4>2. QED
        BY <3>3, <4>1, LedgerPostingAssumption
           DEF AuditReversal, CallInv, OwnRow, Ids, TypeOK, ReverseCommand
    <3>4. QED
      BY <3>1, <3>2, <3>3, RowsKept
  <2>3. QED
    BY <2>1, <2>2
<1>2. ASSUME NEW e \in Ids(events)'
      PROVE  \/ \E a \in auditLog' : a.entity = e
             \/ pc'[e] \in {"audit", "auditReversal", "crashed"}
  <2>1. auditLog \subseteq auditLog'
    BY DEF Next, Post, Reversal, StartPost, Lookup, Insert, Audit, StartReversal,
       ReadOriginal, FindReversal, InsertReversal, AuditReversal, Crash, vars
  <2>2. e \in Request
    BY DEF Ids, TypeOK, Next, Post, Reversal, StartPost, Lookup, Insert, Audit, StartReversal,
       ReadOriginal, FindReversal, InsertReversal, AuditReversal, Crash, vars
  <2>3. CASE e \in Ids(events) /\ \E a \in auditLog : a.entity = e
    BY <2>1, <2>3
  <2>4. CASE e \in Ids(events) /\ pc[e] \in {"audit", "auditReversal", "crashed"}
    <3>1. \/ pc'[e] = pc[e]
          \/ pc'[e] = "crashed"
          \/ Audit(e) \/ AuditReversal(e)
      BY <2>2, <2>4 DEF TypeOK, Step, Goto, Return, Next, Post, Reversal, StartPost, Lookup,
         Insert, Audit, StartReversal, ReadOriginal, FindReversal, InsertReversal,
         AuditReversal, Crash, vars
    <3>2. ASSUME Audit(e) PROVE \E a \in auditLog' : a.entity = e
      <4>1. [action |-> "LEDGER_POSTED", entity |-> e] \in auditLog'
        BY <3>2 DEF Audit
      <4>2. QED
        BY <4>1
    <3>3. ASSUME AuditReversal(e) PROVE \E a \in auditLog' : a.entity = e
      <4>1. [action |-> "LEDGER_REVERSED", entity |-> e] \in auditLog'
        BY <3>3 DEF AuditReversal
      <4>2. QED
        BY <4>1
    <3>4. QED
      BY <2>4, <3>1, <3>2, <3>3
  <2>5. CASE e \notin Ids(events)
    <3>1. Insert(e) \/ InsertReversal(e)
      BY <2>5 DEF Ids, TypeOK, Next, Post, Reversal, StartPost, Lookup, Insert, Audit,
         StartReversal, ReadOriginal, FindReversal, InsertReversal, AuditReversal, Crash, vars
    <3>2. QED
      BY <2>2, <2>5, <3>1 DEF Insert, InsertReversal, Goto, TypeOK, Ids
  <2>6. QED
    BY <2>3, <2>4, <2>5 DEF AuditTrail
<1>3. QED
  BY <1>1, <1>2 DEF AuditTrail

\* Every audit row names a stored event of the right kind, and a stored event
\* lacks its row only while, or because, its call has not executed the append.
THEOREM AuditTrailComplete == Spec => []AuditTrail
<1>1. Init => AuditTrail
  BY DEF Init, AuditTrail, Ids
<1>2. QED
  BY <1>1, AuditTrailStep, TypeCorrect, PTL DEF Spec
-----------------------------------------------------------------------------
\* The operators of the instance are those of LedgerTable.
LEMMA BookOperators ==
    ASSUME NEW lines, NEW key
    PROVE  /\ Book!Ids(events) = Ids(events)
           /\ Book!KeyFree(events, key) = KeyFree(events, key)
           /\ Book!Negate(lines) = Negate(lines)
           /\ Book!EventRow(Request) = EventRow(Request)
<1>1. Book!Ids(events) = Ids(events)
  BY DEF Book!Ids, Ids
<1>2. Book!KeyFree(events, key) = KeyFree(events, key)
  BY <1>1 DEF Book!KeyFree, KeyFree, Book!ByKey, ByKey
<1>3. Book!Negate(lines) = Negate(lines)
  BY DEF Book!Negate, Negate
<1>4. Book!EventRow(Request) = EventRow(Request)
  BY DEF Book!EventRow, EventRow, Book!Line, Line
<1>5. QED
  BY <1>1, <1>2, <1>3, <1>4

LEMMA BookBalanced == ASSUME NEW lines PROVE Book!Balanced(lines) <=> Balanced(lines)
BY DEF Book!Balanced, Balanced, Book!SumOf, SumOf, Book!SumFunction, SumFunction,
   Book!SumFunctionOnSet, SumFunctionOnSet, Book!FoldFunctionOnSet,
   FoldFunctionOnSet, Book!MapThenFoldSet, MapThenFoldSet
\* Every statement of every call is a step of the book or leaves it alone.
LEMMA BookStep == TypeOK /\ TypeOK' /\ CallInv /\ [Next]_vars => [Book!Next]_events
<1> SUFFICES ASSUME TypeOK, TypeOK', CallInv, [Next]_vars PROVE [Book!Next]_events
  OBVIOUS
<1>1. ASSUME NEW r \in Request, Insert(r), KeyFree(events, command[r].key)
      PROVE  Book!Enter(r)
  <2>1. /\ events[r] = NoEvent
        /\ command[r] \in PostCommand /\ ValidCommand(command[r])
    BY <1>1 DEF Insert, CallInv, CallShape, OwnRow, PostStep
  <2>2. events'[r] = PostedRow(command[r]) /\ events' = [events EXCEPT ![r] = events'[r]]
    BY <1>1 DEF Insert, TypeOK
  <2>3. events'[r] \in EventRow(Request)
    BY <2>1, <2>2, ValidLinesType
  <2>4. Book!IsPosting(events'[r])
    <3>1. Book!KeyFree(events, command[r].key)
      BY <1>1, BookOperators
    <3>2. Book!Balanced(command[r].lines)
      BY <2>1, BookBalanced DEF ValidCommand
    <3>3. QED
      BY <2>1, <2>2, <3>1, <3>2 DEF Book!IsPosting, PostedRow, ValidCommand
  <2>5. QED
    BY <2>1, <2>2, <2>3, <2>4, BookOperators DEF Book!Enter
<1>2. ASSUME NEW r \in Request, InsertReversal(r) PROVE Book!Enter(r)
  <2>1. /\ events[r] = NoEvent
        /\ command[r] \in ReverseCommand
        /\ command[r].target \in Ids(events)
        /\ events[command[r].target].tenant = command[r].tenant
    BY <1>2 DEF InsertReversal, CallInv, CallShape, OwnRow, OriginalRead, ReversalStep
  <2>2. events'[r] = ReversalRow(command[r]) /\ events' = [events EXCEPT ![r] = events'[r]]
    BY <1>2 DEF InsertReversal, TypeOK
  <2>3. events'[r] \in EventRow(Request)
    BY <2>1, <2>2, ReversalRowType DEF Ids
  <2>4. Book!IsReversal(events'[r])
    BY <2>1, <2>2, BookOperators DEF Book!IsReversal, ReversalRow
  <2>5. QED
    BY <2>1, <2>2, <2>3, <2>4, BookOperators DEF Book!Enter
<1>3. QED
  BY <1>1, <1>2 DEF Book!Next, Next, Post, Reversal, StartPost, Lookup, Insert, Audit,
     StartReversal, ReadOriginal, FindReversal, AuditReversal, Crash, vars

\* The ledger service implements the append-only book of LedgerBook.
THEOREM LedgerImplementsBook == Spec => ImplementsBook
<1>1. Init => Book!Init
  BY DEF Init, Book!Init
<1>2. QED
  BY <1>1, BookStep, TypeCorrect, PTL DEF Spec, Book!Spec, ImplementsBook
=============================================================================
