----------------------------- MODULE AlgorithmProofs -----------------------------
(***************************************************************************)
(* What is computed from documents: the report of the working time, and    *)
(* the relations inferred from a graph, whatever their size.               *)
(*                                                                         *)
(* A sum or a search is a recursive function, whose value for n is proved  *)
(* from its value for n - 1: the set of the numbers for which it is what   *)
(* it should be contains them all.                                         *)
(***************************************************************************)
EXTENDS OvkTime, InferenceEngineMC, FiniteSetTheorems, SequenceTheorems, WellFoundedInduction, TLAPS

-----------------------------------------------------------------------------
(* SUMS                                                                    *)

\* Induction over the natural numbers, for a set of them.
LEMMA Induct ==
  ASSUME NEW S, 0 \in S, \A n \in Nat : n \in S => n + 1 \in S
  PROVE  Nat \subseteq S
  <1> SUFFICES ASSUME NEW m \in Nat, m \notin S PROVE FALSE
    OBVIOUS
  <1> DEFINE T == {n \in Nat : n \notin S}
  <1>1. T \subseteq Nat /\ T # {}
    OBVIOUS
  <1> HIDE DEF T
  <1>2. PICK x \in T : \A y \in T : ~(<<y, x>> \in OpToRel(<, Nat))
    BY <1>1, NatLessThanWellFounded, WFMin, Zenon
  <1>3. \A y \in Nat : y < x => y \notin T
    BY <1>1, <1>2 DEF OpToRel
  <1> QED
    BY <1>1, <1>3 DEF T

\* A sum takes out one element of the set after the other.
LEMMA SumChosen ==
  ASSUME NEW f, NEW S, IsFiniteSet(S)
  PROVE  SumFunctionOnSet(f, S)
           = IF S = {} THEN 0 ELSE f[CHOOSE x \in S : TRUE] + SumFunctionOnSet(f, S \ {CHOOSE x \in S : TRUE})
  <1> DEFINE x(s) == CHOOSE y \in s : TRUE
             sum(s, g) == IF s = {} THEN 0 ELSE f[x(s)] + g[s \ {x(s)}]
             below(T, n) == {s \in SUBSET T : Cardinality(s) <= n}
             part(T, n, g) == g = [s \in below(T, n) |-> sum(s, g)]
             good(T, g) == g = [s \in SUBSET T |-> sum(s, g)]
             F(T) == CHOOSE g : good(T, g)
  <1>1. \A s : s # {} => x(s) \in s
    OBVIOUS
  <1>2. \A T : SumFunctionOnSet(f, T) = F(T)[T]
    BY DEF SumFunctionOnSet, FoldFunctionOnSet, MapThenFoldSet
  <1>3. ASSUME NEW T, IsFiniteSet(T)
        PROVE  good(T, F(T))
    <2>1. \A s \in SUBSET T : /\ IsFiniteSet(s) /\ Cardinality(s) \in Nat
                              /\ Cardinality(s) <= Cardinality(T)
                              /\ s = {} <=> Cardinality(s) = 0
                              /\ s # {} => Cardinality(s \ {x(s)}) = Cardinality(s) - 1
      BY <1>1, <1>3, FS_Subset, FS_CardinalityType, FS_EmptySet, FS_RemoveElement
    <2> DEFINE N == {n \in Nat : \E g : part(T, n, g)}
    <2>2. 0 \in N
      <3>1. part(T, 0, [s \in below(T, 0) |-> 0])
        BY <2>1
      <3> QED
        BY <3>1
    <2>3. ASSUME NEW n \in Nat, n \in N
          PROVE  n + 1 \in N
      <3>1. PICK g : part(T, n, g)
        BY <2>3
      <3> DEFINE h == [s \in below(T, n + 1) |-> IF Cardinality(s) <= n THEN g[s] ELSE sum(s, g)]
      <3>2. ASSUME NEW s \in below(T, n + 1)
            PROVE  h[s] = sum(s, h)
        <4>1. s # {} => /\ s \ {x(s)} \in below(T, n)
                        /\ Cardinality(s \ {x(s)}) <= n
          BY <2>1
        <4>2. s # {} => h[s \ {x(s)}] = g[s \ {x(s)}]
          <5> DEFINE t == s \ {x(s)}
          <5> HIDE DEF t
          <5>1. \A c \in Nat : c <= n => c <= n + 1
            OBVIOUS
          <5>2. \A u \in below(T, n) : Cardinality(u) \in Nat /\ Cardinality(u) <= n /\ u \in SUBSET T
            BY <1>3, FS_Subset, FS_CardinalityType
          <5>3. \A u \in below(T, n) : h[u] = g[u]
            BY <5>1, <5>2
          <5> QED
            BY <4>1, <5>3 DEF t
        <4>3. Cardinality(s) <= n => g[s] = sum(s, g)
          BY <3>1
        <4> QED
          BY <4>2, <4>3
      <3>3. part(T, n + 1, h)
        <4> HIDE DEF sum
        <4> QED
          BY <3>2
      <3> HIDE DEF part, h
      <3> QED
        BY <3>3
    <2> HIDE DEF N
    <2>4. Cardinality(T) \in N
      BY <1>3, <2>2, <2>3, Induct, FS_CardinalityType
    <2>5. below(T, Cardinality(T)) = SUBSET T
      BY <2>1
    <2>6. \E g : good(T, g)
      BY <2>4, <2>5 DEF N
    <2> QED
      BY <2>6
  <1>4. F(S)[S] = sum(S, F(S))
    <2> HIDE DEF F, sum
    <2> QED
      BY <1>3
  <1>5. ASSUME S # {}
        PROVE  F(S)[S \ {x(S)}] = F(S \ {x(S)})[S \ {x(S)}]
    <2> DEFINE T == S \ {x(S)}
    <2>1. IsFiniteSet(T) /\ SUBSET T \subseteq SUBSET S
      BY FS_Subset
    <2>2. good(S, F(S)) /\ good(T, F(T))
      BY <1>3, <2>1
    <2>3. \A s \in SUBSET T : /\ IsFiniteSet(s) /\ Cardinality(s) \in Nat
                              /\ s # {} => /\ s \ {x(s)} \in SUBSET T
                                           /\ Cardinality(s \ {x(s)}) = Cardinality(s) - 1
      BY <1>1, <2>1, FS_Subset, FS_CardinalityType, FS_EmptySet, FS_RemoveElement
    <2>4. \A s \in SUBSET T : F(S)[s] = sum(s, F(S)) /\ F(T)[s] = sum(s, F(T))
      <3> HIDE DEF F, sum, T
      <3> QED
        BY <2>1, <2>2
    <2> DEFINE N == {n \in Nat : \A s \in SUBSET T : Cardinality(s) <= n => F(S)[s] = F(T)[s]}
    <2> HIDE DEF F, T
    <2>5. 0 \in N
      BY <2>3, <2>4, FS_EmptySet
    <2>6. ASSUME NEW n \in Nat, n \in N
          PROVE  n + 1 \in N
      <3> SUFFICES ASSUME NEW s \in SUBSET T, Cardinality(s) <= n + 1
                   PROVE  F(S)[s] = F(T)[s]
        OBVIOUS
      <3>1. s # {} => F(S)[s \ {x(s)}] = F(T)[s \ {x(s)}]
        BY <2>3, <2>6
      <3> QED
        BY <2>4, <3>1
    <2> HIDE DEF N
    <2>7. Cardinality(T) \in N
      BY <2>1, <2>5, <2>6, Induct, FS_CardinalityType
    <2>8. T \in SUBSET T /\ Cardinality(T) \in Nat
      BY <2>1, FS_CardinalityType
    <2> QED
      BY <2>7, <2>8 DEF N, T
  <1> HIDE DEF F
  <1> QED
    BY <1>2, <1>4, <1>5

\* Any element of the set can be taken out.
LEMMA SumRemove ==
  ASSUME NEW f, NEW S, IsFiniteSet(S), \A x \in S : f[x] \in Int, NEW a \in S
  PROVE  /\ SumFunctionOnSet(f, S) = f[a] + SumFunctionOnSet(f, S \ {a})
         /\ SumFunctionOnSet(f, S \ {a}) \in Int
  <1> DEFINE sum == [s \in SUBSET S |-> SumFunctionOnSet(f, s)]
             size == [s \in SUBSET S |-> Cardinality(s)]
             OK == {s \in SUBSET S : sum[s] \in Int /\ \A b \in s : sum[s] = f[b] + sum[s \ {b}]}
             N == {n \in Nat : \A s \in SUBSET S : size[s] <= n => s \in OK}
  <1>1. \A s \in SUBSET S : /\ size[s] \in Nat
                            /\ s = {} <=> size[s] = 0
                            /\ \A b \in s : s \ {b} \in SUBSET S /\ size[s \ {b}] = size[s] - 1
    BY FS_Subset, FS_CardinalityType, FS_EmptySet, FS_RemoveElement
  <1>2. \A s \in SUBSET S : /\ s = {} => sum[s] = 0
                            /\ s # {} => \E x \in s : sum[s] = f[x] + sum[s \ {x}]
    BY SumChosen, FS_Subset
  <1> HIDE DEF sum, size
  <1>3. 0 \in N
    BY <1>1, <1>2
  <1>4. ASSUME NEW n \in Nat, n \in N
        PROVE  n + 1 \in N
    <2>1. ASSUME NEW s \in SUBSET S, size[s] <= n + 1, s # {}
          PROVE  s \in OK
      <3>1. PICK x \in s : sum[s] = f[x] + sum[s \ {x}]
        BY <1>2, <2>1
      <3>2. ASSUME NEW b \in s
            PROVE  s \ {b} \in OK
        <4>1. s \ {b} \in SUBSET S /\ size[s \ {b}] = size[s] - 1 /\ size[s] \in Nat
          BY <1>1
        <4>2. size[s \ {b}] <= n
          BY <2>1, <4>1
        <4> HIDE DEF OK
        <4> QED
          BY <1>4, <4>1, <4>2
      <3>3. sum[s] \in Int
        <4>1. sum[s \ {x}] \in Int /\ f[x] \in Int
          BY <3>2
        <4> QED
          BY <3>1, <4>1
      <3>4. ASSUME NEW b \in s, b # x
            PROVE  sum[s] = f[b] + sum[s \ {b}]
        <4> DEFINE t == (s \ {b}) \ {x}
        <4>1. t = (s \ {x}) \ {b} /\ t \in SUBSET S
          OBVIOUS
        <4>2. sum[s \ {x}] = f[b] + sum[t] /\ sum[s \ {b}] = f[x] + sum[t]
          BY <3>2, <3>4, <4>1
        <4>3. size[t] <= n
          <5>1. size[s \ {b}] = size[s] - 1 /\ size[t] = size[s \ {b}] - 1 /\ size[s] \in Nat
            BY <1>1, <3>4
          <5> QED
            BY <2>1, <5>1
        <4> HIDE DEF t
        <4>4. sum[t] \in Int
          BY <1>4, <4>1, <4>3
        <4> QED
          BY <3>1, <4>2, <4>4
      <3> QED
        BY <3>1, <3>3, <3>4
    <2>2. {} \in OK
      BY <1>2
    <2> HIDE DEF OK
    <2>3. \A s \in SUBSET S : size[s] <= n + 1 => s \in OK
      BY <2>1, <2>2, Zenon
    <2> QED
      BY <2>3
  <1> HIDE DEF N
  <1>5. Nat \subseteq N
    BY <1>3, <1>4, Induct
  <1>6. S \in OK /\ S \ {a} \in OK
    <2>1. S \in SUBSET S /\ S \ {a} \in SUBSET S /\ size[S] \in Nat /\ size[S \ {a}] \in Nat
      BY <1>1
    <2> HIDE DEF OK
    <2> QED
      BY <1>5, <2>1 DEF N
  <1> QED
    BY <1>6 DEF sum

\* A sum of ones counts.
LEMMA SumOfOnes ==
  ASSUME NEW f, NEW S, IsFiniteSet(S), \A x \in S : f[x] = 1
  PROVE  SumFunctionOnSet(f, S) = Cardinality(S)
  <1> DEFINE sum == [s \in SUBSET S |-> SumFunctionOnSet(f, s)]
             size == [s \in SUBSET S |-> Cardinality(s)]
             N == {n \in Nat : \A s \in SUBSET S : size[s] <= n => sum[s] = size[s]}
  <1>1. \A s \in SUBSET S : /\ size[s] \in Nat
                            /\ s = {} <=> size[s] = 0
                            /\ \A b \in s : s \ {b} \in SUBSET S /\ size[s \ {b}] = size[s] - 1
    BY FS_Subset, FS_CardinalityType, FS_EmptySet, FS_RemoveElement
  <1>2. \A s \in SUBSET S : /\ s = {} => sum[s] = 0
                            /\ s # {} => \E x \in s : sum[s] = f[x] + sum[s \ {x}]
    BY SumChosen, FS_Subset
  <1>3. S \in SUBSET S /\ sum[S] = SumFunctionOnSet(f, S) /\ size[S] = Cardinality(S)
    OBVIOUS
  <1> HIDE DEF sum, size
  <1>4. 0 \in N
    BY <1>1, <1>2
  <1>5. ASSUME NEW n \in Nat, n \in N
        PROVE  n + 1 \in N
    <2>1. ASSUME NEW s \in SUBSET S, size[s] <= n + 1, s # {}
          PROVE  sum[s] = size[s]
      <3>1. PICK x \in s : sum[s] = f[x] + sum[s \ {x}]
        BY <1>2, <2>1
      <3>2. s \ {x} \in SUBSET S /\ size[s \ {x}] = size[s] - 1 /\ size[s] \in Nat /\ f[x] = 1
        BY <1>1
      <3>3. size[s \ {x}] <= n
        BY <2>1, <3>2
      <3>4. sum[s \ {x}] = size[s \ {x}]
        BY <1>5, <3>2, <3>3
      <3> QED
        BY <3>1, <3>2, <3>4
    <2>2. \A s \in SUBSET S : s = {} => sum[s] = size[s]
      BY <1>1, <1>2
    <2> QED
      BY <2>1, <2>2
  <1> HIDE DEF N
  <1>6. Nat \subseteq N
    BY <1>4, <1>5, Induct
  <1> QED
    BY <1>1, <1>3, <1>6 DEF N

LEMMA SumIsInt ==
  ASSUME NEW f, NEW S, IsFiniteSet(S), \A x \in S : f[x] \in Int
  PROVE  SumFunctionOnSet(f, S) \in Int
  <1>1. CASE S = {}
    <2>1. SumFunctionOnSet(f, S) = 0
      BY <1>1, SumChosen, Zenon
    <2> QED
      BY <2>1
  <1>2. CASE S # {}
    <2>1. PICK a \in S : TRUE
      BY <1>2
    <2>2. SumFunctionOnSet(f, S) = f[a] + SumFunctionOnSet(f, S \ {a}) /\ SumFunctionOnSet(f, S \ {a}) \in Int
      BY SumRemove
    <2> QED
      BY <2>2
  <1> QED
    BY <1>1, <1>2

\* Induction over a finite set, for a set of subsets of it.
LEMMA InductSet ==
  ASSUME NEW S, IsFiniteSet(S), NEW P, {} \in P,
         \A T \in SUBSET S : \A x \in S \ T : T \in P => T \cup {x} \in P
  PROVE  S \in P
  <1> DEFINE size == [T \in SUBSET S |-> Cardinality(T)]
             N == {n \in Nat : \A T \in SUBSET S : size[T] <= n => T \in P}
  <1>1. \A T \in SUBSET S : /\ size[T] \in Nat
                            /\ T = {} <=> size[T] = 0
                            /\ \A b \in T : T \ {b} \in SUBSET S /\ size[T \ {b}] = size[T] - 1
    BY FS_Subset, FS_CardinalityType, FS_EmptySet, FS_RemoveElement
  <1> HIDE DEF size
  <1>2. 0 \in N
    <2>1. \A T \in SUBSET S : size[T] <= 0 => T = {}
      BY <1>1
    <2> QED
      BY <2>1
  <1>3. ASSUME NEW n \in Nat, n \in N
        PROVE  n + 1 \in N
    <2>1. ASSUME NEW T \in SUBSET S, size[T] <= n + 1, T # {}
          PROVE  T \in P
      <3>1. PICK b \in T : TRUE
        BY <2>1
      <3>2. T \ {b} \in SUBSET S /\ size[T \ {b}] <= n
        <4>1. /\ T \ {b} \in SUBSET S /\ size[T] \in Nat /\ size[T \ {b}] = size[T] - 1
          BY <1>1
        <4> QED
          BY <2>1, <4>1
      <3>3. T \ {b} \in P /\ (T \ {b}) \cup {b} = T
        BY <1>3, <3>2
      <3> QED
        BY <3>2, <3>3
    <2>2. \A T \in SUBSET S : size[T] <= n + 1 => T \in P
      BY <2>1, Zenon
    <2> QED
      BY <2>2
  <1> HIDE DEF N
  <1>4. Nat \subseteq N
    BY <1>2, <1>3, Induct
  <1> QED
    BY <1>1, <1>4 DEF N

LEMMA SumOfNone ==
  ASSUME NEW f
  PROVE  SumFunctionOnSet(f, {}) = 0
  BY SumChosen, FS_EmptySet, Zenon

\* An element more.
LEMMA SumAdd ==
  ASSUME NEW f, NEW S, IsFiniteSet(S), NEW a, a \notin S, \A x \in S \cup {a} : f[x] \in Int
  PROVE  /\ SumFunctionOnSet(f, S) \in Int
         /\ SumFunctionOnSet(f, S \cup {a}) = f[a] + SumFunctionOnSet(f, S)
  <1>1. (S \cup {a}) \ {a} = S /\ IsFiniteSet(S \cup {a})
    BY FS_AddElement
  <1> DEFINE T == S \cup {a}
  <1>2. SumFunctionOnSet(f, T) = f[a] + SumFunctionOnSet(f, T \ {a})
    <2>1. a \in T /\ \A x \in T : f[x] \in Int
      OBVIOUS
    <2>2. IsFiniteSet(T)
      BY <1>1
    <2> HIDE DEF T
    <2> QED
      BY <2>1, <2>2, SumRemove
  <1>3. SumFunctionOnSet(f, S) \in Int
    BY SumIsInt
  <1> QED
    BY <1>1, <1>2, <1>3

\* Sums of the same numbers are the same.
LEMMA SumSame ==
  ASSUME NEW f, NEW g, NEW S, IsFiniteSet(S), \A x \in S : f[x] \in Int /\ g[x] = f[x]
  PROVE  SumFunctionOnSet(g, S) = SumFunctionOnSet(f, S)
  <1> DEFINE P == {T \in SUBSET S : SumFunctionOnSet(g, T) = SumFunctionOnSet(f, T)}
  <1>1. {} \in P
    BY SumOfNone
  <1>2. \A T \in SUBSET S : \A x \in S \ T : T \in P => T \cup {x} \in P
    BY FS_Subset, SumAdd
  <1> HIDE DEF P
  <1>3. S \in P
    BY <1>1, <1>2, InductSet
  <1> QED
    BY <1>3 DEF P

\* Of two sets that have nothing in common.
LEMMA SumOfBoth ==
  ASSUME NEW f, NEW S, IsFiniteSet(S), NEW T, IsFiniteSet(T), S \cap T = {}, \A x \in S \cup T : f[x] \in Int
  PROVE  SumFunctionOnSet(f, S \cup T) = SumFunctionOnSet(f, S) + SumFunctionOnSet(f, T)
  <1> DEFINE P == {U \in SUBSET T : SumFunctionOnSet(f, S \cup U) = SumFunctionOnSet(f, S) + SumFunctionOnSet(f, U)}
  <1>1. {} \in P
    <2>1. S \cup {} = S
      OBVIOUS
    <2> QED
      BY <2>1, SumOfNone, SumIsInt
  <1>2. ASSUME NEW U \in SUBSET T, NEW x \in T \ U, U \in P
        PROVE  U \cup {x} \in P
    <2>1. IsFiniteSet(U) /\ IsFiniteSet(S \cup U) /\ x \notin S \cup U /\ S \cup (U \cup {x}) = (S \cup U) \cup {x}
      BY FS_Subset, FS_Union
    <2>2. SumFunctionOnSet(f, (S \cup U) \cup {x}) = f[x] + SumFunctionOnSet(f, S \cup U)
      BY <2>1, SumAdd
    <2>3. SumFunctionOnSet(f, U \cup {x}) = f[x] + SumFunctionOnSet(f, U)
      BY <2>1, SumAdd
    <2>4. SumFunctionOnSet(f, S) \in Int /\ SumFunctionOnSet(f, U) \in Int /\ f[x] \in Int
      BY <2>1, SumIsInt
    <2>5. SumFunctionOnSet(f, S \cup U) = SumFunctionOnSet(f, S) + SumFunctionOnSet(f, U)
      BY <1>2
    <2>6. SumFunctionOnSet(f, S \cup (U \cup {x})) = SumFunctionOnSet(f, S) + SumFunctionOnSet(f, U \cup {x})
      <3>1. SumFunctionOnSet(f, S \cup (U \cup {x})) = f[x] + SumFunctionOnSet(f, S \cup U)
        BY <2>1, <2>2
      <3> QED
        BY <2>3, <2>4, <2>5, <3>1
    <2> QED
      BY <2>6
  <1> HIDE DEF P
  <1>3. T \in P
    BY <1>1, <1>2, InductSet
  <1> QED
    BY <1>3 DEF P

OfKind(kind, S, k) == {x \in S : kind[x] = k}

\* A sum by kinds.
LEMMA SumOfKinds ==
  ASSUME NEW f, NEW S, IsFiniteSet(S), \A x \in S : f[x] \in Int, NEW kind,
         NEW K, IsFiniteSet(K), \A x \in S : kind[x] \in K,
         NEW sums, \A k \in K : sums[k] = SumFunctionOnSet(f, OfKind(kind, S, k))
  PROVE  SumFunctionOnSet(sums, K) = SumFunctionOnSet(f, S)
  <1> DEFINE of(L) == {x \in S : kind[x] \in L}
             P == {L \in SUBSET K : SumFunctionOnSet(sums, L) = SumFunctionOnSet(f, of(L))}
  <1>1. {} \in P
    <2>1. of({}) = {}
      OBVIOUS
    <2> QED
      BY <2>1, SumOfNone
  <1>2. ASSUME NEW k \in K
        PROVE  sums[k] \in Int
    <2> DEFINE one == {x \in S : kind[x] = k}
    <2>1. IsFiniteSet(one) /\ \A x \in one : f[x] \in Int
      BY FS_Subset
    <2>2. sums[k] = SumFunctionOnSet(f, one)
      BY DEF OfKind
    <2> HIDE DEF one
    <2> QED
      BY <2>1, <2>2, SumIsInt
  <1>3. ASSUME NEW L \in SUBSET K, NEW k \in K \ L, L \in P
        PROVE  L \cup {k} \in P
    <2> DEFINE one == {x \in S : kind[x] = k}
    <2>1. /\ of(L \cup {k}) = of(L) \cup one /\ of(L) \cap one = {}
          /\ IsFiniteSet(L) /\ IsFiniteSet(of(L)) /\ IsFiniteSet(one)
      BY FS_Subset
    <2>2. SumFunctionOnSet(sums, L \cup {k}) = sums[k] + SumFunctionOnSet(sums, L)
      BY <1>2, <2>1, SumAdd
    <2>3. SumFunctionOnSet(f, of(L) \cup one) = SumFunctionOnSet(f, of(L)) + SumFunctionOnSet(f, one)
      <3> HIDE DEF one
      <3>1. \A x \in of(L) \cup one : f[x] \in Int
        BY DEF one
      <3> QED
        BY <2>1, <3>1, SumOfBoth
    <2>4. SumFunctionOnSet(sums, L) = SumFunctionOnSet(f, of(L)) /\ sums[k] = SumFunctionOnSet(f, one)
      BY <1>3 DEF OfKind
    <2>5. SumFunctionOnSet(sums, L) \in Int /\ sums[k] \in Int
      BY <1>2, <2>1, SumIsInt
    <2>6. SumFunctionOnSet(sums, L \cup {k}) = SumFunctionOnSet(f, of(L \cup {k}))
      <3>1. SumFunctionOnSet(f, of(L \cup {k})) = SumFunctionOnSet(f, of(L) \cup one)
        BY <2>1, Zenon
      <3> HIDE DEF of, one
      <3> QED
        BY <2>2, <2>3, <2>4, <2>5, <3>1
    <2> QED
      BY <2>6
  <1>4. K \in P
    <2> HIDE DEF P
    <2> QED
      BY <1>1, <1>3, InductSet
  <1>5. of(K) = S
    OBVIOUS
  <1> QED
    BY <1>4, <1>5

\* The difference of two sums.
LEMMA SumOfDifferences ==
  ASSUME NEW f, NEW g, NEW d, NEW S, IsFiniteSet(S), \A x \in S : f[x] \in Int /\ g[x] \in Int /\ d[x] = f[x] - g[x]
  PROVE  SumFunctionOnSet(d, S) = SumFunctionOnSet(f, S) - SumFunctionOnSet(g, S)
  <1> DEFINE P == {T \in SUBSET S : SumFunctionOnSet(d, T) = SumFunctionOnSet(f, T) - SumFunctionOnSet(g, T)}
  <1>1. {} \in P
    BY SumOfNone
  <1>2. ASSUME NEW T \in SUBSET S, NEW x \in S \ T, T \in P
        PROVE  T \cup {x} \in P
    <2>1. IsFiniteSet(T) /\ \A y \in T \cup {x} : f[y] \in Int /\ g[y] \in Int /\ d[y] \in Int
      BY FS_Subset
    <2>2. /\ SumFunctionOnSet(d, T \cup {x}) = d[x] + SumFunctionOnSet(d, T)
          /\ SumFunctionOnSet(f, T \cup {x}) = f[x] + SumFunctionOnSet(f, T)
          /\ SumFunctionOnSet(g, T \cup {x}) = g[x] + SumFunctionOnSet(g, T)
          /\ SumFunctionOnSet(d, T) \in Int /\ SumFunctionOnSet(f, T) \in Int /\ SumFunctionOnSet(g, T) \in Int
      BY <2>1, SumAdd
    <2>3. SumFunctionOnSet(d, T \cup {x}) = SumFunctionOnSet(f, T \cup {x}) - SumFunctionOnSet(g, T \cup {x})
      BY <1>2, <2>1, <2>2
    <2> QED
      BY <2>3
  <1> HIDE DEF P
  <1>3. S \in P
    BY <1>1, <1>2, InductSet
  <1> QED
    BY <1>3 DEF P

LEMMA SumOfNoughts ==
  ASSUME NEW f, NEW S, IsFiniteSet(S), \A x \in S : f[x] = 0
  PROVE  SumFunctionOnSet(f, S) = 0
  <1>1. SumFunctionOnSet(f, S) = SumFunctionOnSet(f, S) - SumFunctionOnSet(f, S) /\ SumFunctionOnSet(f, S) \in Int
    <2>1. \A x \in S : f[x] \in Int /\ f[x] = f[x] - f[x]
      OBVIOUS
    <2> QED
      BY <2>1, SumOfDifferences, SumIsInt
  <1> QED
    BY <1>1

\* What is nought need not be summed.
LEMMA SumOfSome ==
  ASSUME NEW f, NEW S, IsFiniteSet(S), NEW T \in SUBSET S, \A x \in S : f[x] \in Int, \A x \in S \ T : f[x] = 0
  PROVE  SumFunctionOnSet(f, S) = SumFunctionOnSet(f, T)
  <1>1. T \cup (S \ T) = S /\ T \cap (S \ T) = {} /\ IsFiniteSet(T) /\ IsFiniteSet(S \ T)
    BY FS_Subset, FS_Difference
  <1>2. SumFunctionOnSet(f, T \cup (S \ T)) = SumFunctionOnSet(f, T) + SumFunctionOnSet(f, S \ T)
    BY <1>1, SumOfBoth
  <1> QED
    BY <1>1, <1>2, SumOfNoughts, SumIsInt

-----------------------------------------------------------------------------
(* WORKING TIME.  The inductive invariants                                  *)

Segments == [id : Nat, date : Nat]

\* A ledger in which no segment is twice.
IsLedger(l) ==
    /\ l = [k \in {"date", "segments", "adjustments"} |-> l[k]]
    /\ l.segments \in Seq(Nat)
    /\ \A m, n \in DOMAIN l.segments : l.segments[m] = l.segments[n] => m = n

SyncIsOK(q) ==
    /\ q.pc \in {"next", "held"} => q.left \in Seq(Segments) /\ q.keep \in Seq(Segments)
    /\ q.pc = "held" => q.left # <<>>
    /\ q.pc \in {"held", "adjust"} => IsLedger(q.held)

\* The ledger and every copy of it that is under way.
TimeInv ==
    /\ load.clients \subseteq Clients /\ DOMAIN client = Clients
    /\ device = [k \in {"active", "pending", "made", "day"} |-> device[k]]
    /\ device.pending \in Seq(Segments) /\ device.made \in Nat /\ device.day \in Nat
    /\ \A l \in ledger : IsLedger(l)
    /\ \A c \in Clients : SyncIsOK(client[c])

IdsIn(segments) == {segments[n].id : n \in DOMAIN segments}

InLedger(docs) == UNION {{l.segments[n] : n \in DOMAIN l.segments} : l \in docs}

\* A synchronisation that nobody meets has the ledger there is, and of what waits on the
\* device it has everything that is not in the ledger.
SyncIsFresh(q, docs, pending) ==
    /\ q.pc \in {"held", "adjust"} => docs \subseteq {q.held}
    /\ q.pc \in {"next", "held"} => IdsIn(pending) \subseteq IdsIn(q.left) \cup IdsIn(q.keep) \cup InLedger(docs)

Quiet == load.part = "quiet" /\ Alone

\* What is invariant besides if nobody meets.
QuietInv ==
    Quiet => /\ \A l, other \in ledger : l = other
             /\ 1..device.made \subseteq IdsIn(device.pending) \cup InLedger(ledger)
             /\ \A c \in load.clients : SyncIsFresh(client[c], ledger, device.pending)

-----------------------------------------------------------------------------
(* Segments and ledgers                                                    *)

LEMMA AppendedIds ==
  ASSUME NEW s \in Seq(Segments), NEW x \in Segments
  PROVE  Append(s, x) \in Seq(Segments) /\ IdsIn(Append(s, x)) = IdsIn(s) \cup {x.id}
  <1>1. PICK n \in Nat : n = Len(s)
    OBVIOUS
  <1> DEFINE new == Append(s, x)
  <1>2. /\ DOMAIN s = 1..n /\ DOMAIN new = 1..(n + 1) /\ new[n + 1] = x
        /\ \A i \in 1..n : new[i] = s[i]
        /\ new \in Seq(Segments)
    BY <1>1
  <1> HIDE DEF new
  <1>3. \A i \in 1..(n + 1) : i \in 1..n \/ i = n + 1
    OBVIOUS
  <1>4. 1..n \subseteq 1..(n + 1) /\ n + 1 \in 1..(n + 1)
    OBVIOUS
  <1>5. IdsIn(new) = IdsIn(s) \cup {x.id}
    BY <1>2, <1>3, <1>4, Zenon DEF IdsIn
  <1> QED
    BY <1>2, <1>5 DEF new

LEMMA TailIds ==
  ASSUME NEW s \in Seq(Segments), s # <<>>
  PROVE  /\ Head(s) \in Segments /\ Tail(s) \in Seq(Segments)
         /\ IdsIn(s) \subseteq {Head(s).id} \cup IdsIn(Tail(s))
  <1>1. PICK n \in Nat : n = Len(s) /\ n > 0
    OBVIOUS
  <1>2. /\ Head(s) = s[1] /\ Head(s) \in Segments /\ Tail(s) \in Seq(Segments)
        /\ Len(Tail(s)) = n - 1 /\ DOMAIN s = 1..n
        /\ \A i \in 1..(n - 1) : Tail(s)[i] = s[i + 1]
    BY <1>1
  <1>3. DOMAIN Tail(s) = 1..(n - 1)
    BY <1>2
  <1>4. ASSUME NEW i \in 1..n, i # 1
        PROVE  s[i].id \in IdsIn(Tail(s))
    <2>1. i - 1 \in 1..(n - 1) /\ (i - 1) + 1 = i
      BY <1>4
    <2>2. Tail(s)[i - 1] = s[i]
      BY <1>2, <2>1
    <2> QED
      BY <1>3, <2>1, <2>2 DEF IdsIn
  <1> QED
    BY <1>2, <1>4 DEF IdsIn

LEMMA InOneLedger ==
  ASSUME NEW l
  PROVE  InLedger({l}) = {l.segments[n] : n \in DOMAIN l.segments}
  <1>1. \A x : x \in InLedger({l}) <=> x \in {l.segments[n] : n \in DOMAIN l.segments}
    BY Zenon DEF InLedger
  <1> QED
    BY <1>1, Zenon

\* A segment is appended once, an adjustment leaves the segments as they are.
LEMMA AppendedLedger ==
  ASSUME NEW l, IsLedger(l), NEW id \in Nat
  PROVE  /\ IsLedger(Appended(l, id))
         /\ InLedger({Appended(l, id)}) = InLedger({l}) \cup {id}
  <1>1. CASE \E n \in DOMAIN l.segments : l.segments[n] = id
    <2>1. Appended(l, id) = l
      BY <1>1 DEF Appended
    <2>2. id \in InLedger({l})
      BY <1>1, InOneLedger
    <2> QED
      BY <2>1, <2>2
  <1>2. CASE ~ \E n \in DOMAIN l.segments : l.segments[n] = id
    <2> DEFINE new == [l EXCEPT !.segments = Append(@, id)]
               s == l.segments
               t == Append(s, id)
    <2>1. Appended(l, id) = new
      BY <1>2 DEF Appended
    <2>2. /\ new = [k \in {"date", "segments", "adjustments"} |-> new[k]]
          /\ new.segments = t
      BY DEF IsLedger
    <2> HIDE DEF new
    <2>3. s \in Seq(Nat) /\ \A m, n \in DOMAIN s : s[m] = s[n] => m = n
      BY DEF IsLedger
    <2>4. \A n \in DOMAIN s : s[n] # id
      BY <1>2
    <2>5. InLedger({l}) = {s[n] : n \in DOMAIN s} /\ InLedger({new}) = {t[n] : n \in DOMAIN t}
      <3>1. InLedger({l}) = {s[n] : n \in DOMAIN s}
        BY InOneLedger, Zenon
      <3>2. InLedger({new}) = {new.segments[n] : n \in DOMAIN new.segments}
        BY InOneLedger, Zenon
      <3> HIDE DEF s, t
      <3> QED
        BY <2>2, <3>1, <3>2, Zenon
    <2> HIDE DEF s
    <2>6. PICK k \in Nat : k = Len(s)
      BY <2>3
    <2>7. /\ t \in Seq(Nat) /\ DOMAIN s = 1..k /\ DOMAIN t = 1..(k + 1) /\ t[k + 1] = id
          /\ \A n \in 1..k : t[n] = s[n]
      BY <2>3, <2>6
    <2> HIDE DEF t
    <2>8. \A n \in 1..(k + 1) : n \in 1..k \/ n = k + 1
      OBVIOUS
    <2>9. \A m, n \in DOMAIN t : t[m] = t[n] => m = n
      BY <2>3, <2>4, <2>7, <2>8
    <2>10. 1..k \subseteq 1..(k + 1) /\ k + 1 \in 1..(k + 1)
      OBVIOUS
    <2>11. {t[n] : n \in DOMAIN t} = {s[n] : n \in DOMAIN s} \cup {id}
      BY <2>7, <2>8, <2>10, Zenon
    <2> QED
      BY <2>1, <2>2, <2>5, <2>7, <2>9, <2>11 DEF IsLedger
  <1> QED
    BY <1>1, <1>2

LEMMA AdjustedLedger ==
  ASSUME NEW l, IsLedger(l), NEW adjustment
  PROVE  IsLedger(Adjusted(l, adjustment)) /\ InLedger({Adjusted(l, adjustment)}) = InLedger({l})
  <1> DEFINE new == Adjusted(l, adjustment)
  <1>1. /\ new = [k \in {"date", "segments", "adjustments"} |-> new[k]]
        /\ new.segments = l.segments
    BY DEF Adjusted, IsLedger
  <1> HIDE DEF new
  <1>2. IsLedger(new) /\ InLedger({new}) = InLedger({l})
    <2>1. InLedger({new}) = {new.segments[n] : n \in DOMAIN new.segments}
      BY InOneLedger, Zenon
    <2>2. InLedger({l}) = {l.segments[n] : n \in DOMAIN l.segments}
      BY InOneLedger, Zenon
    <2>3. InLedger({new}) = InLedger({l})
      BY <1>1, <2>1, <2>2, Zenon
    <2> QED
      BY <1>1, <2>3 DEF IsLedger
  <1> QED
    BY <1>2 DEF new

LEMMA LoadedLedger ==
  ASSUME TimeInv, NEW date
  PROVE  IsLedger(LoadedOrCreated(date)) /\ (ledger # {} => LoadedOrCreated(date) \in ledger)
  <1>1. CASE ledger = {}
    <2>1. IsLedger([date |-> date, segments |-> <<>>, adjustments |-> <<>>])
      BY DEF IsLedger
    <2> QED
      BY <1>1, <2>1 DEF LoadedOrCreated
  <1>2. CASE ledger # {}
    <2>1. LoadedOrCreated(date) \in ledger
      BY <1>2 DEF LoadedOrCreated
    <2> QED
      BY <2>1 DEF TimeInv
  <1> QED
    BY <1>1, <1>2

\* One client goes on to q, and what it writes is sound.
LEMMA TimeByParts ==
  ASSUME TimeInv, NEW c \in load.clients, NEW q, Goes(c, q), SyncIsOK(q), UNCHANGED load,
         device' = [k \in {"active", "pending", "made", "day"} |-> device'[k]],
         device'.pending \in Seq(Segments), device'.made \in Nat, device'.day \in Nat,
         \A l \in ledger' : IsLedger(l)
  PROVE  TimeInv'
  <1>1. DOMAIN client' = Clients /\ \A o \in Clients : client'[o] = IF o = c THEN q ELSE client[o]
    BY DEF Goes, TimeInv
  <1>2. \A o \in Clients : SyncIsOK(client'[o])
    BY <1>1 DEF TimeInv
  <1>3. \A o \in Clients : SyncIsOK(client[o])'
    BY <1>2 DEF SyncIsOK, IsLedger
  <1>4. \A l \in ledger' : IsLedger(l)'
    BY DEF IsLedger
  <1> QED
    BY <1>1, <1>3, <1>4 DEF TimeInv

\* Nobody meets: there is one client.
LEMMA QuietClient ==
  ASSUME TimeInv, Quiet, NEW c \in load.clients
  PROVE  load.clients = {c}
  <1>1. IsFiniteSet(load.clients) /\ Cardinality(load.clients) \in Nat
    BY ClientsAssumption, FS_Subset, FS_CardinalityType DEF TimeInv
  <1>2. Cardinality(load.clients) # 0
    BY <1>1, FS_EmptySet
  <1>3. Cardinality(load.clients) = 1
    BY <1>1, <1>2 DEF Quiet, Alone
  <1>4. \E x : load.clients = {x}
    BY <1>1, <1>3, FS_Singleton
  <1> QED
    BY <1>4

\* The one client goes on to q, and the device and the ledger go with it.
LEMMA QuietByParts ==
  ASSUME TimeInv, Quiet, NEW c \in load.clients, NEW q, Goes(c, q), UNCHANGED load,
         SyncIsFresh(q, ledger', device'.pending),
         \A l, other \in ledger' : l = other,
         1..device'.made \subseteq IdsIn(device'.pending) \cup InLedger(ledger')
  PROVE  QuietInv'
  <1>1. load'.clients = {c} /\ c \in DOMAIN client
    BY QuietClient DEF TimeInv
  <1>2. client'[c] = q
    BY <1>1 DEF Goes
  <1>3. SyncIsFresh(client[c], ledger, device.pending)'
    BY <1>2 DEF SyncIsFresh, IdsIn, InLedger
  <1>4. (1..device.made \subseteq IdsIn(device.pending) \cup InLedger(ledger))'
    BY DEF IdsIn, InLedger
  <1> QED
    BY <1>1, <1>3, <1>4 DEF QuietInv

-----------------------------------------------------------------------------
(* The timer and the clock                                                 *)

LEMMA TimerKeeps ==
  ASSUME TimeInv, StartTimer \/ StopTimer \/ NextDay
  PROVE  TimeInv' /\ (QuietInv => QuietInv')
  <1>1. UNCHANGED <<load, client, ledger>>
    BY DEF StartTimer, StopTimer, NextDay
  <1>2. /\ device' = [k \in {"active", "pending", "made", "day"} |-> device'[k]]
        /\ device'.pending \in Seq(Segments) /\ device'.made \in Nat /\ device'.day \in Nat
        /\ \/ device'.pending = device.pending /\ device'.made = device.made
           \/ /\ StopTimer
              /\ device'.made = device.made + 1
              /\ IdsIn(device'.pending) = IdsIn(device.pending) \cup {device.made + 1}
    <2>1. CASE StartTimer
      BY <2>1 DEF StartTimer, TimeInv
    <2>2. CASE NextDay
      BY <2>2 DEF NextDay, TimeInv
    <2>3. CASE StopTimer
      <3> DEFINE s == [id |-> device.made + 1, date |-> device.day]
      <3>1. s \in Segments /\ s.id = device.made + 1
        BY DEF Segments, TimeInv
      <3>2. device' = [device EXCEPT !.active = FALSE, !.made = @ + 1, !.pending = Append(@, s)]
        BY <2>3 DEF StopTimer
      <3> HIDE DEF s
      <3>3. /\ Append(device.pending, s) \in Seq(Segments)
            /\ IdsIn(Append(device.pending, s)) = IdsIn(device.pending) \cup {s.id}
        BY <3>1, AppendedIds DEF TimeInv
      <3>4. /\ device' = [k \in {"active", "pending", "made", "day"} |-> device'[k]]
            /\ device'.pending = Append(device.pending, s) /\ device'.made = device.made + 1
            /\ device'.day = device.day
        BY <3>2 DEF TimeInv
      <3> QED
        BY <2>3, <3>1, <3>3, <3>4 DEF TimeInv
    <2> QED
      BY <2>1, <2>2, <2>3
  <1>3. TimeInv'
    BY <1>1, <1>2 DEF TimeInv, SyncIsOK, IsLedger
  <1>4. ASSUME QuietInv, Quiet
        PROVE  QuietInv'
    <2>1. /\ \A l, other \in ledger : l = other
          /\ 1..device.made \subseteq IdsIn(device.pending) \cup InLedger(ledger)
          /\ \A c \in load.clients : SyncIsFresh(client[c], ledger, device.pending)
      BY <1>4 DEF QuietInv
    <2>2. 1..device'.made \subseteq IdsIn(device'.pending) \cup InLedger(ledger)
      <3>1. \A id \in 1..(device.made + 1) : id \in 1..device.made \/ id = device.made + 1
        BY DEF TimeInv
      <3> QED
        BY <1>2, <2>1, <3>1
    <2>3. \A c \in load.clients : SyncIsFresh(client[c], ledger, device'.pending)
      <3>1. CASE device'.pending = device.pending
        BY <2>1, <3>1
      <3>2. CASE StopTimer
        <4>1. \A c \in load.clients : client[c] = Idle
          BY <1>4, <3>2 DEF StopTimer, IsUndisturbed, Quiet, TimeInv
        <4> QED
          BY <4>1 DEF SyncIsFresh, Idle
      <3> QED
        BY <1>2, <3>1, <3>2
    <2>4. /\ (1..device.made \subseteq IdsIn(device.pending) \cup InLedger(ledger))'
          /\ \A c \in load'.clients : SyncIsFresh(client[c], ledger, device.pending)'
      <3>1. (1..device.made \subseteq IdsIn(device.pending) \cup InLedger(ledger))'
        BY <1>1, <2>2 DEF IdsIn, InLedger
      <3>2. \A c \in load'.clients : SyncIsFresh(client[c], ledger, device.pending)'
        <4>1. load' = load /\ client' = client /\ ledger' = ledger
          BY <1>1
        <4> SUFFICES ASSUME NEW c \in load.clients
                     PROVE  SyncIsFresh(client[c], ledger, device.pending)'
          BY <4>1
        <4>2. SyncIsFresh(client[c], ledger, device'.pending)
          BY <2>3
        <4> QED
          BY <4>1, <4>2 DEF SyncIsFresh, IdsIn, InLedger
      <3> QED
        BY <3>1, <3>2
    <2> QED
      BY <1>1, <2>1, <2>4 DEF QuietInv
  <1>5. Quiet' => Quiet
    BY <1>1 DEF Quiet, Alone
  <1> QED
    BY <1>3, <1>4, <1>5 DEF QuietInv

-----------------------------------------------------------------------------
(* The requests                                                            *)

\* What the one client is known to be.
LEMMA QuietGives ==
  ASSUME TimeInv, QuietInv, Quiet, NEW c \in load.clients
  PROVE  /\ SyncIsFresh(client[c], ledger, device.pending)
         /\ \A l, other \in ledger : l = other
         /\ 1..device.made \subseteq IdsIn(device.pending) \cup InLedger(ledger)
  BY DEF QuietInv

LEMMA SyncStartsOrSends ==
  ASSUME TimeInv, NEW c \in load.clients, StartTimeSync(c) \/ SendSegment(c)
  PROVE  TimeInv' /\ (QuietInv => QuietInv')
  <1> DEFINE p == client[c]
  <1>1. UNCHANGED <<load, device, ledger>>
    BY DEF StartTimeSync, SendSegment, timeDocs
  <1>2. SyncIsOK(p)
    BY DEF TimeInv
  <1>3. \E q : /\ Goes(c, q) /\ SyncIsOK(q)
               /\ QuietInv /\ Quiet => SyncIsFresh(q, ledger, device.pending)
    <2>1. CASE StartTimeSync(c)
      <3> DEFINE q == [pc |-> "next", left |-> device.pending, keep |-> <<>>, active |-> device.active]
      <3>1. Goes(c, q)
        BY <2>1 DEF StartTimeSync
      <3>2. SyncIsOK(q) /\ SyncIsFresh(q, ledger, device.pending)
        BY DEF SyncIsOK, SyncIsFresh, TimeInv
      <3> HIDE DEF q
      <3> QED
        BY <3>1, <3>2
    <2>2. CASE SendSegment(c)
      <3> DEFINE held == LoadedOrCreated(Head(p.left).date)
                 q == [pc |-> "held", left |-> p.left, keep |-> p.keep, active |-> p.active, held |-> held]
      <3>1. Goes(c, q) /\ p.pc = "next" /\ p.left # <<>>
        BY <2>2 DEF SendSegment
      <3>2. IsLedger(held) /\ (ledger # {} => held \in ledger)
        BY LoadedLedger
      <3> HIDE DEF held, p
      <3>3. SyncIsOK(q)
        BY <1>2, <3>1, <3>2 DEF SyncIsOK
      <3>4. ASSUME QuietInv, Quiet
            PROVE  SyncIsFresh(q, ledger, device.pending)
        <4>1. SyncIsFresh(p, ledger, device.pending) /\ \A l, other \in ledger : l = other
          BY <3>4, QuietGives DEF p
        <4> QED
          BY <3>1, <3>2, <4>1 DEF SyncIsFresh
      <3> HIDE DEF q
      <3> QED
        BY <3>1, <3>3, <3>4
    <2> QED
      BY <2>1, <2>2
  <1>4. PICK q : /\ Goes(c, q) /\ SyncIsOK(q)
                 /\ QuietInv /\ Quiet => SyncIsFresh(q, ledger, device.pending)
    BY <1>3
  <1>5. TimeInv'
    BY <1>1, <1>4, TimeByParts DEF TimeInv
  <1>6. ASSUME QuietInv, Quiet
        PROVE  QuietInv'
    <2>1. SyncIsFresh(q, ledger', device'.pending) /\ (\A l, other \in ledger' : l = other)
          /\ 1..device'.made \subseteq IdsIn(device'.pending) \cup InLedger(ledger')
      BY <1>1, <1>4, <1>6, QuietGives
    <2> QED
      BY <1>1, <1>4, <1>6, <2>1, QuietByParts
  <1>7. Quiet' => Quiet
    BY <1>1 DEF Quiet, Alone
  <1> QED
    BY <1>5, <1>6, <1>7 DEF QuietInv

LEMMA SaveSegmentKeeps ==
  ASSUME TimeInv, NEW c \in load.clients, SaveSegment(c)
  PROVE  TimeInv' /\ (QuietInv => QuietInv')
  <1> DEFINE p == client[c]
             new == Appended(p.held, Head(p.left).id)
  <1>1. p.pc = "held" /\ ledger' = {new} /\ UNCHANGED <<load, device>>
    BY DEF SaveSegment
  <1>2. PICK keep : /\ keep = p.keep \/ keep = Append(p.keep, Head(p.left))
                    /\ Goes(c, [pc |-> "next", left |-> Tail(p.left), keep |-> keep, active |-> p.active])
    BY DEF SaveSegment
  <1> DEFINE q == [pc |-> "next", left |-> Tail(p.left), keep |-> keep, active |-> p.active]
  <1>3. p.left \in Seq(Segments) /\ p.left # <<>> /\ p.keep \in Seq(Segments) /\ IsLedger(p.held)
    BY <1>1 DEF TimeInv, SyncIsOK
  <1>4. /\ Head(p.left) \in Segments /\ Tail(p.left) \in Seq(Segments)
        /\ IdsIn(p.left) \subseteq {Head(p.left).id} \cup IdsIn(Tail(p.left))
    BY <1>3, TailIds
  <1>5. keep \in Seq(Segments) /\ IdsIn(p.keep) \subseteq IdsIn(keep)
    BY <1>2, <1>3, <1>4, AppendedIds
  <1>6. Head(p.left).id \in Nat
    BY <1>4 DEF Segments
  <1>7. IsLedger(new) /\ InLedger({new}) = InLedger({p.held}) \cup {Head(p.left).id}
    BY <1>3, <1>6, AppendedLedger
  <1>8. Goes(c, q) /\ q.pc = "next" /\ q.left = Tail(p.left) /\ q.keep = keep
    BY <1>2
  <1>9. SyncIsOK(q)
    BY <1>4, <1>5, <1>8 DEF SyncIsOK
  <1> HIDE DEF q, new
  <1>10. TimeInv'
    BY <1>1, <1>7, <1>8, <1>9, TimeByParts DEF TimeInv
  <1>11. ASSUME QuietInv, Quiet
         PROVE  QuietInv'
    <2>1. /\ SyncIsFresh(p, ledger, device.pending)
          /\ 1..device.made \subseteq IdsIn(device.pending) \cup InLedger(ledger)
      BY <1>11, QuietGives
    <2> HIDE DEF p
    <2>2. InLedger(ledger) \subseteq InLedger(ledger') /\ Head(p.left).id \in InLedger(ledger')
      <3>1. ledger \subseteq {p.held}
        BY <1>1, <2>1 DEF SyncIsFresh
      <3>2. InLedger(ledger) \subseteq InLedger({p.held})
        BY <3>1 DEF InLedger
      <3> QED
        BY <1>1, <1>7, <3>2
    <2>3. IdsIn(device.pending) \subseteq IdsIn(p.left) \cup IdsIn(p.keep) \cup InLedger(ledger)
      BY <1>1, <2>1 DEF SyncIsFresh
    <2>4. IdsIn(device'.pending) \subseteq IdsIn(q.left) \cup IdsIn(q.keep) \cup InLedger(ledger')
      BY <1>1, <1>4, <1>5, <1>8, <2>2, <2>3
    <2>5. SyncIsFresh(q, ledger', device'.pending)
      BY <1>8, <2>4 DEF SyncIsFresh
    <2>6. 1..device'.made \subseteq IdsIn(device'.pending) \cup InLedger(ledger')
      BY <1>1, <2>1, <2>2
    <2>7. \A l, other \in ledger' : l = other
      BY <1>1
    <2> QED
      BY <1>1, <1>8, <1>11, <2>5, <2>6, <2>7, QuietByParts
  <1>12. Quiet' => Quiet
    BY <1>1 DEF Quiet, Alone
  <1> QED
    BY <1>10, <1>11, <1>12 DEF QuietInv

LEMMA RefuseSegmentKeeps ==
  ASSUME TimeInv, NEW c \in load.clients, RefuseSegment(c)
  PROVE  TimeInv' /\ (QuietInv => QuietInv')
  <1> DEFINE p == client[c]
             keep == Append(p.keep, Head(p.left))
             q == [pc |-> "next", left |-> Tail(p.left), keep |-> keep, active |-> p.active]
  <1>1. p.pc = "held" /\ Goes(c, q) /\ UNCHANGED <<load, device, ledger>>
    BY DEF RefuseSegment, timeDocs
  <1>2. p.left \in Seq(Segments) /\ p.left # <<>> /\ p.keep \in Seq(Segments)
    BY <1>1 DEF TimeInv, SyncIsOK
  <1>3. /\ Head(p.left) \in Segments /\ Tail(p.left) \in Seq(Segments)
        /\ IdsIn(p.left) \subseteq {Head(p.left).id} \cup IdsIn(Tail(p.left))
    BY <1>2, TailIds
  <1>4. keep \in Seq(Segments) /\ IdsIn(keep) = IdsIn(p.keep) \cup {Head(p.left).id}
    BY <1>2, <1>3, AppendedIds
  <1>5. q.pc = "next" /\ q.left = Tail(p.left) /\ q.keep = keep
    OBVIOUS
  <1> HIDE DEF q, keep
  <1>6. SyncIsOK(q)
    BY <1>3, <1>4, <1>5 DEF SyncIsOK
  <1>7. TimeInv'
    BY <1>1, <1>6, TimeByParts DEF TimeInv
  <1>8. ASSUME QuietInv, Quiet
        PROVE  QuietInv'
    <2>1. /\ SyncIsFresh(p, ledger, device.pending) /\ \A l, other \in ledger : l = other
          /\ 1..device.made \subseteq IdsIn(device.pending) \cup InLedger(ledger)
      BY <1>8, QuietGives
    <2>2. IdsIn(device.pending) \subseteq IdsIn(p.left) \cup IdsIn(p.keep) \cup InLedger(ledger)
      BY <1>1, <2>1 DEF SyncIsFresh
    <2> HIDE DEF p
    <2>3. IdsIn(device.pending) \subseteq IdsIn(q.left) \cup IdsIn(q.keep) \cup InLedger(ledger)
      BY <1>3, <1>4, <1>5, <2>2
    <2>4. SyncIsFresh(q, ledger', device'.pending)
      BY <1>1, <1>5, <2>3 DEF SyncIsFresh
    <2>5. /\ \A l, other \in ledger' : l = other
          /\ 1..device'.made \subseteq IdsIn(device'.pending) \cup InLedger(ledger')
      BY <1>1, <2>1
    <2> QED
      BY <1>1, <1>8, <2>4, <2>5, QuietByParts
  <1>9. Quiet' => Quiet
    BY <1>1 DEF Quiet, Alone
  <1> QED
    BY <1>7, <1>8, <1>9 DEF QuietInv

LEMMA FinishKeeps ==
  ASSUME TimeInv, NEW c \in load.clients, FinishTimeSync(c)
  PROVE  TimeInv' /\ (QuietInv => QuietInv')
  <1> DEFINE p == client[c]
  <1>1. /\ p.pc = "next" /\ p.left = <<>> /\ Goes(c, Idle) /\ UNCHANGED <<load, ledger>>
        /\ device' = [device EXCEPT !.pending = p.keep, !.active = p.active]
    BY DEF FinishTimeSync, Ends
  <1>2. p.keep \in Seq(Segments)
    BY <1>1 DEF TimeInv, SyncIsOK
  <1> HIDE DEF p
  <1>3. /\ device' = [k \in {"active", "pending", "made", "day"} |-> device'[k]]
        /\ device'.pending = p.keep /\ device'.made = device.made /\ device'.day = device.day
    BY <1>1 DEF TimeInv
  <1>4. SyncIsOK(Idle) /\ \A docs, pending : SyncIsFresh(Idle, docs, pending)
    BY DEF SyncIsOK, SyncIsFresh, Idle
  <1>5. TimeInv'
    BY <1>1, <1>2, <1>3, <1>4, TimeByParts DEF TimeInv
  <1>6. ASSUME QuietInv, Quiet
        PROVE  QuietInv'
    <2>1. /\ SyncIsFresh(p, ledger, device.pending) /\ \A l, other \in ledger : l = other
          /\ 1..device.made \subseteq IdsIn(device.pending) \cup InLedger(ledger)
      BY <1>6, QuietGives DEF p
    <2>2. IdsIn(p.left) = {}
      BY <1>1 DEF IdsIn
    <2>3. IdsIn(device.pending) \subseteq IdsIn(p.keep) \cup InLedger(ledger)
      BY <1>1, <2>1, <2>2 DEF SyncIsFresh
    <2>4. /\ \A l, other \in ledger' : l = other
          /\ 1..device'.made \subseteq IdsIn(device'.pending) \cup InLedger(ledger')
      BY <1>1, <1>3, <2>1, <2>3
    <2> QED
      BY <1>1, <1>4, <1>6, <2>4, QuietByParts
  <1>7. Quiet' => Quiet
    BY <1>1 DEF Quiet, Alone
  <1> QED
    BY <1>5, <1>6, <1>7 DEF QuietInv

LEMMA AdjustmentKeeps ==
  ASSUME TimeInv, NEW c \in load.clients, NEW hours, SendAdjustment(c, hours) \/ SaveAdjustment(c)
  PROVE  TimeInv' /\ (QuietInv => QuietInv')
  <1> DEFINE p == client[c]
  <1>1. CASE SendAdjustment(c, hours)
    <2> DEFINE held == LoadedOrCreated(device.day)
               q == [pc |-> "adjust", hours |-> hours, held |-> held]
    <2>1. Goes(c, q) /\ ledger # {} /\ UNCHANGED <<load, device, ledger>>
      BY <1>1 DEF SendAdjustment, timeDocs
    <2>2. IsLedger(held) /\ held \in ledger
      BY <2>1, LoadedLedger
    <2> HIDE DEF held
    <2>3. q.pc = "adjust" /\ q.held = held
      OBVIOUS
    <2> HIDE DEF q
    <2>4. SyncIsOK(q)
      BY <2>2, <2>3 DEF SyncIsOK
    <2>5. TimeInv'
      BY <2>1, <2>4, TimeByParts DEF TimeInv
    <2>6. ASSUME QuietInv, Quiet
          PROVE  QuietInv'
      <3>1. /\ \A l, other \in ledger : l = other
            /\ 1..device.made \subseteq IdsIn(device.pending) \cup InLedger(ledger)
        BY <2>6, QuietGives
      <3>2. SyncIsFresh(q, ledger', device'.pending)
        BY <2>1, <2>2, <2>3, <3>1 DEF SyncIsFresh
      <3>3. /\ \A l, other \in ledger' : l = other
            /\ 1..device'.made \subseteq IdsIn(device'.pending) \cup InLedger(ledger')
        BY <2>1, <3>1
      <3> QED
        BY <2>1, <2>6, <3>2, <3>3, QuietByParts
    <2>7. Quiet' => Quiet
      BY <2>1 DEF Quiet, Alone
    <2> QED
      BY <2>5, <2>6, <2>7 DEF QuietInv
  <1>2. CASE SaveAdjustment(c)
    <2>1. PICK a : ledger' = {Adjusted(p.held, a)}
      BY <1>2 DEF SaveAdjustment
    <2>2. p.pc = "adjust" /\ Goes(c, Idle) /\ UNCHANGED <<load, device>>
      BY <1>2 DEF SaveAdjustment, Ends
    <2>3. IsLedger(p.held)
      BY <2>2 DEF TimeInv, SyncIsOK
    <2> DEFINE new == Adjusted(p.held, a)
    <2>4. IsLedger(new) /\ InLedger({new}) = InLedger({p.held})
      BY <2>3, AdjustedLedger
    <2>5. ledger' = {new}
      BY <2>1
    <2> HIDE DEF p, new
    <2>6. SyncIsOK(Idle) /\ \A docs, pending : SyncIsFresh(Idle, docs, pending)
      BY DEF SyncIsOK, SyncIsFresh, Idle
    <2>7. TimeInv'
      BY <2>2, <2>4, <2>5, <2>6, TimeByParts DEF TimeInv
    <2>8. ASSUME QuietInv, Quiet
          PROVE  QuietInv'
      <3>1. /\ SyncIsFresh(p, ledger, device.pending)
            /\ 1..device.made \subseteq IdsIn(device.pending) \cup InLedger(ledger)
        BY <2>8, QuietGives DEF p
      <3>2. ledger \subseteq {p.held}
        BY <2>2, <3>1 DEF SyncIsFresh
      <3>3. InLedger(ledger) \subseteq InLedger({p.held})
        BY <3>2 DEF InLedger
      <3>4. /\ \A l, other \in ledger' : l = other
            /\ 1..device'.made \subseteq IdsIn(device'.pending) \cup InLedger(ledger')
        BY <2>2, <2>4, <2>5, <3>1, <3>3
      <3> QED
        BY <2>2, <2>6, <2>8, <3>4, QuietByParts
    <2>9. Quiet' => Quiet
      BY <2>2 DEF Quiet, Alone
    <2> QED
      BY <2>7, <2>8, <2>9 DEF QuietInv
  <1> QED
    BY <1>1, <1>2

LEMMA TimeStep ==
  TimeInv /\ [TimeNext]_<<load, client, timeDocs>> => TimeInv' /\ (QuietInv => QuietInv')
  <1> SUFFICES ASSUME TimeInv, [TimeNext]_<<load, client, timeDocs>>
               PROVE  TimeInv' /\ (QuietInv => QuietInv')
    OBVIOUS
  <1>1. CASE TimeNext
    <2>1. CASE StartTimer \/ StopTimer \/ NextDay
      BY <2>1, TimerKeeps
    <2>2. ASSUME NEW c \in load.clients,
                 \/ StartTimeSync(c) \/ SendSegment(c) \/ SaveSegment(c) \/ RefuseSegment(c)
                 \/ FinishTimeSync(c) \/ SaveAdjustment(c)
                 \/ \E hours \in Hours : SendAdjustment(c, hours)
          PROVE  TimeInv' /\ (QuietInv => QuietInv')
      BY <2>2, SyncStartsOrSends, SaveSegmentKeeps, RefuseSegmentKeeps, FinishKeeps, AdjustmentKeeps
    <2> QED
      BY <1>1, <2>1, <2>2 DEF TimeNext
  <1>2. CASE UNCHANGED <<load, client, timeDocs>>
    <2>1. UNCHANGED <<load, client, device, ledger>>
      BY <1>2 DEF timeDocs
    <2>2. TimeInv'
      BY <2>1 DEF TimeInv, SyncIsOK, IsLedger
    <2>3. QuietInv => QuietInv'
      <3> SUFFICES ASSUME QuietInv, Quiet
                   PROVE  QuietInv'
        BY <2>1 DEF QuietInv, Quiet, Alone
      <3>1. /\ (1..device.made \subseteq IdsIn(device.pending) \cup InLedger(ledger))'
            /\ \A l, other \in ledger' : l = other
        BY <2>1 DEF QuietInv, IdsIn, InLedger
      <3>2. \A c \in load'.clients : SyncIsFresh(client[c], ledger, device.pending)'
        <4>1. \A c \in load.clients : SyncIsFresh(client[c], ledger, device.pending)
          BY DEF QuietInv
        <4>2. client' = client /\ ledger' = ledger /\ device' = device /\ load' = load
          BY <2>1
        <4> SUFFICES ASSUME NEW c \in load.clients
                     PROVE  SyncIsFresh(client[c], ledger, device.pending)'
          BY <4>2
        <4>3. SyncIsFresh(client[c], ledger, device.pending)
          BY <4>1
        <4> QED
          BY <4>2, <4>3, SMTT(30) DEF SyncIsFresh, IdsIn, InLedger
      <3> QED
        BY <3>1, <3>2 DEF QuietInv
    <2> QED
      BY <2>2, <2>3
  <1> QED
    BY <1>1, <1>2

LEMMA TimeStart == RequestsInit /\ TimeInit => TimeInv /\ QuietInv
  <1> SUFFICES ASSUME RequestsInit, TimeInit
               PROVE  TimeInv /\ QuietInv
    OBVIOUS
  <1>1. TimeInv
    BY DEF RequestsInit, TimeInit, TimeInv, SyncIsOK, Idle
  <1>2. 1..device.made = {}
    BY DEF TimeInit
  <1>3. \A c \in load.clients : client[c] = Idle
    BY DEF RequestsInit
  <1>4. \A docs, pending : SyncIsFresh(Idle, docs, pending)
    BY DEF SyncIsFresh, Idle
  <1>5. QuietInv
    BY <1>2, <1>3, <1>4 DEF TimeInit, QuietInv
  <1> QED
    BY <1>1, <1>5

\* However many synchronisations meet, and whichever answers are lost, a ledger has no
\* segment twice: a copy that is saved over a newer one was a ledger as well.
\* (append_time_segment)
THEOREM SegmentsAlwaysCountOnce == TimeModeSpec => []SegmentsCountOnce
  <1>1. TimeInv => SegmentsCountOnce
    <2> SUFFICES ASSUME TimeInv, NEW l \in ledger
                 PROVE  Len(l.segments) = Cardinality({l.segments[n] : n \in DOMAIN l.segments})
      BY DEF SegmentsCountOnce, LedgerSummary
    <2> DEFINE s == l.segments
               S == {s[n] : n \in DOMAIN s}
    <2>1. s \in Seq(Nat) /\ \A m, n \in DOMAIN s : s[m] = s[n] => m = n
      BY DEF TimeInv, IsLedger
    <2> HIDE DEF s
    <2>2. Len(s) \in Nat /\ DOMAIN s = 1..Len(s)
      BY <2>1
    <2>3. s \in Bijection(1..Len(s), S)
      BY <2>1, <2>2 DEF Bijection, Injection, Surjection, IsInjective
    <2>4. ExistsBijection(1..Len(s), S)
      BY <2>3 DEF ExistsBijection
    <2> HIDE DEF S
    <2>5. Cardinality(S) = Len(s)
      BY <2>2, <2>4, FS_CountingElements
    <2> QED
      BY <2>5 DEF s, S
  <1> QED
    BY <1>1, TimeStart, TimeStep, PTL DEF TimeModeSpec

\* With one synchronisation at a time and a timer that waits for it, whichever answers are
\* lost or refused: no segment that was stopped is dropped. (field-time.js, append_time_segment)
THEOREM NothingIsEverDropped == TimeModeSpec => []NothingIsDropped
  <1>1. TimeInv /\ QuietInv => NothingIsDropped
    <2> SUFFICES ASSUME QuietInv, Quiet, NEW id \in 1..device.made
                 PROVE  id \in Kept \/ \E l \in ledger : \E n \in DOMAIN l.segments : l.segments[n] = id
      BY DEF NothingIsDropped, Quiet
    <2>1. id \in IdsIn(device.pending) \/ id \in InLedger(ledger)
      BY DEF QuietInv
    <2>2. id \in IdsIn(device.pending) => id \in Kept
      BY DEF IdsIn, Kept
    <2>3. id \in InLedger(ledger) => \E l \in ledger : \E n \in DOMAIN l.segments : l.segments[n] = id
      BY DEF InLedger
    <2> QED
      BY <2>1, <2>2, <2>3
  <1> QED
    BY <1>1, TimeStart, TimeStep, PTL DEF TimeModeSpec

-----------------------------------------------------------------------------
(* What the report says                                                    *)

Adjustments == [id : Nat, hours : Int]

Stamped(day) == [id : Nat, date : 1 .. day]

\* A ledger of a day that has been, with adjustments of hours.
IsDated(l, day) == l.date \in 1 .. day /\ l.adjustments \in Seq(Adjustments)

SyncIsDated(q, day) ==
    /\ q.pc \in {"next", "held"} => q.left \in Seq(Stamped(day)) /\ q.keep \in Seq(Stamped(day))
    /\ q.pc \in {"held", "adjust"} => IsDated(q.held, day)
    /\ q.pc = "adjust" => q.hours \in Int

\* No segment is of a day to come, so the ledger is in the period of the report.
DatedInv ==
    /\ device.day > 0 /\ device.pending \in Seq(Stamped(device.day))
    /\ \A l, other \in ledger : l = other
    /\ \A l \in ledger : IsDated(l, device.day)
    /\ \A c \in Clients : SyncIsDated(client[c], device.day)

\* One client goes on to q, on the same day.
LEMMA DatedByParts ==
  ASSUME TimeInv, DatedInv, NEW c \in load.clients, NEW q, Goes(c, q), SyncIsDated(q, device.day),
         device'.day = device.day, device'.pending \in Seq(Stamped(device.day)),
         \A l, other \in ledger' : l = other, \A l \in ledger' : IsDated(l, device.day)
  PROVE  DatedInv'
  <1>1. \A o \in Clients : client'[o] = IF o = c THEN q ELSE client[o]
    BY DEF Goes, TimeInv
  <1>2. \A o \in Clients : SyncIsDated(client'[o], device.day)
    BY <1>1 DEF DatedInv
  <1>3. \A o \in Clients : SyncIsDated(client[o], device.day)'
    BY <1>2 DEF SyncIsDated, IsDated, Stamped
  <1>4. \A l \in ledger' : IsDated(l, device.day)'
    BY DEF IsDated
  <1>5. (device.day > 0)' /\ (device.pending \in Seq(Stamped(device.day)))'
    BY DEF DatedInv, Stamped
  <1> QED
    BY <1>3, <1>4, <1>5 DEF DatedInv

LEMMA NextDayIsDated ==
  ASSUME TimeInv, DatedInv, StartTimer \/ StopTimer \/ NextDay
  PROVE  DatedInv'
  <1>1. UNCHANGED <<client, ledger>>
    BY DEF StartTimer, StopTimer, NextDay
  <1>2. PICK day \in Nat : day = device.day /\ day > 0
    BY DEF TimeInv, DatedInv
  <1>3. PICK later \in Nat : later = device'.day /\ later >= day
    <2>1. device'.day = day \/ device'.day = day + 1
      BY <1>2 DEF StartTimer, StopTimer, NextDay, TimeInv
    <2> QED
      BY <2>1
  <1>4. Stamped(day) \subseteq Stamped(later) /\ \A s \in Seq(Stamped(day)) : s \in Seq(Stamped(later))
    <2>1. Stamped(day) \subseteq Stamped(later)
      BY <1>3 DEF Stamped
    <2> QED
      BY <2>1
  <1>5. \A l : IsDated(l, day) => IsDated(l, later)
    BY <1>3 DEF IsDated
  <1>6. \A q : SyncIsDated(q, day) => SyncIsDated(q, later)
    BY <1>4, <1>5 DEF SyncIsDated
  <1>7. device'.pending \in Seq(Stamped(later))
    <2>1. device.pending \in Seq(Stamped(later))
      BY <1>2, <1>4 DEF DatedInv
    <2>2. CASE StartTimer \/ NextDay
      <3>1. device'.pending = device.pending
        BY <2>2 DEF StartTimer, NextDay, TimeInv
      <3> QED
        BY <2>1, <3>1
    <2>3. CASE StopTimer
      <3>1. device'.pending = Append(device.pending, [id |-> device.made + 1, date |-> device.day])
        BY <2>3 DEF StopTimer, TimeInv
      <3>2. [id |-> device.made + 1, date |-> device.day] \in Stamped(later)
        BY <1>2, <1>3 DEF Stamped, TimeInv
      <3> QED
        BY <2>1, <3>1, <3>2
    <2> QED
      BY <2>2, <2>3
  <1>8. \A c \in Clients : SyncIsDated(client[c], device.day)'
    <2>1. \A c \in Clients : SyncIsDated(client[c], later)
      BY <1>2, <1>6 DEF DatedInv
    <2>2. \A c \in Clients : client'[c] = client[c]
      BY <1>1
    <2>3. \A q : SyncIsDated(q, later) => SyncIsDated(q, device'.day)
      BY <1>3
    <2> QED
      BY <2>1, <2>2, <2>3 DEF SyncIsDated, IsDated, Stamped
  <1>9. \A l \in ledger' : IsDated(l, device.day)'
    BY <1>1, <1>2, <1>3, <1>5 DEF DatedInv, IsDated
  <1> QED
    BY <1>1, <1>2, <1>3, <1>7, <1>8, <1>9 DEF DatedInv, Stamped

LEMMA StampedTail ==
  ASSUME NEW day, NEW s \in Seq(Stamped(day)), s # <<>>
  PROVE  Head(s) \in Stamped(day) /\ Tail(s) \in Seq(Stamped(day))
  OBVIOUS

LEMMA LoadedIsDated ==
  ASSUME DatedInv, NEW date \in 1 .. device.day
  PROVE  IsDated(LoadedOrCreated(date), device.day)
  <1>1. CASE ledger = {}
    BY <1>1 DEF LoadedOrCreated, IsDated
  <1>2. CASE ledger # {}
    <2>1. LoadedOrCreated(date) \in ledger
      BY <1>2 DEF LoadedOrCreated
    <2> QED
      BY <2>1 DEF DatedInv
  <1> QED
    BY <1>1, <1>2

\* What a client does with the ledger and with its segments keeps their dates.
LEMMA ClientIsDated ==
  ASSUME TimeInv, DatedInv, NEW c \in load.clients,
         \/ StartTimeSync(c) \/ SendSegment(c) \/ SaveSegment(c) \/ RefuseSegment(c)
         \/ FinishTimeSync(c) \/ SaveAdjustment(c)
         \/ \E hours \in Hours : SendAdjustment(c, hours)
  PROVE  DatedInv'
  <1> DEFINE p == client[c]
             day == device.day
  <1>1. SyncIsDated(p, day) /\ SyncIsOK(p) /\ device.pending \in Seq(Stamped(day))
    BY DEF TimeInv, DatedInv
  <1>2. \A l, other \in ledger : l = other
    BY DEF DatedInv
  <1>3. \A l \in ledger : IsDated(l, day)
    BY DEF DatedInv
  <1>4. SyncIsDated(Idle, day)
    BY DEF SyncIsDated, Idle
  <1>5. CASE StartTimeSync(c)
    <2> DEFINE q == [pc |-> "next", left |-> device.pending, keep |-> <<>>, active |-> device.active]
    <2>1. Goes(c, q) /\ UNCHANGED <<device, ledger>>
      BY <1>5 DEF StartTimeSync, timeDocs
    <2>2. SyncIsDated(q, day)
      BY <1>1 DEF SyncIsDated
    <2> HIDE DEF q
    <2> QED
      BY <1>1, <1>2, <1>3, <2>1, <2>2, DatedByParts
  <1>6. CASE SendSegment(c)
    <2> DEFINE held == LoadedOrCreated(Head(p.left).date)
               q == [pc |-> "held", left |-> p.left, keep |-> p.keep, active |-> p.active, held |-> held]
    <2>1. Goes(c, q) /\ UNCHANGED <<device, ledger>> /\ p.pc = "next" /\ p.left # <<>>
      BY <1>6 DEF SendSegment, timeDocs
    <2>2. p.left \in Seq(Stamped(day)) /\ p.keep \in Seq(Stamped(day)) /\ Head(p.left) \in Stamped(day)
      BY <1>1, <2>1, StampedTail DEF SyncIsDated
    <2>3. IsDated(held, day)
      BY <2>2, LoadedIsDated DEF Stamped
    <2> HIDE DEF held
    <2>4. SyncIsDated(q, day)
      BY <2>2, <2>3 DEF SyncIsDated
    <2> HIDE DEF q
    <2> QED
      BY <1>1, <1>2, <1>3, <2>1, <2>4, DatedByParts
  <1>7. CASE SaveSegment(c) \/ RefuseSegment(c)
    <2>1. p.pc = "held" /\ UNCHANGED device
      BY <1>7 DEF SaveSegment, RefuseSegment, timeDocs
    <2>2. /\ p.left \in Seq(Stamped(day)) /\ p.left # <<>> /\ p.keep \in Seq(Stamped(day))
          /\ IsDated(p.held, day)
      BY <1>1, <2>1 DEF SyncIsDated, SyncIsOK
    <2>3. /\ Head(p.left) \in Stamped(day) /\ Tail(p.left) \in Seq(Stamped(day))
          /\ Append(p.keep, Head(p.left)) \in Seq(Stamped(day))
      <3>1. Head(p.left) \in Stamped(day) /\ Tail(p.left) \in Seq(Stamped(day))
        BY <2>2, StampedTail
      <3> QED
        BY <2>2, <3>1
    <2>4. PICK keep \in Seq(Stamped(day)) :
              Goes(c, [pc |-> "next", left |-> Tail(p.left), keep |-> keep, active |-> p.active])
      BY <1>7, <2>2, <2>3 DEF SaveSegment, RefuseSegment
    <2> DEFINE q == [pc |-> "next", left |-> Tail(p.left), keep |-> keep, active |-> p.active]
    <2>5. SyncIsDated(q, day)
      BY <2>3 DEF SyncIsDated
    <2>6. ledger' = ledger \/ ledger' = {Appended(p.held, Head(p.left).id)}
      BY <1>7 DEF SaveSegment, RefuseSegment, timeDocs
    <2>7. IsDated(Appended(p.held, Head(p.left).id), day)
      BY <2>1, <2>2, <1>1 DEF Appended, IsDated, SyncIsOK, IsLedger
    <2>8. /\ \A l, other \in ledger' : l = other
          /\ \A l \in ledger' : IsDated(l, day)
      BY <1>2, <1>3, <2>6, <2>7
    <2> HIDE DEF q
    <2> QED
      BY <1>1, <2>1, <2>4, <2>5, <2>8, DatedByParts DEF q
  <1>8. CASE FinishTimeSync(c)
    <2>1. /\ Goes(c, Idle) /\ p.pc = "next" /\ UNCHANGED ledger
          /\ device'.pending = p.keep /\ device'.day = day
      BY <1>8 DEF FinishTimeSync, Ends, TimeInv
    <2>2. p.keep \in Seq(Stamped(day))
      BY <1>1, <2>1 DEF SyncIsDated
    <2> QED
      BY <1>2, <1>3, <1>4, <2>1, <2>2, DatedByParts
  <1>9. CASE \E hours \in Hours : SendAdjustment(c, hours)
    <2>1. PICK hours \in Hours : SendAdjustment(c, hours)
      BY <1>9
    <2> DEFINE held == LoadedOrCreated(day)
               q == [pc |-> "adjust", hours |-> hours, held |-> held]
    <2>2. Goes(c, q) /\ UNCHANGED <<device, ledger>> /\ ledger # {}
      BY <2>1 DEF SendAdjustment, timeDocs
    <2>3. held \in ledger
      BY <2>2 DEF LoadedOrCreated
    <2>4. IsDated(held, day) /\ hours \in Int
      BY <1>3, <2>3, HoursAssumption
    <2> HIDE DEF held
    <2>5. SyncIsDated(q, day)
      BY <2>4 DEF SyncIsDated
    <2> HIDE DEF q
    <2> QED
      BY <1>1, <1>2, <1>3, <2>2, <2>5, DatedByParts
  <1>10. CASE SaveAdjustment(c)
    <2> DEFINE a == [id |-> Len(p.held.adjustments) + 1, hours |-> p.hours]
    <2>1. /\ p.pc = "adjust" /\ Goes(c, Idle) /\ UNCHANGED device
          /\ ledger' = {Adjusted(p.held, a)}
      BY <1>10 DEF SaveAdjustment, Ends
    <2>2. IsDated(p.held, day) /\ p.hours \in Int /\ IsLedger(p.held)
      BY <1>1, <2>1 DEF SyncIsDated, SyncIsOK
    <2>3. a \in Adjustments
      BY <2>2 DEF IsDated, Adjustments
    <2> HIDE DEF a, p
    <2>4. IsDated(Adjusted(p.held, a), day)
      BY <2>2, <2>3 DEF Adjusted, IsDated, IsLedger
    <2>5. /\ \A l, other \in ledger' : l = other
          /\ \A l \in ledger' : IsDated(l, day)
      BY <2>1, <2>4
    <2> QED
      BY <1>1, <1>4, <2>1, <2>5, DatedByParts
  <1> QED
    BY <1>5, <1>6, <1>7, <1>8, <1>9, <1>10

LEMMA DatedStep ==
  TimeInv /\ DatedInv /\ [TimeNext]_<<load, client, timeDocs>> => DatedInv'
  <1> SUFFICES ASSUME TimeInv, DatedInv, [TimeNext]_<<load, client, timeDocs>>
               PROVE  DatedInv'
    OBVIOUS
  <1>1. CASE TimeNext
    BY <1>1, NextDayIsDated, ClientIsDated DEF TimeNext
  <1>2. CASE UNCHANGED <<load, client, timeDocs>>
    <2>1. UNCHANGED <<client, device, ledger>>
      BY <1>2 DEF timeDocs
    <2> QED
      BY <2>1 DEF DatedInv, SyncIsDated, IsDated, Stamped
  <1> QED
    BY <1>1, <1>2

LEMMA DatedStart == RequestsInit /\ TimeInit => DatedInv
  BY DEF RequestsInit, TimeInit, DatedInv, SyncIsDated, Idle

\* The hours of a ledger: one for each segment, and those of its adjustments.
LEMMA HoursOfLedger ==
  ASSUME NEW l, IsLedger(l), NEW day, IsDated(l, day)
  PROVE  CalculatedHours(l) = Len(l.segments) /\ CalculatedHours(l) \in Nat /\ AdjustmentHours(l) \in Int
  <1> DEFINE f == [n \in DOMAIN l.segments |-> 1]
             g == [n \in DOMAIN l.adjustments |-> l.adjustments[n].hours]
             k == Len(l.segments)
             m == Len(l.adjustments)
  <1>1. /\ DOMAIN f = 1 .. k /\ k \in Nat /\ DOMAIN g = 1 .. m /\ m \in Nat
        /\ \A n \in 1 .. k : f[n] = 1
        /\ \A n \in 1 .. m : g[n] \in Int
    <2>1. DOMAIN l.segments = 1 .. k /\ k \in Nat
      BY DEF IsLedger
    <2>2. /\ DOMAIN l.adjustments = 1 .. m /\ m \in Nat
          /\ \A n \in 1 .. m : l.adjustments[n] \in Adjustments
      BY DEF IsDated
    <2>3. \A a \in Adjustments : a.hours \in Int
      BY DEF Adjustments
    <2> QED
      BY <2>1, <2>2, <2>3
  <1>2. CalculatedHours(l) = SumFunctionOnSet(f, 1 .. k) /\ AdjustmentHours(l) = SumFunctionOnSet(g, 1 .. m)
    BY <1>1 DEF CalculatedHours, AdjustmentHours, SumFunction
  <1> HIDE DEF f, g, k, m
  <1>3. IsFiniteSet(1 .. k) /\ Cardinality(1 .. k) = k /\ IsFiniteSet(1 .. m)
    <2>1. k >= 1 \/ k = 0
      BY <1>1
    <2> QED
      BY <1>1, <2>1, FS_Interval
  <1>4. SumFunctionOnSet(f, 1 .. k) = k
    BY <1>1, <1>3, SumOfOnes
  <1>5. SumFunctionOnSet(g, 1 .. m) \in Int
    BY <1>1, <1>3, SumIsInt
  <1> QED
    BY <1>1, <1>2, <1>4, <1>5 DEF k

\* However many synchronisations meet, whichever answers are lost and whatever is adjusted:
\* a segment counts as one hour in what is calculated, the report of the year has the hours
\* of the ledger, never less than none, and with one synchronisation at a time nothing that
\* was stopped is missing from it. (append_time_segment, annual_report, field-time.js)
THEOREM LedgersCountOnce == TimeModeSpec => []LedgerCountsOnce
  <1>1. TimeInv /\ DatedInv /\ SegmentsCountOnce /\ NothingIsDropped => LedgerCountsOnce
    <2> SUFFICES ASSUME TimeInv, DatedInv, NEW l \in ledger
                 PROVE  /\ LedgerSummary(l).calculated = LedgerSummary(l).segments
                        /\ AnnualReport(1, device.day).total >= 0
                        /\ AnnualReport(1, device.day).total >= CalculatedHours(l) + AdjustmentHours(l)
      BY DEF LedgerCountsOnce
    <2>1. IsLedger(l) /\ IsDated(l, device.day)
      BY DEF TimeInv, DatedInv
    <2>2. CalculatedHours(l) = Len(l.segments) /\ CalculatedHours(l) \in Nat /\ AdjustmentHours(l) \in Int
      BY <2>1, HoursOfLedger
    <2> DEFINE row == [date |-> l.date, hours |-> ReportedHours(l)]
               f == [r \in {row} |-> r.hours]
    <2>3. ReportRows(1, device.day) = {row}
      <3>1. {k \in ledger : k.date \in 1 .. device.day} = {l}
        BY <2>1 DEF DatedInv, IsDated
      <3> QED
        BY <3>1 DEF ReportRows
    <2>4. /\ ReportedHours(l) \in Int /\ ReportedHours(l) >= 0
          /\ ReportedHours(l) >= CalculatedHours(l) + AdjustmentHours(l)
      BY <2>2 DEF ReportedHours
    <2>5. AnnualReport(1, device.day).total = SumFunctionOnSet(f, {row})
      BY <2>3 DEF AnnualReport, SumFunction
    <2>6. f[row] = ReportedHours(l)
      OBVIOUS
    <2>7. SumFunctionOnSet(f, {row}) = ReportedHours(l)
      <3> HIDE DEF f, row
      <3>1. IsFiniteSet({row}) /\ \A r \in {row} : f[r] \in Int
        BY <2>4, <2>6, FS_Singleton
      <3>2. SumFunctionOnSet(f, {row}) = f[row] + SumFunctionOnSet(f, {row} \ {row})
        BY <3>1, SumRemove
      <3>3. SumFunctionOnSet(f, {}) = 0
        BY SumChosen, FS_EmptySet, Zenon
      <3>4. SumFunctionOnSet(f, {row} \ {row}) = 0
        <4>1. {row} \ {row} = {}
          OBVIOUS
        <4> QED
          BY <3>3, <4>1, Zenon
      <3> QED
        BY <2>4, <2>6, <3>2, <3>4
    <2> QED
      BY <2>2, <2>4, <2>5, <2>7 DEF LedgerSummary
  <1> QED
    BY <1>1, SegmentsAlwaysCountOnce, NothingIsEverDropped, TimeStart, TimeStep, DatedStart, DatedStep,
       PTL DEF TimeModeSpec

-----------------------------------------------------------------------------
(* INFERENCE.  Sequences that are searched and sorted                      *)

\* The concatenation of two sequences has the elements of both.
LEMMA Concatenated ==
  ASSUME NEW C, NEW s \in Seq(C), NEW t \in Seq(C)
  PROVE  s \o t \in Seq(C) /\ Range(s \o t) = Range(s) \cup Range(t)
  <1>1. s \o t \in Seq(C)
    OBVIOUS
  <1>2. PICK a \in Nat, b \in Nat : a = Len(s) /\ b = Len(t)
    OBVIOUS
  <1>3. /\ DOMAIN s = 1 .. a /\ DOMAIN t = 1 .. b /\ DOMAIN (s \o t) = 1 .. (a + b)
        /\ \A i \in 1 .. a : (s \o t)[i] = s[i]
        /\ \A i \in 1 .. b : (s \o t)[a + i] = t[i]
    BY <1>2
  <1>4. \A i \in 1 .. (a + b) : i \in 1 .. a \/ (i - a \in 1 .. b /\ a + (i - a) = i)
    OBVIOUS
  <1>5. \A i \in 1 .. a : i \in 1 .. (a + b)
    OBVIOUS
  <1>6. \A i \in 1 .. b : a + i \in 1 .. (a + b)
    OBVIOUS
  <1>7. \A x \in Range(s \o t) : x \in Range(s) \cup Range(t)
    BY <1>3, <1>4 DEF Range
  <1>8. \A x \in Range(s) \cup Range(t) : x \in Range(s \o t)
    BY <1>3, <1>5, <1>6 DEF Range
  <1> QED
    BY <1>1, <1>7, <1>8

\* What sequences in a sequence have, their concatenation has.
LEMMA Flattened ==
  ASSUME NEW S, NEW seqs \in Seq(Seq(S))
  PROVE  /\ FlattenSeq(seqs) \in Seq(S)
         /\ Range(FlattenSeq(seqs)) = UNION {Range(seqs[k]) : k \in DOMAIN seqs}
  <1> DEFINE n == Len(seqs)
             step(f, i) == IF i = 1 THEN seqs[i] ELSE f[i - 1] \o seqs[i]
             good(m, f) == f = [i \in 1 .. m |-> step(f, i)]
             chosen == CHOOSE f : good(n, f)
             OK(f, m) == /\ f[m] \in Seq(S)
                         /\ Range(f[m]) = UNION {Range(seqs[k]) : k \in 1 .. m}
  <1>1. n \in Nat /\ DOMAIN seqs = 1 .. n /\ \A k \in 1 .. n : seqs[k] \in Seq(S)
    OBVIOUS
  <1>2. CASE n = 0
    <2>1. FlattenSeq(seqs) = seqs /\ seqs = <<>>
      BY <1>2 DEF FlattenSeq
    <2>2. Range(seqs) = {}
      BY <2>1 DEF Range
    <2>3. UNION {Range(seqs[k]) : k \in DOMAIN seqs} = {}
      BY <2>1
    <2> QED
      BY <2>1, <2>2, <2>3
  <1>3. CASE n # 0
    <2>1. FlattenSeq(seqs) = chosen[n]
      BY <1>3 DEF FlattenSeq
    <2>2. \E f : good(n, f)
      <3> DEFINE N == {m \in Nat : \E f : good(m, f)}
      <3>1. 0 \in N
        <4>1. good(0, [i \in 1 .. 0 |-> 0])
          OBVIOUS
        <4> QED
          BY <4>1
      <3>2. ASSUME NEW m \in Nat, m \in N
            PROVE  m + 1 \in N
        <4>1. PICK f : good(m, f)
          BY <3>2
        <4> DEFINE g == [i \in 1 .. (m + 1) |-> IF i = m + 1 THEN step(f, i) ELSE f[i]]
        <4>2. \A i \in 1 .. (m + 1) : g[i] = step(g, i)
          <5>1. \A i \in 1 .. m : f[i] = step(f, i)
            BY <4>1
          <5>2. \A i \in 1 .. m : g[i] = f[i]
            OBVIOUS
          <5>3. \A i \in 1 .. (m + 1) : i # 1 => i - 1 \in 1 .. m
            OBVIOUS
          <5> QED
            BY <5>1, <5>2, <5>3
        <4>3. good(m + 1, g)
          BY <4>2
        <4> HIDE DEF good, g
        <4> QED
          BY <4>3
      <3> HIDE DEF N
      <3>3. n \in N
        BY <1>1, <3>1, <3>2, Induct
      <3> QED
        BY <3>3 DEF N
    <2>3. good(n, chosen)
      BY <2>2
    <2>4. \A i \in 1 .. n : chosen[i] = step(chosen, i)
      <3> HIDE DEF chosen
      <3> QED
        BY <2>3
    <2> HIDE DEF chosen
    <2> DEFINE N == {m \in Nat : m \in 1 .. n => OK(chosen, m)}
    <2>5. 0 \in N
      OBVIOUS
    <2>6. ASSUME NEW m \in Nat, m \in N, m + 1 \in 1 .. n
          PROVE  OK(chosen, m + 1)
      <3>1. CASE m = 0
        <4>1. 1 \in 1 .. n
          BY <2>6, <3>1
        <4>2. chosen[1] = seqs[1]
          BY <2>4, <4>1
        <4>3. 1 .. 1 = {1}
          OBVIOUS
        <4> QED
          BY <1>1, <2>6, <3>1, <4>2, <4>3
      <3>2. CASE m # 0
        <4> DEFINE s == chosen[m]
                   t == seqs[m + 1]
        <4>1. chosen[m + 1] = s \o t
          <5>1. m + 1 # 1 /\ (m + 1) - 1 = m
            BY <3>2
          <5> QED
            BY <2>4, <2>6, <5>1
        <4>2. /\ s \in Seq(S) /\ t \in Seq(S)
              /\ Range(s) = UNION {Range(seqs[k]) : k \in 1 .. m}
          BY <1>1, <2>6, <3>2
        <4> HIDE DEF s, t
        <4>3. s \o t \in Seq(S) /\ Range(s \o t) = Range(s) \cup Range(t)
          BY <4>2, Concatenated
        <4>4. 1 .. (m + 1) = (1 .. m) \cup {m + 1}
          OBVIOUS
        <4>5. UNION {Range(seqs[k]) : k \in 1 .. (m + 1)} = Range(s) \cup Range(t)
          BY <4>2, <4>4 DEF t
        <4> QED
          BY <4>1, <4>3, <4>5
      <3> QED
        BY <3>1, <3>2
    <2> HIDE DEF OK
    <2>7. ASSUME NEW m \in Nat, m \in N
          PROVE  m + 1 \in N
      <3>1. m + 1 \in Nat
        OBVIOUS
      <3>2. m + 1 \in 1 .. n => OK(chosen, m + 1)
        BY <2>6, <2>7
      <3> QED
        BY <3>1, <3>2
    <2> HIDE DEF N
    <2>8. n \in N
      BY <1>1, <2>5, <2>7, Induct
    <2>9. OK(chosen, n)
      BY <1>1, <1>3, <2>8 DEF N
    <2> QED
      BY <1>1, <2>1, <2>9 DEF OK
  <1> QED
    BY <1>2, <1>3

Below(before, S, x) == {y \in S : <<y, x>> \in before}

IsOrder(before, S) ==
    /\ \A x, y \in S : x # y => <<x, y>> \in before \/ <<y, x>> \in before
    /\ \A x, y, z \in S : <<x, y>> \in before /\ <<y, z>> \in before => <<x, z>> \in before
    /\ \A x \in S : <<x, x>> \notin before

IsRanking(S, rank) ==
    /\ Cardinality(S) \in Nat
    /\ \A x \in S : rank[x] \in Int
    /\ \A i \in 1 .. Cardinality(S) : \E x \in S : rank[x] = i - 1
    /\ \A x \in S : rank[x] + 1 \in 1 .. Cardinality(S)
    /\ \A x, y \in S : rank[x] = rank[y] => x = y

\* Of the elements of a finite set that are in order, each has a rank of its own.
LEMMA RankedBy ==
  ASSUME NEW S, IsFiniteSet(S), NEW before, IsOrder(before, S)
  PROVE  IsRanking(S, [x \in S |-> Cardinality(Below(before, S, x))])
  <1> DEFINE n == Cardinality(S)
             I == 0 .. (n - 1)
             below(x) == Below(before, S, x)
             rank == [x \in S |-> Cardinality(Below(before, S, x))]
  <1>0. rank = [x \in S |-> rank[x]] /\ \A x \in S : rank[x] = Cardinality(below(x))
    OBVIOUS
  <1> HIDE DEF rank
  <1>1. n \in Nat /\ IsFiniteSet(I) /\ Cardinality(I) = n
    <2>1. n \in Nat
      BY FS_CardinalityType
    <2> HIDE DEF n
    <2>2. n - 1 \in Int /\ IF 0 <= n - 1 THEN n - 1 - 0 + 1 = n ELSE n = 0
      BY <2>1
    <2> QED
      BY <2>1, <2>2, FS_Interval
  <1>2. ASSUME NEW x \in S
        PROVE  rank[x] \in I
    <2>1. below(x) \in SUBSET S /\ x \in S \ below(x)
      BY DEF Below, IsOrder
    <2> HIDE DEF below, n
    <2>2. /\ Cardinality(below(x)) <= Cardinality(S) /\ Cardinality(below(x)) # Cardinality(S)
          /\ Cardinality(below(x)) \in Nat
      <3>1. IsFiniteSet(below(x)) /\ Cardinality(below(x)) \in Nat
        BY <2>1, FS_Subset, FS_CardinalityType
      <3>2. Cardinality(S) = Cardinality(below(x)) => S = below(x)
        BY <2>1, FS_Subset
      <3>3. Cardinality(below(x)) <= Cardinality(S)
        BY <2>1, FS_Subset
      <3> QED
        BY <2>1, <3>1, <3>2, <3>3
    <2> QED
      BY <1>0, <1>1, <2>2 DEF n
  <1>3. ASSUME NEW x \in S, NEW y \in S, <<x, y>> \in before
        PROVE  rank[x] < rank[y]
    <2>1. /\ below(x) \in SUBSET below(y) /\ below(y) \in SUBSET S
          /\ x \in below(y) /\ x \notin below(x)
      BY <1>3 DEF Below, IsOrder
    <2> HIDE DEF below
    <2>2. IsFiniteSet(below(y))
      BY <2>1, FS_Subset
    <2>3. /\ Cardinality(below(x)) <= Cardinality(below(y))
          /\ Cardinality(below(x)) # Cardinality(below(y))
      BY <2>1, <2>2, FS_Subset
    <2> HIDE DEF n
    <2>4. rank[x] \in Int /\ rank[y] \in Int
      BY <1>1, <1>2
    <2> QED
      BY <1>0, <2>3, <2>4
  <1>4. rank \in Injection(S, I)
    <2>1. \A x, y \in S : x # y => <<x, y>> \in before \/ <<y, x>> \in before
      BY DEF IsOrder
    <2>2. rank \in [S -> I]
      <3> HIDE DEF I
      <3> QED
        BY <1>0, <1>2
    <2>3. \A x \in S : rank[x] \in Int
      <3> HIDE DEF n
      <3> QED
        BY <1>1, <1>2
    <2>4. ASSUME NEW x \in S, NEW y \in S, x # y
          PROVE  rank[x] # rank[y]
      <3>1. rank[x] \in Int /\ rank[y] \in Int
        BY <2>3
      <3>2. rank[x] < rank[y] \/ rank[y] < rank[x]
        BY <1>3, <2>1, <2>4
      <3> HIDE DEF n
      <3> QED
        BY <3>1, <3>2
    <2> QED
      BY <2>2, <2>4 DEF Injection, IsInjective
  <1>5. rank \in Surjection(S, I)
    <2> HIDE DEF I
    <2> QED
      BY <1>1, <1>4, FS_Injection
  <1> HIDE DEF n
  <1>6. \A x \in S : rank[x] \in Int
    BY <1>1, <1>2
  <1>7. \A i \in 1 .. n : \E x \in S : rank[x] = i - 1
    <2>1. \A i \in 1 .. n : i - 1 \in I
      BY <1>1
    <2> QED
      BY <1>5, <2>1 DEF Surjection
  <1>8. \A x \in S : rank[x] + 1 \in 1 .. n
    BY <1>1, <1>2
  <1>9. \A x, y \in S : rank[x] = rank[y] => x = y
    BY <1>4 DEF Injection, IsInjective
  <1> QED
    BY <1>1, <1>6, <1>7, <1>8, <1>9 DEF n, rank, IsRanking

\* Of the elements of a finite set that have different numbers, each has a rank of its own.
LEMMA Ranked ==
  ASSUME NEW S, IsFiniteSet(S), NEW number \in [S -> Int], IsInjective(number),
         NEW rank, rank = [x \in S |-> rank[x]],
         \A x \in S : rank[x] = Cardinality({y \in S : number[y] < number[x]})
  PROVE  /\ Cardinality(S) \in Nat
         /\ \A x \in S : rank[x] \in Int
         /\ \A i \in 1 .. Cardinality(S) : \E x \in S : rank[x] = i - 1
         /\ \A x \in S : rank[x] + 1 \in 1 .. Cardinality(S)
         /\ \A x, y \in S : rank[x] = rank[y] => x = y
  <1> DEFINE before == {p \in S \X S : number[p[1]] < number[p[2]]}
             at == [x \in S |-> Cardinality(Below(before, S, x))]
  <1>1. \A x, y \in S : <<x, y>> \in before <=> number[x] < number[y]
    OBVIOUS
  <1>2. \A x \in S : {y \in S : number[y] < number[x]} = Below(before, S, x)
    BY <1>1 DEF Below
  <1>3. \A x \in S : at[x] = rank[x]
    BY <1>2
  <1> HIDE DEF before
  <1>4. IsOrder(before, S)
    <2>1. \A x, y \in S : x # y => number[x] # number[y]
      BY DEF IsInjective
    <2>2. \A x \in S : number[x] \in Int
      OBVIOUS
    <2> QED
      BY <1>1, <2>1, <2>2 DEF IsOrder
  <1>5. IsRanking(S, at)
    BY <1>4, RankedBy
  <1> HIDE DEF at
  <1> QED
    BY <1>3, <1>5 DEF IsRanking

\* The relations from an object are followed one after the other.
LEMMA Adjacent ==
  ASSUME NEW P, IsFiniteSet(P), \A r \in P : r.target \in Int,
         \A r, q \in P : r.source = q.source /\ r.target = q.target => r = q, NEW source
  PROVE  /\ Adjacency(P, source) \in Seq(P)
         /\ Range(Adjacency(P, source)) = {r \in P : r.source = source}
  <1> DEFINE S == {r \in P : r.source = source}
             n == Cardinality(S)
             number == [r \in S |-> r.target]
             rank == [x \in S |-> Cardinality({y \in S : y.target < x.target})]
             a == Adjacency(P, source)
  <1>1. IsFiniteSet(S)
    BY FS_Subset
  <1>2. number \in [S -> Int] /\ IsInjective(number)
    BY DEF IsInjective
  <1>3. /\ rank = [x \in S |-> rank[x]]
        /\ \A x \in S : rank[x] = Cardinality({y \in S : number[y] < number[x]})
    <2>1. \A x \in S : {y \in S : y.target < x.target} = {y \in S : number[y] < number[x]}
      OBVIOUS
    <2> QED
      BY <2>1
  <1>4. a = [i \in 1 .. n |-> CHOOSE x \in S : Cardinality({y \in S : y.target < x.target}) = i - 1]
    BY DEF Adjacency, InOrder
  <1>5. \A x \in S : rank[x] = Cardinality({y \in S : y.target < x.target})
    OBVIOUS
  <1> HIDE DEF S, number, rank
  <1>6. /\ \A i \in 1 .. n : \E x \in S : rank[x] = i - 1
        /\ \A x \in S : rank[x] + 1 \in 1 .. n
        /\ \A x, y \in S : rank[x] = rank[y] => x = y
        /\ n \in Nat /\ \A x \in S : rank[x] \in Int
    BY <1>1, <1>2, <1>3, Ranked
  <1>7. \A i \in 1 .. n : a[i] \in S /\ rank[a[i]] = i - 1
    <2> SUFFICES ASSUME NEW i \in 1 .. n
                 PROVE  a[i] \in S /\ rank[a[i]] = i - 1
      OBVIOUS
    <2>1. \E x \in S : Cardinality({y \in S : y.target < x.target}) = i - 1
      BY <1>5, <1>6
    <2>2. a[i] = CHOOSE x \in S : Cardinality({y \in S : y.target < x.target}) = i - 1
      BY <1>4
    <2>3. a[i] \in S /\ Cardinality({y \in S : y.target < a[i].target}) = i - 1
      BY <2>1, <2>2
    <2> QED
      BY <1>5, <2>3
  <1>8. a = [i \in 1 .. n |-> a[i]]
    BY <1>4
  <1> HIDE DEF a, n
  <1>9. a \in Seq(S) /\ Range(a) = S
    <2>1. a \in [1 .. n -> S]
      BY <1>7, <1>8
    <2>2. ASSUME NEW x \in S
          PROVE  \E i \in 1 .. n : a[i] = x
      <3>1. rank[x] + 1 \in 1 .. n /\ (rank[x] + 1) - 1 = rank[x]
        BY <1>6
      <3>2. a[rank[x] + 1] = x
        BY <1>6, <1>7, <3>1
      <3> QED
        BY <3>1, <3>2
    <2>3. a \in Seq(S)
      BY <1>6, <2>1
    <2> QED
      BY <2>1, <2>2, <2>3 DEF Range
  <1> QED
    BY <1>9 DEF a, S

\* The objects that relations start from are taken one after the other.
LEMMA Ordered ==
  ASSUME NEW S, IsFiniteSet(S), S \subseteq Int
  PROVE  InOrder(S, LAMBDA n : n) \in Seq(S) /\ Range(InOrder(S, LAMBDA n : n)) = S
  <1> DEFINE n == Cardinality(S)
             number == [x \in S |-> x]
             rank == [x \in S |-> Cardinality({y \in S : y < x})]
             a == InOrder(S, LAMBDA k : k)
  <1>1. number \in [S -> Int] /\ IsInjective(number)
    BY DEF IsInjective
  <1>2. /\ rank = [x \in S |-> rank[x]]
        /\ \A x \in S : rank[x] = Cardinality({y \in S : number[y] < number[x]})
    <2>1. \A x \in S : {y \in S : y < x} = {y \in S : number[y] < number[x]}
      OBVIOUS
    <2> QED
      BY <2>1
  <1>3. a = [i \in 1 .. n |-> CHOOSE x \in S : Cardinality({y \in S : y < x}) = i - 1]
    BY DEF InOrder
  <1>4. \A x \in S : rank[x] = Cardinality({y \in S : y < x})
    OBVIOUS
  <1> HIDE DEF number, rank
  <1>5. /\ \A i \in 1 .. n : \E x \in S : rank[x] = i - 1
        /\ \A x \in S : rank[x] + 1 \in 1 .. n
        /\ \A x, y \in S : rank[x] = rank[y] => x = y
        /\ n \in Nat /\ \A x \in S : rank[x] \in Int
    BY <1>1, <1>2, Ranked
  <1>6. \A i \in 1 .. n : a[i] \in S /\ rank[a[i]] = i - 1
    <2> SUFFICES ASSUME NEW i \in 1 .. n
                 PROVE  a[i] \in S /\ rank[a[i]] = i - 1
      OBVIOUS
    <2>1. \E x \in S : Cardinality({y \in S : y < x}) = i - 1
      BY <1>4, <1>5
    <2>2. a[i] = CHOOSE x \in S : Cardinality({y \in S : y < x}) = i - 1
      BY <1>3
    <2>3. a[i] \in S /\ Cardinality({y \in S : y < a[i]}) = i - 1
      BY <2>1, <2>2
    <2> QED
      BY <1>4, <2>3
  <1>7. a = [i \in 1 .. n |-> a[i]]
    BY <1>3
  <1> HIDE DEF a, n
  <1>8. a \in Seq(S) /\ Range(a) = S
    <2>1. a \in [1 .. n -> S]
      BY <1>6, <1>7
    <2>2. ASSUME NEW x \in S
          PROVE  \E i \in 1 .. n : a[i] = x
      <3>1. rank[x] + 1 \in 1 .. n /\ (rank[x] + 1) - 1 = rank[x]
        BY <1>5
      <3>2. a[rank[x] + 1] = x
        BY <1>5, <1>6, <3>1
      <3> QED
        BY <3>1, <3>2
    <2>3. a \in Seq(S)
      BY <1>5, <2>1
    <2> QED
      BY <2>1, <2>2, <2>3 DEF Range
  <1> QED
    BY <1>8 DEF a

\* Among numbers there is a least one.
LEMMA LeastNumber ==
  ASSUME NEW S, S \subseteq Nat, S # {}
  PROVE  \E m \in S : \A n \in S : m <= n
  <1>1. PICK m \in S : \A n \in S : ~(<<n, m>> \in OpToRel(<, Nat))
    BY NatLessThanWellFounded, WFMin, Zenon
  <1>2. \A n \in S : ~(n < m)
    BY <1>1 DEF OpToRel
  <1> QED
    BY <1>2

-----------------------------------------------------------------------------
(* The search from one object                                              *)

PairsOf(S) == {<<r.source, r.target>> : r \in S}

Targets(chains) == {c.target : c \in chains}

\* What one link leads to.
After(J, T) == {q[2] : q \in {l \in J : l[1] \in T}}

\* What 0 to MaxDepth links lead to from s, as Within defines it.
Reach(J, s) ==
    LET reach[n \in 0..MaxDepth] == IF n = 0 THEN {s} ELSE reach[n-1] \cup After(J, reach[n-1])
    IN  reach

\* Relations of one type, of which no two join the same objects.
Premises(P) ==
    /\ IsFiniteSet(P)
    /\ \A r \in P : r.source \in Nat /\ r.target \in Nat /\ r.confidence \in Nat
    /\ \A r, q \in P : r.source = q.source /\ r.target = q.target => r = q

\* A chain of so many relations from s, no more certain than any of them.
IsChain(P, s, depth, c) ==
    /\ c.target \in Nat /\ c.confidence \in Nat
    /\ c.steps \in Seq(P) /\ Len(c.steps) = depth
    /\ depth = 0 => c.target = s
    /\ depth > 0 => c.steps[1].source = s /\ c.steps[depth].target = c.target
    /\ \A i \in 2 .. depth : c.steps[i].source = c.steps[i - 1].target
    /\ \A i \in 1 .. depth : c.confidence <= c.steps[i].confidence

LEMMA ReachIs ==
  ASSUME NEW J, NEW s, MaxDepth \in Nat
  PROVE  /\ Reach(J, s) = [n \in 0 .. MaxDepth |-> Reach(J, s)[n]]
         /\ Reach(J, s)[0] = {s}
         /\ \A n \in 0 .. MaxDepth :
               n # 0 => Reach(J, s)[n] = Reach(J, s)[n - 1] \cup After(J, Reach(J, s)[n - 1])
  <1> DEFINE step(f, n) == IF n = 0 THEN {s} ELSE f[n - 1] \cup After(J, f[n - 1])
             good(m, f) == f = [n \in 0 .. m |-> step(f, n)]
             N == {m \in Nat : \E f : good(m, f)}
             chosen == CHOOSE f : good(MaxDepth, f)
  <1>1. Reach(J, s) = chosen
    BY DEF Reach
  <1>2. 0 \in N
    <2>1. good(0, [n \in 0 .. 0 |-> {s}])
      OBVIOUS
    <2> QED
      BY <2>1
  <1>3. ASSUME NEW m \in Nat, m \in N
        PROVE  m + 1 \in N
    <2>1. PICK f : good(m, f)
      BY <1>3
    <2> DEFINE g == [n \in 0 .. (m + 1) |-> IF n = m + 1 THEN step(f, n) ELSE f[n]]
    <2>2. \A n \in 0 .. (m + 1) : g[n] = step(g, n)
      <3>1. \A n \in 0 .. m : f[n] = step(f, n)
        BY <2>1
      <3>2. \A n \in 0 .. m : g[n] = f[n]
        OBVIOUS
      <3>3. \A n \in 0 .. (m + 1) : n # 0 => n - 1 \in 0 .. m
        OBVIOUS
      <3>4. \A n \in 0 .. (m + 1) : step(g, n) = step(f, n)
        BY <3>2, <3>3
      <3>5. \A n \in 0 .. (m + 1) : n = m + 1 \/ n \in 0 .. m
        OBVIOUS
      <3> HIDE DEF step
      <3> QED
        BY <3>1, <3>4, <3>5
    <2>3. good(m + 1, g)
      BY <2>2
    <2> HIDE DEF good, g
    <2> QED
      BY <2>3
  <1> HIDE DEF N
  <1>4. MaxDepth \in N
    BY <1>2, <1>3, Induct
  <1>5. good(MaxDepth, chosen)
    <2>1. \E f : good(MaxDepth, f)
      BY <1>4 DEF N
    <2> HIDE DEF good
    <2> QED
      BY <2>1
  <1> HIDE DEF chosen
  <1>6. chosen = [n \in 0 .. MaxDepth |-> chosen[n]]
    BY <1>5
  <1>7. \A n \in 0 .. MaxDepth : chosen[n] = step(chosen, n)
    BY <1>5
  <1>8. chosen[0] = {s}
    <2>1. 0 \in 0 .. MaxDepth /\ step(chosen, 0) = {s}
      OBVIOUS
    <2> QED
      BY <1>7, <2>1, Zenon
  <1>9. \A n \in 0 .. MaxDepth : n # 0 => chosen[n] = chosen[n - 1] \cup After(J, chosen[n - 1])
    BY <1>7
  <1> QED
    BY <1>1, <1>6, <1>8, <1>9, Zenon

\* A link makes a chain longer, and no more certain.
LEMMA LinkedChain ==
  ASSUME NEW P, Premises(P), NEW s, NEW depth \in Nat, NEW c, IsChain(P, s, depth, c),
         NEW r \in P, r.source = c.target
  PROVE  IsChain(P, s, depth + 1, Linked(c, r)) /\ Linked(c, r).target = r.target
  <1> DEFINE least == Lesser(c.confidence, r.confidence)
             sure == (least * Factor) \div 100
             steps == Append(c.steps, r)
             new == Linked(c, r)
  <1>1. new.target = r.target /\ new.steps = steps /\ new.confidence = sure
    BY DEF Linked
  <1>2. r.target \in Nat /\ r.confidence \in Nat /\ c.confidence \in Nat /\ c.steps \in Seq(P) /\ Len(c.steps) = depth
    BY DEF Premises, IsChain
  <1>3. least \in Nat /\ least <= c.confidence /\ least <= r.confidence
    BY <1>2 DEF Lesser
  <1> HIDE DEF least
  <1>4. sure \in Nat /\ sure <= least
    <2>1. PICK f \in Nat : f = Factor /\ f <= 100
      BY FactorAssumption
    <2>2. least * f \in Nat /\ least * f <= 100 * least
      BY <1>3, <2>1
    <2>3. \A p \in Nat : p <= 100 * least => p \div 100 \in Nat /\ p \div 100 <= least
      BY <1>3
    <2> HIDE DEF sure
    <2>4. sure = (least * f) \div 100
      BY <2>1 DEF sure
    <2> QED
      BY <2>2, <2>3, <2>4
  <1> HIDE DEF sure
  <1>5. /\ steps \in Seq(P) /\ Len(steps) = depth + 1 /\ steps[depth + 1] = r
        /\ \A i \in 1 .. depth : steps[i] = c.steps[i]
    BY <1>2
  <1> HIDE DEF steps, new
  <1>6. \A i \in 1 .. (depth + 1) : i \in 1 .. depth \/ i = depth + 1
    OBVIOUS
  <1>7. new.steps[1].source = s /\ new.steps[depth + 1].target = new.target
    <2>1. CASE depth = 0
      BY <1>1, <1>5, <2>1 DEF IsChain
    <2>2. CASE depth > 0
      BY <1>1, <1>5, <2>2 DEF IsChain
    <2> QED
      BY <2>1, <2>2
  <1>8. ASSUME NEW i \in 2 .. (depth + 1)
        PROVE  new.steps[i].source = new.steps[i - 1].target
    <2>1. CASE i \in 2 .. depth
      <3>1. i \in 1 .. depth /\ i - 1 \in 1 .. depth
        BY <2>1
      <3> QED
        BY <1>1, <1>5, <2>1, <3>1 DEF IsChain
    <2>2. CASE i = depth + 1
      <3>1. depth > 0 /\ depth \in 1 .. depth /\ i - 1 = depth
        BY <1>8, <2>2
      <3> QED
        BY <1>1, <1>5, <2>2, <3>1 DEF IsChain
    <2> QED
      BY <2>1, <2>2
  <1>9. ASSUME NEW i \in 1 .. (depth + 1)
        PROVE  new.confidence <= new.steps[i].confidence
    <2>1. CASE i \in 1 .. depth
      <3>1. c.confidence <= c.steps[i].confidence /\ c.steps[i].confidence \in Nat
        BY <1>2, <2>1 DEF IsChain, Premises
      <3> QED
        BY <1>1, <1>2, <1>3, <1>4, <1>5, <2>1, <3>1
    <2>2. CASE i = depth + 1
      BY <1>1, <1>2, <1>3, <1>4, <1>5, <2>2
    <2> QED
      BY <1>6, <2>1, <2>2
  <1>10. IsChain(P, s, depth + 1, new)
    BY <1>1, <1>2, <1>4, <1>5, <1>7, <1>8, <1>9 DEF IsChain
  <1> QED
    BY <1>1, <1>10 DEF new

LEMMA OwnRange ==
  ASSUME NEW C, NEW s \in Seq(C)
  PROVE  s \in Seq(Range(s))
  <1>1. Len(s) \in Nat /\ DOMAIN s = 1 .. Len(s) /\ s = [i \in 1 .. Len(s) |-> s[i]]
    OBVIOUS
  <1>2. \A i \in 1 .. Len(s) : s[i] \in Range(s)
    BY <1>1 DEF Range
  <1> QED
    BY <1>1, <1>2

\* Every chain of a queue is made longer by every relation that goes on from it.
LEMMA ExtensionsAre ==
  ASSUME NEW P, Premises(P), NEW C, NEW chains \in Seq(C)
  PROVE  LET all == AllExtensions(P, chains)
         IN  /\ all \in Seq(Range(all))
             /\ \A x : x \in Range(all) <=> \E c \in Range(chains), r \in P : r.source = c.target /\ x = Linked(c, r)
  <1> DEFINE X == {Linked(c, r) : c \in C, r \in P}
             seqs == [i \in 1 .. Len(chains) |-> Extensions(P, chains[i])]
  <1>1. /\ Len(chains) \in Nat /\ DOMAIN chains = 1 .. Len(chains)
        /\ \A i \in 1 .. Len(chains) : chains[i] \in C
    OBVIOUS
  <1>2. ASSUME NEW c
        PROVE  /\ \A S : c \in S => Extensions(P, c) \in Seq({Linked(d, r) : d \in S, r \in P})
               /\ \A x : x \in Range(Extensions(P, c)) <=> \E r \in P : r.source = c.target /\ x = Linked(c, r)
    <2> DEFINE next == Adjacency(P, c.target)
               new == [i \in 1 .. Len(next) |-> Linked(c, next[i])]
    <2>1. next \in Seq(P) /\ Range(next) = {r \in P : r.source = c.target}
      BY Adjacent DEF Premises
    <2>2. Extensions(P, c) = new
      BY DEF Extensions
    <2> HIDE DEF next
    <2>3. /\ Len(next) \in Nat /\ DOMAIN next = 1 .. Len(next)
          /\ \A i \in 1 .. Len(next) : next[i] \in P
      BY <2>1
    <2>4. \A S : c \in S => new \in Seq({Linked(d, r) : d \in S, r \in P})
      BY <2>3
    <2>5. \A x : x \in Range(new) <=> \E i \in 1 .. Len(next) : x = Linked(c, next[i])
      BY DEF Range
    <2>6. \A r : (\E i \in 1 .. Len(next) : r = next[i]) <=> r \in P /\ r.source = c.target
      BY <2>1, <2>3 DEF Range
    <2> HIDE DEF new
    <2>7. \A x : x \in Range(new) <=> \E r \in P : r.source = c.target /\ x = Linked(c, r)
      BY <2>5, <2>6
    <2> QED
      BY <2>2, <2>4, <2>7
  <1>3. seqs \in Seq(Seq(X))
    <2>1. \A i \in 1 .. Len(chains) : Extensions(P, chains[i]) \in Seq(X)
      BY <1>1, <1>2
    <2> HIDE DEF X
    <2> QED
      BY <1>1, <2>1
  <1>4. AllExtensions(P, chains) = FlattenSeq(seqs)
    BY DEF AllExtensions
  <1> HIDE DEF X
  <1>5. /\ FlattenSeq(seqs) \in Seq(X)
        /\ Range(FlattenSeq(seqs)) = UNION {Range(seqs[k]) : k \in DOMAIN seqs}
    <2> HIDE DEF seqs
    <2> QED
      BY <1>3, Flattened
  <1>6. ASSUME NEW x
        PROVE  x \in Range(AllExtensions(P, chains))
                 <=> \E c \in Range(chains), r \in P : r.source = c.target /\ x = Linked(c, r)
    <2>1. x \in Range(AllExtensions(P, chains))
            <=> \E k \in 1 .. Len(chains) : x \in Range(Extensions(P, chains[k]))
      <3>1. \A k \in 1 .. Len(chains) : seqs[k] = Extensions(P, chains[k])
        OBVIOUS
      <3>2. DOMAIN seqs = 1 .. Len(chains)
        OBVIOUS
      <3> HIDE DEF seqs
      <3> QED
        BY <1>4, <1>5, <3>1, <3>2
    <2>2. \A k \in 1 .. Len(chains) :
             x \in Range(Extensions(P, chains[k]))
               <=> \E r \in P : r.source = chains[k].target /\ x = Linked(chains[k], r)
      BY <1>2
    <2>3. \A c : c \in Range(chains) <=> \E k \in 1 .. Len(chains) : c = chains[k]
      BY <1>1 DEF Range
    <2> QED
      BY <2>1, <2>2, <2>3
  <1>7. AllExtensions(P, chains) \in Seq(Range(AllExtensions(P, chains)))
    BY <1>4, <1>5, OwnRange
  <1> QED
    BY <1>6, <1>7

LEMMA ChainsAtAre ==
  ASSUME NEW C, NEW chains \in Seq(C), NEW positions
  PROVE  /\ ChainsAt(chains, positions) \in Seq(C)
         /\ Range(ChainsAt(chains, positions)) = {chains[i] : i \in positions \cap (1 .. Len(chains))}
  <1> DEFINE seqs == [i \in 1 .. Len(chains) |-> IF i \in positions THEN <<chains[i]>> ELSE <<>>]
  <1>1. Len(chains) \in Nat /\ \A i \in 1 .. Len(chains) : chains[i] \in C
    OBVIOUS
  <1>2. seqs \in Seq(Seq(C)) /\ DOMAIN seqs = 1 .. Len(chains)
    <2>1. \A i \in 1 .. Len(chains) : (IF i \in positions THEN <<chains[i]>> ELSE <<>>) \in Seq(C)
      BY <1>1
    <2> QED
      BY <1>1, <2>1
  <1>3. \A i \in 1 .. Len(chains) : Range(seqs[i]) = IF i \in positions THEN {chains[i]} ELSE {}
    <2> SUFFICES ASSUME NEW i \in 1 .. Len(chains)
                 PROVE  Range(seqs[i]) = IF i \in positions THEN {chains[i]} ELSE {}
      OBVIOUS
    <2>1. CASE i \in positions
      <3>1. seqs[i] = <<chains[i]>> /\ DOMAIN <<chains[i]>> = {1}
        BY <2>1
      <3> QED
        BY <2>1, <3>1 DEF Range
    <2>2. CASE i \notin positions
      <3>1. seqs[i] = <<>> /\ DOMAIN <<>> = {}
        BY <2>2
      <3> QED
        BY <2>2, <3>1 DEF Range
    <2> QED
      BY <2>1, <2>2
  <1>4. ChainsAt(chains, positions) = FlattenSeq(seqs)
    BY DEF ChainsAt
  <1> HIDE DEF seqs
  <1>5. /\ FlattenSeq(seqs) \in Seq(C)
        /\ Range(FlattenSeq(seqs)) = UNION {Range(seqs[k]) : k \in DOMAIN seqs}
    BY <1>2, Flattened
  <1>6. UNION {Range(seqs[k]) : k \in DOMAIN seqs} = {chains[i] : i \in positions \cap (1 .. Len(chains))}
    BY <1>2, <1>3
  <1> QED
    BY <1>4, <1>5, <1>6

\* What is queued leads to the objects that were not reached before, and is among the chains.
LEMMA QueuedAre ==
  ASSUME NEW C, NEW chains \in Seq(C), NEW reached
  PROVE  /\ Queued(chains, reached) \in Seq(C)
         /\ Range(Queued(chains, reached)) \subseteq Range(chains)
         /\ Targets(Range(Queued(chains, reached))) = Targets(Range(chains)) \ reached
  <1> DEFINE I == 1 .. Len(chains)
             first == {i \in I : /\ chains[i].target \notin reached
                                 /\ \A j \in 1 .. (i - 1) : chains[j].target # chains[i].target}
             queue == Queued(chains, reached)
  <1>1. DOMAIN chains = I /\ I \subseteq Nat
    OBVIOUS
  <1>2. queue = ChainsAt(chains, first)
    BY DEF Queued
  <1>3. queue \in Seq(C) /\ Range(queue) = {chains[i] : i \in first}
    <2>1. first \cap I = first
      OBVIOUS
    <2> HIDE DEF first
    <2> QED
      BY <1>2, <2>1, ChainsAtAre
  <1>4. ASSUME NEW t \in Targets(Range(chains)) \ reached
        PROVE  t \in Targets(Range(queue))
    <2> DEFINE S == {i \in I : chains[i].target = t}
    <2>1. S \subseteq Nat /\ S # {}
      BY <1>1, <1>4 DEF Targets, Range
    <2>2. PICK i \in S : \A j \in S : i <= j
      <3> HIDE DEF S
      <3> QED
        BY <2>1, LeastNumber
    <2>3. \A j \in 1 .. (i - 1) : j \in I /\ ~(i <= j)
      BY <2>2
    <2>4. i \in first
      BY <1>4, <2>2, <2>3
    <2> QED
      BY <1>3, <2>2, <2>4 DEF Targets
  <1>5. Range(queue) \subseteq Range(chains)
    BY <1>1, <1>3 DEF Range
  <1>6. Targets(Range(queue)) \subseteq Targets(Range(chains)) \ reached
    BY <1>3, <1>5 DEF Targets
  <1> HIDE DEF queue
  <1> QED
    BY <1>3, <1>4, <1>5, <1>6 DEF queue

LEMMA FoundAre ==
  ASSUME NEW C, NEW chains \in Seq(C), NEW s
  PROVE  /\ FoundAmong(chains, s) \in Seq(C)
         /\ Range(FoundAmong(chains, s)) = {c \in Range(chains) : Len(c.steps) >= 2 /\ c.target # s}
  <1> DEFINE I == 1 .. Len(chains)
             some == {i \in I : Len(chains[i].steps) >= 2 /\ chains[i].target # s}
  <1>1. DOMAIN chains = I
    OBVIOUS
  <1>2. FoundAmong(chains, s) = ChainsAt(chains, some)
    BY DEF FoundAmong
  <1>3. some \cap I = some
    OBVIOUS
  <1>4. {chains[i] : i \in some} = {c \in Range(chains) : Len(c.steps) >= 2 /\ c.target # s}
    BY <1>1 DEF Range
  <1> HIDE DEF some
  <1> QED
    BY <1>2, <1>3, <1>4, ChainsAtAre

-----------------------------------------------------------------------------
(* The search from one object finds all that chains lead to                *)

\* What a search knows at some depth: the chains it goes on from, which lead to what was
\* not reached before, and those it has found, to whatever is behind another object.
SearchOK(P, s, depth, st) ==
    LET W == Reach(PairsOf(P), s)
    IN  /\ \E C : st.queue \in Seq(C) /\ st.found \in Seq(C)
        /\ \A c \in Range(st.queue) : IsChain(P, s, depth, c)
        /\ \A c \in Range(st.found) : c.target # s /\ \E k \in 2 .. depth : IsChain(P, s, k, c)
        /\ s \in W[depth] /\ st.reached = W[depth]
        /\ Targets(Range(st.queue)) = IF depth = 0 THEN {s} ELSE W[depth] \ W[depth - 1]
        /\ Targets(Range(st.found)) = IF depth = 0 THEN {} ELSE After(PairsOf(P), W[depth - 1] \ {s}) \ {s}

LEMMA AfterUnion ==
  ASSUME NEW J, NEW S, NEW T
  PROVE  After(J, S \cup T) = After(J, S) \cup After(J, T)
  BY DEF After

LEMMA DeeperIs ==
  ASSUME NEW P, Premises(P), NEW s, NEW depth \in 0 .. (MaxDepth - 1), MaxDepth \in Nat,
         NEW st, SearchOK(P, s, depth, st)
  PROVE  SearchOK(P, s, depth + 1, Deeper(P, s, st))
  <1> DEFINE J == PairsOf(P)
             W == Reach(J, s)
             chains == AllExtensions(P, st.queue)
             queue == Queued(chains, st.reached)
             more == FoundAmong(chains, s)
             new == Deeper(P, s, st)
  <1>1. PICK C : st.queue \in Seq(C) /\ st.found \in Seq(C)
    BY DEF SearchOK
  <1> DEFINE D == C \cup Range(chains)
  <1>2. /\ chains \in Seq(Range(chains))
        /\ \A x : x \in Range(chains) <=> \E c \in Range(st.queue), r \in P : r.source = c.target /\ x = Linked(c, r)
    BY <1>1, ExtensionsAre, SMTT(30)
  <1>3. chains \in Seq(D) /\ st.found \in Seq(D)
    <2>1. Range(chains) \subseteq D /\ C \subseteq D
      OBVIOUS
    <2>2. chains \in Seq(Range(chains)) /\ st.found \in Seq(C)
      BY <1>1, <1>2
    <2> HIDE DEF D, chains
    <2> QED
      BY <2>1, <2>2
  <1>4. ASSUME NEW x \in Range(chains)
        PROVE  IsChain(P, s, depth + 1, x)
    <2>1. PICK c \in Range(st.queue), r \in P : r.source = c.target /\ x = Linked(c, r)
      BY <1>2
    <2>2. depth \in Nat /\ IsChain(P, s, depth, c)
      BY DEF SearchOK
    <2> QED
      BY <2>1, <2>2, LinkedChain
  <1>5. Targets(Range(chains)) = After(J, Targets(Range(st.queue)))
    <2>1. \A t : t \in Targets(Range(chains)) <=> \E c \in Range(st.queue), r \in P : r.source = c.target /\ t = r.target
      <3>1. ASSUME NEW c \in Range(st.queue), NEW r \in P, r.source = c.target
            PROVE  Linked(c, r).target = r.target
        BY DEF Linked
      <3> QED
        BY <1>2, <3>1 DEF Targets
    <2>2. \A t : t \in After(J, Targets(Range(st.queue)))
                   <=> \E c \in Range(st.queue), r \in P : r.source = c.target /\ t = r.target
      <3>1. \A t, T : t \in After(J, T) <=> \E q \in J : q[1] \in T /\ t = q[2]
        BY DEF After
      <3>2. \A q : q \in J <=> \E r \in P : q = <<r.source, r.target>>
        BY DEF PairsOf
      <3>3. \A t, T : t \in After(J, T) <=> \E r \in P : r.source \in T /\ t = r.target
        <4>1. \A t, T : (\E q \in J : q[1] \in T /\ t = q[2])
                           <=> \E r \in P : <<r.source, r.target>>[1] \in T /\ t = <<r.source, r.target>>[2]
          <5> HIDE DEF J
          <5> QED
            BY <3>2
        <4>2. \A a, b : <<a, b>>[1] = a /\ <<a, b>>[2] = b
          OBVIOUS
        <4> HIDE DEF J
        <4> QED
          BY <3>1, <4>1, <4>2
      <3> HIDE DEF J
      <3> QED
        BY <3>3 DEF Targets
    <2> QED
      BY <2>1, <2>2
  <1>6. /\ queue \in Seq(D) /\ Range(queue) \subseteq Range(chains)
        /\ Targets(Range(queue)) = Targets(Range(chains)) \ st.reached
    BY <1>3, QueuedAre
  <1>7. /\ more \in Seq(D)
        /\ Range(more) = {c \in Range(chains) : Len(c.steps) >= 2 /\ c.target # s}
    BY <1>3, FoundAre
  <1>8. /\ new.queue = queue /\ new.found = st.found \o more
        /\ new.reached = st.reached \cup Targets(Range(queue))
    <2>1. {queue[i].target : i \in DOMAIN queue} = Targets(Range(queue))
      BY DEF Targets, Range
    <2> QED
      BY <2>1 DEF Deeper
  <1>9. new.found \in Seq(D) /\ Range(new.found) = Range(st.found) \cup Range(more)
    BY <1>3, <1>7, <1>8, Concatenated
  <1>10. /\ depth + 1 \in 0 .. MaxDepth /\ depth + 1 # 0 /\ (depth + 1) - 1 = depth
         /\ depth \in 0 .. MaxDepth /\ depth \in Nat
    OBVIOUS
  <1>11. W[depth + 1] = W[depth] \cup After(J, W[depth])
    BY <1>10, ReachIs
  <1>12. depth # 0 => W[depth] = W[depth - 1] \cup After(J, W[depth - 1])
    BY <1>10, ReachIs
  <1>13. depth = 0 => W[depth] = {s}
    BY ReachIs
  <1> HIDE DEF chains, queue, more, new, D
  <1>14. /\ \A c \in Range(st.found) : c.target # s /\ \E k \in 2 .. depth : IsChain(P, s, k, c)
         /\ s \in W[depth] /\ st.reached = W[depth]
         /\ depth = 0 => Targets(Range(st.queue)) = {s} /\ Targets(Range(st.found)) = {}
         /\ depth # 0 => /\ Targets(Range(st.queue)) = W[depth] \ W[depth - 1]
                         /\ Targets(Range(st.found)) = After(J, W[depth - 1] \ {s}) \ {s}
    BY DEF SearchOK
  <1>15. depth # 0 => s \in W[depth - 1]
    <2> SUFFICES ASSUME depth # 0 PROVE s \in W[depth - 1]
      OBVIOUS
    <2>1. CASE depth = 1
      BY <2>1, ReachIs
    <2>2. CASE depth # 1
      <3>1. \A n \in Nat : n \in 0 .. MaxDepth => s \in W[n]
        <4> DEFINE N == {n \in Nat : n \in 0 .. MaxDepth => s \in W[n]}
        <4>1. 0 \in N
          BY ReachIs
        <4>2. ASSUME NEW n \in Nat, n \in N
              PROVE  n + 1 \in N
          <5>1. n + 1 \in 0 .. MaxDepth => n \in 0 .. MaxDepth /\ n + 1 # 0 /\ (n + 1) - 1 = n
            OBVIOUS
          <5>2. n + 1 \in 0 .. MaxDepth => W[n + 1] = W[n] \cup After(J, W[n])
            BY <5>1, ReachIs
          <5> QED
            BY <4>2, <5>1, <5>2
        <4> HIDE DEF N
        <4>3. Nat \subseteq N
          BY <4>1, <4>2, Induct
        <4> QED
          BY <4>3 DEF N
      <3> QED
        BY <3>1
    <2> QED
      BY <2>1, <2>2
  <1> HIDE DEF W, J
  <1>16. Targets(Range(queue)) = W[depth + 1] \ W[depth]
    <2>1. CASE depth = 0
      BY <1>5, <1>6, <1>11, <1>13, <1>14, <2>1
    <2>2. CASE depth # 0
      <3>1. After(J, W[depth]) = After(J, W[depth - 1]) \cup After(J, W[depth] \ W[depth - 1])
        <4>1. W[depth] = W[depth - 1] \cup (W[depth] \ W[depth - 1])
          BY <1>12, <2>2
        <4> QED
          BY <4>1, AfterUnion
      <3> QED
        BY <1>5, <1>6, <1>11, <1>12, <1>14, <2>2, <3>1
    <2> QED
      BY <2>1, <2>2
  <1>17. new.reached = W[depth + 1]
    BY <1>6, <1>8, <1>11, <1>14, <1>16
  <1>18. \A c \in Range(chains) : Len(c.steps) = depth + 1
    BY <1>4 DEF IsChain
  <1>19. Targets(Range(new.found)) = After(J, W[depth] \ {s}) \ {s}
    <2>1. Targets(Range(new.found)) = Targets(Range(st.found)) \cup Targets(Range(more))
      BY <1>9 DEF Targets
    <2>2. CASE depth = 0
      <3>1. Range(more) = {}
        <4>1. depth + 1 = 1 /\ ~(1 >= 2)
          BY <2>2
        <4> QED
          BY <1>7, <1>18, <4>1
      <3>2. W[depth] \ {s} = {}
        BY <1>13, <2>2
      <3>3. After(J, {}) = {} /\ Targets({}) = {}
        BY DEF After, Targets
      <3> QED
        BY <1>14, <2>1, <2>2, <3>1, <3>2, <3>3
    <2>3. CASE depth # 0
      <3>1. Range(more) = {c \in Range(chains) : c.target # s}
        <4>1. depth + 1 >= 2
          BY <1>10, <2>3
        <4> QED
          BY <1>7, <1>18, <4>1
      <3>2. Targets(Range(more)) = After(J, W[depth] \ W[depth - 1]) \ {s}
        BY <1>5, <1>14, <2>3, <3>1 DEF Targets
      <3>3. W[depth] \ {s} = (W[depth - 1] \ {s}) \cup (W[depth] \ W[depth - 1])
        BY <1>12, <1>15, <2>3
      <3>4. After(J, W[depth] \ {s}) = After(J, W[depth - 1] \ {s}) \cup After(J, W[depth] \ W[depth - 1])
        BY <3>3, AfterUnion
      <3> QED
        BY <1>14, <2>1, <2>3, <3>2, <3>4
    <2> QED
      BY <2>2, <2>3
  <1>20. \A c \in Range(new.found) : c.target # s /\ \E k \in 2 .. (depth + 1) : IsChain(P, s, k, c)
    <2>1. \A k \in 2 .. depth : k \in 2 .. (depth + 1)
      BY <1>10
    <2>2. ASSUME NEW c \in Range(more)
          PROVE  c.target # s /\ \E k \in 2 .. (depth + 1) : IsChain(P, s, k, c)
      <3>1. c \in Range(chains) /\ Len(c.steps) >= 2 /\ c.target # s
        BY <1>7
      <3>2. depth + 1 \in 2 .. (depth + 1)
        BY <1>10, <1>18, <3>1
      <3> QED
        BY <1>4, <3>1, <3>2
    <2> QED
      BY <1>9, <1>14, <2>1, <2>2
  <1>21. \A c \in Range(new.queue) : IsChain(P, s, depth + 1, c)
    BY <1>4, <1>6, <1>8
  <1>22. s \in W[depth + 1]
    BY <1>11, <1>14
  <1>23. \E S : new.queue \in Seq(S) /\ new.found \in Seq(S)
    BY <1>6, <1>8, <1>9
  <1>24. Targets(Range(new.queue)) = W[depth + 1] \ W[depth]
    BY <1>8, <1>16
  <1> QED
    BY <1>10, <1>17, <1>19, <1>20, <1>21, <1>22, <1>23, <1>24 DEF SearchOK, W, J, new

\* What is assumed of a rule: its depth is the bound, and it starts from some certainty.
RuleOK(rule) == rule.maxDepth = MaxDepth /\ rule.full \in Nat

LEMMA SearchIs ==
  ASSUME NEW P, Premises(P), NEW s \in Nat, NEW rule, RuleOK(rule), MaxDepth \in Nat
  PROVE  SearchOK(P, s, MaxDepth, Search(rule, P, s))
  <1> DEFINE start == [queue   |-> <<[target |-> s, steps |-> <<>>, confidence |-> rule.full]>>,
                       reached |-> {s}, found |-> <<>>]
             step(f, n) == IF n = 0 THEN start ELSE Deeper(P, s, f[n - 1])
             good(m, f) == f = [n \in 0 .. m |-> step(f, n)]
             N == {m \in Nat : \E f : good(m, f)}
             chosen == CHOOSE f : good(MaxDepth, f)
  <1>1. Search(rule, P, s) = chosen[MaxDepth]
    BY DEF Search, RuleOK
  <1>2. 0 \in N
    <2>1. good(0, [n \in 0 .. 0 |-> start])
      OBVIOUS
    <2> QED
      BY <2>1
  <1>3. ASSUME NEW m \in Nat, m \in N
        PROVE  m + 1 \in N
    <2>1. PICK f : good(m, f)
      BY <1>3
    <2> DEFINE g == [n \in 0 .. (m + 1) |-> IF n = m + 1 THEN step(f, n) ELSE f[n]]
    <2>2. \A n \in 0 .. (m + 1) : g[n] = step(g, n)
      <3>1. \A n \in 0 .. m : f[n] = step(f, n)
        BY <2>1
      <3>2. \A n \in 0 .. m : g[n] = f[n]
        OBVIOUS
      <3>3. \A n \in 0 .. (m + 1) : n # 0 => n - 1 \in 0 .. m
        OBVIOUS
      <3>4. \A n \in 0 .. (m + 1) : step(g, n) = step(f, n)
        BY <3>2, <3>3
      <3>5. \A n \in 0 .. (m + 1) : n = m + 1 \/ n \in 0 .. m
        OBVIOUS
      <3> HIDE DEF step
      <3> QED
        BY <3>1, <3>4, <3>5
    <2>3. good(m + 1, g)
      BY <2>2
    <2> HIDE DEF good, g
    <2> QED
      BY <2>3
  <1> HIDE DEF N
  <1>4. MaxDepth \in N
    BY <1>2, <1>3, Induct
  <1>5. good(MaxDepth, chosen)
    <2>1. \E f : good(MaxDepth, f)
      BY <1>4 DEF N
    <2> HIDE DEF good
    <2> QED
      BY <2>1
  <1> HIDE DEF chosen
  <1>6. \A n \in 0 .. MaxDepth : chosen[n] = step(chosen, n)
    BY <1>5
  <1>7. chosen[0] = start
    <2>1. 0 \in 0 .. MaxDepth /\ step(chosen, 0) = start
      OBVIOUS
    <2> QED
      BY <1>6, <2>1, Zenon
  <1>8. \A n \in 0 .. MaxDepth : n # 0 => chosen[n] = Deeper(P, s, chosen[n - 1])
    BY <1>6
  <1>9. SearchOK(P, s, 0, start)
    <2> DEFINE c == [target |-> s, steps |-> <<>>, confidence |-> rule.full]
    <2>1. start.queue = <<c>> /\ start.found = <<>> /\ start.reached = {s}
      OBVIOUS
    <2>2. <<c>> \in Seq({c}) /\ <<>> \in Seq({c})
      OBVIOUS
    <2>3. Range(<<c>>) = {c} /\ Range(<<>>) = {}
      BY DEF Range
    <2>4. c.target = s /\ c.steps = <<>> /\ c.confidence = rule.full
      OBVIOUS
    <2> HIDE DEF start, c
    <2>5. IsChain(P, s, 0, c)
      BY <2>4 DEF IsChain, RuleOK
    <2>6. Targets({c}) = {s} /\ Targets({}) = {}
      BY <2>4 DEF Targets
    <2>7. Reach(PairsOf(P), s)[0] = {s}
      BY ReachIs
    <2> QED
      BY <2>1, <2>2, <2>3, <2>5, <2>6, <2>7 DEF SearchOK
  <1> HIDE DEF start, step, good
  <1> DEFINE K == {n \in Nat : n \in 0 .. MaxDepth => SearchOK(P, s, n, chosen[n])}
  <1>10. 0 \in K
    BY <1>7, <1>9
  <1>11. ASSUME NEW n \in Nat, n \in K, n + 1 \in 0 .. MaxDepth
         PROVE  SearchOK(P, s, n + 1, chosen[n + 1])
    <2>1. n \in 0 .. (MaxDepth - 1) /\ n \in 0 .. MaxDepth /\ n + 1 # 0 /\ (n + 1) - 1 = n
      BY <1>11
    <2>2. SearchOK(P, s, n, chosen[n])
      BY <1>11, <2>1
    <2>3. SearchOK(P, s, n + 1, Deeper(P, s, chosen[n]))
      BY <2>1, <2>2, DeeperIs
    <2> QED
      BY <1>8, <1>11, <2>1, <2>3
  <1>12. \A n \in Nat : n \in K => n + 1 \in K
    BY <1>11
  <1> HIDE DEF K
  <1>13. MaxDepth \in K
    BY <1>10, <1>12, Induct
  <1>14. MaxDepth \in 0 .. MaxDepth
    OBVIOUS
  <1> QED
    BY <1>1, <1>13, <1>14 DEF K

-----------------------------------------------------------------------------
(* What one rule finds                                                     *)

\* The pairs that chains of two to MaxDepth links join without coming back to their start.
Closure(J) ==
    {p \in Nat \X Nat : p[2] \in After(J, Reach(J, p[1])[MaxDepth - 1] \ {p[1]}) \ {p[1]}}

\* A derived relation, and the chain of relations of P that explains it.
ItemOK(P, rule, x) ==
    /\ x.type = rule.conclusion /\ x.source \in Nat /\ x.source # x.target
    /\ \E k \in 2 .. MaxDepth : IsChain(P, x.source, k, x)

LEMMA FromObjectIs ==
  ASSUME NEW P, Premises(P), NEW s \in Nat, NEW rule, RuleOK(rule), MaxDepth \in Nat \ {0}
  PROVE  /\ FromObject(rule, P, s) \in Seq(Range(FromObject(rule, P, s)))
         /\ \A x \in Range(FromObject(rule, P, s)) : ItemOK(P, rule, x) /\ x.source = s
         /\ PairsOf(Range(FromObject(rule, P, s))) = {p \in Closure(PairsOf(P)) : p[1] = s}
  <1> DEFINE found == Search(rule, P, s).found
             items == FromObject(rule, P, s)
  <1>1. /\ \E C : found \in Seq(C)
        /\ \A c \in Range(found) : c.target # s /\ \E k \in 2 .. MaxDepth : IsChain(P, s, k, c)
        /\ Targets(Range(found)) = After(PairsOf(P), Reach(PairsOf(P), s)[MaxDepth - 1] \ {s}) \ {s}
    <2>1. SearchOK(P, s, MaxDepth, Search(rule, P, s)) /\ MaxDepth # 0
      BY SearchIs
    <2> QED
      BY <2>1 DEF SearchOK
  <1>2. items = [i \in 1 .. Len(found) |-> Conclusion(rule, s, found[i])]
    BY DEF FromObject
  <1> HIDE DEF found, items
  <1>3. PICK C : found \in Seq(C)
    BY <1>1
  <1>4. Len(found) \in Nat /\ DOMAIN found = 1 .. Len(found)
    BY <1>3
  <1>5. \A x : x \in Range(items) <=> \E c \in Range(found) : x = Conclusion(rule, s, c)
    BY <1>2, <1>4 DEF Range
  <1>6. items \in Seq(Range(items))
    <2>1. \A i \in 1 .. Len(found) : items[i] \in Range(items)
      BY <1>2 DEF Range
    <2> QED
      BY <1>2, <1>4, <2>1
  <1>7. \A c : LET x == Conclusion(rule, s, c)
               IN  /\ x.type = rule.conclusion /\ x.source = s /\ x.target = c.target
                   /\ x.steps = c.steps /\ x.confidence = c.confidence
    BY DEF Conclusion
  <1>8. ASSUME NEW x \in Range(items)
        PROVE  ItemOK(P, rule, x) /\ x.source = s
    <2>1. PICK c \in Range(found) : x = Conclusion(rule, s, c)
      BY <1>5
    <2>2. /\ x.type = rule.conclusion /\ x.source = s /\ x.target = c.target
          /\ x.steps = c.steps /\ x.confidence = c.confidence
      BY <1>7, <2>1
    <2>3. PICK k \in 2 .. MaxDepth : IsChain(P, s, k, c)
      BY <1>1
    <2>4. IsChain(P, s, k, x)
      BY <2>2, <2>3 DEF IsChain
    <2> QED
      BY <1>1, <2>2, <2>4 DEF ItemOK
  <1>9. PairsOf(Range(items)) = {<<s, t>> : t \in Targets(Range(found))}
    BY <1>5, <1>7 DEF PairsOf, Targets
  <1>10. \A t \in Targets(Range(found)) : t \in Nat
    BY <1>1 DEF Targets, IsChain
  <1>11. \A p : p \in {<<s, t>> : t \in Targets(Range(found))} <=> p \in Closure(PairsOf(P)) /\ p[1] = s
    <2> DEFINE T == Targets(Range(found))
    <2>1. \A p \in Nat \X Nat : p[1] = s => (p \in Closure(PairsOf(P)) <=> p[2] \in T)
      BY <1>1 DEF Closure
    <2>2. T \subseteq Nat /\ Closure(PairsOf(P)) \subseteq Nat \X Nat
      BY <1>10 DEF Closure
    <2> HIDE DEF T
    <2>3. \A t \in T : <<s, t>> \in Nat \X Nat /\ <<s, t>>[1] = s /\ <<s, t>>[2] = t
      BY <2>2
    <2>4. \A p \in Nat \X Nat : p = <<p[1], p[2]>>
      OBVIOUS
    <2>5. \A p : p \in {<<s, t>> : t \in T} <=> \E t \in T : p = <<s, t>>
      OBVIOUS
    <2>6. ASSUME NEW p, p \in Closure(PairsOf(P)), p[1] = s
          PROVE  \E t \in T : p = <<s, t>>
      BY <2>1, <2>2, <2>4, <2>6
    <2>7. ASSUME NEW t \in T
          PROVE  <<s, t>> \in Closure(PairsOf(P)) /\ <<s, t>>[1] = s
      BY <2>1, <2>3
    <2> QED
      BY <2>5, <2>6, <2>7 DEF T
  <1> QED
    BY <1>6, <1>8, <1>9, <1>11 DEF items

\* Only objects that relations start from reach others.
LEMMA ClosureFrom ==
  ASSUME NEW P, MaxDepth \in Nat \ {0}, NEW p \in Closure(PairsOf(P))
  PROVE  \E r \in P : r.source = p[1]
  <1> DEFINE J == PairsOf(P)
             s == p[1]
             W == Reach(J, s)
  <1> SUFFICES ASSUME \A r \in P : r.source # s PROVE FALSE
    OBVIOUS
  <1>1. After(J, {s}) = {}
    BY DEF After, PairsOf
  <1> DEFINE N == {n \in Nat : n \in 0 .. MaxDepth => W[n] = {s}}
  <1>2. 0 \in N
    BY ReachIs
  <1>3. ASSUME NEW n \in Nat, n \in N
        PROVE  n + 1 \in N
    <2>1. n + 1 \in 0 .. MaxDepth => n \in 0 .. MaxDepth /\ n + 1 # 0 /\ (n + 1) - 1 = n
      OBVIOUS
    <2>2. n + 1 \in 0 .. MaxDepth => W[n + 1] = W[n] \cup After(J, W[n])
      BY <2>1, ReachIs
    <2> QED
      BY <1>1, <1>3, <2>1, <2>2
  <1> HIDE DEF N
  <1>4. MaxDepth - 1 \in Nat /\ MaxDepth - 1 \in 0 .. MaxDepth /\ Nat \subseteq N
    BY <1>2, <1>3, Induct
  <1>5. W[MaxDepth - 1] \ {s} = {}
    BY <1>4 DEF N
  <1>6. p[2] \in After(J, W[MaxDepth - 1] \ {s})
    BY DEF Closure
  <1> QED
    BY <1>5, <1>6 DEF After

LEMMA AppliedIs ==
  ASSUME NEW facts, NEW rule, RuleOK(rule), MaxDepth \in Nat \ {0},
         NEW P, P = {f \in facts : f.type = rule.premise}, Premises(P)
  PROVE  LET items == ApplyTransitive(rule, facts)
         IN  /\ items \in Seq(Range(items))
             /\ \A x \in Range(items) : ItemOK(P, rule, x)
             /\ PairsOf(Range(items)) = Closure(PairsOf(P))
  <1> DEFINE S == {f.source : f \in P}
             sources == InOrder(S, LAMBDA n : n)
             seqs == [i \in 1 .. Len(sources) |-> FromObject(rule, P, sources[i])]
             items == ApplyTransitive(rule, facts)
  <1>1. items = FlattenSeq(seqs)
    BY DEF ApplyTransitive
  <1>2. IsFiniteSet(S) /\ S \subseteq Nat
    <2> DEFINE f == [r \in P |-> r.source]
    <2>1. f \in Surjection(P, S)
      BY DEF Surjection
    <2>2. IsFiniteSet(S)
      <3> HIDE DEF f, S
      <3> QED
        BY <2>1, FS_Surjection DEF Premises
    <2> QED
      BY <2>2 DEF Premises
  <1>3. sources \in Seq(S) /\ Range(sources) = S
    <2> HIDE DEF S
    <2> QED
      BY <1>2, Ordered
  <1> HIDE DEF sources
  <1>4. /\ Len(sources) \in Nat /\ DOMAIN sources = 1 .. Len(sources)
        /\ \A i \in 1 .. Len(sources) : sources[i] \in S /\ sources[i] \in Nat
    <2> HIDE DEF S
    <2>1. \A T, t : t \in Seq(T) => Len(t) \in Nat /\ DOMAIN t = 1 .. Len(t) /\ \A i \in 1 .. Len(t) : t[i] \in T
      OBVIOUS
    <2>2. \A i \in 1 .. Len(sources) : sources[i] \in S
      BY <1>3, <2>1
    <2> QED
      BY <1>2, <1>3, <2>1, <2>2
  <1>5. \A s \in S : \E i \in 1 .. Len(sources) : sources[i] = s
    BY <1>3, <1>4 DEF Range
  <1> DEFINE X == UNION {Range(FromObject(rule, P, s)) : s \in S}
  <1>6. \A s \in S : /\ FromObject(rule, P, s) \in Seq(X)
                     /\ \A x \in Range(FromObject(rule, P, s)) : ItemOK(P, rule, x) /\ x.source = s
                     /\ PairsOf(Range(FromObject(rule, P, s))) = {p \in Closure(PairsOf(P)) : p[1] = s}
    <2> SUFFICES ASSUME NEW s \in S
                 PROVE  /\ FromObject(rule, P, s) \in Seq(X)
                        /\ \A x \in Range(FromObject(rule, P, s)) : ItemOK(P, rule, x) /\ x.source = s
                        /\ PairsOf(Range(FromObject(rule, P, s))) = {p \in Closure(PairsOf(P)) : p[1] = s}
      OBVIOUS
    <2>1. s \in Nat
      BY <1>2
    <2>2. Range(FromObject(rule, P, s)) \subseteq X
      OBVIOUS
    <2> HIDE DEF X, S
    <2>3. /\ FromObject(rule, P, s) \in Seq(Range(FromObject(rule, P, s)))
          /\ \A x \in Range(FromObject(rule, P, s)) : ItemOK(P, rule, x) /\ x.source = s
          /\ PairsOf(Range(FromObject(rule, P, s))) = {p \in Closure(PairsOf(P)) : p[1] = s}
      BY <2>1, FromObjectIs
    <2>4. \A S1, S2, t : t \in Seq(S1) /\ S1 \subseteq S2 => t \in Seq(S2)
      OBVIOUS
    <2>5. FromObject(rule, P, s) \in Seq(X)
      BY <2>2, <2>3, <2>4
    <2> QED
      BY <2>3, <2>5
  <1> HIDE DEF X
  <1>7. seqs \in Seq(Seq(X)) /\ DOMAIN seqs = 1 .. Len(sources)
    BY <1>4, <1>6
  <1>8. \A i \in 1 .. Len(sources) : seqs[i] = FromObject(rule, P, sources[i])
    OBVIOUS
  <1> HIDE DEF seqs, S, items
  <1>9. items \in Seq(X) /\ Range(items) = UNION {Range(seqs[k]) : k \in DOMAIN seqs}
    BY <1>1, <1>7, Flattened
  <1>10. \A x : x \in Range(items) <=> \E s \in S : x \in Range(FromObject(rule, P, s))
    <2>1. \A x : x \in Range(items) <=> \E i \in 1 .. Len(sources) : x \in Range(seqs[i])
      BY <1>7, <1>9
    <2>2. \A x : x \in Range(items) <=> \E i \in 1 .. Len(sources) : x \in Range(FromObject(rule, P, sources[i]))
      BY <1>8, <2>1
    <2> QED
      BY <1>4, <1>5, <2>2
  <1>11. items \in Seq(Range(items))
    BY <1>9, OwnRange
  <1>12. PairsOf(Range(items)) = Closure(PairsOf(P))
    <2>1. \A p : p \in PairsOf(Range(items)) <=> \E s \in S : p \in PairsOf(Range(FromObject(rule, P, s)))
      BY <1>10 DEF PairsOf
    <2>2. \A p : p \in PairsOf(Range(items)) <=> \E s \in S : p \in Closure(PairsOf(P)) /\ p[1] = s
      <3>1. \A s \in S : \A p : p \in PairsOf(Range(FromObject(rule, P, s))) <=> p \in Closure(PairsOf(P)) /\ p[1] = s
        BY <1>6
      <3> QED
        BY <2>1, <3>1
    <2>3. \A p \in Closure(PairsOf(P)) : p[1] \in S
      BY ClosureFrom DEF S
    <2> QED
      BY <2>2, <2>3
  <1> QED
    BY <1>6, <1>10, <1>11, <1>12 DEF items

\* More relations join more pairs.
LEMMA ClosureGrows ==
  ASSUME NEW J, NEW K, J \subseteq K, MaxDepth \in Nat \ {0}
  PROVE  Closure(J) \subseteq Closure(K)
  <1>1. \A S, T : S \subseteq T => After(J, S) \subseteq After(K, T)
    BY DEF After
  <1>2. ASSUME NEW s
        PROVE  Reach(J, s)[MaxDepth - 1] \subseteq Reach(K, s)[MaxDepth - 1]
    <2> DEFINE V == Reach(J, s)
               W == Reach(K, s)
               N == {n \in Nat : n \in 0 .. MaxDepth => V[n] \subseteq W[n]}
    <2>1. 0 \in N
      BY ReachIs
    <2>2. ASSUME NEW n \in Nat, n \in N
          PROVE  n + 1 \in N
      <3>1. n + 1 \in 0 .. MaxDepth => n \in 0 .. MaxDepth /\ n + 1 # 0 /\ (n + 1) - 1 = n
        OBVIOUS
      <3>2. n + 1 \in 0 .. MaxDepth => V[n + 1] = V[n] \cup After(J, V[n]) /\ W[n + 1] = W[n] \cup After(K, W[n])
        BY <3>1, ReachIs
      <3>3. n + 1 \in 0 .. MaxDepth => After(J, V[n]) \subseteq After(K, W[n])
        BY <1>1, <2>2, <3>1
      <3> QED
        BY <2>2, <3>1, <3>2, <3>3
    <2> HIDE DEF N
    <2>3. MaxDepth - 1 \in Nat /\ MaxDepth - 1 \in 0 .. MaxDepth /\ Nat \subseteq N
      BY <2>1, <2>2, Induct
    <2> QED
      BY <2>3 DEF N
  <1>3. ASSUME NEW p \in Nat \X Nat
        PROVE  After(J, Reach(J, p[1])[MaxDepth - 1] \ {p[1]}) \subseteq After(K, Reach(K, p[1])[MaxDepth - 1] \ {p[1]})
    <2>1. Reach(J, p[1])[MaxDepth - 1] \ {p[1]} \subseteq Reach(K, p[1])[MaxDepth - 1] \ {p[1]}
      BY <1>2
    <2> QED
      BY <1>1, <2>1
  <1> QED
    BY <1>3 DEF Closure

-----------------------------------------------------------------------------
(* What is kept of what is found                                           *)

KeysOf(S) == {Key(r) : r \in S}

\* A graph has one relation of a type from an object to another.
GraphIsOK(facts) ==
    /\ IsFiniteSet(facts)
    /\ \A f \in facts : f.source \in Nat /\ f.target \in Nat /\ f.confidence \in Nat
    /\ \A f, g \in facts : Key(f) = Key(g) => f = g

\* The facts are what is explicit and what is derived.
StateOK(known, st) ==
    /\ st = [derived |-> st.derived, facts |-> st.facts, created |-> st.created]
    /\ st.created \in BOOLEAN
    /\ GraphIsOK(st.facts)
    /\ KeysOf(st.derived) \cap known = {}
    /\ KeysOf(st.facts) = known \cup KeysOf(st.derived)

\* From one state to another, the items of X that are not explicit have become derived
\* facts, and nothing else has.
KeptIn(known, st, new, X) ==
    /\ StateOK(known, new)
    /\ new = st \/ new.created
    /\ \A d \in new.derived : d \in st.derived \/ d \in X
    /\ KeysOf(new.derived) = KeysOf(st.derived) \cup (KeysOf(X) \ known)
    /\ \A u : (\A x \in X : x.type # u) => {f \in new.facts : f.type = u} = {f \in st.facts : f.type = u}

LEMMA KeptMore ==
  ASSUME NEW known, NEW st, NEW mid, NEW X, KeptIn(known, st, mid, X),
         NEW x, x.source \in Nat, x.target \in Nat, x.confidence \in Nat
  PROVE  KeptIn(known, st, KeepFound(known, mid, x), X \cup {x})
  <1> DEFINE new == KeepFound(known, mid, x)
             derived == {d \in mid.derived : Key(d) # Key(x)} \cup {x}
             rest == {f \in mid.facts : Key(f) # Key(x)}
             facts == rest \cup {Fact(x)}
  <1>1. KeysOf(X \cup {x}) = KeysOf(X) \cup {Key(x)}
    BY DEF KeysOf
  <1>2. CASE Key(x) \in known
    <2>1. new = mid
      BY <1>2 DEF KeepFound
    <2>2. KeysOf(X \cup {x}) \ known = KeysOf(X) \ known
      BY <1>1, <1>2
    <2> QED
      BY <2>1, <2>2 DEF KeptIn
  <1>3. CASE \E d \in mid.derived : Key(d) = Key(x) /\ d.confidence >= x.confidence
    <2>1. new = mid
      BY <1>3 DEF KeepFound
    <2>2. Key(x) \in KeysOf(mid.derived)
      BY <1>3 DEF KeysOf
    <2>3. Key(x) \notin known
      BY <2>2 DEF KeptIn, StateOK
    <2> HIDE DEF new
    <2>4. KeysOf(mid.derived) = KeysOf(st.derived) \cup (KeysOf(X \cup {x}) \ known)
      BY <1>1, <2>2, <2>3 DEF KeptIn
    <2> QED
      BY <2>1, <2>4 DEF KeptIn, new
  <1>4. CASE /\ Key(x) \notin known
             /\ ~\E d \in mid.derived : Key(d) = Key(x) /\ d.confidence >= x.confidence
    <2>1. new = [derived |-> derived, facts |-> facts, created |-> TRUE]
      BY <1>4 DEF KeepFound
    <2>2. new.derived = derived /\ new.facts = facts /\ new.created = TRUE
      BY <2>1
    <2>3. /\ Key(Fact(x)) = Key(x) /\ Fact(x).type = x.type
          /\ Fact(x).source = x.source /\ Fact(x).target = x.target /\ Fact(x).confidence = x.confidence
      BY DEF Key, Fact
    <2>4. KeysOf(derived) = KeysOf(mid.derived) \cup {Key(x)}
      BY DEF KeysOf
    <2>5. KeysOf(facts) = KeysOf(mid.facts) \cup {Key(x)}
      BY <2>3 DEF KeysOf
    <2>6. GraphIsOK(facts)
      <3>1. IsFiniteSet(facts)
        <4>1. rest \subseteq mid.facts /\ IsFiniteSet(mid.facts)
          BY DEF KeptIn, StateOK, GraphIsOK
        <4> HIDE DEF rest
        <4>2. IsFiniteSet(rest)
          BY <4>1, FS_Subset
        <4> QED
          BY <4>2, FS_AddElement
      <3>2. \A f \in rest : /\ f.source \in Nat /\ f.target \in Nat /\ f.confidence \in Nat
                            /\ Key(f) # Key(x)
        BY DEF KeptIn, StateOK, GraphIsOK
      <3>3. \A f, g \in rest : Key(f) = Key(g) => f = g
        BY DEF KeptIn, StateOK, GraphIsOK
      <3> HIDE DEF rest
      <3>4. \A f \in facts : f.source \in Nat /\ f.target \in Nat /\ f.confidence \in Nat
        BY <2>3, <3>2
      <3>5. \A f, g \in facts : Key(f) = Key(g) => f = g
        BY <2>3, <3>2, <3>3
      <3> QED
        BY <3>1, <3>4, <3>5 DEF GraphIsOK
    <2>7. \A u : x.type # u => {f \in facts : f.type = u} = {f \in mid.facts : f.type = u}
      <3>1. \A f : Key(f) = Key(x) => f.type = x.type
        BY DEF Key
      <3> QED
        BY <2>3, <3>1
    <2>8. \A d \in derived : d \in st.derived \/ d \in X \cup {x}
      BY DEF KeptIn
    <2> HIDE DEF derived, facts, rest, new
    <2>9. StateOK(known, new)
      <3>1. KeysOf(derived) \cap known = {} /\ KeysOf(facts) = known \cup KeysOf(derived)
        BY <1>4, <2>4, <2>5 DEF KeptIn, StateOK
      <3> QED
        BY <2>1, <2>2, <2>6, <3>1 DEF StateOK
    <2>10. KeysOf(derived) = KeysOf(st.derived) \cup (KeysOf(X \cup {x}) \ known)
      BY <1>1, <1>4, <2>4, <2>5 DEF KeptIn
    <2>11. \A u : (\A y \in X \cup {x} : y.type # u)
                     => {f \in facts : f.type = u} = {f \in st.facts : f.type = u}
      BY <2>7 DEF KeptIn
    <2> QED
      BY <2>2, <2>8, <2>9, <2>10, <2>11 DEF KeptIn, new
  <1> QED
    BY <1>2, <1>3, <1>4

LEMMA KeepAllIs ==
  ASSUME NEW known, NEW st, StateOK(known, st), NEW C, NEW items \in Seq(C),
         \A x \in C : x.source \in Nat /\ x.target \in Nat /\ x.confidence \in Nat
  PROVE  KeptIn(known, st, KeepAll(known, st, items), Range(items))
  <1> DEFINE size == Len(items)
             step(f, n) == IF n = 0 THEN st ELSE KeepFound(known, f[n - 1], items[n])
             good(m, f) == f = [n \in 0 .. m |-> step(f, n)]
             N == {m \in Nat : \E f : good(m, f)}
             chosen == CHOOSE f : good(size, f)
  <1>1. KeepAll(known, st, items) = chosen[size]
    BY DEF KeepAll
  <1>2. 0 \in N
    <2>1. good(0, [n \in 0 .. 0 |-> st])
      OBVIOUS
    <2> QED
      BY <2>1
  <1>3. ASSUME NEW m \in Nat, m \in N
        PROVE  m + 1 \in N
    <2>1. PICK f : good(m, f)
      BY <1>3
    <2> DEFINE g == [n \in 0 .. (m + 1) |-> IF n = m + 1 THEN step(f, n) ELSE f[n]]
    <2>2. \A n \in 0 .. (m + 1) : g[n] = step(g, n)
      <3>1. \A n \in 0 .. m : f[n] = step(f, n)
        BY <2>1
      <3>2. \A n \in 0 .. m : g[n] = f[n]
        OBVIOUS
      <3>3. \A n \in 0 .. (m + 1) : n # 0 => n - 1 \in 0 .. m
        OBVIOUS
      <3>4. \A n \in 0 .. (m + 1) : step(g, n) = step(f, n)
        BY <3>2, <3>3
      <3>5. \A n \in 0 .. (m + 1) : n = m + 1 \/ n \in 0 .. m
        OBVIOUS
      <3> HIDE DEF step
      <3> QED
        BY <3>1, <3>4, <3>5
    <2>3. good(m + 1, g)
      BY <2>2
    <2> HIDE DEF good, g
    <2> QED
      BY <2>3
  <1> HIDE DEF N
  <1>4. size \in Nat /\ size \in N
    <2>1. size \in Nat
      OBVIOUS
    <2> HIDE DEF size
    <2> QED
      BY <1>2, <1>3, <2>1, Induct
  <1>5. good(size, chosen)
    <2>1. \E f : good(size, f)
      BY <1>4 DEF N
    <2> HIDE DEF good, size
    <2> QED
      BY <2>1
  <1> HIDE DEF chosen, size
  <1>6. \A n \in 0 .. size : chosen[n] = step(chosen, n)
    BY <1>5
  <1>7. chosen[0] = st
    <2>1. 0 \in 0 .. size /\ step(chosen, 0) = st
      BY <1>4
    <2> QED
      BY <1>6, <2>1, Zenon
  <1>8. \A n \in 0 .. size : n # 0 => chosen[n] = KeepFound(known, chosen[n - 1], items[n])
    BY <1>6
  <1> HIDE DEF step, good
  <1> DEFINE before(n) == {items[i] : i \in 1 .. n}
             K == {n \in Nat : n \in 0 .. size => KeptIn(known, st, chosen[n], before(n))}
  <1>9. 0 \in K
    <2>1. before(0) = {}
      OBVIOUS
    <2>2. KeptIn(known, st, st, {})
      BY DEF KeptIn, KeysOf
    <2> HIDE DEF before
    <2> QED
      BY <1>7, <2>1, <2>2
  <1>10. ASSUME NEW n \in Nat, n \in K, n + 1 \in 0 .. size
         PROVE  KeptIn(known, st, chosen[n + 1], before(n + 1))
    <2>1. n \in 0 .. size /\ n + 1 # 0 /\ (n + 1) - 1 = n
      BY <1>4, <1>10
    <2>2. items[n + 1] \in C
      BY <1>4, <1>10 DEF size
    <2>3. before(n + 1) = before(n) \cup {items[n + 1]}
      <3>1. 1 .. (n + 1) = (1 .. n) \cup {n + 1}
        OBVIOUS
      <3> QED
        BY <3>1
    <2>4. KeptIn(known, st, chosen[n], before(n))
      BY <1>10, <2>1
    <2> HIDE DEF before
    <2>5. KeptIn(known, st, KeepFound(known, chosen[n], items[n + 1]), before(n) \cup {items[n + 1]})
      BY <2>2, <2>4, KeptMore
    <2> QED
      BY <1>8, <1>10, <2>1, <2>3, <2>5
  <1>11. ASSUME NEW n \in Nat, n \in K
         PROVE  n + 1 \in K
    <2>1. n + 1 \in 0 .. size => KeptIn(known, st, chosen[n + 1], before(n + 1))
      BY <1>10, <1>11
    <2> HIDE DEF before
    <2> QED
      BY <2>1
  <1> HIDE DEF K
  <1>12. size \in K /\ size \in 0 .. size
    BY <1>4, <1>9, <1>11, Induct
  <1>13. before(size) = Range(items)
    BY DEF size, Range
  <1> HIDE DEF before
  <1>14. KeptIn(known, st, chosen[size], before(size))
    BY <1>12 DEF K
  <1> QED
    BY <1>1, <1>13, <1>14

\* The pairs of a type among some keys, and the derived keys after a rule.
PairsAt(keys, type) == {<<k[1], k[3]>> : k \in {h \in keys : h[2] = type}}

Concluded(rule, J) == {<<p[1], rule.conclusion, p[2]>> : p \in Closure(J)}

Applied(known, rule, keys) ==
    keys \cup (Concluded(rule, PairsAt(known \cup keys, rule.premise)) \ known)

\* The pairs of the facts of a type.
LEMMA TypedPairs ==
  ASSUME NEW known, NEW st, StateOK(known, st), NEW type, NEW P, P = {f \in st.facts : f.type = type}
  PROVE  PairsOf(P) = PairsAt(known \cup KeysOf(st.derived), type)
  <1>1. KeysOf(st.facts) = known \cup KeysOf(st.derived)
    BY DEF StateOK
  <1>2. PairsAt(KeysOf(st.facts), type) = PairsOf(P)
    <2>1. \A k : k \in KeysOf(st.facts) /\ k[2] = type
                   <=> \E r \in P : k = <<r.source, r.type, r.target>>
      BY DEF KeysOf, Key
    <2>2. \A q : q \in PairsAt(KeysOf(st.facts), type)
                   <=> \E k : k \in KeysOf(st.facts) /\ k[2] = type /\ q = <<k[1], k[3]>>
      BY DEF PairsAt
    <2>3. ASSUME NEW r \in P, NEW q
          PROVE  (\E k : k = <<r.source, r.type, r.target>> /\ q = <<k[1], k[3]>>) <=> q = <<r.source, r.target>>
      <3> DEFINE h == <<r.source, r.type, r.target>>
      <3>1. h[1] = r.source /\ h[3] = r.target
        OBVIOUS
      <3> HIDE DEF h
      <3>2. (\E k : k = h /\ q = <<k[1], k[3]>>) <=> q = <<h[1], h[3]>>
        BY Zenon
      <3> QED
        BY <3>1, <3>2, Zenon DEF h
    <2>4. \A q : q \in PairsAt(KeysOf(st.facts), type) <=> \E r \in P : q = <<r.source, r.target>>
      <3>1. \A q : q \in PairsAt(KeysOf(st.facts), type)
                     <=> \E r \in P : \E k : k = <<r.source, r.type, r.target>> /\ q = <<k[1], k[3]>>
        BY <2>1, <2>2
      <3> QED
        BY <2>3, <3>1
    <2> QED
      BY <2>4 DEF PairsOf
  <1> QED
    BY <1>1, <1>2

\* What a rule does to a state, where P are the relations that it starts from.
RuleStep(known, rule, st, P, new) ==
    /\ StateOK(known, new)
    /\ new = st \/ new.created
    /\ KeysOf(new.derived) = Applied(known, rule, KeysOf(st.derived))
    /\ \A d \in new.derived : d \in st.derived \/ ItemOK(P, rule, d)
    /\ \A u : u # rule.conclusion => {f \in new.facts : f.type = u} = {f \in st.facts : f.type = u}

LEMMA RuleIs ==
  ASSUME NEW known, NEW st, StateOK(known, st), NEW rule, RuleOK(rule), MaxDepth \in Nat \ {0},
         NEW P, P = {f \in st.facts : f.type = rule.premise}
  PROVE  RuleStep(known, rule, st, P, KeepAll(known, st, ApplyTransitive(rule, st.facts)))
  <1> DEFINE items == ApplyTransitive(rule, st.facts)
             X == Range(items)
             new == KeepAll(known, st, items)
  <1>1. Premises(P)
    <2>1. IsFiniteSet(P)
      <3>1. IsFiniteSet(st.facts) /\ P \subseteq st.facts
        BY DEF StateOK, GraphIsOK
      <3> QED
        BY <3>1, FS_Subset
    <2>2. \A r, q \in P : r.source = q.source /\ r.target = q.target => Key(r) = Key(q)
      BY DEF Key
    <2> QED
      BY <2>1, <2>2 DEF StateOK, GraphIsOK, Premises
  <1>2. /\ items \in Seq(X)
        /\ \A x \in X : ItemOK(P, rule, x)
        /\ PairsOf(X) = Closure(PairsOf(P))
    BY <1>1, AppliedIs, ZenonT(40)
  <1> HIDE DEF items
  <1>3. \A x \in X : x.source \in Nat /\ x.target \in Nat /\ x.confidence \in Nat
    BY <1>2 DEF ItemOK, IsChain
  <1>4. KeptIn(known, st, new, X)
    <2> HIDE DEF X
    <2> QED
      BY <1>2, <1>3, KeepAllIs DEF X
  <1>5. PairsOf(P) = PairsAt(known \cup KeysOf(st.derived), rule.premise)
    BY TypedPairs
  <1>6. KeysOf(X) = Concluded(rule, PairsOf(P))
    <2>1. \A x \in X : Key(x) = <<x.source, rule.conclusion, x.target>>
      BY <1>2 DEF ItemOK, Key
    <2>2. KeysOf(X) = {<<p[1], rule.conclusion, p[2]>> : p \in PairsOf(X)}
      <3>1. \A q : q \in KeysOf(X) <=> \E x \in X : q = <<x.source, rule.conclusion, x.target>>
        BY <2>1 DEF KeysOf
      <3>2. \A q : q \in {<<p[1], rule.conclusion, p[2]>> : p \in PairsOf(X)}
                     <=> \E x \in X : \E p : p = <<x.source, x.target>> /\ q = <<p[1], rule.conclusion, p[2]>>
        BY DEF PairsOf
      <3>3. \A x \in X : \A q : (\E p : p = <<x.source, x.target>> /\ q = <<p[1], rule.conclusion, p[2]>>)
                              <=> q = <<x.source, rule.conclusion, x.target>>
        <4>1. \A a, b : <<a, b>>[1] = a /\ <<a, b>>[2] = b
          OBVIOUS
        <4>2. \A a, b, c, q : (\E p : p = <<a, b>> /\ q = <<p[1], c, p[2]>>)
                                 <=> q = << <<a, b>>[1], c, <<a, b>>[2] >>
          BY Zenon
        <4>3. \A a, b, c, q : (\E p : p = <<a, b>> /\ q = <<p[1], c, p[2]>>) <=> q = <<a, c, b>>
          BY <4>1, <4>2
        <4> QED
          BY <4>3
      <3>4. \A q : q \in KeysOf(X) <=> q \in {<<p[1], rule.conclusion, p[2]>> : p \in PairsOf(X)}
        BY <3>1, <3>2, <3>3
      <3> QED
        BY <3>4
    <2> QED
      BY <1>2, <2>2 DEF Concluded
  <1> HIDE DEF new, X
  <1>7. KeysOf(new.derived) = Applied(known, rule, KeysOf(st.derived))
    BY <1>4, <1>5, <1>6 DEF Applied, KeptIn
  <1>8. \A d \in new.derived : d \in st.derived \/ ItemOK(P, rule, d)
    BY <1>2, <1>4 DEF KeptIn
  <1>9. \A u : u # rule.conclusion => {f \in new.facts : f.type = u} = {f \in st.facts : f.type = u}
    BY <1>2, <1>4 DEF KeptIn, ItemOK
  <1> QED
    BY <1>4, <1>7, <1>8, <1>9 DEF KeptIn, RuleStep, new, items

LEMMA RuleKeeps ==
  ASSUME NEW known, NEW st, StateOK(known, st), NEW rule, RuleOK(rule)
  PROVE  LET new == KeepAll(known, st, ApplyTransitive(rule, st.facts))
         IN  /\ StateOK(known, new)
             /\ new = st \/ new.created
             /\ KeysOf(new.derived) = Applied(known, rule, KeysOf(st.derived))
  <1> DEFINE P == {f \in st.facts : f.type = rule.premise}
  <1>1. P = {f \in st.facts : f.type = rule.premise}
    OBVIOUS
  <1> HIDE DEF P
  <1> QED
    BY <1>1, RuleIs, LinksAssumption DEF RuleStep

\* The states a round goes through, and those of the rounds.
RoundSteps(known, rules, st, f) ==
    /\ Round(known, rules, st) = f[Len(rules)]
    /\ f[0] = [st EXCEPT !.created = FALSE]
    /\ \A i \in 1 .. Len(rules) :
          f[i] = KeepAll(known, f[i - 1], ApplyTransitive(rules[i], f[i - 1].facts))

InferSteps(relations, rules, size, f) ==
    /\ Infer(relations, rules, size) = f[size].derived
    /\ f[0] = Initially(relations)
    /\ \A n \in 1 .. size :
          f[n] = IF f[n - 1].created THEN Round(KeysOf(relations), rules, f[n - 1]) ELSE f[n - 1]

LEMMA RoundIs ==
  ASSUME NEW known, NEW rules, Len(rules) \in Nat, NEW st
  PROVE  \E f : RoundSteps(known, rules, st, f)
  <1> DEFINE size == Len(rules)
             start == [st EXCEPT !.created = FALSE]
             step(f, n) == IF n = 0 THEN start
                           ELSE KeepAll(known, f[n - 1], ApplyTransitive(rules[n], f[n - 1].facts))
             good(m, f) == f = [n \in 0 .. m |-> step(f, n)]
             N == {m \in Nat : \E f : good(m, f)}
             chosen == CHOOSE f : good(size, f)
  <1>1. Round(known, rules, st) = chosen[size]
    BY DEF Round
  <1>2. 0 \in N
    <2>1. good(0, [n \in 0 .. 0 |-> start])
      OBVIOUS
    <2> QED
      BY <2>1
  <1>3. ASSUME NEW m \in Nat, m \in N
        PROVE  m + 1 \in N
    <2>1. PICK f : good(m, f)
      BY <1>3
    <2> DEFINE g == [n \in 0 .. (m + 1) |-> IF n = m + 1 THEN step(f, n) ELSE f[n]]
    <2>2. \A n \in 0 .. (m + 1) : g[n] = step(g, n)
      <3>1. \A n \in 0 .. m : f[n] = step(f, n)
        BY <2>1
      <3>2. \A n \in 0 .. m : g[n] = f[n]
        OBVIOUS
      <3>3. \A n \in 0 .. (m + 1) : n # 0 => n - 1 \in 0 .. m
        OBVIOUS
      <3>4. \A n \in 0 .. (m + 1) : step(g, n) = step(f, n)
        BY <3>2, <3>3
      <3>5. \A n \in 0 .. (m + 1) : n = m + 1 \/ n \in 0 .. m
        OBVIOUS
      <3> HIDE DEF step
      <3> QED
        BY <3>1, <3>4, <3>5
    <2>3. good(m + 1, g)
      BY <2>2
    <2> HIDE DEF good, g
    <2> QED
      BY <2>3
  <1> HIDE DEF N
  <1>4. size \in N
    <2> HIDE DEF size
    <2>1. size \in Nat
      BY DEF size
    <2> QED
      BY <1>2, <1>3, <2>1, Induct
  <1>5. good(size, chosen)
    <2>1. \E f : good(size, f)
      BY <1>4 DEF N
    <2> HIDE DEF good
    <2> QED
      BY <2>1
  <1> HIDE DEF chosen
  <1>6. \A n \in 0 .. size : chosen[n] = step(chosen, n)
    BY <1>5
  <1>7. chosen[0] = start
    <2>1. 0 \in 0 .. size /\ step(chosen, 0) = start
      OBVIOUS
    <2> QED
      BY <1>6, <2>1, Zenon
  <1>8. \A i \in 1 .. size : chosen[i] = KeepAll(known, chosen[i - 1], ApplyTransitive(rules[i], chosen[i - 1].facts))
    <2>1. \A i \in 1 .. size : i \in 0 .. size /\ i # 0
      OBVIOUS
    <2> QED
      BY <1>6, <2>1
  <1> HIDE DEF step, good
  <1>9. RoundSteps(known, rules, st, chosen)
    BY <1>1, <1>7, <1>8 DEF RoundSteps
  <1> QED
    BY <1>9

LEMMA InferIs ==
  ASSUME NEW relations, NEW rules, NEW size \in Nat
  PROVE  \E f : InferSteps(relations, rules, size, f)
  <1> DEFINE start == Initially(relations)
             step(f, n) == IF n = 0 THEN start
                           ELSE IF f[n - 1].created THEN Round(KeysOf(relations), rules, f[n - 1]) ELSE f[n - 1]
             good(m, f) == f = [n \in 0 .. m |-> step(f, n)]
             N == {m \in Nat : \E f : good(m, f)}
             chosen == CHOOSE f : good(size, f)
  <1>1. Infer(relations, rules, size) = chosen[size].derived
    BY DEF Infer, KeysOf
  <1>2. 0 \in N
    <2>1. good(0, [n \in 0 .. 0 |-> start])
      OBVIOUS
    <2> QED
      BY <2>1
  <1>3. ASSUME NEW m \in Nat, m \in N
        PROVE  m + 1 \in N
    <2>1. PICK f : good(m, f)
      BY <1>3
    <2> DEFINE g == [n \in 0 .. (m + 1) |-> IF n = m + 1 THEN step(f, n) ELSE f[n]]
    <2>2. \A n \in 0 .. (m + 1) : g[n] = step(g, n)
      <3>1. \A n \in 0 .. m : f[n] = step(f, n)
        BY <2>1
      <3>2. \A n \in 0 .. m : g[n] = f[n]
        OBVIOUS
      <3>3. \A n \in 0 .. (m + 1) : n # 0 => n - 1 \in 0 .. m
        OBVIOUS
      <3>4. \A n \in 0 .. (m + 1) : step(g, n) = step(f, n)
        BY <3>2, <3>3
      <3>5. \A n \in 0 .. (m + 1) : n = m + 1 \/ n \in 0 .. m
        OBVIOUS
      <3> HIDE DEF step
      <3> QED
        BY <3>1, <3>4, <3>5
    <2>3. good(m + 1, g)
      BY <2>2
    <2> HIDE DEF good, g
    <2> QED
      BY <2>3
  <1> HIDE DEF N
  <1>4. size \in N
    BY <1>2, <1>3, Induct
  <1>5. good(size, chosen)
    <2>1. \E f : good(size, f)
      BY <1>4 DEF N
    <2> HIDE DEF good
    <2> QED
      BY <2>1
  <1> HIDE DEF chosen
  <1>6. \A n \in 0 .. size : chosen[n] = step(chosen, n)
    BY <1>5
  <1>7. chosen[0] = start
    <2>1. 0 \in 0 .. size /\ step(chosen, 0) = start
      OBVIOUS
    <2> QED
      BY <1>6, <2>1, Zenon
  <1>8. \A n \in 1 .. size :
           chosen[n] = IF chosen[n - 1].created THEN Round(KeysOf(relations), rules, chosen[n - 1]) ELSE chosen[n - 1]
    <2>1. \A n \in 1 .. size : n \in 0 .. size /\ n # 0
      OBVIOUS
    <2> QED
      BY <1>6, <2>1
  <1> HIDE DEF step, good
  <1>9. InferSteps(relations, rules, size, chosen)
    BY <1>1, <1>7, <1>8 DEF InferSteps
  <1> QED
    BY <1>9

-----------------------------------------------------------------------------
(* Every graph and every set of rules                                      *)

LEMMA Begun ==
  ASSUME NEW relations, GraphIsOK(relations)
  PROVE  StateOK(KeysOf(relations), Initially(relations))
  <1> DEFINE st == Initially(relations)
  <1>1. /\ st.derived = {} /\ st.facts = relations /\ st.created = TRUE
        /\ st = [derived |-> st.derived, facts |-> st.facts, created |-> st.created]
    BY DEF Initially
  <1>2. KeysOf({}) = {}
    BY DEF KeysOf
  <1> HIDE DEF st
  <1> QED
    BY <1>1, <1>2 DEF StateOK, st

LEMMA Restarted ==
  ASSUME NEW known, NEW st, StateOK(known, st), NEW new, new = [st EXCEPT !.created = FALSE]
  PROVE  /\ StateOK(known, new)
         /\ new.derived = st.derived /\ new.facts = st.facts /\ new.created = FALSE
  <1>1. st = [derived |-> st.derived, facts |-> st.facts, created |-> st.created]
    BY DEF StateOK
  <1>2. new = [derived |-> st.derived, facts |-> st.facts, created |-> FALSE]
    BY <1>1
  <1>3. new.derived = st.derived /\ new.facts = st.facts /\ new.created = FALSE
    BY <1>2
  <1> QED
    BY <1>2, <1>3 DEF StateOK

LEMMA RoundKeeps ==
  ASSUME NEW known, NEW st, StateOK(known, st), NEW rules, Len(rules) \in Nat,
         \A i \in 1 .. Len(rules) : RuleOK(rules[i])
  PROVE  StateOK(known, Round(known, rules, st))
  <1>0. PICK f : RoundSteps(known, rules, st, f)
    BY RoundIs
  <1>1. /\ Round(known, rules, st) = f[Len(rules)]
        /\ f[0] = [st EXCEPT !.created = FALSE]
        /\ \A i \in 1 .. Len(rules) :
              f[i] = KeepAll(known, f[i - 1], ApplyTransitive(rules[i], f[i - 1].facts))
    BY <1>0 DEF RoundSteps
  <1> DEFINE N == {n \in Nat : n \in 0 .. Len(rules) => StateOK(known, f[n])}
  <1>2. 0 \in N
    BY <1>1, Restarted
  <1>3. ASSUME NEW n \in Nat, n \in N
        PROVE  n + 1 \in N
    <2>1. n + 1 \in 0 .. Len(rules) => n \in 0 .. Len(rules) /\ n + 1 \in 1 .. Len(rules) /\ (n + 1) - 1 = n
      OBVIOUS
    <2>2. n + 1 \in 0 .. Len(rules) => StateOK(known, f[n + 1])
      <3> SUFFICES ASSUME n + 1 \in 0 .. Len(rules)
                   PROVE  StateOK(known, f[n + 1])
        OBVIOUS
      <3>1. StateOK(known, f[n]) /\ RuleOK(rules[n + 1])
        BY <1>3, <2>1
      <3>2. StateOK(known, KeepAll(known, f[n], ApplyTransitive(rules[n + 1], f[n].facts)))
        BY <3>1, RuleKeeps
      <3> QED
        BY <1>1, <2>1, <3>2
    <2> QED
      BY <2>2
  <1> HIDE DEF N
  <1>4. Len(rules) \in N /\ Len(rules) \in 0 .. Len(rules)
    BY <1>2, <1>3, Induct
  <1> QED
    BY <1>1, <1>4 DEF N

\* Whatever the graph, the rules and the number of rounds, no relation is derived that the
\* graph has already. (InferenceEngine.infer)
THEOREM NothingExplicitIsDerived ==
  ASSUME NEW relations, GraphIsOK(relations), NEW size \in Nat,
         NEW rules, Len(rules) \in Nat, \A i \in 1 .. Len(rules) : RuleOK(rules[i])
  PROVE  \A d \in Infer(relations, rules, size), r \in relations : Key(d) # Key(r)
  <1> DEFINE known == KeysOf(relations)
  <1>0. PICK f : InferSteps(relations, rules, size, f)
    BY InferIs
  <1>1. /\ Infer(relations, rules, size) = f[size].derived
        /\ f[0] = Initially(relations)
        /\ \A n \in 1 .. size :
              f[n] = IF f[n - 1].created THEN Round(known, rules, f[n - 1]) ELSE f[n - 1]
    BY <1>0 DEF InferSteps
  <1> DEFINE N == {n \in Nat : n \in 0 .. size => StateOK(known, f[n])}
  <1>2. 0 \in N
    BY <1>1, Begun
  <1>3. ASSUME NEW n \in Nat, n \in N
        PROVE  n + 1 \in N
    <2>1. n + 1 \in 0 .. size => n \in 0 .. size /\ n + 1 \in 1 .. size /\ (n + 1) - 1 = n
      OBVIOUS
    <2>2. n + 1 \in 0 .. size => StateOK(known, f[n + 1])
      <3> HIDE DEF known
      <3> QED
        BY <1>1, <1>3, <2>1, RoundKeeps
    <2> QED
      BY <2>2
  <1> HIDE DEF N
  <1>4. size \in N /\ size \in 0 .. size
    BY <1>2, <1>3, Induct
  <1>5. StateOK(known, f[size])
    BY <1>4 DEF N
  <1> QED
    BY <1>1, <1>5 DEF StateOK, KeysOf

-----------------------------------------------------------------------------
(* One rule                                                                *)

\* After at least one round, the derived relations of a rule are those of the chains that
\* are not explicit, and each is explained by its chain.
LEMMA OneRule ==
  ASSUME NEW relations, GraphIsOK(relations), NEW rule, RuleOK(rule), rule.premise # rule.conclusion,
         NEW size \in Nat \ {0}, NEW P, P = {f \in relations : f.type = rule.premise}
  PROVE  LET derived == Infer(relations, <<rule>>, size)
         IN  /\ \A d \in derived : ItemOK(P, rule, d)
             /\ KeysOf(derived) = Concluded(rule, PairsOf(P)) \ KeysOf(relations)
  <1> DEFINE known == KeysOf(relations)
             all == Concluded(rule, PairsOf(P)) \ known
             OK(st) == /\ StateOK(known, st)
                       /\ {f \in st.facts : f.type = rule.premise} = P
                       /\ \A d \in st.derived : ItemOK(P, rule, d)
                       /\ KeysOf(st.derived) \subseteq all
             Done(st) == OK(st) /\ KeysOf(st.derived) = all
  <1>1. PICK f : /\ Infer(relations, <<rule>>, size) = f[size].derived
                 /\ f[0] = Initially(relations)
                 /\ \A n \in 1 .. size :
                       f[n] = IF f[n - 1].created THEN Round(known, <<rule>>, f[n - 1]) ELSE f[n - 1]
    BY InferIs DEF InferSteps
  <1>2. OK(f[0]) /\ f[0].created
    <2>1. f[0].derived = {} /\ f[0].facts = relations /\ f[0].created
      BY <1>1 DEF Initially
    <2>2. StateOK(known, f[0])
      BY <1>1, Begun
    <2>3. KeysOf({}) = {}
      BY DEF KeysOf
    <2> QED
      BY <2>1, <2>2, <2>3
  <1>3. ASSUME NEW st, OK(st)
        PROVE  Done(Round(known, <<rule>>, st))
    <2>1. Len(<<rule>>) = 1 /\ <<rule>>[1] = rule
      OBVIOUS
    <2>2. PICK g : /\ Round(known, <<rule>>, st) = g[1]
                   /\ g[0] = [st EXCEPT !.created = FALSE]
                   /\ g[1] = KeepAll(known, g[0], ApplyTransitive(rule, g[0].facts))
      <3>1. PICK g : RoundSteps(known, <<rule>>, st, g)
        BY <2>1, RoundIs
      <3>2. 1 \in 1 .. Len(<<rule>>) /\ 1 - 1 = 0
        OBVIOUS
      <3>3. g[1] = KeepAll(known, g[1 - 1], ApplyTransitive(<<rule>>[1], g[1 - 1].facts))
        BY <3>1, <3>2 DEF RoundSteps
      <3>4. Round(known, <<rule>>, st) = g[1] /\ g[0] = [st EXCEPT !.created = FALSE]
        BY <2>1, <3>1 DEF RoundSteps
      <3>5. g[1] = KeepAll(known, g[0], ApplyTransitive(rule, g[0].facts))
        BY <2>1, <3>2, <3>3, Zenon
      <3> QED
        BY <3>4, <3>5, Zenon
    <2>3. StateOK(known, g[0]) /\ g[0].derived = st.derived /\ g[0].facts = st.facts
      <3>1. StateOK(known, st)
        BY <1>3
      <3>2. g[0] = [st EXCEPT !.created = FALSE]
        BY <2>2, Zenon
      <3> HIDE DEF known
      <3> DEFINE new == g[0]
      <3>3. new = [st EXCEPT !.created = FALSE]
        BY <3>2
      <3> HIDE DEF new
      <3>4. StateOK(known, new) /\ new.derived = st.derived /\ new.facts = st.facts
        BY <3>1, <3>3, Restarted
      <3> QED
        BY <3>4 DEF new
    <2>4. P = {h \in g[0].facts : h.type = rule.premise}
      BY <1>3, <2>3
    <2>5. PairsOf(P) = PairsAt(known \cup KeysOf(st.derived), rule.premise)
      BY <2>3, <2>4, TypedPairs
    <2> HIDE DEF known
    <2>6. /\ StateOK(known, g[1])
          /\ KeysOf(g[1].derived) = Applied(known, rule, KeysOf(st.derived))
          /\ \A d \in g[1].derived : d \in st.derived \/ ItemOK(P, rule, d)
          /\ {h \in g[1].facts : h.type = rule.premise} = P
      <3> DEFINE new == KeepAll(known, g[0], ApplyTransitive(rule, g[0].facts))
      <3>1. /\ StateOK(known, new)
            /\ KeysOf(new.derived) = Applied(known, rule, KeysOf(g[0].derived))
            /\ \A d \in new.derived : d \in g[0].derived \/ ItemOK(P, rule, d)
            /\ \A u : u # rule.conclusion => {h \in new.facts : h.type = u} = {h \in g[0].facts : h.type = u}
        <4>1. RuleStep(known, rule, g[0], P, new)
          BY <2>3, <2>4, RuleIs, LinksAssumption
        <4> HIDE DEF new
        <4> QED
          BY <4>1 DEF RuleStep
      <3>2. g[1] = new
        BY <2>2
      <3> HIDE DEF new
      <3>3. {h \in new.facts : h.type = rule.premise} = {h \in g[0].facts : h.type = rule.premise}
        BY <3>1
      <3> QED
        BY <2>3, <2>4, <3>1, <3>2, <3>3
    <2>7. KeysOf(g[1].derived) = all
      BY <1>3, <2>5, <2>6 DEF Applied
    <2> QED
      BY <1>3, <2>2, <2>6, <2>7
  <1> HIDE DEF OK, known
  <1> DEFINE N == {n \in Nat : n \in 1 .. size => Done(f[n])}
  <1>4. 0 \in N
    OBVIOUS
  <1>5. ASSUME NEW n \in Nat, n \in N
        PROVE  n + 1 \in N
    <2>1. (n + 1) - 1 = n /\ (n \in 1 .. size \/ n = 0 \/ n + 1 \notin 1 .. size)
      OBVIOUS
    <2>2. n + 1 \in 1 .. size => Done(f[n + 1])
      BY <1>1, <1>2, <1>3, <1>5, <2>1
    <2> QED
      BY <2>2
  <1> HIDE DEF N
  <1>6. size \in N /\ size \in 1 .. size
    <2>1. Nat \subseteq N
      BY <1>4, <1>5, Induct
    <2> QED
      BY <2>1
  <1>7. Done(f[size])
    BY <1>6 DEF N
  <1> QED
    BY <1>1, <1>7 DEF OK, known

-----------------------------------------------------------------------------
(* Two rules, of which one uses what the other derives                     *)

LEMMA RoundOfTwo ==
  ASSUME NEW known, NEW st, StateOK(known, st), NEW a, RuleOK(a), NEW b, RuleOK(b)
  PROVE  LET new == Round(known, <<a, b>>, st)
         IN  /\ StateOK(known, new)
             /\ KeysOf(new.derived) = Applied(known, b, Applied(known, a, KeysOf(st.derived)))
             /\ new.created \/ KeysOf(new.derived) = KeysOf(st.derived)
  <1>1. Len(<<a, b>>) = 2 /\ <<a, b>>[1] = a /\ <<a, b>>[2] = b
    OBVIOUS
  <1>2. PICK g : /\ Round(known, <<a, b>>, st) = g[2]
                 /\ g[0] = [st EXCEPT !.created = FALSE]
                 /\ g[1] = KeepAll(known, g[0], ApplyTransitive(a, g[0].facts))
                 /\ g[2] = KeepAll(known, g[1], ApplyTransitive(b, g[1].facts))
    <2>1. PICK g : RoundSteps(known, <<a, b>>, st, g)
      BY <1>1, RoundIs
    <2>2. 1 \in 1 .. Len(<<a, b>>) /\ 1 - 1 = 0 /\ 2 \in 1 .. Len(<<a, b>>) /\ 2 - 1 = 1
      OBVIOUS
    <2>3. /\ g[1] = KeepAll(known, g[1 - 1], ApplyTransitive(<<a, b>>[1], g[1 - 1].facts))
          /\ g[2] = KeepAll(known, g[2 - 1], ApplyTransitive(<<a, b>>[2], g[2 - 1].facts))
      BY <2>1, <2>2 DEF RoundSteps
    <2>4. Round(known, <<a, b>>, st) = g[2] /\ g[0] = [st EXCEPT !.created = FALSE]
      BY <1>1, <2>1 DEF RoundSteps
    <2>5. g[1] = KeepAll(known, g[0], ApplyTransitive(a, g[0].facts))
      BY <1>1, <2>2, <2>3, Zenon
    <2>6. g[2] = KeepAll(known, g[1], ApplyTransitive(b, g[1].facts))
      BY <1>1, <2>2, <2>3, Zenon
    <2> QED
      BY <2>4, <2>5, <2>6, Zenon
  <1>3. StateOK(known, g[0]) /\ g[0].derived = st.derived
    <2>1. g[0] = [st EXCEPT !.created = FALSE]
      BY <1>2, Zenon
    <2> QED
      BY <2>1, Restarted
  <1>4. /\ StateOK(known, g[1])
        /\ g[1] = g[0] \/ g[1].created
        /\ KeysOf(g[1].derived) = Applied(known, a, KeysOf(st.derived))
    <2> DEFINE new == KeepAll(known, g[0], ApplyTransitive(a, g[0].facts))
    <2>1. /\ StateOK(known, new)
          /\ new = g[0] \/ new.created
          /\ KeysOf(new.derived) = Applied(known, a, KeysOf(g[0].derived))
      BY <1>3, RuleKeeps
    <2>2. g[1] = new
      BY <1>2, Zenon
    <2> HIDE DEF new
    <2> QED
      BY <1>3, <2>1, <2>2
  <1>5. /\ StateOK(known, g[2])
        /\ g[2] = g[1] \/ g[2].created
        /\ KeysOf(g[2].derived) = Applied(known, b, KeysOf(g[1].derived))
    <2> DEFINE new == KeepAll(known, g[1], ApplyTransitive(b, g[1].facts))
    <2>1. /\ StateOK(known, new)
          /\ new = g[1] \/ new.created
          /\ KeysOf(new.derived) = Applied(known, b, KeysOf(g[1].derived))
      BY <1>4, RuleKeeps
    <2>2. g[2] = new
      BY <1>2, Zenon
    <2> HIDE DEF new
    <2> QED
      BY <1>3, <2>1, <2>2
  <1> QED
    BY <1>2, <1>3, <1>4, <1>5

\* What the two rules derive in the end.
Derivable(known, a, b) ==
    LET first == Concluded(a, PairsAt(known, a.premise)) \ known
    IN  first \cup (Concluded(b, PairsAt(known \cup first, b.premise)) \ known)

\* Rule b uses what rule a derives, and neither what b does.
Chained(a, b) ==
    /\ a.conclusion = b.premise /\ a.premise # a.conclusion
    /\ b.conclusion # a.premise /\ b.conclusion # b.premise

LEMMA TypedGrows ==
  ASSUME NEW keys, NEW more, keys \subseteq more, NEW type
  PROVE  /\ PairsAt(keys, type) \subseteq PairsAt(more, type)
         /\ (\A k \in more \ keys : k[2] # type) => PairsAt(keys, type) = PairsAt(more, type)
  BY DEF PairsAt

LEMMA ConcludedGrows ==
  ASSUME NEW rule, NEW J, NEW K, J \subseteq K
  PROVE  Concluded(rule, J) \subseteq Concluded(rule, K)
  BY ClosureGrows, LinksAssumption DEF Concluded

LEMMA TwoRules ==
  ASSUME NEW known, NEW a, NEW b, Chained(a, b), NEW keys, keys \subseteq Derivable(known, a, b)
  PROVE  LET first == Concluded(a, PairsAt(known, a.premise)) \ known
         IN  /\ Applied(known, a, keys) = keys \cup first
             /\ Applied(known, b, keys) \subseteq Derivable(known, a, b)
             /\ first \subseteq keys => Applied(known, b, keys) = Derivable(known, a, b)
  <1> DEFINE first == Concluded(a, PairsAt(known, a.premise)) \ known
             K == PairsAt(known \cup first, b.premise)
             second == Concluded(b, K) \ known
  <1>1. Derivable(known, a, b) = first \cup second
    BY DEF Derivable
  <1>2. (\A k \in first : k[2] = a.conclusion) /\ \A k \in second : k[2] = b.conclusion
    <2>1. ASSUME NEW rule, NEW J, NEW k \in Concluded(rule, J)
          PROVE  k[2] = rule.conclusion
      <3>1. PICK p \in Closure(J) : k = <<p[1], rule.conclusion, p[2]>>
        BY DEF Concluded
      <3> QED
        BY <3>1
    <2> QED
      BY <2>1
  <1> HIDE DEF first, second, K
  <1>3. PairsAt(known \cup keys, a.premise) = PairsAt(known, a.premise)
    <2>1. \A k \in (known \cup keys) \ known : k[2] # a.premise
      BY <1>1, <1>2 DEF Chained
    <2> QED
      BY <2>1, TypedGrows
  <1>4. PairsAt(known \cup keys, b.premise) \subseteq K
    <2>1. known \cup keys \subseteq known \cup first \cup second /\ known \cup first \subseteq known \cup first \cup second
      BY <1>1
    <2>2. PairsAt(known \cup keys, b.premise) \subseteq PairsAt(known \cup first \cup second, b.premise)
      BY <2>1, TypedGrows
    <2>3. PairsAt(known \cup first, b.premise) = PairsAt(known \cup first \cup second, b.premise)
      <3>1. \A k \in (known \cup first \cup second) \ (known \cup first) : k[2] # b.premise
        BY <1>2 DEF Chained
      <3> QED
        BY <2>1, <3>1, TypedGrows
    <2> QED
      BY <2>2, <2>3 DEF K
  <1>5. first \subseteq keys => PairsAt(known \cup keys, b.premise) = K
    <2> SUFFICES ASSUME first \subseteq keys
                 PROVE  K \subseteq PairsAt(known \cup keys, b.premise)
      BY <1>4
    <2>1. known \cup first \subseteq known \cup keys
      OBVIOUS
    <2> QED
      BY <2>1, TypedGrows DEF K
  <1>6. Concluded(b, PairsAt(known \cup keys, b.premise)) \subseteq Concluded(b, K)
    BY <1>4, ConcludedGrows
  <1>7. Applied(known, a, keys) = keys \cup first
    BY <1>3 DEF Applied, first
  <1>8. Applied(known, b, keys) \subseteq first \cup second
    BY <1>1, <1>6 DEF Applied, second
  <1>9. first \subseteq keys => Applied(known, b, keys) = first \cup second
    BY <1>1, <1>5 DEF Applied, second
  <1> QED
    BY <1>1, <1>7, <1>8, <1>9 DEF first

LEMMA RoundAfter ==
  ASSUME NEW known, NEW a, RuleOK(a), NEW b, RuleOK(b), Chained(a, b),
         NEW st, StateOK(known, st), KeysOf(st.derived) \subseteq Derivable(known, a, b)
  PROVE  LET new == Round(known, <<a, b>>, st)
         IN  StateOK(known, new) /\ KeysOf(new.derived) = Derivable(known, a, b)
  <1> DEFINE first == Concluded(a, PairsAt(known, a.premise)) \ known
             keys == KeysOf(st.derived)
             new == Round(known, <<a, b>>, st)
  <1>1. StateOK(known, new) /\ KeysOf(new.derived) = Applied(known, b, Applied(known, a, keys))
    BY RoundOfTwo
  <1>2. Applied(known, a, keys) = keys \cup first
    BY TwoRules
  <1>3. keys \cup first \subseteq Derivable(known, a, b) /\ first \subseteq keys \cup first
    BY DEF Derivable
  <1> HIDE DEF keys, new
  <1>4. Applied(known, b, keys \cup first) = Derivable(known, a, b)
    BY <1>3, TwoRules
  <1> QED
    BY <1>1, <1>2, <1>4 DEF new

LEMMA RoundBefore ==
  ASSUME NEW known, NEW a, RuleOK(a), NEW b, RuleOK(b), Chained(a, b),
         NEW st, StateOK(known, st), KeysOf(st.derived) \subseteq Derivable(known, a, b)
  PROVE  LET new   == Round(known, <<b, a>>, st)
             first == Concluded(a, PairsAt(known, a.premise)) \ known
         IN  /\ StateOK(known, new) /\ KeysOf(new.derived) \subseteq Derivable(known, a, b)
             /\ first \subseteq KeysOf(new.derived)
             /\ new.created \/ KeysOf(new.derived) = KeysOf(st.derived)
             /\ first \subseteq KeysOf(st.derived) => KeysOf(new.derived) = Derivable(known, a, b)
  <1> DEFINE first == Concluded(a, PairsAt(known, a.premise)) \ known
             keys == KeysOf(st.derived)
             new == Round(known, <<b, a>>, st)
             mid == Applied(known, b, keys)
  <1>1. /\ StateOK(known, new) /\ KeysOf(new.derived) = Applied(known, a, mid)
        /\ new.created \/ KeysOf(new.derived) = keys
    BY RoundOfTwo
  <1>2. /\ mid \subseteq Derivable(known, a, b)
        /\ first \subseteq keys => mid = Derivable(known, a, b)
    BY TwoRules
  <1> HIDE DEF keys, new, mid
  <1>3. Applied(known, a, mid) = mid \cup first
    BY <1>2, TwoRules
  <1>4. first \subseteq Derivable(known, a, b)
    BY DEF Derivable
  <1> HIDE DEF first
  <1> QED
    BY <1>1, <1>2, <1>3, <1>4 DEF new, keys, first

\* Two rounds give what the two rules derive, in whichever order they are applied.
LEMMA EitherOrder ==
  ASSUME NEW relations, GraphIsOK(relations), NEW a, RuleOK(a), NEW b, RuleOK(b), Chained(a, b),
         NEW size \in Nat, size >= 2
  PROVE  /\ KeysOf(Infer(relations, <<a, b>>, size)) = Derivable(KeysOf(relations), a, b)
         /\ KeysOf(Infer(relations, <<b, a>>, size)) = Derivable(KeysOf(relations), a, b)
  <1> DEFINE known == KeysOf(relations)
             all == Derivable(known, a, b)
             first == Concluded(a, PairsAt(known, a.premise)) \ known
             start == Initially(relations)
  <1>1. StateOK(known, start) /\ KeysOf(start.derived) = {} /\ start.created
    <2>1. KeysOf({}) = {}
      BY DEF KeysOf
    <2> QED
      BY <2>1, Begun DEF Initially
  <1>2. ASSUME NEW rules
        PROVE  \E f : /\ Infer(relations, rules, size) = f[size].derived
                      /\ f[0] = start
                      /\ \A n \in 1 .. size :
                            f[n] = IF f[n - 1].created THEN Round(known, rules, f[n - 1]) ELSE f[n - 1]
    BY InferIs DEF InferSteps
  <1> HIDE DEF known, start
  <1>3. KeysOf(Infer(relations, <<a, b>>, size)) = all
    <2>1. PICK f : /\ Infer(relations, <<a, b>>, size) = f[size].derived
                   /\ f[0] = start
                   /\ \A n \in 1 .. size :
                         f[n] = IF f[n - 1].created THEN Round(known, <<a, b>>, f[n - 1]) ELSE f[n - 1]
      BY <1>2
    <2> DEFINE Done(st) == StateOK(known, st) /\ KeysOf(st.derived) = all
               N == {n \in Nat : n \in 1 .. size => Done(f[n])}
    <2>2. ASSUME NEW st, StateOK(known, st), KeysOf(st.derived) \subseteq all
          PROVE  Done(Round(known, <<a, b>>, st))
      BY <2>2, RoundAfter
    <2>3. \A st : StateOK(known, st) /\ KeysOf(st.derived) \subseteq all => Done(Round(known, <<a, b>>, st))
      BY <2>2
    <2>4. 0 \in N
      OBVIOUS
    <2>5. ASSUME NEW n \in Nat, n \in N
          PROVE  n + 1 \in N
      <3>1. (n + 1) - 1 = n /\ (n \in 1 .. size \/ n = 0 \/ n + 1 \notin 1 .. size)
        OBVIOUS
      <3> HIDE DEF all
      <3>2. n + 1 \in 1 .. size => Done(f[n + 1])
        <4> SUFFICES ASSUME n + 1 \in 1 .. size PROVE Done(f[n + 1])
          OBVIOUS
        <4>1. f[n + 1] = IF f[n].created THEN Round(known, <<a, b>>, f[n]) ELSE f[n]
          BY <2>1, <3>1
        <4>2. CASE n = 0
          <5>1. f[n + 1] = Round(known, <<a, b>>, start)
            BY <1>1, <2>1, <4>1, <4>2
          <5> QED
            BY <1>1, <2>3, <5>1
        <4>3. CASE n \in 1 .. size
          <5>1. Done(f[n])
            BY <2>5, <4>3
          <5> QED
            BY <2>3, <4>1, <5>1
        <4> QED
          BY <3>1, <4>2, <4>3
      <3> QED
        BY <3>2
    <2> HIDE DEF N
    <2>6. size \in N /\ size \in 1 .. size
      BY <2>4, <2>5, Induct
    <2>7. Done(f[size])
      BY <2>6 DEF N
    <2> QED
      BY <2>1, <2>7
  <1>4. KeysOf(Infer(relations, <<b, a>>, size)) = all
    <2>1. PICK f : /\ Infer(relations, <<b, a>>, size) = f[size].derived
                   /\ f[0] = start
                   /\ \A n \in 1 .. size :
                         f[n] = IF f[n - 1].created THEN Round(known, <<b, a>>, f[n - 1]) ELSE f[n - 1]
      BY <1>2
    <2> DEFINE keys(st) == KeysOf(st.derived)
               OK(st) == StateOK(known, st) /\ keys(st) \subseteq all /\ first \subseteq keys(st)
               Done(n, st) == n >= 2 \/ ~st.created => keys(st) = all
               N == {n \in Nat : n \in 1 .. size => OK(f[n]) /\ Done(n, f[n])}
    <2>2. ASSUME NEW st, StateOK(known, st), keys(st) \subseteq all
          PROVE  LET new == Round(known, <<b, a>>, st)
                 IN  /\ OK(new)
                     /\ new.created \/ keys(new) = keys(st)
                     /\ first \subseteq keys(st) => keys(new) = all
      BY <2>2, RoundBefore
    <2>3. 0 \in N
      OBVIOUS
    <2>4. ASSUME NEW n \in Nat, n \in N
          PROVE  n + 1 \in N
      <3>1. (n + 1) - 1 = n /\ (n \in 1 .. size \/ n = 0 \/ n + 1 \notin 1 .. size)
        OBVIOUS
      <3> HIDE DEF all, first
      <3>2. n + 1 \in 1 .. size => OK(f[n + 1]) /\ Done(n + 1, f[n + 1])
        <4> SUFFICES ASSUME n + 1 \in 1 .. size PROVE OK(f[n + 1]) /\ Done(n + 1, f[n + 1])
          OBVIOUS
        <4>1. f[n + 1] = IF f[n].created THEN Round(known, <<b, a>>, f[n]) ELSE f[n]
          BY <2>1, <3>1
        <4>2. CASE n = 0
          <5> DEFINE new == Round(known, <<b, a>>, start)
          <5>1. f[n + 1] = new
            BY <1>1, <2>1, <4>1, <4>2
          <5>2. keys(start) = {}
            BY <1>1
          <5>3. /\ OK(new)
                /\ new.created \/ keys(new) = keys(start)
                /\ first \subseteq keys(start) => keys(new) = all
            BY <1>1, <2>2, <5>2
          <5> HIDE DEF new
          <5>4. Done(1, new)
            BY <5>2, <5>3
          <5> QED
            BY <4>2, <5>1, <5>3, <5>4
        <4>3. CASE n \in 1 .. size
          <5>1. OK(f[n]) /\ Done(n, f[n])
            BY <2>4, <4>3
          <5>2. CASE f[n].created
            <6> DEFINE new == Round(known, <<b, a>>, f[n])
            <6>1. OK(new) /\ keys(new) = all
              BY <2>2, <5>1
            <6>2. f[n + 1] = new
              BY <4>1, <5>2
            <6> HIDE DEF new
            <6> QED
              BY <6>1, <6>2
          <5>3. CASE ~f[n].created
            BY <4>1, <5>1, <5>3
          <5> QED
            BY <5>2, <5>3
        <4> QED
          BY <3>1, <4>2, <4>3
      <3> QED
        BY <3>2
    <2> HIDE DEF N
    <2>5. size \in N /\ size \in 1 .. size
      BY <2>3, <2>4, Induct
    <2>6. Done(size, f[size])
      BY <2>5 DEF N
    <2> QED
      BY <2>1, <2>6
  <1> QED
    BY <1>3, <1>4 DEF known

\* Whatever the graph, a rule that uses what another derives may come before or after it: after
\* at least two rounds the same facts are derived. (InferenceEngine.infer)
THEOREM RuleOrderNeverMatters ==
  ASSUME NEW relations, GraphIsOK(relations), NEW a, RuleOK(a), NEW b, RuleOK(b), Chained(a, b),
         NEW size \in Nat, size >= 2
  PROVE  {Key(d) : d \in Infer(relations, <<a, b>>, size)} = {Key(d) : d \in Infer(relations, <<b, a>>, size)}
  <1>1. KeysOf(Infer(relations, <<a, b>>, size)) = KeysOf(Infer(relations, <<b, a>>, size))
    BY EitherOrder
  <1> QED
    BY <1>1 DEF KeysOf

-----------------------------------------------------------------------------
(* The graph that clients relate and promote in                            *)

LinksInv ==
    /\ links \subseteq Pairs /\ IsFiniteSet(links)
    /\ explicit \subseteq Nat \X Nat /\ IsFiniteSet(explicit)

Located == {r \in Relations : r.type = "located_in"}

LEMMA RelationsAre ==
  ASSUME LinksInv
  PROVE  /\ GraphIsOK(Relations)
         /\ PairsOf(Located) = links
         /\ \A p \in Nat \X Nat : <<p[1], "indirectly_located_in", p[2]>> \in KeysOf(Relations) <=> p \in explicit
         /\ \A r \in Relations : r.type \in {"located_in", "indirectly_located_in"}
  <1> DEFINE direct(p) == [source |-> p[1], type |-> "located_in", target |-> p[2], id |-> <<0, p>>,
                           confidence |-> IF p \in weak THEN Weak ELSE Strong]
             onFile(p) == [source |-> p[1], type |-> "indirectly_located_in", target |-> p[2],
                           id |-> <<-1, p>>, confidence |-> Strong]
             A == {direct(p) : p \in links}
             B == {onFile(p) : p \in explicit}
  <1>1. Relations = A \cup B
    BY DEF Relations
  <1>2. links \subseteq Nat \X Nat /\ explicit \subseteq Nat \X Nat
    BY LinksAssumption DEF LinksInv, Pairs
  <1>3. \A p \in Nat \X Nat : p[1] \in Nat /\ p[2] \in Nat /\ p = <<p[1], p[2]>>
    OBVIOUS
  <1>4. \A p : /\ direct(p).source = p[1] /\ direct(p).target = p[2] /\ direct(p).type = "located_in"
               /\ direct(p).confidence \in Nat
               /\ onFile(p).source = p[1] /\ onFile(p).target = p[2]
               /\ onFile(p).type = "indirectly_located_in" /\ onFile(p).confidence \in Nat
    BY DEF Weak, Strong
  <1>5. \A p \in Nat \X Nat, q \in Nat \X Nat : p[1] = q[1] /\ p[2] = q[2] => p = q
    BY <1>3
  <1>6. IsFiniteSet(A)
    <2> DEFINE f == [p \in links |-> direct(p)]
    <2>1. f \in Surjection(links, A)
      BY DEF Surjection
    <2> HIDE DEF f, A
    <2> QED
      BY <2>1, FS_Surjection DEF LinksInv
  <1>7. IsFiniteSet(B)
    <2> DEFINE f == [p \in explicit |-> onFile(p)]
    <2>1. f \in Surjection(explicit, B)
      BY DEF Surjection
    <2> HIDE DEF f, B
    <2> QED
      BY <2>1, FS_Surjection DEF LinksInv
  <1> HIDE DEF direct, onFile
  <1>8. \A r \in Relations : \/ \E p \in links : r = direct(p)
                             \/ \E p \in explicit : r = onFile(p)
    BY <1>1
  <1>9. ASSUME NEW r \in Relations
        PROVE  r.source \in Nat /\ r.target \in Nat /\ r.confidence \in Nat
    <2>1. CASE \E p \in links : r = direct(p)
      <3>1. PICK p \in links : r = direct(p)
        BY <2>1
      <3>2. p[1] \in Nat /\ p[2] \in Nat
        BY <1>2, <1>3
      <3> QED
        BY <1>4, <3>1, <3>2
    <2>2. CASE \E p \in explicit : r = onFile(p)
      <3>1. PICK p \in explicit : r = onFile(p)
        BY <2>2
      <3>2. p[1] \in Nat /\ p[2] \in Nat
        BY <1>2, <1>3
      <3> QED
        BY <1>4, <3>1, <3>2
    <2> QED
      BY <1>8, <2>1, <2>2
  <1>10. ASSUME NEW r \in Relations, NEW q \in Relations, Key(r) = Key(q)
         PROVE  r = q
    <2>1. r.source = q.source /\ r.type = q.type /\ r.target = q.target
      BY <1>10 DEF Key
    <2>2. CASE \E p \in links : r = direct(p)
      <3>1. PICK p \in links : r = direct(p)
        BY <2>2
      <3>2. PICK o \in links : q = direct(o)
        BY <1>4, <1>8, <2>1, <3>1
      <3>3. p[1] = o[1] /\ p[2] = o[2]
        BY <1>4, <2>1, <3>1, <3>2
      <3> QED
        BY <1>2, <1>5, <3>1, <3>2, <3>3
    <2>3. CASE \E p \in explicit : r = onFile(p)
      <3>1. PICK p \in explicit : r = onFile(p)
        BY <2>3
      <3>2. PICK o \in explicit : q = onFile(o)
        BY <1>4, <1>8, <2>1, <3>1
      <3>3. p[1] = o[1] /\ p[2] = o[2]
        BY <1>4, <2>1, <3>1, <3>2
      <3> QED
        BY <1>2, <1>5, <3>1, <3>2, <3>3
    <2> QED
      BY <1>8, <2>2, <2>3
  <1>11. IsFiniteSet(Relations)
    <2> HIDE DEF A, B
    <2> QED
      BY <1>1, <1>6, <1>7, FS_Union
  <1>12. Located = A
    <2>1. \A r \in A : r.type = "located_in"
      BY <1>4
    <2>2. \A r \in B : r.type # "located_in"
      BY <1>4
    <2> HIDE DEF A, B
    <2> QED
      BY <1>1, <2>1, <2>2 DEF Located
  <1>13. PairsOf(A) = links
    <2>1. PairsOf(A) = {<<p[1], p[2]>> : p \in links}
      <3>1. \A x : x \in PairsOf(A) <=> \E p \in links : x = <<direct(p).source, direct(p).target>>
        BY DEF PairsOf
      <3>2. \A p : <<direct(p).source, direct(p).target>> = <<p[1], p[2]>>
        BY <1>4
      <3> HIDE DEF A
      <3>3. \A x : x \in PairsOf(A) <=> \E p \in links : x = <<p[1], p[2]>>
        BY <3>1, <3>2, ZenonT(40)
      <3> QED
        BY <3>3
    <2>2. \A p \in links : p = <<p[1], p[2]>>
      BY <1>2, <1>3
    <2>3. \A x : x \in {<<p[1], p[2]>> : p \in links} <=> x \in links
      BY <2>2
    <2> QED
      BY <2>1, <2>3
  <1>14. ASSUME NEW p \in Nat \X Nat
         PROVE  <<p[1], "indirectly_located_in", p[2]>> \in KeysOf(Relations) <=> p \in explicit
    <2>1. ASSUME p \in explicit
          PROVE  <<p[1], "indirectly_located_in", p[2]>> \in KeysOf(Relations)
      <3>1. Key(onFile(p)) = <<p[1], "indirectly_located_in", p[2]>>
        BY <1>4 DEF Key
      <3>2. onFile(p) \in Relations
        BY <1>1, <2>1
      <3> QED
        BY <3>1, <3>2 DEF KeysOf
    <2>2. ASSUME NEW r \in Relations, Key(r) = <<p[1], "indirectly_located_in", p[2]>>
          PROVE  p \in explicit
      <3>1. r.source = p[1] /\ r.type = "indirectly_located_in" /\ r.target = p[2]
        BY <2>2 DEF Key
      <3>2. PICK o \in explicit : r = onFile(o)
        BY <1>4, <1>8, <3>1
      <3>3. o[1] = p[1] /\ o[2] = p[2] /\ o \in Nat \X Nat
        BY <1>2, <1>4, <3>1, <3>2
      <3>4. o = p
        BY <1>5, <3>3
      <3> QED
        BY <3>2, <3>4
    <2> QED
      BY <2>1, <2>2 DEF KeysOf
  <1>15. \A r \in Relations : r.type \in {"located_in", "indirectly_located_in"}
    BY <1>4, <1>8
  <1> QED
    BY <1>9, <1>10, <1>11, <1>12, <1>13, <1>14, <1>15 DEF GraphIsOK

\* What the engine derives from the graph.
LEMMA DerivedAre ==
  ASSUME LinksInv
  PROVE  /\ \A d \in Derived : ItemOK(Located, Indirect, d)
         /\ KeysOf(Derived) = Concluded(Indirect, links) \ KeysOf(Relations)
  <1>1. RuleOK(Indirect) /\ Indirect.premise = "located_in" /\ Indirect.premise # Indirect.conclusion
    BY LinksAssumption DEF RuleOK, Indirect, Strong
  <1>2. Located = {r \in Relations : r.type = Indirect.premise}
    BY <1>1 DEF Located
  <1>3. GraphIsOK(Relations) /\ PairsOf(Located) = links
    BY RelationsAre
  <1> HIDE DEF Indirect, Relations, Located
  <1>4. LET derived == Infer(Relations, <<Indirect>>, 8)
        IN  /\ \A d \in derived : ItemOK(Located, Indirect, d)
            /\ KeysOf(derived) = Concluded(Indirect, PairsOf(Located)) \ KeysOf(Relations)
    BY <1>1, <1>2, <1>3, OneRule
  <1> QED
    BY <1>3, <1>4 DEF Derived

LEMMA ChainsAreDerived == LinksInv => DerivesChains
  <1> SUFFICES ASSUME LinksInv PROVE DerivesChains
    OBVIOUS
  <1> DEFINE type == "indirectly_located_in"
             J == {p \in Pairs \ explicit : \E q \in links : /\ q[1] \in Within(p[1]) \ {p[1]}
                                                            /\ q[2] = p[2]}
  <1>1. links \subseteq Nat \X Nat /\ links \subseteq Objects \X Objects /\ Objects \subseteq Nat
    BY LinksAssumption DEF LinksInv, Pairs
  <1>2. \A s : Within(s) = Reach(links, s)[MaxDepth - 1]
    BY DEF Within, Reach, After
  <1>3. \A p : p \in J <=> p \in Closure(links) /\ p \notin explicit
    <2>1. \A p : p \in Closure(links)
                   <=> p \in Nat \X Nat /\ p[1] # p[2]
                         /\ \E q \in links : q[1] \in Within(p[1]) \ {p[1]} /\ q[2] = p[2]
      BY <1>2 DEF Closure, After
    <2>2. ASSUME NEW p \in Closure(links)
          PROVE  p \in Pairs
      <3> DEFINE P == {[source |-> l[1], target |-> l[2]] : l \in links}
      <3>1. PairsOf(P) = links
        <4>1. \A l \in links : l = <<l[1], l[2]>>
          BY <1>1
        <4>2. \A l : [source |-> l[1], target |-> l[2]].source = l[1] /\ [source |-> l[1], target |-> l[2]].target = l[2]
          OBVIOUS
        <4>3. \A x : x \in PairsOf(P) <=> \E l \in links : x = <<l[1], l[2]>>
          BY <4>2 DEF PairsOf
        <4>4. \A x : (\E l \in links : x = <<l[1], l[2]>>) <=> x \in links
          BY <4>1
        <4> HIDE DEF P
        <4> QED
          BY <4>3, <4>4
      <3>2. \E r \in P : r.source = p[1]
        <4> HIDE DEF P
        <4> QED
          BY <3>1, ClosureFrom, LinksAssumption
      <3>3. PICK l \in links : l[1] = p[1]
        BY <3>2
      <3>4. PICK q \in links : q[2] = p[2]
        BY <2>1
      <3>5. p[1] \in Objects /\ p[2] \in Objects
        BY <1>1, <3>3, <3>4
      <3>6. p \in Nat \X Nat /\ p[1] # p[2]
        BY <2>1
      <3> QED
        BY <3>5, <3>6 DEF Pairs
    <2>3. Pairs \subseteq Nat \X Nat /\ \A p \in Pairs : p[1] # p[2]
      BY <1>1 DEF Pairs
    <2> QED
      BY <2>1, <2>2, <2>3
  <1>4. \A d \in Derived : d.type = type /\ d.source \in Nat /\ d.target \in Nat
    BY DerivedAre DEF ItemOK, IsChain, Indirect
  <1>5. \A p \in Nat \X Nat : p \in PairsOf(Derived) <=> <<p[1], type, p[2]>> \in KeysOf(Derived)
    <2>1. \A p \in Nat \X Nat : \A d : p = <<d.source, d.target>> <=> p[1] = d.source /\ p[2] = d.target
      OBVIOUS
    <2>2. \A d \in Derived : \A p : <<p[1], type, p[2]>> = Key(d) <=> p[1] = d.source /\ p[2] = d.target
      BY <1>4 DEF Key
    <2> QED
      BY <2>1, <2>2 DEF PairsOf, KeysOf
  <1>6. PairsOf(Derived) \subseteq Nat \X Nat
    BY <1>4 DEF PairsOf
  <1>7. \A p \in Nat \X Nat : <<p[1], type, p[2]>> \in Concluded(Indirect, links) <=> p \in Closure(links)
    <2>1. Indirect.conclusion = type
      BY DEF Indirect
    <2>2. \A p \in Nat \X Nat, q \in Nat \X Nat : <<p[1], type, p[2]>> = <<q[1], type, q[2]>> => p = q
      <3>1. \A p \in Nat \X Nat : p = <<p[1], p[2]>>
        OBVIOUS
      <3>2. \A a, b, c, d : <<a, type, b>> = <<c, type, d>> => a = c /\ b = d
        OBVIOUS
      <3> QED
        BY <3>1, <3>2
    <2>3. Closure(links) \subseteq Nat \X Nat
      BY DEF Closure
    <2>4. \A k : k \in Concluded(Indirect, links) <=> \E q \in Closure(links) : k = <<q[1], type, q[2]>>
      BY <2>1 DEF Concluded
    <2> QED
      BY <2>2, <2>3, <2>4
  <1>8. \A p \in Nat \X Nat : p \in PairsOf(Derived) <=> p \in Closure(links) /\ p \notin explicit
    BY <1>5, <1>7, DerivedAre, RelationsAre
  <1>9. Closure(links) \subseteq Nat \X Nat
    BY DEF Closure
  <1> HIDE DEF J
  <1>10. PairsOf(Derived) = J
    BY <1>3, <1>6, <1>8, <1>9
  <1> QED
    BY <1>10 DEF DerivesChains, PairsOf, J

LEMMA ExplanationsAreChains == LinksInv => ExplanationHolds
  <1> SUFFICES ASSUME LinksInv, NEW d \in Derived
               PROVE  LET n == Len(d.steps)
                      IN  /\ n \in 2 .. MaxDepth
                          /\ d.steps[1].source = d.source
                          /\ d.steps[n].target = d.target
                          /\ \A i \in 2 .. n : d.steps[i].source = d.steps[i - 1].target
                          /\ \A i \in 1 .. n : d.steps[i] \in Relations /\ d.confidence <= d.steps[i].confidence
    BY DEF ExplanationHolds
  <1>1. PICK k \in 2 .. MaxDepth : IsChain(Located, d.source, k, d)
    BY DerivedAre DEF ItemOK
  <1>2. d.steps \in Seq(Located) /\ Len(d.steps) = k
    BY <1>1 DEF IsChain
  <1>3. \A i \in 1 .. k : d.steps[i] \in Relations
    BY <1>2 DEF Located
  <1>4. k > 0
    BY LinksAssumption
  <1> QED
    BY <1>1, <1>2, <1>3, <1>4 DEF IsChain

LEMMA OrderIsFree == LinksInv => RuleOrderIsFree
  <1> SUFFICES ASSUME LinksInv PROVE RuleOrderIsFree
    OBVIOUS
  <1>1. RuleOK(Indirect) /\ RuleOK(Reaches) /\ Chained(Indirect, Reaches)
    BY LinksAssumption DEF RuleOK, Indirect, Reaches, Strong, Chained
  <1>2. GraphIsOK(Relations)
    BY RelationsAre
  <1> HIDE DEF Indirect, Reaches, Relations
  <1>3. {Key(d) : d \in Infer(Relations, <<Indirect, Reaches>>, 8)}
          = {Key(d) : d \in Infer(Relations, <<Reaches, Indirect>>, 8)}
    BY <1>1, <1>2, RuleOrderNeverMatters
  <1> QED
    BY <1>3 DEF RuleOrderIsFree

LEMMA LinksStep == LinksInv /\ [LinksNext]_<<links, explicit, weak>> => LinksInv'
  <1> SUFFICES ASSUME LinksInv, [LinksNext]_<<links, explicit, weak>>
               PROVE  LinksInv'
    OBVIOUS
  <1>1. ASSUME NEW p \in Pairs, Relate(p)
        PROVE  LinksInv'
    <2>1. links' = links \cup {p} /\ explicit' = explicit
      BY <1>1 DEF Relate
    <2>2. IsFiniteSet(links \cup {p})
      BY FS_AddElement DEF LinksInv
    <2> QED
      BY <2>1, <2>2 DEF LinksInv, Pairs
  <1>2. CASE Promote
    <2>1. PICK d \in Derived : explicit' = {<<d.source, d.target>>}
      BY <1>2 DEF Promote
    <2>2. links' = links
      BY <1>2 DEF Promote
    <2>3. d.source \in Nat /\ d.target \in Nat
      BY DerivedAre DEF ItemOK, IsChain
    <2>4. IsFiniteSet({<<d.source, d.target>>})
      BY FS_Singleton
    <2> QED
      BY <2>1, <2>2, <2>3, <2>4 DEF LinksInv, Pairs
  <1>3. CASE UNCHANGED <<links, explicit, weak>>
    BY <1>3 DEF LinksInv, Pairs
  <1> QED
    BY <1>1, <1>2, <1>3 DEF LinksNext

LEMMA LinksStart == LinksInit => LinksInv
  BY FS_EmptySet DEF LinksInit, LinksInv

\* In every graph that clients relate and promote in, the engine derives exactly the pairs that
\* chains join and that are not explicit. (InferenceEngine.infer)
THEOREM ChainsAreWhatIsDerived == LinksSpec => []DerivesChains
  BY LinksStart, LinksStep, ChainsAreDerived, PTL DEF LinksSpec

\* In every such graph, each derived relation is explained by a chain of its relations, and is
\* no more certain than any of them. (InferenceEngine._apply_transitive)
THEOREM EveryExplanationHolds == LinksSpec => []ExplanationHolds
  BY LinksStart, LinksStep, ExplanationsAreChains, PTL DEF LinksSpec

\* In every such graph, the order of the rules changes nothing. (InferenceEngine.infer)
THEOREM RuleOrderStaysFree == LinksSpec => []RuleOrderIsFree
  BY LinksStart, LinksStep, OrderIsFree, PTL DEF LinksSpec
=============================================================================
