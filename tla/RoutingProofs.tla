---------------------------- MODULE RoutingProofs ---------------------------
(***************************************************************************)
(* ProviderRouter, proved for any list of providers, any window and any    *)
(* number of concurrent payments.                                          *)
(***************************************************************************)
EXTENDS Routing, FiniteSetTheorems, SequenceTheorems, WellFoundedInduction, TLAPS

-----------------------------------------------------------------------------
(* Induction, on numbers and on finite sets. *)

\* A set of numbers has a least one.
LEMMA LeastNumber ==
  ASSUME NEW T, T \subseteq Nat, T # {}
  PROVE  \E n \in T : \A m \in T : ~(m < n)
<1>1. PICK n \in T : \A m \in T : ~(<<m, n>> \in OpToRel(<, Nat))
  BY WFMin, NatLessThanWellFounded, Zenon
<1>2. \A m \in T : ~(m < n)
  BY <1>1 DEF OpToRel
<1> QED BY <1>2

\* A set that holds 0 and, with a number, the next one holds every number.
LEMMA Counting ==
  ASSUME NEW T, 0 \in T, \A n \in Nat : n \in T => n + 1 \in T
  PROVE  \A n \in Nat : n \in T
<1> DEFINE F == Nat \ T
<1>1. SUFFICES ASSUME F # {} PROVE FALSE
  OBVIOUS
<1>2. PICK n \in F : \A m \in F : ~(m < n)
  <2>1. F \subseteq Nat
    OBVIOUS
  <2> HIDE DEF F
  <2> QED BY <1>1, <2>1, LeastNumber
<1>3. n \in Nat /\ n # 0 /\ n - 1 \in Nat /\ n - 1 < n
  BY <1>2
<1>4. n - 1 \in T
  BY <1>2, <1>3
<1>5. (n - 1) + 1 \in T
  BY <1>3, <1>4
<1> QED BY <1>2, <1>3, <1>5

\* Among subsets of a finite set there is one that has no smaller one among
\* them: what the inductions below use, on the sets for which a law fails.
LEMMA Smallest ==
  ASSUME NEW S, IsFiniteSet(S), NEW F \in SUBSET SUBSET S, F # {}
  PROVE  \E s \in F : \A t \in SUBSET s : t # s => t \notin F
<1> DEFINE Sizes == {Cardinality(s) : s \in F}
<1>1. \A s \in F : IsFiniteSet(s) /\ Cardinality(s) \in Nat
  BY FS_Subset, FS_CardinalityType
<1>2. Sizes \subseteq Nat /\ Sizes # {}
  BY <1>1
<1>3. PICK n \in Sizes : \A m \in Sizes : ~(m < n)
  BY <1>2, LeastNumber
<1>4. PICK s \in F : Cardinality(s) = n
  BY <1>3
<1>5. ASSUME NEW t \in SUBSET s, t # s PROVE t \notin F
  <2>1. Cardinality(t) \in Nat /\ Cardinality(t) <= n /\ Cardinality(t) # n
    BY <1>1, <1>4, <1>5, FS_Subset, FS_CardinalityType
  <2>2. Cardinality(t) < n /\ n \in Nat
    BY <1>1, <1>4, <2>1
  <2> QED BY <1>3, <2>2
<1> QED BY <1>4, <1>5

\* A set of subsets of S that holds {} and, with a subset, every subset with
\* one element more holds S.
LEMMA Growing ==
  ASSUME NEW S, IsFiniteSet(S), NEW G, {} \in G,
         \A t \in SUBSET S : \A x \in S : t \in G /\ x \notin t => t \cup {x} \in G
  PROVE  S \in G
<1> DEFINE F == {s \in SUBSET S : s \notin G}
<1>1. SUFFICES ASSUME F # {} PROVE FALSE
  OBVIOUS
<1>2. PICK s \in F : \A t \in SUBSET s : t # s => t \notin F
  <2>1. F \in SUBSET SUBSET S
    OBVIOUS
  <2> HIDE DEF F
  <2> QED BY <1>1, <2>1, Smallest
<1>3. PICK x \in s : TRUE
  BY <1>2
<1> DEFINE t == s \ {x}
<1>4. t \in SUBSET s /\ t # s /\ t \in SUBSET S /\ x \notin t /\ x \in S /\ t \cup {x} = s
  BY <1>2, <1>3
<1>5. t \in G
  BY <1>2, <1>4
<1> HIDE DEF t
<1>6. t \cup {x} \in G
  BY <1>4, <1>5
<1> QED BY <1>2, <1>4, <1>6

-----------------------------------------------------------------------------
(* Sums of integers over a finite set. *)

\* MapThenSumSet takes the elements of a set in the order CHOOSE gives.
Picked(s) == CHOOSE x \in s : TRUE

\* One round of the sum, g being the sums of the smaller sets, and a function
\* that is such a round at every subset of S.
Unfolded(f, g, s) == IF s = {} THEN 0 ELSE f[Picked(s)] + g[s \ {Picked(s)}]

IsSum(f, g, S) == g = [s \in SUBSET S |-> Unfolded(f, g, s)]

\* Sum, as the library defines it.
LEMMA SumChosen == ASSUME NEW f, NEW S PROVE Sum(f, S) = (CHOOSE g : IsSum(f, g, S))[S]
  BY DEF Sum, MapThenSumSet, MapThenFoldSet, IsSum, Unfolded, Picked

\* The chosen element is one of the set.
LEMMA PickedIn == ASSUME NEW s, s # {} PROVE Picked(s) \in s
  BY DEF Picked
\* There is one function of sums only.
LEMMA SumUnique ==
  ASSUME NEW f, NEW S, IsFiniteSet(S), NEW g, NEW h, IsSum(f, g, S), IsSum(f, h, S)
  PROVE  \A s \in SUBSET S : g[s] = h[s]
<1> DEFINE F == {s \in SUBSET S : g[s] # h[s]}
<1>1. SUFFICES ASSUME F # {} PROVE FALSE
  OBVIOUS
<1>2. PICK s \in F : \A t \in SUBSET s : t # s => t \notin F
  <2>1. F \in SUBSET SUBSET S
    OBVIOUS
  <2> HIDE DEF F
  <2> QED BY <1>1, <2>1, Smallest
<1>3. g[s] = Unfolded(f, g, s) /\ h[s] = Unfolded(f, h, s)
  BY <1>2 DEF IsSum
<1>4. CASE s = {}
  BY <1>2, <1>3, <1>4 DEF Unfolded
<1>5. CASE s # {}
  <2> DEFINE t == s \ {Picked(s)}
  <2>1. t \in SUBSET s /\ t # s /\ t \in SUBSET S
    BY <1>2, <1>5, PickedIn
  <2>2. g[t] = h[t]
    BY <1>2, <2>1
  <2> QED BY <1>2, <1>3, <1>5, <2>2 DEF Unfolded
<1> QED BY <1>4, <1>5

\* The recursion equation of Sum.
LEMMA SumUnfolds ==
  ASSUME NEW f, NEW S, IsFiniteSet(S)
  PROVE  Sum(f, S) = IF S = {} THEN 0 ELSE f[Picked(S)] + Sum(f, S \ {Picked(S)})
<1> DEFINE U(s) == IF s = {} THEN 0 ELSE f[Picked(s)] + Sum(f, s \ {Picked(s)})
           F == {s \in SUBSET S : Sum(f, s) # U(s)}
<1>1. SUFFICES ASSUME F # {} PROVE FALSE
  OBVIOUS
<1> HIDE DEF U
<1>2. PICK s \in F : \A t \in SUBSET s : t # s => t \notin F
  <2>1. F \in SUBSET SUBSET S
    OBVIOUS
  <2> HIDE DEF F
  <2> QED BY <1>1, <2>1, Smallest
<1> DEFINE h == [t \in SUBSET s |-> U(t)]
<1>3. ASSUME NEW t \in SUBSET s PROVE h[t] = Unfolded(f, h, t)
  <2>1. CASE t = {}
    BY <2>1 DEF U, Unfolded
  <2>2. CASE t # {}
    <3> DEFINE u == t \ {Picked(t)}
    <3>1. u \in SUBSET s /\ u # s /\ u \in SUBSET S
      BY <1>2, <1>3, <2>2, PickedIn
    <3>2. Sum(f, u) = U(u)
      BY <1>2, <3>1
    <3>3. h[u] = U(u)
      BY <3>1
    <3>4. U(t) = f[Picked(t)] + Sum(f, u)
      BY <2>2 DEF U
    <3> QED BY <1>3, <2>2, <3>2, <3>3, <3>4 DEF Unfolded
  <2> QED BY <2>1, <2>2
<1>4. IsSum(f, h, s)
  <2>1. h = [t \in SUBSET s |-> h[t]]
    OBVIOUS
  <2> HIDE DEF h
  <2> QED BY <1>3, <2>1 DEF IsSum
<1>5. s \in SUBSET S /\ IsFiniteSet(s)
  BY <1>2, FS_Subset
<1> DEFINE G == CHOOSE g : IsSum(f, g, s)
<1>6. IsSum(f, G, s)
  BY <1>4
<1>7. Sum(f, s) = G[s] /\ h[s] = U(s)
  BY SumChosen
<1> HIDE DEF G, h
<1>8. G[s] = h[s]
  BY <1>4, <1>5, <1>6, SumUnique
<1> QED BY <1>2, <1>7, <1>8

\* A sum of integers is an integer.
LEMMA SumInt ==
  ASSUME NEW f, NEW S, IsFiniteSet(S), \A x \in S : f[x] \in Int
  PROVE  Sum(f, S) \in Int
<1> DEFINE F == {s \in SUBSET S : Sum(f, s) \notin Int}
<1>1. SUFFICES ASSUME F # {} PROVE FALSE
  OBVIOUS
<1>2. PICK s \in F : \A t \in SUBSET s : t # s => t \notin F
  <2>1. F \in SUBSET SUBSET S
    OBVIOUS
  <2> HIDE DEF F
  <2> QED BY <1>1, <2>1, Smallest
<1>3. s \in SUBSET S /\ IsFiniteSet(s)
  BY <1>2, FS_Subset
<1>4. CASE s = {}
  <2>1. Sum(f, s) = 0
    BY <1>3, <1>4, SumUnfolds
  <2> QED BY <1>2, <2>1
<1>5. CASE s # {}
  <2>1. Picked(s) \in s /\ f[Picked(s)] \in Int
    BY <1>3, <1>5, PickedIn
  <2>2. Sum(f, s \ {Picked(s)}) \in Int
    <3>1. s \ {Picked(s)} \in SUBSET s /\ s \ {Picked(s)} # s /\ s \ {Picked(s)} \in SUBSET S
      BY <1>3, <2>1
    <3> QED BY <1>2, <3>1
  <2>3. Sum(f, s) = f[Picked(s)] + Sum(f, s \ {Picked(s)})
    BY <1>3, <1>5, SumUnfolds
  <2> QED BY <1>2, <2>1, <2>2, <2>3
<1> QED BY <1>4, <1>5

\* The order does not matter: any element may be taken out of the sum.
LEMMA SumRemove ==
  ASSUME NEW f, NEW S, IsFiniteSet(S), \A x \in S : f[x] \in Int, NEW x \in S
  PROVE  Sum(f, S) = Sum(f, S \ {x}) + f[x]
<1> DEFINE F == {s \in SUBSET S : \E y \in s : Sum(f, s) # Sum(f, s \ {y}) + f[y]}
<1>1. SUFFICES ASSUME F # {} PROVE FALSE
  OBVIOUS
<1>2. PICK s \in F : \A t \in SUBSET s : t # s => t \notin F
  <2>1. F \in SUBSET SUBSET S
    OBVIOUS
  <2> HIDE DEF F
  <2> QED BY <1>1, <2>1, Smallest
<1>3. PICK y \in s : Sum(f, s) # Sum(f, s \ {y}) + f[y]
  BY <1>2
<1>4. s \in SUBSET S /\ IsFiniteSet(s)
  BY <1>2, FS_Subset
<1> DEFINE a == Picked(s)
<1>5. a \in s /\ Sum(f, s) = f[a] + Sum(f, s \ {a})
  BY <1>3, <1>4, PickedIn, SumUnfolds
<1> HIDE DEF a
<1>6. \A t \in SUBSET s : Sum(f, t) \in Int
  BY <1>4, FS_Subset, SumInt
<1>7. f[a] \in Int /\ f[y] \in Int
  BY <1>3, <1>4, <1>5
<1>8. a # y
  <2>1. Sum(f, s \ {a}) \in Int
    BY <1>6
  <2>2. Sum(f, s) = Sum(f, s \ {a}) + f[a]
    BY <1>5, <1>7, <2>1
  <2> QED BY <1>3, <2>2
<1> DEFINE u == (s \ {a}) \ {y}
<1>9. Sum(f, s \ {a}) = Sum(f, u) + f[y]
  <2>1. s \ {a} \in SUBSET s /\ s \ {a} # s /\ s \ {a} \in SUBSET S /\ y \in s \ {a}
    BY <1>3, <1>4, <1>5, <1>8
  <2> QED BY <1>2, <2>1
<1>10. Sum(f, s \ {y}) = Sum(f, u) + f[a]
  <2>1. s \ {y} \in SUBSET s /\ s \ {y} # s /\ s \ {y} \in SUBSET S /\ a \in s \ {y}
    BY <1>3, <1>4, <1>5, <1>8
  <2>2. (s \ {y}) \ {a} = u
    OBVIOUS
  <2>3. Sum(f, s \ {y}) = Sum(f, (s \ {y}) \ {a}) + f[a]
    BY <1>2, <2>1
  <2> QED BY <2>2, <2>3
<1>11. Sum(f, u) \in Int
  BY <1>6
<1> QED BY <1>3, <1>5, <1>7, <1>9, <1>10, <1>11


\* Nothing sums to 0.
LEMMA SumEmpty == ASSUME NEW f PROVE Sum(f, {}) = 0
  BY FS_EmptySet, SumUnfolds

\* An element that is added counts once.
LEMMA SumAdd ==
  ASSUME NEW f, NEW S, IsFiniteSet(S), \A x \in S : f[x] \in Int,
         NEW x, x \notin S, f[x] \in Int
  PROVE  Sum(f, S \cup {x}) = Sum(f, S) + f[x]
<1>1. IsFiniteSet(S \cup {x})
  BY FS_AddElement
<1>2. (S \cup {x}) \ {x} = S /\ \A y \in S \cup {x} : f[y] \in Int
  OBVIOUS
<1>3. Sum(f, S \cup {x}) = Sum(f, (S \cup {x}) \ {x}) + f[x]
  BY <1>1, <1>2, SumRemove
<1> QED BY <1>2, <1>3

\* Functions that agree on a set have the same sum over it.
LEMMA SumSame ==
  ASSUME NEW f, NEW g, NEW S, IsFiniteSet(S),
         \A x \in S : f[x] \in Int /\ g[x] = f[x]
  PROVE  Sum(g, S) = Sum(f, S)
<1> DEFINE G == {s \in SUBSET S : Sum(g, s) = Sum(f, s)}
<1>1. {} \in G
  BY SumEmpty
<1>2. ASSUME NEW t \in SUBSET S, NEW x \in S, t \in G, x \notin t PROVE t \cup {x} \in G
  <2>1. IsFiniteSet(t)
    BY FS_Subset
  <2>2. Sum(f, t \cup {x}) = Sum(f, t) + f[x]
    BY <1>2, <2>1, SumAdd
  <2>3. Sum(g, t \cup {x}) = Sum(g, t) + g[x]
    BY <1>2, <2>1, SumAdd
  <2> QED BY <1>2, <2>2, <2>3
<1>3. S \in G
  <2> HIDE DEF G
  <2> QED BY <1>1, <1>2, Growing
<1> QED BY <1>3

\* The sum of sums.
LEMMA SumPlus ==
  ASSUME NEW f, NEW g, NEW h, NEW S, IsFiniteSet(S),
         \A x \in S : f[x] \in Int /\ g[x] \in Int /\ h[x] = f[x] + g[x]
  PROVE  Sum(h, S) = Sum(f, S) + Sum(g, S)
<1> DEFINE G == {s \in SUBSET S : Sum(h, s) = Sum(f, s) + Sum(g, s)}
<1>1. {} \in G
  BY SumEmpty
<1>2. ASSUME NEW t \in SUBSET S, NEW x \in S, t \in G, x \notin t PROVE t \cup {x} \in G
  <2>1. IsFiniteSet(t)
    BY FS_Subset
  <2>2. Sum(f, t \cup {x}) = Sum(f, t) + f[x] /\ Sum(f, t) \in Int
    BY <1>2, <2>1, SumAdd, SumInt
  <2>3. Sum(g, t \cup {x}) = Sum(g, t) + g[x] /\ Sum(g, t) \in Int
    BY <1>2, <2>1, SumAdd, SumInt
  <2>4. \A y \in S : h[y] \in Int
    OBVIOUS
  <2>5. Sum(h, t \cup {x}) = Sum(h, t) + h[x]
    BY <1>2, <2>1, <2>4, SumAdd
  <2>6. Sum(h, t) = Sum(f, t) + Sum(g, t)
    BY <1>2
  <2>7. Sum(h, t \cup {x}) = Sum(f, t \cup {x}) + Sum(g, t \cup {x})
    BY <1>2, <2>2, <2>3, <2>5, <2>6
  <2> QED BY <1>2, <2>7
<1>3. S \in G
  <2> HIDE DEF G
  <2> QED BY <1>1, <1>2, Growing
<1> QED BY <1>3

\* The sum over two sets with nothing in common.
LEMMA SumDisjoint ==
  ASSUME NEW f, NEW A, NEW B, IsFiniteSet(A), IsFiniteSet(B), A \cap B = {},
         \A x \in A \cup B : f[x] \in Int
  PROVE  Sum(f, A \cup B) = Sum(f, A) + Sum(f, B)
<1> DEFINE G == {s \in SUBSET B : Sum(f, A \cup s) = Sum(f, A) + Sum(f, s)}
<1>1. {} \in G
  <2>1. Sum(f, A) \in Int
    BY SumInt
  <2>2. A \cup {} = A
    OBVIOUS
  <2> QED BY <2>1, <2>2, SumEmpty
<1>2. ASSUME NEW t \in SUBSET B, NEW x \in B, t \in G, x \notin t PROVE t \cup {x} \in G
  <2>1. IsFiniteSet(t)
    BY FS_Subset
  <2>2. IsFiniteSet(A \cup t)
    BY <2>1, FS_Union
  <2>3. Sum(f, t \cup {x}) = Sum(f, t) + f[x]
    BY <1>2, <2>1, SumAdd
  <2>4. Sum(f, (A \cup t) \cup {x}) = Sum(f, A \cup t) + f[x]
    BY <1>2, <2>2, SumAdd
  <2>5. (A \cup t) \cup {x} = A \cup (t \cup {x})
    OBVIOUS
  <2>6. Sum(f, A \cup t) = Sum(f, A) + Sum(f, t)
    BY <1>2
  <2>7. Sum(f, A) \in Int /\ Sum(f, t) \in Int /\ f[x] \in Int
    BY <2>1, SumInt
  <2>8. Sum(f, A \cup (t \cup {x})) = Sum(f, A) + Sum(f, t \cup {x})
    <3>1. Sum(f, A \cup (t \cup {x})) = Sum(f, A \cup t) + f[x]
      BY <2>4, <2>5, Zenon
    <3> QED BY <2>3, <2>6, <2>7, <3>1
  <2> QED BY <1>2, <2>8
<1>3. B \in G
  <2> HIDE DEF G
  <2> QED BY <1>1, <1>2, Growing
<1> QED BY <1>3

\* A sum of terms of at most b.
LEMMA SumAtMost ==
  ASSUME NEW f, NEW S, IsFiniteSet(S), NEW b \in Int,
         \A x \in S : f[x] \in Int /\ f[x] <= b
  PROVE  Sum(f, S) <= Cardinality(S) * b
<1> DEFINE G == {s \in SUBSET S : Sum(f, s) <= Cardinality(s) * b}
<1>1. {} \in G
  <2>1. Sum(f, {}) = 0 /\ Cardinality({}) = 0
    BY SumEmpty, FS_EmptySet
  <2> QED BY <2>1
<1>2. ASSUME NEW t \in SUBSET S, NEW x \in S, t \in G, x \notin t PROVE t \cup {x} \in G
  <2>1. IsFiniteSet(t) /\ Cardinality(t) \in Nat
    BY FS_Subset, FS_CardinalityType
  <2>2. Sum(f, t \cup {x}) = Sum(f, t) + f[x] /\ Sum(f, t) \in Int
    BY <1>2, <2>1, SumAdd, SumInt
  <2>3. Cardinality(t \cup {x}) = Cardinality(t) + 1
    BY <1>2, <2>1, FS_AddElement
  <2>4. (Cardinality(t) + 1) * b = Cardinality(t) * b + b
    BY <2>1
  <2>5. Sum(f, t) <= Cardinality(t) * b /\ f[x] <= b /\ f[x] \in Int
    BY <1>2
  <2>6. Sum(f, t \cup {x}) <= Cardinality(t \cup {x}) * b
    BY <2>1, <2>2, <2>3, <2>4, <2>5
  <2> QED BY <1>2, <2>6
<1>3. S \in G
  <2> HIDE DEF G
  <2> QED BY <1>1, <1>2, Growing
<1> QED BY <1>3

\* A sum of terms of at least 0, and that a part of it is no larger.
LEMMA SumOfNaturals ==
  ASSUME NEW f, NEW S, IsFiniteSet(S), \A x \in S : f[x] \in Nat
  PROVE  /\ Sum(f, S) \in Nat
         /\ \A A \in SUBSET S : Sum(f, A) <= Sum(f, S)
<1> DEFINE G == {s \in SUBSET S : Sum(f, s) \in Nat}
<1>1. {} \in G
  BY SumEmpty
<1>2. ASSUME NEW t \in SUBSET S, NEW x \in S, t \in G, x \notin t PROVE t \cup {x} \in G
  <2>1. IsFiniteSet(t)
    BY FS_Subset
  <2>2. Sum(f, t \cup {x}) = Sum(f, t) + f[x]
    BY <1>2, <2>1, SumAdd
  <2> QED BY <1>2, <2>2
<1>3. ASSUME NEW A \in SUBSET S PROVE Sum(f, A) \in Nat
  <2>1. IsFiniteSet(A)
    BY FS_Subset
  <2>2. \A t \in SUBSET A : \A x \in A : t \in G /\ x \notin t => t \cup {x} \in G
    BY <1>2
  <2>3. A \in G
    <3> HIDE DEF G
    <3> QED BY <1>1, <2>1, <2>2, Growing
  <2> QED BY <2>3
<1>4. ASSUME NEW A \in SUBSET S PROVE Sum(f, A) <= Sum(f, S)
  <2>1. IsFiniteSet(A) /\ IsFiniteSet(S \ A)
    BY FS_Subset
  <2>2. A \cap (S \ A) = {} /\ A \cup (S \ A) = S
    OBVIOUS
  <2>3. Sum(f, A \cup (S \ A)) = Sum(f, A) + Sum(f, S \ A)
    BY <2>1, <2>2, SumDisjoint
  <2>4. Sum(f, S) = Sum(f, A) + Sum(f, S \ A)
    BY <2>2, <2>3, Zenon
  <2>5. Sum(f, A) \in Nat /\ Sum(f, S \ A) \in Nat
    BY <1>3
  <2> QED BY <2>4, <2>5
<1> QED BY <1>3, <1>4

-----------------------------------------------------------------------------
(* The list of healthy providers. *)

\* The configured providers and their positions.
LEMMA ProvidersListed ==
  /\ Len(Providers) \in Nat
  /\ DOMAIN Providers = 1 .. Len(Providers)
  /\ \A i \in 1 .. Len(Providers) : Providers[i] \in P /\ Index(Providers, Providers[i]) = i
  /\ \A p \in P : \E i \in 1 .. Len(Providers) : Providers[i] = p
<1>1. Providers \in Seq(P) /\ IsInjective(Providers)
  BY RoutingAssumption
<1>2. Len(Providers) \in Nat /\ DOMAIN Providers = 1 .. Len(Providers)
  BY <1>1
<1>3. \A p \in P : \E i \in 1 .. Len(Providers) : Providers[i] = p
  BY <1>2 DEF P, Range
<1>4. ASSUME NEW i \in 1 .. Len(Providers)
      PROVE  Providers[i] \in P /\ Index(Providers, Providers[i]) = i
  <2>1. Providers[i] \in P
    BY <1>2 DEF P, Range
  <2>2. \A j \in DOMAIN Providers : Providers[j] = Providers[i] => j = i
    BY <1>1, <1>2 DEF IsInjective
  <2>3. \E j \in DOMAIN Providers : Providers[j] = Providers[i]
    BY <1>2
  <2>4. Index(Providers, Providers[i]) \in DOMAIN Providers
        /\ Providers[Index(Providers, Providers[i])] = Providers[i]
    BY <2>3 DEF Index
  <2> QED BY <2>1, <2>2, <2>4
<1> QED BY <1>2, <1>3, <1>4

\* There are as many of them as the list is long.
LEMMA ProvidersCounted == IsFiniteSet(P) /\ Cardinality(P) = Len(Providers)
<1> DEFINE Pre(n) == {Providers[i] : i \in 1 .. n}
           T == {n \in Nat : n <= Len(Providers) => IsFiniteSet(Pre(n)) /\ Cardinality(Pre(n)) = n}
<1>1. 0 \in T
  <2>1. Pre(0) = {}
    OBVIOUS
  <2> QED BY <2>1, FS_EmptySet
<1>2. ASSUME NEW n \in Nat, n \in T PROVE n + 1 \in T
  <2>1. SUFFICES ASSUME n + 1 <= Len(Providers)
                 PROVE  IsFiniteSet(Pre(n + 1)) /\ Cardinality(Pre(n + 1)) = n + 1
    <3> HIDE DEF Pre
    <3> QED OBVIOUS
  <2> DEFINE s == Pre(n)
             x == Providers[n + 1]
  <2>2. IsFiniteSet(s) /\ Cardinality(s) = n
    <3> HIDE DEF Pre
    <3> QED BY <1>2, <2>1, ProvidersListed
  <2>3. x \notin s
    BY <2>1, ProvidersListed
  <2>4. Pre(n + 1) = s \cup {x}
    <3>1. 1 .. n + 1 = (1 .. n) \cup {n + 1}
      OBVIOUS
    <3> QED BY <3>1
  <2> HIDE DEF s, x
  <2>5. IsFiniteSet(s \cup {x}) /\ Cardinality(s \cup {x}) = n + 1
    BY <2>2, <2>3, FS_AddElement
  <2> QED BY <2>4, <2>5
<1>3. Len(Providers) \in T
  <2>1. \A n \in Nat : n \in T
    <3> HIDE DEF T
    <3> QED BY <1>1, <1>2, Counting
  <2> QED BY <2>1, ProvidersListed
<1>4. P = Pre(Len(Providers))
  BY ProvidersListed DEF P, Range
<1> HIDE DEF Pre
<1> QED BY <1>3, <1>4, ProvidersListed

\* A list of the members of S in the configured order.
Listing(list, S) ==
    /\ list \in [1 .. Cardinality(S) -> S]
    /\ Range(list) = S
    /\ \A i, j \in DOMAIN list :
         i < j => Index(Providers, list[i]) < Index(Providers, list[j])

\* Any set of providers can be listed in that order.
LEMMA ListingExists == ASSUME NEW S \in SUBSET P PROVE \E list : Listing(list, S)
<1> DEFINE Among(n) == {p \in S : Index(Providers, p) <= n}
           Listed(n) == \E list : Listing(list, Among(n))
           T == {n \in Nat : n <= Len(Providers) => Listed(n)}
<1>0. \A p \in P : Index(Providers, p) \in 1 .. Len(Providers)
  BY ProvidersListed
<1>1. 0 \in T
  <2>1. Among(0) = {}
    BY <1>0
  <2>2. Listing(<<>>, {})
    BY FS_EmptySet DEF Listing, Range
  <2> QED BY <2>1, <2>2
<1>2. ASSUME NEW n \in Nat, n \in T PROVE n + 1 \in T
  <2>1. SUFFICES ASSUME n + 1 <= Len(Providers) PROVE Listed(n + 1)
    <3> HIDE DEF Listed
    <3> QED OBVIOUS
  <2> DEFINE x == Providers[n + 1]
  <2>2. x \in P /\ Index(Providers, x) = n + 1 /\ \A p \in P : Index(Providers, p) = n + 1 => p = x
    BY <2>1, ProvidersListed
  <2>3. PICK list : Listing(list, Among(n))
    <3>1. Listed(n)
      <4> HIDE DEF Listed
      <4> QED BY <1>2, <2>1, ProvidersListed
    <3> QED BY <3>1
  <2>4. CASE x \notin S
    <3>1. Among(n + 1) = Among(n)
      BY <1>0, <2>2, <2>4
    <3> QED BY <2>3, <3>1
  <2>5. CASE x \in S
    <3> DEFINE A == Among(n)
               k == Cardinality(A)
               longer == [i \in 1 .. k + 1 |-> IF i = k + 1 THEN x ELSE list[i]]
    <3>1. Among(n + 1) = A \cup {x} /\ x \notin A
      BY <1>0, <2>2, <2>5
    <3>2. IsFiniteSet(A) /\ k \in Nat
      <4>1. A \in SUBSET P
        OBVIOUS
      <4> QED BY <4>1, ProvidersCounted, FS_Subset, FS_CardinalityType
    <3>3. Cardinality(A \cup {x}) = k + 1
      BY <3>1, <3>2, FS_AddElement
    <3>4. \A p \in A : Index(Providers, p) \in Nat /\ Index(Providers, p) < n + 1
      BY <1>0
    <3>5. Listing(list, A)
      BY <2>3
    <3> HIDE DEF A, k, x, Among
    <3>6. list \in [1 .. k -> A] /\ Range(list) = A
      BY <3>5 DEF Listing, k
    <3>7. longer \in [1 .. k + 1 -> A \cup {x}]
      BY <3>2, <3>6
    <3>8. Range(longer) = A \cup {x}
      <4>1. ASSUME NEW p \in A PROVE p \in Range(longer)
        <5>1. PICK i \in 1 .. k : list[i] = p
          BY <3>6 DEF Range
        <5>2. i \in 1 .. k + 1 /\ longer[i] = p
          BY <3>2, <5>1
        <5> QED BY <5>2 DEF Range
      <4>2. x \in Range(longer)
        <5>1. k + 1 \in 1 .. k + 1 /\ longer[k + 1] = x
          BY <3>2
        <5> QED BY <5>1 DEF Range
      <4>3. Range(longer) \subseteq A \cup {x}
        BY <3>7 DEF Range
      <4> QED BY <4>1, <4>2, <4>3
    <3>9. ASSUME NEW i \in 1 .. k + 1, NEW j \in 1 .. k + 1, i < j
          PROVE  Index(Providers, longer[i]) < Index(Providers, longer[j])
      <4>1. i \in 1 .. k /\ longer[i] = list[i] /\ list[i] \in A
        BY <3>2, <3>6, <3>9
      <4>2. CASE j = k + 1
        BY <2>2, <3>2, <3>4, <4>1, <4>2
      <4>3. CASE j # k + 1
        <5>1. j \in 1 .. k /\ longer[j] = list[j]
          BY <3>2, <4>3
        <5> QED BY <3>5, <3>6, <3>9, <4>1, <5>1 DEF Listing
      <4> QED BY <4>2, <4>3
    <3>10. DOMAIN longer = 1 .. k + 1
      OBVIOUS
    <3> HIDE DEF longer
    <3>11. Listing(longer, A \cup {x})
      BY <3>3, <3>7, <3>8, <3>9, <3>10 DEF Listing
    <3> QED BY <3>1, <3>11
  <2> QED BY <2>4, <2>5
<1>3. Len(Providers) \in T
  <2>1. \A n \in Nat : n \in T
    <3> HIDE DEF T
    <3> QED BY <1>1, <1>2, Counting
  <2> QED BY <2>1, ProvidersListed
<1>4. Among(Len(Providers)) = S
  BY <1>0, ProvidersListed
<1>5. Listed(Len(Providers))
  <2> HIDE DEF Listed
  <2> QED BY <1>3, ProvidersListed
<1> QED BY <1>4, <1>5

\* What InOrder returns: every member of S, once.
LEMMA InOrderLists ==
  ASSUME NEW S \in SUBSET P
  PROVE  /\ IsFiniteSet(S) /\ Cardinality(S) \in Nat /\ Cardinality(S) <= Len(Providers)
         /\ InOrder(S) \in Seq(S)
         /\ Len(InOrder(S)) = Cardinality(S)
         /\ DOMAIN InOrder(S) = 1 .. Cardinality(S)
         /\ Range(InOrder(S)) = S
         /\ \A i, j \in 1 .. Cardinality(S) : InOrder(S)[i] = InOrder(S)[j] => i = j
<1>1. IsFiniteSet(S) /\ Cardinality(S) \in Nat /\ Cardinality(S) <= Len(Providers)
  BY ProvidersCounted, FS_Subset, FS_CardinalityType
<1> DEFINE list == InOrder(S)
<1>2. Listing(list, S)
  <2>1. list = CHOOSE l \in [1 .. Cardinality(S) -> S] :
                 /\ Range(l) = S
                 /\ \A i, j \in DOMAIN l : i < j => Index(Providers, l[i]) < Index(Providers, l[j])
    BY DEF InOrder
  <2>2. PICK l : Listing(l, S)
    BY ListingExists
  <2> HIDE DEF list
  <2> QED BY <2>1, <2>2 DEF Listing
<1> HIDE DEF list
<1>3. list \in [1 .. Cardinality(S) -> S] /\ Range(list) = S /\ DOMAIN list = 1 .. Cardinality(S)
  BY <1>2 DEF Listing
<1>4. list \in Seq(S) /\ Len(list) = Cardinality(S)
  BY <1>1, <1>3
<1>5. \A p \in P : Index(Providers, p) \in Nat
  BY ProvidersListed
<1>6. ASSUME NEW i \in 1 .. Cardinality(S), NEW j \in 1 .. Cardinality(S), list[i] = list[j]
      PROVE  i = j
  <2>1. list[i] \in P /\ Index(Providers, list[i]) \in Nat
    BY <1>3, <1>5
  <2>2. ~(i < j) /\ ~(j < i)
    BY <1>2, <1>3, <1>6, <2>1 DEF Listing
  <2> QED BY <1>1, <2>2
<1> QED BY <1>1, <1>3, <1>4, <1>6 DEF list

-----------------------------------------------------------------------------
(* Rates and weights. *)

\* A share of at most one of Scale units.
LEMMA ShareInRange ==
  ASSUME NEW g \in Nat, NEW l \in Nat \ {0}, NEW u \in Nat, g <= l
  PROVE  (g * u) \div l \in 0 .. u
<1> DEFINE q == (g * u) \div l
<1>1. g * u \in Nat /\ g * u <= l * u
  OBVIOUS
<1>2. q \in Int /\ l * q <= g * u /\ g * u < l * q + l
  BY <1>1
<1> HIDE DEF q
<1>3. q <= u
  <2>1. SUFFICES ASSUME u + 1 <= q PROVE FALSE
    BY <1>2
  <2>2. l * (u + 1) <= l * q
    BY <1>2, <2>1
  <2>3. l * (u + 1) = l * u + l
    OBVIOUS
  <2> QED BY <1>1, <1>2, <2>2, <2>3
<1>4. 0 <= q
  <2>1. SUFFICES ASSUME q + 1 <= 0 PROVE FALSE
    BY <1>2
  <2>2. l * (q + 1) <= 0
    BY <1>2, <2>1
  <2>3. l * (q + 1) = l * q + l
    BY <1>2
  <2> QED BY <1>1, <1>2, <2>2, <2>3
<1>5. q \in 0 .. u
  BY <1>2, <1>3, <1>4
<1> QED BY <1>5 DEF q

\* A success rate is between 0 and 1.
LEMMA SuccessRateInRange ==
  ASSUME NEW w \in Seq(Outcomes)
  PROVE  SuccessRate(w) \in 0 .. Scale
<1>1. CASE w = <<>>
  BY <1>1, RoutingAssumption DEF SuccessRate
<1>2. CASE w # <<>>
  <2>1. Len(w) \in Nat \ {0} /\ DOMAIN w = 1 .. Len(w)
    BY <1>2
  <2>2. IsFiniteSet(1 .. Len(w)) /\ Cardinality(1 .. Len(w)) = Len(w)
    BY <2>1, FS_Interval
  <2>3. {i \in DOMAIN w : w[i].ok} \subseteq 1 .. Len(w)
    BY <2>1
  <2>4. Good(w) \in Nat /\ Good(w) <= Len(w)
    BY <2>2, <2>3, FS_Subset, FS_CardinalityType DEF Good
  <2>5. Scale \in Nat
    BY RoutingAssumption
  <2>6. (Good(w) * Scale) \div Len(w) \in 0 .. Scale
    BY <2>1, <2>4, <2>5, ShareInRange
  <2> QED BY <1>2, <2>6 DEF SuccessRate
<1> QED BY <1>1, <1>2

\* So is a weight.
LEMMA WeightInRange ==
  ASSUME NEW p, recent[p] \in Seq(Outcomes)
  PROVE  Weight(p) \in 0 .. Scale
<1>1. Scale \in Nat /\ Scale \div 20 \in 0 .. Scale
  BY RoutingAssumption
<1>2. SuccessRate(recent[p]) \in 0 .. Scale
  BY SuccessRateInRange
<1> QED BY <1>1, <1>2 DEF Weight

-----------------------------------------------------------------------------
(* The provider with the highest credit. *)

\* The order of pairs.
LEMMA LexPair ==
  ASSUME NEW a, NEW b, NEW c, NEW d
  PROVE  LexLess(<<a, b>>, <<c, d>>) <=> a < c \/ (a = c /\ b < d)
<1> DEFINE x == <<a, b>>
           y == <<c, d>>
<1>1. DOMAIN x = {1, 2} /\ x[1] = a /\ x[2] = b /\ y[1] = c /\ y[2] = d
  OBVIOUS
<1>2. 1 .. 1 - 1 = {} /\ 1 .. 2 - 1 = {1}
  OBVIOUS
<1> HIDE DEF x, y
<1>3. LexLess(x, y) <=> \/ x[1] < y[1] /\ \A j \in 1 .. 1 - 1 : x[j] = y[j]
                        \/ x[2] < y[2] /\ \A j \in 1 .. 2 - 1 : x[j] = y[j]
  BY <1>1 DEF LexLess
<1>4. LexLess(x, y) <=> a < c \/ (a = c /\ b < d)
  BY <1>1, <1>2, <1>3
<1> QED BY <1>4 DEF x, y

\* min of pairs (score, position) whose positions differ: there is a first
\* one, and no score is less than its score.
LEMMA FirstIsLeast ==
  ASSUME NEW S, IsFiniteSet(S), S # {}, NEW v, NEW o,
         \A p \in S : v[p] \in Int /\ o[p] \in Int,
         \A p, q \in S : o[p] = o[q] => p = q
  PROVE  LET f == First([p \in S |-> <<v[p], o[p]>>]) IN
         f \in S /\ \A q \in S : v[f] <= v[q]
<1> DEFINE Before(p, q) == v[p] < v[q] \/ (v[p] = v[q] /\ o[p] < o[q])
           HasFirst(t) == t = {} \/ \E p \in t : \A q \in t \ {p} : Before(p, q)
           G == {t \in SUBSET S : HasFirst(t)}
<1>1. ASSUME NEW t \in SUBSET S, NEW x \in S, t \in G, x \notin t PROVE t \cup {x} \in G
  <2>1. CASE t = {}
    BY <2>1
  <2>2. CASE t # {}
    <3>1. PICK p \in t : \A q \in t \ {p} : Before(p, q)
      BY <1>1, <2>2
    <3>2. CASE Before(p, x)
      <4>1. \A q \in (t \cup {x}) \ {p} : Before(p, q)
        <5> HIDE DEF Before
        <5> QED BY <3>1, <3>2
      <4> QED BY <3>1, <4>1
    <3>3. CASE ~Before(p, x)
      <4>1. Before(x, p)
        BY <1>1, <3>1, <3>3
      <4>2. \A q \in t \ {p} : Before(x, q)
        BY <3>1, <4>1
      <4>3. \A q \in (t \cup {x}) \ {x} : Before(x, q)
        <5> HIDE DEF Before
        <5> QED BY <4>1, <4>2
      <4> QED BY <4>3
    <3> QED BY <3>2, <3>3
  <2> QED BY <2>1, <2>2
<1>2. S \in G
  <2>1. {} \in G
    OBVIOUS
  <2> HIDE DEF G
  <2> QED BY <1>1, <2>1, Growing
<1>3. PICK p \in S : \A q \in S \ {p} : Before(p, q)
  BY <1>2
<1> DEFINE key == [r \in S |-> <<v[r], o[r]>>]
           f == First(key)
<1>4. DOMAIN key = S /\ \A r, q \in S : LexLess(key[r], key[q]) <=> Before(r, q)
  BY LexPair
<1>5. f \in S /\ \A q \in S \ {f} : LexLess(key[f], key[q])
  <2>1. \A q \in DOMAIN key \ {p} : LexLess(key[p], key[q])
    <3> HIDE DEF Before, key
    <3> QED BY <1>3, <1>4
  <2>2. p \in DOMAIN key
    BY <1>4
  <2>3. f = CHOOSE r \in DOMAIN key : \A q \in DOMAIN key \ {r} : LexLess(key[r], key[q])
    BY DEF First
  <2> HIDE DEF f, key
  <2>4. f \in DOMAIN key /\ \A q \in DOMAIN key \ {f} : LexLess(key[f], key[q])
    BY <2>1, <2>2, <2>3
  <2> QED BY <1>4, <2>4
<1>6. ASSUME NEW q \in S PROVE v[f] <= v[q]
  <2>1. CASE q = f
    BY <1>5, <2>1
  <2>2. CASE q # f
    <3>1. Before(f, q)
      <4> HIDE DEF Before, key, f
      <4> QED BY <1>4, <1>5, <2>2
    <3>2. f \in S
      BY <1>5
    <3> HIDE DEF key, f
    <3> QED BY <3>1, <3>2
  <2> QED BY <2>1, <2>2
<1> QED BY <1>5, <1>6

-----------------------------------------------------------------------------
(* Credits stay bounded, whatever lists and weights the choices meet. *)

\* The most that k of n providers can have together.
Room(k) == Scale * (k * (Len(Providers) - k))

\* No set of providers has more than its size allows, and all of them
\* together have nothing.  A bound on single credits would not be kept: the
\* step needs the sums of the larger and of the smaller sets.
WithinRoom(c) ==
    /\ c \in [P -> Int]
    /\ Sum(c, P) = 0
    /\ \A A \in SUBSET P : Sum(c, A) <= Room(Cardinality(A))

\* The arithmetic of the step: X is what a set of k providers gets, j of them
\* from the list, and Y what the chosen one had, which is in the list but
\* not in the set.
LEMMA RoomShared ==
  ASSUME NEW k \in Int, NEW j \in Int, NEW n \in Int, NEW u \in Int, NEW X \in Int, NEW Y \in Int,
         j >= 0,
         X <= u * ((k - j) * (n - (k - j))) + j * Y,
         X + Y <= u * ((k + 1) * (n - (k + 1))) + (j + 1) * u
  PROVE  X <= u * (k * (n - k))
<1> DEFINE Z == u * ((k + 1) * (n - (k + 1))) + (j + 1) * u
           F == u * (k * (n - k))
           E == u * ((k - j) * (n - (k - j)))
<1>1. Z \in Int /\ F \in Int /\ E \in Int
  OBVIOUS
<1>2. E + j * Z = (1 + j) * F
  OBVIOUS
<1>3. X <= E + j * Y /\ X + Y <= Z
  OBVIOUS
<1> HIDE DEF Z, F, E
<1>4. j * (X + Y) <= j * Z
  BY <1>1, <1>3
<1>5. j * (X + Y) = j * X + j * Y /\ (1 + j) * X = X + j * X
  OBVIOUS
<1>6. (1 + j) * X <= (1 + j) * F
  BY <1>1, <1>2, <1>3, <1>4, <1>5
<1>7. X <= F
  BY <1>1, <1>6
<1> QED BY <1>7 DEF F

\* The members of the list S get their weights w, then m pays t.
Gets(h, c, w, S) == \A p \in P : h[p] = IF p \in S THEN c[p] + w[p] ELSE c[p]
Pays(x, h, m, t) == x = [h EXCEPT ![m] = @ - t]

\* What a set has once the members of the list got their weights.
LEMMA CreditedSum ==
  ASSUME NEW c \in [P -> Int], NEW w \in [P -> Int], NEW h \in [P -> Int], NEW S \in SUBSET P,
         Gets(h, c, w, S), NEW A \in SUBSET P
  PROVE  Sum(h, A) = Sum(c, A) + Sum(w, A \cap S)
<1> DEFINE B == A \cap S
           D == A \ S
<1>1. IsFiniteSet(B) /\ IsFiniteSet(D)
  <2>1. B \in SUBSET P /\ D \in SUBSET P
    OBVIOUS
  <2> QED BY <2>1, ProvidersCounted, FS_Subset
<1>2. D \cap B = {} /\ D \cup B = A
  OBVIOUS
<1>3. \A p \in D : h[p] = c[p] /\ c[p] \in Int /\ h[p] \in Int
  BY DEF Gets
<1>4. \A p \in B : h[p] = c[p] + w[p] /\ c[p] \in Int /\ w[p] \in Int /\ h[p] \in Int
  BY DEF Gets
<1> HIDE DEF B, D
<1>5. Sum(h, D) = Sum(c, D) /\ Sum(c, D) \in Int
  BY <1>1, <1>3, SumSame, SumInt
<1>6. Sum(h, B) = Sum(c, B) + Sum(w, B)
  BY <1>1, <1>4, SumPlus
<1>7. Sum(c, B) \in Int /\ Sum(w, B) \in Int
  BY <1>1, <1>4, SumInt
<1>8. Sum(h, D \cup B) = Sum(h, D) + Sum(h, B)
  BY <1>1, <1>2, <1>3, <1>4, SumDisjoint
<1>9. Sum(c, D \cup B) = Sum(c, D) + Sum(c, B)
  BY <1>1, <1>2, <1>3, <1>4, SumDisjoint
<1>10. Sum(h, A) = Sum(h, D \cup B) /\ Sum(c, A) = Sum(c, D \cup B)
  BY <1>2, Zenon
<1>11. Sum(h, A) = Sum(c, A) + Sum(w, B)
  BY <1>5, <1>6, <1>7, <1>8, <1>9, <1>10
<1> QED BY <1>11 DEF B

\* What it has once the chosen provider m paid t.
LEMMA ChargedSum ==
  ASSUME NEW h \in [P -> Int], NEW m \in P, NEW t \in Int, NEW x,
         Pays(x, h, m, t), NEW A \in SUBSET P
  PROVE  Sum(x, A) = IF m \in A THEN Sum(h, A) - t ELSE Sum(h, A)
<1>1. IsFiniteSet(A) /\ IsFiniteSet(A \ {m})
  <2>1. A \in SUBSET P /\ A \ {m} \in SUBSET P
    OBVIOUS
  <2> QED BY <2>1, ProvidersCounted, FS_Subset
<1>2. \A p \in A : h[p] \in Int /\ x[p] \in Int
  BY DEF Pays
<1>3. \A p \in A \ {m} : h[p] \in Int /\ x[p] = h[p]
  BY DEF Pays
<1>4. CASE m \notin A
  <2>1. \A p \in A : h[p] \in Int /\ x[p] = h[p]
    BY <1>4 DEF Pays
  <2> QED BY <1>1, <1>4, <2>1, SumSame
<1>5. CASE m \in A
  <2>1. Sum(x, A \ {m}) = Sum(h, A \ {m}) /\ Sum(h, A \ {m}) \in Int
    BY <1>1, <1>3, SumSame, SumInt
  <2>2. Sum(x, A) = Sum(x, A \ {m}) + x[m]
    BY <1>1, <1>2, <1>5, SumRemove
  <2>3. Sum(h, A) = Sum(h, A \ {m}) + h[m]
    BY <1>1, <1>2, <1>5, SumRemove
  <2>4. x[m] = h[m] - t /\ h[m] \in Int
    BY <1>5 DEF Pays
  <2> QED BY <1>5, <2>1, <2>2, <2>3, <2>4
<1> QED BY <1>4, <1>5

\* _weighted_round_robin keeps the credits within their room.
LEMMA ChargeKeepsRoom ==
  ASSUME NEW c, WithinRoom(c),
         NEW w \in [P -> Int], NEW h \in [P -> Int], NEW S \in SUBSET P, NEW m \in S, NEW x,
         \A p \in S : w[p] \in 0 .. Scale,
         Gets(h, c, w, S),
         \A p \in S : h[p] <= h[m],
         Pays(x, h, m, Sum(w, S))
  PROVE  WithinRoom(x)
<1> DEFINE n == Len(Providers)
<1>0. n \in Nat /\ Scale \in Nat /\ c \in [P -> Int] /\ m \in P
  BY RoutingAssumption, ProvidersListed DEF WithinRoom
<1>1. \A A \in SUBSET P : IsFiniteSet(A) /\ Cardinality(A) \in Nat
  BY ProvidersCounted, FS_Subset, FS_CardinalityType
<1>2. ASSUME NEW f \in [P -> Int], NEW A \in SUBSET P PROVE Sum(f, A) \in Int
  <2>1. \A p \in A : f[p] \in Int
    OBVIOUS
  <2> QED BY <1>1, <2>1, SumInt
<1> DEFINE W == Sum(w, S)
<1>3. W \in Int /\ \A A \in SUBSET S : Sum(w, A) \in Int /\ Sum(w, A) <= W
  <2>1. IsFiniteSet(S) /\ \A p \in S : w[p] \in Nat
    BY <1>0, <1>1
  <2>2. \A A \in SUBSET S : Sum(w, A) <= W
    BY <2>1, SumOfNaturals
  <2>3. \A A \in SUBSET S : A \in SUBSET P
    OBVIOUS
  <2> QED BY <1>2, <2>2, <2>3
<1>4. Pays(x, h, m, W)
  OBVIOUS
<1> HIDE DEF W
<1>5. ASSUME NEW A \in SUBSET P
      PROVE  /\ Sum(h, A) = Sum(c, A) + Sum(w, A \cap S)
             /\ Sum(x, A) = IF m \in A THEN Sum(h, A) - W ELSE Sum(h, A)
             /\ Sum(h, A) \in Int /\ Sum(c, A) \in Int /\ Sum(w, A \cap S) \in Int
  <2>1. Sum(h, A) = Sum(c, A) + Sum(w, A \cap S)
    <3>1. c \in [P -> Int]
      BY <1>0
    <3> QED BY <3>1, CreditedSum
  <2>2. Sum(x, A) = IF m \in A THEN Sum(h, A) - W ELSE Sum(h, A)
    <3>1. m \in P /\ W \in Int
      BY <1>0, <1>3
    <3> QED BY <1>4, <3>1, ChargedSum
  <2>3. Sum(h, A) \in Int /\ Sum(c, A) \in Int /\ Sum(w, A \cap S) \in Int
    BY <1>0, <1>2
  <2> QED BY <2>1, <2>2, <2>3
<1>6. x \in [P -> Int]
  BY <1>3, <1>4 DEF Pays
<1>7. Sum(x, P) = 0
  <2>1. P \cap S = S /\ P \in SUBSET P /\ Sum(c, P) = 0
    BY DEF WithinRoom
  <2>2. Sum(w, P \cap S) = W
    BY <2>1 DEF W
  <2>3. /\ Sum(h, P) = Sum(c, P) + Sum(w, P \cap S)
        /\ Sum(x, P) = IF m \in P THEN Sum(h, P) - W ELSE Sum(h, P)
    BY <1>5, <2>1
  <2> QED BY <1>0, <1>3, <2>1, <2>2, <2>3
<1>8. ASSUME NEW A \in SUBSET P PROVE Sum(x, A) <= Room(Cardinality(A))
  <2> DEFINE B == A \cap S
             k == Cardinality(A)
             j == Cardinality(B)
  <2>1. Sum(c, A) <= Room(k) /\ B \in SUBSET S /\ B \in SUBSET P
    BY DEF WithinRoom
  <2>2. CASE m \in A
    <3>1. Sum(w, B) <= W
      BY <1>3, <2>1
    <3>2. Sum(x, A) = Sum(c, A) + Sum(w, B) - W /\ Sum(c, A) \in Int /\ Sum(w, B) \in Int
      <4>1. /\ Sum(h, A) = Sum(c, A) + Sum(w, B)
            /\ Sum(x, A) = IF m \in A THEN Sum(h, A) - W ELSE Sum(h, A)
            /\ Sum(h, A) \in Int /\ Sum(c, A) \in Int /\ Sum(w, B) \in Int
        BY <1>5
      <4> HIDE DEF B
      <4> QED BY <1>3, <2>2, <4>1
    <3>3. Room(k) \in Int
      BY <1>0, <1>1 DEF Room
    <3> HIDE DEF B, k
    <3> QED BY <1>3, <2>1, <3>1, <3>2, <3>3 DEF k
  <2>3. CASE m \notin A
    <3> DEFINE D == A \ B
               Am == A \cup {m}
               X == Sum(x, A)
               Y == h[m]
    <3>1. /\ D \in SUBSET P /\ Am \in SUBSET P /\ Am \cap S = B \cup {m} /\ m \notin B
          /\ D \cap S = {} /\ D \cap B = {} /\ D \cup B = A
      BY <1>0, <2>3
    <3>2. k \in Nat /\ j \in Nat
      BY <1>1, <2>1
    <3>3. Cardinality(D) = k - j
      <4>1. A \cap B = B
        OBVIOUS
      <4>2. Cardinality(A \ B) = Cardinality(A) - Cardinality(A \cap B)
        BY <1>1, FS_Difference
      <4> QED BY <4>1, <4>2
    <3>4. Cardinality(Am) = k + 1
      BY <1>1, <2>3, FS_AddElement
    <3>5. Cardinality(B \cup {m}) = j + 1 /\ IsFiniteSet(B \cup {m})
      BY <1>1, <2>1, <3>1, FS_AddElement
    <3>6. X = Sum(h, A) /\ X \in Int /\ Y \in Int
      BY <1>0, <1>5, <2>3
    \* The members of the list have at most as much as the chosen one.
    <3>7. X <= Room(k - j) + j * Y
      <4>1. Sum(h, A) = Sum(h, D) + Sum(h, B)
        <5>1. IsFiniteSet(D) /\ IsFiniteSet(B)
          BY <1>1, <2>1, <3>1
        <5>2. \A p \in D \cup B : h[p] \in Int
          OBVIOUS
        <5>3. Sum(h, D \cup B) = Sum(h, D) + Sum(h, B)
          BY <3>1, <5>1, <5>2, SumDisjoint
        <5> QED BY <3>1, <5>3, Zenon
      <4>2. Sum(h, D) <= Room(k - j)
        <5>1. Sum(h, D) = Sum(c, D)
          <6>1. \A p \in D : c[p] \in Int /\ h[p] = c[p]
            BY <1>0, <3>1 DEF Gets
          <6>2. IsFiniteSet(D)
            BY <1>1, <3>1
          <6> QED BY <6>1, <6>2, SumSame
        <5>2. Sum(c, D) <= Room(Cardinality(D))
          BY <3>1 DEF WithinRoom
        <5> QED BY <3>3, <5>1, <5>2
      <4>3. Sum(h, B) <= j * Y
        <5>1. \A p \in B : h[p] \in Int /\ h[p] <= Y
          OBVIOUS
        <5>2. IsFiniteSet(B)
          BY <1>1, <2>1
        <5> QED BY <3>6, <5>1, <5>2, SumAtMost
      <4>4. Sum(h, D) \in Int /\ Sum(h, B) \in Int
        BY <1>2, <2>1, <3>1
      <4>5. Room(k - j) \in Int /\ j * Y \in Int
        BY <1>0, <3>2, <3>6 DEF Room
      <4> QED BY <3>6, <4>1, <4>2, <4>3, <4>4, <4>5
    \* With the chosen one they have what they had and a weight each.
    <3>8. X + Y <= Room(k + 1) + (j + 1) * Scale
      <4>1. Sum(h, Am) = Sum(h, A) + h[m]
        <5>1. IsFiniteSet(A) /\ h[m] \in Int /\ \A p \in A : h[p] \in Int
          BY <1>0, <1>1
        <5> QED BY <2>3, <5>1, SumAdd
      <4>2. Sum(h, Am) = Sum(c, Am) + Sum(w, B \cup {m})
        <5>1. Sum(h, Am) = Sum(c, Am) + Sum(w, Am \cap S)
          BY <1>5, <3>1
        <5> QED BY <3>1, <5>1
      <4>3. Sum(c, Am) <= Room(k + 1)
        <5>1. Sum(c, Am) <= Room(Cardinality(Am))
          BY <3>1 DEF WithinRoom
        <5> QED BY <3>4, <5>1
      <4>4. Sum(w, B \cup {m}) <= (j + 1) * Scale
        <5>1. \A p \in B \cup {m} : w[p] \in Int /\ w[p] <= Scale
          BY <1>0
        <5>2. Sum(w, B \cup {m}) <= Cardinality(B \cup {m}) * Scale
          BY <1>0, <3>5, <5>1, SumAtMost
        <5> QED BY <3>5, <5>2
      <4>5. Sum(c, Am) \in Int /\ Sum(w, B \cup {m}) \in Int
        <5>1. B \cup {m} \in SUBSET P
          BY <1>0
        <5> QED BY <1>0, <1>2, <3>1, <5>1
      <4>6. Room(k + 1) \in Int /\ (j + 1) * Scale \in Int
        BY <1>0, <3>2 DEF Room
      <4> QED BY <3>6, <4>1, <4>2, <4>3, <4>4, <4>5, <4>6
    <3> HIDE DEF B, k, j, D, Am, X, Y, n
    <3>9. /\ X <= Scale * ((k - j) * (n - (k - j))) + j * Y
          /\ X + Y <= Scale * ((k + 1) * (n - (k + 1))) + (j + 1) * Scale
      BY <3>7, <3>8 DEF Room, n
    <3>10. X <= Scale * (k * (n - k))
      BY <1>0, <3>2, <3>6, <3>9, RoomShared
    <3> QED BY <3>10 DEF Room, X, k, n
  <2> QED BY <2>2, <2>3
<1> QED BY <1>6, <1>7, <1>8 DEF WithinRoom

\* What the bound says of one provider: neither its credit nor its debt
\* exceeds the weights of all the others.
LEMMA OneWithinRoom ==
  ASSUME NEW c, WithinRoom(c), NEW p \in P
  PROVE  /\ c[p] \in Int
         /\ c[p] <= (Len(Providers) - 1) * Scale
         /\ -c[p] <= (Len(Providers) - 1) * Scale
<1> DEFINE n == Len(Providers)
<1>1. c \in [P -> Int] /\ c[p] \in Int /\ n \in Nat /\ Scale \in Nat
  BY RoutingAssumption, ProvidersListed DEF WithinRoom
<1>2. IsFiniteSet(P) /\ Cardinality(P) = n /\ \A q \in P : c[q] \in Int
  BY <1>1, ProvidersCounted
<1>3. Cardinality({p}) = 1 /\ Sum(c, {p}) = c[p]
  <2>1. IsFiniteSet({}) /\ p \notin {} /\ {} \cup {p} = {p}
    BY FS_EmptySet
  <2>2. Sum(c, {} \cup {p}) = Sum(c, {}) + c[p]
    BY <1>1, <2>1, SumAdd
  <2>3. Sum(c, {p}) = 0 + c[p]
    BY <2>1, <2>2, SumEmpty
  <2>4. Cardinality({p}) = 1
    BY FS_Singleton
  <2> QED BY <1>1, <2>3, <2>4
<1>4. c[p] <= Room(1)
  <2>1. Sum(c, {p}) <= Room(Cardinality({p}))
    BY DEF WithinRoom
  <2> QED BY <1>3, <2>1
<1>5. Cardinality(P \ {p}) = n - 1
  BY <1>2, FS_RemoveElement
<1>6. Sum(c, P) = Sum(c, P \ {p}) + c[p]
  BY <1>2, SumRemove
<1>7. Sum(c, P \ {p}) <= Room(n - 1)
  <2>1. Sum(c, P \ {p}) <= Room(Cardinality(P \ {p}))
    BY DEF WithinRoom
  <2> QED BY <1>5, <2>1
<1>8. Sum(c, P \ {p}) \in Int /\ Sum(c, P) = 0
  <2>1. IsFiniteSet(P \ {p}) /\ \A q \in P \ {p} : c[q] \in Int
    BY <1>2, FS_Subset
  <2> QED BY <2>1, SumInt DEF WithinRoom
<1>9. Room(1) = (n - 1) * Scale /\ Room(n - 1) = (n - 1) * Scale
  BY <1>1 DEF Room
<1> HIDE DEF n
<1>10. (n - 1) * Scale \in Int
  BY <1>1
<1>11. c[p] <= (n - 1) * Scale /\ -c[p] <= (n - 1) * Scale
  BY <1>1, <1>4, <1>6, <1>7, <1>8, <1>9, <1>10
<1> QED BY <1>1, <1>11 DEF n

-----------------------------------------------------------------------------
(* Types, and the bound on the credits. *)

\* What every step keeps: the types, that a payment whose attempt is under
\* way has a present candidate, and the bound on the credits.
RouterInv ==
    /\ TypeOK
    /\ IsFiniteSet(active)
    /\ \A s \in active : calls[s] # <<>>
    /\ WithinRoom(credit)

Weights == [p \in P |-> Weight(p)]

\* The list that choose is given holds the healthy providers, each once.
LEMMA HealthyLists ==
  ASSUME healthy \in SUBSET P, healthy # {}
  PROVE  /\ IsFiniteSet(healthy)
         /\ Len(Healthy) \in 1 .. Len(Providers)
         /\ DOMAIN Healthy = 1 .. Len(Healthy)
         /\ Range(Healthy) = healthy
         /\ \A i, j \in 1 .. Len(Healthy) : Healthy[i] = Healthy[j] => i = j
         /\ \A p \in healthy : Index(Healthy, p) \in 1 .. Len(Healthy) /\ Healthy[Index(Healthy, p)] = p
<1>1. /\ IsFiniteSet(healthy) /\ Cardinality(healthy) \in Nat
      /\ Cardinality(healthy) <= Len(Providers)
      /\ Len(Healthy) = Cardinality(healthy)
      /\ DOMAIN Healthy = 1 .. Cardinality(healthy)
      /\ Range(Healthy) = healthy
      /\ \A i, j \in 1 .. Cardinality(healthy) : Healthy[i] = Healthy[j] => i = j
  BY InOrderLists DEF Healthy
<1>2. Cardinality(healthy) # 0
  BY <1>1, FS_EmptySet
<1>3. Len(Providers) \in Nat
  BY ProvidersListed
<1>4. ASSUME NEW p \in healthy
      PROVE  Index(Healthy, p) \in DOMAIN Healthy /\ Healthy[Index(Healthy, p)] = p
  <2>1. \E i \in DOMAIN Healthy : Healthy[i] = p
    BY <1>1 DEF Range
  <2> QED BY <2>1 DEF Index
<1> QED BY <1>1, <1>2, <1>3, <1>4

\* What _weighted_round_robin does: the chosen provider is one of the list
\* with the highest credit, and it pays the weights of the list.
LEMMA WeightedChoice ==
  ASSUME RouterInv, healthy # {}
  PROVE  LET m == WeightedRoundRobin(Healthy)
             h == Credited(Healthy) IN
         /\ Weights \in [P -> Int] /\ \A p \in P : Weights[p] = Weight(p) /\ Weight(p) \in 0 .. Scale
         /\ h \in [P -> Int] /\ Gets(h, credit, Weights, healthy)
         /\ m \in healthy /\ \A p \in healthy : h[p] <= h[m]
         /\ Pays(Charged(Healthy), h, m, Sum(Weights, healthy))
<1> DEFINE m == WeightedRoundRobin(Healthy)
           h == Credited(Healthy)
<1>1. /\ healthy \in SUBSET P /\ credit \in [P -> Int] /\ \A p \in P : recent[p] \in Seq(Outcomes)
  BY DEF RouterInv, TypeOK
<1>2. \A p \in P : Weight(p) \in 0 .. Scale
  BY <1>1, WeightInRange
<1>3. Weights \in [P -> Int] /\ \A p \in P : Weights[p] = Weight(p)
  BY <1>2, RoutingAssumption DEF Weights
<1>4. /\ IsFiniteSet(healthy) /\ Range(Healthy) = healthy
      /\ Len(Healthy) \in Nat
      /\ \A p \in healthy : Index(Healthy, p) \in 1 .. Len(Healthy) /\ Healthy[Index(Healthy, p)] = p
  BY <1>1, HealthyLists
<1>5. h = [p \in P |-> IF p \in healthy THEN credit[p] + Weight(p) ELSE credit[p]]
  BY <1>4 DEF Credited
<1>6. h \in [P -> Int] /\ Gets(h, credit, Weights, healthy)
  BY <1>1, <1>2, <1>3, <1>5, RoutingAssumption DEF Gets
<1> HIDE DEF h
<1>7. m \in healthy /\ \A q \in healthy : h[q] <= h[m]
  <2> DEFINE v == [p \in healthy |-> -h[p]]
             o == [p \in healthy |-> Index(Healthy, p)]
  <2>1. \A p \in healthy : v[p] \in Int /\ o[p] \in Int
    BY <1>1, <1>4, <1>6
  <2>2. \A p, q \in healthy : o[p] = o[q] => p = q
    BY <1>4
  <2>3. m = First([p \in healthy |-> <<v[p], o[p]>>])
    <3>1. [p \in healthy |-> <<v[p], o[p]>>] = [p \in healthy |-> <<-h[p], Index(Healthy, p)>>]
      OBVIOUS
    <3> HIDE DEF v, o
    <3> QED BY <1>4, <3>1 DEF WeightedRoundRobin, h
  <2>4. m \in healthy /\ \A q \in healthy : v[m] <= v[q]
    <3> HIDE DEF v, o, m
    <3> QED BY <1>4, <2>1, <2>2, <2>3, FirstIsLeast
  <2>5. \A q \in healthy : v[q] = -h[q] /\ h[q] \in Int
    BY <1>1, <1>6
  <2> HIDE DEF v, m
  <2> QED BY <2>4, <2>5
<1>8. Pays(Charged(Healthy), h, m, Sum(Weights, healthy))
  BY <1>4 DEF Pays, Charged, Weights, h
<1> QED BY <1>2, <1>3, <1>6, <1>7, <1>8 DEF h

\* choose leaves the policy alone and keeps the position and the credits as
\* they must be.
LEMMA ChooseKeeps ==
  ASSUME RouterInv, healthy # {}, NEW p \in healthy, Choose(Healthy, p)
  PROVE  /\ UNCHANGED <<strategy, exponents>>
         /\ next' \in 0 .. Cycle - 1
         /\ WithinRoom(credit')
<1>1. next \in 0 .. Cycle - 1 /\ Cycle \in Nat \ {0} /\ WithinRoom(credit)
  BY RoutingAssumption DEF RouterInv, TypeOK
<1>2. CASE strategy = "round_robin" /\ next' = Advance /\ UNCHANGED <<strategy, exponents, credit>>
  BY <1>1, <1>2 DEF Advance
<1>3. CASE credit' = Charged(Healthy) /\ UNCHANGED <<strategy, exponents, next>>
  <2> DEFINE m == WeightedRoundRobin(Healthy)
             h == Credited(Healthy)
  <2>1. /\ Weights \in [P -> Int] /\ h \in [P -> Int] /\ m \in healthy
        /\ Gets(h, credit, Weights, healthy)
        /\ \A q \in healthy : h[q] <= h[m]
        /\ Pays(Charged(Healthy), h, m, Sum(Weights, healthy))
        /\ \A q \in P : Weights[q] \in 0 .. Scale
    BY WeightedChoice
  <2>2. healthy \in SUBSET P
    BY DEF RouterInv, TypeOK
  <2> HIDE DEF m, h
  <2>3. WithinRoom(Charged(Healthy))
    BY <1>1, <2>1, <2>2, ChargeKeepsRoom
  <2> QED BY <1>1, <1>3, <2>3
<1>4. CASE UNCHANGED router
  BY <1>1, <1>4 DEF router
<1> QED BY <1>2, <1>3, <1>4 DEF Choose

\* finish keeps at most window_size outcomes.
LEMMA FinishTyped ==
  ASSUME NEW w \in Seq(Outcomes), Len(w) <= WindowSize, NEW o \in Outcomes
  PROVE  Finish(w, o) \in Seq(Outcomes) /\ Len(Finish(w, o)) <= WindowSize
<1>1. WindowSize \in Nat \ {0}
  BY RoutingAssumption
<1>2. CASE Len(w) = WindowSize
  <2>1. w # <<>>
    BY <1>1, <1>2
  <2>2. Tail(w) \in Seq(Outcomes) /\ Len(Tail(w)) = Len(w) - 1
    BY <2>1
  <2> QED BY <1>1, <1>2, <2>2 DEF Finish
<1>3. CASE Len(w) # WindowSize
  BY <1>1, <1>3 DEF Finish
<1> QED BY <1>2, <1>3

\* The candidates of a payment: the chosen provider and the others.
LEMMA CandidatesTyped ==
  ASSUME healthy \in SUBSET P, NEW p \in healthy
  PROVE  <<p>> \o InOrder(healthy \ {p}) \in Seq(P)
<1>1. healthy \ {p} \in SUBSET P
  OBVIOUS
<1>2. InOrder(healthy \ {p}) \in Seq(healthy \ {p})
  BY <1>1, InOrderLists
<1>3. InOrder(healthy \ {p}) \in Seq(P)
  BY <1>2
<1>4. <<p>> \in Seq(P)
  OBVIOUS
<1> QED BY <1>3, <1>4

\* The initial state.
LEMMA RouterInit == Init => RouterInv
<1> SUFFICES ASSUME Init PROVE RouterInv
  OBVIOUS
<1>1. Zero \in [P -> Int] /\ Zero \in [P -> Nat] /\ \A p \in P : Zero[p] = 0
  BY DEF Zero
<1>2. WithinRoom(Zero)
  <2>1. \A A \in SUBSET P : IsFiniteSet(A) /\ Cardinality(A) \in Nat /\ Cardinality(A) <= Len(Providers)
    BY ProvidersCounted, FS_Subset, FS_CardinalityType
  <2>2. ASSUME NEW A \in SUBSET P PROVE Sum(Zero, A) = 0
    <3>1. \A p \in A : Zero[p] \in Int /\ Zero[p] <= 0 /\ Zero[p] \in Nat
      BY <1>1
    <3>2. Sum(Zero, A) <= Cardinality(A) * 0
      BY <2>1, <3>1, SumAtMost
    <3>3. Sum(Zero, A) \in Nat
      BY <2>1, <3>1, SumOfNaturals
    <3> QED BY <2>1, <3>2, <3>3
  <2>3. ASSUME NEW A \in SUBSET P PROVE 0 <= Room(Cardinality(A))
    <3> DEFINE k == Cardinality(A)
               n == Len(Providers)
    <3>1. k \in Nat /\ n - k \in Nat /\ Scale \in Nat
      BY <2>1, ProvidersListed, RoutingAssumption
    <3> HIDE DEF k, n
    <3>2. k * (n - k) \in Nat
      BY <3>1
    <3>3. Scale * (k * (n - k)) \in Nat
      BY <3>1, <3>2
    <3> QED BY <3>3 DEF Room, k, n
  <2>4. P \in SUBSET P
    OBVIOUS
  <2> QED BY <1>1, <2>2, <2>3, <2>4 DEF WithinRoom
<1>3. IsFiniteSet({})
  BY FS_EmptySet
<1>4. <<strategy, exponents>> \in Policies
  BY RoutingAssumption DEF Init
<1>5. WindowSize \in Nat /\ Cycle \in Nat \ {0}
  BY RoutingAssumption
<1>6. TypeOK
  BY <1>1, <1>4, <1>5 DEF Init, TypeOK
<1> QED BY <1>2, <1>3, <1>6 DEF Init, RouterInv

\* Every step keeps it.
LEMMA RouterStep == RouterInv /\ [Next]_vars => RouterInv'
<1> SUFFICES ASSUME RouterInv, [Next]_vars PROVE RouterInv'
  OBVIOUS
<1>0. /\ TypeOK /\ IsFiniteSet(active) /\ WithinRoom(credit)
      /\ \A s \in active : calls[s] # <<>>
  BY DEF RouterInv
<1> USE <1>0
<1>1. ASSUME NEW s \in Slots, Route(s) PROVE RouterInv'
  <2>1. PICK p \in healthy : /\ Choose(Healthy, p)
                             /\ calls' = [calls EXCEPT ![s] = <<p>> \o InOrder(healthy \ {p})]
                             /\ picks' = [picks EXCEPT ![p] = @ + 1]
    BY <1>1 DEF Route
  <2>2. UNCHANGED <<strategy, exponents>> /\ next' \in 0 .. Cycle - 1 /\ WithinRoom(credit')
    BY <2>1, ChooseKeeps
  <2>3. credit' \in [P -> Int]
    BY <2>2 DEF WithinRoom
  <2>4. <<p>> \o InOrder(healthy \ {p}) \in Seq(P)
    BY <2>1, CandidatesTyped DEF TypeOK
  <2>5. p \in P
    BY DEF TypeOK
  <2>6. s \notin active
    BY <1>1 DEF Route
  <2>7. TypeOK'
    <3>1. calls' \in [Slots -> Seq(P)]
      BY <2>1, <2>4 DEF TypeOK
    <3>2. picks' \in [P -> Nat]
      BY <2>1, <2>5 DEF TypeOK
    <3>3. UNCHANGED <<recent, inflight, done, healthy, active>>
      BY <1>1 DEF Route, stats
    <3> QED BY <2>2, <2>3, <3>1, <3>2, <3>3 DEF TypeOK
  <2>8. active' = active /\ \A t \in active : calls'[t] = calls[t]
    BY <1>1, <2>1, <2>6 DEF Route, TypeOK
  <2> QED BY <2>2, <2>7, <2>8 DEF RouterInv
<1>2. ASSUME NEW s \in Slots, Attempt(s) PROVE RouterInv'
  <2>1. Head(calls[s]) \in P
    <3>1. calls[s] \in Seq(P) /\ calls[s] # <<>>
      BY <1>2 DEF Attempt, TypeOK
    <3> QED BY <3>1, HeadTailProperties
  <2>2. TypeOK'
    <3>1. inflight' = [inflight EXCEPT ![Head(calls[s])] = @ + 1] /\ active' = active \cup {s}
      BY <1>2 DEF Attempt, StartRequest
    <3>2. UNCHANGED <<strategy, exponents, next, credit, recent, done, healthy, calls, picks>>
      BY <1>2 DEF Attempt, router
    <3>3. inflight \in [P -> Nat]
      BY DEF TypeOK
    <3>4. inflight' \in [P -> Nat]
      BY <2>1, <3>1, <3>3
    <3> QED BY <3>1, <3>2, <3>4 DEF TypeOK
  <2>3. IsFiniteSet(active \cup {s})
    BY FS_AddElement
  <2> QED BY <1>2, <2>2, <2>3 DEF Attempt, StartRequest, RouterInv, router
<1>3. ASSUME NEW s \in Slots, Skip(s) PROVE RouterInv'
  <2>1. Tail(calls[s]) \in Seq(P)
    BY <1>3 DEF Skip, TypeOK
  <2>2. TypeOK'
    BY <1>3, <2>1 DEF Skip, TypeOK, router, stats
  <2>3. active' = active /\ \A t \in active : calls'[t] = calls[t]
    BY <1>3 DEF Skip, TypeOK
  <2> QED BY <1>3, <2>2, <2>3 DEF Skip, RouterInv, router
<1>4. ASSUME NEW s \in Slots, NEW o \in Outcomes, FinishRequest(s, o) PROVE RouterInv'
  <2> DEFINE p == Head(calls[s])
  <2>1. calls[s] # <<>> /\ calls[s] \in Seq(P)
    BY <1>4 DEF FinishRequest, TypeOK
  <2>2. p \in P /\ Tail(calls[s]) \in Seq(P) /\ <<>> \in Seq(P)
    BY <2>1
  <2>3. /\ active' = active \ {s} /\ s \in active
        /\ inflight' = [inflight EXCEPT ![p] = IF @ > 0 THEN @ - 1 ELSE 0]
        /\ recent' = [recent EXCEPT ![p] = Finish(@, o)]
        /\ done' = [done EXCEPT ![p] = Append(@, o)]
        /\ picks' = picks \/ picks' = Zero
        /\ UNCHANGED <<strategy, exponents, next, credit, healthy>>
    BY <1>4 DEF FinishRequest, router
  <2>4. PICK rest \in {calls[s], Tail(calls[s]), <<>>} : calls' = [calls EXCEPT ![s] = rest]
    BY <1>4 DEF FinishRequest
  <2>5. rest \in Seq(P)
    BY <2>1, <2>2, <2>4
  <2> HIDE DEF p
  <2>6. recent' \in [P -> Seq(Outcomes)] /\ \A q \in P : Len(recent'[q]) <= WindowSize
    <3>1. Finish(recent[p], o) \in Seq(Outcomes) /\ Len(Finish(recent[p], o)) <= WindowSize
      BY <2>2, FinishTyped DEF TypeOK
    <3> QED BY <2>2, <2>3, <3>1 DEF TypeOK
  <2>7. done' \in [P -> Seq(Outcomes)]
    BY <2>2, <2>3 DEF TypeOK
  <2>8. inflight' \in [P -> Nat]
    <3>1. inflight \in [P -> Nat] /\ inflight' = [inflight EXCEPT ![p] = IF @ > 0 THEN @ - 1 ELSE 0]
      BY <2>3 DEF TypeOK
    <3>2. (IF inflight[p] > 0 THEN inflight[p] - 1 ELSE 0) \in Nat
      BY <2>2, <3>1
    <3> QED BY <3>1, <3>2
  <2>9. picks' \in [P -> Nat]
    <3>1. picks \in [P -> Nat] /\ Zero \in [P -> Nat]
      BY DEF TypeOK, Zero
    <3> QED BY <2>3, <3>1
  <2>10. calls' \in [Slots -> Seq(P)]
    BY <2>4, <2>5 DEF TypeOK
  <2>11. TypeOK'
    BY <2>3, <2>6, <2>7, <2>8, <2>9, <2>10 DEF TypeOK
  <2>12. IsFiniteSet(active')
    BY <2>3, FS_Subset
  <2>13. \A t \in active' : calls'[t] # <<>>
    BY <2>3, <2>4 DEF TypeOK
  <2> QED BY <2>3, <2>11, <2>12, <2>13 DEF RouterInv
<1>5. ASSUME NEW p \in P, FailProvider(p) \/ RecoverProvider(p) PROVE RouterInv'
  <2>1. healthy' \in SUBSET P /\ picks' = Zero
    BY <1>5 DEF FailProvider, RecoverProvider, Changes, TypeOK
  <2>2. UNCHANGED <<strategy, exponents, next, credit, recent, inflight, done, calls, active>>
    BY <1>5 DEF FailProvider, RecoverProvider, router, stats
  <2>3. TypeOK'
    BY <2>1, <2>2 DEF TypeOK, Zero
  <2> QED BY <2>2, <2>3 DEF RouterInv
<1>6. ASSUME NEW policy \in Policies, ConfigureRouting(policy[1], policy[2]) PROVE RouterInv'
  <2>1. <<strategy', exponents'>> \in Policies
    BY <1>6, RoutingAssumption DEF ConfigureRouting
  <2>2. UNCHANGED <<next, credit, recent, inflight, done, healthy, calls, active>> /\ picks' = Zero
    BY <1>6 DEF ConfigureRouting, Changes, stats
  <2>3. TypeOK'
    BY <2>1, <2>2 DEF TypeOK, Zero
  <2> QED BY <2>2, <2>3 DEF RouterInv
<1>7. CASE UNCHANGED vars
  <2>1. UNCHANGED <<strategy, exponents, next, credit, recent, inflight, done, healthy, calls, active, picks>>
    BY <1>7 DEF vars, router, stats
  <2>2. TypeOK'
    BY <2>1 DEF TypeOK
  <2> QED BY <2>1, <2>2 DEF RouterInv
<1> QED BY <1>1, <1>2, <1>3, <1>4, <1>5, <1>6, <1>7 DEF Next

\* Every reachable state has the types of TypeOK, for every list of
\* providers, window size and set of outcomes and policies.
THEOREM RoutingTypeCorrect == Spec => []TypeOK
<1>1. RouterInv => TypeOK
  BY DEF RouterInv
<1> QED BY <1>1, RouterInit, RouterStep, PTL DEF Spec

\* The inductive invariant holds in every reachable state.
LEMMA RouterAlways == Spec => []RouterInv
  BY RouterInit, RouterStep, PTL DEF Spec

\* The credits of _weighted_round_robin stay bounded, whatever lists and
\* success rates the choices met: no provider is ever owed, or owes, more than
\* the largest weight of every other provider.
CreditsStayBounded ==
    \A p \in P : /\ credit[p] <= (Len(Providers) - 1) * Scale
                 /\ -credit[p] <= (Len(Providers) - 1) * Scale

\* However often lists and success rates change, the credits that
\* _weighted_round_robin carries from one choice to the next stay bounded.
THEOREM CreditsBounded == Spec => []CreditsStayBounded
<1>1. RouterInv => CreditsStayBounded
  BY OneWithinRoom DEF RouterInv, CreditsStayBounded
<1> QED BY <1>1, RouterAlways, PTL

-----------------------------------------------------------------------------
(* The statistics. *)

\* The latest k of the outcomes d, and the window holding them.
Latest(d, k) == SubSeq(d, Len(d) - k + 1, Len(d))
IsWindow(w, d) ==
    /\ w = Latest(d, Len(w))
    /\ Len(w) = IF Len(d) < WindowSize THEN Len(d) ELSE WindowSize

\* The latest outcomes, one by one.
LEMMA LatestOutcomes ==
  ASSUME NEW d \in Seq(Outcomes), NEW k \in Nat, k <= Len(d)
  PROVE  /\ Latest(d, k) \in Seq(Outcomes)
         /\ Len(Latest(d, k)) = k
         /\ \A i \in 1 .. k : Latest(d, k)[i] = d[Len(d) - k + i]
<1> DEFINE m == Len(d) - k + 1
           n == Len(d)
<1>1. m \in Int /\ n \in Int /\ \A i \in m .. n : d[i] \in Outcomes
  OBVIOUS
<1>2. n - m + 1 = k /\ (IF m <= n THEN n - m + 1 ELSE 0) = k
  OBVIOUS
<1>3. \A i \in 1 .. k : m + i - 1 = n - k + i
  OBVIOUS
<1> HIDE DEF m, n
<1>4. /\ SubSeq(d, m, n) \in Seq(Outcomes)
      /\ Len(SubSeq(d, m, n)) = IF m <= n THEN n - m + 1 ELSE 0
      /\ \A i \in 1 .. n - m + 1 : SubSeq(d, m, n)[i] = d[m + i - 1]
  BY <1>1, SubSeqProperties
<1>5. /\ SubSeq(d, m, n) \in Seq(Outcomes)
      /\ Len(SubSeq(d, m, n)) = k
      /\ \A i \in 1 .. k : SubSeq(d, m, n)[i] = d[n - k + i]
  BY <1>2, <1>3, <1>4
<1> QED BY <1>5 DEF Latest, m, n

\* finish slides the window along.
LEMMA WindowSlides ==
  ASSUME NEW w \in Seq(Outcomes), NEW d \in Seq(Outcomes), IsWindow(w, d), NEW o \in Outcomes
  PROVE  IsWindow(Finish(w, o), Append(d, o))
<1> DEFINE w2 == Finish(w, o)
           d2 == Append(d, o)
           k == Len(w)
           n == Len(d)
<1>1. WindowSize \in Nat \ {0} /\ k \in Nat /\ n \in Nat /\ k <= n /\ k <= WindowSize
  BY RoutingAssumption DEF IsWindow
<1>2. \A i \in 1 .. k : w[i] = d[n - k + i]
  <2>1. \A i \in 1 .. k : Latest(d, k)[i] = d[n - k + i]
    BY <1>1, LatestOutcomes
  <2>2. w = Latest(d, k)
    BY DEF IsWindow
  <2> HIDE DEF k, n
  <2> QED BY <2>1, <2>2
<1>3. d2 \in Seq(Outcomes) /\ Len(d2) = n + 1 /\ d2[n + 1] = o /\ \A i \in 1 .. n : d2[i] = d[i]
  OBVIOUS
<1>4. w2 \in Seq(Outcomes)
  BY <1>1, FinishTyped
<1>5. CASE k = WindowSize
  <2>1. w # <<>>
    BY <1>1, <1>5
  <2> DEFINE t == Tail(w)
  <2>2. t \in Seq(Outcomes) /\ Len(t) = k - 1 /\ \A i \in 1 .. k - 1 : t[i] = w[i + 1]
    BY <2>1, HeadTailProperties
  <2>3. w2 = Append(t, o)
    BY <1>5 DEF Finish
  <2> HIDE DEF t
  <2>4. Len(w2) = k /\ w2[k] = o /\ \A i \in 1 .. k - 1 : w2[i] = w[i + 1]
    BY <1>1, <2>2, <2>3
  <2>5. \A i \in 1 .. k : w2[i] = d2[(n + 1) - k + i]
    <3> HIDE DEF w2, d2, k, n
    <3>1. w2[k] = d2[(n + 1) - k + k]
      BY <1>1, <1>3, <2>4
    <3>2. ASSUME NEW i \in 1 .. k - 1 PROVE w2[i] = d2[(n + 1) - k + i]
      <4>1. i + 1 \in 1 .. k /\ n - k + (i + 1) \in 1 .. n /\ n - k + (i + 1) = (n + 1) - k + i
        BY <1>1
      <4>2. w2[i] = w[i + 1] /\ w[i + 1] = d[n - k + (i + 1)]
        BY <1>2, <2>4, <4>1
      <4>3. d2[n - k + (i + 1)] = d[n - k + (i + 1)]
        BY <1>3, <4>1
      <4> QED BY <4>1, <4>2, <4>3
    <3> QED BY <1>1, <3>1, <3>2
  <2>6. w2 = Latest(d2, k)
    <3> HIDE DEF w2, d2, k, n
    <3>1. /\ Latest(d2, k) \in Seq(Outcomes) /\ Len(Latest(d2, k)) = k
          /\ \A i \in 1 .. k : Latest(d2, k)[i] = d2[Len(d2) - k + i]
      <4>1. k <= Len(d2)
        BY <1>1, <1>3
      <4> QED BY <1>1, <1>3, <4>1, LatestOutcomes
    <3>2. \A i \in 1 .. k : w2[i] = Latest(d2, k)[i]
      BY <1>3, <2>5, <3>1
    <3> QED BY <1>4, <2>4, <3>1, <3>2, SeqEqual
  <2>7. Len(w2) = IF Len(d2) < WindowSize THEN Len(d2) ELSE WindowSize
    BY <1>1, <1>3, <1>5, <2>4
  <2> QED BY <2>4, <2>6, <2>7 DEF IsWindow
<1>6. CASE k # WindowSize
  <2>1. k = n /\ n < WindowSize
    BY <1>1, <1>6 DEF IsWindow
  <2>2. w2 = Append(w, o)
    BY <1>6 DEF Finish
  <2>3. Len(w2) = n + 1 /\ w2[n + 1] = o /\ \A i \in 1 .. n : w2[i] = d[i]
    BY <1>1, <1>2, <2>1, <2>2
  <2>4. w2 = Latest(d2, n + 1)
    <3> HIDE DEF w2, d2, k, n
    <3>1. /\ Latest(d2, n + 1) \in Seq(Outcomes) /\ Len(Latest(d2, n + 1)) = n + 1
          /\ \A i \in 1 .. n + 1 : Latest(d2, n + 1)[i] = d2[Len(d2) - (n + 1) + i]
      <4>1. n + 1 \in Nat /\ n + 1 <= Len(d2)
        BY <1>1, <1>3
      <4> QED BY <1>3, <4>1, LatestOutcomes
    <3>2. \A i \in 1 .. n + 1 : w2[i] = Latest(d2, n + 1)[i]
      BY <1>1, <1>3, <2>3, <3>1
    <3> QED BY <1>4, <2>3, <3>1, <3>2, SeqEqual
  <2>5. Len(w2) = IF Len(d2) < WindowSize THEN Len(d2) ELSE WindowSize
    BY <1>1, <1>3, <2>1, <2>3
  <2> QED BY <2>3, <2>4, <2>5 DEF IsWindow
<1> QED BY <1>5, <1>6

\* The attempts under way at a provider.
Underway(p) == {s \in active : Head(calls[s]) = p}

\* StatsAreCurrent in these terms.
LEMMA StatsRead ==
  StatsAreCurrent <=>
    \A p \in P : IsWindow(recent[p], done[p]) /\ inflight[p] = Cardinality(Underway(p))
  BY DEF StatsAreCurrent, IsWindow, Latest, Underway

\* The statistics are true at first.
LEMMA StatsInit == Init => StatsAreCurrent
<1> SUFFICES ASSUME Init, NEW p \in P
             PROVE  IsWindow(recent[p], done[p]) /\ inflight[p] = Cardinality(Underway(p))
  BY StatsRead
<1>1. recent[p] = <<>> /\ done[p] = <<>> /\ inflight[p] = 0 /\ Underway(p) = {}
  BY DEF Init, Zero, Underway
<1>2. IsWindow(<<>>, <<>>)
  <2>1. <<>> \in Seq(Outcomes) /\ Len(<<>>) = 0 /\ WindowSize \in Nat \ {0}
    BY RoutingAssumption
  <2>2. Latest(<<>>, 0) = SubSeq(<<>>, 1, 0)
    BY <2>1 DEF Latest
  <2>3. Latest(<<>>, 0) = <<>>
    BY <2>2, SubSeqEmpty
  <2> QED BY <2>1, <2>3 DEF IsWindow
<1> QED BY <1>1, <1>2, FS_EmptySet

\* Every step keeps them true.
LEMMA StatsStep == RouterInv /\ StatsAreCurrent /\ [Next]_vars => StatsAreCurrent'
<1> SUFFICES ASSUME RouterInv, StatsAreCurrent, [Next]_vars PROVE StatsAreCurrent'
  OBVIOUS
<1>0. /\ TypeOK /\ IsFiniteSet(active) /\ \A s \in active : calls[s] # <<>>
      /\ \A p \in P : IsWindow(recent[p], done[p]) /\ inflight[p] = Cardinality(Underway(p))
  BY StatsRead DEF RouterInv
<1>00. ASSUME \A p \in P : IsWindow(recent'[p], done'[p]) /\ inflight'[p] = Cardinality(Underway(p)')
       PROVE  StatsAreCurrent'
  BY <1>00 DEF StatsAreCurrent, IsWindow, Latest, Underway
\* Payments with no attempt under way may change their candidates.
<1>1. ASSUME UNCHANGED <<recent, inflight, done, active>>, \A s \in active : calls'[s] = calls[s]
      PROVE  StatsAreCurrent'
  <2>1. \A p \in P : Underway(p)' = Underway(p)
    BY <1>1 DEF Underway
  <2> QED BY <1>0, <1>00, <1>1, <2>1
<1>2. ASSUME NEW s \in Slots, Route(s) PROVE StatsAreCurrent'
  <2>1. s \notin active
    BY <1>0, <1>2 DEF Route
  <2>2. \A t \in active : calls'[t] = calls[t]
    BY <1>0, <1>2, <2>1 DEF Route, TypeOK
  <2> QED BY <1>1, <1>2, <2>2 DEF Route, stats
<1>3. ASSUME NEW s \in Slots, Attempt(s) PROVE StatsAreCurrent'
  <2>0. PICK p \in P : p = Head(calls[s])
    <3>1. calls[s] \in Seq(P) /\ calls[s] # <<>>
      BY <1>0, <1>3 DEF Attempt, TypeOK
    <3> QED BY <3>1, HeadTailProperties
  <2>1. /\ s \notin active
        /\ inflight' = [inflight EXCEPT ![p] = @ + 1]
        /\ active' = active \cup {s}
        /\ UNCHANGED <<recent, done, calls>>
    BY <1>3, <2>0 DEF Attempt, StartRequest
  <2>2. Underway(p)' = Underway(p) \cup {s} /\ s \notin Underway(p)
    BY <2>0, <2>1 DEF Underway
  <2>3. \A q \in P \ {p} : Underway(q)' = Underway(q)
    BY <2>0, <2>1 DEF Underway
  <2>4. IsFiniteSet(Underway(p))
    <3>1. Underway(p) \subseteq active
      BY DEF Underway
    <3> QED BY <1>0, <3>1, FS_Subset
  <2>5. Cardinality(Underway(p) \cup {s}) = Cardinality(Underway(p)) + 1
    BY <2>2, <2>4, FS_AddElement
  <2>6. inflight'[p] = inflight[p] + 1 /\ \A q \in P \ {p} : inflight'[q] = inflight[q]
    BY <1>0, <2>1 DEF TypeOK
  <2>7. \A q \in P : inflight'[q] = Cardinality(Underway(q)')
    <3>1. inflight'[p] = Cardinality(Underway(p)')
      BY <1>0, <2>1, <2>2, <2>5, <2>6
    <3>2. \A q \in P \ {p} : inflight'[q] = Cardinality(Underway(q)')
      BY <1>0, <2>3, <2>6
    <3> QED BY <3>1, <3>2
  <2>8. \A q \in P : IsWindow(recent'[q], done'[q])
    BY <1>0, <2>1
  <2> QED BY <1>00, <2>7, <2>8
<1>4. ASSUME NEW s \in Slots, Skip(s) PROVE StatsAreCurrent'
  <2>1. \A t \in active : calls'[t] = calls[t]
    BY <1>0, <1>4 DEF Skip, TypeOK
  <2> QED BY <1>1, <1>4, <2>1 DEF Skip, stats
<1>5. ASSUME NEW s \in Slots, NEW o \in Outcomes, FinishRequest(s, o) PROVE StatsAreCurrent'
  <2>2. PICK p \in P : p = Head(calls[s])
    <3>1. calls[s] \in Seq(P) /\ calls[s] # <<>>
      BY <1>0, <1>5 DEF FinishRequest, TypeOK
    <3> QED BY <3>1, HeadTailProperties
  <2>1. /\ s \in active /\ active' = active \ {s}
        /\ inflight' = [inflight EXCEPT ![p] = IF @ > 0 THEN @ - 1 ELSE 0]
        /\ recent' = [recent EXCEPT ![p] = Finish(@, o)]
        /\ done' = [done EXCEPT ![p] = Append(@, o)]
    BY <1>5, <2>2 DEF FinishRequest
  <2>3. \A t \in active' : calls'[t] = calls[t]
    BY <1>0, <1>5, <2>1 DEF FinishRequest, TypeOK
  <2>4. Underway(p)' = Underway(p) \ {s} /\ s \in Underway(p)
    BY <2>1, <2>2, <2>3 DEF Underway
  <2>5. \A q \in P \ {p} : Underway(q)' = Underway(q)
    BY <2>1, <2>2, <2>3 DEF Underway
  <2>6. IsFiniteSet(Underway(p))
    <3>1. Underway(p) \subseteq active
      BY DEF Underway
    <3> QED BY <1>0, <3>1, FS_Subset
  <2>7. Cardinality(Underway(p) \ {s}) = Cardinality(Underway(p)) - 1
    BY <2>4, <2>6, FS_RemoveElement
  <2>8. Cardinality(Underway(p)) \in Nat /\ Cardinality(Underway(p) \ {s}) \in Nat
    <3>1. IsFiniteSet(Underway(p) \ {s})
      BY <2>6, FS_Subset
    <3> QED BY <2>6, <3>1, FS_CardinalityType
  <2>9. inflight'[p] = Cardinality(Underway(p)')
    <3>1. inflight[p] = Cardinality(Underway(p)) /\ inflight[p] > 0
      BY <1>0, <2>2, <2>7, <2>8
    <3>2. inflight'[p] = inflight[p] - 1
      BY <1>0, <2>1, <2>2, <3>1 DEF TypeOK
    <3> QED BY <2>4, <2>7, <3>1, <3>2
  <2>10. \A q \in P \ {p} : inflight'[q] = Cardinality(Underway(q)')
    BY <1>0, <2>1, <2>5 DEF TypeOK
  <2>11. IsWindow(recent'[p], done'[p])
    <3>1. recent[p] \in Seq(Outcomes) /\ done[p] \in Seq(Outcomes) /\ IsWindow(recent[p], done[p])
      BY <1>0, <2>2 DEF TypeOK
    <3>2. recent'[p] = Finish(recent[p], o) /\ done'[p] = Append(done[p], o)
      BY <1>0, <2>1, <2>2 DEF TypeOK
    <3>3. IsWindow(Finish(recent[p], o), Append(done[p], o))
      BY <3>1, WindowSlides
    <3> QED BY <3>2, <3>3
  <2>12. \A q \in P \ {p} : IsWindow(recent'[q], done'[q])
    <3>1. \A q \in P \ {p} : recent'[q] = recent[q] /\ done'[q] = done[q]
      BY <1>0, <2>1 DEF TypeOK
    <3> QED BY <1>0, <3>1
  <2> QED BY <1>00, <2>9, <2>10, <2>11, <2>12
<1>6. ASSUME NEW p \in P, FailProvider(p) \/ RecoverProvider(p) PROVE StatsAreCurrent'
  BY <1>1, <1>6 DEF FailProvider, RecoverProvider, stats
<1>7. ASSUME NEW policy \in Policies, ConfigureRouting(policy[1], policy[2]) PROVE StatsAreCurrent'
  BY <1>1, <1>7 DEF ConfigureRouting, stats
<1>8. CASE UNCHANGED vars
  BY <1>1, <1>8 DEF vars, stats
<1> QED BY <1>2, <1>3, <1>4, <1>5, <1>6, <1>7, <1>8 DEF Next

\* What the strategies read is true, for any number of concurrent payments
\* and any window size: the window holds the latest outcomes in the order in
\* which attempts finished, and inflight is the number of attempts under way
\* (ProviderStats.start, finish).
THEOREM StatsCurrent == Spec => []StatsAreCurrent
<1>1. Init => StatsAreCurrent
  BY StatsInit
<1>2. RouterInv /\ StatsAreCurrent /\ [Next]_vars => StatsAreCurrent'
  BY StatsStep
<1> QED BY <1>1, <1>2, RouterAlways, PTL DEF Spec

-----------------------------------------------------------------------------
(* Round robin. *)

\* Division of a by l with remainder r, and the position after position x.
Divides(a, l, q, r) == q \in Int /\ r \in 0 .. l - 1 /\ a = q * l + r
Follows(y, x, l) == x \in 0 .. l - 1 /\ y = IF x = l - 1 THEN 0 ELSE x + 1

\* A remainder is the only one.
LEMMA RemainderUnique ==
  ASSUME NEW a \in Int, NEW l \in Nat \ {0}, NEW q, NEW r, Divides(a, l, q, r)
  PROVE  a % l = r
<1> DEFINE k == a \div l
           m == a % l
<1>1. k \in Int /\ m \in 0 .. l - 1 /\ a = l * k + m
  OBVIOUS
<1> HIDE DEF k, m
<1>0. q \in Int /\ r \in 0 .. l - 1 /\ a = q * l + r
  BY DEF Divides
<1>2. l * (k - q) = r - m
  BY <1>0, <1>1
<1>3. k - q = 0
  <2>1. CASE k - q >= 1
    <3>1. l * (k - q) >= l
      BY <1>0, <1>1, <2>1
    <3> QED BY <1>0, <1>1, <1>2, <3>1
  <2>2. CASE k - q <= -1
    <3>1. l * (k - q) <= -l
      BY <1>0, <1>1, <2>2
    <3> QED BY <1>0, <1>1, <1>2, <3>1
  <2> QED BY <1>0, <1>1, <2>1, <2>2
<1>4. r = m
  BY <1>0, <1>1, <1>2, <1>3
<1> QED BY <1>4 DEF m

\* Counting modulo a multiple of l does not disturb the position modulo l.
LEMMA NextPosition ==
  ASSUME NEW c \in Nat \ {0}, NEW x \in 0 .. c - 1, NEW l \in Nat \ {0}, NEW e \in Int, c = e * l
  PROVE  Follows(((x + 1) % c) % l, x % l, l)
<1> DEFINE k == x \div l
           m == x % l
           y == x + 1
<1>1. k \in Int /\ m \in 0 .. l - 1 /\ x = k * l + m /\ y \in Int
  OBVIOUS
<1> HIDE DEF k, m
<1>2. CASE m = l - 1
  <2>1. Divides(y, l, k + 1, 0)
    BY <1>1, <1>2 DEF Divides
  <2>2. y % l = 0
    <3> HIDE DEF y
    <3> QED BY <1>1, <2>1, RemainderUnique
  <2>3. y % c = y \/ y % c = 0
    <3>1. CASE y = c
      <4>1. Divides(y, c, 1, 0)
        BY <3>1 DEF Divides
      <4> HIDE DEF y
      <4> QED BY <1>1, <4>1, RemainderUnique
    <3>2. CASE y # c
      <4>1. Divides(y, c, 0, y)
        BY <3>2 DEF Divides
      <4> HIDE DEF y
      <4> QED BY <1>1, <4>1, RemainderUnique
    <3> QED BY <3>1, <3>2
  <2>4. 0 % l = 0
    <3>1. Divides(0, l, 0, 0)
      BY DEF Divides
    <3> QED BY <3>1, RemainderUnique
  <2>5. (y % c) % l = 0
    <3> HIDE DEF y
    <3> QED BY <2>2, <2>3, <2>4
  <2> QED BY <1>1, <1>2, <2>5 DEF Follows, m
<1>3. CASE m # l - 1
  <2>1. Divides(y, l, k, m + 1)
    BY <1>1, <1>3 DEF Divides
  <2>2. y % l = m + 1
    <3> HIDE DEF y
    <3> QED BY <1>1, <2>1, RemainderUnique
  <2>3. y # c
    <3>1. SUFFICES ASSUME y = c PROVE FALSE
      OBVIOUS
    <3>2. Divides(y, l, e, 0)
      BY <3>1 DEF Divides
    <3>3. y % l = 0
      <4> HIDE DEF y
      <4> QED BY <1>1, <3>2, RemainderUnique
    <3> QED BY <1>1, <2>2, <3>3
  <2>4. y % c = y
    <3>1. Divides(y, c, 0, y)
      BY <2>3 DEF Divides
    <3> HIDE DEF y
    <3> QED BY <1>1, <3>1, RemainderUnique
  <2>5. (y % c) % l = m + 1
    <3> HIDE DEF y
    <3> QED BY <2>2, <2>4
  <2> QED BY <1>1, <1>3, <2>5 DEF Follows, m
<1> QED BY <1>2, <1>3

\* Position i lies on the way round from position s to position e.
Between(s, e, i) == IF s <= e THEN s <= i /\ i < e ELSE s <= i \/ i < e

\* The shares after whole rounds and the present one, which began at s: the
\* providers from s up to the position of the next choice got one more.
TurnsFrom(b, s) ==
    \A i \in 0 .. Len(Healthy) - 1 :
      picks[Healthy[i + 1]] = b + (IF Between(s, next % Len(Healthy), i) THEN 1 ELSE 0)

Turns ==
    strategy = "round_robin" /\ healthy # {} =>
      \E b \in Nat : \E s \in 0 .. Len(Healthy) - 1 : TurnsFrom(b, s)

\* The shares differ by one at most.
LEMMA TurnsShare == RouterInv /\ Turns => RoundRobinShare
<1> SUFFICES ASSUME RouterInv, Turns, strategy = "round_robin", NEW p \in healthy, NEW q \in healthy
             PROVE  picks[p] - picks[q] <= 1
  BY DEF RoundRobinShare
<1> DEFINE l == Len(Healthy)
<1>1. healthy # {} /\ healthy \in SUBSET P /\ picks \in [P -> Nat]
  BY DEF RouterInv, TypeOK
<1>2. l \in Nat /\ \A r \in healthy : Index(Healthy, r) \in 1 .. l /\ Healthy[Index(Healthy, r)] = r
  BY <1>1, ProvidersListed, HealthyLists
<1>3. PICK b \in Nat : \E s \in 0 .. l - 1 : TurnsFrom(b, s)
  BY <1>1 DEF Turns
<1>4. PICK s \in 0 .. l - 1 : TurnsFrom(b, s)
  BY <1>3
<1>5. ASSUME NEW r \in healthy PROVE picks[r] = b \/ picks[r] = b + 1
  <2> DEFINE i == Index(Healthy, r) - 1
  <2>1. i \in 0 .. l - 1 /\ Healthy[i + 1] = r
    BY <1>2
  <2> HIDE DEF i
  <2>2. picks[r] = b + (IF Between(s, next % l, i) THEN 1 ELSE 0)
    BY <1>4, <2>1 DEF TurnsFrom
  <2> QED BY <2>2
<1> QED BY <1>5

\* A change of list, rates or configuration starts afresh, wherever the
\* position stands.
LEMMA TurnsAfresh == RouterInv /\ picks = Zero => Turns
<1> SUFFICES ASSUME RouterInv, picks = Zero, healthy # {}
             PROVE  \E b \in Nat : \E s \in 0 .. Len(Healthy) - 1 : TurnsFrom(b, s)
  BY DEF Turns
<1> DEFINE l == Len(Healthy)
           s == next % l
<1>1. healthy \in SUBSET P /\ next \in Nat
  BY RoutingAssumption DEF RouterInv, TypeOK
<1>2. l \in Nat \ {0} /\ DOMAIN Healthy = 1 .. l /\ Range(Healthy) = healthy
  BY <1>1, ProvidersListed, HealthyLists
<1>3. s \in 0 .. l - 1
  BY <1>1, <1>2
<1>4. ASSUME NEW i \in 0 .. l - 1
      PROVE  picks[Healthy[i + 1]] = 0 + (IF Between(s, s, i) THEN 1 ELSE 0)
  <2>1. i + 1 \in 1 .. l
    BY <1>2
  <2>2. Healthy[i + 1] \in P
    BY <1>1, <1>2, <2>1 DEF Range
  <2>3. picks[Healthy[i + 1]] = 0
    BY <2>2 DEF Zero
  <2>4. ~Between(s, s, i)
    BY <1>2, <1>3 DEF Between
  <2> QED BY <2>3, <2>4
<1>5. TurnsFrom(0, s)
  BY <1>4 DEF TurnsFrom
<1> QED BY <1>3, <1>5

\* The next provider of the list has its turn.
LEMMA TurnTaken ==
  ASSUME RouterInv, Turns, strategy = "round_robin", healthy # {},
         UNCHANGED healthy, next' = Advance, NEW p \in healthy, p = RoundRobin(Healthy),
         picks' = [picks EXCEPT ![p] = @ + 1]
  PROVE  Turns'
<1> DEFINE l == Len(Healthy)
           e == next % l
           f == next' % l
<1>1. healthy \in SUBSET P /\ next \in 0 .. Cycle - 1 /\ Cycle \in Nat \ {0} /\ picks \in [P -> Nat]
  BY RoutingAssumption DEF RouterInv, TypeOK
<1>2. /\ l \in 1 .. Len(Providers) /\ Len(Providers) \in Nat
      /\ DOMAIN Healthy = 1 .. l /\ Range(Healthy) = healthy
      /\ \A i, j \in 1 .. l : Healthy[i] = Healthy[j] => i = j
  BY <1>1, ProvidersListed, HealthyLists
<1>3. Healthy' = Healthy
  BY DEF Healthy
<1>4. e \in 0 .. l - 1 /\ f = IF e = l - 1 THEN 0 ELSE e + 1
  <2>1. l \in Nat \ {0} /\ Cycle % l = 0
    BY <1>2, RoutingAssumption
  <2> HIDE DEF l
  <2>2. PICK d \in Int : Cycle = d * l
    <3>1. Cycle \div l \in Int /\ Cycle = (Cycle \div l) * l
      BY <1>1, <2>1
    <3> QED BY <3>1
  <2>3. Follows(((next + 1) % Cycle) % l, next % l, l)
    BY <1>1, <2>1, <2>2, NextPosition
  <2>4. next' = (next + 1) % Cycle
    BY DEF Advance
  <2>5. Follows(f, e, l)
    BY <2>3, <2>4
  <2> HIDE DEF e, f
  <2> QED BY <2>5 DEF Follows
<1>5. PICK b \in Nat : \E s \in 0 .. l - 1 : TurnsFrom(b, s)
  BY DEF Turns
<1>6. PICK s \in 0 .. l - 1 : TurnsFrom(b, s)
  BY <1>5
<1>7. p = Healthy[e + 1]
  BY DEF RoundRobin
<1>8. \A i \in 0 .. l - 1 : picks[Healthy[i + 1]] = b + (IF Between(s, e, i) THEN 1 ELSE 0)
  BY <1>6 DEF TurnsFrom
<1> HIDE DEF l, e, f
<1>9. \A i \in 0 .. l - 1 : Healthy[i + 1] \in P
  BY <1>1, <1>2 DEF Range
<1>10. picks'[Healthy[e + 1]] = b + 1
  <2>1. ~Between(s, e, e)
    BY <1>2, <1>4 DEF Between
  <2>2. picks[Healthy[e + 1]] = b
    BY <1>4, <1>8, <2>1
  <2> QED BY <1>1, <1>4, <1>7, <1>9, <2>2
<1>11. ASSUME NEW i \in 0 .. l - 1, i # e
       PROVE  picks'[Healthy[i + 1]] = b + (IF Between(s, e, i) THEN 1 ELSE 0)
  <2>1. Healthy[i + 1] # p
    BY <1>2, <1>4, <1>7, <1>11
  <2>2. picks'[Healthy[i + 1]] = picks[Healthy[i + 1]]
    BY <1>1, <1>9, <2>1
  <2> QED BY <1>8, <2>2
<1>12. PICK c \in Nat : c = IF f = s THEN b + 1 ELSE b
  <2>1. (IF f = s THEN b + 1 ELSE b) \in Nat
    OBVIOUS
  <2> QED BY <2>1
<1>13. ASSUME NEW i \in 0 .. l - 1
       PROVE  picks'[Healthy[i + 1]] = c + (IF Between(s, f, i) THEN 1 ELSE 0)
  <2>1. CASE i = e
    <3>1. picks'[Healthy[i + 1]] = b + 1
      BY <1>10, <2>1
    <3>2. IF f = s THEN ~Between(s, f, i) ELSE Between(s, f, i)
      BY <1>2, <1>4, <2>1 DEF Between
    <3> QED BY <1>12, <3>1, <3>2
  <2>2. CASE i # e
    <3>1. picks'[Healthy[i + 1]] = b + (IF Between(s, e, i) THEN 1 ELSE 0)
      BY <1>11, <2>2
    <3>2. IF f = s THEN ~Between(s, f, i) /\ Between(s, e, i)
                   ELSE Between(s, f, i) <=> Between(s, e, i)
      BY <1>2, <1>4, <2>2 DEF Between
    <3> QED BY <1>12, <3>1, <3>2
  <2> QED BY <2>1, <2>2
<1>14. TurnsFrom(c, s)'
  BY <1>3, <1>13 DEF TurnsFrom, l, f
<1>15. s \in 0 .. Len(Healthy') - 1
  BY <1>3 DEF l
<1>16. \E d \in Nat : \E t \in 0 .. Len(Healthy') - 1 : TurnsFrom(d, t)'
  BY <1>12, <1>14, <1>15
<1> QED BY <1>16 DEF Turns

\* Every step keeps the turns.
LEMMA TurnsStep == RouterInv /\ Turns /\ [Next]_vars /\ RouterInv' => Turns'
<1> SUFFICES ASSUME RouterInv, Turns, [Next]_vars, RouterInv' PROVE Turns'
  OBVIOUS
<1>1. ASSUME (picks = Zero)' PROVE Turns'
  <2>1. (RouterInv /\ picks = Zero => Turns)'
    BY TurnsAfresh, PTL
  <2> QED BY <1>1, <2>1
<1>2. ASSUME UNCHANGED <<strategy, next, healthy, picks>> PROVE Turns'
  BY <1>2 DEF Turns, TurnsFrom, Healthy
<1>3. ASSUME NEW s \in Slots, Route(s) PROVE Turns'
  <2>1. PICK p \in healthy : Choose(Healthy, p) /\ picks' = [picks EXCEPT ![p] = @ + 1]
    BY <1>3 DEF Route
  <2>2. healthy # {} /\ UNCHANGED healthy /\ strategy' = strategy
    BY <1>3, <2>1, ChooseKeeps DEF Route
  <2>3. CASE strategy = "round_robin"
    <3>1. p = RoundRobin(Healthy) /\ next' = Advance
      BY <2>1, <2>3 DEF Choose
    <3> QED BY <2>1, <2>2, <2>3, <3>1, TurnTaken
  <2>4. CASE strategy # "round_robin"
    BY <2>2, <2>4 DEF Turns
  <2> QED BY <2>3, <2>4
<1>4. ASSUME NEW s \in Slots, Attempt(s) \/ Skip(s) PROVE Turns'
  BY <1>2, <1>4 DEF Attempt, Skip, router
<1>5. ASSUME NEW s \in Slots, NEW o \in Outcomes, FinishRequest(s, o) PROVE Turns'
  <2>1. picks' = picks \/ picks' = Zero
    BY <1>5 DEF FinishRequest
  <2>2. UNCHANGED <<strategy, next, healthy>>
    BY <1>5 DEF FinishRequest, router
  <2>3. CASE picks' = picks
    BY <1>2, <2>2, <2>3
  <2>4. CASE picks' = Zero
    BY <1>1, <2>4 DEF Zero
  <2> QED BY <2>1, <2>3, <2>4
<1>6. ASSUME NEW p \in P, FailProvider(p) \/ RecoverProvider(p) PROVE Turns'
  BY <1>1, <1>6 DEF FailProvider, RecoverProvider, Changes, Zero
<1>7. ASSUME NEW policy \in Policies, ConfigureRouting(policy[1], policy[2]) PROVE Turns'
  BY <1>1, <1>7 DEF ConfigureRouting, Changes, Zero
<1>8. CASE UNCHANGED vars
  BY <1>2, <1>8 DEF vars, router
<1> QED BY <1>3, <1>4, <1>5, <1>6, <1>7, <1>8 DEF Next

\* While the list of healthy providers stays the same, round robin gives
\* every provider of it the same number of payments, give or take one,
\* wherever the position stood when the list last changed and however many
\* providers there are (_round_robin).
THEOREM RoundRobinFair == Spec => []RoundRobinShare
<1>1. Init => Turns
  <2>1. Init => RouterInv /\ picks = Zero
    BY RouterInit DEF Init
  <2> QED BY <2>1, TurnsAfresh
<1>2. RouterInv /\ Turns /\ [Next]_vars /\ RouterInv' => Turns'
  BY TurnsStep
<1>3. RouterInv /\ Turns => RoundRobinShare
  BY TurnsShare
<1> QED BY <1>1, <1>2, <1>3, RouterAlways, PTL DEF Spec

-----------------------------------------------------------------------------
(* Weighted round robin. *)

\* The account of the choices since health, configuration or a rate last
\* changed: from the credits c of that moment, each choice added its weight
\* to a provider's credit, and each time it was chosen took the total.
AccountFrom(c) ==
    LET n == Sum(picks, healthy)
        total == Sum(Weights, healthy) IN
    \A p \in healthy : credit[p] = c[p] + (n * Weight(p) - picks[p] * total)

Account ==
    strategy = "weighted_round_robin" => \E c : WithinRoom(c) /\ AccountFrom(c)

\* What a provider got too much or too little is the difference of its
\* credits then and now.
LEMMA AccountShare == RouterInv /\ Account => WeightedShare
<1> SUFFICES ASSUME RouterInv, Account, strategy = "weighted_round_robin", NEW p \in healthy
             PROVE  LET total == Sum(Weights, healthy)
                        n == Sum(picks, healthy)
                        off == picks[p] * total - n * Weight(p) IN
                    /\ off <= 2 * (Len(Providers) - 1) * Scale
                    /\ -off <= 2 * (Len(Providers) - 1) * Scale
  BY DEF WeightedShare, Weights
<1> DEFINE total == Sum(Weights, healthy)
           n == Sum(picks, healthy)
           a == picks[p] * total
           g == n * Weight(p)
           b == (Len(Providers) - 1) * Scale
<1>1. PICK c : WithinRoom(c) /\ AccountFrom(c)
  BY DEF Account
<1>2. p \in P /\ healthy \in SUBSET P /\ healthy # {} /\ picks \in [P -> Nat] /\ WithinRoom(credit)
  BY DEF RouterInv, TypeOK
<1>3. c[p] \in Int /\ c[p] <= b /\ -c[p] <= b
  BY <1>1, <1>2, OneWithinRoom
<1>4. credit[p] \in Int /\ credit[p] <= b /\ -credit[p] <= b
  BY <1>2, OneWithinRoom
<1>5. credit[p] = c[p] + (g - a)
  BY <1>1 DEF AccountFrom
<1>6. a \in Int /\ g \in Int
  <2>1. Weights \in [P -> Int] /\ Weight(p) \in Int
    BY <1>2, WeightedChoice, RoutingAssumption
  <2>2. IsFiniteSet(healthy)
    BY <1>2, HealthyLists
  <2>3. \A q \in healthy : Weights[q] \in Int /\ picks[q] \in Int
    BY <1>2, <2>1
  <2>4. total \in Int /\ n \in Int
    BY <2>2, <2>3, SumInt
  <2> HIDE DEF total, n
  <2> QED BY <1>2, <2>1, <2>4
<1>7. b \in Int /\ 2 * (Len(Providers) - 1) * Scale = 2 * b
  BY ProvidersListed, RoutingAssumption
<1> HIDE DEF a, g, b
<1>8. a - g <= 2 * b /\ -(a - g) <= 2 * b
  BY <1>3, <1>4, <1>5, <1>6, <1>7
<1> QED BY <1>7, <1>8 DEF a, g

\* A change of list, rates or configuration opens a new account.
LEMMA AccountOpened == RouterInv /\ picks = Zero => Account
<1> SUFFICES ASSUME RouterInv, picks = Zero PROVE \E c : WithinRoom(c) /\ AccountFrom(c)
  BY DEF Account
<1>1. WithinRoom(credit) /\ credit \in [P -> Int] /\ healthy \in SUBSET P
  BY DEF RouterInv, TypeOK
<1>2. ASSUME NEW p \in healthy
      PROVE  credit[p] = credit[p] + (Sum(picks, healthy) * Weight(p) - picks[p] * Sum(Weights, healthy))
  <2>1. healthy # {} /\ p \in P /\ picks[p] = 0
    BY <1>1 DEF Zero
  <2>2. IsFiniteSet(healthy)
    BY <1>1, <2>1, HealthyLists
  <2>3. Weights \in [P -> Int] /\ Weight(p) \in Int
    BY <2>1, WeightedChoice, RoutingAssumption
  <2>4. \A q \in healthy : Weights[q] \in Int /\ picks[q] \in Nat /\ picks[q] \in Int /\ picks[q] <= 0
    BY <1>1, <2>3 DEF Zero
  <2>5. Sum(Weights, healthy) \in Int
    BY <2>2, <2>4, SumInt
  <2>6. Sum(picks, healthy) = 0
    <3>1. Sum(picks, healthy) <= Cardinality(healthy) * 0
      BY <2>2, <2>4, SumAtMost
    <3>2. Sum(picks, healthy) \in Nat
      BY <2>2, <2>4, SumOfNaturals
    <3>3. Cardinality(healthy) \in Nat
      BY <2>2, FS_CardinalityType
    <3> QED BY <3>1, <3>2, <3>3
  <2>7. credit[p] \in Int
    BY <1>1, <2>1
  <2> QED BY <2>1, <2>3, <2>5, <2>6, <2>7
<1>3. AccountFrom(credit)
  BY <1>2 DEF AccountFrom
<1> QED BY <1>1, <1>3

\* A choice enters the account.
LEMMA ChoiceEntered ==
  ASSUME RouterInv, Account, strategy = "weighted_round_robin", healthy # {},
         UNCHANGED <<healthy, recent>>, credit' = Charged(Healthy),
         NEW m \in healthy, m = WeightedRoundRobin(Healthy),
         picks' = [picks EXCEPT ![m] = @ + 1]
  PROVE  Account'
<1> DEFINE h == Credited(Healthy)
           total == Sum(Weights, healthy)
           n == Sum(picks, healthy)
<1>1. PICK c : WithinRoom(c) /\ AccountFrom(c)
  BY DEF Account
<1>2. healthy \in SUBSET P /\ picks \in [P -> Nat] /\ credit \in [P -> Int]
  BY DEF RouterInv, TypeOK
<1>3. /\ Weights \in [P -> Int] /\ \A p \in P : Weights[p] = Weight(p) /\ Weight(p) \in 0 .. Scale
      /\ h \in [P -> Int] /\ Gets(h, credit, Weights, healthy)
      /\ Pays(Charged(Healthy), h, m, total)
  BY WeightedChoice
<1>4. IsFiniteSet(healthy)
  BY <1>2, HealthyLists
<1>5. \A p \in P : Weight(p)' = Weight(p)
  BY DEF Weight
<1>6. Weights' = Weights
  BY <1>5 DEF Weights
<1>7. total \in Int /\ n \in Int
  <2>1. \A q \in healthy : Weights[q] \in Int /\ picks[q] \in Int
    BY <1>2, <1>3
  <2> QED BY <1>4, <2>1, SumInt
<1>8. Sum(picks', healthy) = n + 1
  <2>1. \A q \in healthy : picks[q] \in Int /\ picks'[q] \in Int
    BY <1>2
  <2>2. IsFiniteSet(healthy \ {m})
    BY <1>4, FS_Subset
  <2>3. \A q \in healthy \ {m} : picks[q] \in Int /\ picks'[q] = picks[q]
    BY <1>2
  <2>4. Sum(picks', healthy \ {m}) = Sum(picks, healthy \ {m}) /\ Sum(picks, healthy \ {m}) \in Int
    <3>1. PICK f : f = picks
      OBVIOUS
    <3>2. PICK g : g = picks'
      OBVIOUS
    <3>3. PICK R : R = healthy \ {m}
      OBVIOUS
    <3>4. IsFiniteSet(R) /\ \A q \in R : f[q] \in Int /\ g[q] = f[q]
      BY <2>2, <2>3, <3>1, <3>2, <3>3
    <3>5. Sum(g, R) = Sum(f, R) /\ Sum(f, R) \in Int
      BY <3>4, SumSame, SumInt
    <3> QED BY <3>1, <3>2, <3>3, <3>5
  <2>5. Sum(picks', healthy) = Sum(picks', healthy \ {m}) + picks'[m]
    BY <1>4, <2>1, SumRemove
  <2>6. Sum(picks, healthy) = Sum(picks, healthy \ {m}) + picks[m]
    BY <1>4, <2>1, SumRemove
  <2>7. picks'[m] = picks[m] + 1 /\ picks[m] \in Int
    BY <1>2
  <2> QED BY <2>4, <2>5, <2>6, <2>7
<1>9. ASSUME NEW p \in healthy
      PROVE  credit'[p] = c[p] + ((n + 1) * Weight(p) - picks'[p] * total)
  <2>1. p \in P /\ Weight(p) \in Int /\ picks[p] \in Int /\ c[p] \in Int
    BY <1>1, <1>2, <1>3, RoutingAssumption DEF WithinRoom
  <2>2. credit[p] = c[p] + (n * Weight(p) - picks[p] * total)
    BY <1>1 DEF AccountFrom
  <2>3. h[p] = credit[p] + Weight(p)
    BY <1>3, <2>1 DEF Gets
  <2>4. credit' = [h EXCEPT ![m] = @ - total]
    BY <1>3 DEF Pays
  <2>5. credit'[p] = IF p = m THEN h[p] - total ELSE h[p]
    BY <1>3, <2>1, <2>4
  <2>6. picks'[p] = IF p = m THEN picks[p] + 1 ELSE picks[p]
    BY <1>2, <2>1
  <2> DEFINE g == n * Weight(p)
             a == picks[p] * total
  <2>7. g \in Int /\ a \in Int
    BY <1>7, <2>1
  <2>8. (n + 1) * Weight(p) = g + Weight(p) /\ (picks[p] + 1) * total = a + total
    BY <1>7, <2>1
  <2> HIDE DEF g, a, h, total, n
  <2>9. credit[p] = c[p] + (g - a)
    BY <2>2 DEF g, a
  <2>10. CASE p = m
    <3>1. picks'[p] * total = a + total
      BY <2>6, <2>8, <2>10
    <3> QED BY <1>7, <2>1, <2>3, <2>5, <2>7, <2>8, <2>9, <2>10, <3>1
  <2>11. CASE p # m
    <3>1. picks'[p] * total = a
      BY <2>6, <2>11 DEF a
    <3> QED BY <1>7, <2>1, <2>3, <2>5, <2>7, <2>8, <2>9, <2>11, <3>1
  <2> QED BY <2>10, <2>11
<1> HIDE DEF h
<1>10. AccountFrom(c)'
  BY <1>2, <1>5, <1>6, <1>8, <1>9 DEF AccountFrom
<1>11. WithinRoom(c)
  BY <1>1
<1> QED BY <1>10, <1>11 DEF Account, WithinRoom

\* Every step keeps the account.
LEMMA AccountStep == RouterInv /\ Account /\ [Next]_vars /\ RouterInv' => Account'
<1> SUFFICES ASSUME RouterInv, Account, [Next]_vars, RouterInv' PROVE Account'
  OBVIOUS
<1>1. ASSUME (picks = Zero)' PROVE Account'
  <2>1. (RouterInv /\ picks = Zero => Account)'
    BY AccountOpened, PTL
  <2> QED BY <1>1, <2>1
<1>2. ASSUME UNCHANGED <<strategy, credit, healthy, picks>>, \A p \in P : Weight(p)' = Weight(p)
      PROVE  Account'
  <2>1. Weights' = Weights
    BY <1>2 DEF Weights
  <2>2. healthy \in SUBSET P
    BY DEF RouterInv, TypeOK
  <2>3. ASSUME NEW c, AccountFrom(c) PROVE AccountFrom(c)'
    BY <1>2, <2>1, <2>2, <2>3 DEF AccountFrom
  <2> QED BY <1>2, <2>3 DEF Account, WithinRoom
<1>3. ASSUME NEW s \in Slots, Route(s) PROVE Account'
  <2>1. PICK p \in healthy : Choose(Healthy, p) /\ picks' = [picks EXCEPT ![p] = @ + 1]
    BY <1>3 DEF Route
  <2>2. healthy # {} /\ UNCHANGED <<healthy, recent>> /\ strategy' = strategy
    BY <1>3, <2>1, ChooseKeeps DEF Route, stats
  <2>3. CASE strategy = "weighted_round_robin"
    <3>1. p = WeightedRoundRobin(Healthy) /\ credit' = Charged(Healthy)
      BY <2>1, <2>3 DEF Choose
    <3> QED BY <2>1, <2>2, <2>3, <3>1, ChoiceEntered
  <2>4. CASE strategy # "weighted_round_robin"
    BY <2>2, <2>4 DEF Account
  <2> QED BY <2>3, <2>4
<1>4. ASSUME NEW s \in Slots, Attempt(s) \/ Skip(s) PROVE Account'
  <2>1. UNCHANGED <<strategy, credit, healthy, picks, recent>>
    BY <1>4 DEF Attempt, Skip, router, stats
  <2>2. \A p \in P : Weight(p)' = Weight(p)
    BY <2>1 DEF Weight
  <2> QED BY <1>2, <2>1, <2>2
<1>5. ASSUME NEW s \in Slots, NEW o \in Outcomes, FinishRequest(s, o) PROVE Account'
  <2>1. PICK p : p = Head(calls[s])
    OBVIOUS
  <2>2. /\ UNCHANGED <<strategy, credit, healthy>>
        /\ recent' = [recent EXCEPT ![p] = Finish(@, o)]
        /\ picks' = IF SuccessRate(recent'[p]) = SuccessRate(recent[p]) THEN picks ELSE Zero
    BY <1>5, <2>1 DEF FinishRequest, router
  <2>3. CASE SuccessRate(recent'[p]) = SuccessRate(recent[p])
    <3>1. recent \in [P -> Seq(Outcomes)]
      BY DEF RouterInv, TypeOK
    <3>2. ASSUME NEW q \in P PROVE SuccessRate(recent'[q]) = SuccessRate(recent[q])
      <4>1. CASE q = p
        BY <2>3, <4>1
      <4>2. CASE q # p
        <5>1. recent'[q] = recent[q]
          BY <2>2, <3>1, <4>2
        <5> QED BY <5>1
      <4> QED BY <4>1, <4>2
    <3>3. \A q \in P : Weight(q)' = Weight(q)
      <4>1. ASSUME NEW q \in P PROVE Weight(q)' = Weight(q)
        <5>1. SuccessRate(recent[q])' = SuccessRate(recent'[q])
          BY DEF SuccessRate, Good
        <5> QED BY <3>2, <5>1 DEF Weight
      <4> QED BY <4>1
    <3> QED BY <1>2, <2>2, <2>3, <3>3
  <2>4. CASE SuccessRate(recent'[p]) # SuccessRate(recent[p])
    BY <1>1, <2>2, <2>4 DEF Zero
  <2> QED BY <2>3, <2>4
<1>6. ASSUME NEW p \in P, FailProvider(p) \/ RecoverProvider(p) PROVE Account'
  BY <1>1, <1>6 DEF FailProvider, RecoverProvider, Changes, Zero
<1>7. ASSUME NEW policy \in Policies, ConfigureRouting(policy[1], policy[2]) PROVE Account'
  BY <1>1, <1>7 DEF ConfigureRouting, Changes, Zero
<1>8. CASE UNCHANGED vars
  <2>1. UNCHANGED <<strategy, credit, healthy, picks, recent>>
    BY <1>8 DEF vars, router, stats
  <2>2. \A p \in P : Weight(p)' = Weight(p)
    BY <2>1 DEF Weight
  <2> QED BY <1>2, <2>1, <2>2
<1> QED BY <1>3, <1>4, <1>5, <1>6, <1>7, <1>8 DEF Next

\* While list and success rates stay the same, every provider gets payments
\* in proportion to its weight, up to a constant that does not grow with the
\* number of payments, whatever credits earlier rates and lists left behind
\* and however many providers there are (_weighted_round_robin).
THEOREM WeightedFair == Spec => []WeightedShare
<1>1. Init => Account
  <2>1. Init => RouterInv /\ picks = Zero
    BY RouterInit DEF Init
  <2> QED BY <2>1, AccountOpened
<1>2. RouterInv /\ Account /\ [Next]_vars /\ RouterInv' => Account'
  BY AccountStep
<1>3. RouterInv /\ Account => WeightedShare
  BY AccountShare
<1> QED BY <1>1, <1>2, <1>3, RouterAlways, PTL DEF Spec
=============================================================================
