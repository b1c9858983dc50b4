---------------------------- MODULE Activity_proofs ----------------------------
(***************************************************************************)
(* Proofs about the accounting of focus time at both ends: the archive and *)
(* the reports of the API, Activity, and the tracker on the device,        *)
(* ActiveWindow.                                                           *)
(***************************************************************************)
EXTENDS Activity, ActiveWindow, FiniteSetTheorems, WellFoundedInduction, TLAPS

-----------------------------------------------------------------------------
(* Sums.  The sum over a set is defined by a recursive function on its     *)
(* subsets; what holds of it is proved by a smallest counterexample.       *)

One(s) == CHOOSE x \in s : TRUE

\* g sums up the subsets of S, one element at a time.
Sums(g, S, v) ==
    g = [s \in SUBSET S |-> IF s = {} THEN 0 ELSE v[One(s)] + g[s \ {One(s)}]]

Total(v, S) == (CHOOSE g : Sums(g, S, v))[S]

LEMMA OneIn == ASSUME NEW s, s # {} PROVE One(s) \in s
BY DEF One

\* Of some sets of elements of a finite set one is minimal.
LEMMA Smallest ==
    ASSUME NEW S, IsFiniteSet(S), NEW D, D \subseteq SUBSET S, D # {}
    PROVE  \E m \in D : \A t \in SUBSET m : t # m => t \notin D
<1>1. IsWellFoundedOn(StrictSubsetOrdering(S), SUBSET S)
  BY FS_StrictSubsetOrderingWellFounded, FS_FiniteSubsetsOfFinite
<1>2. PICK m \in D : \A t \in D : <<t, m>> \notin StrictSubsetOrdering(S)
  BY <1>1, WFMin, Zenon
<1>3. \A t \in SUBSET m : t # m => t \notin D
  <2> SUFFICES ASSUME NEW t \in SUBSET m, t # m, t \in D
               PROVE  FALSE
    OBVIOUS
  <2>1. <<t, m>> \in StrictSubsetOrdering(S)
    BY DEF StrictSubsetOrdering
  <2> QED BY <1>2, <2>1
<1> QED
  BY <1>3

LEMMA SumsValue ==
    ASSUME NEW g, NEW S, NEW v, Sums(g, S, v), NEW s \in SUBSET S
    PROVE  g[s] = IF s = {} THEN 0 ELSE v[One(s)] + g[s \ {One(s)}]
BY DEF Sums

LEMMA SumsAgree ==
    ASSUME NEW S, NEW T, IsFiniteSet(S), NEW v, NEW g, NEW h, Sums(g, S, v), Sums(h, T, v), S \subseteq T
    PROVE  \A s \in SUBSET S : g[s] = h[s]
<1> DEFINE D == {s \in SUBSET S : g[s] # h[s]}
<1> SUFFICES ASSUME D # {} PROVE FALSE
  OBVIOUS
<1>1. PICK m \in D : \A t \in SUBSET m : t # m => t \notin D
  <2>1. D \subseteq SUBSET S
    OBVIOUS
  <2> HIDE DEF D
  <2> QED BY <2>1, Smallest
<1>2. m \in SUBSET S /\ m \in SUBSET T
  BY <1>1
<1>3. CASE m = {}
  BY <1>1, <1>2, <1>3, SumsValue
<1>4. CASE m # {}
  <2> DEFINE t == m \ {One(m)}
  <2>1. t \in SUBSET m /\ t # m
    BY <1>4, OneIn
  <2>2. g[t] = h[t]
    BY <1>1, <1>2, <2>1
  <2>3. g[m] = v[One(m)] + g[t]
    BY <1>2, <1>4 DEF Sums
  <2>4. h[m] = v[One(m)] + h[t]
    BY <1>2, <1>4 DEF Sums
  <2> QED BY <1>1, <2>2, <2>3, <2>4
<1> QED
  BY <1>3, <1>4

LEMMA SumsExist ==
    ASSUME NEW S, IsFiniteSet(S), NEW v
    PROVE  \E g : Sums(g, S, v)
<1> DEFINE D == {U \in SUBSET S : ~\E g : Sums(g, U, v)}
<1> SUFFICES ASSUME D # {} PROVE FALSE
  OBVIOUS
<1>1. PICK U \in D : \A V \in SUBSET U : V # U => V \notin D
  <2>1. D \subseteq SUBSET S
    OBVIOUS
  <2> HIDE DEF D
  <2> QED BY <2>1, Smallest
<1> DEFINE G(V) == CHOOSE g : Sums(g, V, v)
           h == [s \in SUBSET U |-> IF s = {} THEN 0 ELSE v[One(s)] + G(s \ {One(s)})[s \ {One(s)}]]
<1>2. ASSUME NEW V \in SUBSET U, V # U
      PROVE  Sums(G(V), V, v) /\ IsFiniteSet(V)
  <2>1. \E g : Sums(g, V, v)
    BY <1>1, <1>2
  <2>2. IsFiniteSet(V)
    BY <1>1, <1>2, FS_Subset
  <2> QED BY <2>1, <2>2
<1>3. ASSUME NEW V \in SUBSET U, V # U
      PROVE  h[V] = G(V)[V]
  <2> DEFINE W == V \ {One(V)}
  <2>1. G(V)[V] = IF V = {} THEN 0 ELSE v[One(V)] + G(V)[W]
    <3>1. Sums(G(V), V, v)
      BY <1>2, <1>3
    <3> HIDE DEF G
    <3>2. V \in SUBSET V
      OBVIOUS
    <3> QED BY <3>1, <3>2 DEF Sums
  <2>2. G(V)[W] = G(W)[W]
    <3>1. W \in SUBSET U /\ W # U /\ W \subseteq V
      BY <1>3
    <3>2. Sums(G(V), V, v) /\ Sums(G(W), W, v) /\ IsFiniteSet(W)
      BY <1>2, <1>3, <3>1
    <3> HIDE DEF G, W
    <3> QED BY <3>1, <3>2, SumsAgree
  <2>3. h[V] = IF V = {} THEN 0 ELSE v[One(V)] + G(W)[W]
    <3> HIDE DEF G
    <3> QED OBVIOUS
  <2> QED BY <2>1, <2>2, <2>3
<1>4. \A s \in SUBSET U : h[s] = IF s = {} THEN 0 ELSE v[One(s)] + h[s \ {One(s)}]
  <2> SUFFICES ASSUME NEW s \in SUBSET U, s # {}
               PROVE  h[s] = v[One(s)] + h[s \ {One(s)}]
    <3> HIDE DEF G
    <3> QED OBVIOUS
  <2>1. s \ {One(s)} \in SUBSET U /\ s \ {One(s)} # U
    BY OneIn
  <2>2. h[s \ {One(s)}] = G(s \ {One(s)})[s \ {One(s)}]
    <3> HIDE DEF G, h
    <3> QED BY <1>3, <2>1
  <2>3. h[s] = v[One(s)] + G(s \ {One(s)})[s \ {One(s)}]
    <3> HIDE DEF G
    <3> QED OBVIOUS
  <2> QED BY <2>2, <2>3
<1>5. h = [s \in SUBSET U |-> h[s]]
  <2> HIDE DEF G
  <2> QED OBVIOUS
<1> HIDE DEF h
<1>6. Sums(h, U, v)
  BY <1>4, <1>5 DEF Sums
<1> QED
  BY <1>1, <1>6

\* A set can be summed up one element at a time ...
LEMMA TotalStep ==
    ASSUME NEW S, IsFiniteSet(S), NEW v
    PROVE  Total(v, S) = IF S = {} THEN 0 ELSE v[One(S)] + Total(v, S \ {One(S)})
<1> DEFINE T == S \ {One(S)}
           g == CHOOSE f : Sums(f, S, v)
           h == CHOOSE f : Sums(f, T, v)
<1>1. IsFiniteSet(T)
  BY FS_Subset
<1>2. Sums(g, S, v) /\ Sums(h, T, v)
  BY <1>1, SumsExist
<1>3. Total(v, S) = g[S] /\ Total(v, T) = h[T]
  BY DEF Total
<1> HIDE DEF g, h
<1>4. h[T] = g[T]
  <2>1. T \subseteq S
    OBVIOUS
  <2> HIDE DEF T
  <2>2. ASSUME NEW k, NEW m, Sums(k, S, v), Sums(m, T, v)
        PROVE  m[T] = k[T]
    BY <1>1, <2>1, <2>2, SumsAgree
  <2> QED BY <1>2, <2>2
<1>5. g[S] = IF S = {} THEN 0 ELSE v[One(S)] + g[T]
  BY <1>2, SumsValue
<1> QED
  BY <1>3, <1>4, <1>5

LEMMA TotalNat ==
    ASSUME NEW S, IsFiniteSet(S), NEW v, \A x \in S : v[x] \in Nat
    PROVE  Total(v, S) \in Nat
<1> DEFINE D == {U \in SUBSET S : Total(v, U) \notin Nat}
<1> SUFFICES ASSUME D # {} PROVE FALSE
  OBVIOUS
<1>1. PICK U \in D : \A V \in SUBSET U : V # U => V \notin D
  <2>1. D \subseteq SUBSET S
    OBVIOUS
  <2> HIDE DEF D
  <2> QED BY <2>1, Smallest
<1>2. U \subseteq S /\ Total(v, U) \notin Nat /\ IsFiniteSet(U)
  BY <1>1, FS_Subset
<1>3. CASE U = {}
  BY <1>2, <1>3, TotalStep
<1>4. CASE U # {}
  <2> DEFINE V == U \ {One(U)}
  <2>1. One(U) \in U /\ V \in SUBSET U /\ V # U
    BY <1>4, OneIn
  <2>2. Total(v, V) \in Nat
    BY <1>1, <1>2, <2>1
  <2>3. Total(v, U) = v[One(U)] + Total(v, V)
    BY <1>2, <1>4, TotalStep
  <2> HIDE DEF V
  <2> QED BY <1>2, <2>1, <2>2, <2>3
<1> QED
  BY <1>3, <1>4

\* ... starting with any of them ...
LEMMA TotalRemove ==
    ASSUME NEW S, IsFiniteSet(S), NEW v, \A x \in S : v[x] \in Nat, NEW x \in S
    PROVE  Total(v, S) = v[x] + Total(v, S \ {x})
<1> DEFINE Bad(U) == \E y \in U : Total(v, U) # v[y] + Total(v, U \ {y})
           D == {U \in SUBSET S : Bad(U)}
<1> SUFFICES ASSUME D # {} PROVE FALSE
  OBVIOUS
<1>1. PICK U \in D : \A V \in SUBSET U : V # U => V \notin D
  <2>1. D \subseteq SUBSET S
    OBVIOUS
  <2> HIDE DEF D
  <2> QED BY <2>1, Smallest
<1>2. PICK y \in U : Total(v, U) # v[y] + Total(v, U \ {y})
  BY <1>1
<1> DEFINE c == One(U)
<1>3. U \subseteq S /\ IsFiniteSet(U) /\ c \in U
  BY <1>1, <1>2, OneIn, FS_Subset
<1>4. Total(v, U) = v[c] + Total(v, U \ {c})
  BY <1>2, <1>3, TotalStep
<1> HIDE DEF c
<1>5. c # y
  BY <1>2, <1>4
<1>6. ~Bad(U \ {c}) /\ ~Bad(U \ {y})
  <2>1. U \ {c} \in SUBSET U /\ U \ {c} # U /\ U \ {y} \in SUBSET U /\ U \ {y} # U
    BY <1>2, <1>3
  <2> QED BY <1>1, <1>3, <2>1
<1> DEFINE rest == U \ {c, y}
<1>7. Total(v, U \ {c}) = v[y] + Total(v, rest)
  <2>1. y \in U \ {c} /\ (U \ {c}) \ {y} = rest
    BY <1>2, <1>5
  <2> HIDE DEF rest
  <2> QED BY <1>6, <2>1
<1>8. Total(v, U \ {y}) = v[c] + Total(v, rest)
  <2>1. c \in U \ {y} /\ (U \ {y}) \ {c} = rest
    BY <1>3, <1>5
  <2> HIDE DEF rest
  <2> QED BY <1>6, <2>1
<1>9. v[c] \in Nat /\ v[y] \in Nat /\ Total(v, rest) \in Nat
  <2>1. IsFiniteSet(rest)
    BY <1>3, FS_Subset
  <2>2. \A z \in rest : v[z] \in Nat
    BY <1>3
  <2> QED BY <1>2, <1>3, <2>1, <2>2, TotalNat
<1> HIDE DEF rest
<1> QED
  BY <1>2, <1>4, <1>7, <1>8, <1>9

\* ... so that a part sums up to no more than the whole.
LEMMA TotalPart ==
    ASSUME NEW S, IsFiniteSet(S), NEW v, \A x \in S : v[x] \in Nat, NEW T \in SUBSET S
    PROVE  Total(v, T) <= Total(v, S)
<1> DEFINE D == {U \in SUBSET S : T \subseteq U /\ ~(Total(v, T) <= Total(v, U))}
<1> SUFFICES ASSUME D # {} PROVE FALSE
  OBVIOUS
<1>1. PICK U \in D : \A V \in SUBSET U : V # U => V \notin D
  <2>1. D \subseteq SUBSET S
    OBVIOUS
  <2> HIDE DEF D
  <2> QED BY <2>1, Smallest
<1>2. U \subseteq S /\ T \subseteq U /\ ~(Total(v, T) <= Total(v, U)) /\ IsFiniteSet(U) /\ IsFiniteSet(T)
  BY <1>1, FS_Subset
<1>3. Total(v, T) \in Nat
  BY <1>2, TotalNat
<1>4. PICK x \in U : x \notin T
  <2>1. Total(v, T) <= Total(v, T)
    BY <1>3
  <2>2. T # U
    BY <1>2, <2>1
  <2> QED BY <1>2, <2>2
<1>5. Total(v, T) <= Total(v, U \ {x})
  <2>1. U \ {x} \in SUBSET U /\ U \ {x} # U /\ T \subseteq U \ {x} /\ U \ {x} \in SUBSET S
    BY <1>2, <1>4
  <2> QED BY <1>1, <2>1
<1>6. Total(v, U) = v[x] + Total(v, U \ {x})
  BY <1>2, <1>4, TotalRemove
<1>7. v[x] \in Nat /\ Total(v, U \ {x}) \in Nat
  <2>1. IsFiniteSet(U \ {x})
    BY <1>2, FS_Subset
  <2> QED BY <1>2, <1>4, <2>1, TotalNat
<1> QED
  BY <1>2, <1>3, <1>5, <1>6, <1>7

Over(F, S) == UNION {F[x] : x \in S}

LEMMA InOver ==
    ASSUME NEW F, NEW S, NEW y
    PROVE  y \in Over(F, S) <=> \E x \in S : y \in F[x]
<1>1. ASSUME y \in UNION {F[x] : x \in S} PROVE \E x \in S : y \in F[x]
  <2>1. PICK A \in {F[x] : x \in S} : y \in A
    BY <1>1
  <2> QED BY <2>1
<1>2. ASSUME NEW x \in S, y \in F[x] PROVE y \in UNION {F[z] : z \in S}
  BY <1>2
<1> QED
  BY <1>1, <1>2 DEF Over

\* ... and one of the sizes of disjoint sets is the size of their union.
LEMMA TotalIsCardinality ==
    ASSUME NEW S, IsFiniteSet(S), NEW v, NEW F,
           \A x \in S : IsFiniteSet(F[x]) /\ v[x] = Cardinality(F[x]),
           \A x, y \in S : x # y => F[x] \cap F[y] = {}
    PROVE  IsFiniteSet(Over(F, S)) /\ Total(v, S) = Cardinality(Over(F, S))
<1> DEFINE Fine(U) == IsFiniteSet(Over(F, U)) /\ Total(v, U) = Cardinality(Over(F, U))
           D == {U \in SUBSET S : ~Fine(U)}
<1> SUFFICES ASSUME D # {} PROVE FALSE
  OBVIOUS
<1>1. PICK U \in D : \A V \in SUBSET U : V # U => V \notin D
  <2>1. D \subseteq SUBSET S
    OBVIOUS
  <2> HIDE DEF D
  <2> QED BY <2>1, Smallest
<1>2. U \subseteq S /\ IsFiniteSet(U)
  BY <1>1, FS_Subset
<1>3. CASE U = {}
  <2>1. Total(v, U) = 0
    BY <1>2, <1>3, TotalStep
  <2>2. Over(F, U) = {}
    BY <1>3, InOver
  <2>3. IsFiniteSet({}) /\ Cardinality({}) = 0
    BY FS_EmptySet
  <2> QED BY <1>1, <2>1, <2>2, <2>3
<1>4. CASE U # {}
  <2> DEFINE c == One(U)
             V == U \ {c}
  <2>1. c \in U /\ V \in SUBSET U /\ V # U
    BY <1>4, OneIn
  <2>2. Fine(V)
    BY <1>1, <1>2, <2>1
  <2>3. Total(v, U) = v[c] + Total(v, V)
    BY <1>2, <1>4, TotalStep
  <2>4. Over(F, U) = F[c] \cup Over(F, V)
    <3> HIDE DEF c
    <3> QED BY <2>1, InOver
  <2>5. F[c] \cap Over(F, V) = {}
    <3> HIDE DEF c
    <3> QED BY <1>2, <2>1, InOver
  <2>6. IsFiniteSet(F[c]) /\ v[c] = Cardinality(F[c]) /\ Cardinality(F[c]) \in Nat
    BY <1>2, <2>1, FS_CardinalityType
  <2> HIDE DEF c, V
  <2>7. IsFiniteSet(Over(F, V)) /\ Total(v, V) = Cardinality(Over(F, V))
        /\ Cardinality(Over(F, V)) \in Nat
    BY <2>2, FS_CardinalityType
  <2>8. ~Fine(U)
    BY <1>1
  <2> DEFINE A == F[c]
             B == Over(F, V)
  <2>9. IsFiniteSet(A \cup B)
        /\ Cardinality(A \cup B) = Cardinality(A) + Cardinality(B) - Cardinality(A \cap B)
    <3>1. IsFiniteSet(A) /\ IsFiniteSet(B)
      BY <2>6, <2>7
    <3> HIDE DEF A, B
    <3> QED BY <3>1, FS_Union
  <2>10. A \cap B = {} /\ Over(F, U) = A \cup B
    BY <2>4, <2>5
  <2>11. Cardinality({}) = 0
    BY FS_EmptySet
  <2>12. IsFiniteSet(Over(F, U)) /\ Cardinality(Over(F, U)) = Cardinality(A) + Cardinality(B)
    <3>1. Cardinality(A) \in Nat /\ Cardinality(B) \in Nat
      BY <2>6, <2>7
    <3> HIDE DEF A, B
    <3>2. Cardinality(A \cap B) = 0
      BY <2>10, <2>11
    <3> QED BY <2>9, <2>10, <3>1, <3>2
  <2>13. Total(v, U) = Cardinality(A) + Cardinality(B)
    BY <2>3, <2>6, <2>7
  <2> QED BY <2>8, <2>12, <2>13
<1> QED
  BY <1>3, <1>4

-----------------------------------------------------------------------------
(* Folds.  FoldLeft is defined by a recursive function on the subsets of   *)
(* the indices as well.                                                    *)

LEMMA LeastNat ==
    ASSUME NEW T, T \subseteq Nat, T # {}
    PROVE  \E x \in T : \A y \in T : x <= y
<1> DEFINE R == {ss \in Nat \X Nat : ss[1] < ss[2]}
<1>1. IsWellFoundedOn(R, Nat)
  BY NatLessThanWellFounded DEF OpToRel
<1>2. \A x, y \in Nat : x < y => <<x, y>> \in R
  OBVIOUS
<1> HIDE DEF R
<1>3. PICK x \in T : \A y \in T : ~(<<y, x>> \in R)
  BY <1>1, WFMin
<1>4. \A y \in T : ~(y < x)
  BY <1>2, <1>3
<1> QED
  BY <1>4

LEMMA MaxIn ==
    ASSUME NEW n \in Nat, NEW s \in SUBSET (1..n), s # {}
    PROVE  Max(s) \in s /\ Max(s) \in 1..n /\ \A y \in s : y <= Max(s)
<1> DEFINE D == {m \in Nat : \A y \in s : y <= m}
<1>1. PICK m \in D : \A x \in D : m <= x
  <2>1. n \in D
    OBVIOUS
  <2>2. D \subseteq Nat /\ D # {}
    BY <2>1
  <2> HIDE DEF D
  <2> QED BY <2>2, LeastNat
<1>2. m \in s
  <2> SUFFICES ASSUME m \notin s PROVE FALSE
    OBVIOUS
  <2>1. PICK y \in s : TRUE
    OBVIOUS
  <2>2. m - 1 \in D
    BY <1>1, <2>1
  <2> QED BY <1>1, <2>2
<1>3. \E x \in s : \A y \in s : x >= y
  BY <1>1, <1>2
<1>4. Max(s) \in s /\ \A y \in s : Max(s) >= y
  BY <1>3 DEF Max
<1> QED
  BY <1>4

Folding(g, n, base, h, q) ==
    g = [s \in SUBSET (1..n) |->
            IF s = {} THEN base ELSE h[g[s \ {Max(s)}], q[Max(s)]]]

FoldUpTo(g, k, A, base, h, q) ==
    /\ g \in [SUBSET (1..k) -> A]
    /\ \A s \in SUBSET (1..k) :
          g[s] = IF s = {} THEN base ELSE h[g[s \ {Max(s)}], q[Max(s)]]

LEMMA FoldsExist ==
    ASSUME NEW n \in Nat, NEW A, NEW X, NEW base \in A, NEW h \in [A \X X -> A], NEW q \in [1..n -> X]
    PROVE  \E g \in [SUBSET (1..n) -> A] : Folding(g, n, base, h, q)
<1>1. ASSUME NEW k \in 0..n, NEW l \in 0..k, NEW g, NEW f, FoldUpTo(g, k, A, base, h, q), FoldUpTo(f, l, A, base, h, q)
      PROVE  \A s \in SUBSET (1..l) : g[s] = f[s]
  <2> DEFINE D == {s \in SUBSET (1..l) : g[s] # f[s]}
  <2> SUFFICES ASSUME D # {} PROVE FALSE
    OBVIOUS
  <2>1. PICK s \in D : \A t \in SUBSET s : t # s => t \notin D
    <3>1. D \subseteq SUBSET (1..l) /\ IsFiniteSet(1..l)
      BY FS_Interval
    <3> HIDE DEF D
    <3> QED BY <3>1, Smallest
  <2>2. CASE s = {}
    BY <1>1, <2>1, <2>2 DEF FoldUpTo
  <2>3. CASE s # {}
    <3> DEFINE t == s \ {Max(s)}
    <3>0. s \in SUBSET (1..l) /\ l \in Nat
      BY <2>1
    <3>1. Max(s) \in s
      BY <2>3, <3>0, MaxIn
    <3>2. s \in SUBSET (1..l) /\ s \in SUBSET (1..k) /\ t \in SUBSET s /\ t # s
      BY <2>1, <3>1
    <3>3. g[t] = f[t]
      BY <2>1, <3>2
    <3>4. g[s] = h[g[t], q[Max(s)]] /\ f[s] = h[f[t], q[Max(s)]]
      BY <1>1, <2>3, <3>2 DEF FoldUpTo
    <3> QED BY <2>1, <3>3, <3>4
  <2> QED BY <2>2, <2>3
<1> DEFINE Bad == {k \in 0..n : ~\E g : FoldUpTo(g, k, A, base, h, q)}
<1>2. Bad = {}
  <2> SUFFICES ASSUME Bad # {} PROVE FALSE
    OBVIOUS
  <2>1. PICK k \in Bad : \A l \in Bad : k <= l
    <3>1. Bad \subseteq Nat
      OBVIOUS
    <3> HIDE DEF Bad
    <3> QED BY <3>1, LeastNat
  <2>2. CASE k = 0
    <3>1. 1..k = {} /\ SUBSET (1..k) = {{}}
      BY <2>2
    <3>2. FoldUpTo([s \in SUBSET (1..k) |-> base], k, A, base, h, q)
      BY <3>1 DEF FoldUpTo
    <3> QED BY <2>1, <3>2
  <2>3. CASE k # 0
    <3>0. k \in 1..n /\ k - 1 \in 0..n /\ k - 1 \notin Bad
      BY <2>1, <2>3
    <3>1. PICK f : FoldUpTo(f, k - 1, A, base, h, q)
      BY <3>0
    <3> DEFINE g == [s \in SUBSET (1..k) |->
                        IF k \in s THEN h[f[s \ {k}], q[k]] ELSE f[s]]
    <3>2. ASSUME NEW s \in SUBSET (1..k)
          PROVE  /\ g[s] \in A
                 /\ g[s] = IF s = {} THEN base ELSE h[g[s \ {Max(s)}], q[Max(s)]]
      <4>1. CASE k \in s
        <5>1. Max(s) = k
          <6>1. k \in Nat /\ s # {}
            BY <3>0, <4>1
          <6>2. Max(s) \in 1..k /\ k <= Max(s)
            BY <4>1, <6>1, MaxIn
          <6> QED BY <6>1, <6>2
        <5>2. s \ {k} \in SUBSET (1..(k - 1)) /\ s \ {k} \in SUBSET (1..k) /\ k \notin s \ {k}
          BY <3>0
        <5>3. f[s \ {k}] \in A /\ q[k] \in X
          BY <3>0, <3>1, <5>2 DEF FoldUpTo
        <5>4. g[s \ {k}] = f[s \ {k}] /\ g[s] = h[f[s \ {k}], q[k]]
          BY <4>1, <5>2
        <5> HIDE DEF g
        <5> QED BY <4>1, <5>1, <5>3, <5>4
      <4>2. CASE k \notin s
        <5>1. s \in SUBSET (1..(k - 1))
          BY <3>0, <4>2
        <5>2. s # {} => Max(s) \in s
          <6>1. k \in Nat
            BY <3>0
          <6> QED BY <6>1, MaxIn
        <5>3. s # {} => s \ {Max(s)} \in SUBSET (1..(k - 1)) /\ k \notin s \ {Max(s)}
                        /\ s \ {Max(s)} \in SUBSET (1..k)
          BY <3>0, <5>1, <4>2
        <5>4. g[s] = f[s] /\ (s # {} => g[s \ {Max(s)}] = f[s \ {Max(s)}])
          BY <4>2, <5>3
        <5> HIDE DEF g
        <5> QED BY <3>1, <5>1, <5>4 DEF FoldUpTo
      <4> QED BY <4>1, <4>2
    <3>3. g = [s \in SUBSET (1..k) |-> g[s]]
      OBVIOUS
    <3> HIDE DEF g
    <3>4. FoldUpTo(g, k, A, base, h, q)
      BY <3>2, <3>3 DEF FoldUpTo
    <3> QED BY <2>1, <3>4
  <2> QED BY <2>2, <2>3
<1>3. PICK g : FoldUpTo(g, n, A, base, h, q)
  BY <1>2
<1>4. Folding(g, n, base, h, q)
  BY <1>3 DEF Folding, FoldUpTo
<1> QED
  BY <1>3, <1>4 DEF FoldUpTo

-----------------------------------------------------------------------------

(* Sessions of a day: trimming and merging.                                *)

TrimStep(acc, s) ==
    LET from == Larger(s.start, acc.until)
    IN  IF s.end <= from THEN acc
        ELSE [until |-> s.end, out |-> Append(acc.out, [s EXCEPT !.start = from])]

Trims == [until : Int, out : Seq(Session)]

LEMMA TrimStepType ==
    ASSUME NEW acc \in Trims, NEW s \in Session
    PROVE  TrimStep(acc, s) \in Trims
<1> DEFINE from == Larger(s.start, acc.until)
           t == [s EXCEPT !.start = from]
<1>1. t \in Session /\ s.end \in Int
  BY DEF Session, Larger, Trims
<1>2. acc.out \in Seq(Session)
  BY DEF Trims
<1>3. Append(acc.out, t) \in Seq(Session)
  <2> HIDE DEF t
  <2> QED BY <1>1, <1>2
<1>4. [until |-> s.end, out |-> Append(acc.out, t)] \in Trims
  <2> HIDE DEF t
  <2> QED BY <1>1, <1>3 DEF Trims
<1>5. TrimStep(acc, s) = IF s.end <= from THEN acc ELSE [until |-> s.end, out |-> Append(acc.out, t)]
  BY DEF TrimStep
<1> HIDE DEF t, from
<1> QED
  BY <1>4, <1>5

\* Trim goes through the sessions one after the other.
Trimming(acc, q) ==
    /\ acc[0] = [until |-> 0, out |-> <<>>]
    /\ \A k \in 1..Len(q) : acc[k] = TrimStep(acc[k - 1], q[k])

TrimIter(g, q) ==
    g = [s \in SUBSET (1..Len(q)) |->
            IF s = {} THEN [until |-> 0, out |-> <<>>] ELSE TrimStep(g[s \ {Max(s)}], q[Max(s)])]

LEMMA TrimFold ==
    ASSUME NEW q \in Seq(Session)
    PROVE  \E acc : Trimming(acc, q) /\ Trim(q) = acc[Len(q)].out
<1> DEFINE n == Len(q)
           base == [until |-> 0, out |-> <<>>]
           h == [p \in Trims \X Session |-> TrimStep(p[1], p[2])]
<1>1. Trim(q) = (CHOOSE g : TrimIter(g, q))[1..n].out
  <2>1. DOMAIN q = 1..Len(q)
    OBVIOUS
  <2> QED BY <2>1, Zenon DEF Trim, FoldLeft, MapThenFoldSet, TrimIter, TrimStep
<1>2. \E g : TrimIter(g, q)
  <2>1. base \in Trims
    <3>1. <<>> \in Seq(Session) /\ 0 \in Int
      OBVIOUS
    <3> QED BY <3>1 DEF Trims
  <2>2. h \in [Trims \X Session -> Trims]
    BY TrimStepType
  <2>3. \A a \in Trims, s \in Session : h[a, s] = TrimStep(a, s)
    OBVIOUS
  <2>4. n \in Nat /\ q \in [1..n -> Session]
    OBVIOUS
  <2> HIDE DEF h, n, base
  <2>5. PICK g \in [SUBSET (1..n) -> Trims] : Folding(g, n, base, h, q)
    BY <2>1, <2>2, <2>4, FoldsExist, Zenon
  <2>6. ASSUME NEW s \in SUBSET (1..n)
        PROVE  g[s] = IF s = {} THEN base ELSE TrimStep(g[s \ {Max(s)}], q[Max(s)])
    <3>1. g[s] = IF s = {} THEN base ELSE h[g[s \ {Max(s)}], q[Max(s)]]
      BY <2>5 DEF Folding
    <3>2. s # {} => Max(s) \in 1..n
      BY <2>4, MaxIn
    <3>3. s # {} => g[s \ {Max(s)}] \in Trims /\ q[Max(s)] \in Session
      <4>1. s \ {Max(s)} \in SUBSET (1..n)
        OBVIOUS
      <4> QED BY <2>4, <3>2, <4>1
    <3> QED BY <2>3, <3>1, <3>3
  <2>7. g = [s \in SUBSET (1..n) |-> g[s]]
    BY <2>5
  <2> QED BY <2>6, <2>7 DEF TrimIter, n, base
<1>3. PICK g : TrimIter(g, q) /\ g = CHOOSE f : TrimIter(f, q)
  BY <1>2
<1> DEFINE acc == [k \in 0..n |-> g[1..k]]
<1>4. \A s \in SUBSET (1..n) : g[s] = IF s = {} THEN base ELSE TrimStep(g[s \ {Max(s)}], q[Max(s)])
  BY <1>3 DEF TrimIter
<1>5. n \in Nat
  OBVIOUS
<1> HIDE DEF n, base, h
<1>6. acc[0] = base
  <2>1. 1..0 = {} /\ 0 \in 0..n
    BY <1>5
  <2> QED BY <1>4, <2>1
<1>7. ASSUME NEW k \in 1..n
      PROVE  acc[k] = TrimStep(acc[k - 1], q[k])
  <2>1. k - 1 \in 0..n /\ k \in 0..n /\ 1..k \in SUBSET (1..n) /\ k \in 1..k /\ k \in Nat
    BY <1>5
  <2>2. Max(1..k) = k
    <3>1. Max(1..k) \in 1..k /\ k <= Max(1..k)
      BY <2>1, MaxIn
    <3> QED BY <2>1, <3>1
  <2>3. (1..k) \ {k} = 1..(k - 1)
    BY <2>1
  <2>4. g[1..k] = TrimStep(g[1..(k - 1)], q[k])
    BY <1>4, <2>1, <2>2, <2>3
  <2> QED BY <2>1, <2>4
<1>8. acc[n] = g[1..n]
  BY <1>5
<1> HIDE DEF acc
<1>9. Trimming(acc, q) /\ Trim(q) = acc[n].out
  BY <1>1, <1>3, <1>6, <1>7, <1>8 DEF Trimming, base, n
<1> QED
  BY <1>9 DEF n

MergeStep(out, s) ==
    IF /\ out # <<>>
       /\ out[Len(out)].app = s.app
       /\ s.start <= out[Len(out)].end + MergeGap
    THEN [out EXCEPT ![Len(out)].end = Larger(@, s.end)]
    ELSE Append(out, s)

LEMMA MergeStepType ==
    ASSUME NEW out \in Seq(Session), NEW s \in Session
    PROVE  MergeStep(out, s) \in Seq(Session)
<1>1. CASE out = <<>>
  BY <1>1 DEF MergeStep
<1>2. CASE out # <<>>
  <2> DEFINE n == Len(out)
             t == [out[n] EXCEPT !.end = Larger(@, s.end)]
  <2>1. n \in Nat /\ n \in 1..n /\ out[n] \in Session
    BY <1>2
  <2>2. t \in Session
    BY <2>1 DEF Session, Larger
  <2>3. [out EXCEPT ![n] = t] \in Seq(Session)
    <3> HIDE DEF t, n
    <3>1. out \in [1..Len(out) -> Session]
      OBVIOUS
    <3>2. [out EXCEPT ![n] = t] \in [1..Len(out) -> Session]
      BY <2>2, <3>1
    <3> QED BY <3>2
  <2>4. [out EXCEPT ![n].end = Larger(@, s.end)] = [out EXCEPT ![n] = t]
    OBVIOUS
  <2>5. Append(out, s) \in Seq(Session)
    OBVIOUS
  <2> QED BY <2>3, <2>4, <2>5 DEF MergeStep
<1> QED
  BY <1>1, <1>2

\* mergeActivitySessions goes through the sessions one after the other.
Merging(acc, q) ==
    /\ acc[0] = <<>>
    /\ \A k \in 1..Len(q) : acc[k] = MergeStep(acc[k - 1], q[k])

MergeIter(g, q) ==
    g = [s \in SUBSET (1..Len(q)) |->
            IF s = {} THEN <<>> ELSE MergeStep(g[s \ {Max(s)}], q[Max(s)])]

LEMMA MergeFold ==
    ASSUME NEW q \in Seq(Session)
    PROVE  \E acc : Merging(acc, q) /\ mergeActivitySessions(q) = acc[Len(q)]
<1> DEFINE n == Len(q)
           base == <<>>
           h == [p \in Seq(Session) \X Session |-> MergeStep(p[1], p[2])]
<1>1. mergeActivitySessions(q) = (CHOOSE g : MergeIter(g, q))[1..n]
  <2>1. DOMAIN q = 1..Len(q)
    OBVIOUS
  <2> QED BY <2>1, Zenon DEF mergeActivitySessions, Last, FoldLeft, MapThenFoldSet, MergeIter, MergeStep
<1>2. \E g : MergeIter(g, q)
  <2>1. base \in Seq(Session)
    OBVIOUS
  <2>2. h \in [Seq(Session) \X Session -> Seq(Session)]
    BY MergeStepType
  <2>3. \A a \in Seq(Session), s \in Session : h[a, s] = MergeStep(a, s)
    OBVIOUS
  <2>4. n \in Nat /\ q \in [1..n -> Session]
    OBVIOUS
  <2> HIDE DEF h, n, base
  <2>5. PICK g \in [SUBSET (1..n) -> Seq(Session)] : Folding(g, n, base, h, q)
    BY <2>1, <2>2, <2>4, FoldsExist, Zenon
  <2>6. ASSUME NEW s \in SUBSET (1..n)
        PROVE  g[s] = IF s = {} THEN base ELSE MergeStep(g[s \ {Max(s)}], q[Max(s)])
    <3>1. g[s] = IF s = {} THEN base ELSE h[g[s \ {Max(s)}], q[Max(s)]]
      BY <2>5 DEF Folding
    <3>2. s # {} => Max(s) \in 1..n
      BY <2>4, MaxIn
    <3>3. s # {} => g[s \ {Max(s)}] \in Seq(Session) /\ q[Max(s)] \in Session
      <4>1. s \ {Max(s)} \in SUBSET (1..n)
        OBVIOUS
      <4> QED BY <2>4, <3>2, <4>1
    <3> QED BY <2>3, <3>1, <3>3
  <2>7. g = [s \in SUBSET (1..n) |-> g[s]]
    BY <2>5
  <2> QED BY <2>6, <2>7 DEF MergeIter, n, base
<1>3. PICK g : MergeIter(g, q) /\ g = CHOOSE f : MergeIter(f, q)
  BY <1>2
<1> DEFINE acc == [k \in 0..n |-> g[1..k]]
<1>4. \A s \in SUBSET (1..n) : g[s] = IF s = {} THEN base ELSE MergeStep(g[s \ {Max(s)}], q[Max(s)])
  BY <1>3 DEF MergeIter
<1>5. n \in Nat
  OBVIOUS
<1> HIDE DEF n, base, h
<1>6. acc[0] = base
  <2>1. 1..0 = {} /\ 0 \in 0..n
    BY <1>5
  <2> QED BY <1>4, <2>1
<1>7. ASSUME NEW k \in 1..n
      PROVE  acc[k] = MergeStep(acc[k - 1], q[k])
  <2>1. k - 1 \in 0..n /\ k \in 0..n /\ 1..k \in SUBSET (1..n) /\ k \in 1..k /\ k \in Nat
    BY <1>5
  <2>2. Max(1..k) = k
    <3>1. Max(1..k) \in 1..k /\ k <= Max(1..k)
      BY <2>1, MaxIn
    <3> QED BY <2>1, <3>1
  <2>3. (1..k) \ {k} = 1..(k - 1)
    BY <2>1
  <2>4. g[1..k] = MergeStep(g[1..(k - 1)], q[k])
    BY <1>4, <2>1, <2>2, <2>3
  <2> QED BY <2>1, <2>4
<1>8. acc[n] = g[1..n]
  BY <1>5
<1> HIDE DEF acc
<1>9. Merging(acc, q) /\ mergeActivitySessions(q) = acc[n]
  BY <1>1, <1>3, <1>6, <1>7, <1>8 DEF Merging, base, n
<1> QED
  BY <1>9 DEF n

-----------------------------------------------------------------------------
(* Order.                                                                  *)

Below(S, R, x) == {y \in S : <<y, x>> \in R}
Rank(S, R, x) == Cardinality(Below(S, R, x))

StrictOrder(S, R) ==
    /\ \A x \in S : <<x, x>> \notin R
    /\ \A x, y, z \in S : <<x, y>> \in R /\ <<y, z>> \in R => <<x, z>> \in R
    /\ \A x, y \in S : x = y \/ <<x, y>> \in R \/ <<y, x>> \in R

LEMMA InBelow ==
    ASSUME NEW S, NEW R, NEW x, NEW y
    PROVE  y \in Below(S, R, x) <=> y \in S /\ <<y, x>> \in R
BY DEF Below

LEMMA RankType ==
    ASSUME NEW S, IsFiniteSet(S), NEW R, StrictOrder(S, R), NEW x \in S
    PROVE  /\ IsFiniteSet(Below(S, R, x))
           /\ Rank(S, R, x) \in 0..Cardinality(S) - 1
<1>1. Below(S, R, x) \in SUBSET (S \ {x})
  BY InBelow DEF StrictOrder
<1>2. IsFiniteSet(S \ {x}) /\ Cardinality(S \ {x}) = Cardinality(S) - 1
  BY FS_RemoveElement
<1>3. IsFiniteSet(Below(S, R, x)) /\ Cardinality(Below(S, R, x)) <= Cardinality(S) - 1
  BY <1>1, <1>2, FS_Subset
<1>4. Cardinality(Below(S, R, x)) \in Nat /\ Cardinality(S) \in Nat
  BY <1>3, FS_CardinalityType
<1> QED
  BY <1>3, <1>4 DEF Rank

LEMMA RankGrows ==
    ASSUME NEW S, IsFiniteSet(S), NEW R, StrictOrder(S, R), NEW x \in S, NEW y \in S, <<x, y>> \in R
    PROVE  Rank(S, R, x) < Rank(S, R, y)
<1>1. x \notin Below(S, R, x)
  BY InBelow DEF StrictOrder
<1>2. Below(S, R, x) \cup {x} \in SUBSET Below(S, R, y)
  <2> SUFFICES ASSUME NEW z \in Below(S, R, x) \cup {x} PROVE z \in Below(S, R, y)
    OBVIOUS
  <2>1. CASE z = x
    BY <2>1, InBelow
  <2>2. CASE z # x
    <3>1. z \in S /\ <<z, x>> \in R
      BY <2>2, InBelow
    <3> QED BY <3>1, InBelow DEF StrictOrder
  <2> QED BY <2>1, <2>2
<1>3. IsFiniteSet(Below(S, R, x)) /\ IsFiniteSet(Below(S, R, y))
  BY RankType
<1>4. Cardinality(Below(S, R, x) \cup {x}) = Cardinality(Below(S, R, x)) + 1
  BY <1>1, <1>3, FS_AddElement
<1>5. Cardinality(Below(S, R, x) \cup {x}) <= Cardinality(Below(S, R, y))
  BY <1>2, <1>3, FS_Subset
<1>6. Cardinality(Below(S, R, x)) \in Nat /\ Cardinality(Below(S, R, y)) \in Nat
  BY <1>3, FS_CardinalityType
<1> QED
  BY <1>4, <1>5, <1>6 DEF Rank

LEMMA RankTaken ==
    ASSUME NEW S, IsFiniteSet(S), NEW R, StrictOrder(S, R), NEW k \in 0..Cardinality(S) - 1
    PROVE  \E x \in S : Rank(S, R, x) = k
<1> DEFINE n == Cardinality(S)
           D == 0..n - 1
           f == [x \in S |-> Rank(S, R, x)]
<1>1. n \in Nat
  BY FS_CardinalityType
<1>2. f \in [S -> D]
  BY RankType
<1>3. \A x, y \in S : f[x] = f[y] => x = y
  <2> SUFFICES ASSUME NEW x \in S, NEW y \in S, f[x] = f[y], x # y PROVE FALSE
    OBVIOUS
  <2>1. <<x, y>> \in R \/ <<y, x>> \in R
    BY DEF StrictOrder
  <2>2. Rank(S, R, x) < Rank(S, R, y) \/ Rank(S, R, y) < Rank(S, R, x)
    BY <2>1, RankGrows
  <2>3. Rank(S, R, x) \in Int /\ Rank(S, R, x) = Rank(S, R, y)
    BY <1>2
  <2> QED BY <2>2, <2>3
<1>4. IsFiniteSet(D) /\ Cardinality(D) = n
  BY <1>1, FS_Interval
<1> HIDE DEF f
<1>5. f \in Injection(S, D)
  BY <1>2, <1>3 DEF Injection, IsInjective
<1>6. f \in Surjection(S, D)
  BY <1>4, <1>5, FS_Injection DEF D
<1>7. \E x \in S : f[x] = k
  BY <1>6 DEF Surjection
<1> QED
  BY <1>7 DEF f

\* An enumeration by rank is in the order of R.
LEMMA RankedInOrder ==
    ASSUME NEW S, IsFiniteSet(S), NEW R, StrictOrder(S, R),
           NEW f \in [1..Cardinality(S) -> S], \A k \in DOMAIN f : Rank(S, R, f[k]) = k - 1
    PROVE  /\ \A x \in S : \E k \in DOMAIN f : f[k] = x
           /\ \A k, l \in DOMAIN f : k < l => <<f[k], f[l]>> \in R
<1> DEFINE n == Cardinality(S)
<1>1. n \in Nat /\ DOMAIN f = 1..n
  BY FS_CardinalityType
<1>2. ASSUME NEW k \in 1..n
      PROVE  f[k] \in S /\ Rank(S, R, f[k]) = k - 1
  BY <1>1
<1>4. ASSUME NEW x \in S, NEW y \in S, Rank(S, R, x) <= Rank(S, R, y)
      PROVE  x = y \/ <<x, y>> \in R
  <2> SUFFICES ASSUME x # y, <<x, y>> \notin R PROVE FALSE
    OBVIOUS
  <2>1. Rank(S, R, y) < Rank(S, R, x)
    BY RankGrows DEF StrictOrder
  <2>2. Rank(S, R, y) \in Int /\ Rank(S, R, x) \in Int
    BY RankType
  <2> QED BY <1>4, <2>1, <2>2
<1>5. ASSUME NEW x \in S
      PROVE  \E k \in 1..n : f[k] = x
  <2> DEFINE r == Rank(S, R, x)
  <2>1. r \in 0..n - 1
    BY RankType
  <2> HIDE DEF r
  <2>2. r + 1 \in 1..n
    BY <1>1, <2>1
  <2>3. f[r + 1] \in S /\ Rank(S, R, f[r + 1]) = r
    BY <1>2, <2>1, <2>2
  <2>4. Rank(S, R, f[r + 1]) = Rank(S, R, x) /\ r \in Int
    BY <2>1, <2>3 DEF r
  <2>5. f[r + 1] = x \/ (<<x, f[r + 1]>> \in R /\ <<f[r + 1], x>> \in R)
    BY <1>4, <2>1, <2>3, <2>4
  <2>6. ~(<<x, f[r + 1]>> \in R /\ <<f[r + 1], x>> \in R)
    BY <2>3 DEF StrictOrder
  <2> QED BY <2>2, <2>5, <2>6
<1>6. ASSUME NEW k \in 1..n, NEW l \in 1..n, k < l
      PROVE  <<f[k], f[l]>> \in R
  <2>1. Rank(S, R, f[k]) <= Rank(S, R, f[l]) /\ f[k] # f[l]
    BY <1>1, <1>2, <1>6
  <2> QED BY <1>2, <1>4, <2>1
<1> QED
  BY <1>1, <1>5, <1>6

Earlier(q, i, j) ==
    \/ q[i].start < q[j].start
    \/ q[i].start = q[j].start /\ q[i].end < q[j].end
    \/ q[i].start = q[j].start /\ q[i].end = q[j].end /\ i < j

\* ByStart has the chosen sessions, all of them and no others, by their start.
LEMMA ByStartSorted ==
    ASSUME NEW q \in Seq(Session), NEW I \in SUBSET DOMAIN q, NEW s, s = ByStart(q, I)
    PROVE  /\ s \in Seq(Session)
           /\ \A k \in DOMAIN s : \E i \in I : s[k] = q[i]
           /\ \A i \in I : \E k \in DOMAIN s : s[k] = q[i]
           /\ \A k, l \in DOMAIN s : k < l => s[k].start <= s[l].start
<1> DEFINE R == {p \in I \X I : Earlier(q, p[1], p[2])}
           n == Cardinality(I)
           at(k) == CHOOSE x \in I : Cardinality({y \in I : Earlier(q, y, x)}) = k - 1
           o == [k \in 1..n |-> at(k)]
<1>1. s = [k \in DOMAIN o |-> q[o[k]]]
  BY DEF ByStart, InOrder, Earlier
<1>2. \A x, y \in I : <<x, y>> \in R <=> Earlier(q, x, y)
  OBVIOUS
<1>3. IsFiniteSet(I) /\ n \in Nat
  <2>1. IsFiniteSet(DOMAIN q)
    BY FS_Interval
  <2> QED BY <2>1, FS_Subset, FS_CardinalityType
<1>4. \A x \in I : x \in Nat /\ q[x] \in Session /\ q[x].start \in Int /\ q[x].end \in Int
  <2>1. \A x \in I : x \in 1..Len(q) /\ q[x] \in Session
    OBVIOUS
  <2> QED BY <2>1 DEF Session
<1> HIDE DEF R, n
<1>5. StrictOrder(I, R)
  <2>1. \A x \in I : ~Earlier(q, x, x)
    BY <1>4 DEF Earlier
  <2>2. ASSUME NEW x \in I, NEW y \in I, NEW z \in I, Earlier(q, x, y), Earlier(q, y, z)
        PROVE  Earlier(q, x, z)
    BY <1>4, <2>2 DEF Earlier
  <2>3. ASSUME NEW x \in I, NEW y \in I
        PROVE  x = y \/ Earlier(q, x, y) \/ Earlier(q, y, x)
    BY <1>4 DEF Earlier
  <2> QED BY <1>2, <2>1, <2>2, <2>3 DEF StrictOrder
<1>6. ASSUME NEW k \in 1..n
      PROVE  o[k] \in I /\ Rank(I, R, o[k]) = k - 1
  <2>1. \A x \in I : {y \in I : Earlier(q, y, x)} = Below(I, R, x)
    BY <1>2 DEF Below
  <2>2. PICK x \in I : Rank(I, R, x) = k - 1
    <3>1. k - 1 \in 0..n - 1
      BY <1>3
    <3> QED BY <1>3, <1>5, <3>1, RankTaken DEF n
  <2>3. Cardinality({y \in I : Earlier(q, y, x)}) = k - 1
    BY <2>1, <2>2 DEF Rank
  <2>4. o[k] = CHOOSE z \in I : Cardinality({y \in I : Earlier(q, y, z)}) = k - 1
    OBVIOUS
  <2> HIDE DEF o
  <2>5. o[k] \in I /\ Cardinality({y \in I : Earlier(q, y, o[k])}) = k - 1
    BY <2>3, <2>4, Zenon
  <2> QED BY <2>1, <2>5 DEF Rank
<1>7. o = [k \in 1..n |-> o[k]]
  <2> HIDE DEF at
  <2> QED OBVIOUS
<1> HIDE DEF o
<1>8. o \in [1..n -> I] /\ DOMAIN o = 1..n
  BY <1>6, <1>7
<1>9. /\ \A x \in I : \E k \in DOMAIN o : o[k] = x
      /\ \A k, l \in DOMAIN o : k < l => <<o[k], o[l]>> \in R
  <2>1. o \in [1..Cardinality(I) -> I] /\ \A k \in DOMAIN o : Rank(I, R, o[k]) = k - 1
    BY <1>6, <1>8 DEF n
  <2> QED BY <1>3, <1>5, <2>1, RankedInOrder
<1>10. s \in Seq(Session) /\ DOMAIN s = DOMAIN o /\ \A k \in DOMAIN o : s[k] = q[o[k]]
  <2>1. \A k \in 1..n : q[o[k]] \in Session
    BY <1>4, <1>6
  <2>2. s \in [1..n -> Session]
    BY <1>1, <1>8, <2>1
  <2> QED BY <1>1, <1>3, <1>8, <2>2
<1>11. ASSUME NEW k \in DOMAIN s, NEW l \in DOMAIN s, k < l
       PROVE  s[k].start <= s[l].start
  <2>1. o[k] \in I /\ o[l] \in I /\ <<o[k], o[l]>> \in R
    BY <1>8, <1>9, <1>10, <1>11
  <2>2. Earlier(q, o[k], o[l])
    BY <1>2, <2>1
  <2> QED BY <1>4, <1>10, <2>1, <2>2 DEF Earlier
<1> QED
  BY <1>8, <1>9, <1>10, <1>11

-----------------------------------------------------------------------------
(* What a day of sessions looks like after each stage.                     *)

LEMMA SessionFields ==
    ASSUME NEW s \in Session
    PROVE  s.start \in Int /\ s.end \in Int /\ s.app \in Apps
BY DEF Session

LEMMA InCovered ==
    ASSUME NEW q, NEW t
    PROVE  t \in CoveredIn(q) <=> \E k \in DOMAIN q : t \in Ticks(q[k])
<1>1. ASSUME t \in CoveredIn(q) PROVE \E k \in DOMAIN q : t \in Ticks(q[k])
  <2>1. PICK A \in {Ticks(q[k]) : k \in DOMAIN q} : t \in A
    BY <1>1 DEF CoveredIn
  <2> QED BY <2>1
<1>2. ASSUME NEW k \in DOMAIN q, t \in Ticks(q[k]) PROVE t \in CoveredIn(q)
  BY <1>2 DEF CoveredIn
<1> QED
  BY <1>1, <1>2

LEMMA InTime ==
    ASSUME NEW q, NEW a, NEW t
    PROVE  t \in TimeOf(q, a) <=> \E k \in DOMAIN q : q[k].app = a /\ t \in Ticks(q[k])
<1> DEFINE D == {j \in DOMAIN q : q[j].app = a}
<1>1. ASSUME t \in TimeOf(q, a) PROVE \E k \in D : t \in Ticks(q[k])
  <2>1. PICK A \in {Ticks(q[k]) : k \in D} : t \in A
    BY <1>1 DEF TimeOf
  <2> QED BY <2>1
<1>2. ASSUME NEW k \in D, t \in Ticks(q[k]) PROVE t \in TimeOf(q, a)
  BY <1>2 DEF TimeOf
<1> QED
  BY <1>1, <1>2

LEMMA InTicks ==
    ASSUME NEW s \in Session, NEW t
    PROVE  t \in Ticks(s) <=> t \in Int /\ s.start <= t /\ t < s.end
BY SessionFields DEF Ticks

Within(s) == 0 <= s.start /\ s.start < s.end /\ s.end <= DayLength /\ Visible(s)

\* A possible day of one user.
Orderly(q) ==
    \A k \in DOMAIN q : Within(q[k]) /\ (k > 1 => q[k - 1].end <= q[k].start)

\* Every session ends with a tick of R, as far as R is about its application,
\* and starts with one or where the one before it ends.
Linked(q, R) ==
    \A k \in DOMAIN q :
        /\ q[k].end - 1 \in R[q[k].app]
        /\ q[k].start \in R[q[k].app] \/ (k > 1 /\ q[k - 1].end = q[k].start)

Sorted(q) == \A k, l \in DOMAIN q : k < l => q[k].start <= q[l].start

\* The same before the sessions are trimmed.
Anchored(q, R) ==
    \A k \in DOMAIN q :
        /\ q[k].end - 1 \in R[q[k].app]
        /\ q[k].start \in R[q[k].app] \/ \E l \in DOMAIN q : q[l].end = q[k].start

Anytime == [a \in Apps |-> Int]

EndOf(out) == IF out = <<>> THEN 0 ELSE out[Len(out)].end

\* acc is what Trim has made of the first k sessions of q.
Trimmed(acc, q, k, R) ==
    /\ acc \in Trims
    /\ acc.until = EndOf(acc.out)
    /\ Orderly(acc.out) /\ Linked(acc.out, R)
    /\ \A t : t \in CoveredIn(acc.out) <=> \E i \in 1..k : t \in Ticks(q[i])
    /\ \A a, t : t \in TimeOf(acc.out, a) => \E i \in 1..k : q[i].app = a /\ t \in Ticks(q[i])
    /\ \A i \in 1..k : q[i].end <= acc.until
    /\ \A l \in k + 1..Len(q), t \in Int :
          q[l].start <= t /\ t < acc.until => t \in CoveredIn(acc.out)

\* A session that follows the others is a new last one.
LEMMA Appended ==
    ASSUME NEW out \in Seq(Session), NEW s \in Session, NEW p, p = Append(out, s)
    PROVE  /\ p \in Seq(Session) /\ p # <<>> /\ EndOf(p) = s.end
           /\ Orderly(out) /\ Within(s) /\ EndOf(out) <= s.start => Orderly(p)
           /\ \A R : /\ Linked(out, R) /\ s.end - 1 \in R[s.app]
                     /\ s.start \in R[s.app] \/ (out # <<>> /\ EndOf(out) = s.start)
                     => Linked(p, R)
           /\ \A t : t \in CoveredIn(p) <=> t \in CoveredIn(out) \/ t \in Ticks(s)
           /\ \A a, t : t \in TimeOf(p, a) => t \in TimeOf(out, a) \/ (s.app = a /\ t \in Ticks(s))
<1> DEFINE n == Len(out)
<1>1. /\ p \in Seq(Session) /\ n \in Nat /\ Len(p) = n + 1
      /\ DOMAIN out = 1..n /\ DOMAIN p = 1..n + 1 /\ p[n + 1] = s
      /\ \A k \in 1..n : p[k] = out[k]
  OBVIOUS
<1>2. out # <<>> => n > 0
  OBVIOUS
<1>3. EndOf(p) = s.end /\ p # <<>>
  BY <1>1 DEF EndOf
<1> HIDE DEF n
<1>4. out # <<>> => EndOf(out) = out[n].end
  BY DEF EndOf, n
<1>5. \A k \in 1..n + 1 : k \in 1..n \/ k = n + 1
  BY <1>1
<1>6. \A k \in 1..n + 1 : k > 1 => k - 1 \in 1..n
  BY <1>1
<1>7. n + 1 > 1 => out # <<>> /\ (n + 1) - 1 = n
  BY <1>1 DEF n
<1>8. ASSUME Orderly(out), Within(s), EndOf(out) <= s.start
      PROVE  Orderly(p)
  <2> SUFFICES ASSUME NEW k \in 1..n + 1
               PROVE  Within(p[k]) /\ (k > 1 => p[k - 1].end <= p[k].start)
    BY <1>1 DEF Orderly
  <2>1. CASE k \in 1..n
    BY <1>1, <1>6, <1>8, <2>1 DEF Orderly
  <2>2. CASE k = n + 1
    BY <1>1, <1>4, <1>6, <1>7, <1>8, <2>2
  <2> QED BY <1>5, <2>1, <2>2
<1>9. ASSUME NEW R, Linked(out, R), s.end - 1 \in R[s.app],
             s.start \in R[s.app] \/ (out # <<>> /\ EndOf(out) = s.start)
      PROVE  Linked(p, R)
  <2> SUFFICES ASSUME NEW k \in 1..n + 1
               PROVE  /\ p[k].end - 1 \in R[p[k].app]
                      /\ p[k].start \in R[p[k].app] \/ (k > 1 /\ p[k - 1].end = p[k].start)
    BY <1>1 DEF Linked
  <2>1. CASE k \in 1..n
    BY <1>1, <1>6, <1>9, <2>1 DEF Linked
  <2>2. CASE k = n + 1
    <3>1. out # <<>> => k > 1 /\ k - 1 = n /\ n \in 1..n
      BY <1>1, <1>2, <2>2 DEF n
    <3> QED BY <1>1, <1>4, <1>9, <2>2, <3>1
  <2> QED BY <1>5, <2>1, <2>2
<1>10. ASSUME NEW t
       PROVE  t \in CoveredIn(p) <=> t \in CoveredIn(out) \/ t \in Ticks(s)
  <2>1. ASSUME NEW k \in 1..n + 1, t \in Ticks(p[k])
        PROVE  t \in CoveredIn(out) \/ t \in Ticks(s)
    BY <1>1, <1>5, <2>1, InCovered
  <2>2. ASSUME NEW k \in 1..n, t \in Ticks(out[k])
        PROVE  t \in CoveredIn(p)
    <3>1. k \in 1..n + 1
      BY <1>1
    <3> QED BY <1>1, <2>2, <3>1, InCovered
  <2>3. t \in Ticks(s) => t \in CoveredIn(p)
    <3>1. n + 1 \in 1..n + 1
      BY <1>1
    <3> QED BY <1>1, <3>1, InCovered
  <2> QED BY <1>1, <2>1, <2>2, <2>3, InCovered
<1>11. ASSUME NEW a, NEW t, t \in TimeOf(p, a)
       PROVE  t \in TimeOf(out, a) \/ (s.app = a /\ t \in Ticks(s))
  <2>0. \E k \in DOMAIN p : p[k].app = a /\ t \in Ticks(p[k])
    BY <1>11, InTime
  <2>1. PICK k \in 1..n + 1 : p[k].app = a /\ t \in Ticks(p[k])
    BY <1>1, <2>0
  <2>2. CASE k \in 1..n
    BY <1>1, <2>1, <2>2, InTime
  <2> QED BY <1>1, <1>5, <2>1, <2>2
<1> QED
  BY <1>1, <1>3, <1>8, <1>9, <1>10, <1>11

LEMMA TrimmedStep ==
    ASSUME NEW q \in Seq(Session), NEW R, \A i \in DOMAIN q : Within(q[i]), Sorted(q), Anchored(q, R),
           NEW k \in 1..Len(q), NEW acc, Trimmed(acc, q, k - 1, R)
    PROVE  Trimmed(TrimStep(acc, q[k]), q, k, R)
<1> DEFINE s == q[k]
           from == Larger(s.start, acc.until)
           t0 == [s EXCEPT !.start = from]
           out == acc.out
           p == Append(out, t0)
           new == [until |-> s.end, out |-> p]
<1>0. /\ k \in DOMAIN q /\ k \in Nat /\ Len(q) \in Nat /\ DOMAIN q = 1..Len(q)
      /\ \A i \in 1..k : i \in DOMAIN q
      /\ \A i \in 1..k : i \in 1..k - 1 \/ i = k
      /\ \A l \in k + 1..Len(q) : l \in k - 1 + 1..Len(q) /\ l \in DOMAIN q /\ k < l
      /\ k \in k - 1 + 1..Len(q) /\ k \in 1..k /\ \A i \in 1..k - 1 : i \in 1..k
  OBVIOUS
<1>1. /\ s \in Session /\ Within(s)
      /\ s.start \in Int /\ s.end \in Int /\ s.start >= 0 /\ s.start < s.end /\ s.end <= DayLength
  <2>1. s \in Session /\ Within(s)
    BY <1>0
  <2> QED BY <2>1, SessionFields DEF Within
<1>2. acc.until \in Int /\ out \in Seq(Session) /\ acc.until = EndOf(out)
  BY DEF Trimmed, Trims
<1>3. TrimStep(acc, s) = IF s.end <= from THEN acc ELSE new
  BY DEF TrimStep
<1>4. /\ from \in Int /\ from >= s.start /\ from >= acc.until
      /\ from = s.start \/ from = acc.until
      /\ s.start <= from
  BY <1>1, <1>2 DEF Larger
<1>5. \A l \in k + 1..Len(q) : q[l] \in Session /\ q[l].start \in Int /\ s.start <= q[l].start
  <2>1. \A l \in k + 1..Len(q) : q[l] \in Session
    BY <1>0
  <2> QED BY <1>0, <2>1, SessionFields DEF Sorted
<1> HIDE DEF s, from
<1>6. CASE s.end <= from
  <2>1. s.end <= acc.until
    BY <1>1, <1>2, <1>4, <1>6
  <2>2. ASSUME NEW t, t \in Ticks(s)
        PROVE  t \in CoveredIn(out)
    <3>1. t \in Int /\ s.start <= t /\ t < acc.until
      BY <1>1, <1>2, <2>1, <2>2, InTicks
    <3> QED BY <1>0, <3>1 DEF Trimmed, s
  <2>3. \A t : t \in CoveredIn(out) <=> \E i \in 1..k : t \in Ticks(q[i])
    BY <1>0, <2>2 DEF Trimmed, s
  <2>4. \A i \in 1..k : q[i].end <= acc.until
    BY <1>0, <2>1 DEF Trimmed, s
  <2>5. \A l \in k + 1..Len(q), t \in Int :
          q[l].start <= t /\ t < acc.until => t \in CoveredIn(out)
    BY <1>0 DEF Trimmed
  <2>7. \A a, t : t \in TimeOf(out, a) => \E i \in 1..k : q[i].app = a /\ t \in Ticks(q[i])
    BY <1>0 DEF Trimmed
  <2>6. Trimmed(acc, q, k, R)
    BY <2>3, <2>4, <2>5, <2>7 DEF Trimmed
  <2> QED BY <1>3, <1>6, <2>6 DEF s
<1>7. CASE ~(s.end <= from)
  <2>1. TrimStep(acc, s) = new
    BY <1>3, <1>7
  <2>2. /\ t0 \in Session /\ t0.start = from /\ t0.end = s.end /\ t0.app = s.app /\ from < s.end
    <3>1. from < s.end
      BY <1>1, <1>4, <1>7
    <3>2. t0 \in Session /\ t0.start = from /\ t0.end = s.end /\ t0.app = s.app
      BY <1>1, <1>4 DEF Session
    <3> QED BY <3>1, <3>2
  <2>3. Within(t0)
    BY <1>1, <1>4, <2>2 DEF Within, Visible
  <2>4. \A t : t \in Ticks(t0) <=> t \in Int /\ from <= t /\ t < s.end
    BY <2>2, InTicks
  <2> HIDE DEF t0
  <2>5. /\ p \in Seq(Session) /\ p # <<>> /\ EndOf(p) = s.end
        /\ Orderly(out) /\ Within(t0) /\ EndOf(out) <= t0.start => Orderly(p)
        /\ Linked(out, R) /\ t0.end - 1 \in R[t0.app]
              /\ (t0.start \in R[t0.app] \/ (out # <<>> /\ EndOf(out) = t0.start))
           => Linked(p, R)
        /\ \A t : t \in CoveredIn(p) <=> t \in CoveredIn(out) \/ t \in Ticks(t0)
        /\ \A a, t : t \in TimeOf(p, a) => t \in TimeOf(out, a) \/ (t0.app = a /\ t \in Ticks(t0))
    <3>1. p = Append(out, t0)
      OBVIOUS
    <3> HIDE DEF p, out
    <3> QED BY <1>2, <2>2, <3>1, Appended, Zenon
  <2> HIDE DEF p
  <2>6. Orderly(p)
    BY <1>2, <1>4, <2>2, <2>3, <2>5 DEF Trimmed
  <2>7. Linked(p, R)
    <3>1. s.end - 1 \in R[s.app]
      BY <1>0 DEF Anchored, s
    <3>2. CASE out = <<>>
      <4>1. acc.until = 0 /\ \A t : t \notin CoveredIn(out)
        BY <1>2, <3>2, InCovered DEF EndOf
      <4>2. from = s.start
        BY <1>1, <1>4, <4>1
      <4>3. s.start \in R[s.app] \/ \E l \in DOMAIN q : q[l].end = s.start
        BY <1>0 DEF Anchored, s
      <4>4. ASSUME NEW l \in DOMAIN q, q[l].end = s.start PROVE FALSE
        <5>1. q[l] \in Session /\ Within(q[l]) /\ l \in Nat
          BY <1>0
        <5>2. q[l].start < s.start /\ q[l].start \in Int
          BY <4>4, <5>1, SessionFields DEF Within
        <5>3. l < k
          BY <1>0, <1>1, <5>1, <5>2 DEF Sorted, s
        <5>4. q[l].end <= acc.until
          BY <1>0, <5>1, <5>3 DEF Trimmed
        <5>5. 0 <= q[l].start
          BY <5>1 DEF Within
        <5> QED BY <1>1, <4>1, <4>4, <5>2, <5>4, <5>5
      <4>5. s.start \in R[s.app]
        BY <4>3, <4>4
      <4> QED BY <2>2, <2>5, <3>1, <4>2, <4>5 DEF Trimmed
    <3>3. CASE out # <<>>
      <4>1. s.start \in R[s.app] \/ \E l \in DOMAIN q : q[l].end = s.start
        BY <1>0 DEF Anchored, s
      <4>2. ASSUME NEW l \in DOMAIN q, q[l].end = s.start
            PROVE  s.start <= acc.until
        <5>1. q[l] \in Session /\ Within(q[l]) /\ l \in Nat
          BY <1>0
        <5>2. q[l].start < s.start /\ q[l].start \in Int
          BY <4>2, <5>1, SessionFields DEF Within
        <5>3. l < k
          BY <1>0, <1>1, <5>1, <5>2 DEF Sorted, s
        <5>4. q[l].end <= acc.until
          BY <1>0, <5>1, <5>3 DEF Trimmed
        <5> QED BY <4>2, <5>4
      <4>3. from \in R[s.app] \/ EndOf(out) = from
        BY <1>1, <1>2, <1>4, <4>1, <4>2 DEF Larger, from
      <4> QED BY <2>2, <2>5, <3>1, <3>3, <4>3 DEF Trimmed
    <3> QED BY <3>2, <3>3
  <2>8. ASSUME NEW t, t \in Ticks(s)
        PROVE  t \in CoveredIn(p)
    <3>1. t \in Int /\ s.start <= t /\ t < s.end
      BY <1>1, <2>8, InTicks
    <3>2. CASE t < acc.until
      BY <1>0, <2>5, <3>1, <3>2 DEF Trimmed, s
    <3>3. CASE ~(t < acc.until)
      <4>1. from <= t
        BY <1>1, <1>2, <1>4, <3>1, <3>3
      <4> QED BY <2>4, <2>5, <3>1, <4>1
    <3> QED BY <3>2, <3>3
  <2>9. ASSUME NEW t, t \in Ticks(t0)
        PROVE  t \in Ticks(s)
    BY <1>1, <1>4, <2>4, <2>9, InTicks
  <2>10. \A t : t \in CoveredIn(p) <=> \E i \in 1..k : t \in Ticks(q[i])
    BY <1>0, <2>5, <2>8, <2>9 DEF Trimmed, s
  <2>15. \A a, t : t \in TimeOf(p, a) => \E i \in 1..k : q[i].app = a /\ t \in Ticks(q[i])
    <3> SUFFICES ASSUME NEW a, NEW t, t \in TimeOf(p, a)
                 PROVE  \E i \in 1..k : q[i].app = a /\ t \in Ticks(q[i])
      OBVIOUS
    <3>1. CASE t \in TimeOf(out, a)
      BY <1>0, <3>1 DEF Trimmed
    <3>2. CASE t0.app = a /\ t \in Ticks(t0)
      BY <1>0, <2>2, <2>9, <3>2 DEF s
    <3> QED BY <2>5, <3>1, <3>2
  <2>11. \A i \in 1..k : q[i].end <= s.end
    <3> SUFFICES ASSUME NEW i \in 1..k PROVE q[i].end <= s.end
      OBVIOUS
    <3>1. CASE i = k
      BY <1>1, <3>1 DEF s
    <3>2. CASE i \in 1..k - 1
      <4>1. q[i].end <= acc.until /\ q[i] \in Session
        BY <1>0, <3>2 DEF Trimmed
      <4> QED BY <1>1, <1>2, <1>4, <2>2, <4>1, SessionFields
    <3> QED BY <1>0, <3>1, <3>2
  <2>12. ASSUME NEW l \in k + 1..Len(q), NEW t \in Int, q[l].start <= t, t < s.end
         PROVE  t \in CoveredIn(p)
    <3>1. s.start <= t
      BY <1>1, <1>5, <2>12
    <3>2. t \in Ticks(s)
      BY ONLY <1>1, <2>12, <3>1, InTicks
    <3> QED BY ONLY <2>8, <3>2
  <2>13. new.until = s.end /\ new.out = p /\ new \in Trims
    BY <1>1, <2>5 DEF Trims
  <2> HIDE DEF new
  <2>14. Trimmed(new, q, k, R)
    BY <2>5, <2>6, <2>7, <2>10, <2>11, <2>12, <2>13, <2>15 DEF Trimmed
  <2> QED BY <2>1, <2>14 DEF s
<1> QED
  BY <1>6, <1>7

\* Trim leaves a possible day that covers the same ticks.
LEMMA TrimFacts ==
    ASSUME NEW q \in Seq(Session), NEW R, \A i \in DOMAIN q : Within(q[i]), Sorted(q), Anchored(q, R),
           NEW s, s = Trim(q)
    PROVE  /\ s \in Seq(Session) /\ Orderly(s) /\ Linked(s, R)
           /\ \A t : t \in CoveredIn(s) <=> t \in CoveredIn(q)
           /\ \A a, t : t \in TimeOf(s, a) => t \in TimeOf(q, a)
<1> DEFINE n == Len(q)
<1>0. n \in Nat /\ DOMAIN q = 1..n
  OBVIOUS
<1>1. PICK acc : Trimming(acc, q) /\ s = acc[n].out
  BY TrimFold
<1> DEFINE Bad == {k \in 0..n : ~Trimmed(acc[k], q, k, R)}
<1>2. Bad = {}
  <2> SUFFICES ASSUME Bad # {} PROVE FALSE
    OBVIOUS
  <2>1. PICK k \in Bad : \A l \in Bad : k <= l
    <3>1. Bad \subseteq Nat
      BY <1>0
    <3> HIDE DEF Bad
    <3> QED BY <3>1, LeastNat
  <2>2. k \in 0..n /\ ~Trimmed(acc[k], q, k, R)
    BY <2>1
  <2>3. CASE k = 0
    <3> DEFINE none == [until |-> 0, out |-> <<>>]
    <3>1. acc[0] = none /\ none.until = 0 /\ none.out = <<>> /\ none \in Trims
      <4>1. <<>> \in Seq(Session)
        OBVIOUS
      <4> QED BY <1>1, <4>1 DEF Trimming, Trims
    <3>2. /\ Orderly(<<>>) /\ Linked(<<>>, R) /\ EndOf(<<>>) = 0
          /\ \A t : t \notin CoveredIn(<<>>) /\ \A a : t \notin TimeOf(<<>>, a)
      <4>1. DOMAIN <<>> = {}
        OBVIOUS
      <4> QED BY <4>1, InCovered, InTime DEF Orderly, Linked, EndOf
    <3>3. \A l \in 0 + 1..Len(q), t \in Int : ~(q[l].start <= t /\ t < 0)
      <4> SUFFICES ASSUME NEW l \in 0 + 1..Len(q), NEW t \in Int, q[l].start <= t, t < 0
                   PROVE  FALSE
        OBVIOUS
      <4>1. q[l] \in Session /\ Within(q[l])
        BY <1>0
      <4> QED BY <4>1, SessionFields DEF Within
    <3> HIDE DEF none
    <3>4. Trimmed(none, q, 0, R)
      <4>1. \A a, t : t \notin TimeOf(none.out, a)
        BY <3>1, <3>2
      <4>2. \A t : t \notin CoveredIn(none.out)
        BY <3>1, <3>2
      <4> QED BY <3>1, <3>2, <3>3, <4>1, <4>2 DEF Trimmed
    <3> QED BY <2>2, <2>3, <3>1, <3>4
  <2>4. CASE k # 0
    <3>1. k \in 1..n /\ k - 1 \in 0..n /\ k - 1 \notin Bad
      BY <1>0, <2>1, <2>2, <2>4
    <3>2. Trimmed(acc[k - 1], q, k - 1, R)
      BY <3>1
    <3>3. acc[k] = TrimStep(acc[k - 1], q[k])
      BY <1>1, <3>1 DEF Trimming
    <3> QED BY <2>2, <3>1, <3>2, <3>3, TrimmedStep
  <2> QED BY <2>3, <2>4
<1>3. Trimmed(acc[n], q, n, R)
  <2>1. n \in 0..n
    BY <1>0
  <2> QED BY <1>2, <2>1
<1> HIDE DEF Bad
<1>4. s \in Seq(Session) /\ Orderly(s) /\ Linked(s, R)
  BY <1>1, <1>3 DEF Trimmed, Trims
<1>5. \A t : t \in CoveredIn(s) <=> t \in CoveredIn(q)
  BY <1>0, <1>1, <1>3, InCovered DEF Trimmed
<1>6. \A a, t : t \in TimeOf(s, a) => t \in TimeOf(q, a)
  BY <1>0, <1>1, <1>3, InTime DEF Trimmed
<1> QED
  BY <1>4, <1>5, <1>6

\* t lies in a pause, between ticks of R, that mergeActivitySessions may close.
Near(R, t) == \E lo, hi \in R : lo < t /\ t < hi /\ hi - lo <= MergeGap + 1

\* out is what mergeActivitySessions has made of the first k sessions of q.
MergedTo(out, q, k, R) ==
    /\ out \in Seq(Session) /\ Orderly(out) /\ Linked(out, R)
    /\ IF k = 0 THEN out = <<>> ELSE out # <<>> /\ EndOf(out) = q[k].end
    /\ \A t : (\E i \in 1..k : t \in Ticks(q[i])) => t \in CoveredIn(out)
    /\ \A a \in Apps : \A t \in TimeOf(out, a) :
          (\E i \in 1..k : q[i].app = a /\ t \in Ticks(q[i])) \/ Near(R[a], t)

\* The last session grows.
Grown(out, e) == [out EXCEPT ![Len(out)].end = e]

LEMMA Extended ==
    ASSUME NEW out \in Seq(Session), out # <<>>, NEW e \in Int, EndOf(out) <= e,
           NEW p, p = Grown(out, e)
    PROVE  /\ p \in Seq(Session) /\ p # <<>> /\ EndOf(p) = e
           /\ Orderly(out) /\ e <= DayLength => Orderly(p)
           /\ \A R : Linked(out, R) /\ e - 1 \in R[out[Len(out)].app] => Linked(p, R)
           /\ \A t : t \in CoveredIn(p)
                     <=> t \in CoveredIn(out) \/ (t \in Int /\ EndOf(out) <= t /\ t < e
                                                  /\ out[Len(out)].start <= t)
           /\ \A a, t : t \in TimeOf(p, a)
                     => t \in TimeOf(out, a) \/ (out[Len(out)].app = a /\ t \in Int
                                                 /\ EndOf(out) <= t /\ t < e)
<1> DEFINE n == Len(out)
           last == [out[n] EXCEPT !.end = e]
<1>1. n \in Nat /\ n \in 1..n /\ DOMAIN out = 1..n /\ out[n] \in Session /\ EndOf(out) = out[n].end
  BY DEF EndOf
<1>2. last \in Session /\ last.end = e /\ last.start = out[n].start /\ last.app = out[n].app
  BY <1>1 DEF Session
<1>3. p = [out EXCEPT ![n] = last]
  BY DEF Grown
<1> HIDE DEF last
<1>4. p \in [1..n -> Session] /\ p[n] = last /\ \A k \in 1..n : k # n => p[k] = out[k]
  <2>1. out \in [1..n -> Session]
    OBVIOUS
  <2> HIDE DEF n
  <2> QED BY <1>1, <1>2, <1>3, <2>1
<1>5. p \in Seq(Session) /\ DOMAIN p = 1..n /\ Len(p) = n /\ p # <<>>
  <2> HIDE DEF n
  <2>1. p \in Seq(Session) /\ DOMAIN p = 1..n
    BY <1>1, <1>4
  <2>2. Len(p) = n
    BY <1>1, <2>1
  <2> QED BY <1>1, <2>1, <2>2
<1> HIDE DEF n
<1>6. EndOf(p) = e
  BY <1>2, <1>4, <1>5 DEF EndOf
<1>7. \A k \in 1..n : k > 1 => k - 1 \in 1..n /\ k - 1 # n
  BY <1>1
<1>8. out[n].start \in Int /\ out[n].end \in Int
  BY <1>1, SessionFields
<1>9. ASSUME Orderly(out), e <= DayLength
      PROVE  Orderly(p)
  <2> SUFFICES ASSUME NEW k \in 1..n
               PROVE  Within(p[k]) /\ (k > 1 => p[k - 1].end <= p[k].start)
    BY <1>5 DEF Orderly
  <2>1. Within(out[k]) /\ (k > 1 => out[k - 1].end <= out[k].start)
    BY <1>1, <1>9 DEF Orderly
  <2>2. k > 1 => p[k - 1] = out[k - 1]
    BY <1>4, <1>7
  <2>3. CASE k = n
    BY <1>1, <1>2, <1>4, <1>8, <1>9, <2>1, <2>2, <2>3 DEF Within, Visible
  <2>4. CASE k # n
    BY <1>4, <2>1, <2>2, <2>4
  <2> QED BY <2>3, <2>4
<1>10. ASSUME NEW R, Linked(out, R), e - 1 \in R[out[n].app]
       PROVE  Linked(p, R)
  <2> SUFFICES ASSUME NEW k \in 1..n
               PROVE  /\ p[k].end - 1 \in R[p[k].app]
                      /\ p[k].start \in R[p[k].app] \/ (k > 1 /\ p[k - 1].end = p[k].start)
    BY <1>5 DEF Linked
  <2>1. /\ out[k].end - 1 \in R[out[k].app]
        /\ out[k].start \in R[out[k].app] \/ (k > 1 /\ out[k - 1].end = out[k].start)
    BY <1>1, <1>10 DEF Linked
  <2>2. k > 1 => p[k - 1] = out[k - 1]
    BY <1>4, <1>7
  <2>3. CASE k = n
    BY <1>2, <1>4, <1>10, <2>1, <2>2, <2>3
  <2>4. CASE k # n
    BY <1>4, <2>1, <2>2, <2>4
  <2> QED BY <2>3, <2>4
<1>11. \A t : t \in Ticks(last)
              <=> t \in Ticks(out[n]) \/ (t \in Int /\ EndOf(out) <= t /\ t < e /\ out[n].start <= t)
  BY <1>1, <1>2, <1>8, InTicks
<1>12. ASSUME NEW t
       PROVE  t \in CoveredIn(p)
              <=> t \in CoveredIn(out) \/ (t \in Int /\ EndOf(out) <= t /\ t < e
                                           /\ out[n].start <= t)
  <2>1. t \in CoveredIn(p) <=> \E k \in 1..n : t \in Ticks(p[k])
    BY <1>5, InCovered
  <2>2. t \in CoveredIn(out) <=> \E k \in 1..n : t \in Ticks(out[k])
    BY <1>1, InCovered
  <2> QED BY <1>1, <1>4, <1>11, <2>1, <2>2
<1>13. ASSUME NEW a, NEW t, t \in TimeOf(p, a)
       PROVE  t \in TimeOf(out, a) \/ (out[n].app = a /\ t \in Int /\ EndOf(out) <= t /\ t < e)
  <2>1. PICK k \in 1..n : p[k].app = a /\ t \in Ticks(p[k])
    BY <1>5, <1>13, InTime
  <2>2. CASE k # n
    <3>1. p[k] = out[k]
      BY <1>4, <2>2
    <3> QED BY <1>1, <2>1, <3>1, InTime
  <2>3. CASE k = n
    <3>1. t \in Ticks(last) /\ out[n].app = a
      BY <1>2, <1>4, <2>1, <2>3
    <3> QED BY <1>1, <1>11, <3>1, InTime
  <2> QED BY <2>2, <2>3
<1> QED
  BY <1>5, <1>6, <1>9, <1>10, <1>12, <1>13 DEF n

LEMMA MergedStep ==
    ASSUME NEW q \in Seq(Session), NEW R \in [Apps -> SUBSET Int], Orderly(q), Linked(q, R),
           DayLength \in Nat, MergeGap \in Nat,
           NEW k \in 1..Len(q), NEW out, MergedTo(out, q, k - 1, R)
    PROVE  MergedTo(MergeStep(out, q[k]), q, k, R)
<1> DEFINE s == q[k]
           n == Len(out)
<1>0. /\ k \in DOMAIN q /\ k \in Nat /\ DOMAIN q = 1..Len(q) /\ k \in 1..k /\ k # 0
      /\ k - 1 # 0 => k > 1 /\ k - 1 \in DOMAIN q
      /\ k - 1 = 0 => k = 1
      /\ \A i \in 1..k : i \in 1..k - 1 \/ i = k
      /\ \A i \in 1..k - 1 : i \in 1..k
  OBVIOUS
<1>1. /\ s \in Session /\ Within(s) /\ s.start \in Int /\ s.end \in Int
      /\ 0 <= s.start /\ s.start < s.end /\ s.end <= DayLength
      /\ s.app \in Apps /\ s.end - 1 \in R[s.app]
  <2>1. s \in Session /\ Within(s) /\ s.end - 1 \in R[s.app]
    BY <1>0 DEF Orderly, Linked
  <2> QED BY <2>1, SessionFields DEF Within
<1>2. /\ out \in Seq(Session) /\ Orderly(out) /\ Linked(out, R)
      /\ IF k - 1 = 0 THEN out = <<>> ELSE out # <<>> /\ EndOf(out) = q[k - 1].end
      /\ \A t : (\E i \in 1..k - 1 : t \in Ticks(q[i])) => t \in CoveredIn(out)
      /\ \A a \in Apps : \A t \in TimeOf(out, a) :
            (\E i \in 1..k - 1 : q[i].app = a /\ t \in Ticks(q[i])) \/ Near(R[a], t)
  BY DEF MergedTo
<1>3. /\ EndOf(out) \in Int /\ EndOf(out) <= s.start
      /\ s.start \in R[s.app] \/ (out # <<>> /\ EndOf(out) = s.start)
  <2>1. CASE k - 1 = 0
    BY <1>0, <1>1, <1>2, <2>1 DEF EndOf, Linked
  <2>2. CASE k - 1 # 0
    <3>1. q[k - 1] \in Session /\ out # <<>> /\ EndOf(out) = q[k - 1].end /\ k > 1
      BY <1>0, <1>2, <2>2
    <3>2. q[k - 1].end <= q[k].start /\ (q[k].start \in R[q[k].app] \/ q[k - 1].end = q[k].start)
      BY <1>0, <3>1 DEF Orderly, Linked
    <3> QED BY <3>1, <3>2, SessionFields
  <2> QED BY <2>1, <2>2
<1>4. \A t : t \in Ticks(s) <=> t \in Int /\ s.start <= t /\ t < s.end
  BY <1>1, InTicks
<1>5. ASSUME NEW p, p = Append(out, s)
      PROVE  MergedTo(p, q, k, R)
  <2>1. /\ p \in Seq(Session) /\ p # <<>> /\ EndOf(p) = s.end
        /\ Orderly(out) /\ Within(s) /\ EndOf(out) <= s.start => Orderly(p)
        /\ Linked(out, R) /\ s.end - 1 \in R[s.app]
             /\ (s.start \in R[s.app] \/ (out # <<>> /\ EndOf(out) = s.start)) => Linked(p, R)
        /\ \A t : t \in CoveredIn(p) <=> t \in CoveredIn(out) \/ t \in Ticks(s)
        /\ \A a, t : t \in TimeOf(p, a) => t \in TimeOf(out, a) \/ (s.app = a /\ t \in Ticks(s))
    <3> HIDE DEF s
    <3> QED BY <1>1, <1>2, <1>5, Appended, Zenon
  <2>2. Orderly(p) /\ Linked(p, R)
    BY <1>1, <1>2, <1>3, <2>1
  <2>3. ASSUME NEW t, NEW i \in 1..k, t \in Ticks(q[i])
        PROVE  t \in CoveredIn(p)
    BY <1>0, <1>2, <2>1, <2>3
  <2>4. ASSUME NEW a \in Apps, NEW t \in TimeOf(p, a)
        PROVE  (\E i \in 1..k : q[i].app = a /\ t \in Ticks(q[i])) \/ Near(R[a], t)
    BY <1>0, <1>2, <2>1, <2>4
  <2> QED BY <1>0, <2>1, <2>2, <2>3, <2>4 DEF MergedTo
<1>6. CASE /\ out # <<>> /\ out[n].app = s.app /\ s.start <= out[n].end + MergeGap
  <2> DEFINE p == [out EXCEPT ![n].end = s.end]
  <2>0. /\ n \in 1..n /\ out[n] \in Session /\ EndOf(out) = out[n].end /\ k > 1
        /\ out[n].start \in Int /\ out[n].end \in Int /\ Within(out[n])
        /\ out[n].end - 1 \in R[s.app]
    <3>1. n \in 1..n /\ out[n] \in Session /\ n \in DOMAIN out
      BY <1>2, <1>6
    <3>2. EndOf(out) = out[n].end /\ k > 1
      BY <1>0, <1>2, <1>6 DEF EndOf
    <3>3. Within(out[n]) /\ out[n].end - 1 \in R[s.app]
      BY <1>2, <1>6, <3>1 DEF Orderly, Linked
    <3> QED BY <3>1, <3>2, <3>3, SessionFields
  <2>1. Larger(out[n].end, s.end) = s.end
    BY <1>1, <1>3, <2>0 DEF Larger
  <2>2. MergeStep(out, s) = p
    BY <1>6, <2>1 DEF MergeStep
  <2>3. EndOf(out) <= s.end
    BY <1>1, <1>3
  <2>4. p = [out EXCEPT ![Len(out)].end = s.end]
    OBVIOUS
  <2> HIDE DEF p
  <2>5. /\ p \in Seq(Session) /\ p # <<>> /\ EndOf(p) = s.end
        /\ Orderly(out) /\ s.end <= DayLength => Orderly(p)
        /\ Linked(out, R) /\ s.end - 1 \in R[out[Len(out)].app] => Linked(p, R)
        /\ \A t : t \in CoveredIn(p)
                  <=> t \in CoveredIn(out) \/ (t \in Int /\ EndOf(out) <= t /\ t < s.end
                                               /\ out[Len(out)].start <= t)
        /\ \A a, t : t \in TimeOf(p, a)
                  => t \in TimeOf(out, a) \/ (out[Len(out)].app = a /\ t \in Int
                                              /\ EndOf(out) <= t /\ t < s.end)
    <3> DEFINE e == s.end
    <3>1. e \in Int /\ p = Grown(out, e) /\ EndOf(out) <= e
      BY <1>1, <2>3, <2>4 DEF Grown
    <3> HIDE DEF e
    <3>2. /\ p \in Seq(Session) /\ p # <<>> /\ EndOf(p) = e
          /\ Orderly(out) /\ e <= DayLength => Orderly(p)
          /\ \A S : Linked(out, S) /\ e - 1 \in S[out[Len(out)].app] => Linked(p, S)
          /\ \A t : t \in CoveredIn(p)
                    <=> t \in CoveredIn(out) \/ (t \in Int /\ EndOf(out) <= t /\ t < e
                                                 /\ out[Len(out)].start <= t)
          /\ \A a, t : t \in TimeOf(p, a)
                    => t \in TimeOf(out, a) \/ (out[Len(out)].app = a /\ t \in Int
                                                /\ EndOf(out) <= t /\ t < e)
      BY <1>2, <1>6, <3>1, Extended, Zenon
    <3> QED BY <3>2 DEF e
  <2>6. ASSUME NEW t, NEW i \in 1..k, t \in Ticks(q[i])
        PROVE  t \in CoveredIn(p)
    <3>1. CASE i \in 1..k - 1
      BY <1>2, <2>5, <2>6, <3>1
    <3>2. CASE i = k
      <4>1. t \in Int /\ s.start <= t /\ t < s.end
        BY <1>4, <2>6, <3>2
      <4>2. EndOf(out) <= t /\ out[n].start <= t
        BY <1>1, <1>3, <2>0, <4>1 DEF Within
      <4> QED BY <2>5, <4>1, <4>2
    <3> QED BY <1>0, <3>1, <3>2
  <2>7. ASSUME NEW a \in Apps, NEW t \in TimeOf(p, a)
        PROVE  (\E i \in 1..k : q[i].app = a /\ t \in Ticks(q[i])) \/ Near(R[a], t)
    <3>1. CASE t \in TimeOf(out, a)
      BY <1>0, <1>2, <3>1
    <3>2. CASE s.app = a /\ t \in Int /\ EndOf(out) <= t /\ t < s.end
      <4>1. CASE s.start <= t
        BY <1>0, <1>4, <3>2, <4>1
      <4>2. CASE t < s.start
        <5>1. s.start \in R[a] /\ out[n].end - 1 \in R[a]
          BY <1>1, <1>3, <2>0, <3>2, <4>2
        <5>2. /\ out[n].end - 1 < t /\ t < s.start
              /\ s.start - (out[n].end - 1) <= MergeGap + 1
          <6> DEFINE c == s.start
                     b == out[n].end
          <6>1. c \in Int /\ b \in Int /\ t \in Int /\ MergeGap \in Nat
            BY <1>1, <2>0, <3>2
          <6>2. b <= t /\ t < c /\ c <= b + MergeGap
            BY <1>6, <2>0, <3>2, <4>2
          <6> HIDE DEF c, b
          <6>3. b - 1 < t /\ t < c /\ c - (b - 1) <= MergeGap + 1
            BY <6>1, <6>2
          <6> QED BY <6>3 DEF c, b
        <5> QED BY <5>1, <5>2 DEF Near
      <4> QED BY <1>1, <3>2, <4>1, <4>2
    <3> QED BY <1>6, <2>5, <2>7, <3>1, <3>2
  <2>8. Orderly(p) /\ Linked(p, R)
    BY <1>1, <1>2, <1>6, <2>5
  <2>9. MergedTo(p, q, k, R)
    BY <1>0, <2>5, <2>6, <2>7, <2>8 DEF MergedTo
  <2> QED BY <2>2, <2>9
<1>7. CASE ~(/\ out # <<>> /\ out[n].app = s.app /\ s.start <= out[n].end + MergeGap)
  <2>1. MergeStep(out, s) = Append(out, s)
    BY <1>7 DEF MergeStep
  <2> QED BY <1>5, <2>1
<1> QED
  BY <1>6, <1>7

\* Merging leaves a possible day that covers no less, and for every application
\* no more than what lies between ticks reported for it.
LEMMA MergeFacts ==
    ASSUME NEW q \in Seq(Session), NEW R \in [Apps -> SUBSET Int], Orderly(q), Linked(q, R),
           DayLength \in Nat, MergeGap \in Nat,
           NEW s, s = mergeActivitySessions(q)
    PROVE  /\ s \in Seq(Session) /\ Orderly(s) /\ Linked(s, R)
           /\ \A t : t \in CoveredIn(q) => t \in CoveredIn(s)
           /\ \A a \in Apps : \A t \in TimeOf(s, a) : t \in TimeOf(q, a) \/ Near(R[a], t)
<1> DEFINE n == Len(q)
<1>0. n \in Nat /\ DOMAIN q = 1..n
  OBVIOUS
<1>1. PICK acc : Merging(acc, q) /\ s = acc[n]
  BY MergeFold
<1> DEFINE Bad == {k \in 0..n : ~MergedTo(acc[k], q, k, R)}
<1>2. Bad = {}
  <2> SUFFICES ASSUME Bad # {} PROVE FALSE
    OBVIOUS
  <2>1. PICK k \in Bad : \A l \in Bad : k <= l
    <3>1. Bad \subseteq Nat
      BY <1>0
    <3> HIDE DEF Bad
    <3> QED BY <3>1, LeastNat
  <2>2. k \in 0..n /\ ~MergedTo(acc[k], q, k, R)
    BY <2>1
  <2>3. CASE k = 0
    <3>1. acc[0] = <<>> /\ <<>> \in Seq(Session)
      BY <1>1 DEF Merging
    <3>2. Orderly(<<>>) /\ Linked(<<>>, R) /\ \A a, t : t \notin TimeOf(<<>>, a)
      <4>1. DOMAIN <<>> = {}
        OBVIOUS
      <4> QED BY <4>1, InTime DEF Orderly, Linked
    <3>3. MergedTo(<<>>, q, 0, R)
      BY <3>1, <3>2 DEF MergedTo
    <3> QED BY <2>2, <2>3, <3>1, <3>3
  <2>4. CASE k # 0
    <3>1. k \in 1..n /\ k - 1 \in 0..n /\ k - 1 \notin Bad
      BY <1>0, <2>1, <2>2, <2>4
    <3>2. MergedTo(acc[k - 1], q, k - 1, R)
      BY <3>1
    <3>3. acc[k] = MergeStep(acc[k - 1], q[k])
      BY <1>1, <3>1 DEF Merging
    <3> QED BY <2>2, <3>1, <3>2, <3>3, MergedStep
  <2> QED BY <2>3, <2>4
<1>3. MergedTo(acc[n], q, n, R)
  <2>1. n \in 0..n
    BY <1>0
  <2> QED BY <1>2, <2>1
<1> HIDE DEF Bad
<1> QED
  BY <1>0, <1>1, <1>3, InCovered, InTime DEF MergedTo

Clipped(s) == ClipTo(s, 0, DayLength)

\* A session that normalizeActivitySessions keeps something of.
Counts(s) == Visible(s) /\ Clipped(s).end > Clipped(s).start

LEMMA ClippedFacts ==
    ASSUME NEW s \in Session, DayLength \in Nat, NEW c, c = Clipped(s)
    PROVE  /\ c \in Session /\ c.app = s.app
           /\ c.start = Larger(s.start, 0) /\ c.end = Smaller(s.end, DayLength)
           /\ (Counts(s) <=> Within(c))
           /\ \A t : t \in Ticks(c) <=> t \in Int /\ s.start <= t /\ 0 <= t /\ t < s.end /\ t < DayLength
<1>1. s.start \in Int /\ s.end \in Int
  BY SessionFields
<1>2. Larger(s.start, 0) \in Int /\ Smaller(s.end, DayLength) \in Int
  BY <1>1 DEF Larger, Smaller
<1>3. /\ c \in Session /\ c.app = s.app
      /\ c.start = Larger(s.start, 0) /\ c.end = Smaller(s.end, DayLength)
  BY <1>2 DEF Session, Clipped, ClipTo
<1>4. 0 <= c.start /\ c.end <= DayLength
  BY <1>1, <1>3 DEF Larger, Smaller
<1>5. Counts(s) <=> Within(c)
  BY <1>2, <1>3, <1>4 DEF Counts, Within, Visible
<1>6. \A t : t \in Ticks(c) <=> t \in Int /\ c.start <= t /\ t < c.end
  BY <1>3, InTicks
<1>7. ASSUME NEW t \in Int
      PROVE  (c.start <= t /\ t < c.end)
             <=> (s.start <= t /\ 0 <= t /\ t < s.end /\ t < DayLength)
  BY <1>1, <1>3 DEF Larger, Smaller
<1> QED
  BY <1>3, <1>5, <1>6, <1>7

\* Whatever arrives, normalizeActivitySessions makes a possible day of it that
\* covers what counts, and for every application nothing but what counts of it
\* and short pauses in it.
LEMMA NormalizeFacts ==
    ASSUME NEW q \in Seq(Session), DayLength \in Nat, MergeGap \in Nat,
           NEW R \in [Apps -> SUBSET Int],
           \A i \in DOMAIN q : Counts(q[i]) =>
              /\ Clipped(q[i]).end - 1 \in R[q[i].app]
              /\ \/ Clipped(q[i]).start \in R[q[i].app]
                 \/ \E j \in DOMAIN q : Counts(q[j]) /\ Clipped(q[j]).end = Clipped(q[i]).start,
           NEW s, s = normalizeActivitySessions(q)
    PROVE  /\ s \in Seq(Session) /\ Orderly(s) /\ Linked(s, R)
           /\ \A i \in DOMAIN q : \A t : Counts(q[i]) /\ t \in Ticks(Clipped(q[i])) => t \in CoveredIn(s)
           /\ \A a \in Apps : \A t \in TimeOf(s, a) :
                 \/ \E i \in DOMAIN q : Counts(q[i]) /\ q[i].app = a /\ t \in Ticks(Clipped(q[i]))
                 \/ Near(R[a], t)
<1> DEFINE c == [i \in DOMAIN q |-> ClipTo(q[i], 0, DayLength)]
           kept == {i \in DOMAIN c : /\ Visible(c[i]) /\ c[i].end > c[i].start
                                     /\ \A j \in 1 .. i - 1 : c[j] # c[i]}
           b == ByStart(c, kept)
           m == Trim(b)
<1>1. s = mergeActivitySessions(m)
  BY DEF normalizeActivitySessions
<1>2. /\ Len(q) \in Nat /\ DOMAIN q = 1..Len(q) /\ DOMAIN c = DOMAIN q /\ c \in Seq(Session)
      /\ \A i \in DOMAIN q : /\ q[i] \in Session /\ c[i] = Clipped(q[i]) /\ c[i] \in Session
                             /\ c[i].app = q[i].app /\ (Counts(q[i]) <=> Within(c[i]))
  <2>1. \A i \in DOMAIN q : q[i] \in Session /\ c[i] = Clipped(q[i])
    BY DEF Clipped
  <2>2. \A i \in DOMAIN q : /\ c[i] \in Session /\ c[i].app = q[i].app
                            /\ (Counts(q[i]) <=> Within(c[i]))
    <3> HIDE DEF c
    <3> QED BY <2>1, ClippedFacts
  <2>3. c = [i \in 1..Len(q) |-> c[i]] /\ DOMAIN q = 1..Len(q) /\ Len(q) \in Nat
    OBVIOUS
  <2> HIDE DEF c
  <2>4. c \in [1..Len(q) -> Session]
    BY <2>2, <2>3
  <2> QED BY <2>1, <2>2, <2>3, <2>4
<1>3. \A i \in kept : i \in DOMAIN q /\ Counts(q[i])
  <2> SUFFICES ASSUME NEW i \in kept PROVE i \in DOMAIN q /\ Counts(q[i])
    OBVIOUS
  <2>1. i \in DOMAIN q /\ Visible(c[i]) /\ c[i].end > c[i].start
    BY <1>2
  <2> HIDE DEF c, kept
  <2> QED BY <1>2, <2>1 DEF Counts, Visible
<1>4. ASSUME NEW i \in DOMAIN q, Counts(q[i])
      PROVE  \E k \in kept : c[k] = c[i]
  <2> DEFINE D == {j \in DOMAIN q : c[j] = c[i]}
  <2>1. PICK k \in D : \A x \in D : k <= x
    <3>1. D \subseteq Nat /\ i \in D
      BY <1>2
    <3> HIDE DEF D
    <3> QED BY <3>1, LeastNat
  <2>2. k \in DOMAIN q /\ c[k] = c[i] /\ \A x \in DOMAIN q : c[x] = c[i] => k <= x
    BY <2>1
  <2> HIDE DEF D
  <2>3. \A j \in 1..k - 1 : j \in DOMAIN q /\ ~(k <= j)
    BY <1>2, <2>2
  <2>4. Visible(c[k]) /\ c[k].end > c[k].start
    <3> HIDE DEF c, kept
    <3>1. c[k] = Clipped(q[i]) /\ c[k].app = q[i].app
      BY <1>2, <2>2
    <3> QED BY <1>4, <3>1 DEF Counts, Visible
  <2>5. \A j \in 1..k - 1 : c[j] # c[k]
    <3> HIDE DEF c, kept
    <3> QED BY <2>2, <2>3
  <2>6. k \in DOMAIN c
    BY <1>2, <2>2
  <2>7. k \in kept
    <3> HIDE DEF c
    <3> QED BY <2>4, <2>5, <2>6
  <2> QED BY <2>2, <2>7
<1>5. kept \in SUBSET DOMAIN c
  OBVIOUS
<1> HIDE DEF c, kept, b, m
<1>6. /\ b \in Seq(Session)
      /\ \A k \in DOMAIN b : \E i \in kept : b[k] = c[i]
      /\ \A i \in kept : \E k \in DOMAIN b : b[k] = c[i]
      /\ Sorted(b)
  BY <1>2, <1>5, ByStartSorted DEF b, Sorted
<1>7. ASSUME NEW k \in DOMAIN b
      PROVE  \E i \in DOMAIN q : Counts(q[i]) /\ b[k] = c[i]
  BY <1>3, <1>6
<1>8. ASSUME NEW i \in DOMAIN q, Counts(q[i])
      PROVE  \E k \in DOMAIN b : b[k] = c[i]
  BY <1>4, <1>6, <1>8
<1>9. \A k \in DOMAIN b : Within(b[k])
  BY <1>2, <1>7
<1>10. Anchored(b, R)
  <2> SUFFICES ASSUME NEW k \in DOMAIN b
               PROVE  /\ b[k].end - 1 \in R[b[k].app]
                      /\ b[k].start \in R[b[k].app] \/ \E l \in DOMAIN b : b[l].end = b[k].start
    BY DEF Anchored
  <2>1. PICK i \in DOMAIN q : Counts(q[i]) /\ b[k] = c[i]
    BY <1>7
  <2>2. /\ c[i].end - 1 \in R[c[i].app]
        /\ \/ c[i].start \in R[c[i].app]
           \/ \E j \in DOMAIN q : Counts(q[j]) /\ c[j].end = c[i].start
    BY <1>2, <2>1
  <2>3. ASSUME NEW j \in DOMAIN q, Counts(q[j]), c[j].end = c[i].start
        PROVE  \E l \in DOMAIN b : b[l].end = b[k].start
    <3>1. PICK l \in DOMAIN b : b[l] = c[j]
      BY <1>8, <2>3
    <3> QED BY <2>1, <2>3, <3>1
  <2> QED BY <2>1, <2>2, <2>3
<1>11. /\ m \in Seq(Session) /\ Orderly(m) /\ Linked(m, R)
       /\ \A t : t \in CoveredIn(m) <=> t \in CoveredIn(b)
       /\ \A a, t : t \in TimeOf(m, a) => t \in TimeOf(b, a)
  BY <1>6, <1>9, <1>10, TrimFacts DEF m
<1>12. /\ s \in Seq(Session) /\ Orderly(s) /\ Linked(s, R)
       /\ \A t : t \in CoveredIn(m) => t \in CoveredIn(s)
       /\ \A a \in Apps : \A t \in TimeOf(s, a) : t \in TimeOf(m, a) \/ Near(R[a], t)
  BY <1>1, <1>11, MergeFacts
<1>13. ASSUME NEW i \in DOMAIN q, NEW t, Counts(q[i]), t \in Ticks(Clipped(q[i]))
       PROVE  t \in CoveredIn(s)
  <2>1. PICK k \in DOMAIN b : b[k] = c[i]
    BY <1>8, <1>13
  <2>2. t \in CoveredIn(b)
    BY <1>2, <1>13, <2>1, InCovered
  <2> QED BY <1>11, <1>12, <2>2
<1>14. ASSUME NEW a, NEW t, t \in TimeOf(b, a)
       PROVE  \E i \in DOMAIN q : Counts(q[i]) /\ q[i].app = a /\ t \in Ticks(Clipped(q[i]))
  <2>1. PICK k \in DOMAIN b : b[k].app = a /\ t \in Ticks(b[k])
    BY <1>14, InTime
  <2>2. PICK i \in DOMAIN q : Counts(q[i]) /\ b[k] = c[i]
    BY <1>7
  <2> QED BY <1>2, <2>1, <2>2
<1> QED
  BY <1>11, <1>12, <1>13, <1>14

-----------------------------------------------------------------------------
(* The archive of the day.                                                 *)

LEMMA ActivityConstants ==
    /\ IsFiniteSet(Users) /\ IsFiniteSet(Events)
    /\ maxWriteAttempts \in Nat \ {0} /\ MaxUploads \in Nat /\ MaxFaults \in Nat
    /\ DayLength \in Nat /\ MergeGap \in Nat /\ OnlineCap \in Nat
    /\ \A e \in Events : /\ UserOf(e) \in Users /\ Payload[e].at \in Nat
                         /\ Payload[e].sessions \in Seq(Session)
                         /\ Payload[e].queued \in BOOLEAN
BY ActivityAssumption, SessionsAssumption DEF UserOf

\* extractFocusSessions keeps what is visible and takes time.
LEMMA ExtractFacts ==
    ASSUME NEW e \in Events, NEW x, x = extractFocusSessions(e)
    PROVE  x \in Seq(Session) /\ \A k \in DOMAIN x : Visible(x[k]) /\ x[k].start < x[k].end
<1> DEFINE all == Payload[e].sessions
           I == {i \in DOMAIN all : Visible(all[i]) /\ all[i].end > all[i].start}
           R == {p \in I \X I : p[1] < p[2]}
           n == Cardinality(I)
           at(k) == CHOOSE i \in I : Cardinality({j \in I : j < i}) = k - 1
           o == [k \in 1..n |-> at(k)]
<1>1. x = [k \in DOMAIN o |-> all[o[k]]]
  BY DEF extractFocusSessions, InOrder
<1>2. \A i, j \in I : <<i, j>> \in R <=> i < j
  OBVIOUS
<1>3. all \in Seq(Session)
  BY ActivityConstants
<1>4. /\ I \subseteq DOMAIN all /\ DOMAIN all = 1..Len(all) /\ Len(all) \in Nat
      /\ \A i \in I : i \in Nat /\ Visible(all[i]) /\ all[i].end > all[i].start /\ all[i] \in Session
  <2> HIDE DEF all
  <2> QED BY <1>3
<1> HIDE DEF R, all, I
<1>5. IsFiniteSet(I) /\ n \in Nat
  <2>1. IsFiniteSet(DOMAIN all)
    BY <1>4, FS_Interval
  <2> QED BY <1>4, <2>1, FS_Subset, FS_CardinalityType
<1>6. StrictOrder(I, R)
  BY <1>2, <1>4 DEF StrictOrder
<1> HIDE DEF n
<1>7. ASSUME NEW k \in 1..n
      PROVE  at(k) \in I
  <2>1. \A i \in I : {j \in I : j < i} = Below(I, R, i)
    BY <1>2 DEF Below
  <2>2. PICK i \in I : Rank(I, R, i) = k - 1
    <3>1. k - 1 \in 0..n - 1
      BY <1>5
    <3> QED BY <1>5, <1>6, <3>1, RankTaken DEF n
  <2>3. Cardinality({j \in I : j < i}) = k - 1
    BY <2>1, <2>2 DEF Rank
  <2> QED BY <2>3, Zenon
<1> HIDE DEF at
<1>8. DOMAIN o = 1..n /\ \A k \in 1..n : o[k] \in I
  BY <1>7
<1> HIDE DEF o
<1>9. x \in [1..n -> Session] /\ \A k \in 1..n : x[k] = all[o[k]]
  BY <1>1, <1>4, <1>8
<1>10. x \in Seq(Session) /\ DOMAIN x = 1..n
  BY <1>5, <1>9
<1>11. ASSUME NEW k \in 1..n
       PROVE  Visible(x[k]) /\ x[k].start < x[k].end
  <2>1. o[k] \in I /\ x[k] = all[o[k]]
    BY <1>8, <1>9
  <2>2. all[o[k]].start \in Int /\ all[o[k]].end \in Int
    BY <1>4, <2>1, SessionFields
  <2> QED BY <1>4, <2>1, <2>2
<1> QED
  BY <1>10, <1>11

LEMMA InSent ==
    ASSUME NEW e \in Events, NEW t
    PROVE  t \in Sent(e) <=> t \in CoveredIn(extractFocusSessions(e)) /\ t \in 0..DayLength - 1
BY DEF Sent

\* What an upload contributes to the time of one application.
SentFor(e, a) == TimeOf(extractFocusSessions(e), a) \cap (0..DayLength - 1)

\* A possible day in which the time of every application lies in or between
\* the ticks that R has for it.
Honest(q, R) ==
    /\ q \in Seq(Session) /\ Orderly(q) /\ Linked(q, R)
    /\ \A a \in Apps : \A t \in TimeOf(q, a) : t \in R[a] \/ Near(R[a], t)

LEMMA HonestGrows ==
    ASSUME NEW q, NEW R, NEW S, \A a \in Apps : R[a] \subseteq S[a], Honest(q, R)
    PROVE  Honest(q, S)
<1>1. \A k \in DOMAIN q : q[k].app \in Apps
  BY SessionFields DEF Honest
<1>2. Linked(q, S)
  BY <1>1 DEF Honest, Linked
<1>3. \A a \in Apps : \A t : Near(R[a], t) => Near(S[a], t)
  BY DEF Near
<1> QED
  BY <1>2, <1>3 DEF Honest

LEMMA HonestNothing == \A R : Honest(<<>>, R)
<1>1. DOMAIN <<>> = {} /\ <<>> \in Seq(Session)
  OBVIOUS
<1> QED
  BY <1>1, InTime DEF Honest, Orderly, Linked

\* In a day that normalizeActivitySessions has made, it changes nothing.
LEMMA KeptAsIs ==
    ASSUME NEW s \in Session, Within(s)
    PROVE  Counts(s) /\ Clipped(s).start = s.start /\ Clipped(s).end = s.end
<1>1. s.start \in Int /\ s.end \in Int /\ DayLength \in Nat
  BY SessionFields, ActivityConstants
<1>2. Clipped(s).start = Larger(s.start, 0) /\ Clipped(s).end = Smaller(s.end, DayLength)
  BY <1>1, ClippedFacts
<1> QED
  BY <1>1, <1>2 DEF Within, Counts, Larger, Smaller

\* One upload is merged into the day.
LEMMA MergedFacts ==
    ASSUME NEW R \in [Apps -> SUBSET Int], NEW q, Honest(q, R),
           NEW e \in Events, \A a \in Apps : SentFor(e, a) \subseteq R[a],
           NEW s, s = normalizeActivitySessions(q \o extractFocusSessions(e))
    PROVE  /\ Honest(s, R)
           /\ CoveredIn(q) \subseteq CoveredIn(s)
           /\ Sent(e) \subseteq CoveredIn(s)
<1> DEFINE x == extractFocusSessions(e)
           qx == q \o x
<1>1. /\ q \in Seq(Session) /\ Orderly(q) /\ Linked(q, R)
      /\ \A a \in Apps : \A t \in TimeOf(q, a) : t \in R[a] \/ Near(R[a], t)
  BY DEF Honest
<1>2. x \in Seq(Session) /\ \A k \in DOMAIN x : Visible(x[k]) /\ x[k].start < x[k].end
  BY ExtractFacts
<1> HIDE DEF x
<1>3. /\ qx \in Seq(Session)
      /\ \A i \in DOMAIN q : i \in DOMAIN qx /\ qx[i] = q[i]
      /\ \A i \in DOMAIN x : \E j \in DOMAIN qx : qx[j] = x[i]
      /\ \A j \in DOMAIN qx : (j \in DOMAIN q /\ qx[j] = q[j]) \/ \E i \in DOMAIN x : qx[j] = x[i]
  <2>1. /\ qx \in Seq(Session) /\ Len(q) \in Nat /\ Len(x) \in Nat
        /\ DOMAIN q = 1..Len(q) /\ DOMAIN x = 1..Len(x) /\ DOMAIN qx = 1..Len(q) + Len(x)
        /\ \A i \in 1..Len(q) : qx[i] = q[i]
        /\ \A i \in 1..Len(q) + Len(x) : i > Len(q) => qx[i] = x[i - Len(q)]
    BY <1>1, <1>2
  <2> HIDE DEF qx
  <2>2. \A i \in 1..Len(x) : Len(q) + i \in 1..Len(q) + Len(x) /\ qx[Len(q) + i] = x[i]
    BY <2>1
  <2>3. \A j \in 1..Len(q) + Len(x) : j \in 1..Len(q) \/ j - Len(q) \in 1..Len(x)
    BY <2>1
  <2>4. \A j \in 1..Len(q) + Len(x) : j \in 1..Len(q) \/ j > Len(q)
    BY <2>1
  <2>5. \A i \in 1..Len(q) : i \in 1..Len(q) + Len(x)
    BY <2>1
  <2> QED BY <2>1, <2>2, <2>3, <2>4, <2>5
<1> HIDE DEF qx
<1>4. DayLength \in Nat /\ MergeGap \in Nat
  BY ActivityConstants
<1>5. \A i \in DOMAIN q : q[i] \in Session /\ Within(q[i])
  BY <1>1 DEF Orderly
<1>6. ASSUME NEW k \in DOMAIN x, NEW t
      PROVE  Counts(x[k]) /\ t \in Ticks(Clipped(x[k])) <=> t \in Ticks(x[k]) /\ t \in 0..DayLength - 1
  <2>1. x[k] \in Session /\ Visible(x[k]) /\ x[k].start \in Int /\ x[k].end \in Int
    BY <1>2, SessionFields
  <2>2. t \in Ticks(Clipped(x[k]))
        <=> t \in Int /\ x[k].start <= t /\ 0 <= t /\ t < x[k].end /\ t < DayLength
    BY <1>4, <2>1, ClippedFacts
  <2>3. t \in Ticks(x[k]) <=> t \in Int /\ x[k].start <= t /\ t < x[k].end
    BY <2>1, InTicks
  <2>4. t \in Ticks(Clipped(x[k])) => Counts(x[k])
    <3>1. /\ Clipped(x[k]) \in Session
          /\ t \in Ticks(Clipped(x[k]))
             <=> t \in Int /\ Clipped(x[k]).start <= t /\ t < Clipped(x[k]).end
      BY <1>4, <2>1, ClippedFacts, InTicks
    <3>2. Clipped(x[k]).start \in Int /\ Clipped(x[k]).end \in Int
      BY <3>1, SessionFields
    <3> QED BY <2>1, <3>1, <3>2 DEF Counts
  <2> QED BY <1>4, <2>2, <2>3, <2>4
<1>7. ASSUME NEW k \in DOMAIN x, Counts(x[k])
      PROVE  Clipped(x[k]).end - 1 \in R[x[k].app] /\ Clipped(x[k]).start \in R[x[k].app]
  <2> DEFINE c == Clipped(x[k])
  <2>1. x[k] \in Session /\ c \in Session /\ c.start < c.end
    BY <1>2, <1>4, <1>7, ClippedFacts DEF Within
  <2>2. c.start \in Int /\ c.end \in Int
    BY <2>1, SessionFields
  <2>3. c.end - 1 \in Ticks(c) /\ c.start \in Ticks(c)
    BY <2>1, <2>2, InTicks
  <2>4. \A t : t \in Ticks(c) => t \in SentFor(e, x[k].app)
    <3> SUFFICES ASSUME NEW t, t \in Ticks(c) PROVE t \in SentFor(e, x[k].app)
      OBVIOUS
    <3>1. t \in Ticks(x[k]) /\ t \in 0..DayLength - 1
      BY <1>6, <1>7
    <3> QED BY <3>1, InTime DEF SentFor, x
  <2> QED BY <2>1, <2>3, <2>4, SessionFields
<1>8. ASSUME NEW j \in DOMAIN qx, Counts(qx[j])
      PROVE  /\ Clipped(qx[j]).end - 1 \in R[qx[j].app]
             /\ \/ Clipped(qx[j]).start \in R[qx[j].app]
                \/ \E l \in DOMAIN qx : Counts(qx[l]) /\ Clipped(qx[l]).end = Clipped(qx[j]).start
  <2>1. CASE j \in DOMAIN q /\ qx[j] = q[j]
    <3>1. Clipped(qx[j]).start = q[j].start /\ Clipped(qx[j]).end = q[j].end
      BY <1>5, <2>1, KeptAsIs
    <3>2. /\ q[j].end - 1 \in R[q[j].app]
          /\ q[j].start \in R[q[j].app] \/ (j > 1 /\ q[j - 1].end = q[j].start)
      BY <1>1, <2>1 DEF Linked
    <3>3. j > 1 => j - 1 \in DOMAIN q
      BY <1>1, <2>1
    <3>4. j > 1 => /\ j - 1 \in DOMAIN qx /\ Counts(qx[j - 1])
                   /\ Clipped(qx[j - 1]).end = q[j - 1].end
      BY <1>3, <1>5, <3>3, KeptAsIs
    <3> QED BY <2>1, <3>1, <3>2, <3>4
  <2>2. CASE \E i \in DOMAIN x : qx[j] = x[i]
    BY <1>7, <1>8, <2>2
  <2> QED BY <1>3, <2>1, <2>2
<1>9. s = normalizeActivitySessions(qx)
  BY DEF qx, x
<1>10. /\ s \in Seq(Session) /\ Orderly(s) /\ Linked(s, R)
       /\ \A i \in DOMAIN qx : \A t : Counts(qx[i]) /\ t \in Ticks(Clipped(qx[i])) => t \in CoveredIn(s)
       /\ \A a \in Apps : \A t \in TimeOf(s, a) :
             \/ \E i \in DOMAIN qx : Counts(qx[i]) /\ qx[i].app = a /\ t \in Ticks(Clipped(qx[i]))
             \/ Near(R[a], t)
  BY <1>3, <1>4, <1>8, <1>9, NormalizeFacts
<1>11. \A i \in DOMAIN q : \A t : t \in Ticks(q[i]) <=> t \in Ticks(Clipped(q[i]))
  <2> SUFFICES ASSUME NEW i \in DOMAIN q, NEW t
               PROVE  t \in Ticks(q[i]) <=> t \in Ticks(Clipped(q[i]))
    OBVIOUS
  <2>1. Clipped(q[i]).start = q[i].start /\ Clipped(q[i]).end = q[i].end
    BY <1>5, KeptAsIs
  <2> QED BY <2>1 DEF Ticks
<1>12. ASSUME NEW t, t \in CoveredIn(q)
       PROVE  t \in CoveredIn(s)
  <2>1. PICK i \in DOMAIN q : t \in Ticks(q[i])
    BY <1>12, InCovered
  <2>2. Counts(qx[i]) /\ i \in DOMAIN qx /\ t \in Ticks(Clipped(qx[i]))
    BY <1>3, <1>5, <1>11, <2>1, KeptAsIs
  <2> QED BY <1>10, <2>2
<1>13. ASSUME NEW t, t \in Sent(e)
       PROVE  t \in CoveredIn(s)
  <2>1. t \in CoveredIn(x) /\ t \in 0..DayLength - 1
    BY <1>13, InSent DEF x
  <2>2. PICK i \in DOMAIN x : t \in Ticks(x[i])
    BY <2>1, InCovered
  <2>3. Counts(x[i]) /\ t \in Ticks(Clipped(x[i]))
    BY <1>6, <2>1, <2>2
  <2> QED BY <1>3, <1>10, <2>3
<1>14. ASSUME NEW a \in Apps, NEW t \in TimeOf(s, a)
       PROVE  t \in R[a] \/ Near(R[a], t)
  <2>2. ASSUME NEW j \in DOMAIN qx, Counts(qx[j]), qx[j].app = a, t \in Ticks(Clipped(qx[j]))
        PROVE  t \in R[a] \/ Near(R[a], t)
    <3>1. CASE j \in DOMAIN q /\ qx[j] = q[j]
      <4>1. t \in TimeOf(q, a)
        BY <1>11, <2>2, <3>1, InTime
      <4> QED BY <1>1, <4>1
    <3>2. ASSUME NEW i \in DOMAIN x, qx[j] = x[i]
          PROVE  t \in R[a]
      <4>1. t \in Ticks(x[i]) /\ t \in 0..DayLength - 1 /\ x[i].app = a
        BY <1>6, <2>2, <3>2
      <4>2. t \in SentFor(e, a)
        BY <4>1, InTime DEF SentFor, x
      <4> QED BY <4>2
    <3> QED BY <1>3, <3>1, <3>2
  <2> QED BY <1>10, <1>14, <2>2
<1> QED
  BY <1>10, <1>12, <1>13, <1>14 DEF Honest

-----------------------------------------------------------------------------
(* Types.                                                                  *)

Stages == {"idle", "read", "put", "plain", "insert", "row"}
Objects == [etag : Nat, sessions : Seq(Session)]
Results == {summarizeActivitySessions(q) : q \in Seq(Session)}
Requests == [pc : Stages, event : Events \cup {"none"}, seen : Objects,
             tries : 0..maxWriteAttempts - 1, result : Results]

\* A request that is being worked on is one for an event; its telemetry is
\* stored before its row is.
ArchiveTypes ==
    /\ uploads \in [Events -> 0..MaxUploads] /\ faults \in 0..MaxFaults /\ plain \in BOOLEAN
    /\ object \in [Users -> Objects]
    /\ docs \subseteq Events
    /\ ingest \in [Slots -> Requests]
    /\ \A i \in Slots : ingest[i].pc # "idle" => /\ ingest[i].event \in Events
                                                 /\ uploads[ingest[i].event] > 0
    /\ \A i \in Slots : ingest[i].pc = "row" => ingest[i].event \in docs

LEMMA RequestFields ==
    ASSUME NEW r \in Requests
    PROVE  /\ r.pc \in Stages /\ r.event \in Events \cup {"none"} /\ r.seen \in Objects
           /\ r.tries \in 0..maxWriteAttempts - 1 /\ r.result \in Results
           /\ r.seen.etag \in Nat /\ r.seen.sessions \in Seq(Session)
BY DEF Requests, Objects

LEMMA SummaryIsResult ==
    ASSUME NEW q \in Seq(Session)
    PROVE  summarizeActivitySessions(q) \in Results
BY DEF Results

LEMMA NoAppsAreNone == NoApps = summarizeActivitySessions(<<>>)
<1> DEFINE A == {b \in Apps : {i \in DOMAIN <<>> : <<>>[i].app = b /\ Visible(<<>>[i])
                                                   /\ Seconds(<<>>[i]) > 0} # {}}
<1>1. DOMAIN <<>> = {}
  OBVIOUS
<1>2. A = {}
  BY <1>1
<1>3. DOMAIN summarizeActivitySessions(<<>>) = A
  BY DEF summarizeActivitySessions
<1> QED
  BY <1>1, <1>2 DEF summarizeActivitySessions, NoApps

LEMMA IdleType == Idle \in Requests /\ NoObject \in Objects
<1>1. <<>> \in Seq(Session)
  OBVIOUS
<1>2. NoObject \in Objects
  BY <1>1 DEF NoObject, Objects
<1>3. NoApps \in Results
  BY <1>1, NoAppsAreNone, SummaryIsResult
<1>4. 0 \in 0..maxWriteAttempts - 1
  BY ActivityConstants
<1> QED
  BY <1>2, <1>3, <1>4 DEF Idle, Requests, Stages

LEMMA UploadsBound ==
    ASSUME uploads \in [Events -> 0..MaxUploads], SumFunction(uploads) < MaxUploads, NEW e \in Events
    PROVE  uploads[e] < MaxUploads
<1>1. SumFunction(uploads) = Total(uploads, Events)
  BY DEF SumFunction, SumFunctionOnSet, FoldFunctionOnSet, MapThenFoldSet, Total, Sums, One
<1>2. IsFiniteSet(Events) /\ \A x \in Events : uploads[x] \in Nat
  BY ActivityConstants
<1>3. {e} \in SUBSET Events /\ IsFiniteSet({e}) /\ {e} \ {e} = {} /\ IsFiniteSet({})
  BY FS_Singleton, FS_EmptySet
<1>4. Total(uploads, {e}) <= Total(uploads, Events)
  BY <1>2, <1>3, TotalPart
<1>5. Total(uploads, {e}) = uploads[e] + Total(uploads, {e} \ {e})
  BY <1>2, <1>3, TotalRemove
<1>6. Total(uploads, {}) = 0
  BY <1>3, TotalStep
<1>7. Total(uploads, Events) \in Nat
  BY <1>2, TotalNat
<1>8. uploads[e] \in Nat /\ MaxUploads \in Nat /\ SumFunction(uploads) < MaxUploads
  BY <1>2, ActivityConstants
<1>9. uploads[e] = Total(uploads, {e})
  BY <1>3, <1>5, <1>6, <1>8
<1> QED
  BY <1>1, <1>4, <1>7, <1>8, <1>9

LEMMA MergedType ==
    ASSUME ArchiveTypes, NEW i \in Slots, ingest[i].event \in Events
    PROVE  Merged(i) \in Seq(Session) /\ summarizeActivitySessions(Merged(i)) \in Results
<1> DEFINE q == ingest[i].seen.sessions \o extractFocusSessions(ingest[i].event)
<1>1. ingest[i].seen.sessions \in Seq(Session)
  BY RequestFields DEF ArchiveTypes
<1>2. extractFocusSessions(ingest[i].event) \in Seq(Session)
  BY ExtractFacts
<1>3. q \in Seq(Session)
  BY <1>1, <1>2
<1>4. Merged(i) = normalizeActivitySessions(q)
  BY DEF Merged
<1> HIDE DEF q
<1>5. ASSUME NEW k \in DOMAIN q
      PROVE  /\ Clipped(q[k]).end - 1 \in Anytime[q[k].app]
             /\ Clipped(q[k]).start \in Anytime[q[k].app]
  <2>1. q[k] \in Session
    BY <1>3
  <2>2. Clipped(q[k]) \in Session
    BY <2>1, ClippedFacts, ActivityConstants
  <2> QED BY <2>1, <2>2, SessionFields DEF Anytime
<1>6. Merged(i) \in Seq(Session)
  <2>1. DayLength \in Nat /\ MergeGap \in Nat /\ Anytime \in [Apps -> SUBSET Int]
    BY ActivityConstants DEF Anytime
  <2> QED BY <1>3, <1>4, <1>5, <2>1, NormalizeFacts
<1> QED
  BY <1>6, SummaryIsResult

\* Slot i goes on with r, the others stay where they are.
GoesOn(i, r) ==
    /\ r \in Requests
    /\ ingest' \in [Slots -> Requests] /\ ingest'[i] = r
    /\ \A j \in Slots : j # i => ingest'[j] = ingest[j]

LEMMA SlotGoesOn ==
    ASSUME ArchiveTypes, NEW i \in Slots, NEW r \in Requests, ingest' = [ingest EXCEPT ![i] = r]
    PROVE  GoesOn(i, r)
BY DEF ArchiveTypes, GoesOn

LEMMA StageStep ==
    ASSUME ArchiveTypes, NEW i \in Slots, NEW p \in Stages, ingest' = [ingest EXCEPT ![i].pc = p]
    PROVE  \E r \in Requests :
              /\ GoesOn(i, r) /\ r.pc = p /\ r.event = ingest[i].event
              /\ r.seen = ingest[i].seen /\ r.result = ingest[i].result
<1> DEFINE old == ingest[i]
           r == [old EXCEPT !.pc = p]
<1>1. old \in Requests
  BY DEF ArchiveTypes
<1>2. ingest' = [ingest EXCEPT ![i] = r]
  OBVIOUS
<1> HIDE DEF old
<1>3. r \in Requests /\ r.pc = p /\ r.event = old.event /\ r.seen = old.seen /\ r.result = old.result
  BY <1>1 DEF Requests
<1> HIDE DEF r
<1>4. GoesOn(i, r)
  BY <1>2, <1>3, SlotGoesOn
<1> QED
  BY <1>3, <1>4 DEF old

LEMMA IdleStep ==
    ASSUME ArchiveTypes, NEW i \in Slots, ingest' = [ingest EXCEPT ![i] = Idle]
    PROVE  GoesOn(i, Idle) /\ Idle.pc = "idle"
BY SlotGoesOn, IdleType DEF Idle

LEMMA BeginMoves ==
    ASSUME ArchiveTypes, NEW i \in Slots, NEW e \in Events, e \notin docs, Begin(i, e)
    PROVE  \E r \in Requests :
              /\ GoesOn(i, r) /\ r.event = e /\ r.result = NoApps /\ r.seen = NoObject
              /\ \/ r.pc = "insert" /\ extractFocusSessions(e) = <<>>
                 \/ r.pc = "read"
<1> DEFINE p == IF extractFocusSessions(e) = <<>> THEN "insert" ELSE "read"
           r == [Idle EXCEPT !.pc = p, !.event = e]
<1>1. ingest' = [ingest EXCEPT ![i] = r]
  BY DEF Begin
<1>2. p \in Stages
  BY DEF Stages
<1>3. (p = "insert" /\ extractFocusSessions(e) = <<>>) \/ p = "read"
  OBVIOUS
<1> HIDE DEF p
<1>4. r \in Requests /\ r.event = e /\ r.pc = p /\ r.result = NoApps /\ r.seen = NoObject
  <2>1. Idle \in Requests /\ Idle.result = NoApps /\ Idle.seen = NoObject
    BY IdleType DEF Idle
  <2> QED BY <1>2, <2>1 DEF Requests
<1> HIDE DEF r
<1> QED
  BY <1>1, <1>3, <1>4, SlotGoesOn

LEMMA ReadMoves ==
    ASSUME ArchiveTypes, NEW i \in Slots, readObject(i)
    PROVE  \E r \in Requests :
              /\ GoesOn(i, r) /\ r.pc = "put" /\ r.event = ingest[i].event
              /\ r.seen = object[UserOf(r.event)]
<1> DEFINE old == ingest[i]
           o == object[UserOf(old.event)]
           r == [old EXCEPT !.seen = o, !.pc = "put"]
<1>1. old \in Requests /\ old.event \in Events /\ o \in Objects
  <2>1. old \in Requests /\ old.event \in Events
    BY DEF ArchiveTypes, readObject
  <2> QED BY <2>1, ActivityConstants DEF ArchiveTypes
<1>2. ingest' = [ingest EXCEPT ![i] = r]
  BY DEF readObject
<1> HIDE DEF old, o
<1>3. r \in Requests /\ r.pc = "put" /\ r.event = old.event /\ r.seen = o
  BY <1>1 DEF Requests, Stages
<1> HIDE DEF r
<1> QED
  BY <1>2, <1>3, SlotGoesOn DEF old, o

LEMMA ArchivedMoves ==
    ASSUME ArchiveTypes, NEW i \in Slots, ingest[i].event \in Events, ingest' = Archived(i)
    PROVE  \E r \in Requests :
              /\ GoesOn(i, r) /\ r.pc = "insert" /\ r.event = ingest[i].event
              /\ r.result = summarizeActivitySessions(Merged(i))
<1> DEFINE old == ingest[i]
           sum == summarizeActivitySessions(Merged(i))
           r == [old EXCEPT !.result = sum, !.pc = "insert"]
<1>1. old \in Requests /\ sum \in Results
  BY MergedType DEF ArchiveTypes
<1>2. ingest' = [ingest EXCEPT ![i] = r]
  BY DEF Archived
<1> HIDE DEF old, sum
<1>3. r \in Requests /\ r.pc = "insert" /\ r.event = old.event /\ r.result = sum
  BY <1>1 DEF Requests, Stages
<1> HIDE DEF r
<1> QED
  BY <1>2, <1>3, SlotGoesOn DEF old, sum

\* A lost race: the object is read again, or the request is over.
LEMMA AgainMoves ==
    ASSUME ArchiveTypes, NEW i \in Slots, ingest[i].pc = "put", ingest' = Again(i)
    PROVE  \E r \in Requests :
              GoesOn(i, r) /\ (r.pc = "idle" \/ (r.pc = "read" /\ r.event = ingest[i].event))
<1> DEFINE old == ingest[i]
           n == old.tries + 1
           s == [old EXCEPT !.tries = n, !.pc = "read"]
<1>1. old \in Requests
  BY DEF ArchiveTypes
<1>2. CASE n < maxWriteAttempts
  <2>1. ingest' = [ingest EXCEPT ![i] = s]
    BY <1>2 DEF Again
  <2>2. n \in 0..maxWriteAttempts - 1
    <3>1. old.tries \in 0..maxWriteAttempts - 1
      BY <1>1, RequestFields
    <3> QED BY <1>2, <3>1, ActivityConstants
  <2> HIDE DEF n, old
  <2>3. s \in Requests /\ s.pc = "read" /\ s.event = old.event
    BY <1>1, <2>2 DEF Requests, Stages
  <2> HIDE DEF s
  <2> QED BY <2>1, <2>3, SlotGoesOn DEF old
<1>3. CASE ~(n < maxWriteAttempts)
  <2>1. ingest' = [ingest EXCEPT ![i] = Idle]
    BY <1>3 DEF Again
  <2> QED BY <2>1, IdleStep, IdleType
<1> QED
  BY <1>2, <1>3

LEMMA ArchiveTypesInit == Init => ArchiveTypes
<1> SUFFICES ASSUME Init PROVE ArchiveTypes
  OBVIOUS
<1>1. Idle \in Requests /\ NoObject \in Objects /\ Idle.pc = "idle"
  BY IdleType DEF Idle
<1>2. 0 \in 0..MaxUploads /\ 0 \in 0..MaxFaults
  BY ActivityConstants
<1>3. uploads \in [Events -> 0..MaxUploads] /\ faults \in 0..MaxFaults /\ plain \in BOOLEAN
  BY <1>2 DEF Init
<1>4. object \in [Users -> Objects] /\ docs \subseteq Events /\ ingest \in [Slots -> Requests]
      /\ \A i \in Slots : ingest[i].pc = "idle"
  BY <1>1 DEF Init
<1> QED
  BY <1>3, <1>4 DEF ArchiveTypes

(* The kinds of steps, as far as the archive is concerned. *)

\* An upload arrives and is refused, or slot i begins with it.
Delivered(e) ==
    /\ uploads[e] < MaxUploads /\ uploads' = [uploads EXCEPT ![e] = @ + 1]
    /\ UNCHANGED <<plain, object, row, docs>>
    /\ \/ ingest' = ingest
       \/ \E i \in Slots, r \in Requests :
             /\ GoesOn(i, r) /\ r.event = e /\ r.result = NoApps
             /\ (r.pc = "insert" /\ extractFocusSessions(e) = <<>>) \/ r.pc = "read"

\* Slot i goes on without writing the object.
Moved(i, r) ==
    /\ GoesOn(i, r) /\ UNCHANGED <<uploads, plain, object>>
    /\ \/ /\ r.pc = "idle" /\ docs' = docs
          /\ \/ row' = row
             \/ /\ ingest[i].pc = "row"
                /\ row' = [row EXCEPT ![UserOf(ingest[i].event)] = ingest[i].result]
       \/ /\ r.event = ingest[i].event /\ row' = row /\ docs' = docs
          /\ \/ ingest[i].pc = "put" /\ r.pc = "read"
             \/ ingest[i].pc = "put" /\ r.pc = "plain" /\ r.seen = ingest[i].seen
             \/ ingest[i].pc = "read" /\ r.pc = "put" /\ r.seen = object[UserOf(r.event)]
       \/ /\ r.event = ingest[i].event /\ row' = row
          /\ ingest[i].pc = "insert" /\ r.pc = "row" /\ r.result = ingest[i].result
          /\ r.event \notin docs /\ docs' = docs \cup {r.event}
       \/ /\ ingest[i].pc = "insert" /\ r.pc = "idle" /\ row' = row
          /\ ingest[i].event \notin docs /\ docs' = docs \cup {ingest[i].event}

\* Slot i writes the object.
Wrote(i, r) ==
    /\ GoesOn(i, r) /\ UNCHANGED <<uploads, row, docs>>
    /\ object' = Stored(i)
    /\ \/ ingest[i].pc = "put" /\ Matches(i) /\ plain' = plain
       \/ ingest[i].pc = "plain" /\ plain' = TRUE
    /\ \/ r.pc = "idle"
       \/ r.event = ingest[i].event /\ r.pc = "read"
       \/ /\ r.event = ingest[i].event /\ r.pc = "insert"
          /\ r.result = summarizeActivitySessions(Merged(i))

Restarted == ingest' = [i \in Slots |-> Idle] /\ UNCHANGED <<uploads, plain, object, row, docs>>
Unseen == UNCHANGED <<uploads, plain, object, row, docs, ingest>>

ArchiveStep ==
    /\ faults' \in 0..MaxFaults
    /\ \/ \E e \in Events : Delivered(e)
       \/ \E i \in Slots, r \in Requests : Moved(i, r) \/ Wrote(i, r)
       \/ Restarted
       \/ Unseen

LEMMA SlotSteps ==
    ASSUME ArchiveTypes, NEW i \in Slots, IngestStep(i)
    PROVE  \E r \in Requests : Moved(i, r) \/ Wrote(i, r)
<1> DEFINE goal == \E r \in Requests : Moved(i, r) \/ Wrote(i, r)
<1>0. ingest[i].pc # "idle" => ingest[i].event \in Events
  BY DEF ArchiveTypes
<1>1. CASE readObject(i)
  <2>1. ingest[i].pc = "read" /\ UNCHANGED <<uploads, plain, object, row, docs>>
    BY <1>1 DEF readObject, storeVars
  <2>2. PICK r \in Requests : /\ GoesOn(i, r) /\ r.pc = "put" /\ r.event = ingest[i].event
                              /\ r.seen = object[UserOf(r.event)]
    BY <1>1, ReadMoves
  <2> QED BY <2>1, <2>2 DEF Moved
<1>2. CASE Archive(i)
  <2>1. CASE Matches(i)
    <3>1. ingest' = Archived(i) /\ object' = Stored(i) /\ ingest[i].pc = "put"
          /\ UNCHANGED <<uploads, plain, row, docs>>
      BY <1>2, <2>1 DEF Archive
    <3>2. PICK r \in Requests : /\ GoesOn(i, r) /\ r.pc = "insert" /\ r.event = ingest[i].event
                                /\ r.result = summarizeActivitySessions(Merged(i))
      BY <1>0, <3>1, ArchivedMoves
    <3> QED BY <2>1, <3>1, <3>2 DEF Wrote
  <2>2. CASE ~Matches(i)
    <3>1. ingest' = Again(i) /\ ingest[i].pc = "put" /\ UNCHANGED <<uploads, plain, object, row, docs>>
      BY <1>2, <2>2 DEF Archive
    <3>2. PICK r \in Requests : GoesOn(i, r) /\ (r.pc = "idle" \/ (r.pc = "read" /\ r.event = ingest[i].event))
      BY <3>1, AgainMoves
    <3> QED BY <3>1, <3>2 DEF Moved
  <2> QED BY <2>1, <2>2
<1>3. CASE ArchiveEcho(i)
  <2>1. /\ ingest' = Again(i) /\ ingest[i].pc = "put" /\ Matches(i) /\ object' = Stored(i)
        /\ UNCHANGED <<uploads, plain, row, docs>>
    BY <1>3 DEF ArchiveEcho
  <2>2. PICK r \in Requests : GoesOn(i, r) /\ (r.pc = "idle" \/ (r.pc = "read" /\ r.event = ingest[i].event))
    BY <2>1, AgainMoves
  <2> QED BY <2>1, <2>2 DEF Wrote
<1>4. CASE ArchiveUncoded(i)
  <2>1. /\ ingest' = [ingest EXCEPT ![i].pc = "plain"] /\ ingest[i].pc = "put"
        /\ UNCHANGED <<uploads, plain, object, row, docs>>
    BY <1>4 DEF ArchiveUncoded, storeVars
  <2>2. PICK r \in Requests : /\ GoesOn(i, r) /\ r.pc = "plain" /\ r.event = ingest[i].event
                              /\ r.seen = ingest[i].seen
    BY <2>1, StageStep DEF Stages
  <2> QED BY <2>1, <2>2 DEF Moved
<1>5. CASE ArchivePlain(i)
  <2>1. /\ ingest' = Archived(i) /\ object' = Stored(i) /\ ingest[i].pc = "plain" /\ plain' = TRUE
        /\ UNCHANGED <<uploads, row, docs>>
    BY <1>5 DEF ArchivePlain
  <2>2. PICK r \in Requests : /\ GoesOn(i, r) /\ r.pc = "insert" /\ r.event = ingest[i].event
                              /\ r.result = summarizeActivitySessions(Merged(i))
    BY <1>0, <2>1, ArchivedMoves
  <2> QED BY <2>1, <2>2 DEF Wrote
<1>6. CASE InsertTelemetry(i)
  <2> DEFINE e == ingest[i].event
  <2>1. ingest[i].pc = "insert" /\ UNCHANGED <<uploads, plain, object, row>> /\ docs' = docs \cup {e}
    BY <1>6 DEF InsertTelemetry
  <2>2. CASE e \in docs
    <3>1. ingest' = [ingest EXCEPT ![i] = Idle] /\ docs' = docs
      BY <1>6, <2>2 DEF InsertTelemetry
    <3> QED BY <2>1, <3>1, IdleStep, IdleType DEF Moved
  <2>3. CASE e \notin docs
    <3>1. ingest' = [ingest EXCEPT ![i].pc = "row"]
      BY <1>6, <2>3 DEF InsertTelemetry
    <3>2. PICK r \in Requests : /\ GoesOn(i, r) /\ r.pc = "row" /\ r.event = e
                                /\ r.result = ingest[i].result
      BY <3>1, StageStep DEF Stages
    <3> QED BY <2>1, <2>3, <3>2 DEF Moved
  <2> QED BY <2>2, <2>3
<1>10. CASE InsertUnsure(i)
  <2>1. /\ ingest' = [ingest EXCEPT ![i] = Idle] /\ ingest[i].pc = "insert"
        /\ ingest[i].event \notin docs /\ docs' = docs \cup {ingest[i].event}
        /\ UNCHANGED <<uploads, plain, object, row>>
    BY <1>10 DEF InsertUnsure
  <2> QED BY <2>1, IdleStep, IdleType DEF Moved
<1>7. CASE UpsertRow(i)
  <2>1. /\ ingest' = [ingest EXCEPT ![i] = Idle] /\ ingest[i].pc = "row" /\ docs' = docs
        /\ UNCHANGED <<uploads, plain, object>>
        /\ row' = row \/ row' = [row EXCEPT ![UserOf(ingest[i].event)] = ingest[i].result]
    BY <1>7 DEF UpsertRow
  <2> QED BY <2>1, IdleStep, IdleType DEF Moved
<1>8. CASE UpsertRowFails(i)
  <2>1. ingest' = [ingest EXCEPT ![i] = Idle] /\ UNCHANGED <<uploads, plain, object, row, docs>>
    BY <1>8 DEF UpsertRowFails, storeVars
  <2> QED BY <2>1, IdleStep, IdleType DEF Moved
<1>9. CASE IngestFails(i)
  <2>1. ingest' = [ingest EXCEPT ![i] = Idle] /\ UNCHANGED <<uploads, plain, object, row, docs>>
    BY <1>9 DEF IngestFails, storeVars
  <2> QED BY <2>1, IdleStep, IdleType DEF Moved
<1> QED
  BY <1>1, <1>2, <1>3, <1>4, <1>5, <1>6, <1>7, <1>8, <1>9, <1>10 DEF IngestStep

LEMMA NextIsArchiveStep ==
    ASSUME ArchiveTypes, [Next]_vars
    PROVE  ArchiveStep
<1>0. faults \in 0..MaxFaults /\ MaxFaults \in Nat
  BY ActivityConstants DEF ArchiveTypes
<1>1. ASSUME NEW i \in Slots, IngestStep(i) PROVE ArchiveStep
  <2>1. faults' = faults \/ (faults < MaxFaults /\ faults' = faults + 1)
    BY <1>1 DEF IngestStep, readObject, Archive, ArchiveEcho, ArchiveUncoded, ArchivePlain,
                InsertTelemetry, InsertUnsure, UpsertRow, UpsertRowFails, IngestFails
  <2>2. faults' \in 0..MaxFaults
    BY <1>0, <2>1
  <2> QED BY <1>1, <2>2, SlotSteps DEF ArchiveStep
<1>2. ASSUME NEW i \in Slots, NEW e \in Events, Begin(i, e) PROVE ArchiveStep
  <2>1. /\ uploads' = [uploads EXCEPT ![e] = @ + 1] /\ faults' = faults
        /\ UNCHANGED <<plain, object, row, docs>> /\ SumFunction(uploads) < MaxUploads
    BY <1>2 DEF Begin, storeVars
  <2>2. uploads[e] < MaxUploads
    BY <2>1, UploadsBound DEF ArchiveTypes
  <2>3. CASE e \in docs
    <3>1. ingest' = ingest
      BY <1>2, <2>3 DEF Begin
    <3> QED BY <1>0, <2>1, <2>2, <3>1 DEF ArchiveStep, Delivered
  <2>4. CASE e \notin docs
    <3>1. PICK r \in Requests :
             /\ GoesOn(i, r) /\ r.event = e /\ r.result = NoApps
             /\ (r.pc = "insert" /\ extractFocusSessions(e) = <<>>) \/ r.pc = "read"
      BY <1>2, <2>4, BeginMoves
    <3> QED BY <1>0, <2>1, <2>2, <3>1 DEF ArchiveStep, Delivered
  <2> QED BY <2>3, <2>4
<1>3. CASE Restart
  <2>1. faults' \in 0..MaxFaults
    BY <1>0, <1>3 DEF Restart
  <2> QED BY <1>3, <2>1 DEF Restart, ArchiveStep, Restarted, storeVars
<1>4. CASE \/ \E e \in Events : applyFocusSummaries(e) \/ RebuildNext(e)
           \/ OpenRebuild \/ RebuildTruncated \/ UNCHANGED vars
  <2>1. Unseen /\ (faults' = faults \/ (faults < MaxFaults /\ faults' = faults + 1))
    BY <1>4 DEF applyFocusSummaries, RebuildNext, OpenRebuild, RebuildTruncated, Unseen, storeVars, vars
  <2>2. faults' \in 0..MaxFaults
    BY <1>0, <2>1
  <2> QED BY <2>1, <2>2 DEF ArchiveStep
<1> QED
  BY <1>1, <1>2, <1>3, <1>4 DEF Next

LEMMA IdleSlots ==
    ASSUME Restarted
    PROVE  \A i \in Slots : ingest'[i] = Idle /\ ingest'[i].pc = "idle"
BY DEF Restarted, Idle

LEMMA UsersOfSlots ==
    ASSUME ArchiveTypes, NEW i \in Slots, ingest[i].pc # "idle"
    PROVE  /\ ingest[i].event \in Events /\ UserOf(ingest[i].event) \in Users
           /\ Sent(ingest[i].event) \subseteq Int
<1>1. ingest[i].event \in Events /\ UserOf(ingest[i].event) \in Users
  BY ActivityConstants DEF ArchiveTypes
<1>2. \A t : t \in Sent(ingest[i].event) => t \in Int
  BY <1>1, InSent
<1> QED
  BY <1>1, <1>2

\* What a write does to the objects.
LEMMA StoredFacts ==
    ASSUME ArchiveTypes, NEW i \in Slots, ingest[i].pc # "idle", object' = Stored(i),
           NEW u, u = UserOf(ingest[i].event)
    PROVE  /\ object' \in [Users -> Objects]
           /\ object'[u].etag = object[u].etag + 1 /\ object'[u].sessions = Merged(i)
           /\ \A v \in Users : v # u => object'[v] = object[v]
<1> DEFINE o == [etag |-> object[u].etag + 1, sessions |-> Merged(i)]
<1>1. u \in Users /\ ingest[i].event \in Events
  BY UsersOfSlots
<1>2. Merged(i) \in Seq(Session)
  BY <1>1, MergedType
<1>3. object[u].etag \in Nat /\ object \in [Users -> Objects]
  BY <1>1 DEF ArchiveTypes, Objects
<1>4. object' = [object EXCEPT ![u] = o]
  BY DEF Stored
<1>5. o \in Objects /\ o.etag = object[u].etag + 1 /\ o.sessions = Merged(i)
  BY <1>2, <1>3 DEF Objects
<1> HIDE DEF o
<1> QED
  BY <1>1, <1>3, <1>4, <1>5

LEMMA ArchiveTypesStep ==
    ASSUME ArchiveTypes, ArchiveStep
    PROVE  ArchiveTypes'
<1>1. ASSUME NEW e \in Events, Delivered(e) PROVE ArchiveTypes'
  <2>1. /\ uploads' \in [Events -> 0..MaxUploads]
        /\ uploads'[e] > 0 /\ \A f \in Events : uploads[f] > 0 => uploads'[f] > 0
    <3>1. uploads \in [Events -> 0..MaxUploads] /\ MaxUploads \in Nat
      BY ActivityConstants DEF ArchiveTypes
    <3>2. uploads' = [uploads EXCEPT ![e] = uploads[e] + 1] /\ uploads[e] < MaxUploads
      BY <1>1 DEF Delivered
    <3>3. uploads[e] + 1 \in 0..MaxUploads /\ uploads[e] + 1 > 0
      BY <3>1, <3>2
    <3> QED BY <3>1, <3>2, <3>3
  <2>2. CASE ingest' = ingest
    BY <1>1, <2>1, <2>2 DEF Delivered, ArchiveTypes, ArchiveStep
  <2>3. CASE \E i \in Slots, r \in Requests : GoesOn(i, r) /\ r.event = e /\ r.pc \in {"insert", "read"}
    <3>1. PICK i \in Slots, r \in Requests : GoesOn(i, r) /\ r.event = e /\ r.pc \in {"insert", "read"}
      BY <2>3
    <3>2. ingest' \in [Slots -> Requests]
      BY <3>1 DEF GoesOn
    <3>3. ASSUME NEW j \in Slots, ingest'[j].pc # "idle"
          PROVE  ingest'[j].event \in Events /\ uploads'[ingest'[j].event] > 0
      <4>1. CASE j = i
        BY <2>1, <3>1, <4>1 DEF GoesOn
      <4>2. CASE j # i
        BY <2>1, <3>1, <3>3, <4>2 DEF GoesOn, ArchiveTypes
      <4> QED BY <4>1, <4>2
    <3>4. ASSUME NEW j \in Slots, ingest'[j].pc = "row" PROVE ingest'[j].event \in docs
      BY <3>1, <3>4 DEF GoesOn, ArchiveTypes
    <3>5. UNCHANGED <<plain, object, row, docs>>
      BY <1>1 DEF Delivered
    <3> QED BY <2>1, <3>2, <3>3, <3>4, <3>5 DEF ArchiveTypes, ArchiveStep
  <2> QED BY <1>1, <2>2, <2>3 DEF Delivered
<1>2. ASSUME NEW i \in Slots, NEW r \in Requests, Moved(i, r) PROVE ArchiveTypes'
  <2>1. /\ GoesOn(i, r) /\ UNCHANGED <<uploads, plain, object>> /\ docs \subseteq docs'
        /\ r.pc # "idle" => ingest[i].pc # "idle" /\ r.event = ingest[i].event
        /\ r.pc = "row" => r.event \in docs'
        /\ docs' = docs \/ (ingest[i].pc # "idle" /\ docs' = docs \cup {ingest[i].event})
    BY <1>2 DEF Moved
  <2>2. r.pc # "idle" => r.event \in Events /\ uploads[r.event] > 0
    BY <2>1 DEF ArchiveTypes
  <2>3. docs' \subseteq Events
    BY <2>1 DEF ArchiveTypes
  <2>4. \A j \in Slots : /\ ingest'[j].pc # "idle" => ingest'[j].event \in Events
                                                       /\ uploads[ingest'[j].event] > 0
                         /\ ingest'[j].pc = "row" => ingest'[j].event \in docs'
    BY <2>1, <2>2 DEF GoesOn, ArchiveTypes
  <2> QED BY <2>1, <2>3, <2>4 DEF ArchiveTypes, ArchiveStep, GoesOn
<1>3. ASSUME NEW i \in Slots, NEW r \in Requests, Wrote(i, r) PROVE ArchiveTypes'
  <2>1. /\ GoesOn(i, r) /\ UNCHANGED <<uploads, docs>> /\ ingest[i].pc # "idle" /\ object' = Stored(i)
        /\ r.pc # "idle" => r.event = ingest[i].event
        /\ r.pc # "row" /\ plain' \in BOOLEAN
    BY <1>3 DEF Wrote, ArchiveTypes
  <2>2. object' \in [Users -> Objects]
    BY <2>1, StoredFacts
  <2>3. \A j \in Slots : /\ ingest'[j].pc # "idle" => ingest'[j].event \in Events
                                                       /\ uploads[ingest'[j].event] > 0
                         /\ ingest'[j].pc = "row" => ingest'[j].event \in docs
    BY <2>1 DEF GoesOn, ArchiveTypes
  <2> QED BY <2>1, <2>2, <2>3 DEF ArchiveTypes, ArchiveStep, GoesOn
<1>4. CASE Restarted
  <2>1. ingest' \in [Slots -> Requests]
    BY <1>4, IdleType DEF Restarted
  <2>2. \A j \in Slots : ingest'[j].pc = "idle"
    BY <1>4, IdleSlots
  <2> QED BY <1>4, <2>1, <2>2 DEF ArchiveTypes, ArchiveStep, Restarted
<1>5. CASE Unseen
  BY <1>5 DEF ArchiveTypes, ArchiveStep, Unseen
<1> QED
  BY <1>1, <1>2, <1>3, <1>4, <1>5 DEF ArchiveStep

LEMMA ArchiveTypesHold == Spec => []ArchiveTypes
<1>1. ArchiveTypes /\ [Next]_vars => ArchiveTypes'
  BY NextIsArchiveStep, ArchiveTypesStep
<1> QED
  BY <1>1, ArchiveTypesInit, PTL DEF Spec

(* What is archived was spent.                                             *)

\* The ticks that the uploads counted by up report of user u, by application.
SpentOf(up, u) ==
    [a \in Apps |->
        (0..DayLength - 1) \cap
        UNION {TimeOf(extractFocusSessions(e), a) : e \in {f \in Events : up[f] > 0 /\ UserOf(f) = u}}]

\* The archived days are possible ones, made of what was uploaded; so are those
\* that a slot has read and is going to merge its upload into.
Days ==
    /\ \A u \in Users : Honest(object[u].sessions, SpentOf(uploads, u))
    /\ \A i \in Slots : ingest[i].pc \in {"put", "plain"} =>
          Honest(ingest[i].seen.sessions, SpentOf(uploads, UserOf(ingest[i].event)))

LEMMA InSpent ==
    ASSUME NEW up, NEW u, NEW a \in Apps, NEW t
    PROVE  t \in SpentOf(up, u)[a] <=> \E e \in Events : up[e] > 0 /\ UserOf(e) = u /\ t \in SentFor(e, a)
<1> DEFINE E == {f \in Events : up[f] > 0 /\ UserOf(f) = u}
           T == UNION {TimeOf(extractFocusSessions(e), a) : e \in E}
<1>1. SpentOf(up, u)[a] = (0..DayLength - 1) \cap T
  BY DEF SpentOf
<1>2. t \in T <=> \E e \in E : t \in TimeOf(extractFocusSessions(e), a)
  OBVIOUS
<1> HIDE DEF T
<1> QED
  BY <1>1, <1>2 DEF SentFor

LEMMA SpentTicks ==
    ASSUME NEW up, NEW u
    PROVE  /\ SpentOf(up, u) \in [Apps -> SUBSET Int]
           /\ \A e \in Events : up[e] > 0 /\ UserOf(e) = u =>
                 \A a \in Apps : SentFor(e, a) \subseteq SpentOf(up, u)[a]
<1>1. ASSUME NEW a \in Apps PROVE SpentOf(up, u)[a] \in SUBSET Int
  <2>1. \A t \in 0..DayLength - 1 : t \in Int
    BY ActivityConstants
  <2> QED BY <2>1, InSpent DEF SentFor
<1>2. SpentOf(up, u) = [a \in Apps |-> SpentOf(up, u)[a]]
  BY DEF SpentOf
<1>3. SpentOf(up, u) \in [Apps -> SUBSET Int]
  BY <1>1, <1>2
<1>4. ASSUME NEW e \in Events, up[e] > 0, UserOf(e) = u, NEW a \in Apps, NEW t \in SentFor(e, a)
      PROVE  t \in SpentOf(up, u)[a]
  BY <1>4, InSpent
<1> QED
  BY <1>3, <1>4

LEMMA SpentGrows ==
    ASSUME NEW up, NEW more, \A e \in Events : up[e] > 0 => more[e] > 0, NEW u, NEW a \in Apps
    PROVE  SpentOf(up, u)[a] \subseteq SpentOf(more, u)[a]
<1>1. ASSUME NEW t, t \in SpentOf(up, u)[a] PROVE t \in SpentOf(more, u)[a]
  BY <1>1, InSpent
<1> QED
  BY <1>1

\* What slot i is going to write.
LEMMA WrittenDay ==
    ASSUME ArchiveTypes, Days, NEW i \in Slots, ingest[i].pc \in {"put", "plain"},
           NEW e, e = ingest[i].event
    PROVE  /\ Honest(Merged(i), SpentOf(uploads, UserOf(e)))
           /\ CoveredIn(ingest[i].seen.sessions) \subseteq CoveredIn(Merged(i))
           /\ Sent(e) \subseteq CoveredIn(Merged(i))
<1> DEFINE R == SpentOf(uploads, UserOf(e))
           q == ingest[i].seen.sessions
           s == Merged(i)
<1>1. e \in Events /\ uploads[e] > 0
  BY DEF ArchiveTypes
<1>2. R \in [Apps -> SUBSET Int] /\ \A a \in Apps : SentFor(e, a) \subseteq R[a]
  BY <1>1, SpentTicks
<1>3. Honest(q, R)
  BY DEF Days
<1>4. s = normalizeActivitySessions(q \o extractFocusSessions(e))
  BY DEF Merged
<1> HIDE DEF R, q, s
<1>5. Honest(s, R) /\ CoveredIn(q) \subseteq CoveredIn(s) /\ Sent(e) \subseteq CoveredIn(s)
  BY ONLY <1>1, <1>2, <1>3, <1>4, MergedFacts
<1> QED
  BY <1>5 DEF R, q, s

LEMMA DaysStep ==
    ASSUME ArchiveTypes, Days, ArchiveStep
    PROVE  Days'
<1>1. ASSUME NEW e \in Events, Delivered(e) PROVE Days'
  <2>1. \A f \in Events : uploads[f] > 0 => uploads'[f] > 0
    <3>1. uploads \in [Events -> 0..MaxUploads]
      BY DEF ArchiveTypes
    <3>2. uploads' = [uploads EXCEPT ![e] = uploads[e] + 1]
      BY <1>1 DEF Delivered
    <3> QED BY <3>1, <3>2
  <2>2. PICK more : more = uploads'
    OBVIOUS
  <2>3. ASSUME NEW q, NEW u, Honest(q, SpentOf(uploads, u)) PROVE Honest(q, SpentOf(more, u))
    <3>1. \A a \in Apps : SpentOf(uploads, u)[a] \subseteq SpentOf(more, u)[a]
      BY <2>1, <2>2, SpentGrows
    <3> QED BY <2>3, <3>1, HonestGrows
  <2>4. object' = object /\ \A j \in Slots : ingest'[j].pc \in {"put", "plain"} => ingest'[j] = ingest[j]
    BY <1>1 DEF Delivered, GoesOn
  <2> QED BY <2>2, <2>3, <2>4 DEF Days
<1>2. ASSUME NEW i \in Slots, NEW r \in Requests, Moved(i, r) PROVE Days'
  <2>1. /\ GoesOn(i, r) /\ uploads' = uploads /\ object' = object
        /\ r.pc \in {"put", "plain"} => /\ r.event = ingest[i].event
                                        /\ \/ r.seen = object[UserOf(r.event)]
                                           \/ ingest[i].pc = "put" /\ r.seen = ingest[i].seen
        /\ r.pc \in {"put", "plain"} => ingest[i].pc # "idle"
    BY <1>2 DEF Moved
  <2>2. r.pc \in {"put", "plain"} => Honest(r.seen.sessions, SpentOf(uploads, UserOf(r.event)))
    BY <2>1, UsersOfSlots DEF Days
  <2>3. \A j \in Slots : ingest'[j].pc \in {"put", "plain"} =>
           Honest(ingest'[j].seen.sessions, SpentOf(uploads, UserOf(ingest'[j].event)))
    BY <2>1, <2>2 DEF GoesOn, Days
  <2> QED BY <2>1, <2>3 DEF Days
<1>3. ASSUME NEW i \in Slots, NEW r \in Requests, Wrote(i, r) PROVE Days'
  <2>1. /\ GoesOn(i, r) /\ uploads' = uploads /\ object' = Stored(i) /\ ingest[i].pc \in {"put", "plain"}
        /\ r.pc \notin {"put", "plain"}
    BY <1>3 DEF Wrote
  <2>2. Honest(Merged(i), SpentOf(uploads, UserOf(ingest[i].event)))
    BY <2>1, WrittenDay
  <2>3. ASSUME NEW v \in Users PROVE Honest(object'[v].sessions, SpentOf(uploads, v))
    BY <2>1, <2>2, StoredFacts DEF Days
  <2>4. \A j \in Slots : ingest'[j].pc \in {"put", "plain"} =>
           Honest(ingest'[j].seen.sessions, SpentOf(uploads, UserOf(ingest'[j].event)))
    BY <2>1 DEF GoesOn, Days
  <2> QED BY <2>1, <2>3, <2>4 DEF Days
<1>4. CASE Restarted
  BY <1>4, IdleSlots DEF Days, Restarted
<1>5. CASE Unseen
  BY <1>5 DEF Days, Unseen
<1> QED
  BY <1>1, <1>2, <1>3, <1>4, <1>5 DEF ArchiveStep

LEMMA DaysInit == Init => Days
<1> SUFFICES ASSUME Init PROVE Days
  OBVIOUS
<1>1. \A u \in Users : object[u].sessions = <<>>
  BY DEF Init, NoObject
<1>2. \A i \in Slots : ingest[i].pc = "idle"
  BY DEF Init, Idle
<1> QED
  BY <1>1, <1>2, HonestNothing DEF Days

LEMMA DaysHold == Spec => [](ArchiveTypes /\ Days)
<1>1. Init => ArchiveTypes /\ Days
  BY ArchiveTypesInit, DaysInit
<1>2. ArchiveTypes /\ Days /\ [Next]_vars => ArchiveTypes' /\ Days'
  BY NextIsArchiveStep, ArchiveTypesStep, DaysStep
<1> QED
  BY <1>1, <1>2, PTL DEF Spec

\* Whatever is uploaded, in whatever order, twice or over a lost race, and even
\* after an unconditional write: the archived sessions of a day are in order,
\* disjoint and within the day, and each lies in time that was reported for its
\* application or in a short pause of it (normalizeActivitySessions,
\* mergeActivitySessions and Archive).
THEOREM ArchivedDaysAreHonest == Spec => []DayInv
<1>1. ASSUME Days, NEW u \in Users, NEW k \in DOMAIN object[u].sessions
      PROVE  LET s == object[u].sessions IN
             /\ 0 <= s[k].start /\ s[k].start < s[k].end /\ s[k].end <= DayLength
             /\ Visible(s[k])
             /\ k > 1 => s[k - 1].end <= s[k].start
  BY <1>1 DEF Days, Honest, Orderly, Within
<1>2. ASSUME Days, NEW u \in Users, NEW a \in Apps, NEW t \in TimeOf(object[u].sessions, a)
      PROVE  t \in TimeReported(u, a) \/ Near(TimeReported(u, a), t)
  <2>1. TimeReported(u, a) = SpentOf(uploads, u)[a]
    BY DEF TimeReported, SpentOf
  <2> QED BY <1>2, <2>1 DEF Days, Honest
<1>3. Days => DayIsOrdered
  BY <1>1, Zenon DEF DayIsOrdered
<1>4. Days => NoPhantomTime
  BY <1>2 DEF NoPhantomTime, Near
<1> QED
  BY <1>3, <1>4, DaysHold, PTL DEF DayInv

-----------------------------------------------------------------------------
(* The focus cache.                                                        *)

\* The events whose requests are about to start their goroutine.
Rows(slots) == {slots[i].event : i \in {j \in Slots : slots[j].pc = "row"}}
Once(e, S) == IF e \in S THEN 1 ELSE 0

CacheTypes ==
    /\ cache \in [Events -> Nat]
    /\ rebuild \in [stage : {"starting", "reading", "truncated"}, left : SUBSET Events]
    /\ docs \subseteq Events
    /\ applying \subseteq docs /\ raced \subseteq docs /\ rebuild.left \subseteq docs
    /\ unsure \subseteq docs
\* An event is counted, on its way into the cache or to be found by the rebuild:
\* one of these, and one of them again when it was being stored as the rebuild
\* began.
Counting ==
    /\ \A e \in Events : e \notin docs => cache[e] = 0
    /\ rebuild.stage = "starting" => rebuild.left = {} /\ raced = {}
    /\ \A i, j \in Slots : (ingest[i].pc = "row" /\ ingest[j].pc = "row" /\ ingest[i].event = ingest[j].event)
          => i = j
    /\ \A e \in Events :
          cache[e] + Once(e, rebuild.left) + Once(e, applying) + Once(e, Rows(ingest))
             <= IF e \in raced THEN 2 ELSE 1

FocusIndInv == CacheTypes /\ Counting /\ FocusComplete

LEMMA InRows ==
    ASSUME NEW slots, NEW e
    PROVE  e \in Rows(slots) <=> \E i \in Slots : slots[i].pc = "row" /\ slots[i].event = e
BY DEF Rows

\* What the step of a request does to the cache.
LEMMA SlotFocus ==
    ASSUME NEW i \in Slots, IngestStep(i)
    PROVE  \/ /\ ingest[i].pc # "row" /\ UNCHANGED cacheVars
              /\ docs' = docs \/ ingest' = [ingest EXCEPT ![i].pc = "row"]
           \/ /\ ingest[i].pc = "row" /\ applying' = FocusGoroutine(ingest[i].event)
              /\ UNCHANGED <<cache, rebuild, raced, unsure>>
           \/ /\ ingest[i].pc = "insert" /\ ingest' = [ingest EXCEPT ![i] = Idle]
              /\ docs' = docs \cup {ingest[i].event} /\ unsure' = unsure \cup {ingest[i].event}
              /\ UNCHANGED <<applying, cache, rebuild, raced>>
<1>1. CASE InsertTelemetry(i)
  <2>1. ingest[i].event \in docs => docs' = docs
    BY <1>1 DEF InsertTelemetry
  <2> QED BY <1>1, <2>1 DEF InsertTelemetry, cacheVars
<1>2. CASE InsertUnsure(i)
  BY <1>2 DEF InsertUnsure
<1>3. CASE UpsertRow(i) \/ UpsertRowFails(i)
  BY <1>3 DEF UpsertRow, UpsertRowFails
<1>4. CASE \/ readObject(i) \/ Archive(i) \/ ArchiveEcho(i) \/ ArchiveUncoded(i) \/ ArchivePlain(i)
           \/ IngestFails(i)
  BY <1>4 DEF readObject, Archive, ArchiveEcho, ArchiveUncoded, ArchivePlain, IngestFails,
              cacheVars, storeVars
<1> QED
  BY <1>1, <1>2, <1>3, <1>4 DEF IngestStep

\* Steps that take no request to its row or beyond.
LEMMA FocusStutter ==
    ASSUME FocusIndInv, UNCHANGED cacheVars, UNCHANGED docs,
           \A j \in Slots : \/ ingest'[j] = ingest[j]
                            \/ ingest[j].pc # "row" /\ ingest'[j].pc # "row"
    PROVE  FocusIndInv'
<1>1. PICK more : more = ingest'
  OBVIOUS
<1>2. \A j \in Slots : /\ more[j].pc = "row" <=> ingest[j].pc = "row"
                       /\ more[j].pc = "row" => more[j].event = ingest[j].event
  BY <1>1
<1>3. \A e : e \in Rows(more) <=> e \in Rows(ingest)
  BY <1>2, InRows
<1>4. Rows(more) = Rows(ingest)
  BY <1>3
<1>5. CacheTypes'
  BY DEF CacheTypes, FocusIndInv, cacheVars
<1>6. Counting'
  BY <1>1, <1>2, <1>4 DEF Counting, FocusIndInv, cacheVars
<1>7. FocusComplete'
  BY <1>1, <1>2 DEF FocusComplete, FocusIndInv, cacheVars
<1> QED
  BY <1>5, <1>6, <1>7 DEF FocusIndInv

\* A new document has been stored.
LEMMA FocusStored ==
    ASSUME FocusIndInv, ArchiveTypes, UNCHANGED cacheVars, NEW i \in Slots, NEW r \in Requests, GoesOn(i, r),
           r.pc = "row", ingest[i].pc # "row", r.event \in Events, r.event \notin docs,
           docs' = docs \cup {r.event}
    PROVE  FocusIndInv'
<1> DEFINE n == r.event
<1>1. PICK more : more = ingest'
  OBVIOUS
<1>2. /\ more[i] = r /\ \A j \in Slots : j # i => more[j] = ingest[j]
      /\ \A j \in Slots : ingest[j].pc = "row" => ingest[j].event \in docs
  BY <1>1 DEF GoesOn, ArchiveTypes
<1>3. \A e : e \in Rows(more) <=> e = n \/ e \in Rows(ingest)
  BY <1>2, InRows
<1>4. n \notin Rows(ingest)
  BY <1>2, InRows
<1>5. CacheTypes'
  BY DEF CacheTypes, FocusIndInv, cacheVars
<1>6. ASSUME NEW e \in Events
      PROVE  cache[e] + Once(e, rebuild.left) + Once(e, applying) + Once(e, Rows(more))
                <= IF e \in raced THEN 2 ELSE 1
  <2>1. CASE e = n
    <3>1. cache[e] = 0 /\ e \notin rebuild.left /\ e \notin applying
      BY <2>1 DEF Counting, CacheTypes, FocusIndInv
    <3>2. Once(e, rebuild.left) = 0 /\ Once(e, applying) = 0 /\ Once(e, Rows(more)) \in {0, 1}
      BY <3>1 DEF Once
    <3> QED BY <3>1, <3>2
  <2>2. CASE e # n
    <3>1. Once(e, Rows(more)) = Once(e, Rows(ingest))
      BY <1>3, <2>2 DEF Once
    <3> QED BY <3>1 DEF Counting, FocusIndInv
  <2> QED BY <2>1, <2>2
<1>7. \A a, b \in Slots : more[a].pc = "row" /\ more[b].pc = "row" /\ more[a].event = more[b].event => a = b
  BY <1>2 DEF Counting, FocusIndInv
<1>8. Counting'
  BY <1>1, <1>6, <1>7 DEF Counting, FocusIndInv, cacheVars
<1>9. FocusComplete'
  <2>1. \A e : (\E j \in Slots : ingest[j].pc = "row" /\ ingest[j].event = e)
                  => \E j \in Slots : more[j].pc = "row" /\ more[j].event = e
    BY <1>2
  <2>2. more[i].pc = "row" /\ more[i].event = n
    BY <1>2
  <2> QED BY <1>1, <2>1, <2>2 DEF FocusComplete, FocusIndInv, cacheVars
<1> QED
  BY <1>5, <1>8, <1>9 DEF FocusIndInv

\* A new document has been stored, and its request ends with an error.
LEMMA FocusUnsure ==
    ASSUME FocusIndInv, ArchiveTypes, UNCHANGED <<applying, cache, rebuild, raced>>,
           NEW i \in Slots, NEW r \in Requests, GoesOn(i, r), r.pc = "idle", ingest[i].pc = "insert",
           docs' = docs \cup {ingest[i].event}, unsure' = unsure \cup {ingest[i].event}
    PROVE  FocusIndInv'
<1>1. PICK more : more = ingest'
  OBVIOUS
<1>2. /\ more[i] = r /\ \A j \in Slots : j # i => more[j] = ingest[j]
      /\ ingest[i].event \in Events
  BY <1>1, UsersOfSlots DEF GoesOn
<1>3. \A j \in Slots : /\ more[j].pc = "row" <=> ingest[j].pc = "row"
                       /\ more[j].pc = "row" => more[j].event = ingest[j].event
  BY <1>2
<1>4. Rows(more) = Rows(ingest)
  <2>1. \A e : e \in Rows(more) <=> e \in Rows(ingest)
    BY <1>3, InRows
  <2> QED BY <2>1
<1>5. CacheTypes'
  BY <1>2 DEF CacheTypes, FocusIndInv
<1>6. Counting'
  BY <1>1, <1>3, <1>4 DEF Counting, FocusIndInv
<1>7. FocusComplete'
  BY <1>1, <1>3 DEF FocusComplete, FocusIndInv
<1> QED
  BY <1>5, <1>6, <1>7 DEF FocusIndInv

\* A request is over and its goroutine starts.
LEMMA FocusStarted ==
    ASSUME FocusIndInv, ArchiveTypes, NEW i \in Slots, NEW r \in Requests, GoesOn(i, r),
           r.pc = "idle", ingest[i].pc = "row", applying' = FocusGoroutine(ingest[i].event),
           UNCHANGED <<cache, rebuild, raced, unsure, docs>>
    PROVE  FocusIndInv'
<1> DEFINE n == ingest[i].event
<1>1. PICK more : more = ingest'
  OBVIOUS
<1>2. PICK late : late = applying'
  OBVIOUS
<1>3. /\ more[i] = r /\ \A j \in Slots : j # i => more[j] = ingest[j]
      /\ n \in docs /\ n \in Events
  BY <1>1 DEF GoesOn, ArchiveTypes
<1>4. /\ \A e : e \in Rows(more) <=> e # n /\ e \in Rows(ingest)
      /\ n \in Rows(ingest)
  BY <1>3, InRows DEF Counting, FocusIndInv
<1>5. late = applying \cup {n} \/ (late = applying /\ Payload[n].queued)
  BY <1>2 DEF FocusGoroutine, activeWindowSnapshotFresh
<1>6. CacheTypes'
  BY <1>2, <1>3, <1>5 DEF CacheTypes, FocusIndInv
<1>7. ASSUME NEW e \in Events
      PROVE  cache[e] + Once(e, rebuild.left) + Once(e, late) + Once(e, Rows(more))
                <= IF e \in raced THEN 2 ELSE 1
  <2>1. Once(e, late) + Once(e, Rows(more)) <= Once(e, applying) + Once(e, Rows(ingest))
    BY <1>4, <1>5 DEF Once
  <2>2. /\ cache[e] \in Nat /\ Once(e, rebuild.left) \in Nat /\ Once(e, late) \in Nat
        /\ Once(e, Rows(more)) \in Nat /\ Once(e, applying) \in Nat /\ Once(e, Rows(ingest)) \in Nat
    BY DEF CacheTypes, FocusIndInv, Once
  <2>3. cache[e] + Once(e, rebuild.left) + Once(e, applying) + Once(e, Rows(ingest))
           <= IF e \in raced THEN 2 ELSE 1
    BY DEF Counting, FocusIndInv
  <2> QED BY <2>1, <2>2, <2>3
<1>8. \A a, b \in Slots : more[a].pc = "row" /\ more[b].pc = "row" /\ more[a].event = more[b].event => a = b
  BY <1>3 DEF Counting, FocusIndInv
<1>9. Counting'
  <2>1. cache' = cache /\ rebuild' = rebuild /\ raced' = raced /\ unsure' = unsure /\ docs' = docs
    OBVIOUS
  <2>2. \A e \in Events : (cache[e] + Once(e, rebuild.left) + Once(e, applying) + Once(e, Rows(ingest))
                             <= IF e \in raced THEN 2 ELSE 1)'
    BY <1>1, <1>2, <1>7, <2>1
  <2>3. \A a, b \in Slots : (ingest'[a].pc = "row" /\ ingest'[b].pc = "row" /\ ingest'[a].event = ingest'[b].event)
          => a = b
    BY <1>1, <1>8, Zenon
  <2> QED BY <2>1, <2>2, <2>3 DEF Counting, FocusIndInv
<1>10. FocusComplete'
  <2>1. \A e : (\E j \in Slots : ingest[j].pc = "row" /\ ingest[j].event = e)
                  => e = n \/ \E j \in Slots : more[j].pc = "row" /\ more[j].event = e
    BY <1>3
  <2>2. Payload[n].queued \/ n \in late
    BY <1>5
  <2> QED BY <1>1, <1>2, <1>5, <2>1, <2>2 DEF FocusComplete, FocusIndInv
<1> QED
  BY <1>6, <1>9, <1>10 DEF FocusIndInv

\* An event that is on its way into the cache arrives there.
LEMMA FocusAdded ==
    ASSUME FocusIndInv, NEW n \in Events, ingest' = ingest, docs' = docs, raced' = raced,
           unsure' = unsure, cache' = [cache EXCEPT ![n] = @ + 1],
           NEW late, late = applying', NEW new, new = rebuild',
           \/ n \in applying /\ late = applying \ {n} /\ new = rebuild
           \/ n \in rebuild.left /\ late = applying /\ new = [rebuild EXCEPT !.left = @ \ {n}]
    PROVE  FocusIndInv'
<1>1. PICK total : total = cache'
  OBVIOUS
<1>2. /\ total \in [Events -> Nat] /\ total[n] = cache[n] + 1
      /\ \A e \in Events : e # n => total[e] = cache[e]
  BY <1>1 DEF CacheTypes, FocusIndInv
<1>3. /\ new \in [stage : {"starting", "reading", "truncated"}, left : SUBSET Events]
      /\ new.stage = rebuild.stage /\ new.left \subseteq rebuild.left
      /\ \A e \in Events : e # n => Once(e, new.left) + Once(e, late)
                                       = Once(e, rebuild.left) + Once(e, applying)
      /\ Once(n, new.left) + Once(n, late) + 1 = Once(n, rebuild.left) + Once(n, applying)
      /\ \A e \in Events : e # n => (e \in new.left <=> e \in rebuild.left)
      /\ late \subseteq applying /\ \A e \in Events : e # n => (e \in late <=> e \in applying)
  <2>1. CASE n \in applying /\ late = applying \ {n} /\ new = rebuild
    BY <2>1 DEF CacheTypes, FocusIndInv, Once
  <2>2. CASE n \in rebuild.left /\ late = applying /\ new = [rebuild EXCEPT !.left = rebuild.left \ {n}]
    <3>1. new.left = rebuild.left \ {n} /\ new.stage = rebuild.stage
          /\ new \in [stage : {"starting", "reading", "truncated"}, left : SUBSET Events]
      BY <2>2 DEF CacheTypes, FocusIndInv
    <3> QED BY <2>2, <3>1 DEF Once
  <2> QED BY <2>1, <2>2
<1>4. n \in docs
  BY DEF CacheTypes, FocusIndInv
<1>5. CacheTypes'
  <2>1. rebuild' \in [stage : {"starting", "reading", "truncated"}, left : SUBSET Events]
        /\ rebuild'.left \subseteq rebuild.left /\ applying' \subseteq applying /\ cache' \in [Events -> Nat]
    BY <1>1, <1>2, <1>3
  <2> QED BY <2>1 DEF CacheTypes, FocusIndInv
<1>6. ASSUME NEW e \in Events
      PROVE  total[e] + Once(e, new.left) + Once(e, late) + Once(e, Rows(ingest))
                <= IF e \in raced THEN 2 ELSE 1
  <2>1. cache[e] + Once(e, rebuild.left) + Once(e, applying) + Once(e, Rows(ingest))
           <= IF e \in raced THEN 2 ELSE 1
    BY DEF Counting, FocusIndInv
  <2>2. /\ cache[e] \in Nat /\ Once(e, rebuild.left) \in Nat /\ Once(e, applying) \in Nat
        /\ Once(e, Rows(ingest)) \in Nat /\ Once(e, new.left) \in Nat /\ Once(e, late) \in Nat
    BY DEF CacheTypes, FocusIndInv, Once
  <2>3. CASE e = n
    BY <1>2, <1>3, <2>1, <2>2, <2>3
  <2>4. CASE e # n
    BY <1>2, <1>3, <2>1, <2>2, <2>4
  <2> QED BY <2>3, <2>4
<1>7. \A e \in Events : e \notin docs => total[e] = 0
  BY <1>2, <1>4 DEF Counting, FocusIndInv
<1>8. Counting'
  <2>1. \A e \in Events : (cache[e] + Once(e, rebuild.left) + Once(e, applying) + Once(e, Rows(ingest))
                             <= IF e \in raced THEN 2 ELSE 1)'
    BY <1>1, <1>6
  <2>2. (rebuild.stage = "starting" => rebuild.left = {} /\ raced = {})'
    BY <1>3 DEF Counting, FocusIndInv
  <2>3. (\A e \in Events : e \notin docs => cache[e] = 0)'
    BY <1>1, <1>7
  <2> QED BY <2>1, <2>2, <2>3 DEF Counting, FocusIndInv
<1>9. FocusComplete'
  <2>1. ASSUME NEW e \in docs
        PROVE  \/ Payload[e].queued \/ e \in unsure
               \/ total[e] > 0 \/ e \in late \/ e \in new.left
               \/ new.stage # "reading"
               \/ \E i \in Slots : ingest[i].pc = "row" /\ ingest[i].event = e
    <3>0. n \in Events /\ cache \in [Events -> Nat]
      BY DEF CacheTypes, FocusIndInv
    <3>1. CASE e = n
      BY <1>2, <3>0, <3>1
    <3>2. CASE e # n
      <4>1. e \in Events
        BY DEF CacheTypes, FocusIndInv
      <4> QED BY <1>2, <1>3, <3>2, <4>1 DEF FocusComplete, FocusIndInv
    <3> QED BY <3>1, <3>2
  <2> QED BY <1>1, <2>1 DEF FocusComplete
<1> QED
  BY <1>5, <1>8, <1>9 DEF FocusIndInv

\* The rebuild looks at what is stored.
LEMMA FocusOpened ==
    ASSUME FocusIndInv, ArchiveTypes, OpenRebuild
    PROVE  FocusIndInv'
<1>1. PICK late : late = raced'
  OBVIOUS
<1>2. /\ rebuild.stage = "starting" /\ rebuild' = [stage |-> "reading", left |-> docs]
      /\ late = {e \in docs : e \in applying \/ cache[e] > 0
                              \/ \E i \in Slots : ingest[i].pc = "row" /\ ingest[i].event = e}
      /\ ingest' = ingest /\ applying' = applying /\ cache' = cache /\ docs' = docs
      /\ unsure' = {}
  BY <1>1 DEF OpenRebuild, storeVars
<1>3. /\ rebuild'.stage = "reading" /\ rebuild'.left = docs
      /\ rebuild' \in [stage : {"starting", "reading", "truncated"}, left : SUBSET Events]
  BY <1>2 DEF ArchiveTypes
<1>4. late \subseteq docs
  BY <1>2
<1>5. CacheTypes'
  BY <1>1, <1>2, <1>3, <1>4 DEF CacheTypes, FocusIndInv
<1>6. ASSUME NEW e \in Events
      PROVE  cache[e] + Once(e, docs) + Once(e, applying) + Once(e, Rows(ingest))
                <= IF e \in late THEN 2 ELSE 1
  <2>1. /\ cache[e] + Once(e, rebuild.left) + Once(e, applying) + Once(e, Rows(ingest))
              <= IF e \in raced THEN 2 ELSE 1
        /\ raced = {} /\ rebuild.left = {} /\ (e \notin docs => cache[e] = 0)
    BY <1>2 DEF Counting, FocusIndInv
  <2>2. /\ cache[e] \in Nat /\ Once(e, docs) \in {0, 1} /\ Once(e, applying) \in Nat
        /\ Once(e, Rows(ingest)) \in Nat /\ Once(e, rebuild.left) = 0
    BY <2>1 DEF CacheTypes, FocusIndInv, Once
  <2>3. CASE e \in late
    BY <2>1, <2>2, <2>3
  <2>4. CASE e \in docs /\ e \notin late
    <3>1. ~(cache[e] > 0) /\ e \notin applying /\ e \notin Rows(ingest)
      BY <1>2, <2>4, InRows
    <3>2. cache[e] = 0 /\ Once(e, applying) = 0 /\ Once(e, Rows(ingest)) = 0
      BY <2>2, <3>1 DEF Once
    <3> QED BY <2>2, <2>4, <3>2
  <2>5. CASE e \notin docs
    <3>1. Once(e, docs) = 0
      BY <2>5 DEF Once
    <3>2. e \notin late
      BY <1>4, <2>5
    <3> QED BY <2>1, <2>2, <3>1, <3>2
  <2> QED BY <2>3, <2>4, <2>5
<1>7. Counting'
  <2>1. \A e \in Events : (cache[e] + Once(e, rebuild.left) + Once(e, applying) + Once(e, Rows(ingest))
                             <= IF e \in raced THEN 2 ELSE 1)'
    BY <1>1, <1>2, <1>3, <1>6
  <2> QED BY <1>2, <1>3, <2>1 DEF Counting, FocusIndInv
<1>8. FocusComplete'
  BY <1>2, <1>3 DEF FocusComplete
<1> QED
  BY <1>5, <1>7, <1>8 DEF FocusIndInv

LEMMA FocusTruncated ==
    ASSUME FocusIndInv, RebuildTruncated
    PROVE  FocusIndInv'
<1>1. /\ rebuild'.stage = "truncated" /\ rebuild'.left = {}
      /\ rebuild' \in [stage : {"starting", "reading", "truncated"}, left : SUBSET Events]
      /\ ingest' = ingest /\ applying' = applying /\ cache' = cache /\ docs' = docs /\ raced' = raced
      /\ unsure' = unsure
  BY DEF RebuildTruncated, storeVars
<1>2. CacheTypes'
  BY <1>1 DEF CacheTypes, FocusIndInv
<1>3. ASSUME NEW e \in Events
      PROVE  cache[e] + Once(e, {}) + Once(e, applying) + Once(e, Rows(ingest))
                <= IF e \in raced THEN 2 ELSE 1
  <2>1. cache[e] + Once(e, rebuild.left) + Once(e, applying) + Once(e, Rows(ingest))
           <= IF e \in raced THEN 2 ELSE 1
    BY DEF Counting, FocusIndInv
  <2>2. /\ cache[e] \in Nat /\ Once(e, {}) = 0 /\ Once(e, applying) \in Nat
        /\ Once(e, Rows(ingest)) \in Nat /\ Once(e, rebuild.left) \in Nat
    BY DEF CacheTypes, FocusIndInv, Once
  <2> QED BY <2>1, <2>2
<1>4. Counting'
  <2>1. \A e \in Events : (cache[e] + Once(e, rebuild.left) + Once(e, applying) + Once(e, Rows(ingest))
                             <= IF e \in raced THEN 2 ELSE 1)'
    BY <1>1, <1>3
  <2> QED BY <1>1, <2>1 DEF Counting, FocusIndInv
<1>5. FocusComplete'
  BY <1>1 DEF FocusComplete
<1> QED
  BY <1>2, <1>4, <1>5 DEF FocusIndInv

\* Nothing is counted and nothing on its way.
Uncounted ==
    /\ docs \subseteq Events /\ \A i \in Slots : ingest[i].pc = "idle"
    /\ applying = {} /\ raced = {} /\ unsure = {} /\ cache = [e \in Events |-> 0]
    /\ rebuild = [stage |-> "starting", left |-> {}]

LEMMA FocusEmpty == Uncounted => FocusIndInv
<1> SUFFICES ASSUME Uncounted PROVE FocusIndInv
  OBVIOUS
<1>0. /\ docs \subseteq Events /\ \A i \in Slots : ingest[i].pc = "idle"
      /\ applying = {} /\ raced = {} /\ unsure = {} /\ cache = [e \in Events |-> 0]
      /\ rebuild = [stage |-> "starting", left |-> {}]
  BY DEF Uncounted
<1>1. rebuild.stage = "starting" /\ rebuild.left = {}
      /\ rebuild \in [stage : {"starting", "reading", "truncated"}, left : SUBSET Events]
  BY <1>0
<1>2. \A e : Once(e, Rows(ingest)) = 0 /\ Once(e, {}) = 0
  BY <1>0, InRows DEF Once
<1>3. CacheTypes
  BY <1>0, <1>1 DEF CacheTypes
<1>4. Counting
  <2>1. \A e \in Events : cache[e] + Once(e, rebuild.left) + Once(e, applying) + Once(e, Rows(ingest))
                             <= IF e \in raced THEN 2 ELSE 1
    BY <1>0, <1>1, <1>2
  <2>2. \A i, j \in Slots : (ingest[i].pc = "row" /\ ingest[j].pc = "row" /\ ingest[i].event = ingest[j].event)
          => i = j
    BY <1>0
  <2> QED BY <1>0, <1>1, <2>1, <2>2 DEF Counting
<1>5. FocusComplete
  BY <1>1 DEF FocusComplete
<1> QED
  BY <1>3, <1>4, <1>5 DEF FocusIndInv

LEMMA FocusSlotStep ==
    ASSUME FocusIndInv, ArchiveTypes, NEW i \in Slots, IngestStep(i)
    PROVE  FocusIndInv'
<1>1. PICK r \in Requests : Moved(i, r) \/ Wrote(i, r)
  BY SlotSteps
<1>2. GoesOn(i, r) /\ ingest'[i] = r /\ \A j \in Slots : j # i => ingest'[j] = ingest[j]
  BY <1>1 DEF Moved, Wrote, GoesOn
<1>3. CASE /\ ingest[i].pc = "row" /\ applying' = FocusGoroutine(ingest[i].event)
           /\ UNCHANGED <<cache, rebuild, raced, unsure>>
  <2>1. r.pc = "idle" /\ docs' = docs
    BY <1>1, <1>3 DEF Moved, Wrote
  <2> QED BY <1>2, <1>3, <2>1, FocusStarted
<1>4. CASE /\ ingest[i].pc # "row" /\ UNCHANGED cacheVars
           /\ docs' = docs \/ ingest' = [ingest EXCEPT ![i].pc = "row"]
  <2>1. CASE r.pc # "row"
    <3>1. docs' = docs
      BY <1>2, <1>4, <2>1 DEF ArchiveTypes, Requests, GoesOn
    <3>2. \A j \in Slots : ingest'[j] = ingest[j] \/ (ingest[j].pc # "row" /\ ingest'[j].pc # "row")
      BY <1>2, <1>4, <2>1
    <3> QED BY <1>4, <3>1, <3>2, FocusStutter
  <2>2. CASE r.pc = "row"
    <3>1. /\ ingest[i].pc # "idle" /\ r.event = ingest[i].event
          /\ r.event \notin docs /\ docs' = docs \cup {r.event}
      BY <1>1, <2>2 DEF Moved, Wrote
    <3>2. r.event \in Events
      BY <3>1, UsersOfSlots
    <3> QED BY <1>2, <1>4, <2>2, <3>1, <3>2, FocusStored
  <2> QED BY <2>1, <2>2
<1>5. CASE /\ ingest[i].pc = "insert" /\ ingest' = [ingest EXCEPT ![i] = Idle]
           /\ docs' = docs \cup {ingest[i].event} /\ unsure' = unsure \cup {ingest[i].event}
           /\ UNCHANGED <<applying, cache, rebuild, raced>>
  <2>1. r.pc = "idle"
    BY <1>2, <1>5 DEF ArchiveTypes, Idle
  <2> QED BY <1>2, <1>5, <2>1, FocusUnsure
<1> QED
  BY <1>3, <1>4, <1>5, SlotFocus

LEMMA FocusStep ==
    ASSUME FocusIndInv, ArchiveTypes, [Next]_vars
    PROVE  FocusIndInv'
<1>1. ASSUME NEW i \in Slots, NEW e \in Events, Begin(i, e) PROVE FocusIndInv'
  <2>1. UNCHANGED cacheVars /\ UNCHANGED docs
    BY <1>1 DEF Begin, storeVars
  <2>2. \A j \in Slots : ingest'[j] = ingest[j] \/ (ingest[j].pc # "row" /\ ingest'[j].pc # "row")
    <3>1. CASE e \in docs
      BY <1>1, <3>1 DEF Begin
    <3>2. CASE e \notin docs
      <4>1. PICK r \in Requests : GoesOn(i, r) /\ r.pc # "row"
        BY <1>1, <3>2, BeginMoves
      <4>2. ingest[i].pc # "row"
        BY <1>1 DEF Begin
      <4> QED BY <4>1, <4>2 DEF GoesOn
    <3> QED BY <3>1, <3>2
  <2> QED BY <2>1, <2>2, FocusStutter
<1>2. ASSUME NEW e \in Events, applyFocusSummaries(e) PROVE FocusIndInv'
  <2>1. PICK late, new : late = applying' /\ new = rebuild'
    OBVIOUS
  <2>2. /\ e \in applying /\ late = applying \ {e} /\ new = rebuild
        /\ cache' = [cache EXCEPT ![e] = @ + 1] /\ ingest' = ingest /\ docs' = docs /\ raced' = raced
        /\ unsure' = unsure
    BY <1>2, <2>1 DEF applyFocusSummaries, storeVars
  <2> QED BY <2>1, <2>2, FocusAdded
<1>3. ASSUME NEW e \in Events, RebuildNext(e) PROVE FocusIndInv'
  <2>1. PICK late, new : late = applying' /\ new = rebuild'
    OBVIOUS
  <2>2. /\ e \in rebuild.left /\ late = applying /\ new = [rebuild EXCEPT !.left = @ \ {e}]
        /\ cache' = [cache EXCEPT ![e] = @ + 1] /\ ingest' = ingest /\ docs' = docs /\ raced' = raced
        /\ unsure' = unsure
    BY <1>3, <2>1 DEF RebuildNext, storeVars
  <2> QED BY <2>1, <2>2, FocusAdded
<1>4. CASE OpenRebuild
  BY <1>4, FocusOpened
<1>5. CASE RebuildTruncated
  BY <1>5, FocusTruncated
<1>6. CASE Restart
  <2>1. Restarted /\ docs' = docs /\ docs \subseteq Events
    BY <1>6 DEF Restart, Restarted, storeVars, ArchiveTypes
  <2>2. \A i \in Slots : ingest'[i].pc = "idle"
    BY <2>1, IdleSlots
  <2>3. Uncounted'
    BY <1>6, <2>1, <2>2 DEF Restart, Uncounted
  <2> QED BY <2>3, FocusEmpty, PTL
<1>7. CASE UNCHANGED vars
  <2>1. UNCHANGED cacheVars /\ UNCHANGED docs /\ ingest' = ingest
    BY <1>7 DEF vars, storeVars
  <2> QED BY <2>1, FocusStutter
<1>8. ASSUME NEW i \in Slots, IngestStep(i) PROVE FocusIndInv'
  BY <1>8, FocusSlotStep
<1> QED
  BY <1>1, <1>2, <1>3, <1>4, <1>5, <1>6, <1>7, <1>8 DEF Next

LEMMA FocusHolds == Spec => [](ArchiveTypes /\ FocusIndInv)
<1>1. Init => ArchiveTypes /\ FocusIndInv
  <2>1. Init => Uncounted
    BY DEF Init, Uncounted, Idle
  <2> QED BY <2>1, ArchiveTypesInit, FocusEmpty
<1>2. ArchiveTypes /\ FocusIndInv /\ [Next]_vars => ArchiveTypes' /\ FocusIndInv'
  BY NextIsArchiveStep, ArchiveTypesStep, FocusStep
<1> QED
  BY <1>1, <1>2, PTL DEF Spec

\* Deliveries, goroutines, the rebuild and restarts in any order: an upload is
\* in the focus totals at most once, twice when it was being stored while the
\* rebuild began, and a stored one with a live snapshot is there or on its way,
\* unless its insert was committed and answered with an error
\* (applyFocusSummaries and buildFocusCacheFromMongo).
THEOREM FocusTotalsAreRight == Spec => []FocusInv
<1>1. ASSUME FocusIndInv, NEW e \in Events PROVE cache[e] <= IF e \in raced THEN 2 ELSE 1
  <2>1. cache[e] + Once(e, rebuild.left) + Once(e, applying) + Once(e, Rows(ingest))
           <= IF e \in raced THEN 2 ELSE 1
    BY <1>1 DEF Counting, FocusIndInv
  <2>2. /\ cache[e] \in Nat /\ Once(e, rebuild.left) \in Nat /\ Once(e, applying) \in Nat
        /\ Once(e, Rows(ingest)) \in Nat
    BY <1>1 DEF CacheTypes, FocusIndInv, Once
  <2> QED BY <2>1, <2>2
<1>2. FocusIndInv => FocusInv
  BY <1>1 DEF FocusInv, FocusCountedOnce, FocusIndInv
<1> QED
  BY <1>2, FocusHolds, PTL

-----------------------------------------------------------------------------
(* Nothing that is stored gets lost.                                       *)

\* A slot that is going to write has seen the object as it is or as it was
\* under an older etag.  Unless an object was written without a condition, what
\* a slot has archived and what is stored as telemetry is in the object.
Kept ==
    /\ \A i \in Slots : ingest[i].pc \in {"put", "plain"} =>
          LET o == object[UserOf(ingest[i].event)] IN
          ingest[i].seen = o \/ ingest[i].seen.etag < o.etag
    /\ plain \/ \A e \in docs : Sent(e) \subseteq CoveredIn(object[UserOf(e)].sessions)
    /\ \A i \in Slots : ingest[i].pc \in {"insert", "row"} =>
          plain \/ Sent(ingest[i].event) \subseteq CoveredIn(object[UserOf(ingest[i].event)].sessions)

\* A write that carries its condition takes nothing away.
LEMMA WriteKeeps ==
    ASSUME ArchiveTypes, Days, Kept, NEW i \in Slots, NEW r \in Requests, Wrote(i, r), ~plain'
    PROVE  /\ ~plain
           /\ \A u \in Users : CoveredIn(object[u].sessions) \subseteq CoveredIn(object'[u].sessions)
           /\ Sent(ingest[i].event) \subseteq CoveredIn(object'[UserOf(ingest[i].event)].sessions)
<1> DEFINE w == UserOf(ingest[i].event)
<1>1. /\ ingest[i].pc = "put" /\ ~plain /\ object' = Stored(i)
      /\ object[w].etag = ingest[i].seen.etag
  BY DEF Wrote, Matches
<1>2. w \in Users /\ object[w].etag \in Nat
  BY <1>1, UsersOfSlots DEF ArchiveTypes, Objects
<1>3. ingest[i].seen = object[w]
  BY <1>1, <1>2 DEF Kept
<1>4. /\ CoveredIn(object[w].sessions) \subseteq CoveredIn(Merged(i))
      /\ Sent(ingest[i].event) \subseteq CoveredIn(Merged(i))
  BY <1>1, <1>3, WrittenDay
<1>5. object'[w].sessions = Merged(i) /\ \A v \in Users : v # w => object'[v] = object[v]
  BY <1>1, StoredFacts
<1> QED
  BY <1>1, <1>4, <1>5

LEMMA KeptStep ==
    ASSUME ArchiveTypes, Days, Kept, ArchiveStep
    PROVE  Kept'
<1>1. ASSUME NEW e \in Events, Delivered(e) PROVE Kept'
  <2>1. /\ object' = object /\ plain' = plain /\ docs' = docs
        /\ \A j \in Slots : \/ ingest'[j] = ingest[j]
                            \/ ingest'[j].pc = "read"
                            \/ /\ ingest'[j].pc = "insert" /\ ingest'[j].event = e
                               /\ extractFocusSessions(e) = <<>>
    BY <1>1 DEF Delivered, GoesOn
  <2>2. extractFocusSessions(e) = <<>> => \A t : t \notin Sent(e)
    <3>1. \A t : t \notin CoveredIn(<<>>)
      BY InCovered
    <3> QED BY <3>1, InSent
  <2>3. \A j \in Slots : ingest'[j].pc \in {"put", "plain"} =>
           (ingest[j].pc \in {"put", "plain"} /\ ingest'[j] = ingest[j])
    BY <2>1
  <2>4. \A j \in Slots : ingest'[j].pc \in {"insert", "row"} =>
           \/ ingest[j].pc \in {"insert", "row"} /\ ingest'[j] = ingest[j]
           \/ \A t : t \notin Sent(ingest'[j].event)
    BY <2>1, <2>2
  <2> QED BY <2>1, <2>3, <2>4 DEF Kept
<1>2. ASSUME NEW i \in Slots, NEW r \in Requests, Moved(i, r) PROVE Kept'
  <2>1. /\ GoesOn(i, r) /\ object' = object /\ plain' = plain
        /\ docs' = docs \/ (ingest[i].pc = "insert" /\ docs' = docs \cup {ingest[i].event})
        /\ r.pc \in {"put", "plain"} =>
              /\ r.event = ingest[i].event
              /\ \/ r.seen = object[UserOf(r.event)]
                 \/ ingest[i].pc = "put" /\ r.seen = ingest[i].seen
        /\ r.pc \in {"insert", "row"} => r.event = ingest[i].event /\ ingest[i].pc = "insert"
    BY <1>2 DEF Moved
  <2>2. \A j \in Slots : j # i => ingest'[j] = ingest[j]
    BY <2>1 DEF GoesOn
  <2>3. ingest'[i] = r
    BY <2>1 DEF GoesOn
  <2>4. ASSUME NEW j \in Slots, ingest'[j].pc \in {"put", "plain"}
        PROVE  LET o == object[UserOf(ingest'[j].event)] IN
               ingest'[j].seen = o \/ ingest'[j].seen.etag < o.etag
    <3>1. CASE j = i
      BY <2>1, <2>3, <2>4, <3>1 DEF Kept
    <3>2. CASE j # i
      BY <2>2, <2>4, <3>2 DEF Kept
    <3> QED BY <3>1, <3>2
  <2>5. plain \/ \A e \in docs' : Sent(e) \subseteq CoveredIn(object[UserOf(e)].sessions)
    BY <2>1 DEF Kept
  <2>6. ASSUME NEW j \in Slots, ingest'[j].pc \in {"insert", "row"}
        PROVE  plain \/ Sent(ingest'[j].event) \subseteq CoveredIn(object[UserOf(ingest'[j].event)].sessions)
    <3>1. CASE j = i
      BY <2>1, <2>3, <2>6, <3>1 DEF Kept
    <3>2. CASE j # i
      BY <2>2, <2>6, <3>2 DEF Kept
    <3> QED BY <3>1, <3>2
  <2> QED BY <2>1, <2>4, <2>5, <2>6 DEF Kept
<1>3. ASSUME NEW i \in Slots, NEW r \in Requests, Wrote(i, r) PROVE Kept'
  <2> DEFINE w == UserOf(ingest[i].event)
  <2>1. /\ GoesOn(i, r) /\ object' = Stored(i) /\ ingest[i].pc \in {"put", "plain"} /\ docs' = docs
        /\ r.pc \in {"idle", "read"} \/ (r.pc = "insert" /\ r.event = ingest[i].event)
    BY <1>3 DEF Wrote
  <2>2. ingest'[i] = r /\ \A j \in Slots : j # i => ingest'[j] = ingest[j]
    BY <2>1 DEF GoesOn
  <2>3. w \in Users /\ object[w].etag \in Nat
    BY <2>1, UsersOfSlots DEF ArchiveTypes, Objects
  <2>4. object'[w].etag = object[w].etag + 1 /\ \A v \in Users : v # w => object'[v] = object[v]
    BY <2>1, StoredFacts
  <2>5. ASSUME NEW j \in Slots, ingest'[j].pc \in {"put", "plain"}
        PROVE  LET o == object'[UserOf(ingest'[j].event)] IN
               ingest'[j].seen = o \/ ingest'[j].seen.etag < o.etag
    <3>1. j # i /\ ingest'[j] = ingest[j] /\ ingest[j].pc \in {"put", "plain"}
      BY <2>1, <2>2, <2>5
    <3>2. UserOf(ingest[j].event) \in Users /\ ingest[j].seen.etag \in Nat
      BY <3>1, UsersOfSlots, RequestFields DEF ArchiveTypes
    <3>3. \/ ingest[j].seen = object[UserOf(ingest[j].event)]
          \/ ingest[j].seen.etag < object[UserOf(ingest[j].event)].etag
      BY <3>1 DEF Kept
    <3>4. CASE UserOf(ingest[j].event) = w
      <4>1. ingest[j].seen.etag <= object[w].etag
        BY <2>3, <3>2, <3>3, <3>4
      <4>2. ingest[j].seen.etag < object'[w].etag
        BY <2>3, <2>4, <3>2, <4>1
      <4> QED BY <3>1, <3>4, <4>2
    <3>5. CASE UserOf(ingest[j].event) # w
      BY <2>4, <3>1, <3>2, <3>3, <3>5
    <3> QED BY <3>4, <3>5
  <2>6. ASSUME ~plain'
        PROVE  /\ \A e \in docs : Sent(e) \subseteq CoveredIn(object'[UserOf(e)].sessions)
               /\ \A j \in Slots : ingest'[j].pc \in {"insert", "row"} =>
                     Sent(ingest'[j].event) \subseteq CoveredIn(object'[UserOf(ingest'[j].event)].sessions)
    <3>1. /\ ~plain
          /\ \A u \in Users : CoveredIn(object[u].sessions) \subseteq CoveredIn(object'[u].sessions)
          /\ Sent(ingest[i].event) \subseteq CoveredIn(object'[w].sessions)
      BY <1>3, <2>6, WriteKeeps
    <3>2. ASSUME NEW e \in docs PROVE Sent(e) \subseteq CoveredIn(object'[UserOf(e)].sessions)
      <4>1. UserOf(e) \in Users
        BY ActivityConstants DEF ArchiveTypes
      <4>2. Sent(e) \subseteq CoveredIn(object[UserOf(e)].sessions)
        BY <3>1 DEF Kept
      <4> QED BY <3>1, <4>1, <4>2
    <3>3. ASSUME NEW j \in Slots, ingest'[j].pc \in {"insert", "row"}
          PROVE  Sent(ingest'[j].event) \subseteq CoveredIn(object'[UserOf(ingest'[j].event)].sessions)
      <4>1. CASE j = i
        BY <2>1, <2>2, <3>1, <3>3, <4>1
      <4>2. CASE j # i
        <5>1. ingest'[j] = ingest[j] /\ UserOf(ingest[j].event) \in Users
          BY <2>2, <3>3, <4>2, UsersOfSlots
        <5>2. Sent(ingest[j].event) \subseteq CoveredIn(object[UserOf(ingest[j].event)].sessions)
          BY <3>1, <3>3, <5>1 DEF Kept
        <5> QED BY <3>1, <5>1, <5>2
      <4> QED BY <4>1, <4>2
    <3> QED BY <3>2, <3>3
  <2> QED BY <2>1, <2>5, <2>6 DEF Kept
<1>4. CASE Restarted
  BY <1>4, IdleSlots DEF Kept, Restarted
<1>5. CASE Unseen
  BY <1>5 DEF Kept, Unseen
<1> QED
  BY <1>1, <1>2, <1>3, <1>4, <1>5 DEF ArchiveStep

LEMMA KeptHolds == Spec => [](ArchiveTypes /\ Days /\ Kept)
<1>1. Init => Kept
  BY DEF Init, Kept, Idle
<1>2. ArchiveTypes /\ Days /\ Kept /\ [Next]_vars => Kept'
  BY NextIsArchiveStep, KeptStep
<1> QED
  BY <1>1, <1>2, DaysHold, PTL DEF Spec

\* Two services that upload at once, repeated deliveries, an SDK that repeats a
\* PUT, failing calls and restarts lose nothing of what is stored, as long as
\* every write of the object carried its condition (Archive).
THEOREM StoredTimeIsArchived == Spec => []ArchiveInv
<1>1. ArchiveTypes /\ FocusIndInv => TypeOK
  <2> SUFFICES ASSUME ArchiveTypes, FocusIndInv PROVE TypeOK
    OBVIOUS
  <2>1. \A u \in Users : object[u].etag \in Nat /\ object[u].sessions \in Seq(Session)
    BY DEF ArchiveTypes, Objects
  <2>2. \A i \in Slots : /\ ingest[i].pc \in {"idle", "read", "put", "plain", "insert", "row"}
                         /\ ingest[i].event \in Events \cup {"none"}
                         /\ ingest[i].tries \in 0 .. maxWriteAttempts - 1
    BY RequestFields DEF ArchiveTypes, Stages
  <2>3. rebuild.stage \in {"starting", "reading", "truncated"}
    BY DEF FocusIndInv, CacheTypes
  <2> QED BY <2>1, <2>2, <2>3 DEF ArchiveTypes, FocusIndInv, CacheTypes, TypeOK
<1>2. Kept => SessionsKept
  BY DEF Kept, SessionsKept
<1> QED
  BY <1>1, <1>2, FocusHolds, KeptHolds, PTL DEF ArchiveInv

-----------------------------------------------------------------------------
(* The sums of the reports.                                                *)

LEMMA FiniteImage ==
    ASSUME NEW S, IsFiniteSet(S), NEW f
    PROVE  IsFiniteSet({f[x] : x \in S})
<1> DEFINE T == {f[x] : x \in S}
           g == [x \in S |-> f[x]]
<1>1. g \in [S -> T] /\ \A t \in T : \E x \in S : g[x] = t
  OBVIOUS
<1>2. g \in Surjection(S, T)
  BY <1>1 DEF Surjection
<1> HIDE DEF g, T
<1>3. IsFiniteSet(T)
  BY <1>2, FS_Surjection
<1> QED
  BY <1>3 DEF T

LEMMA ChosenSum ==
    ASSUME NEW S, IsFiniteSet(S), NEW v, NEW h, Sums(h, S, v)
    PROVE  h[S] = Total(v, S)
<1>1. Sums((CHOOSE g : Sums(g, S, v)), S, v)
  OBVIOUS
<1>2. S \in SUBSET S
  OBVIOUS
<1> QED
  BY <1>1, <1>2, SumsAgree DEF Total

LEMMA TotalSame ==
    ASSUME NEW S, IsFiniteSet(S), NEW v, NEW w, \A x \in S : v[x] = w[x]
    PROVE  Total(v, S) = Total(w, S)
<1>1. PICK g : Sums(g, S, v)
  BY SumsExist
<1>2. \A s \in SUBSET S : s # {} => v[One(s)] = w[One(s)]
  BY OneIn
<1>3. Sums(g, S, w)
  BY <1>1, <1>2 DEF Sums
<1> QED
  BY <1>1, <1>3, ChosenSum

\* Terms of at most b each.
LEMMA TotalBound ==
    ASSUME NEW S, IsFiniteSet(S), NEW v, NEW b \in Nat, \A x \in S : v[x] \in Nat /\ v[x] <= b
    PROVE  Total(v, S) <= Cardinality(S) * b
<1> DEFINE D == {U \in SUBSET S : ~(Total(v, U) <= Cardinality(U) * b)}
<1> SUFFICES ASSUME D # {} PROVE FALSE
  OBVIOUS
<1>1. PICK U \in D : \A V \in SUBSET U : V # U => V \notin D
  <2>1. D \subseteq SUBSET S
    OBVIOUS
  <2> HIDE DEF D
  <2> QED BY <2>1, Smallest
<1>2. U \subseteq S /\ ~(Total(v, U) <= Cardinality(U) * b) /\ IsFiniteSet(U)
  BY <1>1, FS_Subset
<1>3. CASE U = {}
  <2>1. Total(v, U) = 0 /\ Cardinality(U) = 0
    BY <1>3, TotalStep, FS_EmptySet
  <2>2. 0 * b = 0
    OBVIOUS
  <2> QED BY <1>2, <2>1, <2>2
<1>4. CASE U # {}
  <2>1. PICK x \in U : TRUE
    BY <1>4
  <2>2. /\ U \ {x} \in SUBSET U /\ U \ {x} # U /\ U \ {x} \in SUBSET S /\ IsFiniteSet(U \ {x})
        /\ Cardinality(U \ {x}) = Cardinality(U) - 1 /\ Cardinality(U) \in Nat
    BY <1>2, <2>1, FS_RemoveElement, FS_CardinalityType
  <2>3. Total(v, U \ {x}) <= Cardinality(U \ {x}) * b
    BY <1>1, <2>2
  <2>4. Total(v, U) = v[x] + Total(v, U \ {x}) /\ v[x] \in Nat /\ v[x] <= b
    BY <1>2, <2>1, TotalRemove
  <2>5. Total(v, U \ {x}) \in Nat
    BY <1>2, <2>2, TotalNat
  <2>6. \A n \in Nat : n * b = (n - 1) * b + b /\ (n - 1) * b \in Int
    OBVIOUS
  <2>7. Cardinality(U) * b = Cardinality(U \ {x}) * b + b /\ Cardinality(U \ {x}) * b \in Int
    BY <2>2, <2>6
  <2> QED BY <1>2, <2>3, <2>4, <2>5, <2>7
<1> QED
  BY <1>3, <1>4

\* The sums in the definitions.
LEMMA AppTotal ==
    ASSUME NEW apps, NEW S, S = DOMAIN apps, IsFiniteSet(S), NEW v, \A a \in S : v[a] = apps[a].seconds
    PROVE  AppSeconds(apps) = Total(v, S)
<1> DEFINE Iter(h) == h = [s \in SUBSET S |-> IF s = {} THEN 0 ELSE apps[One(s)].seconds + h[s \ {One(s)}]]
<1>1. \A s \in SUBSET S : s # {} => v[One(s)] = apps[One(s)].seconds
  BY OneIn
<1>2. \A h : Iter(h) <=> Sums(h, S, v)
  BY <1>1 DEF Sums
<1>3. AppSeconds(apps) = (CHOOSE h : Iter(h))[S]
  BY DEF AppSeconds, MapThenSumSet, MapThenFoldSet, One
<1> HIDE DEF Iter
<1>4. Sums((CHOOSE h : Iter(h)), S, v)
  BY <1>2, SumsExist
<1> QED
  BY <1>3, <1>4, ChosenSum

LEMMA RowTotal ==
    ASSUME NEW rows, NEW S, S = DOMAIN rows, IsFiniteSet(S), NEW v, \A u \in S : v[u] = AppSeconds(rows[u])
    PROVE  RowsSeconds(rows) = Total(v, S)
<1> DEFINE Iter(h) == h = [s \in SUBSET S |-> IF s = {} THEN 0 ELSE AppSeconds(rows[One(s)]) + h[s \ {One(s)}]]
<1>1. \A s \in SUBSET S : s # {} => v[One(s)] = AppSeconds(rows[One(s)])
  BY OneIn
<1>2. \A h : Iter(h) <=> Sums(h, S, v)
  BY <1>1 DEF Sums
<1>3. RowsSeconds(rows) = (CHOOSE h : Iter(h))[S]
  BY DEF RowsSeconds, MapThenSumSet, MapThenFoldSet, One
<1> HIDE DEF Iter
<1>4. Sums((CHOOSE h : Iter(h)), S, v)
  BY <1>2, SumsExist
<1> QED
  BY <1>3, <1>4, ChosenSum

LEMMA OnlineTotal ==
    ASSUME NEW points, NEW w, w = presenceWindows(points), NEW S, S = DOMAIN w, IsFiniteSet(S),
           NEW v, \A i \in S : v[i] = w[i].end - w[i].start
    PROVE  presenceOnlineSeconds(points) = Total(v, S)
<1> DEFINE Iter(h) == h = [s \in SUBSET S |->
                              IF s = {} THEN 0 ELSE (w[One(s)].end - w[One(s)].start) + h[s \ {One(s)}]]
<1>1. \A s \in SUBSET S : s # {} => v[One(s)] = w[One(s)].end - w[One(s)].start
  BY OneIn
<1>2. \A h : Iter(h) <=> Sums(h, S, v)
  BY <1>1 DEF Sums
<1>3. presenceOnlineSeconds(points) = (CHOOSE h : Iter(h))[S]
  BY DEF presenceOnlineSeconds, MapThenSumSet, MapThenFoldSet, One
<1> HIDE DEF Iter
<1>4. Sums((CHOOSE h : Iter(h)), S, v)
  BY <1>2, SumsExist
<1> QED
  BY <1>3, <1>4, ChosenSum

\* What is counted of app a.
Shown(q, a) == {i \in DOMAIN q : q[i].app = a /\ Visible(q[i]) /\ Seconds(q[i]) > 0}

LEMMA SummaryTotal ==
    ASSUME NEW q \in Seq(Session), NEW s, s = summarizeActivitySessions(q),
           NEW v, \A i \in DOMAIN q : v[i] = Seconds(q[i])
    PROVE  /\ DOMAIN s = {a \in Apps : Shown(q, a) # {}} /\ IsFiniteSet(DOMAIN s)
           /\ \A a \in DOMAIN s : IsFiniteSet(Shown(q, a)) /\ s[a].seconds = Total(v, Shown(q, a))
<1>1. DOMAIN q = 1..Len(q) /\ IsFiniteSet(DOMAIN q)
  BY FS_Interval
<1>2. DOMAIN s = {a \in Apps : Shown(q, a) # {}}
  BY DEF summarizeActivitySessions, Shown
<1>3. IsFiniteSet(DOMAIN s)
  <2> DEFINE f == [i \in DOMAIN q |-> q[i].app]
             T == {f[i] : i \in DOMAIN q}
  <2>1. DOMAIN s \subseteq T
    BY <1>2 DEF Shown
  <2>2. IsFiniteSet(T)
    <3> HIDE DEF f
    <3> QED BY <1>1, FiniteImage
  <2> HIDE DEF T
  <2> QED BY <2>1, <2>2, FS_Subset
<1>4. ASSUME NEW a \in DOMAIN s
      PROVE  IsFiniteSet(Shown(q, a)) /\ s[a].seconds = Total(v, Shown(q, a))
  <2> DEFINE S == Shown(q, a)
             Iter(h) == h = [t \in SUBSET S |-> IF t = {} THEN 0 ELSE Seconds(q[One(t)]) + h[t \ {One(t)}]]
  <2>1. S \subseteq DOMAIN q
    BY DEF Shown
  <2>2. IsFiniteSet(S)
    BY <1>1, <2>1, FS_Subset
  <2>3. \A t \in SUBSET S : t # {} => v[One(t)] = Seconds(q[One(t)])
    BY <2>1, OneIn
  <2>4. \A h : Iter(h) <=> Sums(h, S, v)
    BY <2>3 DEF Sums
  <2>5. s[a].seconds = (CHOOSE h : Iter(h))[S]
    BY <1>2 DEF summarizeActivitySessions, Shown, MapThenSumSet, MapThenFoldSet, One
  <2> HIDE DEF Iter, S
  <2>6. Sums((CHOOSE h : Iter(h)), S, v)
    BY <2>2, <2>4, SumsExist
  <2>7. s[a].seconds = Total(v, S)
    BY <2>2, <2>5, <2>6, ChosenSum
  <2> QED BY <2>2, <2>7 DEF S
<1> QED
  BY <1>2, <1>3, <1>4

LEMMA EndsInOrder ==
    ASSUME NEW q \in Seq(Session), Orderly(q)
    PROVE  \A k, l \in DOMAIN q : k < l => q[k].end <= q[l].start
<1> SUFFICES ASSUME NEW k \in DOMAIN q, NEW m \in DOMAIN q, k < m, ~(q[k].end <= q[m].start)
             PROVE  FALSE
  OBVIOUS
<1> DEFINE T == {l \in DOMAIN q : k < l /\ ~(q[k].end <= q[l].start)}
<1>1. DOMAIN q = 1..Len(q) /\ Len(q) \in Nat
  OBVIOUS
<1>2. PICK l \in T : \A x \in T : l <= x
  <2>1. T \subseteq Nat /\ T # {}
    BY <1>1
  <2> HIDE DEF T
  <2> QED BY <2>1, LeastNat
<1>3. /\ l \in DOMAIN q /\ k < l /\ ~(q[k].end <= q[l].start) /\ l > 1 /\ l - 1 \in DOMAIN q
      /\ l - 1 < l /\ k \in Int /\ l \in Int
  BY <1>1, <1>2
<1>4. /\ q[l - 1].end <= q[l].start /\ q[l - 1].start < q[l - 1].end
      /\ q[k].end \in Int /\ q[l].start \in Int /\ q[l - 1].start \in Int /\ q[l - 1].end \in Int
  <2>1. q[k] \in Session /\ q[l] \in Session /\ q[l - 1] \in Session
    BY <1>3
  <2> QED BY <1>3, <2>1, SessionFields DEF Orderly, Within
<1>5. q[k].end <= q[l - 1].start \/ l - 1 = k
  <2>1. l - 1 \notin T
    BY <1>2, <1>3
  <2> QED BY <1>3, <2>1
<1> QED
  BY <1>3, <1>4, <1>5

LEMMA TicksSize ==
    ASSUME NEW s \in Session, s.start < s.end
    PROVE  IsFiniteSet(Ticks(s)) /\ Cardinality(Ticks(s)) = Seconds(s) /\ Seconds(s) \in Nat /\ Seconds(s) > 0
<1>1. s.start \in Int /\ s.end \in Int
  BY SessionFields
<1>2. /\ IsFiniteSet(s.start..s.end - 1)
      /\ Cardinality(s.start..s.end - 1) = (s.end - 1) - s.start + 1
  <2>1. s.end - 1 \in Int /\ ~(s.start > s.end - 1)
    BY <1>1
  <2> QED BY <1>1, <2>1, FS_Interval
<1> QED
  BY <1>1, <1>2 DEF Ticks, Seconds

\* The summary of a possible day counts the ticks that it covers.
LEMMA DaySize ==
    ASSUME NEW q \in Seq(Session), Orderly(q)
    PROVE  /\ IsFiniteSet(CoveredIn(q))
           /\ AppSeconds(summarizeActivitySessions(q)) = Cardinality(CoveredIn(q))
<1> DEFINE s == summarizeActivitySessions(q)
           A == DOMAIN s
           v == [i \in DOMAIN q |-> Seconds(q[i])]
           F == [i \in DOMAIN q |-> Ticks(q[i])]
           w == [a \in A |-> s[a].seconds]
           G == [a \in A |-> Over(F, Shown(q, a))]
<1>1. ASSUME NEW i \in DOMAIN q
      PROVE  /\ q[i] \in Session /\ q[i].app \in Apps /\ Visible(q[i]) /\ q[i].start < q[i].end
             /\ IsFiniteSet(F[i]) /\ v[i] = Cardinality(F[i]) /\ Seconds(q[i]) > 0
             /\ \A t : t \in F[i] <=> t \in Int /\ q[i].start <= t /\ t < q[i].end
  <2>1. q[i] \in Session /\ Visible(q[i]) /\ q[i].start < q[i].end
    BY DEF Orderly, Within
  <2> QED BY <2>1, TicksSize, SessionFields, InTicks
<1>2. ASSUME NEW i \in DOMAIN q, NEW j \in DOMAIN q, i # j
      PROVE  F[i] \cap F[j] = {}
  <2>1. i \in Int /\ j \in Int
    OBVIOUS
  <2>2. q[i].end <= q[j].start \/ q[j].end <= q[i].start
    BY <1>2, <2>1, EndsInOrder
  <2>3. /\ q[i].start \in Int /\ q[i].end \in Int /\ q[j].start \in Int /\ q[j].end \in Int
    BY <1>1, SessionFields
  <2> HIDE DEF F
  <2> QED BY <1>1, <2>2, <2>3
<1>3. /\ A = {a \in Apps : Shown(q, a) # {}} /\ IsFiniteSet(A)
      /\ \A a \in A : IsFiniteSet(Shown(q, a)) /\ s[a].seconds = Total(v, Shown(q, a))
  <2>1. s = summarizeActivitySessions(q) /\ \A i \in DOMAIN q : v[i] = Seconds(q[i])
    OBVIOUS
  <2> HIDE DEF s, v
  <2> QED BY <2>1, SummaryTotal
<1>4. \A a, i : i \in Shown(q, a) <=> i \in DOMAIN q /\ q[i].app = a
  BY <1>1 DEF Shown
<1> HIDE DEF s, v, F
<1>5. ASSUME NEW a \in A
      PROVE  /\ IsFiniteSet(G[a]) /\ w[a] = Cardinality(G[a])
             /\ \A t : t \in G[a] <=> \E i \in DOMAIN q : q[i].app = a /\ t \in F[i]
  <2> DEFINE S == Shown(q, a)
  <2>1. /\ \A i \in S : IsFiniteSet(F[i]) /\ v[i] = Cardinality(F[i])
        /\ \A i, j \in S : i # j => F[i] \cap F[j] = {}
        /\ IsFiniteSet(S) /\ w[a] = Total(v, S) /\ G[a] = Over(F, S)
    BY <1>1, <1>2, <1>3, <1>4
  <2>2. \A t : t \in Over(F, S) <=> \E i \in S : t \in F[i]
    BY InOver
  <2>3. \A i : i \in S <=> i \in DOMAIN q /\ q[i].app = a
    BY <1>4
  <2> HIDE DEF S, G, w
  <2>4. IsFiniteSet(Over(F, S)) /\ Total(v, S) = Cardinality(Over(F, S))
    BY <2>1, TotalIsCardinality
  <2> QED BY <2>1, <2>2, <2>3, <2>4
<1>6. ASSUME NEW a \in A, NEW b \in A, a # b
      PROVE  G[a] \cap G[b] = {}
  <2>1. ASSUME NEW t, t \in G[a], t \in G[b] PROVE FALSE
    <3>1. PICK i, j \in DOMAIN q : q[i].app = a /\ t \in F[i] /\ q[j].app = b /\ t \in F[j]
      BY <1>5, <2>1
    <3> QED BY <1>2, <1>6, <3>1
  <2> QED BY <2>1
<1>7. \A a \in A : w[a] = s[a].seconds
  OBVIOUS
<1>8. CoveredIn(q) = Over(G, A)
  <2>1. \A t : t \in Over(G, A) <=> \E a \in A : t \in G[a]
    <3> HIDE DEF G, A
    <3> QED BY InOver
  <2>2. ASSUME NEW t PROVE t \in Over(G, A) <=> \E i \in DOMAIN q : t \in F[i]
    <3>1. \A a \in A : t \in G[a] <=> \E i \in DOMAIN q : q[i].app = a /\ t \in F[i]
      BY <1>5
    <3>2. \A i \in DOMAIN q : q[i].app \in A
      BY <1>1, <1>3, <1>4
    <3> HIDE DEF G, A
    <3> QED BY <2>1, <3>1, <3>2
  <2>3. ASSUME NEW t PROVE t \in CoveredIn(q) <=> \E i \in DOMAIN q : t \in F[i]
    BY InCovered DEF F
  <2> HIDE DEF G, A
  <2> QED BY <2>2, <2>3
<1> HIDE DEF A, w, G
<1>9. IsFiniteSet(Over(G, A)) /\ Total(w, A) = Cardinality(Over(G, A))
  <2>1. \A a \in A : IsFiniteSet(G[a]) /\ w[a] = Cardinality(G[a])
    BY <1>5
  <2>2. \A a, b \in A : a # b => G[a] \cap G[b] = {}
    BY <1>6
  <2> QED BY <1>3, <2>1, <2>2, TotalIsCardinality
<1>10. AppSeconds(s) = Total(w, A)
  BY <1>3, <1>7, AppTotal DEF A
<1> QED
  BY <1>8, <1>9, <1>10 DEF s

LEMMA SummaryIsNat ==
    ASSUME NEW q \in Seq(Session)
    PROVE  AppSeconds(summarizeActivitySessions(q)) \in Nat
<1> DEFINE s == summarizeActivitySessions(q)
           v == [i \in DOMAIN q |-> Seconds(q[i])]
           w == [a \in DOMAIN s |-> s[a].seconds]
<1>1. /\ IsFiniteSet(DOMAIN s)
      /\ \A a \in DOMAIN s : IsFiniteSet(Shown(q, a)) /\ s[a].seconds = Total(v, Shown(q, a))
  <2>1. s = summarizeActivitySessions(q) /\ \A i \in DOMAIN q : v[i] = Seconds(q[i])
    OBVIOUS
  <2> HIDE DEF s, v
  <2> QED BY <2>1, SummaryTotal
<1>2. ASSUME NEW a, NEW i \in Shown(q, a) PROVE v[i] \in Nat
  <2>1. i \in DOMAIN q /\ q[i] \in Session /\ Seconds(q[i]) > 0
    BY DEF Shown
  <2>2. Seconds(q[i]) \in Int
    BY <2>1, SessionFields DEF Seconds
  <2> QED BY <2>1, <2>2
<1> HIDE DEF s, v
<1>3. \A a \in DOMAIN s : w[a] = s[a].seconds /\ w[a] \in Nat
  BY <1>1, <1>2, TotalNat
<1> HIDE DEF w
<1>4. AppSeconds(s) = Total(w, DOMAIN s)
  BY <1>1, <1>3, AppTotal
<1> QED
  BY <1>1, <1>3, <1>4, TotalNat DEF s

\* Apps that sum up a possible day, and no more than the day d holds, unless
\* days may have been overwritten.
Backed(apps, d, free) ==
    \E q \in Seq(Session) :
        /\ Orderly(q) /\ apps = summarizeActivitySessions(q)
        /\ free \/ CoveredIn(q) \subseteq CoveredIn(d)

Reported ==
    /\ DOMAIN row = Users
    /\ \A u \in Users : Backed(row[u], object[u].sessions, plain)
    /\ \A i \in Slots : ingest[i].pc \in {"insert", "row"} =>
          Backed(ingest[i].result, object[UserOf(ingest[i].event)].sessions, plain)

LEMMA NothingBacked == \A d, free : Backed(NoApps, d, free)
<1>1. <<>> \in Seq(Session) /\ Orderly(<<>>)
  BY DEF Orderly
<1>2. \A t : t \notin CoveredIn(<<>>)
  BY InCovered
<1>3. \A d : CoveredIn(<<>>) \subseteq CoveredIn(d)
  BY <1>2
<1> QED
  BY <1>1, <1>3, NoAppsAreNone DEF Backed

LEMMA BackedGrows ==
    ASSUME NEW x, NEW d, NEW c, NEW free, NEW more, Backed(x, d, free),
           free => more, more \/ CoveredIn(d) \subseteq CoveredIn(c)
    PROVE  Backed(x, c, more)
BY DEF Backed

LEMMA ReportedStep ==
    ASSUME ArchiveTypes, Days, Kept, Reported, ArchiveStep
    PROVE  Reported'
<1>1. ASSUME NEW e \in Events, Delivered(e) PROVE Reported'
  <2>1. /\ object' = object /\ plain' = plain /\ row' = row
        /\ \A j \in Slots : \/ ingest'[j] = ingest[j]
                            \/ ingest'[j].pc = "read"
                            \/ ingest'[j].result = NoApps
    BY <1>1 DEF Delivered, GoesOn
  <2> QED BY <2>1, NothingBacked DEF Reported
<1>2. ASSUME NEW i \in Slots, NEW r \in Requests, Moved(i, r) PROVE Reported'
  <2> DEFINE w == UserOf(ingest[i].event)
  <2>1. /\ GoesOn(i, r) /\ object' = object /\ plain' = plain
        /\ \/ row' = row
           \/ ingest[i].pc = "row" /\ row' = [row EXCEPT ![w] = ingest[i].result]
        /\ r.pc \in {"insert", "row"} => /\ r.event = ingest[i].event /\ ingest[i].pc = "insert"
                                         /\ r.result = ingest[i].result
    BY <1>2 DEF Moved
  <2>2. DOMAIN row' = Users /\ \A u \in Users : Backed(row'[u], object[u].sessions, plain)
    <3>1. CASE row' = row
      BY <3>1 DEF Reported
    <3>2. CASE ingest[i].pc = "row" /\ row' = [row EXCEPT ![w] = ingest[i].result]
      <4>1. w \in Users /\ Backed(ingest[i].result, object[w].sessions, plain)
        BY <3>2, UsersOfSlots DEF Reported
      <4>2. DOMAIN row' = Users /\ row'[w] = ingest[i].result /\ \A u \in Users : u # w => row'[u] = row[u]
        BY <3>2, <4>1 DEF Reported
      <4> QED BY <4>1, <4>2 DEF Reported
    <3> QED BY <2>1, <3>1, <3>2
  <2>3. ASSUME NEW j \in Slots, ingest'[j].pc \in {"insert", "row"}
        PROVE  Backed(ingest'[j].result, object[UserOf(ingest'[j].event)].sessions, plain)
    <3>1. CASE j = i
      BY <2>1, <2>3, <3>1 DEF GoesOn, Reported
    <3>2. CASE j # i
      BY <2>1, <2>3, <3>2 DEF GoesOn, Reported
    <3> QED BY <3>1, <3>2
  <2> QED BY <2>1, <2>2, <2>3 DEF Reported
<1>3. ASSUME NEW i \in Slots, NEW r \in Requests, Wrote(i, r) PROVE Reported'
  <2> DEFINE w == UserOf(ingest[i].event)
  <2>1. /\ GoesOn(i, r) /\ object' = Stored(i) /\ ingest[i].pc \in {"put", "plain"} /\ row' = row
        /\ plain => plain'
        /\ \/ r.pc \in {"idle", "read"}
           \/ /\ r.pc = "insert" /\ r.event = ingest[i].event
              /\ r.result = summarizeActivitySessions(Merged(i))
    BY <1>3 DEF Wrote
  <2>2. \A u \in Users : plain' \/ CoveredIn(object[u].sessions) \subseteq CoveredIn(object'[u].sessions)
    BY <1>3, WriteKeeps
  <2>3. w \in Users /\ object'[w].sessions = Merged(i)
    BY <2>1, UsersOfSlots, StoredFacts
  <2>4. Backed(summarizeActivitySessions(Merged(i)), object'[w].sessions, plain')
    <3>1. Merged(i) \in Seq(Session) /\ Orderly(Merged(i))
      BY <2>1, WrittenDay DEF Honest
    <3> QED BY <2>3, <3>1 DEF Backed
  <2>5. ASSUME NEW u \in Users PROVE Backed(row[u], object'[u].sessions, plain')
    <3>1. Backed(row[u], object[u].sessions, plain)
      BY DEF Reported
    <3> QED BY <2>1, <2>2, <3>1, BackedGrows
  <2>6. ASSUME NEW j \in Slots, ingest'[j].pc \in {"insert", "row"}
        PROVE  Backed(ingest'[j].result, object'[UserOf(ingest'[j].event)].sessions, plain')
    <3>1. CASE j = i
      BY <2>1, <2>4, <2>6, <3>1 DEF GoesOn
    <3>2. CASE j # i
      <4>1. ingest'[j] = ingest[j] /\ UserOf(ingest[j].event) \in Users
        BY <2>1, <2>6, <3>2, UsersOfSlots DEF GoesOn
      <4>2. Backed(ingest[j].result, object[UserOf(ingest[j].event)].sessions, plain)
        BY <2>6, <4>1 DEF Reported
      <4>3. Backed(ingest[j].result, object'[UserOf(ingest[j].event)].sessions, plain')
        BY <2>1, <2>2, <4>1, <4>2, BackedGrows
      <4> QED BY <4>1, <4>3
    <3> QED BY <3>1, <3>2
  <2> QED BY <2>1, <2>5, <2>6 DEF Reported
<1>4. CASE Restarted
  BY <1>4, IdleSlots DEF Reported, Restarted
<1>5. CASE Unseen
  BY <1>5 DEF Reported, Unseen
<1> QED
  BY <1>1, <1>2, <1>3, <1>4, <1>5 DEF ArchiveStep

LEMMA ReportedHolds == Spec => [](ArchiveTypes /\ Days /\ Reported)
<1>1. Init => Reported
  BY NothingBacked DEF Init, Reported, Idle
<1>2. ArchiveTypes /\ Days /\ Kept /\ Reported /\ [Next]_vars => Reported'
  BY NextIsArchiveStep, ReportedStep
<1> QED
  BY <1>1, <1>2, KeptHolds, PTL DEF Spec

LEMMA DayFits ==
    ASSUME NEW q \in Seq(Session), Orderly(q)
    PROVE  /\ AppSeconds(summarizeActivitySessions(q)) \in Nat
           /\ AppSeconds(summarizeActivitySessions(q)) <= DayLength
<1>1. ASSUME NEW t, t \in CoveredIn(q) PROVE t \in 0..DayLength - 1
  <2>1. PICK k \in DOMAIN q : t \in Ticks(q[k])
    BY <1>1, InCovered
  <2>2. q[k] \in Session /\ Within(q[k])
    BY DEF Orderly
  <2>3. q[k].start \in Int /\ q[k].end \in Int /\ t \in Int /\ q[k].start <= t /\ t < q[k].end
    BY <2>1, <2>2, SessionFields, InTicks
  <2> QED BY <2>2, <2>3, ActivityConstants DEF Within
<1>2. /\ IsFiniteSet(0..DayLength - 1) /\ Cardinality(0..DayLength - 1) = DayLength
  <2>1. DayLength \in Nat /\ DayLength - 1 \in Int /\ 0 \in Int
    BY ActivityConstants
  <2>2. /\ IsFiniteSet(0..DayLength - 1)
        /\ Cardinality(0..DayLength - 1) = IF 0 > DayLength - 1 THEN 0 ELSE DayLength - 1 - 0 + 1
    BY <2>1, FS_Interval
  <2> QED BY <2>1, <2>2
<1>3. Cardinality(CoveredIn(q)) <= DayLength
  <2>1. CoveredIn(q) \in SUBSET (0..DayLength - 1)
    BY <1>1
  <2> QED BY <1>2, <2>1, FS_Subset
<1> QED
  BY <1>3, DaySize, SummaryIsNat

LEMMA RowsAreWithin ==
    ASSUME ArchiveTypes, Days, Reported
    PROVE  RowsWithinArchive
<1>1. ASSUME NEW u \in Users
      PROVE  /\ AppSeconds(row[u]) \in Nat /\ AppSeconds(row[u]) <= DayLength
             /\ plain \/ AppSeconds(row[u]) <= AppSeconds(summarizeActivitySessions(object[u].sessions))
  <2>1. PICK q \in Seq(Session) :
           /\ Orderly(q) /\ row[u] = summarizeActivitySessions(q)
           /\ plain \/ CoveredIn(q) \subseteq CoveredIn(object[u].sessions)
    BY DEF Reported, Backed
  <2>2. object[u].sessions \in Seq(Session) /\ Orderly(object[u].sessions)
    BY DEF Days, Honest
  <2>3. CoveredIn(q) \subseteq CoveredIn(object[u].sessions) =>
           Cardinality(CoveredIn(q)) <= Cardinality(CoveredIn(object[u].sessions))
    BY <2>2, DaySize, FS_Subset
  <2>4. /\ AppSeconds(row[u]) = Cardinality(CoveredIn(q))
        /\ AppSeconds(summarizeActivitySessions(object[u].sessions)) = Cardinality(CoveredIn(object[u].sessions))
    BY <2>1, <2>2, DaySize
  <2> QED BY <2>1, <2>3, <2>4, DayFits
<1>2. weeklyAppSeconds <= Cardinality(Users) * DayLength
  <2> DEFINE v == [u \in Users |-> AppSeconds(row[u])]
  <2>1. \A u \in Users : v[u] = AppSeconds(row[u]) /\ v[u] \in Nat /\ v[u] <= DayLength
    BY <1>1
  <2>2. IsFiniteSet(Users) /\ DOMAIN row = Users /\ DayLength \in Nat
    BY ActivityConstants DEF Reported
  <2> HIDE DEF v
  <2>3. RowsSeconds(row) = Total(v, Users)
    BY <2>1, <2>2, RowTotal
  <2>4. Total(v, Users) <= Cardinality(Users) * DayLength
    BY <2>1, <2>2, TotalBound
  <2> QED BY <2>3, <2>4 DEF weeklyAppSeconds
<1> QED
  BY <1>1, <1>2 DEF RowsWithinArchive

\* The time the device was online.
LEMMA PresenceFacts ==
    ASSUME NEW P, P \subseteq Nat, IsFiniteSet(P), NEW w, w = presenceWindows(P)
    PROVE  \E n \in Int : /\ DOMAIN w = 1..n
                          /\ \A i \in 1..n : /\ w[i].start \in Int /\ w[i].end \in Int
                                             /\ w[i].start <= w[i].end
<1> DEFINE R == {x \in P \X P : x[1] < x[2]}
           n == Cardinality(P)
           at(k) == CHOOSE x \in P : Cardinality({y \in P : y < x}) = k - 1
           p == [k \in 1..n |-> at(k)]
<1>1. w = [i \in 1 .. Len(p) - 1 |->
             [start |-> p[i], end |-> Smaller(p[i + 1], p[i] + OnlineCap)]]
  BY DEF presenceWindows, InOrder
<1>2. \A x, y \in P : <<x, y>> \in R <=> x < y
  OBVIOUS
<1> HIDE DEF R
<1>3. StrictOrder(P, R) /\ n \in Nat
  BY <1>2, FS_CardinalityType DEF StrictOrder
<1> HIDE DEF n
<1>4. ASSUME NEW k \in 1..n
      PROVE  at(k) \in P /\ Rank(P, R, at(k)) = k - 1
  <2>1. \A x \in P : {y \in P : y < x} = Below(P, R, x)
    BY <1>2 DEF Below
  <2>2. PICK x \in P : Rank(P, R, x) = k - 1
    <3>1. k - 1 \in 0..n - 1
      BY <1>3
    <3> QED BY <1>3, <3>1, RankTaken DEF n
  <2>3. Cardinality({y \in P : y < x}) = k - 1
    BY <2>1, <2>2 DEF Rank
  <2>4. at(k) \in P /\ Cardinality({y \in P : y < at(k)}) = k - 1
    BY <2>3, Zenon
  <2> HIDE DEF at
  <2> QED BY <2>1, <2>4 DEF Rank
<1> HIDE DEF at
<1>5. p \in [1..n -> P] /\ DOMAIN p = 1..n /\ \A k \in 1..n : Rank(P, R, p[k]) = k - 1
  BY <1>4
<1> HIDE DEF p
<1>6. Len(p) = n
  BY <1>3, <1>5
<1>7. \A k, l \in 1..n : k < l => p[k] < p[l]
  <2>1. \A k, l \in 1..n : k < l => <<p[k], p[l]>> \in R
    <3>1. p \in [1..Cardinality(P) -> P] /\ \A k \in DOMAIN p : Rank(P, R, p[k]) = k - 1
      BY <1>5 DEF n
    <3>2. \A k, l \in DOMAIN p : k < l => <<p[k], p[l]>> \in R
      BY <1>3, <3>1, RankedInOrder
    <3> QED BY <1>5, <3>2
  <2> QED BY <1>2, <1>5, <2>1
<1>8. ASSUME NEW i \in 1..n - 1
      PROVE  /\ w[i].start \in Int /\ w[i].end \in Int /\ w[i].start <= w[i].end
  <2>1. /\ w[i].start = p[i] /\ w[i].end = Smaller(p[i + 1], p[i] + OnlineCap)
    BY <1>1, <1>6
  <2>2. i \in 1..n /\ i + 1 \in 1..n /\ i < i + 1
    BY <1>3
  <2>3. p[i] \in Nat /\ p[i + 1] \in Nat /\ p[i] < p[i + 1] /\ OnlineCap \in Nat
    BY <1>5, <1>7, <2>2, ActivityConstants
  <2> QED BY <2>1, <2>3 DEF Smaller
<1>9. DOMAIN w = 1..n - 1 /\ n - 1 \in Int
  BY <1>1, <1>3, <1>6
<1> QED
  BY <1>8, <1>9

LEMMA PointsFacts ==
    ASSUME ArchiveTypes
    PROVE  Points \subseteq Nat /\ IsFiniteSet(Points)
<1> DEFINE f == [e \in docs |-> Payload[e].at]
<1>1. IsFiniteSet(docs) /\ docs \subseteq Events
  BY ActivityConstants, FS_Subset DEF ArchiveTypes
<1>2. Points = {f[e] : e \in docs}
  BY DEF Points
<1>3. \A e \in docs : f[e] \in Nat
  BY <1>1, ActivityConstants
<1> HIDE DEF f
<1> QED
  BY <1>1, <1>2, <1>3, FiniteImage

LEMMA OnlineIsNat ==
    ASSUME NEW P, P \subseteq Nat, IsFiniteSet(P)
    PROVE  presenceOnlineSeconds(P) \in Nat
<1>1. PICK w : w = presenceWindows(P)
  OBVIOUS
<1>2. PICK n \in Int : /\ DOMAIN w = 1..n
                       /\ \A i \in 1..n : /\ w[i].start \in Int /\ w[i].end \in Int
                                          /\ w[i].start <= w[i].end
  BY <1>1, PresenceFacts
<1> DEFINE v == [i \in 1..n |-> w[i].end - w[i].start]
<1>3. \A i \in 1..n : v[i] = w[i].end - w[i].start /\ v[i] \in Nat
  BY <1>2
<1>4. IsFiniteSet(1..n)
  BY FS_Interval
<1> HIDE DEF v
<1>5. presenceOnlineSeconds(P) = Total(v, 1..n)
  BY <1>1, <1>2, <1>3, <1>4, OnlineTotal
<1> QED
  BY <1>3, <1>4, <1>5, TotalNat

\* FlattenSeq stays in a set of sequences that is closed under concatenation.
LEMMA FlattenIn ==
    ASSUME NEW A, A \subseteq Seq(Session), <<>> \in A, \A a, b \in A : a \o b \in A,
           NEW seqs \in Seq(A)
    PROVE  FlattenSeq(seqs) \in A
<1> DEFINE n == Len(seqs)
           Iter(f) == f = [i \in 1..n |-> IF i = 1 THEN seqs[i] ELSE f[i - 1] \o seqs[i]]
<1>0. n \in Nat /\ seqs \in [1..n -> A]
  OBVIOUS
<1>1. CASE n = 0
  BY <1>1 DEF FlattenSeq
<1>2. CASE n # 0
  <2>1. FlattenSeq(seqs) = (CHOOSE f : Iter(f))[n]
    BY <1>2 DEF FlattenSeq
  <2> HIDE DEF n
  <2>2. \E f : Iter(f)
    <3> DEFINE h == [x \in A \X A |-> x[1] \o x[2]]
    <3>1. h \in [A \X A -> A] /\ \A a, b \in A : h[a, b] = a \o b
      OBVIOUS
    <3> HIDE DEF h
    <3>2. PICK g \in [SUBSET (1..n) -> A] : Folding(g, n, <<>>, h, seqs)
      BY <1>0, <3>1, FoldsExist
    <3> DEFINE f == [i \in 1..n |-> g[1..i]]
    <3>3. ASSUME NEW i \in 1..n
          PROVE  g[1..i] = (IF i = 1 THEN seqs[i] ELSE g[1..i - 1] \o seqs[i])
      <4>0. n \in Nat /\ i \in Nat /\ 1 <= i /\ i <= n
        BY <1>0
      <4>1. 1..i \in SUBSET (1..n) /\ i \in 1..i
        BY <4>0
      <4>2. Max(1..i) = i
        <5>1. 1..i # {}
          BY <4>1
        <5>2. Max(1..i) \in 1..i /\ i <= Max(1..i)
          BY <4>0, <4>1, <5>1, MaxIn
        <5> QED BY <4>0, <5>2
      <4>3. 1..i - 1 \in SUBSET (1..n) /\ 1..i - 1 = (1..i) \ {i}
        BY <4>0
      <4>4. g[1..i] = h[g[1..i - 1], seqs[i]]
        BY <3>2, <4>1, <4>2, <4>3 DEF Folding
      <4>5. g[1..i - 1] \in A /\ seqs[i] \in A
        BY <1>0, <4>3
      <4>6. g[1..i] = g[1..i - 1] \o seqs[i]
        BY <3>1, <4>4, <4>5
      <4>7. CASE i = 1
        <5>1. 1..i - 1 = {} /\ {} \in SUBSET (1..n)
          BY <4>7
        <5>2. g[1..i - 1] = <<>>
          BY <3>2, <5>1 DEF Folding
        <5>3. seqs[i] \in Seq(Session)
          BY <4>5
        <5>4. <<>> \o seqs[i] = seqs[i]
          BY <5>3
        <5> QED BY <4>6, <4>7, <5>2, <5>4
      <4>8. CASE i # 1
        BY <4>6, <4>8
      <4> QED BY <4>7, <4>8
    <3>4. \A i \in 1..n : i # 1 => i - 1 \in 1..n
      BY <1>0
    <3>5. \A i \in 1..n : f[i] = (IF i = 1 THEN seqs[i] ELSE f[i - 1] \o seqs[i])
      BY <3>3, <3>4
    <3>6. f = [i \in 1..n |-> f[i]]
      OBVIOUS
    <3> HIDE DEF f
    <3>7. Iter(f)
      BY <3>5, <3>6
    <3> QED BY <3>7
  <2>3. PICK f : f = (CHOOSE g : Iter(g)) /\ Iter(f)
    BY <2>2
  <2>4. \A i \in 1..n : f[i] = (IF i = 1 THEN seqs[i] ELSE f[i - 1] \o seqs[i])
    BY <2>3
  <2>5. \A i \in 1..n : f[i] \in A
    <3> SUFFICES ASSUME NEW j \in 1..n, f[j] \notin A PROVE FALSE
      OBVIOUS
    <3> DEFINE T == {i \in 1..n : f[i] \notin A}
    <3>1. PICK i \in T : \A k \in T : i <= k
      <4>1. T \subseteq Nat /\ T # {}
        <5>1. j \in T
          OBVIOUS
        <5>2. 1..n \subseteq Nat
          BY <1>0
        <5> QED BY <5>1, <5>2
      <4> HIDE DEF T
      <4> QED BY <4>1, LeastNat
    <3>2. i \in 1..n /\ f[i] \notin A /\ seqs[i] \in A
      BY <1>0, <3>1
    <3>3. i # 1 => i - 1 \in 1..n /\ f[i - 1] \in A
      BY <1>0, <3>1, <3>2
    <3> QED BY <2>4, <3>2, <3>3
  <2>6. n \in 1..n
    BY <1>0, <1>2
  <2> QED BY <2>1, <2>3, <2>5, <2>6
<1> QED
  BY <1>1, <1>2

\* Sessions within the day, in any order.
Inside(q) == \A k \in DOMAIN q : 0 <= q[k].start /\ q[k].end <= DayLength
Insides == {q \in Seq(Session) : Inside(q)}

LEMMA InsidesJoin ==
    /\ Insides \subseteq Seq(Session) /\ <<>> \in Insides
    /\ \A a, b \in Insides : a \o b \in Insides
<1>1. Insides \subseteq Seq(Session) /\ <<>> \in Insides
  BY DEF Insides, Inside
<1>2. ASSUME NEW a \in Insides, NEW b \in Insides
      PROVE  a \o b \in Insides
  <2>1. a \in Seq(Session) /\ b \in Seq(Session) /\ Inside(a) /\ Inside(b)
    BY DEF Insides
  <2>2. a \o b \in Seq(Session)
    BY <2>1
  <2>3. ASSUME NEW k \in DOMAIN (a \o b)
        PROVE  0 <= (a \o b)[k].start /\ (a \o b)[k].end <= DayLength
    <3>1. k \in 1..Len(a) + Len(b) /\ Len(a) \in Nat /\ Len(b) \in Nat
      BY <2>1
    <3>2. CASE k <= Len(a)
      <4>1. (a \o b)[k] = a[k] /\ k \in DOMAIN a
        BY <2>1, <3>1, <3>2
      <4> QED BY <2>1, <4>1 DEF Inside
    <3>3. CASE ~(k <= Len(a))
      <4>1. (a \o b)[k] = b[k - Len(a)] /\ k - Len(a) \in DOMAIN b
        BY <2>1, <3>1, <3>3
      <4> QED BY <2>1, <4>1 DEF Inside
    <3> QED BY <3>2, <3>3
  <2> QED BY <2>2, <2>3 DEF Insides, Inside
<1> QED
  BY <1>1, <1>2

LEMMA ClipFacts ==
    ASSUME NEW s \in Session, NEW lo \in Int, NEW hi \in Int, NEW c, c = ClipTo(s, lo, hi)
    PROVE  c \in Session /\ s.start <= c.start /\ c.end <= s.end
<1>1. s.start \in Int /\ s.end \in Int
  BY SessionFields
<1>2. /\ Larger(s.start, lo) \in Int /\ s.start <= Larger(s.start, lo)
      /\ Smaller(s.end, hi) \in Int /\ Smaller(s.end, hi) <= s.end
  BY <1>1 DEF Larger, Smaller
<1>3. c \in Session /\ c.start = Larger(s.start, lo) /\ c.end = Smaller(s.end, hi)
  BY <1>2 DEF ClipTo, Session
<1> QED
  BY <1>2, <1>3

LEMMA PresenceDay ==
    ASSUME NEW q \in Seq(Session), Orderly(q), NEW w, NEW n \in Int, DOMAIN w = 1..n,
           \A i \in 1..n : w[i].start \in Int /\ w[i].end \in Int
    PROVE  clippedActivitySessionsForPresence(q, w) \in Seq(Session)
<1> DEFINE piece(i) == [k \in DOMAIN w |-> ClipTo(q[i], w[k].start, w[k].end)]
           pieces == [i \in DOMAIN q |-> piece(i)]
           parts == FlattenSeq(pieces)
           I == {i \in DOMAIN parts : Visible(parts[i]) /\ parts[i].end > parts[i].start}
           b == ByStart(parts, I)
           m == Trim(b)
<1>1. clippedActivitySessionsForPresence(q, w) = mergeActivitySessions(m)
  BY DEF clippedActivitySessionsForPresence
<1>2. ASSUME NEW i \in DOMAIN q
      PROVE  piece(i) \in Insides
  <2>1. q[i] \in Session /\ 0 <= q[i].start /\ q[i].end <= DayLength
        /\ q[i].start \in Int /\ q[i].end \in Int /\ DayLength \in Nat
    BY SessionFields, ActivityConstants DEF Orderly, Within
  <2>2. ASSUME NEW k \in 1..n
        PROVE  /\ piece(i)[k] \in Session
               /\ 0 <= piece(i)[k].start /\ piece(i)[k].end <= DayLength
    <3> DEFINE c == ClipTo(q[i], w[k].start, w[k].end)
    <3>1. piece(i)[k] = c
      OBVIOUS
    <3>2. c \in Session /\ q[i].start <= c.start /\ c.end <= q[i].end
      <4> HIDE DEF c
      <4>1. c = ClipTo(q[i], w[k].start, w[k].end)
        BY DEF c
      <4> QED BY <2>1, <4>1, ClipFacts
    <3> HIDE DEF c, piece
    <3>3. c.start \in Int /\ c.end \in Int
      BY <3>2, SessionFields
    <3> QED BY <2>1, <3>1, <3>2, <3>3
  <2>3. DOMAIN piece(i) = 1..n /\ piece(i) = [k \in 1..n |-> piece(i)[k]]
    OBVIOUS
  <2> HIDE DEF piece
  <2>4. piece(i) \in [1..n -> Session]
    BY <2>2, <2>3
  <2>5. piece(i) \in Seq(Session)
    <3>1. CASE n \in Nat
      BY <2>4, <3>1
    <3>2. CASE n \notin Nat
      <4>1. 1..n = 1..0 /\ 0 \in Nat
        BY <3>2
      <4> QED BY <2>4, <4>1
    <3> QED BY <3>1, <3>2
  <2> QED BY <2>2, <2>3, <2>5 DEF Insides, Inside
<1>3. pieces \in Seq(Insides)
  <2>1. Len(q) \in Nat /\ DOMAIN q = 1..Len(q)
    OBVIOUS
  <2> HIDE DEF piece
  <2>2. pieces \in [1..Len(q) -> Insides]
    BY <1>2, <2>1
  <2> HIDE DEF pieces
  <2> QED BY <2>1, <2>2
<1> HIDE DEF pieces
<1>4. parts \in Insides
  BY <1>3, InsidesJoin, FlattenIn
<1> HIDE DEF parts
<1>5. parts \in Seq(Session) /\ Inside(parts) /\ I \in SUBSET DOMAIN parts
  BY <1>4 DEF Insides
<1>6. \A i \in I : Within(parts[i])
  <2> SUFFICES ASSUME NEW i \in I PROVE Within(parts[i])
    OBVIOUS
  <2>1. i \in DOMAIN parts /\ parts[i] \in Session /\ Visible(parts[i]) /\ parts[i].end > parts[i].start
    BY <1>5
  <2> QED BY <1>5, <2>1, SessionFields DEF Inside, Within
<1> HIDE DEF I
<1>7. /\ b \in Seq(Session) /\ \A k \in DOMAIN b : \E i \in I : b[k] = parts[i]
      /\ \A k, l \in DOMAIN b : k < l => b[k].start <= b[l].start
  BY <1>5, ByStartSorted
<1> HIDE DEF b
<1>8. (\A k \in DOMAIN b : Within(b[k])) /\ Sorted(b)
  BY <1>6, <1>7 DEF Sorted
<1>9. Anchored(b, Anytime)
  <2>1. \A k \in DOMAIN b : b[k].start \in Int /\ b[k].end \in Int /\ b[k].app \in Apps
    BY <1>7, SessionFields
  <2> QED BY <2>1 DEF Anchored, Anytime
<1>10. m \in Seq(Session) /\ Orderly(m) /\ Linked(m, Anytime)
  BY <1>7, <1>8, <1>9, TrimFacts
<1> HIDE DEF m
<1>11. DayLength \in Nat /\ MergeGap \in Nat /\ Anytime \in [Apps -> SUBSET Int]
  BY ActivityConstants DEF Anytime
<1> QED
  BY <1>1, <1>10, <1>11, MergeFacts

LEMMA RowsAreNat ==
    ASSUME NEW rows, NEW S, S = DOMAIN rows, S \subseteq Users,
           \A u \in S : AppSeconds(rows[u]) \in Nat
    PROVE  RowsSeconds(rows) \in Nat
<1> DEFINE v == [u \in S |-> AppSeconds(rows[u])]
<1>1. IsFiniteSet(S) /\ \A u \in S : v[u] = AppSeconds(rows[u]) /\ v[u] \in Nat
  BY ActivityConstants, FS_Subset
<1> HIDE DEF v
<1> QED
  BY <1>1, RowTotal, TotalNat

LEMMA NoRows == RowsSeconds([u \in {} |-> {}]) = 0
<1> DEFINE rows == [u \in {} |-> {}]
<1>1. {} = DOMAIN rows /\ IsFiniteSet({}) /\ \A u \in {} : rows[u] = AppSeconds(rows[u])
  BY FS_EmptySet
<1> HIDE DEF rows
<1>2. RowsSeconds(rows) = Total(rows, {})
  BY <1>1, RowTotal
<1>3. Total(rows, {}) = 0
  BY FS_EmptySet, TotalStep
<1> QED
  BY <1>2, <1>3 DEF rows

\* Scaled down, the rows fit into the time that the device was online.
LEMMA CapFits ==
    ASSUME NEW rows, RowsSeconds(rows) \in Nat, NEW online \in Nat,
           NEW r, r = capDailyAppUsageRowsToOnlineSeconds(rows, online)
    PROVE  RowsSeconds(r.rows) * r.num <= online * r.den
<1> DEFINE total == RowsSeconds(rows)
<1>1. CASE online <= 0
  <2>1. r.rows = [u \in {} |-> {}] /\ r.num = 1 /\ r.den = 1
    BY <1>1 DEF capDailyAppUsageRowsToOnlineSeconds
  <2>2. RowsSeconds(r.rows) = 0
    BY <2>1, NoRows
  <2> QED BY <2>1, <2>2
<1>2. CASE ~(online <= 0) /\ total <= online
  <2>1. r.rows = rows /\ r.num = 1 /\ r.den = 1
    BY <1>2 DEF capDailyAppUsageRowsToOnlineSeconds
  <2> QED BY <1>2, <2>1
<1>3. CASE ~(online <= 0) /\ ~(total <= online)
  <2>1. r.rows = rows /\ r.num = online /\ r.den = total
    BY <1>3 DEF capDailyAppUsageRowsToOnlineSeconds
  <2>2. \A x, y \in Nat : x * y <= y * x
    OBVIOUS
  <2> QED BY <2>1, <2>2
<1> QED
  BY <1>1, <1>2, <1>3

LEMMA ReportFits ==
    ASSUME ArchiveTypes, Days, Reported
    PROVE  ReportWithinOnline
<1> DEFINE w == presenceWindows(Points)
           rows == recomputeDailyAppUsageRowsFromArchives(w)
           online == presenceOnlineSeconds(Points)
<1>1. Points \subseteq Nat /\ IsFiniteSet(Points) /\ online \in Nat
  BY PointsFacts, OnlineIsNat
<1>2. PICK n \in Int : DOMAIN w = 1..n /\ \A i \in 1..n : w[i].start \in Int /\ w[i].end \in Int
  BY <1>1, PresenceFacts
<1> HIDE DEF w
<1>3. ASSUME NEW u \in Users
      PROVE  /\ AppSeconds(row[u]) \in Nat
             /\ AppSeconds(summarizeActivitySessions(
                   clippedActivitySessionsForPresence(object[u].sessions, w))) \in Nat
  <2>1. AppSeconds(row[u]) \in Nat
    <3>1. PICK q \in Seq(Session) : Orderly(q) /\ row[u] = summarizeActivitySessions(q)
      BY DEF Reported, Backed
    <3> QED BY <3>1, DayFits
  <2>2. object[u].sessions \in Seq(Session) /\ Orderly(object[u].sessions)
    BY DEF Days, Honest
  <2>3. clippedActivitySessionsForPresence(object[u].sessions, w) \in Seq(Session)
    BY <1>2, <2>2, PresenceDay
  <2> QED BY <2>1, <2>3, SummaryIsNat
<1>4. RowsSeconds(rows) \in Nat
  <2>1. PICK S : S = DOMAIN rows
    OBVIOUS
  <2>2. S \subseteq Users /\ \A u \in S : AppSeconds(rows[u]) \in Nat
    <3>1. CASE w = <<>>
      <4>1. rows = [u \in {v \in Users : row[v] # NoApps} |-> row[u]]
        BY <3>1 DEF recomputeDailyAppUsageRowsFromArchives
      <4> HIDE DEF rows
      <4> QED BY <1>3, <2>1, <4>1
    <3>2. CASE w # <<>>
      <4> DEFINE x(u) == summarizeActivitySessions(
                            clippedActivitySessionsForPresence(object[u].sessions, w))
                 T == {u \in {v \in Users : row[v] # NoApps} : x(u) # NoApps}
      <4>1. rows = [u \in T |-> x(u)]
        BY <3>2 DEF recomputeDailyAppUsageRowsFromArchives
      <4>2. T \subseteq Users
        OBVIOUS
      <4> HIDE DEF rows, T
      <4>3. S = T /\ \A u \in T : rows[u] = x(u)
        BY <2>1, <4>1
      <4> QED BY <1>3, <4>2, <4>3
    <3> QED BY <3>1, <3>2
  <2> HIDE DEF rows
  <2> QED BY <2>1, <2>2, RowsAreNat
<1>5. PICK r : r = capDailyAppUsageRowsToOnlineSeconds(rows, online)
  OBVIOUS
<1>6. deviceAppUsage = r
  BY <1>5 DEF deviceAppUsage, w
<1> HIDE DEF rows, online
<1>7. RowsSeconds(r.rows) * r.num <= online * r.den
  BY <1>1, <1>4, <1>5, CapFits
<1> QED
  BY <1>6, <1>7 DEF ReportWithinOnline, online

\* However upserts pass each other, whatever the rows and the archives of the
\* users hold and whenever the device was online: a stored row claims no more
\* than the archive holds, a week's sum no more than a day for every user, and
\* the daily report no more than the time the device was online (UpsertRow,
\* deviceAppUsageHandler, capDailyAppUsageRowsToOnlineSeconds).
THEOREM ReportsAreBacked == Spec => []ReportInv
<1>1. ArchiveTypes /\ Days /\ Reported => ReportInv
  BY RowsAreWithin, ReportFits DEF ReportInv
<1> QED
  BY <1>1, ReportedHolds, PTL

-----------------------------------------------------------------------------
(* The tracker.                                                            *)

trackerState == <<currentApp, sessionStart, sessionCounted, sessions, lastSampleAt,
                  cumulative, collected, observed, focusSource>>

Focused == currentApp # NoApp
Samples == [at : Nat, app : Programs \cup {NoApp}, guess : BOOLEAN]

\* The types, and the wall clock is ahead by whole suspensions.
TrackTypes ==
    /\ WindowTypeOK
    /\ now \in 0..MaxTime
    /\ \E k \in 0..MaxSleeps : slept = k * SleepTime
    /\ observed \in Seq(Samples)
    /\ cumulative \in [Programs -> [total : Nat, count : Nat]]
    /\ IsFiniteSet(sessions) /\ IsFiniteSet(collected)

\* Ticks are worked on in the order of their times, each once.
Clocks ==
    /\ pc \in {"asking", "hung"} <=> asked # None
    /\ lastSampleAt.m <= now
    /\ asked # None => lastSampleAt.m < asked.m /\ asked.m <= now
    /\ tick # None => /\ lastSampleAt.m < tick.m /\ tick.m <= now
                      /\ asked # None => asked.m < tick.m

\* The tracker stands where the last sample left it.
Sampled ==
    /\ observed = <<>> => ~Focused /\ sessions = {} /\ collected = {}
    /\ observed # <<>> => /\ observed[Len(observed)].at = lastSampleAt.m
                          /\ observed[Len(observed)].app = currentApp
    /\ \A i, j \in DOMAIN observed : i < j => observed[i].at < observed[j].at

\* Fragments follow each other in time, those collected before those that
\* wait, all of them before the open session.
Frontier == IF Focused THEN sessionStart.m ELSE lastSampleAt.m
Apart(f, g) == f.end.m <= g.start.m \/ g.end.m <= f.start.m

Pieces ==
    /\ Focused => sessionStart.m <= lastSampleAt.m
    /\ \A f \in sessions \cup collected :
        f.dur = f.end.m - f.start.m /\ f.dur > 0 /\ f.end.m <= Frontier
    /\ \A f \in sessions, g \in collected : g.end.m <= f.start.m
    /\ \A f, g \in sessions \cup collected : f # g => Apart(f, g)

\* A stretch that is not a continuation begins with the sample that opened
\* the period of focus, and no other sample opens one in it.
Begins(a, from, to, cont) ==
    /\ \A i \in DOMAIN observed :
        Opens(i, a) /\ from <= observed[i].at /\ observed[i].at <= to =>
            ~cont /\ observed[i].at = from
    /\ ~cont => \E i \in DOMAIN observed : Opens(i, a) /\ observed[i].at = from

Openings ==
    /\ \A f \in sessions \cup collected : Begins(f.app, f.start.m, f.end.m - 1, f.cont)
    /\ Focused => Begins(currentApp, sessionStart.m, lastSampleAt.m, sessionCounted)

\* What happens to the state of the tracker: the open session is cut at e.
Cut(e) == Fragment(Tracker, e)

Closing(e) == IF Focused /\ e.m - sessionStart.m > 0 THEN {Cut(e)} ELSE {}

\* A sample of the tick at t is taken in.
Hears(t, app, guess) ==
    /\ t \in Times /\ lastSampleAt.m < t.m /\ t.m <= now
    /\ app \in Programs \cup {NoApp} /\ guess \in BOOLEAN
    /\ observed' = Append(observed, [at |-> t.m, app |-> app, guess |-> guess])
    /\ lastSampleAt' = t /\ currentApp' = app
    /\ UNCHANGED <<collected, cumulative>>

Joins(t) == t.m - lastSampleAt.m <= MaxSampleGap
Same(t, app) == Focused /\ app = currentApp /\ Joins(t)

\* It prolongs the open session, or ends it and opens another.
Stays(t, app) == Same(t, app) /\ UNCHANGED <<sessions, sessionStart, sessionCounted>>

Moves(t, app) ==
    /\ ~Same(t, app)
    /\ sessions' = sessions \cup Closing(IF Joins(t) THEN t ELSE lastSampleAt)
    /\ sessionCounted' = FALSE /\ sessionStart' = IF app = NoApp THEN None ELSE t

\* Collect takes the fragments c.
Takes(c) ==
    /\ sessions' = {} /\ collected' = collected \cup c
    /\ UNCHANGED <<currentApp, lastSampleAt, observed, focusSource>>
    /\ cumulative' = [a \in Programs |->
                        [total |-> cumulative[a].total + Summary(a, c).total,
                         count |-> cumulative[a].count + Summary(a, c).count]]
    /\ \/ c = sessions /\ UNCHANGED <<sessionStart, sessionCounted>>
       \/ /\ Focused /\ lastSampleAt.m - sessionStart.m > 0
          /\ c = sessions \cup {Cut(lastSampleAt)}
          /\ sessionStart' = lastSampleAt /\ sessionCounted' = TRUE

LEMMA Reading ==
    ASSUME NEW t \in Times
    PROVE  t.m \in Nat /\ t.m \in 0..MaxTime
BY DEF Times

LEMMA TrackFacts ==
    ASSUME TrackTypes
    PROVE  /\ MaxSampleGap \in Nat /\ MaxTime \in Nat /\ now \in Nat
           /\ None \notin Times /\ NoApp \notin Programs
           /\ lastSampleAt \in Times /\ lastSampleAt.m \in Nat
           /\ currentApp \in Programs \cup {NoApp}
           /\ Focused => sessionStart \in Times /\ sessionStart.m \in Nat
           /\ ~Focused => sessionStart = None
           /\ sessions \subseteq Fragments /\ collected \subseteq Fragments
           /\ sessionCounted \in BOOLEAN
           /\ observed \in Seq(Samples)
<1> USE DEF TrackTypes, WindowTypeOK
<1>1. MaxSampleGap \in Nat /\ MaxTime \in Nat /\ MaxSleeps \in Nat /\ SleepTime \in Nat
      /\ NoApp \notin Programs /\ None \notin [m : Nat, w : Nat]
  BY ActiveWindowAssumption
<1>2. MaxSleeps * SleepTime \in Nat
  BY <1>1
<1>3. Times \subseteq [m : Nat, w : Nat]
  <2> DEFINE top == MaxSleeps * SleepTime
  <2> HIDE DEF top
  <2>1. 0..MaxTime \subseteq Nat /\ 0..(MaxTime + top) \subseteq Nat
    BY <1>1, <1>2 DEF top
  <2>2. Times = [m : 0..MaxTime, w : 0..(MaxTime + top)]
    BY DEF Times, top
  <2> QED BY <2>1, <2>2
<1>4. None \notin Times
  BY <1>1, <1>3
<1>5. lastSampleAt \in Times /\ lastSampleAt.m \in Nat
  BY Reading
<1>6. Focused => sessionStart \in Times /\ sessionStart.m \in Nat
  <2>1. Focused => sessionStart \in Times
    BY DEF Focused
  <2> QED BY <2>1, Reading
<1>7. now \in Nat
  BY <1>1
<1> QED
  BY <1>1, <1>4, <1>5, <1>6, <1>7 DEF Focused

LEMMA AskedFacts ==
    ASSUME TrackTypes, Clocks, pc = "asking"
    PROVE  asked \in Times /\ asked.m \in Nat /\ lastSampleAt.m < asked.m /\ asked.m <= now
<1>1. asked # None /\ lastSampleAt.m < asked.m /\ asked.m <= now
  BY DEF Clocks
<1>2. asked \in Times
  BY <1>1 DEF TrackTypes, WindowTypeOK
<1> QED
  BY <1>1, <1>2, Reading

\* Every answer names an application or none.
LEMMA AnswerTypes ==
    ASSUME NEW r \in getForegroundAppLinuxDetailed
    PROVE  r.app \in Programs \cup {NoApp} /\ r.guess \in BOOLEAN
<1>1. \A s : \A x \in Answers(s) : x.app \in Programs \cup {NoApp} /\ x.guess \in BOOLEAN
  BY DEF Answers
<1>2. ASSUME NEW s, NEW x \in Guesses(s)
      PROVE  x.app \in Programs \cup {NoApp} /\ x.guess \in BOOLEAN
  <2>1. PICK a \in Programs \cup {NoApp} : x = [app |-> a, source |-> s, guess |-> a # NoApp]
    BY Zenon DEF Guesses
  <2>2. x.app = a
    BY <2>1
  <2>3. x.guess = (a # NoApp)
    BY <2>1
  <2>4. (a # NoApp) \in BOOLEAN
    BY Zenon
  <2>5. x.guess \in BOOLEAN
    BY <2>3, <2>4
  <2> QED BY <2>2, <2>5
<1>3. \A s : Nothing(s).app \in Programs \cup {NoApp} /\ Nothing(s).guess \in BOOLEAN
  BY DEF Nothing
<1>4. \E s : r \in Answers(s) \/ r \in Guesses(s) \/ r = Nothing(s)
  <2>1. CASE Display = "bare"
    <3>1. r \in getActiveWindowFromUserSessions \cup {Nothing("none")}
      BY <2>1 DEF getForegroundAppLinuxDetailed
    <3> QED BY <3>1 DEF getActiveWindowFromUserSessions
  <2>2. CASE Display # "bare"
    <3>1. PICK S : getForegroundAppLinuxDetailed = Answers(S)
                   \cup (IF AllowProcGuess THEN Guesses("proc-guess") ELSE {Nothing("none")})
      BY <2>2, Zenon DEF getForegroundAppLinuxDetailed
    <3> QED BY <3>1
  <2> QED BY <2>1, <2>2
<1> QED
  BY <1>1, <1>2, <1>3, <1>4

Fields == {"app", "start", "counted", "closed"}

LEMMA EndsSession ==
    ASSUME NEW s, DOMAIN s = Fields, NEW e
    PROVE  LET t == endSession(s, e)
           IN  /\ DOMAIN t = Fields
               /\ t.app = NoApp /\ t.start = None /\ t.counted = FALSE
               /\ t.closed = IF s.app # NoApp /\ e.m - s.start.m > 0
                             THEN s.closed \cup {Fragment(s, e)} ELSE s.closed
BY DEF endSession, Fields

LEMMA TrackerFields ==
    /\ DOMAIN Tracker = Fields
    /\ Tracker.app = currentApp /\ Tracker.start = sessionStart
    /\ Tracker.counted = sessionCounted /\ Tracker.closed = sessions
BY DEF Tracker, Fields

LEMMA SampleCases ==
    ASSUME TrackTypes, Clocks,
           NEW r \in getForegroundAppLinuxDetailed, NEW away \in BOOLEAN, Sample(r, away)
    PROVE  LET app == IF away THEN NoApp ELSE r.app
           IN  Hears(asked, app, r.guess) /\ (Stays(asked, app) \/ Moves(asked, app))
<1> DEFINE app == IF away THEN NoApp ELSE r.app
           s == Switch(AfterGap(asked), asked, app)
           gap == AfterGap(asked)
           ended == endSession(gap, asked)
<1>1. pc = "asking" /\ observe(asked, r, away)
  BY DEF Sample
<1>2. asked \in Times /\ asked.m \in Nat /\ lastSampleAt.m < asked.m /\ asked.m <= now
  BY <1>1, AskedFacts
<1>3. app \in Programs \cup {NoApp} /\ r.guess \in BOOLEAN
  BY AnswerTypes
<1>4. /\ currentApp' = s.app /\ sessionStart' = s.start /\ sessionCounted' = s.counted
      /\ sessions' = s.closed
      /\ lastSampleAt' = asked
      /\ observed' = Append(observed, [at |-> asked.m, app |-> app, guess |-> r.guess])
      /\ UNCHANGED <<collected, cumulative>>
  BY <1>1 DEF observe, Sample
<1>5. asked.m - lastSampleAt.m > MaxSampleGap <=> ~Joins(asked)
  BY <1>2, TrackFacts DEF Joins
<1>6. ASSUME Focused, ~Joins(asked)
      PROVE  DOMAIN gap = Fields /\ gap.app = NoApp /\ gap.closed = sessions \cup Closing(lastSampleAt)
  <2>1. gap = endSession(Tracker, lastSampleAt)
    BY <1>5, <1>6 DEF AfterGap, Focused
  <2>2. DOMAIN gap = Fields /\ gap.app = NoApp /\ gap.closed = sessions \cup Closing(lastSampleAt)
    BY <2>1, <1>6, EndsSession, TrackerFields DEF Closing, Cut, Focused
  <2> QED BY <2>2
<1>7. ASSUME ~(Focused /\ ~Joins(asked))
      PROVE  gap = Tracker
  BY <1>5, <1>7 DEF AfterGap, Focused
<1>8. /\ DOMAIN ended = Fields
      /\ ended.app = NoApp /\ ended.start = None /\ ended.counted = FALSE
      /\ ended.closed = sessions \cup Closing(IF Joins(asked) THEN asked ELSE lastSampleAt)
  <2>1. DOMAIN gap = Fields
    BY <1>6, <1>7, TrackerFields
  <2>2. /\ DOMAIN ended = Fields
        /\ ended.app = NoApp /\ ended.start = None /\ ended.counted = FALSE
        /\ ended.closed = IF gap.app # NoApp /\ asked.m - gap.start.m > 0
                          THEN gap.closed \cup {Fragment(gap, asked)} ELSE gap.closed
    <3> HIDE DEF gap
    <3> QED BY <2>1, EndsSession
  <2> HIDE DEF ended, gap
  <2>3. CASE Focused /\ ~Joins(asked)
    BY <1>6, <2>2, <2>3
  <2>4. CASE Focused /\ Joins(asked)
    BY <1>7, <2>2, <2>4, TrackerFields DEF Closing, Cut, Focused
  <2>5. CASE ~Focused
    BY <1>7, <2>2, <2>5, TrackerFields DEF Closing, Focused
  <2> QED BY <2>2, <2>3, <2>4, <2>5
<1> HIDE DEF gap, ended
<1>9. CASE Same(asked, app)
  <2>1. gap = Tracker /\ app # NoApp /\ app = Tracker.app
    BY <1>7, <1>9, TrackerFields DEF Same, Focused
  <2>2. s = Tracker
    BY <2>1 DEF Switch, gap
  <2> QED BY <1>2, <1>3, <1>4, <1>9, <2>2, TrackerFields DEF Stays, Hears, Same
<1>10. CASE ~Same(asked, app)
  <2>1. CASE app = NoApp
    <3>1. s = ended
      BY <2>1 DEF Switch, gap, ended
    <3> QED BY <1>2, <1>3, <1>4, <1>8, <1>10, <2>1, <3>1 DEF Moves, Hears
  <2>2. CASE app # NoApp
    <3>1. gap.app # app
      BY <1>6, <1>7, <1>10, <2>2, TrackerFields DEF Same, Focused
    <3>2. s = [ended EXCEPT !.app = app, !.start = asked, !.counted = FALSE]
      BY <2>2, <3>1 DEF Switch, gap, ended
    <3> HIDE DEF s
    <3>3. s.app = app /\ s.start = asked /\ s.counted = FALSE /\ s.closed = ended.closed
      BY <1>8, <3>2 DEF Fields
    <3> QED BY <1>2, <1>3, <1>4, <1>8, <1>10, <2>2, <3>3 DEF Moves, Hears
  <2> QED BY <2>1, <2>2
<1> QED
  BY <1>9, <1>10

LEMMA CollectCases ==
    ASSUME Collect
    PROVE  \E c : Takes(c)
<1> DEFINE s == SoftClose
           c == s.closed
<1>1. /\ sessionStart' = s.start /\ sessionCounted' = s.counted /\ sessions' = {}
      /\ collected' = collected \cup c
      /\ cumulative' = [a \in Programs |->
                        [total |-> cumulative[a].total + Summary(a, c).total,
                         count |-> cumulative[a].count + Summary(a, c).count]]
      /\ UNCHANGED <<currentApp, lastSampleAt, observed, focusSource>>
  BY DEF Collect
<1>2. CASE Focused /\ Fresh /\ lastSampleAt.m - sessionStart.m > 0
  <2>1. s = [app |-> currentApp, start |-> lastSampleAt, counted |-> TRUE,
             closed |-> sessions \cup {Cut(lastSampleAt)}]
    BY <1>2 DEF SoftClose, CreditUpTo, CountedAfter, Tracker, Focused, Cut
  <2> QED BY <1>1, <1>2, <2>1 DEF Takes
<1>3. CASE ~(Focused /\ Fresh /\ lastSampleAt.m - sessionStart.m > 0)
  <2>1. s = Tracker
    BY <1>3 DEF SoftClose, CreditUpTo, Focused
  <2> QED BY <1>1, <2>1 DEF Takes, Tracker
<1> QED
  BY <1>2, <1>3

-----------------------------------------------------------------------------
(* Types and clocks. *)

LEMMA Slumber ==
    ASSUME NEW n \in Nat, NEW d \in Nat, NEW k \in 0..n
    PROVE  /\ k * d \in 0..(n * d)
           /\ k * d < n * d => k + 1 \in 0..n /\ k * d + d = (k + 1) * d
<1>1. k \in Nat /\ n - k \in Nat /\ k * d \in Nat
  OBVIOUS
<1>2. n * d = k * d + (n - k) * d
  BY <1>1
<1>3. (n - k) * d \in Nat
  BY <1>1
<1>4. n = k => n * d = k * d
  OBVIOUS
<1>5. (k + 1) * d = k * d + d
  BY <1>1
<1> QED
  BY <1>1, <1>2, <1>3, <1>4, <1>5

LEMMA WholeSleeps ==
    ASSUME TrackTypes
    PROVE  /\ slept \in 0..(MaxSleeps * SleepTime)
           /\ [m |-> now, w |-> now + slept] \in Times
<1>1. MaxTime \in Nat /\ MaxSleeps \in Nat /\ SleepTime \in Nat
  BY ActiveWindowAssumption DEF TrackTypes
<1>2. PICK k \in 0..MaxSleeps : slept = k * SleepTime
  BY DEF TrackTypes
<1> DEFINE top == MaxSleeps * SleepTime
<1>3. slept \in 0..top
  BY <1>1, <1>2, Slumber
<1>4. top \in Nat
  BY <1>1
<1> HIDE DEF top
<1>5. now + slept \in 0..(MaxTime + top) /\ now \in 0..MaxTime
  BY <1>1, <1>3, <1>4 DEF TrackTypes
<1> QED
  BY <1>3, <1>5 DEF Times, top

\* A cut of the open session is a fragment.
LEMMA CutFacts ==
    ASSUME TrackTypes, Focused, NEW e \in Times, e.m - sessionStart.m > 0
    PROVE  /\ Cut(e) \in Fragments
           /\ Cut(e).app = currentApp /\ Cut(e).start = sessionStart /\ Cut(e).end = e
           /\ Cut(e).dur = e.m - sessionStart.m /\ Cut(e).cont = sessionCounted
<1>1. sessionStart \in Times /\ sessionStart.m \in Nat /\ e.m \in 0..MaxTime /\ MaxTime \in Nat
      /\ currentApp \in Programs /\ sessionCounted \in BOOLEAN
  BY TrackFacts, Reading DEF Focused
<1>2. e.m - sessionStart.m \in 1..MaxTime
  BY <1>1
<1> QED
  BY <1>1, <1>2 DEF Cut, Fragment, Fragments, Tracker

LEMMA TypesInit == ASSUME WindowInit PROVE TrackTypes
<1>0. /\ now = 0 /\ slept = 0 /\ tick = None /\ asked = None /\ pc = "select"
      /\ currentApp = NoApp /\ sessionStart = None /\ sessionCounted = FALSE /\ idle = FALSE
      /\ sessions = {} /\ collected = {} /\ observed = <<>>
      /\ lastSampleAt = [m |-> 0, w |-> 0]
      /\ cumulative = [a \in Programs |-> [total |-> 0, count |-> 0]]
  BY DEF WindowInit
<1> HIDE DEF WindowInit
<1>1. MaxTime \in Nat /\ MaxSleeps \in Nat /\ SleepTime \in Nat
  BY ActiveWindowAssumption
<1>2. WindowTypeOK
  <2> DEFINE top == MaxSleeps * SleepTime
  <2>1. top \in Nat
    BY <1>1
  <2> HIDE DEF top
  <2>2. 0 \in 0..MaxTime /\ 0 \in 0..(MaxTime + top)
    BY <1>1, <2>1
  <2>3. [m |-> 0, w |-> 0] \in Times
    BY <2>2 DEF Times, top
  <2> QED BY <1>0, <2>3 DEF WindowTypeOK
<1>3. \E k \in 0..MaxSleeps : slept = k * SleepTime
  <2>1. 0 \in 0..MaxSleeps /\ 0 = 0 * SleepTime
    BY <1>1
  <2> QED BY <1>0, <2>1
<1>4. IsFiniteSet(sessions) /\ IsFiniteSet(collected)
  BY <1>0, FS_EmptySet
<1>5. now \in 0..MaxTime /\ observed \in Seq(Samples)
  BY <1>0, <1>1
<1>6. cumulative \in [Programs -> [total : Nat, count : Nat]]
  BY <1>0
<1> QED
  BY <1>2, <1>3, <1>4, <1>5, <1>6 DEF TrackTypes

LEMMA ClocksInit == ASSUME WindowInit PROVE Clocks
<1>1. lastSampleAt.m = 0 /\ now = 0 /\ asked = None /\ tick = None /\ pc = "select"
  BY DEF WindowInit
<1> QED
  BY <1>1 DEF Clocks

\* The steps that touch neither the tracker nor its history.
Quiet == UNCHANGED trackerState

LEMMA StepCases ==
    ASSUME [WindowNext]_windowVars
    PROVE  \/ Quiet
           \/ \E r \in getForegroundAppLinuxDetailed, away \in BOOLEAN : Sample(r, away)
           \/ Collect
<1> USE DEF Quiet, trackerState, trackerVars, samplerVars
<1>1. ASSUME \E hangs \in BOOLEAN : Ask(hangs) PROVE Quiet
  BY <1>1 DEF Ask
<1>2. ASSUME SampleFails \/ Panic \/ runSampler PROVE Quiet
  BY <1>2 DEF SampleFails, Panic, runSampler
<1>3. ASSUME Tick \/ Suspend PROVE Quiet
  BY <1>3 DEF Tick, Suspend
<1>4. ASSUME UNCHANGED windowVars PROVE Quiet
  BY <1>4 DEF windowVars
<1> QED
  BY <1>1, <1>2, <1>3, <1>4 DEF WindowNext

LEMMA ClocksNext ==
    ASSUME TrackTypes, Clocks, [WindowNext]_windowVars
    PROVE  Clocks'
<1> USE DEF trackerVars, samplerVars
<1>1. /\ now \in Nat /\ lastSampleAt.m \in Nat /\ None \notin Times
      /\ tick \in Times \cup {None} /\ asked \in Times \cup {None}
  BY TrackFacts DEF TrackTypes, WindowTypeOK
<1>2. /\ tick # None => tick.m \in Nat
      /\ asked # None => asked.m \in Nat
  BY <1>1, Reading
<1> HIDE DEF TrackTypes
<1>3. CASE \E hangs \in BOOLEAN : Ask(hangs)
  BY <1>1, <1>2, <1>3 DEF Ask, Clocks
<1>4. CASE \E r \in getForegroundAppLinuxDetailed, away \in BOOLEAN : Sample(r, away)
  <2>1. /\ pc = "asking" /\ pc' = "select" /\ asked' = None /\ UNCHANGED <<now, tick>>
        /\ lastSampleAt' = asked
    BY <1>4 DEF Sample, observe
  <2> QED BY <1>1, <1>2, <2>1 DEF Clocks
<1>5. CASE SampleFails \/ Panic \/ runSampler
  BY <1>1, <1>2, <1>5 DEF SampleFails, TimesOut, Panic, runSampler, Clocks
<1>6. CASE Collect
  BY <1>6 DEF Collect, Clocks
<1>7. CASE Tick
  <2>1. now' = now + 1 /\ UNCHANGED <<pc, asked, lastSampleAt>>
        /\ ((tick' = [m |-> now', w |-> now' + slept] /\ tick = None) \/ tick' = tick)
    BY <1>7 DEF Tick
  <2>2. tick' # tick => tick'.m = now + 1
    BY <2>1
  <2> QED BY <1>1, <1>2, <2>1, <2>2 DEF Clocks
<1>8. CASE Suspend
  BY <1>8 DEF Suspend, Clocks
<1>9. CASE UNCHANGED windowVars
  BY <1>9 DEF windowVars, Clocks
<1> QED
  BY <1>3, <1>4, <1>5, <1>6, <1>7, <1>8, <1>9 DEF WindowNext

\* What is closed by a sample of the tick at t.
LEMMA ClosingFacts ==
    ASSUME TrackTypes, NEW t \in Times
    PROVE  LET c == Closing(IF Joins(t) THEN t ELSE lastSampleAt)
           IN  c \subseteq Fragments /\ IsFiniteSet(c)
<1> DEFINE e == IF Joins(t) THEN t ELSE lastSampleAt
<1>1. e \in Times
  BY TrackFacts
<1> HIDE DEF e
<1>2. CASE Focused /\ e.m - sessionStart.m > 0
  <2>1. Closing(e) = {Cut(e)} /\ Cut(e) \in Fragments
    BY <1>1, <1>2, CutFacts DEF Closing
  <2> QED BY <2>1, FS_Singleton DEF e
<1>3. CASE ~(Focused /\ e.m - sessionStart.m > 0)
  <2>1. Closing(e) = {}
    BY <1>3 DEF Closing
  <2> QED BY <2>1, FS_EmptySet DEF e
<1> QED
  BY <1>2, <1>3

LEMMA TakesFacts ==
    ASSUME TrackTypes, NEW c, Takes(c)
    PROVE  c \subseteq Fragments /\ IsFiniteSet(c)
<1>1. sessions \subseteq Fragments /\ IsFiniteSet(sessions) /\ lastSampleAt \in Times
  BY TrackFacts DEF TrackTypes
<1>2. CASE c = sessions
  BY <1>1, <1>2
<1>3. CASE /\ Focused /\ lastSampleAt.m - sessionStart.m > 0
           /\ c = sessions \cup {Cut(lastSampleAt)}
  <2>1. Cut(lastSampleAt) \in Fragments
    BY <1>1, <1>3, CutFacts
  <2>2. IsFiniteSet(c)
    BY <1>1, <1>3, FS_AddElement
  <2> QED BY <1>1, <1>3, <2>1, <2>2
<1> QED
  BY <1>2, <1>3 DEF Takes

LEMMA HeardTypes ==
    ASSUME TrackTypes, NEW t, NEW app, NEW guess, Hears(t, app, guess),
           Stays(t, app) \/ Moves(t, app)
    PROVE  /\ currentApp' \in Programs \cup {NoApp} /\ (currentApp' = NoApp <=> sessionStart' = None)
           /\ sessionStart' \in Times \cup {None} /\ sessionCounted' \in BOOLEAN
           /\ sessions' \subseteq Fragments /\ IsFiniteSet(sessions')
           /\ lastSampleAt' \in Times
           /\ observed' \in Seq(Samples)
<1>1. /\ t \in Times /\ t.m \in Nat /\ app \in Programs \cup {NoApp} /\ guess \in BOOLEAN
      /\ None \notin Times
  BY Reading, TrackFacts DEF Hears
<1>2. [at |-> t.m, app |-> app, guess |-> guess] \in Samples
  BY <1>1 DEF Samples
<1>3. observed' \in Seq(Samples)
  BY <1>2, TrackFacts DEF Hears
<1>4. CASE Stays(t, app)
  BY <1>1, <1>3, <1>4, TrackFacts DEF Stays, Same, Hears, Focused, TrackTypes
<1>5. CASE Moves(t, app)
  <2> DEFINE c == Closing(IF Joins(t) THEN t ELSE lastSampleAt)
  <2>1. sessions' = sessions \cup c
    BY <1>5 DEF Moves
  <2>2. c \subseteq Fragments /\ IsFiniteSet(c)
    BY <1>1, ClosingFacts
  <2>3. sessions \subseteq Fragments /\ IsFiniteSet(sessions)
    BY TrackFacts DEF TrackTypes
  <2> HIDE DEF c
  <2>4. IsFiniteSet(sessions') /\ sessions' \subseteq Fragments
    BY <2>1, <2>2, <2>3, FS_Union
  <2> QED BY <1>1, <1>3, <1>5, <2>4 DEF Moves, Hears
<1> QED
  BY <1>4, <1>5

LEMMA SleepNext ==
    ASSUME TrackTypes, [WindowNext]_windowVars
    PROVE  /\ now' \in 0..MaxTime
           /\ \E k \in 0..MaxSleeps : slept' = k * SleepTime
<1>1. MaxTime \in Nat /\ MaxSleeps \in Nat /\ SleepTime \in Nat
  BY ActiveWindowAssumption DEF TrackTypes
<1>2. now \in 0..MaxTime /\ \E k \in 0..MaxSleeps : slept = k * SleepTime
  BY DEF TrackTypes
<1>3. CASE Tick
  BY <1>1, <1>2, <1>3 DEF Tick
<1>4. CASE Suspend
  <2>1. PICK k \in 0..MaxSleeps : slept = k * SleepTime
    BY <1>2
  <2>2. k * SleepTime < MaxSleeps * SleepTime /\ slept' = k * SleepTime + SleepTime
        /\ now' = now
    BY <1>4, <2>1 DEF Suspend
  <2>3. k + 1 \in 0..MaxSleeps /\ k * SleepTime + SleepTime = (k + 1) * SleepTime
    BY <1>1, <2>2, Slumber
  <2> QED BY <1>2, <2>2, <2>3
<1>5. CASE ~Tick /\ ~Suspend
  <2>1. UNCHANGED <<now, slept>>
    <3>1. CASE \E hangs \in BOOLEAN : Ask(hangs)
      BY <3>1 DEF Ask
    <3>2. CASE \E r \in getForegroundAppLinuxDetailed, away \in BOOLEAN : Sample(r, away)
      BY <3>2 DEF Sample
    <3>3. CASE SampleFails \/ Panic \/ runSampler \/ Collect \/ UNCHANGED windowVars
      BY <3>3 DEF SampleFails, Panic, runSampler, Collect, windowVars
    <3> QED BY <1>5, <3>1, <3>2, <3>3 DEF WindowNext
  <2> QED BY <1>2, <2>1
<1> QED
  BY <1>3, <1>4, <1>5

LEMMA SamplerNext ==
    ASSUME TrackTypes, [WindowNext]_windowVars
    PROVE  /\ tick' \in Times \cup {None} /\ asked' \in Times \cup {None}
           /\ pc' \in {"select", "asking", "hung", "failed"} /\ idle' \in BOOLEAN
<1> USE DEF trackerVars, samplerVars
<1>1. /\ tick \in Times \cup {None} /\ asked \in Times \cup {None}
      /\ pc \in {"select", "asking", "hung", "failed"} /\ idle \in BOOLEAN
  BY DEF TrackTypes, WindowTypeOK
<1>2. CASE \E hangs \in BOOLEAN : Ask(hangs)
  BY <1>1, <1>2 DEF Ask
<1>3. CASE \E r \in getForegroundAppLinuxDetailed, away \in BOOLEAN : Sample(r, away)
  BY <1>1, <1>3 DEF Sample, observe
<1>4. CASE SampleFails \/ Panic \/ runSampler \/ Collect \/ Suspend
  BY <1>1, <1>4 DEF SampleFails, Panic, runSampler, Collect, Suspend
<1>5. CASE Tick
  <2>1. now' = now + 1 /\ UNCHANGED <<pc, asked, idle, slept>>
        /\ (tick' = [m |-> now', w |-> now' + slept] \/ tick' = tick)
    BY <1>5 DEF Tick
  <2>2. [m |-> now', w |-> now' + slept] \in Times
    <3> DEFINE top == MaxSleeps * SleepTime
    <3>1. MaxTime \in Nat /\ now' \in 0..MaxTime /\ slept \in 0..top
      BY WholeSleeps, SleepNext, ActiveWindowAssumption DEF TrackTypes
    <3>2. top \in Nat
      BY ActiveWindowAssumption DEF TrackTypes
    <3> HIDE DEF top
    <3>3. \A n \in 0..MaxTime, k \in 0..top : n + k \in 0..(MaxTime + top)
      BY <3>1, <3>2
    <3>4. now' + slept \in 0..(MaxTime + top)
      BY <3>1, <3>3
    <3> QED BY <3>1, <3>4 DEF Times, top
  <2> QED BY <1>1, <2>1, <2>2
<1>6. CASE UNCHANGED windowVars
  BY <1>1, <1>6 DEF windowVars
<1> QED
  BY <1>2, <1>3, <1>4, <1>5, <1>6 DEF WindowNext

-----------------------------------------------------------------------------
(* What Collect adds. *)

Of(a, s) == {f \in s : f.app = a}
Durations(s) == [f \in s |-> f.dur]

\* The tracker counts with an instance of the same definition.
LEMMA SameCardinality == \A s : Cardinality(s) = Cardinality(s)
BY DEF Cardinality, Cardinality

LEMMA SummaryFacts ==
    ASSUME NEW a, NEW s, IsFiniteSet(s)
    PROVE  /\ Summary(a, s).total = Total(Durations(Of(a, s)), Of(a, s))
           /\ Summary(a, s).count = Cardinality({f \in Of(a, s) : ~f.cont})
<1> DEFINE own == Of(a, s)
           v == Durations(own)
           Iter(g) == g = [u \in SUBSET own |-> IF u = {} THEN 0 ELSE One(u).dur + g[u \ {One(u)}]]
<1>0. /\ Summary(a, s).total = MapThenSumSet(LAMBDA f : f.dur, own)
      /\ Summary(a, s).count = Cardinality({f \in own : ~f.cont})
  BY DEF Summary, Of
<1>1. /\ Summary(a, s).total = (CHOOSE g : Iter(g))[own]
      /\ Summary(a, s).count = Cardinality({f \in own : ~f.cont})
  BY <1>0, SameCardinality DEF MapThenSumSet, MapThenFoldSet, One
<1>2. IsFiniteSet(own)
  BY FS_Subset DEF Of
<1> HIDE DEF own
<1>3. ASSUME NEW g
      PROVE  Sums(g, own, v) <=> Iter(g)
  <2>1. \A u \in SUBSET own : u # {} => v[One(u)] = One(u).dur
    BY OneIn DEF Durations
  <2>2. [u \in SUBSET own |-> IF u = {} THEN 0 ELSE v[One(u)] + g[u \ {One(u)}]]
        = [u \in SUBSET own |-> IF u = {} THEN 0 ELSE One(u).dur + g[u \ {One(u)}]]
    BY <2>1
  <2> QED BY <2>2 DEF Sums
<1>4. \E g : Sums(g, own, v)
  BY <1>2, SumsExist
<1> HIDE DEF Iter, v
<1> DEFINE G == CHOOSE g : Iter(g)
           H == CHOOSE g : Sums(g, own, v)
<1>5. Sums(G, own, v) /\ Sums(H, own, v)
  BY <1>3, <1>4
<1> HIDE DEF G, H
<1>6. G[own] = H[own]
  <2>1. own \subseteq own /\ own \in SUBSET own
    OBVIOUS
  <2> QED BY <1>2, <1>5, <2>1, SumsAgree
<1> QED
  BY <1>1, <1>6 DEF Total, G, H, own, v

LEMMA SummaryTypes ==
    ASSUME NEW c \in SUBSET Fragments, IsFiniteSet(c), MaxTime \in Nat, NEW a
    PROVE  Summary(a, c).total \in Nat /\ Summary(a, c).count \in Nat
<1> DEFINE own == Of(a, c)
<1>1. IsFiniteSet(own) /\ IsFiniteSet({f \in own : ~f.cont})
  <2>1. IsFiniteSet(own)
    BY FS_Subset DEF Of
  <2> HIDE DEF own
  <2> QED BY <2>1, FS_Subset
<1>2. \A f \in own : Durations(own)[f] \in Nat
  BY DEF Fragments, Of, Durations
<1>3. Total(Durations(own), own) \in Nat
  <2> HIDE DEF own
  <2> QED BY <1>1, <1>2, TotalNat
<1>4. Cardinality({f \in own : ~f.cont}) \in Nat
  <2> HIDE DEF own
  <2> QED BY <1>1, FS_CardinalityType
<1> QED
  BY <1>3, <1>4, SummaryFacts

LEMMA TypesNext ==
    ASSUME TrackTypes, Clocks, [WindowNext]_windowVars
    PROVE  TrackTypes'
<1>1. /\ currentApp' \in Programs \cup {NoApp} /\ (currentApp' = NoApp <=> sessionStart' = None)
      /\ sessionStart' \in Times \cup {None} /\ sessionCounted' \in BOOLEAN
      /\ sessions' \subseteq Fragments /\ IsFiniteSet(sessions')
      /\ collected' \subseteq Fragments /\ IsFiniteSet(collected')
      /\ lastSampleAt' \in Times
      /\ observed' \in Seq(Samples)
      /\ cumulative' \in [Programs -> [total : Nat, count : Nat]]
  <2>1. /\ currentApp \in Programs \cup {NoApp} /\ (currentApp = NoApp <=> sessionStart = None)
        /\ sessionStart \in Times \cup {None} /\ sessionCounted \in BOOLEAN
        /\ sessions \subseteq Fragments /\ IsFiniteSet(sessions)
        /\ collected \subseteq Fragments /\ IsFiniteSet(collected)
        /\ lastSampleAt \in Times
        /\ observed \in Seq(Samples)
        /\ cumulative \in [Programs -> [total : Nat, count : Nat]]
        /\ MaxTime \in Nat
    BY ActiveWindowAssumption DEF TrackTypes, WindowTypeOK
  <2>2. CASE Quiet
    BY <2>1, <2>2 DEF Quiet, trackerState
  <2>3. CASE \E r \in getForegroundAppLinuxDetailed, away \in BOOLEAN : Sample(r, away)
    <3>1. PICK r \in getForegroundAppLinuxDetailed, away \in BOOLEAN : Sample(r, away)
      BY <2>3
    <3> DEFINE app == IF away THEN NoApp ELSE r.app
    <3>2. Hears(asked, app, r.guess) /\ (Stays(asked, app) \/ Moves(asked, app))
      BY <3>1, SampleCases
    <3> HIDE DEF app
    <3>3. UNCHANGED <<collected, cumulative>>
      BY <3>2 DEF Hears
    <3> QED BY <2>1, <3>2, <3>3, HeardTypes
  <2>4. CASE Collect
    <3>1. PICK c : Takes(c)
      BY <2>4, CollectCases
    <3>2. c \subseteq Fragments /\ IsFiniteSet(c)
      BY <3>1, TakesFacts
    <3>3. /\ sessions' = {} /\ collected' = collected \cup c
          /\ UNCHANGED <<currentApp, lastSampleAt, observed>>
          /\ cumulative' = [a \in Programs |->
                              [total |-> cumulative[a].total + Summary(a, c).total,
                               count |-> cumulative[a].count + Summary(a, c).count]]
          /\ \/ UNCHANGED <<sessionStart, sessionCounted>>
             \/ Focused /\ sessionStart' = lastSampleAt /\ sessionCounted' = TRUE
      BY <3>1 DEF Takes
    <3>4. IsFiniteSet(collected') /\ collected' \subseteq Fragments
      BY <2>1, <3>2, <3>3, FS_Union
    <3>5. IsFiniteSet(sessions') /\ sessions' \subseteq Fragments
      BY <3>3, FS_EmptySet
    <3>6. cumulative' \in [Programs -> [total : Nat, count : Nat]]
      <4>1. \A a \in Programs : Summary(a, c).total \in Nat /\ Summary(a, c).count \in Nat
        BY <2>1, <3>2, SummaryTypes
      <4>2. \A a \in Programs : cumulative[a].total \in Nat /\ cumulative[a].count \in Nat
        BY <2>1
      <4> QED BY <3>3, <4>1, <4>2
    <3>7. /\ (currentApp' = NoApp <=> sessionStart' = None)
          /\ sessionStart' \in Times \cup {None} /\ sessionCounted' \in BOOLEAN
      BY <2>1, <3>3, TrackFacts DEF Focused
    <3> QED BY <2>1, <3>3, <3>4, <3>5, <3>6, <3>7
  <2> QED BY <2>2, <2>3, <2>4, StepCases
<1>2. WindowTypeOK'
  BY <1>1, SamplerNext DEF WindowTypeOK
<1> QED
  BY <1>1, <1>2, SleepNext DEF TrackTypes

-----------------------------------------------------------------------------
(* The samples and the fragments. *)

\* Every sample is heard in one of two ways.
Heard == \E t, app, guess : Hears(t, app, guess) /\ (Stays(t, app) \/ Moves(t, app))

LEMMA Steps ==
    ASSUME TrackTypes, Clocks, [WindowNext]_windowVars
    PROVE  Quiet \/ Heard \/ \E c : Takes(c)
<1>1. CASE \E r \in getForegroundAppLinuxDetailed, away \in BOOLEAN : Sample(r, away)
  <2>1. PICK r \in getForegroundAppLinuxDetailed, away \in BOOLEAN : Sample(r, away)
    BY <1>1
  <2> DEFINE app == IF away THEN NoApp ELSE r.app
  <2>2. Hears(asked, app, r.guess) /\ (Stays(asked, app) \/ Moves(asked, app))
    BY <2>1, SampleCases
  <2> HIDE DEF app
  <2> QED BY <2>2 DEF Heard
<1>2. CASE Collect
  BY <1>2, CollectCases
<1> QED
  BY <1>1, <1>2, StepCases

LEMMA HeardSample ==
    ASSUME TrackTypes, NEW t, NEW app, NEW guess, Hears(t, app, guess)
    PROVE  LET n == Len(observed)
           IN  /\ n \in Nat /\ DOMAIN observed = 1..n /\ DOMAIN observed' = 1..(n + 1)
               /\ Len(observed') = n + 1
               /\ \A i \in 1..n : observed'[i] = observed[i]
               /\ observed'[n + 1].at = t.m /\ observed'[n + 1].app = app
               /\ observed'[n + 1].guess = guess
               /\ \A i \in 1..n : observed[i].at \in Nat /\ observed[i].app \in Programs \cup {NoApp}
<1>1. observed \in Seq(Samples)
  BY DEF TrackTypes
<1>2. observed' = Append(observed, [at |-> t.m, app |-> app, guess |-> guess])
  BY DEF Hears
<1>3. \A i \in DOMAIN observed : observed[i] \in Samples
  BY <1>1
<1> QED
  BY <1>1, <1>2, <1>3 DEF Samples

LEMMA FragmentFacts ==
    ASSUME NEW f \in Fragments
    PROVE  f.start.m \in Nat /\ f.end.m \in Nat /\ f.app \in Programs /\ f.cont \in BOOLEAN
BY Reading DEF Fragments

LEMMA SampledHeard ==
    ASSUME TrackTypes, Sampled, NEW t, NEW app, NEW guess, Hears(t, app, guess)
    PROVE  Sampled'
<1> DEFINE n == Len(observed)
<1>1. t.m \in Nat /\ lastSampleAt.m \in Nat /\ lastSampleAt.m < t.m
      /\ lastSampleAt' = t /\ currentApp' = app
  BY Reading, TrackFacts DEF Hears
<1>2. /\ n \in Nat /\ DOMAIN observed = 1..n /\ DOMAIN observed' = 1..(n + 1)
      /\ Len(observed') = n + 1
      /\ \A i \in 1..n : observed'[i] = observed[i] /\ observed[i].at \in Nat
      /\ observed'[n + 1].at = t.m /\ observed'[n + 1].app = app
  BY HeardSample
<1>3. observed' # <<>>
  BY <1>2
<1>4. \A i \in 1..n : observed[i].at <= lastSampleAt.m
  <2> SUFFICES ASSUME NEW i \in 1..n PROVE observed[i].at <= lastSampleAt.m
    OBVIOUS
  <2>1. n \in 1..n /\ observed # <<>>
    BY <1>2
  <2>2. observed[n].at = lastSampleAt.m
    BY <2>1 DEF Sampled
  <2>3. i \in DOMAIN observed /\ n \in DOMAIN observed
    BY <1>2, <2>1
  <2>4. i < n => observed[i].at < observed[n].at
    BY <2>3 DEF Sampled
  <2>5. observed[i].at \in Nat /\ observed[n].at \in Nat
    BY <1>2, <2>1
  <2> HIDE DEF n
  <2>6. i = n \/ i < n
    BY <1>2
  <2> QED BY <1>1, <2>2, <2>4, <2>5, <2>6
<1>5. \A i, j \in DOMAIN observed' : i < j => observed'[i].at < observed'[j].at
  <2> SUFFICES ASSUME NEW i \in DOMAIN observed', NEW j \in DOMAIN observed', i < j
               PROVE  observed'[i].at < observed'[j].at
    OBVIOUS
  <2>1. CASE j = n + 1
    BY <1>1, <1>2, <1>4, <2>1
  <2>2. CASE j # n + 1
    BY <1>2, <2>2 DEF Sampled
  <2> QED BY <2>1, <2>2
<1> QED
  BY <1>1, <1>2, <1>3, <1>5 DEF Sampled

LEMMA SampledNext ==
    ASSUME TrackTypes, Clocks, Sampled, [WindowNext]_windowVars
    PROVE  Sampled'
<1>1. CASE Quiet
  BY <1>1 DEF Quiet, trackerState, Sampled, Focused
<1>2. CASE Heard
  BY <1>2, SampledHeard DEF Heard
<1>3. ASSUME NEW c, Takes(c) PROVE Sampled'
  <2>1. /\ sessions' = {} /\ collected' = collected \cup c
        /\ UNCHANGED <<currentApp, lastSampleAt, observed>>
        /\ Focused \/ c = sessions
    BY <1>3 DEF Takes
  <2> QED BY <2>1 DEF Sampled, Focused
<1> QED
  BY <1>1, <1>2, <1>3, Steps

LEMMA PiecesMoves ==
    ASSUME TrackTypes, Pieces, NEW t, NEW app, NEW guess, Hears(t, app, guess), Moves(t, app)
    PROVE  Pieces'
<1> DEFINE e == IF Joins(t) THEN t ELSE lastSampleAt
           old == sessions \cup collected
<1>1. /\ t \in Times /\ t.m \in Nat /\ lastSampleAt.m \in Nat /\ lastSampleAt.m < t.m
      /\ lastSampleAt' = t /\ currentApp' = app /\ collected' = collected
      /\ lastSampleAt \in Times
  BY Reading, TrackFacts DEF Hears
<1>2. sessions' = sessions \cup Closing(e) /\ sessionStart' = IF app = NoApp THEN None ELSE t
  BY DEF Moves
<1>3. Frontier' = t.m /\ (Focused' => sessionStart'.m <= lastSampleAt'.m)
  BY <1>1, <1>2 DEF Frontier, Focused
<1>4. Frontier \in Nat /\ Frontier <= lastSampleAt.m
  BY <1>1, TrackFacts DEF Pieces, Frontier
<1>5. e \in Times /\ e.m \in Nat /\ lastSampleAt.m <= e.m /\ e.m <= t.m
  BY <1>1
<1>6. \A f \in old : f.start.m \in Nat /\ f.end.m \in Nat
                     /\ f.dur = f.end.m - f.start.m /\ f.dur > 0 /\ f.end.m <= Frontier
  BY FragmentFacts, TrackFacts DEF Pieces
<1> HIDE DEF e
<1>7. CASE Closing(e) = {}
  <2>1. sessions' = sessions
    BY <1>2, <1>7
  <2>2. \A f \in sessions, g \in collected : g.end.m <= f.start.m
    BY DEF Pieces
  <2>3. \A f, g \in old : f # g => Apart(f, g)
    BY DEF Pieces
  <2> QED BY <1>1, <1>3, <1>4, <1>6, <2>1, <2>2, <2>3 DEF Pieces, Apart
<1>8. CASE Closing(e) # {}
  <2> DEFINE x == Cut(e)
  <2>1. Focused /\ e.m - sessionStart.m > 0 /\ Closing(e) = {x}
    BY <1>8 DEF Closing
  <2>2. x.start.m = Frontier /\ x.end.m = e.m /\ x.dur = x.end.m - x.start.m
    BY <1>5, <2>1, CutFacts DEF Frontier
  <2>3. x.dur > 0
    BY <1>5, <2>1, CutFacts
  <2> HIDE DEF x
  <2>4. sessions' = sessions \cup {x}
    BY <1>2, <2>1
  <2>5. \A f \in sessions', g \in collected' : g.end.m <= f.start.m
    BY <1>1, <1>6, <2>2, <2>4 DEF Pieces
  <2>6. \A f \in sessions' \cup collected' :
            f.dur = f.end.m - f.start.m /\ f.dur > 0 /\ f.end.m <= t.m
    BY <1>1, <1>4, <1>5, <1>6, <2>2, <2>3, <2>4
  <2>7. \A f, g \in old : f # g => Apart(f, g)
    BY DEF Pieces
  <2>8. \A f, g \in sessions' \cup collected' : f # g => Apart(f, g)
    BY <1>1, <1>6, <2>2, <2>4, <2>7 DEF Apart
  <2> QED BY <1>3, <2>5, <2>6, <2>8 DEF Pieces, Apart
<1> QED
  BY <1>7, <1>8

LEMMA PiecesTakes ==
    ASSUME TrackTypes, Pieces, NEW c, Takes(c)
    PROVE  Pieces'
<1> DEFINE old == sessions \cup collected
<1>1. /\ sessions' = {} /\ collected' = collected \cup c
      /\ UNCHANGED <<currentApp, lastSampleAt>>
  BY DEF Takes
<1>2. \A f \in old : f.start.m \in Nat /\ f.end.m \in Nat
                     /\ f.dur = f.end.m - f.start.m /\ f.dur > 0 /\ f.end.m <= Frontier
  BY FragmentFacts, TrackFacts DEF Pieces
<1>3. \A f, g \in old : f # g => Apart(f, g)
  BY DEF Pieces
<1>4. Focused => sessionStart.m <= lastSampleAt.m
  BY DEF Pieces
<1>5. CASE c = sessions /\ UNCHANGED sessionStart
  BY <1>1, <1>2, <1>3, <1>4, <1>5 DEF Pieces, Apart, Frontier, Focused
<1>6. CASE /\ Focused /\ lastSampleAt.m - sessionStart.m > 0
           /\ c = sessions \cup {Cut(lastSampleAt)} /\ sessionStart' = lastSampleAt
  <2> DEFINE x == Cut(lastSampleAt)
  <2>1. lastSampleAt \in Times /\ lastSampleAt.m \in Nat /\ sessionStart.m \in Nat
    BY <1>6, TrackFacts
  <2>2. x.start.m = Frontier /\ x.end.m = lastSampleAt.m /\ x.dur = x.end.m - x.start.m
    BY <1>6, <2>1, CutFacts DEF Frontier
  <2>3. x.dur > 0 /\ Frontier \in Nat /\ Frontier <= lastSampleAt.m
    BY <1>4, <1>6, <2>1, CutFacts DEF Frontier
  <2> HIDE DEF x
  <2>4. collected' = old \cup {x}
    BY <1>1, <1>6 DEF x
  <2>5. Frontier' = lastSampleAt.m /\ (Focused' => sessionStart'.m <= lastSampleAt'.m)
    BY <1>1, <1>6, <2>1 DEF Frontier, Focused
  <2>6. \A f \in sessions' \cup collected' :
            f.dur = f.end.m - f.start.m /\ f.dur > 0 /\ f.end.m <= lastSampleAt.m
    BY <1>1, <1>2, <2>1, <2>2, <2>3, <2>4
  <2>7. \A f, g \in sessions' \cup collected' : f # g => Apart(f, g)
    BY <1>1, <1>2, <1>3, <2>2, <2>4 DEF Apart
  <2> QED BY <1>1, <2>5, <2>6, <2>7 DEF Pieces, Apart
<1> QED
  BY <1>5, <1>6 DEF Takes

LEMMA PiecesNext ==
    ASSUME TrackTypes, Clocks, Pieces, [WindowNext]_windowVars
    PROVE  Pieces'
<1>1. CASE Quiet
  BY <1>1 DEF Quiet, trackerState, Pieces, Focused, Frontier, Apart
<1>2. ASSUME NEW t, NEW app, NEW guess, Hears(t, app, guess), Stays(t, app) PROVE Pieces'
  <2>1. /\ UNCHANGED <<sessions, collected, sessionStart, currentApp>> /\ Focused
        /\ lastSampleAt' = t /\ lastSampleAt.m < t.m
    BY <1>2 DEF Stays, Same, Hears
  <2>2. t.m \in Nat /\ lastSampleAt.m \in Nat /\ sessionStart.m \in Nat
    BY <1>2, <2>1, Reading, TrackFacts DEF Hears
  <2> QED BY <2>1, <2>2 DEF Pieces, Focused, Frontier, Apart
<1>3. ASSUME NEW t, NEW app, NEW guess, Hears(t, app, guess), Moves(t, app) PROVE Pieces'
  BY <1>3, PiecesMoves
<1>4. ASSUME NEW c, Takes(c) PROVE Pieces'
  BY <1>4, PiecesTakes
<1> QED
  BY <1>1, <1>2, <1>3, <1>4, Steps DEF Heard

-----------------------------------------------------------------------------
(* The periods of focus. *)

LEMMA OpensHeard ==
    ASSUME TrackTypes, Sampled, NEW t, NEW app, NEW guess, Hears(t, app, guess),
           NEW n, n = Len(observed)
    PROVE  /\ \A i \in 1..n, a \in Programs : Opens(i, a)' <=> Opens(i, a)
           /\ \A a \in Programs : Opens(n + 1, a)' <=> a = app /\ ~Same(t, app)
<1>1. /\ n \in Nat /\ DOMAIN observed = 1..n /\ DOMAIN observed' = 1..(n + 1)
      /\ Len(observed') = n + 1
      /\ \A i \in 1..n : observed'[i] = observed[i]
      /\ observed'[n + 1].at = t.m /\ observed'[n + 1].app = app
  BY HeardSample
<1>2. n = 0 => observed = <<>>
  <2>1. observed \in Seq(Samples)
    BY DEF TrackTypes
  <2>2. Len(observed) = 0 => observed = <<>>
    BY <2>1
  <2> QED BY <2>2
<1>3. n # 0 => observed[n].at = lastSampleAt.m /\ observed[n].app = currentApp
  <2>1. n # 0 => observed # <<>>
    BY <1>1
  <2> QED BY <2>1 DEF Sampled
<1>4. n = 0 => ~Focused
  BY <1>2 DEF Sampled
<1>5. NoApp \notin Programs
  BY TrackFacts
<1>6. ASSUME NEW i \in 1..n, NEW a \in Programs
      PROVE  Opens(i, a)' <=> Opens(i, a)
  <2>1. i > 1 => i - 1 \in 1..n /\ i - 1 + 1 = i
    BY <1>1
  <2>2. observed'[i] = observed[i] /\ (i > 1 => observed'[i - 1] = observed[i - 1])
    BY <1>1, <2>1
  <2>3. i > 1 => (Joined(i - 1)' <=> Joined(i - 1))
    BY <1>5, <2>1, <2>2 DEF Joined
  <2> QED BY <2>2, <2>3 DEF Opens
<1>7. ASSUME NEW a \in Programs
      PROVE  Opens(n + 1, a)' <=> a = app /\ ~Same(t, app)
  <2>1. CASE n = 0
    <3>1. n + 1 = 1 /\ observed'[1].app = app
      BY <1>1, <2>1
    <3>2. Opens(1, a)' <=> app = a
      BY <3>1 DEF Opens
    <3> QED BY <1>4, <2>1, <3>1, <3>2 DEF Same
  <2>2. CASE n # 0
    <3>1. n + 1 > 1 /\ n + 1 # 1 /\ (n + 1) - 1 = n /\ n \in 1..n
      BY <1>1, <2>2
    <3>2. observed'[n] = observed[n]
      BY <1>1, <3>1
    <3>3. Joined(n)' <=> Joins(t)
      BY <1>1, <1>3, <1>5, <2>2, <3>2 DEF Joined, Joins
    <3>4. Opens(n + 1, a)' <=> app = a /\ ~(currentApp = a /\ Joins(t))
      BY <1>1, <1>3, <2>2, <3>1, <3>2, <3>3 DEF Opens
    <3> QED BY <1>5, <3>4 DEF Same, Focused
  <2> QED BY <2>1, <2>2
<1> QED
  BY <1>6, <1>7

\* A sample changes nothing about a stretch that ends before it.
LEMMA BeginsHeard ==
    ASSUME TrackTypes, Sampled, Sampled', NEW t, NEW app, NEW guess, Hears(t, app, guess),
           NEW a \in Programs, NEW from \in Nat, NEW to \in Int, NEW cont \in BOOLEAN,
           NEW upto \in Int,
           Begins(a, from, upto, cont), to < t.m, to <= upto \/ lastSampleAt.m <= upto
    PROVE  Begins(a, from, to, cont)'
<1>0. PICK n : n = Len(observed)
  OBVIOUS
<1>1. /\ n \in Nat /\ DOMAIN observed = 1..n /\ DOMAIN observed' = 1..(n + 1)
      /\ \A i \in 1..n : observed'[i] = observed[i] /\ observed[i].at \in Nat
      /\ observed'[n + 1].at = t.m
  BY <1>0, HeardSample
<1>2. \A i \in 1..n : Opens(i, a)' <=> Opens(i, a)
  BY <1>0, OpensHeard
<1>3. t.m \in Nat /\ lastSampleAt.m \in Nat
  BY Reading, TrackFacts DEF Hears
<1>4. \A i \in 1..n : observed[i].at <= lastSampleAt.m
  <2> SUFFICES ASSUME NEW i \in 1..n PROVE observed[i].at <= lastSampleAt.m
    OBVIOUS
  <2>1. n \in 1..n /\ observed # <<>>
    BY <1>1
  <2>2. observed[n].at = lastSampleAt.m
    BY <1>0, <2>1 DEF Sampled
  <2>3. i \in DOMAIN observed /\ n \in DOMAIN observed
    BY <1>1, <2>1
  <2>4. i < n => observed[i].at < observed[n].at
    BY <2>3 DEF Sampled
  <2>5. observed[i].at \in Nat /\ observed[n].at \in Nat
    BY <1>1, <2>1
  <2>6. i = n \/ i < n
    BY <1>1
  <2> QED BY <1>3, <2>2, <2>4, <2>5, <2>6
<1>5. ASSUME NEW i \in DOMAIN observed', Opens(i, a)', from <= observed'[i].at, observed'[i].at <= to
      PROVE  ~cont /\ observed'[i].at = from
  <2>1. i \in 1..n
    BY <1>1, <1>3, <1>5
  <2>2. Opens(i, a) /\ observed'[i] = observed[i] /\ observed[i].at \in Nat
    BY <1>1, <1>2, <1>5, <2>1
  <2>3. observed[i].at <= upto
    BY <1>3, <1>4, <1>5, <2>1, <2>2
  <2> QED BY <1>1, <1>5, <2>1, <2>2, <2>3 DEF Begins
<1>6. ASSUME ~cont
      PROVE  \E i \in DOMAIN observed' : Opens(i, a)' /\ observed'[i].at = from
  <2>1. PICK i \in DOMAIN observed : Opens(i, a) /\ observed[i].at = from
    BY <1>6 DEF Begins
  <2>2. i \in 1..n /\ i \in 1..(n + 1)
    BY <1>1, <2>1
  <2> QED BY <1>1, <1>2, <2>1, <2>2
<1> QED
  BY <1>5, <1>6 DEF Begins

LEMMA OpeningsMoves ==
    ASSUME TrackTypes, Sampled, Sampled', Pieces, Openings,
           NEW t, NEW app, NEW guess, Hears(t, app, guess), Moves(t, app)
    PROVE  Openings'
<1>0. PICK n, e, last, b, from, c :
        /\ n = Len(observed) /\ e = (IF Joins(t) THEN t ELSE lastSampleAt)
        /\ last = lastSampleAt.m /\ b = currentApp /\ from = sessionStart.m /\ c = sessionCounted
  OBVIOUS
<1>1. /\ t \in Times /\ t.m \in Nat /\ last \in Nat /\ last < t.m
      /\ lastSampleAt' = t /\ currentApp' = app /\ collected' = collected
      /\ lastSampleAt \in Times
  BY <1>0, Reading, TrackFacts DEF Hears
<1>2. /\ sessions' = sessions \cup Closing(e) /\ sessionCounted' = FALSE
      /\ sessionStart' = IF app = NoApp THEN None ELSE t
  BY <1>0 DEF Moves
<1>3. e \in Times /\ e.m \in Nat /\ last <= e.m /\ e.m <= t.m
  BY <1>0, <1>1
<1>4. ASSUME NEW f \in sessions \cup collected
      PROVE  Begins(f.app, f.start.m, f.end.m - 1, f.cont)'
  <2>1. f.start.m \in Nat /\ f.end.m \in Nat /\ f.app \in Programs /\ f.cont \in BOOLEAN
    BY FragmentFacts, TrackFacts
  <2>2. f.end.m <= last
    BY <1>0, <1>1, <2>1, TrackFacts DEF Pieces, Frontier
  <2>3. Begins(f.app, f.start.m, f.end.m - 1, f.cont)
    BY DEF Openings
  <2>4. f.end.m - 1 \in Int /\ f.end.m - 1 < t.m /\ f.end.m - 1 <= f.end.m - 1
    BY <1>1, <2>1, <2>2
  <2> QED BY <2>1, <2>3, <2>4, BeginsHeard
<1>5. ASSUME Closing(e) # {}
      PROVE  \A x \in Closing(e) : Begins(x.app, x.start.m, x.end.m - 1, x.cont)'
  <2>1. Focused /\ e.m - sessionStart.m > 0 /\ Closing(e) = {Cut(e)}
    BY <1>5 DEF Closing
  <2>2. /\ Cut(e).app = b /\ Cut(e).start.m = from /\ Cut(e).end.m = e.m /\ Cut(e).cont = c
        /\ b \in Programs /\ from \in Nat /\ c \in BOOLEAN
    BY <1>0, <1>3, <2>1, CutFacts, TrackFacts DEF Focused
  <2>3. Begins(b, from, last, c)
    BY <1>0, <2>1 DEF Openings
  <2>4. e.m - 1 \in Int /\ last \in Int /\ e.m - 1 < t.m /\ last <= last
    BY <1>1, <1>3
  <2>5. Begins(b, from, e.m - 1, c)'
    <3>1. \E to : to = e.m - 1
      OBVIOUS
    <3>2. PICK to : to = e.m - 1
      BY <3>1
    <3>3. Begins(b, from, to, c)'
      BY <1>0, <2>2, <2>3, <2>4, <3>2, BeginsHeard
    <3> QED BY <3>2, <3>3
  <2>6. SUFFICES ASSUME NEW x, x = Cut(e)
                 PROVE  Begins(x.app, x.start.m, x.end.m - 1, x.cont)'
    BY <2>1
  <2> QED BY <2>2, <2>5, <2>6
<1>6. ASSUME Focused'
      PROVE  Begins(currentApp, sessionStart.m, lastSampleAt.m, sessionCounted)'
  <2>1. /\ app # NoApp /\ app \in Programs /\ ~Same(t, app) /\ sessionStart' = t
    BY <1>1, <1>2, <1>6 DEF Focused, Hears, Moves
  <2>2. /\ n \in Nat /\ DOMAIN observed = 1..n /\ DOMAIN observed' = 1..(n + 1)
        /\ \A i \in 1..n : observed'[i] = observed[i]
        /\ observed'[n + 1].at = t.m
    BY <1>0, HeardSample
  <2>3. Opens(n + 1, app)'
    BY <1>0, <2>1, OpensHeard
  <2>4. n + 1 \in DOMAIN observed'
    BY <2>2
  <2>5. ASSUME NEW i \in DOMAIN observed', t.m <= observed'[i].at
        PROVE  i = n + 1
    <3>1. i # n + 1 => i < n + 1
      BY <2>2
    <3>2. i < n + 1 => observed'[i].at < observed'[n + 1].at
      BY <2>4 DEF Sampled
    <3>3. i \in 1..n => observed'[i].at \in Nat
      BY <1>0, <2>2, HeardSample
    <3> QED BY <1>1, <2>2, <2>5, <3>1, <3>2, <3>3
  <2>6. \A i \in DOMAIN observed' :
            t.m <= observed'[i].at /\ observed'[i].at <= t.m => observed'[i].at = t.m
    BY <2>2, <2>5
  <2> QED BY <1>1, <1>2, <2>1, <2>2, <2>3, <2>4, <2>6 DEF Begins
<1>7. \A f \in (sessions \cup collected)' : Begins(f.app, f.start.m, f.end.m - 1, f.cont)'
  <2> SUFFICES ASSUME NEW f \in sessions' \cup collected'
               PROVE  Begins(f.app, f.start.m, f.end.m - 1, f.cont)'
    OBVIOUS
  <2> QED BY <1>1, <1>2, <1>4, <1>5
<1> QED
  BY <1>6, <1>7 DEF Openings

LEMMA OpeningsStays ==
    ASSUME TrackTypes, Sampled, Sampled', Pieces, Openings,
           NEW t, NEW app, NEW guess, Hears(t, app, guess), Stays(t, app)
    PROVE  Openings'
<1>0. PICK n, last, from, c :
        /\ n = Len(observed)
        /\ last = lastSampleAt.m /\ from = sessionStart.m /\ c = sessionCounted
  OBVIOUS
<1>1. /\ t \in Times /\ t.m \in Nat /\ last \in Nat /\ last < t.m
      /\ lastSampleAt' = t /\ currentApp' = app
      /\ UNCHANGED <<collected, sessions, sessionStart, sessionCounted>>
      /\ Same(t, app) /\ Focused /\ app = currentApp /\ app \in Programs
      /\ from \in Nat /\ c \in BOOLEAN
  BY <1>0, Reading, TrackFacts DEF Hears, Stays, Same, Focused
<1>2. ASSUME NEW f \in sessions \cup collected
      PROVE  Begins(f.app, f.start.m, f.end.m - 1, f.cont)'
  <2>1. f.start.m \in Nat /\ f.end.m \in Nat /\ f.app \in Programs /\ f.cont \in BOOLEAN
    BY FragmentFacts, TrackFacts
  <2>2. f.end.m <= last
    BY <1>0, <1>1, <2>1, TrackFacts DEF Pieces, Frontier
  <2>3. Begins(f.app, f.start.m, f.end.m - 1, f.cont)
    BY DEF Openings
  <2>4. f.end.m - 1 \in Int /\ f.end.m - 1 < t.m /\ f.end.m - 1 <= f.end.m - 1
    BY <1>1, <2>1, <2>2
  <2> QED BY <2>1, <2>3, <2>4, BeginsHeard
<1>3. Begins(app, from, last, c)'
  <2>1. Begins(app, from, last, c)
    BY <1>0, <1>1 DEF Openings
  <2> QED BY <1>0, <1>1, <2>1, BeginsHeard
<1>4. /\ n \in Nat /\ DOMAIN observed = 1..n /\ DOMAIN observed' = 1..(n + 1)
      /\ \A i \in 1..n : observed'[i] = observed[i] /\ observed[i].at \in Nat
      /\ observed'[n + 1].at = t.m
  BY <1>0, HeardSample
<1>5. ~Opens(n + 1, app)'
  BY <1>0, <1>1, OpensHeard
<1>6. Sampled /\ \A i \in 1..n : observed[i].at <= last
  <2> SUFFICES ASSUME NEW i \in 1..n PROVE observed[i].at <= last
    OBVIOUS
  <2>1. n \in 1..n /\ observed # <<>>
    BY <1>4
  <2>2. observed[n].at = last
    BY <1>0, <2>1 DEF Sampled
  <2>3. i \in DOMAIN observed /\ n \in DOMAIN observed
    BY <1>4, <2>1
  <2>4. i < n => observed[i].at < observed[n].at
    BY <2>3 DEF Sampled
  <2>5. i = n \/ i < n
    BY <1>4
  <2> QED BY <1>1, <1>4, <2>1, <2>2, <2>4, <2>5
<1>7. Begins(app, from, t.m, c)'
  <2>1. ASSUME NEW i \in DOMAIN observed', Opens(i, app)', from <= observed'[i].at, observed'[i].at <= t.m
        PROVE  ~c /\ observed'[i].at = from
    <3>1. i \in 1..n
      BY <1>4, <1>5, <2>1
    <3>2. observed'[i].at <= last
      BY <1>4, <1>6, <3>1
    <3> QED BY <1>3, <2>1, <3>2 DEF Begins
  <2> QED BY <1>3, <2>1 DEF Begins
<1>8. Begins(currentApp, sessionStart.m, lastSampleAt.m, sessionCounted)'
  BY <1>0, <1>1, <1>7 DEF Begins
<1> QED
  BY <1>1, <1>2, <1>8 DEF Openings

LEMMA OpeningsTakes ==
    ASSUME TrackTypes, Openings, NEW c, Takes(c)
    PROVE  Openings'
<1>1. /\ sessions' = {} /\ collected' = collected \cup c
      /\ UNCHANGED <<currentApp, lastSampleAt, observed>>
  BY DEF Takes
<1>2. ASSUME NEW a, NEW from, NEW to, NEW cont, Begins(a, from, to, cont)
      PROVE  Begins(a, from, to, cont)'
  BY <1>1, <1>2 DEF Begins, Opens, Joined
<1>3. \A f \in sessions \cup collected : Begins(f.app, f.start.m, f.end.m - 1, f.cont)'
  <2> SUFFICES ASSUME NEW f \in sessions \cup collected
               PROVE  Begins(f.app, f.start.m, f.end.m - 1, f.cont)'
    OBVIOUS
  <2>1. Begins(f.app, f.start.m, f.end.m - 1, f.cont)
    BY DEF Openings
  <2> QED BY <1>2, <2>1
<1>4. CASE c = sessions /\ UNCHANGED <<sessionStart, sessionCounted>>
  <2>1. Focused' => Begins(currentApp, sessionStart.m, lastSampleAt.m, sessionCounted)'
    BY <1>1, <1>4 DEF Openings, Focused, Begins, Opens, Joined
  <2>2. (sessions \cup collected)' = sessions \cup collected
    BY <1>1, <1>4
  <2>3. \A f \in (sessions \cup collected)' : Begins(f.app, f.start.m, f.end.m - 1, f.cont)'
    BY <1>3, <2>2
  <2> QED BY <2>1, <2>3 DEF Openings
<1>5. CASE /\ Focused /\ lastSampleAt.m - sessionStart.m > 0
           /\ c = sessions \cup {Cut(lastSampleAt)}
           /\ sessionStart' = lastSampleAt /\ sessionCounted' = TRUE
  <2>0. PICK b, from, last, k : /\ b = currentApp /\ from = sessionStart.m
                                /\ last = lastSampleAt.m /\ k = sessionCounted
    OBVIOUS
  <2>1. lastSampleAt \in Times /\ last \in Nat /\ from \in Nat /\ last > from /\ b \in Programs
    BY <1>5, <2>0, TrackFacts DEF Focused
  <2>2. Begins(b, from, last, k)
    BY <1>5, <2>0 DEF Openings
  <2>3. \A i \in DOMAIN observed : observed[i].at \in Nat
    <3>1. observed \in Seq(Samples)
      BY DEF TrackTypes
    <3>2. \A i \in DOMAIN observed : observed[i] \in Samples
      BY <3>1
    <3> QED BY <3>2 DEF Samples
  <2>4. Begins(b, from, last - 1, k)'
    <3>1. \A i \in DOMAIN observed : observed[i].at <= last - 1 => observed[i].at <= last
      BY <2>1, <2>3
    <3>2. Begins(b, from, last, k)'
      BY <1>2, <2>2
    <3> QED BY <1>1, <3>1, <3>2 DEF Begins
  <2>5. ASSUME NEW x, x = Cut(lastSampleAt)
        PROVE  Begins(x.app, x.start.m, x.end.m - 1, x.cont)'
    <3>1. x.app = b /\ x.start.m = from /\ x.end.m = last /\ x.cont = k
      BY <1>5, <2>0, <2>1, <2>5, CutFacts
    <3> QED BY <2>4, <3>1
  <2>6. Begins(b, last, last, TRUE)'
    <3>1. ~\E i \in DOMAIN observed : Opens(i, b) /\ observed[i].at = last
      BY <2>1, <2>2 DEF Begins
    <3>2. \A i \in DOMAIN observed : last <= observed[i].at /\ observed[i].at <= last => observed[i].at = last
      BY <2>1, <2>3
    <3> QED BY <1>1, <3>1, <3>2 DEF Begins, Opens, Joined
  <2>7. Begins(currentApp, sessionStart.m, lastSampleAt.m, sessionCounted)'
    BY <1>1, <1>5, <2>0, <2>6 DEF Begins
  <2>8. (sessions \cup collected)' = sessions \cup collected \cup {Cut(lastSampleAt)}
    BY <1>1, <1>5
  <2>9. \A f \in (sessions \cup collected)' : Begins(f.app, f.start.m, f.end.m - 1, f.cont)'
    BY <1>3, <2>5, <2>8
  <2> QED BY <2>7, <2>9 DEF Openings
<1> QED
  BY <1>4, <1>5 DEF Takes

LEMMA OpeningsNext ==
    ASSUME TrackTypes, Clocks, Sampled, Pieces, Openings, [WindowNext]_windowVars
    PROVE  Openings'
<1>1. Sampled'
  BY SampledNext
<1>2. CASE Quiet
  BY <1>2 DEF Quiet, trackerState, Openings, Focused, Begins, Opens, Joined
<1>3. CASE Heard
  BY <1>1, <1>3, OpeningsMoves, OpeningsStays DEF Heard
<1>4. ASSUME NEW c, Takes(c) PROVE Openings'
  BY <1>4, OpeningsTakes
<1> QED
  BY <1>2, <1>3, <1>4, Steps

-----------------------------------------------------------------------------
(* What is seen is credited, and nothing else. *)

LEMMA InInstants ==
    ASSUME NEW fs, NEW a, NEW u
    PROVE  u \in Instants(fs, a) <=> \E f \in fs : f.app = a /\ u \in f.start.m..(f.end.m - 1)
<1> DEFINE I(f) == f.start.m..(f.end.m - 1)
           own == {f \in fs : f.app = a}
<1>1. Instants(fs, a) = UNION {I(f) : f \in own}
  BY DEF Instants
<1> HIDE DEF I
<1>2. u \in UNION {I(f) : f \in own} <=> \E f \in own : u \in I(f)
  <2>1. ASSUME u \in UNION {I(f) : f \in own} PROVE \E f \in own : u \in I(f)
    <3>1. PICK A \in {I(f) : f \in own} : u \in A
      BY <2>1
    <3> QED BY <3>1
  <2>2. ASSUME NEW f \in own, u \in I(f) PROVE u \in UNION {I(g) : g \in own}
    BY <2>2
  <2> QED BY <2>1, <2>2
<1> QED
  BY <1>1, <1>2 DEF I

LEMMA InSeen ==
    ASSUME NEW a, NEW u
    PROVE  u \in Seen(a) <=>
            \E i \in 1..(Len(observed) - 1) :
                observed[i].app = a /\ Joined(i) /\ u \in observed[i].at..(observed[i + 1].at - 1)
<1> DEFINE I(i) == observed[i].at..(observed[i + 1].at - 1)
           own == {i \in 1..(Len(observed) - 1) : observed[i].app = a /\ Joined(i)}
<1>1. Seen(a) = UNION {I(f) : f \in own}
  BY DEF Seen
<1> HIDE DEF I
<1>2. u \in UNION {I(f) : f \in own} <=> \E f \in own : u \in I(f)
  <2>1. ASSUME u \in UNION {I(f) : f \in own} PROVE \E f \in own : u \in I(f)
    <3>1. PICK A \in {I(f) : f \in own} : u \in A
      BY <2>1
    <3> QED BY <3>1
  <2>2. ASSUME NEW f \in own, u \in I(f) PROVE u \in UNION {I(g) : g \in own}
    BY <2>2
  <2> QED BY <2>1, <2>2
<1> QED
  BY <1>1, <1>2 DEF I

LEMMA SeenHeard ==
    ASSUME TrackTypes, Sampled, NEW t, NEW app, NEW guess, Hears(t, app, guess), NEW a \in Programs
    PROVE  Seen(a)' = Seen(a) \cup (IF currentApp = a /\ Joins(t)
                                        THEN lastSampleAt.m..(t.m - 1) ELSE {})
<1>0. PICK n : n = Len(observed)
  OBVIOUS
<1>1. /\ n \in Nat /\ DOMAIN observed = 1..n
      /\ Len(observed') = n + 1
      /\ \A i \in 1..n : observed'[i] = observed[i]
      /\ observed'[n + 1].at = t.m
  BY <1>0, HeardSample
<1>2. n # 0 => observed[n].at = lastSampleAt.m /\ observed[n].app = currentApp
  <2>1. n # 0 => observed # <<>>
    BY <1>1
  <2> QED BY <1>0, <2>1 DEF Sampled
<1>3. n = 0 => currentApp # a
  <2>1. n = 0 => observed = <<>>
    <3>1. observed \in Seq(Samples)
      BY DEF TrackTypes
    <3>2. Len(observed) = 0 => observed = <<>>
      BY <3>1
    <3> QED BY <1>0, <3>2
  <2> QED BY <2>1, TrackFacts DEF Sampled, Focused
<1> DEFINE Spans(i, u) ==
             observed[i].app = a /\ Joined(i) /\ u \in observed[i].at..(observed[i + 1].at - 1)
<1>4. \A i \in 1..(n - 1) : \A u : Spans(i, u)' <=> Spans(i, u)
  <2> SUFFICES ASSUME NEW i \in 1..(n - 1), NEW u PROVE Spans(i, u)' <=> Spans(i, u)
    OBVIOUS
  <2>1. i \in 1..n /\ i + 1 \in 1..n
    BY <1>1
  <2>2. observed'[i] = observed[i] /\ observed'[i + 1] = observed[i + 1]
    BY <1>1, <2>1
  <2> QED BY <2>2 DEF Joined
<1>5. ASSUME n # 0, NEW u
      PROVE  Spans(n, u)' <=> currentApp = a /\ Joins(t) /\ u \in lastSampleAt.m..(t.m - 1)
  <2>1. observed'[n] = observed[n]
    BY <1>1, <1>5
  <2> QED BY <1>1, <1>2, <1>5, <2>1 DEF Joined, Joins
<1>6. ASSUME NEW u
      PROVE  u \in Seen(a) <=> \E i \in 1..(n - 1) : Spans(i, u)
  BY <1>0, InSeen
<1>7. ASSUME NEW u
      PROVE  u \in Seen(a)' <=> \E i \in 1..n : Spans(i, u)'
  <2>1. u \in Seen(a)' <=> \E i \in 1..(Len(observed') - 1) : Spans(i, u)'
    <3>1. (u \in Seen(a) <=> \E i \in 1..(Len(observed) - 1) : Spans(i, u))'
      BY InSeen, PTL
    <3> QED BY <3>1
  <2>2. 1..(Len(observed') - 1) = 1..n
    BY <1>1
  <2> QED BY <2>1, <2>2
<1> HIDE DEF Spans
<1>8. ASSUME NEW u
      PROVE  u \in Seen(a)' <=>
                u \in Seen(a) \/ (currentApp = a /\ Joins(t) /\ u \in lastSampleAt.m..(t.m - 1))
  <2>1. CASE n = 0
    BY <1>3, <1>6, <1>7, <2>1
  <2>2. CASE n # 0
    <3>1. 1..n = 1..(n - 1) \cup {n}
      BY <1>1, <2>2
    <3>2. u \in Seen(a)' <=> (\E i \in 1..(n - 1) : Spans(i, u)') \/ Spans(n, u)'
      BY <1>7, <3>1
    <3> QED BY <1>4, <1>5, <1>6, <2>2, <3>2
  <2> QED BY <2>1, <2>2
<1> QED
  BY <1>8

Credits ==
    \A a \in Programs : Seen(a) = Instants(sessions \cup collected, a) \cup OpenInstants(a)

LEMMA InstantsMore ==
    ASSUME NEW fs, NEW gs, NEW a
    PROVE  Instants(fs \cup gs, a) = Instants(fs, a) \cup Instants(gs, a)
<1>1. \A u : u \in Instants(fs \cup gs, a)
              <=> u \in Instants(fs, a) \/ u \in Instants(gs, a)
  BY InInstants
<1> QED
  BY <1>1

LEMMA InstantsOne ==
    ASSUME NEW x, NEW a
    PROVE  Instants({x}, a) = IF x.app = a THEN x.start.m..(x.end.m - 1) ELSE {}
<1>1. \A u : u \in Instants({x}, a) <=> x.app = a /\ u \in x.start.m..(x.end.m - 1)
  BY InInstants
<1> QED
  BY <1>1

LEMMA InstantsNone == ASSUME NEW a PROVE Instants({}, a) = {}
<1>1. \A u : u \notin Instants({}, a)
  BY InInstants
<1> QED
  BY <1>1

LEMMA CreditsHeard ==
    ASSUME TrackTypes, Sampled, Pieces, Credits,
           NEW t, NEW app, NEW guess, Hears(t, app, guess), Stays(t, app) \/ Moves(t, app)
    PROVE  Credits'
<1> SUFFICES ASSUME NEW a \in Programs
             PROVE  Seen(a)' = (Instants(sessions \cup collected, a) \cup OpenInstants(a))'
  BY DEF Credits
<1> DEFINE fs == sessions \cup collected
           gap == IF currentApp = a /\ Joins(t) THEN lastSampleAt.m..(t.m - 1) ELSE {}
<1>1. Seen(a)' = Seen(a) \cup gap
  BY SeenHeard
<1>2. Seen(a) = Instants(fs, a) \cup OpenInstants(a)
  BY DEF Credits
<1>3. /\ t.m \in Nat /\ lastSampleAt.m \in Nat /\ lastSampleAt.m < t.m
      /\ lastSampleAt' = t /\ currentApp' = app /\ collected' = collected
      /\ t \in Times /\ lastSampleAt \in Times
  BY Reading, TrackFacts DEF Hears
<1>4. /\ NoApp \notin Programs
      /\ Focused => sessionStart.m \in Nat /\ sessionStart.m <= lastSampleAt.m
  BY TrackFacts DEF Pieces
<1>5. OpenInstants(a) = IF currentApp = a THEN sessionStart.m..(lastSampleAt.m - 1) ELSE {}
  BY DEF OpenInstants
<1>6. OpenInstants(a)' = IF app = a THEN sessionStart'.m..(t.m - 1) ELSE {}
  BY <1>3 DEF OpenInstants
<1>7. (Instants(fs, a))' = Instants(sessions' \cup collected, a)
  BY <1>3 DEF Instants
<1>8. CASE Stays(t, app)
  <2>1. sessions' = sessions /\ sessionStart' = sessionStart /\ Focused /\ app = currentApp /\ Joins(t)
    BY <1>8 DEF Stays, Same
  <2>2. OpenInstants(a)' = OpenInstants(a) \cup gap
    BY <1>3, <1>4, <1>5, <1>6, <2>1
  <2> QED BY <1>1, <1>2, <1>7, <2>1, <2>2
<1>9. CASE Moves(t, app)
  <2> DEFINE e == IF Joins(t) THEN t ELSE lastSampleAt
  <2>1. sessions' = sessions \cup Closing(e)
    BY <1>9 DEF Moves
  <2>2. OpenInstants(a)' = {}
    <3>1. app = a => sessionStart' = t
      BY <1>4, <1>9 DEF Moves
    <3> QED BY <1>3, <1>6, <3>1
  <2>3. Instants(sessions' \cup collected, a) = Instants(fs, a) \cup Instants(Closing(e), a)
    <3>1. sessions' \cup collected = fs \cup Closing(e)
      BY <2>1
    <3> HIDE DEF e, fs
    <3> QED BY <3>1, InstantsMore
  <2>4. e \in Times /\ e.m \in Nat /\ lastSampleAt.m <= e.m
        /\ (Joins(t) => e.m = t.m) /\ (~Joins(t) => e.m = lastSampleAt.m)
    BY <1>3
  <2>5. Instants(Closing(e), a) = OpenInstants(a) \cup gap
    <3> HIDE DEF e
    <3>1. CASE Focused /\ e.m - sessionStart.m > 0
      <4>1. Closing(e) = {Cut(e)}
        BY <3>1 DEF Closing
      <4>2. Cut(e).app = currentApp /\ Cut(e).start = sessionStart /\ Cut(e).end = e
        BY <2>4, <3>1, CutFacts
      <4>3. Instants(Closing(e), a) = IF currentApp = a THEN sessionStart.m..(e.m - 1) ELSE {}
        BY <4>1, <4>2, InstantsOne
      <4> QED BY <1>3, <1>4, <1>5, <2>4, <3>1, <4>3
    <3>2. CASE ~(Focused /\ e.m - sessionStart.m > 0)
      <4>1. Closing(e) = {}
        BY <3>2 DEF Closing
      <4>2. Instants(Closing(e), a) = {}
        BY <4>1, InstantsNone
      <4>3. currentApp = a => Focused
        BY <1>4 DEF Focused
      <4> QED BY <1>3, <1>4, <1>5, <2>4, <3>2, <4>2, <4>3
    <3> QED BY <3>1, <3>2
  <2> QED BY <1>1, <1>2, <1>7, <2>2, <2>3, <2>5
<1> QED
  BY <1>8, <1>9

LEMMA CreditsTakes ==
    ASSUME TrackTypes, Credits, NEW c, Takes(c)
    PROVE  Credits'
<1> SUFFICES ASSUME NEW a \in Programs
             PROVE  Seen(a)' = (Instants(sessions \cup collected, a) \cup OpenInstants(a))'
  BY DEF Credits
<1> DEFINE fs == sessions \cup collected
<1>1. /\ sessions' = {} /\ collected' = collected \cup c
      /\ UNCHANGED <<currentApp, lastSampleAt, observed>>
  BY DEF Takes
<1>2. Seen(a)' = Seen(a)
  BY <1>1 DEF Seen, Joined
<1>3. Seen(a) = Instants(fs, a) \cup OpenInstants(a)
  BY DEF Credits
<1>4. OpenInstants(a) = IF currentApp = a THEN sessionStart.m..(lastSampleAt.m - 1) ELSE {}
  BY DEF OpenInstants
<1>5. (Instants(fs, a))' = Instants(collected \cup c, a)
  <2>1. sessions' \cup collected' = collected \cup c
    BY <1>1
  <2>2. (Instants(fs, a))' = Instants(sessions' \cup collected', a)
    BY DEF Instants
  <2> QED BY <2>1, <2>2
<1>6. CASE c = sessions /\ UNCHANGED sessionStart
  <2>1. OpenInstants(a)' = OpenInstants(a)
    BY <1>1, <1>6 DEF OpenInstants
  <2>2. collected \cup c = fs
    BY <1>6
  <2> QED BY <1>2, <1>3, <1>5, <2>1, <2>2
<1>7. CASE /\ Focused /\ lastSampleAt.m - sessionStart.m > 0
           /\ c = sessions \cup {Cut(lastSampleAt)} /\ sessionStart' = lastSampleAt
  <2> DEFINE x == Cut(lastSampleAt)
  <2>1. lastSampleAt \in Times /\ lastSampleAt.m \in Nat
    BY TrackFacts
  <2>2. x.app = currentApp /\ x.start = sessionStart /\ x.end = lastSampleAt
    BY <1>7, <2>1, CutFacts
  <2>3. collected \cup c = fs \cup {x}
    BY <1>7
  <2>4. OpenInstants(a)' = {}
    BY <1>1, <1>7, <2>1 DEF OpenInstants
  <2> HIDE DEF x, fs
  <2>5. Instants({x}, a) = OpenInstants(a)
    BY <1>4, <2>2, InstantsOne
  <2>6. Instants(collected \cup c, a) = Instants(fs, a) \cup Instants({x}, a)
    BY <2>3, InstantsMore
  <2> QED BY <1>2, <1>3, <1>5, <2>4, <2>5, <2>6 DEF fs
<1> QED
  BY <1>6, <1>7 DEF Takes

LEMMA CreditsNext ==
    ASSUME TrackTypes, Clocks, Sampled, Pieces, Credits, [WindowNext]_windowVars
    PROVE  Credits'
<1>1. CASE Quiet
  BY <1>1 DEF Quiet, trackerState, Credits, Seen, Joined, Instants, OpenInstants
<1>2. CASE Heard
  BY <1>2, CreditsHeard DEF Heard
<1>3. ASSUME NEW c, Takes(c) PROVE Credits'
  BY <1>3, CreditsTakes
<1> QED
  BY <1>1, <1>2, <1>3, Steps

-----------------------------------------------------------------------------
(* The totals. *)

\* The samples that open a period of a within the instants of fs.
Beginnings(fs, a) ==
    {i \in 1..Len(observed) : Opens(i, a) /\ observed[i].at \in Instants(fs, a)}

Totals ==
    \A a \in Programs :
        /\ cumulative[a].total = Cardinality(Instants(collected, a))
        /\ cumulative[a].count = Cardinality(Beginnings(collected, a))

\* The durations of fragments that are apart add up to the instants they cover.
LEMMA TotalOfPieces ==
    ASSUME NEW c \in SUBSET Fragments, IsFiniteSet(c), NEW a,
           \A f \in c : f.dur = f.end.m - f.start.m /\ f.dur > 0,
           \A f, g \in c : f # g => Apart(f, g)
    PROVE  /\ IsFiniteSet(Instants(c, a))
           /\ Summary(a, c).total = Cardinality(Instants(c, a))
<1> DEFINE own == Of(a, c)
           F == [f \in own |-> f.start.m..(f.end.m - 1)]
           v == Durations(own)
<1>1. IsFiniteSet(own) /\ own \subseteq c
  BY FS_Subset DEF Of
<1>2. ASSUME NEW f \in own
      PROVE  /\ f.start.m \in Nat /\ f.end.m \in Nat
             /\ f.dur = f.end.m - f.start.m /\ f.dur > 0
  BY <1>1, FragmentFacts
<1>3. ASSUME NEW f \in own
      PROVE  IsFiniteSet(F[f]) /\ v[f] = Cardinality(F[f])
  <2>1. f.start.m \in Int /\ f.end.m - 1 \in Int /\ ~(f.start.m > f.end.m - 1)
    BY <1>2
  <2>2. /\ IsFiniteSet(f.start.m..(f.end.m - 1))
        /\ Cardinality(f.start.m..(f.end.m - 1)) = (f.end.m - 1) - f.start.m + 1
    BY <2>1, FS_Interval
  <2>3. (f.end.m - 1) - f.start.m + 1 = f.dur
    BY <1>2
  <2>4. v[f] = f.dur
    BY DEF Durations
  <2> QED BY <2>2, <2>3, <2>4
<1>4. ASSUME NEW f \in own, NEW g \in own, f # g
      PROVE  F[f] \cap F[g] = {}
  <2>1. Apart(f, g)
    BY <1>1, <1>4
  <2> QED BY <1>2, <2>1 DEF Apart
<1>5. Instants(c, a) = Over(F, own)
  <2>1. \A u : u \in Over(F, own) <=> \E f \in own : u \in F[f]
    <3> HIDE DEF F, own
    <3> QED BY InOver
  <2>2. \A u : u \in Instants(c, a) <=> \E f \in own : u \in F[f]
    <3> SUFFICES ASSUME NEW u PROVE u \in Instants(c, a) <=> \E f \in own : u \in F[f]
      OBVIOUS
    <3>1. u \in Instants(c, a) <=> \E f \in c : f.app = a /\ u \in f.start.m..(f.end.m - 1)
      BY InInstants
    <3>2. \A f : f \in own <=> f \in c /\ f.app = a
      BY DEF Of
    <3>3. \A f \in own : F[f] = f.start.m..(f.end.m - 1)
      OBVIOUS
    <3> HIDE DEF own, F
    <3> QED BY <3>1, <3>2, <3>3
  <2> QED BY <2>1, <2>2
<1> HIDE DEF own, F, v
<1>6. IsFiniteSet(Over(F, own)) /\ Total(v, own) = Cardinality(Over(F, own))
  <2>1. \A f \in own : IsFiniteSet(F[f]) /\ v[f] = Cardinality(F[f])
    BY <1>3
  <2>2. \A f, g \in own : f # g => F[f] \cap F[g] = {}
    BY <1>4
  <2> QED BY <1>1, <2>1, <2>2, TotalIsCardinality
<1> QED
  BY <1>5, <1>6, SummaryFacts DEF own, v

\* Every period of focus that begins in c begins with one fragment of c that
\* continues none.
LEMMA CountOfPieces ==
    ASSUME TrackTypes, Sampled,
           NEW c \in SUBSET Fragments, IsFiniteSet(c), NEW a,
           \A f \in c : f.dur = f.end.m - f.start.m /\ f.dur > 0,
           \A f, g \in c : f # g => Apart(f, g),
           \A f \in c : Begins(f.app, f.start.m, f.end.m - 1, f.cont)
    PROVE  Summary(a, c).count = Cardinality(Beginnings(c, a))
<1> DEFINE P == Beginnings(c, a)
           Q == {f \in Of(a, c) : ~f.cont}
           n == Len(observed)
<1>1. n \in Nat /\ DOMAIN observed = 1..n /\ \A i \in 1..n : observed[i].at \in Nat
  <2>1. observed \in Seq(Samples)
    BY DEF TrackTypes
  <2>2. \A i \in DOMAIN observed : observed[i] \in Samples
    BY <2>1
  <2> QED BY <2>1, <2>2 DEF Samples
<1>2. IsFiniteSet(P) /\ IsFiniteSet(Q)
  <2>1. IsFiniteSet(1..n)
    <3> HIDE DEF n
    <3> QED BY <1>1, FS_Interval
  <2>2. P \subseteq 1..n /\ Q \subseteq c
    BY DEF Beginnings, Of
  <2> QED BY <2>1, <2>2, FS_Subset
<1>3. \A f \in Q : /\ f \in c /\ f.app = a /\ ~f.cont
                   /\ f.start.m \in Nat /\ f.end.m \in Nat /\ f.start.m < f.end.m
                   /\ Begins(a, f.start.m, f.end.m - 1, f.cont)
  <2> SUFFICES ASSUME NEW f \in Q
               PROVE  /\ f \in c /\ f.app = a /\ ~f.cont
                      /\ f.start.m \in Nat /\ f.end.m \in Nat /\ f.start.m < f.end.m
                      /\ Begins(a, f.start.m, f.end.m - 1, f.cont)
    OBVIOUS
  <2>1. f \in c /\ f.app = a /\ ~f.cont
    BY DEF Of
  <2>2. f.start.m \in Nat /\ f.end.m \in Nat
    BY <2>1, FragmentFacts
  <2> QED BY <2>1, <2>2
<1>4. ASSUME NEW f \in Q
      PROVE  \E i \in P : observed[i].at = f.start.m
  <2>1. PICK i \in 1..n : Opens(i, a) /\ observed[i].at = f.start.m
    BY <1>1, <1>3 DEF Begins
  <2>2. f.start.m \in f.start.m..(f.end.m - 1)
    BY <1>3
  <2>3. observed[i].at \in Instants(c, a)
    BY <1>3, <2>1, <2>2, InInstants
  <2> QED BY <2>1, <2>3 DEF Beginnings
<1>5. ASSUME NEW i \in P
      PROVE  \E f \in Q : observed[i].at = f.start.m
  <2>1. i \in 1..n /\ Opens(i, a) /\ observed[i].at \in Instants(c, a)
    BY DEF Beginnings
  <2>2. PICK f \in c : f.app = a /\ observed[i].at \in f.start.m..(f.end.m - 1)
    BY <2>1, InInstants
  <2>3. f.start.m \in Nat /\ f.end.m \in Nat
    BY FragmentFacts
  <2>4. ~f.cont /\ observed[i].at = f.start.m
    BY <1>1, <2>1, <2>2, <2>3 DEF Begins
  <2> QED BY <2>2, <2>4 DEF Of
<1>6. ASSUME NEW f \in Q, NEW g \in Q, f.start.m = g.start.m
      PROVE  f = g
  <2>1. f # g => Apart(f, g)
    BY <1>3
  <2> QED BY <1>3, <1>6, <2>1 DEF Apart
<1>7. ASSUME NEW i \in P, NEW j \in P, observed[i].at = observed[j].at
      PROVE  i = j
  <2>1. i \in 1..n /\ j \in 1..n
    BY DEF Beginnings
  <2>2. (i < j => observed[i].at < observed[j].at) /\ (j < i => observed[j].at < observed[i].at)
    BY <1>1, <2>1 DEF Sampled
  <2>3. observed[i].at \in Nat
    BY <1>1, <2>1
  <2> HIDE DEF n, P
  <2>4. i = j \/ i < j \/ j < i
    BY <1>1, <2>1
  <2> QED BY <1>7, <2>2, <2>3, <2>4
<1> DEFINE start == [f \in Q |-> CHOOSE i \in P : observed[i].at = f.start.m]
<1>8. ASSUME NEW f \in Q
      PROVE  start[f] \in P /\ observed[start[f]].at = f.start.m
  <2> HIDE DEF P, Q
  <2> QED BY <1>4
<1> HIDE DEF P, Q, start
<1>9. start \in Bijection(Q, P)
  <2>1. start \in [Q -> P]
    BY <1>8 DEF start
  <2>2. \A f, g \in Q : start[f] = start[g] => f = g
    BY <1>6, <1>8
  <2>3. \A i \in P : \E f \in Q : start[f] = i
    <3> SUFFICES ASSUME NEW i \in P PROVE \E f \in Q : start[f] = i
      OBVIOUS
    <3>1. PICK f \in Q : observed[i].at = f.start.m
      BY <1>5
    <3> QED BY <1>7, <1>8, <3>1
  <2> QED BY <2>1, <2>2, <2>3 DEF Bijection, Injection, Surjection, IsInjective
<1>10. Cardinality(P) = Cardinality(Q)
  BY <1>2, <1>9, FS_Bijection DEF ExistsBijection
<1> QED
  BY <1>10, SummaryFacts DEF P, Q

LEMMA TakesAfter ==
    ASSUME TrackTypes, Pieces, NEW c, Takes(c)
    PROVE  \A f \in c, g \in collected : g.end.m <= f.start.m
<1>1. \A f \in sessions, g \in collected : g.end.m <= f.start.m
  BY DEF Pieces
<1>2. CASE c = sessions
  BY <1>1, <1>2
<1>3. CASE Focused /\ lastSampleAt.m - sessionStart.m > 0 /\ c = sessions \cup {Cut(lastSampleAt)}
  <2>1. lastSampleAt \in Times
    BY TrackFacts
  <2>2. Cut(lastSampleAt).start = sessionStart
    BY <1>3, <2>1, CutFacts
  <2>3. \A g \in collected : g.end.m <= sessionStart.m
    BY <1>3 DEF Pieces, Frontier
  <2> QED BY <1>1, <1>3, <2>2, <2>3
<1> QED
  BY <1>2, <1>3 DEF Takes

LEMMA TotalsTakes ==
    ASSUME TrackTypes, TrackTypes', Sampled, Pieces, Pieces', Openings', Totals, NEW c, Takes(c)
    PROVE  Totals'
<1>1. /\ sessions' = {} /\ collected' = collected \cup c
      /\ UNCHANGED observed
      /\ cumulative' = [a \in Programs |->
                          [total |-> cumulative[a].total + Summary(a, c).total,
                           count |-> cumulative[a].count + Summary(a, c).count]]
  BY DEF Takes
<1>2. c \in SUBSET Fragments /\ IsFiniteSet(c) /\ c \subseteq collected'
  BY <1>1, TakesFacts
<1>3. \A f \in c : f.dur = f.end.m - f.start.m /\ f.dur > 0
  BY <1>2 DEF Pieces
<1>4. \A f, g \in c : f # g => Apart(f, g)
  BY <1>2 DEF Pieces, Apart
<1>5. \A f \in c : Begins(f.app, f.start.m, f.end.m - 1, f.cont)
  BY <1>1, <1>2 DEF Openings, Begins, Opens, Joined
<1>6. collected \in SUBSET Fragments /\ IsFiniteSet(collected)
  BY TrackFacts DEF TrackTypes
<1>7. /\ \A f \in collected : f.dur = f.end.m - f.start.m /\ f.dur > 0
      /\ \A f, g \in collected : f # g => Apart(f, g)
  BY DEF Pieces
<1> SUFFICES ASSUME NEW a \in Programs
             PROVE  /\ cumulative'[a].total = Cardinality(Instants(collected, a)')
                    /\ cumulative'[a].count = Cardinality(Beginnings(collected, a)')
  BY DEF Totals
<1> DEFINE I == Instants(collected, a)
           J == Instants(c, a)
           B == Beginnings(collected, a)
           D == Beginnings(c, a)
<1>8. IsFiniteSet(I) /\ IsFiniteSet(J) /\ Summary(a, c).total = Cardinality(J)
  BY <1>2, <1>3, <1>4, <1>6, <1>7, TotalOfPieces
<1>9. Summary(a, c).count = Cardinality(D)
  BY <1>2, <1>3, <1>4, <1>5, CountOfPieces
<1>10. cumulative[a].total = Cardinality(I) /\ cumulative[a].count = Cardinality(B)
  BY DEF Totals
<1>11. Instants(collected \cup c, a) = I \cup J
  BY InstantsMore
<1>12. I \cap J = {}
  <2> SUFFICES ASSUME NEW u, u \in I, u \in J PROVE FALSE
    OBVIOUS
  <2>1. PICK g \in collected : u \in g.start.m..(g.end.m - 1)
    BY InInstants
  <2>2. PICK f \in c : u \in f.start.m..(f.end.m - 1)
    BY InInstants
  <2>3. g.end.m <= f.start.m /\ g.end.m \in Nat /\ f.start.m \in Nat /\ g.start.m \in Nat /\ f.end.m \in Nat
    BY <1>2, <1>6, TakesAfter, FragmentFacts
  <2> QED BY <2>1, <2>2, <2>3
<1>13. Beginnings(collected \cup c, a) = B \cup D /\ B \cap D = {}
  BY <1>11, <1>1, <1>12 DEF Beginnings
<1>14. IsFiniteSet(B) /\ IsFiniteSet(D)
  <2>1. IsFiniteSet(1..Len(observed))
    <3>1. Len(observed) \in Nat
      BY DEF TrackTypes
    <3> QED BY <3>1, FS_Interval
  <2>2. B \subseteq 1..Len(observed) /\ D \subseteq 1..Len(observed)
    BY DEF Beginnings
  <2> QED BY <2>1, <2>2, FS_Subset
<1>15. Beginnings(collected, a)' = Beginnings(collected \cup c, a)
  BY <1>1 DEF Beginnings, Opens, Joined, Instants
<1>19. Instants(collected, a)' = Instants(collected \cup c, a)
  BY <1>1 DEF Instants
<1> HIDE DEF I, J, B, D
<1>16. ASSUME NEW S, NEW T, IsFiniteSet(S), IsFiniteSet(T), S \cap T = {}
       PROVE  Cardinality(S \cup T) = Cardinality(S) + Cardinality(T)
  <2>1. Cardinality(S) \in Nat /\ Cardinality(T) \in Nat
    BY <1>16, FS_CardinalityType
  <2>2. Cardinality(S \cup T) = Cardinality(S) + Cardinality(T) - Cardinality(S \cap T)
    BY <1>16, FS_Union
  <2>3. Cardinality(S \cap T) = 0
    BY <1>16, FS_EmptySet
  <2> QED BY <2>1, <2>2, <2>3
<1>17. Cardinality(I \cup J) = Cardinality(I) + Cardinality(J)
  BY <1>8, <1>12, <1>16
<1>18. Cardinality(B \cup D) = Cardinality(B) + Cardinality(D)
  BY <1>13, <1>14, <1>16
<1> QED
  BY <1>1, <1>8, <1>9, <1>10, <1>11, <1>13, <1>15, <1>17, <1>18, <1>19

LEMMA TotalsHeard ==
    ASSUME TrackTypes, Sampled, Pieces, Totals, NEW t, NEW app, NEW guess, Hears(t, app, guess)
    PROVE  Totals'
<1>0. PICK n : n = Len(observed)
  OBVIOUS
<1>1. UNCHANGED <<collected, cumulative>> /\ t.m \in Nat /\ lastSampleAt.m < t.m
      /\ lastSampleAt.m \in Nat
  BY Reading, TrackFacts DEF Hears
<1>2. /\ n \in Nat /\ Len(observed') = n + 1
      /\ \A i \in 1..n : observed'[i] = observed[i]
      /\ observed'[n + 1].at = t.m
  BY <1>0, HeardSample
<1> SUFFICES ASSUME NEW a \in Programs
             PROVE  Beginnings(collected, a)' = Beginnings(collected, a)
                    /\ Instants(collected, a)' = Instants(collected, a)
  BY <1>1 DEF Totals
<1>3. Instants(collected, a)' = Instants(collected, a)
  BY <1>1 DEF Instants
<1>4. t.m \notin Instants(collected, a)
  <2> SUFFICES ASSUME t.m \in Instants(collected, a) PROVE FALSE
    OBVIOUS
  <2>1. PICK g \in collected : t.m \in g.start.m..(g.end.m - 1)
    BY InInstants
  <2>2. g.end.m \in Nat /\ g.start.m \in Nat
    BY FragmentFacts, TrackFacts
  <2>3. g.end.m <= lastSampleAt.m
    BY <1>1, <2>2, TrackFacts DEF Pieces, Frontier
  <2> QED BY <1>1, <2>1, <2>2, <2>3
<1>5. \A i \in 1..n : Opens(i, a)' <=> Opens(i, a)
  BY <1>0, OpensHeard
<1>6. Beginnings(collected, a)' =
        {i \in 1..(n + 1) : Opens(i, a)' /\ observed'[i].at \in Instants(collected, a)}
  BY <1>2, <1>3 DEF Beginnings
<1>7. Beginnings(collected, a) =
        {i \in 1..n : Opens(i, a) /\ observed[i].at \in Instants(collected, a)}
  BY <1>0 DEF Beginnings
<1>8. \A i : i \in 1..(n + 1) <=> i \in 1..n \/ i = n + 1
  BY <1>2
<1>9. \A i : i \in Beginnings(collected, a)' <=> i \in Beginnings(collected, a)
  BY <1>2, <1>4, <1>5, <1>6, <1>7, <1>8
<1> QED
  BY <1>3, <1>9

LEMMA TotalsNext ==
    ASSUME TrackTypes, Clocks, Sampled, Pieces, Openings, Totals, [WindowNext]_windowVars
    PROVE  Totals'
<1>1. CASE Quiet
  BY <1>1 DEF Quiet, trackerState, Totals, Beginnings, Opens, Joined, Instants
<1>2. CASE Heard
  BY <1>2, TotalsHeard DEF Heard
<1>3. ASSUME NEW c, Takes(c) PROVE Totals'
  BY <1>3, TypesNext, PiecesNext, OpeningsNext, TotalsTakes
<1> QED
  BY <1>1, <1>2, <1>3, Steps

-----------------------------------------------------------------------------
(* The quality. *)

\* The session of another user is named by a source of its own, whether or not
\* its application was guessed: the quality is known when nothing is guessed
\* there.
Named == Display # "bare" \/ ~AllowProcGuess

LEMMA AnswerQuality ==
    ASSUME TrackTypes, Named, NEW r \in getForegroundAppLinuxDetailed, r.app # NoApp
    PROVE  /\ r.source # ""
           /\ focusQuality(r.source) = IF r.guess THEN "estimated" ELSE "accurate"
<1>1. ASSUME NEW S, NEW x \in Answers(S), "" \notin S, "none" \notin S, "proc-guess" \notin S
      PROVE  x.source # "" /\ focusQuality(x.source) = "accurate" /\ ~x.guess
  BY <1>1 DEF Answers, focusQuality
<1>2. ASSUME NEW x \in Guesses("proc-guess"), x.app # NoApp
      PROVE  x.source # "" /\ focusQuality(x.source) = "estimated" /\ x.guess
  <2>1. PICK a \in Programs \cup {NoApp} : x = [app |-> a, source |-> "proc-guess", guess |-> a # NoApp]
    BY Zenon DEF Guesses
  <2>2. x.app = a /\ x.source = "proc-guess" /\ x.guess = (a # NoApp)
    BY <2>1
  <2>3. x.guess
    BY <1>2, <2>2
  <2> QED BY <2>2, <2>3 DEF focusQuality
<1>3. \A s : Nothing(s).app = NoApp
  BY DEF Nothing
<1>4. CASE Display = "bare"
  <2>1. ~AllowProcGuess
    BY <1>4 DEF Named
  <2>2. r \in Answers({"user-session"})
    BY <1>3, <1>4, <2>1 DEF getForegroundAppLinuxDetailed, getActiveWindowFromUserSessions
  <2> QED BY <1>1, <2>2
<1>5. ASSUME NEW S, "" \notin S, "none" \notin S, "proc-guess" \notin S,
             r \in Answers(S)
                   \cup (IF AllowProcGuess THEN Guesses("proc-guess") ELSE {Nothing("none")})
      PROVE  /\ r.source # ""
             /\ focusQuality(r.source) = IF r.guess THEN "estimated" ELSE "accurate"
  BY <1>1, <1>2, <1>3, <1>5
<1>6. CASE Display = "wayland"
  <2>1. r \in Answers({"gnome-extension", "gnome-eval", "kde", "sway"})
              \cup (IF AllowProcGuess THEN Guesses("proc-guess") ELSE {Nothing("none")})
    BY <1>6, Zenon DEF getForegroundAppLinuxDetailed
  <2> DEFINE S == {"gnome-extension", "gnome-eval", "kde", "sway"}
  <2>2. "" \notin S /\ "none" \notin S /\ "proc-guess" \notin S
    OBVIOUS
  <2> HIDE DEF S
  <2> QED BY <1>5, <2>1, <2>2 DEF S
<1>7. CASE Display # "bare" /\ Display # "wayland"
  <2>1. r \in Answers({"x11"})
              \cup (IF AllowProcGuess THEN Guesses("proc-guess") ELSE {Nothing("none")})
    BY <1>7, Zenon DEF getForegroundAppLinuxDetailed
  <2> DEFINE S == {"x11"}
  <2>2. "" \notin S /\ "none" \notin S /\ "proc-guess" \notin S
    OBVIOUS
  <2> HIDE DEF S
  <2> QED BY <1>5, <2>1, <2>2 DEF S
<1> QED
  BY <1>4, <1>6, <1>7

LEMMA QualityNext ==
    ASSUME TrackTypes, Clocks, Named, QualityOfSample, [WindowNext]_windowVars
    PROVE  QualityOfSample'
<1>1. CASE Quiet
  BY <1>1 DEF Quiet, trackerState, QualityOfSample
<1>2. CASE \E r \in getForegroundAppLinuxDetailed, away \in BOOLEAN : Sample(r, away)
  <2>1. PICK r \in getForegroundAppLinuxDetailed, away \in BOOLEAN : Sample(r, away)
    BY <1>2
  <2> DEFINE app == IF away THEN NoApp ELSE r.app
  <2>2. Hears(asked, app, r.guess)
    BY <2>1, SampleCases
  <2>3. focusSource' = SourceOf(r, app) /\ currentApp' = app
    BY <2>1, <2>2 DEF Sample, observe, Hears
  <2>4. app # NoApp => app = r.app
    OBVIOUS
  <2> HIDE DEF app
  <2>5. observed'[Len(observed')].app = app /\ observed'[Len(observed')].guess = r.guess
    BY <2>2, HeardSample
  <2>6. app # NoApp =>
            focusQuality(focusSource') = IF r.guess THEN "estimated" ELSE "accurate"
    BY <2>3, <2>4, AnswerQuality DEF SourceOf
  <2> QED BY <2>3, <2>5, <2>6 DEF QualityOfSample, focusQuality
<1>3. ASSUME NEW c, Takes(c) PROVE QualityOfSample'
  BY <1>3 DEF Takes, QualityOfSample
<1> QED
  BY <1>1, <1>2, <1>3, StepCases, CollectCases

-----------------------------------------------------------------------------
(* The theorems about the tracker. *)

TrackInv ==
    /\ TrackTypes /\ Clocks /\ Sampled /\ Pieces /\ Openings /\ Credits /\ Totals
    /\ Named => QualityOfSample

LEMMA TrackInit == ASSUME WindowInit PROVE TrackInv
<1>1. /\ currentApp = NoApp /\ sessions = {} /\ collected = {} /\ observed = <<>>
      /\ lastSampleAt.m = 0
      /\ cumulative = [a \in Programs |-> [total |-> 0, count |-> 0]]
  BY DEF WindowInit
<1>2. Sampled /\ Pieces /\ Openings
  BY <1>1 DEF Sampled, Pieces, Openings, Focused
<1>3. \A a : Instants({}, a) = {}
  BY InstantsNone
<1>4. NoApp \notin Programs
  BY ActiveWindowAssumption
<1>5. Credits
  <2> SUFFICES ASSUME NEW a \in Programs
               PROVE  Seen(a) = Instants(sessions \cup collected, a) \cup OpenInstants(a)
    BY DEF Credits
  <2>1. \A u : u \notin Seen(a)
    BY <1>1, InSeen
  <2>2. OpenInstants(a) = {}
    BY <1>1, <1>4 DEF OpenInstants
  <2>3. sessions \cup collected = {}
    BY <1>1
  <2> QED BY <1>3, <2>1, <2>2, <2>3
<1>6. Totals
  <2> SUFFICES ASSUME NEW a \in Programs
               PROVE  /\ cumulative[a].total = Cardinality(Instants(collected, a))
                      /\ cumulative[a].count = Cardinality(Beginnings(collected, a))
    BY DEF Totals
  <2>1. Instants(collected, a) = {} /\ cumulative[a].total = 0 /\ cumulative[a].count = 0
    BY <1>1, <1>3
  <2>2. Beginnings(collected, a) = {}
    BY <2>1 DEF Beginnings
  <2>3. Cardinality({}) = 0
    BY FS_EmptySet
  <2> QED BY <2>1, <2>2, <2>3
<1>7. QualityOfSample
  BY <1>1 DEF QualityOfSample
<1> QED
  BY <1>2, <1>5, <1>6, <1>7, TypesInit, ClocksInit DEF TrackInv

LEMMA TrackNext == ASSUME TrackInv, [WindowNext]_windowVars PROVE TrackInv'
<1> USE DEF TrackInv
<1>1. TrackTypes' /\ Clocks' /\ Sampled' /\ Pieces'
  BY TypesNext, ClocksNext, SampledNext, PiecesNext
<1>2. Openings' /\ Credits' /\ Totals'
  BY OpeningsNext, CreditsNext, TotalsNext
<1>3. Named' => QualityOfSample'
  BY QualityNext DEF Named
<1> QED
  BY <1>1, <1>2, <1>3

\* The invariant of the tracker is kept by every sample, restart of a session,
\* Collect and suspension: sample, observe, endSession and Collect.
THEOREM TrackInvariant == WindowSpec => []TrackInv
<1>1. WindowInit => TrackInv
  BY TrackInit
<1>2. TrackInv /\ [WindowNext]_windowVars => TrackInv'
  BY TrackNext
<1> QED
  BY <1>1, <1>2, PTL DEF WindowSpec

\* The tracker credits an application with the time at which the samples saw
\* it, all of it and nothing else, and (where the source of a sample tells a
\* guess, see Named) reports it with the quality of the last sample:
\* observe, endSession and Collect of the Linux tracker.
THEOREM FocusTimeIsSeen ==
    ASSUME Named
    PROVE  WindowSpec => []CreditInv
<1>1. TrackInv => CreditInv
  BY DEF TrackInv, TrackTypes, Credits, CreditInv, CreditedIsSeen, SeenIsCredited
<1> QED
  BY <1>1, TrackInvariant, PTL

\* The same of the time alone, wherever the agent runs.
THEOREM CreditIsExact ==
    WindowSpec => [](WindowTypeOK /\ CreditedIsSeen /\ SeenIsCredited)
<1>1. TrackInv => WindowTypeOK /\ CreditedIsSeen /\ SeenIsCredited
  BY DEF TrackInv, TrackTypes, Credits, CreditedIsSeen, SeenIsCredited
<1> QED
  BY <1>1, TrackInvariant, PTL

\* The cumulative totals count every instant that Collect handed out once, and
\* every period of focus once however often Collect cuts it.
THEOREM TotalsAreExact == WindowSpec => []TotalsAgree
<1>1. TrackInv => TotalsAgree
  BY SameCardinality DEF TrackInv, Totals, Beginnings, TotalsAgree
<1> QED
  BY <1>1, TrackInvariant, PTL
=============================================================================
