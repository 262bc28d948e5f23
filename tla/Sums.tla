-------------------------------- MODULE Sums ---------------------------------
(***************************************************************************)
(* Facts about sums over finite sets, as MapThenSumSet computes them: a sum*)
(* does not depend on the order in which it adds.  The bookkeeping of the  *)
(* manager and the trail of an order are stated with such sums.  And facts *)
(* about lists that keep some places of another, in their order: what a    *)
(* filter of the code leaves of its list.                                  *)
(***************************************************************************)
EXTENDS Integers, Sequences, FiniteSetsExt, FiniteSetTheorems, SequenceTheorems, WellFoundedInduction, TLAPS

(* The sum of g over T, as the modules write it. *)
Total(g, T) == MapThenSumSet(LAMBDA t : g[t], T)
(* The element of a set that a sum begins with. *)
One(s) == CHOOSE x \in s : TRUE
(* f gives the sums of g over the subsets of T. *)
SumsOf(g, f, T) == f = [s \in SUBSET T |-> IF s = {} THEN 0 ELSE g[One(s)] + f[s \ {One(s)}]]

(* A sum is defined by such a function, of which nothing says yet that there is one. *)
LEMMA TotalIs ==
  ASSUME NEW g, NEW T
  PROVE  Total(g, T) = (CHOOSE f : SumsOf(g, f, T))[T]
  BY DEF Total, SumsOf, One, MapThenSumSet, MapThenFoldSet

(* Some counterexample among finite sets is least: what takes the place of induction. *)
LEMMA LeastSubset ==
  ASSUME NEW S, NEW Bad, Bad \subseteq FiniteSubsetsOf(S), Bad # {}
  PROVE  \E T \in Bad : \A U \in Bad : U \subseteq T => U = T
  <1>1. IsWellFoundedOn(StrictSubsetOrdering(S), FiniteSubsetsOf(S))
    BY FS_StrictSubsetOrderingWellFounded
  <1>2. PICK T \in Bad : \A U \in Bad : <<U, T>> \notin StrictSubsetOrdering(S)
    BY <1>1, WFMin
  <1>3. ASSUME NEW U \in Bad, U \subseteq T PROVE U = T
    BY <1>2, <1>3 DEF StrictSubsetOrdering, FiniteSubsetsOf
  <1> QED BY <1>3

(* A set that is not empty has an element to begin with. *)
LEMMA OneIn == ASSUME NEW s, s # {} PROVE One(s) \in s
  BY DEF One

(* Two such functions give the same sums ... *)
LEMMA SumsUnique ==
  ASSUME NEW g, NEW S, NEW T, NEW U, NEW f, NEW h, SumsOf(g, f, T), SumsOf(g, h, U), NEW s, s \subseteq T, s \subseteq U,
         IsFiniteSet(s)
  PROVE  f[s] = h[s]
  <1> DEFINE Bad == {r \in FiniteSubsetsOf(s) : f[r] # h[r]}
  <1>1. ASSUME Bad # {} PROVE FALSE
    <2>1. PICK r \in Bad : \A q \in Bad : q \subseteq r => q = r
      <3>1. Bad \subseteq FiniteSubsetsOf(s)
        OBVIOUS
      <3> HIDE DEF Bad
      <3> QED BY <1>1, <3>1, LeastSubset
    <2>2. r \subseteq T /\ r \subseteq U /\ IsFiniteSet(r) /\ f[r] # h[r]
      BY <2>1 DEF FiniteSubsetsOf
    <2>3. r # {}
      BY <2>2 DEF SumsOf
    <2>4. One(r) \in r /\ r \ {One(r)} \in FiniteSubsetsOf(s)
      BY <2>1, <2>3, OneIn, FS_Subset DEF FiniteSubsetsOf
    <2>5. f[r \ {One(r)}] = h[r \ {One(r)}]
      BY <2>1, <2>4
    <2>6. f[r] = g[One(r)] + f[r \ {One(r)}]
      BY <2>2, <2>3 DEF SumsOf
    <2>7. h[r] = g[One(r)] + h[r \ {One(r)}]
      BY <2>2, <2>3 DEF SumsOf
    <2> QED BY <2>2, <2>5, <2>6, <2>7
  <1> QED BY <1>1 DEF FiniteSubsetsOf

(* ... and there is one: the sums over the smaller sets make it. *)
LEMMA SumsExist ==
  ASSUME NEW g, NEW T, IsFiniteSet(T)
  PROVE  SumsOf(g, CHOOSE f : SumsOf(g, f, T), T)
  <1> DEFINE Has(U) == \E f : SumsOf(g, f, U)
             Bad == {U \in FiniteSubsetsOf(T) : ~Has(U)}
             H(U) == CHOOSE f : SumsOf(g, f, U)
  <1>1. ASSUME Bad # {} PROVE FALSE
    <2>1. PICK U \in Bad : \A q \in Bad : q \subseteq U => q = U
      <3>1. Bad \subseteq FiniteSubsetsOf(T)
        OBVIOUS
      <3> HIDE DEF Bad
      <3> QED BY <1>1, <3>1, LeastSubset
    <2>2. U \in FiniteSubsetsOf(T) /\ ~Has(U)
      BY <2>1
    <2> DEFINE F == [s \in SUBSET U |-> IF s = {} THEN 0 ELSE g[One(s)] + H(s \ {One(s)})[s \ {One(s)}]]
    <2>3. ASSUME NEW s \in SUBSET U, s # {} PROVE F[s \ {One(s)}] = H(s \ {One(s)})[s \ {One(s)}]
      <3> DEFINE r == s \ {One(s)}
      <3>1. r \subseteq U /\ r # U /\ r \in FiniteSubsetsOf(T) /\ IsFiniteSet(r)
        BY <2>2, <2>3, OneIn, FS_Subset DEF FiniteSubsetsOf
      <3>2. SumsOf(g, H(r), r)
        BY <2>1, <3>1
      <3>3. CASE r = {}
        BY <3>1, <3>2, <3>3 DEF SumsOf
      <3>4. CASE r # {}
        <4> DEFINE q == r \ {One(r)}
        <4>1. q \subseteq U /\ q # U /\ q \in FiniteSubsetsOf(T) /\ IsFiniteSet(q) /\ q \subseteq r
          BY <3>1, FS_Subset DEF FiniteSubsetsOf
        <4>2. SumsOf(g, H(q), q)
          BY <2>1, <4>1
        <4> HIDE DEF H, q
        <4>3. H(q)[q] = H(r)[q]
          BY <3>2, <4>1, <4>2, SumsUnique
        <4>4. H(r)[r] = g[One(r)] + H(r)[q]
          BY <3>2, <3>4 DEF SumsOf, q
        <4>5. F[r] = g[One(r)] + H(q)[q]
          BY <3>1, <3>4 DEF q
        <4> QED BY <4>3, <4>4, <4>5
      <3> QED BY <3>3, <3>4
    <2>4. SumsOf(g, F, U)
      <3> HIDE DEF H
      <3> QED BY <2>3 DEF SumsOf
    <2> QED BY <2>2, <2>4
  <1>2. T \in FiniteSubsetsOf(T)
    BY DEF FiniteSubsetsOf
  <1> QED BY <1>1, <1>2

(* So a sum is its first element and the sum of the rest. *)
LEMMA TotalSums ==
  ASSUME NEW g, NEW T, IsFiniteSet(T), NEW s, s \subseteq T
  PROVE  Total(g, s) = IF s = {} THEN 0 ELSE g[One(s)] + Total(g, s \ {One(s)})
  <1> DEFINE H(U) == CHOOSE f : SumsOf(g, f, U)
             r == s \ {One(s)}
  <1>1. IsFiniteSet(s) /\ IsFiniteSet(r) /\ r \subseteq s
    BY FS_Subset
  <1>2. SumsOf(g, H(s), s) /\ SumsOf(g, H(r), r)
    BY <1>1, SumsExist
  <1>3. Total(g, s) = H(s)[s] /\ Total(g, r) = H(r)[r]
    BY TotalIs
  <1> HIDE DEF H
  <1>4. H(s)[r] = H(r)[r]
    BY <1>1, <1>2, SumsUnique
  <1>5. H(s)[s] = IF s = {} THEN 0 ELSE g[One(s)] + H(s)[r]
    <2> HIDE DEF r
    <2>1. H(s) = [q \in SUBSET s |-> IF q = {} THEN 0 ELSE g[One(q)] + H(s)[q \ {One(q)}]]
      BY <1>2 DEF SumsOf
    <2> QED BY <2>1 DEF r
  <1> QED BY <1>3, <1>4, <1>5

(* The sum over nothing is zero. *)
LEMMA TotalEmpty == ASSUME NEW g PROVE Total(g, {}) = 0
  BY TotalSums, FS_EmptySet

(* The figures of T are integers. *)
Whole(g, T) == \A u \in T : g[u] \in Int

(* ... and so those of a part of it. *)
LEMMA WholePart == ASSUME NEW g, NEW S, Whole(g, S), NEW T, T \subseteq S PROVE Whole(g, T)
  BY DEF Whole

(* A sum of integers is one. *)
LEMMA TotalInt ==
  ASSUME NEW g, NEW T, IsFiniteSet(T), Whole(g, T)
  PROVE  Total(g, T) \in Int
  <1> DEFINE Bad == {U \in FiniteSubsetsOf(T) : Total(g, U) \notin Int}
  <1>1. ASSUME Bad # {} PROVE FALSE
    <2>1. PICK U \in Bad : \A q \in Bad : q \subseteq U => q = U
      <3>1. Bad \subseteq FiniteSubsetsOf(T)
        OBVIOUS
      <3> HIDE DEF Bad
      <3> QED BY <1>1, <3>1, LeastSubset
    <2>2. U \subseteq T /\ IsFiniteSet(U) /\ Total(g, U) \notin Int
      BY <2>1 DEF FiniteSubsetsOf
    <2>3. U # {}
      BY <2>2, TotalEmpty
    <2>4. One(U) \in U /\ U \ {One(U)} \in FiniteSubsetsOf(T) /\ U \ {One(U)} # U
      BY <2>2, <2>3, OneIn, FS_Subset DEF FiniteSubsetsOf
    <2>5. Total(g, U \ {One(U)}) \in Int
      BY <2>1, <2>4
    <2>6. Total(g, U) = g[One(U)] + Total(g, U \ {One(U)})
      BY <2>2, <2>3, TotalSums
    <2> QED BY <2>2, <2>4, <2>5, <2>6 DEF Whole
  <1> QED BY <1>1 DEF FiniteSubsetsOf

(* One element more adds its figure, whatever the order of the others. *)
LEMMA TotalAdds ==
  ASSUME NEW g, NEW T, IsFiniteSet(T), NEW t, t \notin T, Whole(g, T \cup {t})
  PROVE  Total(g, T \cup {t}) = Total(g, T) + g[t]
  <1> DEFINE S == T \cup {t}
             Adds(U) == \A u \in S \ U : Total(g, U \cup {u}) = Total(g, U) + g[u]
             Bad == {U \in FiniteSubsetsOf(S) : ~Adds(U)}
  <1>1. ASSUME Bad # {} PROVE FALSE
    <2>1. PICK U \in Bad : \A q \in Bad : q \subseteq U => q = U
      <3>1. Bad \subseteq FiniteSubsetsOf(S)
        OBVIOUS
      <3> HIDE DEF Bad
      <3> QED BY <1>1, <3>1, LeastSubset
    <2>2. U \subseteq S /\ IsFiniteSet(U) /\ ~Adds(U)
      BY <2>1 DEF FiniteSubsetsOf
    <2>3. PICK u \in S \ U : Total(g, U \cup {u}) # Total(g, U) + g[u]
      BY <2>2
    <2> DEFINE R == U \cup {u}
               x == One(R)
    <2>4. IsFiniteSet(R) /\ R # {} /\ x \in R
      <3>1. R # {} /\ IsFiniteSet(R)
        BY <2>2, FS_AddElement
      <3> HIDE DEF R
      <3> QED BY <3>1, OneIn
    <2>5. Total(g, R) = g[x] + Total(g, R \ {x})
      BY <2>4, TotalSums
    <2>6. CASE x = u
      <3>1. R \ {x} = U
        BY <2>3, <2>6
      <3>2. Total(g, U) \in Int
        BY <2>2, WholePart, TotalInt
      <3> HIDE DEF x
      <3>3. Total(g, R) = g[u] + Total(g, U) /\ g[u] \in Int
        BY <2>3, <2>5, <2>6, <3>1 DEF Whole
      <3> QED BY <2>3, <3>2, <3>3
    <2>7. CASE x # u
      <3> DEFINE V == U \ {x}
      <3>1. x \in U /\ R \ {x} = V \cup {u} /\ U = V \cup {x} /\ V \subseteq U /\ V # U /\ u \in S \ V /\ x \in S \ V
        <4> HIDE DEF x
        <4> QED BY <2>2, <2>3, <2>4, <2>7
      <3>2. V \in FiniteSubsetsOf(S) /\ IsFiniteSet(V) /\ V \subseteq S
        BY <2>2, FS_Subset DEF FiniteSubsetsOf
      <3>3. Adds(V)
        BY <2>1, <3>1, <3>2
      <3>4. Total(g, V \cup {u}) = Total(g, V) + g[u] /\ Total(g, V \cup {x}) = Total(g, V) + g[x]
        BY <3>1, <3>3
      <3>5. Total(g, V) \in Int /\ g[x] \in Int /\ g[u] \in Int
        BY <3>1, <3>2, WholePart, TotalInt DEF Whole
      <3> HIDE DEF V, x, R
      <3>6. Total(g, U \cup {u}) = g[x] + (Total(g, V) + g[u]) /\ Total(g, U) = Total(g, V) + g[x]
        BY <2>5, <3>1, <3>4 DEF R
      <3> QED BY <2>3, <3>1, <3>5, <3>6
    <2> QED BY <2>6, <2>7
  <1>2. T \in FiniteSubsetsOf(S) /\ t \in S \ T
    BY DEF FiniteSubsetsOf
  <1> QED BY <1>1, <1>2

(* A sum depends on the figures of its elements only. *)
LEMMA TotalSame ==
  ASSUME NEW g, NEW h, NEW T, IsFiniteSet(T), \A t \in T : g[t] = h[t]
  PROVE  Total(g, T) = Total(h, T)
  <1> DEFINE Bad == {U \in FiniteSubsetsOf(T) : Total(g, U) # Total(h, U)}
  <1>1. ASSUME Bad # {} PROVE FALSE
    <2>1. PICK U \in Bad : \A q \in Bad : q \subseteq U => q = U
      <3>1. Bad \subseteq FiniteSubsetsOf(T)
        OBVIOUS
      <3> HIDE DEF Bad
      <3> QED BY <1>1, <3>1, LeastSubset
    <2>2. U \subseteq T /\ IsFiniteSet(U) /\ Total(g, U) # Total(h, U)
      BY <2>1 DEF FiniteSubsetsOf
    <2>3. U # {}
      BY <2>2, TotalEmpty
    <2>4. One(U) \in U /\ U \ {One(U)} \in FiniteSubsetsOf(T) /\ U \ {One(U)} # U
      BY <2>2, <2>3, OneIn, FS_Subset DEF FiniteSubsetsOf
    <2>5. Total(g, U \ {One(U)}) = Total(h, U \ {One(U)})
      BY <2>1, <2>4
    <2>6. Total(g, U) = g[One(U)] + Total(g, U \ {One(U)})
      BY <2>2, <2>3, TotalSums
    <2>7. Total(h, U) = h[One(U)] + Total(h, U \ {One(U)})
      BY <2>2, <2>3, TotalSums
    <2> QED BY <2>2, <2>4, <2>5, <2>6, <2>7
  <1> QED BY <1>1 DEF FiniteSubsetsOf

(* The figure of one element is the rest's difference. *)
LEMMA TotalDrops ==
  ASSUME NEW g, NEW T, IsFiniteSet(T), NEW t, t \in T, Whole(g, T)
  PROVE  Total(g, T \ {t}) = Total(g, T) - g[t]
  <1> DEFINE R == T \ {t}
  <1>1. IsFiniteSet(R) /\ t \notin R
    BY FS_Subset
  <1>2. R \cup {t} = T
    OBVIOUS
  <1>3. Whole(g, R) /\ g[t] \in Int
    BY DEF Whole
  <1> HIDE DEF R
  <1>4. Total(g, R \cup {t}) = Total(g, R) + g[t]
    <2>1. Whole(g, R \cup {t})
      BY <1>2
    <2> QED BY <1>1, <2>1, TotalAdds
  <1>5. Total(g, R) \in Int
    BY <1>1, <1>3, TotalInt
  <1>6. Total(g, T) = Total(g, R) + g[t]
    BY <1>2, <1>4
  <1>7. g[t] \in Int
    BY <1>3
  <1>8. Total(g, R) = Total(g, T) - g[t]
    BY <1>5, <1>6, <1>7
  <1> QED BY <1>8 DEF R

(* Figures that are zero add nothing. *)
LEMMA TotalZero ==
  ASSUME NEW g, NEW T, IsFiniteSet(T), \A t \in T : g[t] = 0
  PROVE  Total(g, T) = 0
  <1> DEFINE Bad == {U \in FiniteSubsetsOf(T) : Total(g, U) # 0}
  <1>1. ASSUME Bad # {} PROVE FALSE
    <2>1. PICK U \in Bad : \A q \in Bad : q \subseteq U => q = U
      <3>1. Bad \subseteq FiniteSubsetsOf(T)
        OBVIOUS
      <3> HIDE DEF Bad
      <3> QED BY <1>1, <3>1, LeastSubset
    <2>2. U \subseteq T /\ IsFiniteSet(U) /\ Total(g, U) # 0
      BY <2>1 DEF FiniteSubsetsOf
    <2>3. U # {}
      BY <2>2, TotalEmpty
    <2>4. One(U) \in U /\ U \ {One(U)} \in FiniteSubsetsOf(T) /\ U \ {One(U)} # U
      BY <2>2, <2>3, OneIn, FS_Subset DEF FiniteSubsetsOf
    <2>5. Total(g, U \ {One(U)}) = 0
      BY <2>1, <2>4
    <2>6. Total(g, U) = g[One(U)] + Total(g, U \ {One(U)})
      BY <2>2, <2>3, TotalSums
    <2> QED BY <2>2, <2>4, <2>5, <2>6
  <1> QED BY <1>1 DEF FiniteSubsetsOf

(* A part of a set and the rest of it together make its sum. *)
LEMMA TotalParts ==
  ASSUME NEW g, NEW T, IsFiniteSet(T), Whole(g, T), NEW R, R \subseteq T
  PROVE  Total(g, T \ R) + Total(g, R) = Total(g, T)
  <1> DEFINE Bad == {U \in FiniteSubsetsOf(T) : Total(g, T \ U) + Total(g, U) # Total(g, T)}
  <1>1. ASSUME Bad # {} PROVE FALSE
    <2>1. PICK U \in Bad : \A q \in Bad : q \subseteq U => q = U
      <3>1. Bad \subseteq FiniteSubsetsOf(T)
        OBVIOUS
      <3> HIDE DEF Bad
      <3> QED BY <1>1, <3>1, LeastSubset
    <2>2. U \subseteq T /\ IsFiniteSet(U) /\ Total(g, T \ U) + Total(g, U) # Total(g, T)
      BY <2>1 DEF FiniteSubsetsOf
    <2>3. U # {}
      <3>1. Total(g, T \ {}) + Total(g, {}) = Total(g, T)
        <4>1. T \ {} = T
          OBVIOUS
        <4>2. Total(g, T) \in Int
          BY TotalInt
        <4> QED BY <4>1, <4>2, TotalEmpty
      <3> QED BY <2>2, <3>1
    <2> DEFINE u == One(U)  V == U \ {u}
    <2>4. u \in U /\ V \in FiniteSubsetsOf(T) /\ V # U /\ V \subseteq U /\ IsFiniteSet(V)
      BY <2>2, <2>3, OneIn, FS_Subset DEF FiniteSubsetsOf
    <2>5. Total(g, T \ V) + Total(g, V) = Total(g, T)
      BY <2>1, <2>4
    <2>6. T \ U = (T \ V) \ {u} /\ u \in T \ V
      BY <2>2, <2>4
    <2>7. IsFiniteSet(T \ V) /\ Whole(g, T \ V) /\ Whole(g, U) /\ g[u] \in Int
      BY <2>2, <2>4, FS_Subset DEF Whole
    <2> HIDE DEF u, V
    <2>8. Total(g, T \ U) = Total(g, T \ V) - g[u]
      BY <2>6, <2>7, TotalDrops
    <2>9. Total(g, V) = Total(g, U) - g[u]
      BY <2>2, <2>4, <2>7, TotalDrops DEF V
    <2>10. Total(g, T \ V) \in Int /\ Total(g, U) \in Int
      BY <2>2, <2>7, TotalInt
    <2> QED BY <2>2, <2>5, <2>7, <2>8, <2>9, <2>10
  <1>2. R \in FiniteSubsetsOf(T)
    BY FS_Subset DEF FiniteSubsetsOf
  <1> QED BY <1>1, <1>2

(* One figure that is d larger makes the sum d larger. *)
LEMMA TotalRaised ==
  ASSUME NEW g, NEW h, NEW T, IsFiniteSet(T), Whole(g, T), NEW t \in T, NEW d \in Int,
         h[t] = g[t] + d, \A u \in T \ {t} : h[u] = g[u]
  PROVE  Total(h, T) = Total(g, T) + d
  <1>1. g[t] \in Int /\ h[t] \in Int
    BY DEF Whole
  <1>2. Whole(h, T)
    BY <1>1 DEF Whole
  <1>3. Total(g, T \ {t}) = Total(g, T) - g[t]
    BY TotalDrops
  <1>4. Total(h, T \ {t}) = Total(h, T) - h[t]
    BY <1>2, TotalDrops
  <1>5. Total(h, T \ {t}) = Total(g, T \ {t})
    <2>1. IsFiniteSet(T \ {t})
      BY FS_Subset
    <2> DEFINE R == T \ {t}
    <2> HIDE DEF R
    <2>2. IsFiniteSet(R) /\ \A u \in R : h[u] = g[u]
      BY <2>1 DEF R
    <2>3. Total(h, R) = Total(g, R)
      BY <2>2, TotalSame
    <2> QED BY <2>3 DEF R
  <1>6. Total(g, T) \in Int /\ Total(h, T) \in Int
    BY <1>2, TotalInt
  <1> QED BY <1>1, <1>3, <1>4, <1>5, <1>6

(* Figures that are not negative have no negative sum. *)
LEMMA TotalNat ==
  ASSUME NEW g, NEW T, IsFiniteSet(T), \A t \in T : g[t] \in Nat
  PROVE  Total(g, T) \in Nat
  <1> DEFINE Bad == {U \in FiniteSubsetsOf(T) : Total(g, U) \notin Nat}
  <1>1. ASSUME Bad # {} PROVE FALSE
    <2>1. PICK U \in Bad : \A q \in Bad : q \subseteq U => q = U
      <3>1. Bad \subseteq FiniteSubsetsOf(T)
        OBVIOUS
      <3> HIDE DEF Bad
      <3> QED BY <1>1, <3>1, LeastSubset
    <2>2. U \subseteq T /\ IsFiniteSet(U) /\ Total(g, U) \notin Nat
      BY <2>1 DEF FiniteSubsetsOf
    <2>3. U # {}
      BY <2>2, TotalEmpty
    <2>4. One(U) \in U /\ U \ {One(U)} \in FiniteSubsetsOf(T) /\ U \ {One(U)} # U
      BY <2>2, <2>3, OneIn, FS_Subset DEF FiniteSubsetsOf
    <2>5. Total(g, U \ {One(U)}) \in Nat
      BY <2>1, <2>4
    <2>6. Total(g, U) = g[One(U)] + Total(g, U \ {One(U)})
      BY <2>2, <2>3, TotalSums
    <2> QED BY <2>2, <2>4, <2>5, <2>6
  <1> QED BY <1>1 DEF FiniteSubsetsOf

(* One position more adds its figure: what a sum over a sequence gains. *)
LEMMA TotalAppends ==
  ASSUME NEW g, NEW h, NEW n \in Nat, \A k \in 1 .. n : g[k] \in Int /\ h[k] = g[k], h[n + 1] \in Int
  PROVE  /\ Total(h, 1 .. (n + 1)) = Total(g, 1 .. n) + h[n + 1]
         /\ Total(g, 1 .. n) \in Int
  <1> DEFINE S == 1 .. (n + 1)
             D == 1 .. n
             m == n + 1
  <1>1. IsFiniteSet(D)
    BY FS_Interval
  <1>2. m \notin D
    OBVIOUS
  <1>10. S = D \cup {m}
    OBVIOUS
  <1>3. \A k \in D : g[k] \in Int
    OBVIOUS
  <1>4. \A k \in D : h[k] = g[k]
    OBVIOUS
  <1>5. h[m] \in Int
    OBVIOUS
  <1> HIDE DEF S, D, m
  <1>6. Whole(h, D \cup {m})
    BY <1>3, <1>4, <1>5 DEF Whole
  <1>7. Total(h, D \cup {m}) = Total(h, D) + h[m]
    BY <1>1, <1>2, <1>6, TotalAdds
  <1>8. Total(h, D) = Total(g, D)
    BY <1>1, <1>4, TotalSame
  <1>9. Total(g, D) \in Int
    BY <1>1, <1>3, TotalInt DEF Whole
  <1> QED BY <1>7, <1>8, <1>9, <1>10 DEF S, D, m

-----------------------------------------------------------------------------
(* The larger and the smaller of two numbers. *)
LEMMA MinOfTwo == ASSUME NEW a \in Int, NEW b \in Int PROVE Min({a, b}) = IF a <= b THEN a ELSE b
  <1>1. PICK m : m = (IF a <= b THEN a ELSE b)
    OBVIOUS
  <1>2. m \in {a, b} /\ \A y \in {a, b} : m <= y
    BY <1>1
  <1>3. \A x \in {a, b} : (\A y \in {a, b} : x <= y) => x = m
    BY <1>1
  <1> QED BY <1>1, <1>2, <1>3 DEF Min

LEMMA MaxOfTwo == ASSUME NEW a \in Int, NEW b \in Int PROVE Max({a, b}) = IF a >= b THEN a ELSE b
  <1>1. PICK m : m = (IF a >= b THEN a ELSE b)
    OBVIOUS
  <1>2. m \in {a, b} /\ \A y \in {a, b} : m >= y
    BY <1>1
  <1>3. \A x \in {a, b} : (\A y \in {a, b} : x >= y) => x = m
    BY <1>1
  <1> QED BY <1>1, <1>2, <1>3 DEF Max

(* A set of natural numbers has a least one. *)
LEMMA LeastNatural ==
  ASSUME NEW S, S \subseteq Nat, S # {}
  PROVE  \E m \in S : \A k \in S : m <= k
  <1> DEFINE Segment(n) == {k \in S : k <= n}
             Segments == {Segment(n) : n \in S}
  <1>1. Segments \subseteq FiniteSubsetsOf(S)
    <2> SUFFICES ASSUME NEW n \in S PROVE IsFiniteSet(Segment(n))
      BY DEF FiniteSubsetsOf
    <2>1. Segment(n) \in SUBSET Nat /\ n \in Nat /\ \A s \in Segment(n) : s <= n
      OBVIOUS
    <2> HIDE DEF Segment
    <2> QED BY <2>1, FS_BoundedSetOfNaturals
  <1>2. Segments # {}
    OBVIOUS
  <1>3. PICK T \in Segments :
          \A U \in Segments : <<U, T>> \notin StrictSubsetOrdering(S)
    <2> HIDE DEF Segments
    <2>1. IsWellFoundedOn(StrictSubsetOrdering(S), FiniteSubsetsOf(S))
      BY FS_StrictSubsetOrderingWellFounded
    <2> QED BY <1>1, <1>2, <2>1, WFMin
  <1>4. PICK m \in S : T = Segment(m)
    OBVIOUS
  <1>5. ASSUME NEW k \in S, ~(m <= k) PROVE FALSE
    <2>0. m \in Nat /\ k \in Nat /\ k < m
      BY <1>5
    <2>1. Segment(k) \subseteq Segment(m) /\ m \in Segment(m) /\ m \notin Segment(k)
      <3>1. m \in Segment(m) /\ m \notin Segment(k)
        BY <2>0
      <3>2. ASSUME NEW j \in S, j <= k PROVE j <= m
        <4>1. j \in Nat
          OBVIOUS
        <4> QED BY <2>0, <3>2, <4>1
      <3> QED BY <3>1, <3>2
    <2>2. Segment(k) \in SUBSET S /\ T \in SUBSET S /\ Segment(k) \in Segments
      BY <1>4
    <2> HIDE DEF Segment, Segments
    <2>3. Segment(k) # T
      BY <1>4, <2>1
    <2>4. <<Segment(k), T>> \in StrictSubsetOrdering(S)
      BY <1>4, <2>1, <2>2, <2>3 DEF StrictSubsetOrdering
    <2> QED BY <1>3, <2>2, <2>4
  <1> QED BY <1>5

(* What holds of the first number and, from each to the next, of them all. *)
LEMMA CountUp ==
  ASSUME NEW n \in Nat, NEW S, 0 \in S, \A i \in 1 .. n : i - 1 \in S => i \in S
  PROVE  0 .. n \subseteq S
  <1> DEFINE Bad == {i \in 0 .. n : i \notin S}
  <1>1. ASSUME Bad # {} PROVE FALSE
    <2>1. Bad \subseteq Nat
      OBVIOUS
    <2>2. PICK m \in Bad : \A k \in Bad : m <= k
      <3> HIDE DEF Bad
      <3> QED BY <1>1, <2>1, LeastNatural
    <2>3. m \in 1 .. n /\ m \notin S /\ m - 1 \in 0 .. n
      BY <2>2
    <2>4. m - 1 \in S
      BY <2>2, <2>3
    <2> QED BY <2>3, <2>4
  <1> QED BY <1>1

(* A function given by its first value and by how each follows from the one before: there is one. *)
FoldedFrom(f, base, n, F) == \A i \in 0 .. n : f[i] = IF i = 0 THEN base ELSE F[<<i, f[i - 1]>>]

LEMMA FoldExists ==
  ASSUME NEW A, NEW base \in A, NEW n \in Nat, NEW F, \A i \in 1 .. n, a \in A : F[<<i, a>>] \in A
  PROVE  \E f \in [0 .. n -> A] : FoldedFrom(f, base, n, F)
  <1> DEFINE Has(k) == \E f \in [0 .. k -> A] : \A i \in 0 .. k : f[i] = IF i = 0 THEN base ELSE F[<<i, f[i - 1]>>]
             S == {k \in 0 .. n : Has(k)}
  <1>1. 0 \in S
    <2> DEFINE f == [i \in 0 .. 0 |-> base]
    <2>1. f \in [0 .. 0 -> A] /\ \A i \in 0 .. 0 : f[i] = IF i = 0 THEN base ELSE F[<<i, f[i - 1]>>]
      OBVIOUS
    <2>2. Has(0)
      BY <2>1
    <2> QED BY <2>2
  <1>2. ASSUME NEW k \in 1 .. n, k - 1 \in S PROVE k \in S
    <2>1. PICK f \in [0 .. k - 1 -> A] : \A i \in 0 .. k - 1 : f[i] = IF i = 0 THEN base ELSE F[<<i, f[i - 1]>>]
      BY <1>2
    <2> DEFINE h == [i \in 0 .. k |-> IF i = k THEN F[<<k, f[k - 1]>>] ELSE f[i]]
    <2>2. F[<<k, f[k - 1]>>] \in A
      BY <2>1
    <2>3. h \in [0 .. k -> A]
      BY <2>1, <2>2
    <2>4. ASSUME NEW i \in 0 .. k PROVE h[i] = IF i = 0 THEN base ELSE F[<<i, h[i - 1]>>]
      <3>1. CASE i = k
        <4>1. k - 1 \in 0 .. k /\ k - 1 # k /\ i # 0
          BY <3>1
        <4>2. h[k - 1] = f[k - 1] /\ h[k] = F[<<k, f[k - 1]>>]
          BY <4>1
        <4> QED BY <3>1, <4>1, <4>2
      <3>2. CASE i # k
        <4>1. i \in 0 .. k - 1 /\ h[i] = f[i]
          BY <3>2
        <4>2. i # 0 => i - 1 \in 0 .. k - 1 /\ h[i - 1] = f[i - 1]
          BY <4>1
        <4>3. f[i] = IF i = 0 THEN base ELSE F[<<i, f[i - 1]>>]
          BY <2>1, <4>1
        <4> HIDE DEF h
        <4> QED BY <4>1, <4>2, <4>3
      <3> QED BY <3>1, <3>2
    <2> HIDE DEF h
    <2>7. Has(k)
      BY <2>3, <2>4
    <2> HIDE DEF Has
    <2> QED BY <2>7
  <1>3. 0 .. n \subseteq S
    <2> HIDE DEF S
    <2> QED BY <1>1, <1>2, CountUp
  <1> QED BY <1>3 DEF FoldedFrom

(* A function whose value at a number is given by its values below: there is one. *)
Agree(g, h, i) == \A j \in 0 .. i - 1 : g[j] = h[j]
FromBelow(F, A, n) ==
  /\ \A i \in 0 .. n : \A g \in [0 .. n -> A] : F[<<i, g>>] \in A
  /\ \A i \in 0 .. n : \A g, h \in [0 .. n -> A] : Agree(g, h, i) => F[<<i, g>>] = F[<<i, h>>]
Solves(f, F, n) == \A i \in 0 .. n : f[i] = F[<<i, f>>]

LEMMA RecursionExists ==
  ASSUME NEW A, NEW n \in Nat, NEW F, NEW g0 \in [0 .. n -> A], FromBelow(F, A, n)
  PROVE  \E f \in [0 .. n -> A] : Solves(f, F, n)
  <1> DEFINE T == [0 .. n -> A]
             Upto(f, k) == \A i \in 0 .. k : f[i] = F[<<i, f>>]
             S == {k \in 0 .. n : \E f \in T : Upto(f, k)}
  <1>1. ASSUME NEW f \in T, NEW k \in 0 .. n, \A i \in 0 .. k - 1 : f[i] = F[<<i, f>>]
        PROVE  \E h \in T : Upto(h, k)
    <2>1. PICK x \in A : x = F[<<k, f>>]
      BY DEF FromBelow
    <2>2. PICK h \in T : h = [f EXCEPT ![k] = x]
      OBVIOUS
    <2>3. h[k] = x /\ \A j \in 0 .. k - 1 : h[j] = f[j]
      BY <2>2
    <2>4. ASSUME NEW i \in 0 .. k PROVE h[i] = F[<<i, h>>]
      <3>1. Agree(h, f, i)
        BY <2>3 DEF Agree
      <3>2. F[<<i, h>>] = F[<<i, f>>]
        <4>1. i \in 0 .. n
          OBVIOUS
        <4> QED BY <3>1, <4>1 DEF FromBelow
      <3>3. CASE i = k
        BY <2>1, <2>3, <3>2, <3>3
      <3>4. CASE i # k
        <4>1. i \in 0 .. k - 1
          BY <3>4
        <4> QED BY <1>1, <2>3, <3>2, <4>1
      <3> QED BY <3>3, <3>4
    <2> QED BY <2>4
  <1>2. 0 \in S
    <2>1. \A i \in 0 .. 0 - 1 : g0[i] = F[<<i, g0>>]
      OBVIOUS
    <2>2. \E h \in T : Upto(h, 0)
      <3>1. 0 \in 0 .. n
        OBVIOUS
      <3> QED BY <1>1, <2>1, <3>1
    <2>3. 0 \in 0 .. n
      OBVIOUS
    <2> HIDE DEF Upto
    <2> QED BY <2>2, <2>3, Zenon
  <1>3. ASSUME NEW k \in 1 .. n, k - 1 \in S PROVE k \in S
    <2>1. PICK f \in T : Upto(f, k - 1)
      BY <1>3
    <2>2. \E h \in T : Upto(h, k)
      <3>1. k \in 0 .. n /\ \A i \in 0 .. k - 1 : f[i] = F[<<i, f>>]
        BY <2>1
      <3> HIDE DEF Upto, T
      <3> QED BY <1>1, <3>1
    <2>3. k \in 0 .. n
      OBVIOUS
    <2> HIDE DEF Upto
    <2> QED BY <2>2, <2>3, Zenon
  <1>4. 0 .. n \subseteq S
    <2> HIDE DEF S
    <2> QED BY <1>2, <1>3, CountUp
  <1>5. n \in S
    <2>1. n \in 0 .. n
      OBVIOUS
    <2> HIDE DEF S
    <2> QED BY <1>4, <2>1
  <1> QED BY <1>5 DEF Solves

-----------------------------------------------------------------------------
(* The elements of a list at some of its places, in their order: the place  *)
(* of an element among those kept is the number of places kept before it.   *)
Rank(K, i) == Cardinality({j \in K : j < i})
Listed(q, K) == [n \in 1 .. Cardinality(K) |-> q[CHOOSE i \in K : Rank(K, i) = n - 1]]

LEMMA RankInRange ==
  ASSUME NEW K \in SUBSET Int, IsFiniteSet(K), NEW i \in K
  PROVE  Cardinality(K) \in Nat /\ Rank(K, i) \in 0 .. Cardinality(K) - 1
  <1>1. {j \in K : j < i} \in SUBSET K /\ {j \in K : j < i} # K OBVIOUS
  <1>2. Cardinality(K) \in Nat BY FS_CardinalityType
  <1>3. IsFiniteSet({j \in K : j < i}) /\ Cardinality({j \in K : j < i}) <= Cardinality(K)
        /\ Cardinality(K) # Cardinality({j \in K : j < i})
    BY <1>1, FS_Subset
  <1>4. Cardinality({j \in K : j < i}) \in Nat BY <1>3, FS_CardinalityType
  <1> QED BY <1>2, <1>3, <1>4 DEF Rank

LEMMA RankGrows ==
  ASSUME NEW K \in SUBSET Int, IsFiniteSet(K), NEW i \in K, NEW k \in K, i < k
  PROVE  Rank(K, i) < Rank(K, k)
  <1> DEFINE A == {j \in K : j < i}  B == {j \in K : j < k}
  <1>0. k \in Int /\ i \in Int /\ i \in B /\ i \notin A OBVIOUS
  <1>a. \A j \in K : j \in Int /\ (j < i => j < k) BY <1>0
  <1>1. A \in SUBSET B /\ A # B /\ B \in SUBSET K BY <1>0, <1>a
  <1>2. IsFiniteSet(B) BY <1>1, FS_Subset
  <1>3. Cardinality(A) <= Cardinality(B) /\ Cardinality(B) # Cardinality(A) /\ IsFiniteSet(A)
    BY <1>1, <1>2, FS_Subset
  <1>4. Cardinality(A) \in Nat /\ Cardinality(B) \in Nat BY <1>2, <1>3, FS_CardinalityType
  <1> HIDE DEF A, B
  <1>5. Cardinality(A) < Cardinality(B) BY <1>3, <1>4
  <1> QED BY <1>5 DEF Rank, A, B

(* Every place of the new list is taken.                                    *)
LEMMA RankTaken ==
  ASSUME NEW K \in SUBSET Int, IsFiniteSet(K), NEW n \in 1 .. Cardinality(K)
  PROVE  \E i \in K : Rank(K, i) = n - 1
  <1> DEFINE f == [i \in K |-> Rank(K, i) + 1]  T == 1 .. Cardinality(K)
  <1>1. Cardinality(K) \in Nat BY FS_CardinalityType
  <1>2. IsFiniteSet(T) /\ Cardinality(T) = Cardinality(K)
    BY <1>1, FS_Interval
  <1>r. \A i \in K : Rank(K, i) \in 0 .. Cardinality(K) - 1 BY RankInRange
  <1>3. f \in [K -> T] BY <1>1, <1>r
  <1>4. ASSUME NEW i \in K, NEW k \in K, f[i] = f[k] PROVE i = k
    <2>1. i \in Int /\ k \in Int OBVIOUS
    <2>2. Rank(K, i) \in Int /\ Rank(K, k) \in Int BY <1>r
    <2>3. Rank(K, i) = Rank(K, k) BY <1>4, <2>2
    <2>4. ~(i < k) BY <2>2, <2>3, RankGrows
    <2>5. ~(k < i) BY <2>2, <2>3, RankGrows
    <2> QED BY <2>1, <2>4, <2>5
  <1>5. f \in Injection(K, T)
    <2> HIDE DEF f, T
    <2> QED BY <1>3, <1>4 DEF Injection, IsInjective
  <1> HIDE DEF f, T
  <1>6. f \in Surjection(K, T) BY <1>2, <1>5, FS_Injection
  <1>7. n \in T BY DEF T
  <1>8. PICK i \in K : f[i] = n BY <1>6, <1>7 DEF Surjection
  <1>9. Rank(K, i) \in Int /\ f[i] = Rank(K, i) + 1 BY <1>r DEF f
  <1> QED BY <1>8, <1>9

(* The list of the kept elements: each is one of them, and each of them is  *)
(* at its place.                                                            *)
LEMMA ListedProperties ==
  ASSUME NEW S, NEW q \in Seq(S), NEW K \in SUBSET DOMAIN q
  PROVE  /\ IsFiniteSet(K) /\ Cardinality(K) \in Nat /\ K \subseteq Int
         /\ Listed(q, K) \in Seq(S) /\ Len(Listed(q, K)) = Cardinality(K)
         /\ \A n \in 1 .. Cardinality(K) : \E i \in K : Rank(K, i) = n - 1 /\ Listed(q, K)[n] = q[i]
         /\ \A i \in K : Rank(K, i) + 1 \in 1 .. Cardinality(K) /\ Listed(q, K)[Rank(K, i) + 1] = q[i]
  <1>1. DOMAIN q = 1 .. Len(q) /\ Len(q) \in Nat BY LenProperties
  <1>2. K \in SUBSET Int /\ IsFiniteSet(K)
    <2>1. IsFiniteSet(DOMAIN q) BY <1>1, FS_Interval
    <2> QED BY <1>1, <2>1, FS_Subset
  <1>3. Cardinality(K) \in Nat BY <1>2, FS_CardinalityType
  <1>4. ASSUME NEW n \in 1 .. Cardinality(K)
        PROVE  \E i \in K : Rank(K, i) = n - 1 /\ Listed(q, K)[n] = q[i]
    <2>1. \E i \in K : Rank(K, i) = n - 1 BY <1>2, RankTaken
    <2>p. PICK p : p = CHOOSE i \in K : Rank(K, i) = n - 1 OBVIOUS
    <2>2. p \in K /\ Rank(K, p) = n - 1 BY <2>1, <2>p
    <2>3. Listed(q, K)[n] = q[p] BY <2>p DEF Listed
    <2> QED BY <2>2, <2>3
  <1>5. ASSUME NEW n \in 1 .. Cardinality(K) PROVE Listed(q, K)[n] \in S
    BY <1>1, <1>4, ElementOfSeq
  <1>6. Listed(q, K) \in [1 .. Cardinality(K) -> S] BY <1>5 DEF Listed
  <1>7. Listed(q, K) \in Seq(S) /\ Len(Listed(q, K)) = Cardinality(K) BY <1>3, <1>6
  <1>8. ASSUME NEW i \in K PROVE Rank(K, i) + 1 \in 1 .. Cardinality(K) /\ Listed(q, K)[Rank(K, i) + 1] = q[i]
    <2>r. PICK r : r = Rank(K, i) + 1 OBVIOUS
    <2>1. r \in 1 .. Cardinality(K) /\ Rank(K, i) \in Int BY <1>2, <2>r, RankInRange
    <2>2. PICK p \in K : Rank(K, p) = r - 1 /\ Listed(q, K)[r] = q[p] BY <1>4, <2>1
    <2>3. Rank(K, p) = Rank(K, i) BY <2>1, <2>2, <2>r
    <2>4. ~(p < i) /\ ~(i < p)
      <3>1. ASSUME p < i PROVE FALSE
        <4>1. Rank(K, p) < Rank(K, i) BY <1>2, <3>1, RankGrows
        <4> QED BY <2>1, <2>3, <4>1
      <3>2. ASSUME i < p PROVE FALSE
        <4>1. Rank(K, i) < Rank(K, p) BY <1>2, <3>2, RankGrows
        <4> QED BY <2>1, <2>3, <4>1
      <3> QED BY <3>1, <3>2
    <2>5. p = i BY <1>2, <2>4
    <2> QED BY <2>1, <2>2, <2>5, <2>r
  <1> QED BY <1>2, <1>3, <1>4, <1>7, <1>8
=============================================================================
