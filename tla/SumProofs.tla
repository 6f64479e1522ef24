-------------------------------- MODULE SumProofs --------------------------------
(* What every proof about money needs to know of Total: the value of a sum of a  *)
(* finite set does not depend on the order in which it is taken. Total is a fold *)
(* with a chosen order, so each fact is proved by looking at a smallest set for   *)
(* which it fails.                                                                *)
EXTENDS Sums, FiniteSetTheorems, WellFoundedInduction, TLAPS

Pick(s) == CHOOSE x \in s : TRUE
Rest(s) == s \ {Pick(s)}
Adds(w, S, g) == g = [s \in SUBSET S |-> IF s = {} THEN 0 ELSE w[Pick(s)] + g[Rest(s)]]

\* A total is the value at S of the function that adds one picked element at a time.
LEMMA TotalDef ==
  ASSUME NEW w, NEW S
  PROVE  Total(w, S) = (CHOOSE g : Adds(w, S, g))[S]
BY DEF Total, MapThenSumSet, MapThenFoldSet, Adds, Pick, Rest

\* Induction over a finite set: among counterexamples there is one all of whose proper
\* subsets are none.
LEMMA Minimal ==
  ASSUME NEW S, IsFiniteSet(S), NEW B, B \subseteq SUBSET S, B # {}
  PROVE  \E s \in B : \A t \in SUBSET s : t # s => t \notin B
<1>1. SUBSET S = FiniteSubsetsOf(S)
  BY FS_FiniteSubsetsOfFinite
<1>2. IsWellFoundedOn(StrictSubsetOrdering(S), SUBSET S)
  BY <1>1, FS_StrictSubsetOrderingWellFounded
<1>3. PICK s \in B : \A t \in B : ~ (<<t, s>> \in StrictSubsetOrdering(S))
  BY <1>2, WFMin
<1>4. QED
  BY <1>3 DEF StrictSubsetOrdering

\* The element picked from a nonempty set is in it, and the rest is smaller.
LEMMA PickIn == \A s : s # {} => Pick(s) \in s /\ Rest(s) \subseteq s /\ Rest(s) # s
BY DEF Pick, Rest

\* What the adding function is at one subset.
LEMMA AddsAt ==
  ASSUME NEW w, NEW S, NEW g, Adds(w, S, g), NEW s \in SUBSET S
  PROVE  g[s] = IF s = {} THEN 0 ELSE w[Pick(s)] + g[Rest(s)]
BY DEF Adds

\* Adding up two weights that agree on S gives the same, whatever larger set the second
\* function is defined on.
LEMMA AddsAgree ==
  ASSUME NEW w, NEW v, NEW S, IsFiniteSet(S), NEW T, NEW g, NEW h,
         Adds(w, S, g), Adds(v, T, h), S \subseteq T,
         \A x \in S : w[x] = v[x]
  PROVE  \A s \in SUBSET S : g[s] = h[s]
<1> SUFFICES ASSUME NEW s0 \in SUBSET S, g[s0] # h[s0] PROVE FALSE
  OBVIOUS
<1> DEFINE B == {s \in SUBSET S : g[s] # h[s]}
<1>1. PICK s \in B : \A t \in SUBSET s : t # s => t \notin B
  BY Minimal
<1>2. CASE s = {}
  BY <1>1, <1>2, AddsAt
<1>3. CASE s # {}
  <2>1. Pick(s) \in S /\ Rest(s) \in SUBSET S /\ g[Rest(s)] = h[Rest(s)]
    BY <1>1, <1>3, PickIn
  <2>2. g[s] = w[Pick(s)] + g[Rest(s)]
    BY <1>1, <1>3, AddsAt
  <2>3. h[s] = v[Pick(s)] + h[Rest(s)]
    BY <1>1, <1>3, AddsAt
  <2>4. QED
    BY <1>1, <2>1, <2>2, <2>3
<1>4. QED
  BY <1>2, <1>3

\* Every finite set has an adding function.
LEMMA SumExists ==
  ASSUME NEW w, NEW S, IsFiniteSet(S)
  PROVE  \E g : Adds(w, S, g)
<1> SUFFICES ASSUME ~ \E g : Adds(w, S, g) PROVE FALSE
  OBVIOUS
<1> DEFINE B == {T \in SUBSET S : ~ \E g : Adds(w, T, g)}
<1>1. PICK T \in B : \A t \in SUBSET T : t # T => t \notin B
  <2>1. B \subseteq SUBSET S /\ S \in B
    OBVIOUS
  <2> HIDE DEF B
  <2>2. QED
    BY <2>1, Minimal
<1>2. \A t \in SUBSET T : IsFiniteSet(t)
  BY FS_Subset
<1> DEFINE G(t) == CHOOSE g : Adds(w, t, g)
<1>3. \A t \in SUBSET T : t # T => Adds(w, t, G(t))
  BY <1>1
<1> DEFINE g == [s \in SUBSET T |-> IF s = {} THEN 0 ELSE w[Pick(s)] + G(Rest(s))[Rest(s)]]
<1>4. ASSUME NEW s \in SUBSET T, s # T PROVE g[s] = G(s)[s]
  <2>1. Adds(w, s, G(s))
    BY <1>3, <1>4
  <2> HIDE DEF G
  <2>2. CASE s = {}
    BY <2>1, <2>2, AddsAt
  <2>3. CASE s # {}
    <3>1. Rest(s) \subseteq s /\ Rest(s) # T
      BY <1>4, <2>3, PickIn
    <3>2. Adds(w, Rest(s), G(Rest(s)))
      BY <1>3, <3>1
    <3>3. G(Rest(s))[Rest(s)] = G(s)[Rest(s)]
      BY <1>2, <2>1, <3>1, <3>2, AddsAgree
    <3>4. G(s)[s] = w[Pick(s)] + G(s)[Rest(s)]
      BY <2>1, <2>3, AddsAt
    <3>5. QED
      BY <2>3, <3>3, <3>4
  <2>4. QED
    BY <2>2, <2>3
<1> HIDE DEF G
<1>5. ASSUME NEW s \in SUBSET T, s # {} PROVE g[Rest(s)] = G(Rest(s))[Rest(s)]
  <2>1. Rest(s) \in SUBSET T /\ Rest(s) # T
    BY <1>5, PickIn
  <2> HIDE DEF g
  <2>2. QED
    BY <1>4, <2>1
<1>6. Adds(w, T, g)
  <2>1. g = [s \in SUBSET T |-> IF s = {} THEN 0 ELSE w[Pick(s)] + g[Rest(s)]]
    BY <1>5
  <2>2. QED
    BY <2>1 DEF Adds
<1>7. QED
  BY <1>1, <1>6

\* So the total is the value of some adding function.
LEMMA TotalAdds ==
  ASSUME NEW w, NEW S, IsFiniteSet(S)
  PROVE  \E g : Adds(w, S, g) /\ Total(w, S) = g[S]
BY SumExists, TotalDef

\* Totals depend only on the values on the set.
LEMMA TotalAgree ==
  ASSUME NEW w, NEW v, NEW S, IsFiniteSet(S), \A x \in S : w[x] = v[x]
  PROVE  Total(w, S) = Total(v, S)
<1>1. PICK g : Adds(w, S, g) /\ Total(w, S) = g[S]
  BY TotalAdds
<1>2. PICK h : Adds(v, S, h) /\ Total(v, S) = h[S]
  BY TotalAdds
<1>3. QED
  BY <1>1, <1>2, AddsAgree

\* Nothing adds up to zero.
LEMMA TotalEmpty == \A w : Total(w, {}) = 0
<1> TAKE w
<1>1. IsFiniteSet({})
  BY FS_EmptySet
<1>2. PICK g : Adds(w, {}, g) /\ Total(w, {}) = g[{}]
  BY <1>1, TotalAdds
<1>3. QED
  BY <1>2, AddsAt

\* A total is the picked element plus the total of the rest.
LEMMA TotalPick ==
  ASSUME NEW w, NEW S, IsFiniteSet(S), S # {}
  PROVE  Total(w, S) = w[Pick(S)] + Total(w, Rest(S))
<1>1. Rest(S) \in SUBSET S /\ IsFiniteSet(Rest(S))
  BY PickIn, FS_Subset
<1>2. PICK g : Adds(w, S, g) /\ Total(w, S) = g[S]
  BY TotalAdds
<1>3. PICK h : Adds(w, Rest(S), h) /\ Total(w, Rest(S)) = h[Rest(S)]
  BY <1>1, TotalAdds
<1>4. h[Rest(S)] = g[Rest(S)]
  BY <1>1, <1>2, <1>3, AddsAgree
<1>5. QED
  BY <1>2, <1>3, <1>4, AddsAt

\* Totals of integers are integers.
LEMMA TotalInt ==
  ASSUME NEW w, NEW S, IsFiniteSet(S), \A x \in S : w[x] \in Int
  PROVE  Total(w, S) \in Int
<1> DEFINE B == {s \in SUBSET S : Total(w, s) \notin Int}
<1> SUFFICES ASSUME B # {} PROVE FALSE
  OBVIOUS
<1>1. PICK s \in B : \A t \in SUBSET s : t # s => t \notin B
  <2>1. B \subseteq SUBSET S
    OBVIOUS
  <2> HIDE DEF B
  <2>2. QED
    BY <2>1, Minimal
<1>2. CASE s = {}
  BY <1>1, <1>2, TotalEmpty
<1>3. CASE s # {}
  <2>1. Total(w, Rest(s)) \in Int /\ w[Pick(s)] \in Int
    BY <1>1, <1>3, PickIn
  <2>2. Total(w, s) = w[Pick(s)] + Total(w, Rest(s))
    BY <1>1, <1>3, TotalPick, FS_Subset
  <2>3. QED
    BY <1>1, <2>1, <2>2
<1>4. QED
  BY <1>2, <1>3

\* Totals of naturals are naturals.
LEMMA TotalNat ==
  ASSUME NEW w, NEW S, IsFiniteSet(S), \A x \in S : w[x] \in Nat
  PROVE  Total(w, S) \in Nat
<1> DEFINE B == {s \in SUBSET S : Total(w, s) \notin Nat}
<1> SUFFICES ASSUME B # {} PROVE FALSE
  OBVIOUS
<1>1. PICK s \in B : \A t \in SUBSET s : t # s => t \notin B
  <2>1. B \subseteq SUBSET S
    OBVIOUS
  <2> HIDE DEF B
  <2>2. QED
    BY <2>1, Minimal
<1>2. CASE s = {}
  BY <1>1, <1>2, TotalEmpty
<1>3. CASE s # {}
  <2>1. Total(w, Rest(s)) \in Nat /\ w[Pick(s)] \in Nat
    BY <1>1, <1>3, PickIn
  <2>2. Total(w, s) = w[Pick(s)] + Total(w, Rest(s))
    BY <1>1, <1>3, TotalPick, FS_Subset
  <2>3. QED
    BY <1>1, <2>1, <2>2
<1>4. QED
  BY <1>2, <1>3

\* Any element, and not only the picked one, may be taken out of a total.
LEMMA TotalRemove ==
  ASSUME NEW w, NEW S, IsFiniteSet(S), \A x \in S : w[x] \in Int, NEW x \in S
  PROVE  Total(w, S) = w[x] + Total(w, S \ {x})
<1> DEFINE B == {s \in SUBSET S : \E y \in s : Total(w, s) # w[y] + Total(w, s \ {y})}
<1> SUFFICES ASSUME B # {} PROVE FALSE
  OBVIOUS
<1>1. PICK s \in B : \A t \in SUBSET s : t # s => t \notin B
  <2>1. B \subseteq SUBSET S
    OBVIOUS
  <2> HIDE DEF B
  <2>2. QED
    BY <2>1, Minimal
<1>2. PICK y \in s : Total(w, s) # w[y] + Total(w, s \ {y})
  BY <1>1
<1>3. s \in SUBSET S /\ IsFiniteSet(s) /\ s # {}
  BY <1>1, <1>2, FS_Subset
<1> DEFINE p == Pick(s)
<1>4. p \in s /\ Total(w, s) = w[p] + Total(w, s \ {p})
  BY <1>3, PickIn, TotalPick DEF Rest
<1>5. p # y
  BY <1>2, <1>4
<1> HIDE DEF p
<1>6. Total(w, s \ {p}) = w[y] + Total(w, (s \ {p}) \ {y})
  BY <1>1, <1>3, <1>4, <1>5
<1>7. Total(w, s \ {y}) = w[p] + Total(w, (s \ {y}) \ {p})
  BY <1>1, <1>3, <1>4, <1>5
<1>8. (s \ {p}) \ {y} = (s \ {y}) \ {p}
  OBVIOUS
<1>9. w[y] \in Int /\ w[p] \in Int /\ Total(w, (s \ {y}) \ {p}) \in Int
  <2>1. (s \ {y}) \ {p} \in SUBSET S
    BY <1>3
  <2>2. QED
    BY <1>3, <1>4, <2>1, TotalInt, FS_Subset
<1> DEFINE both == Total(w, (s \ {y}) \ {p})
           here == Total(w, s)
           without == Total(w, s \ {y})
           left == Total(w, s \ {p})
<1>10. here # w[y] + without /\ here = w[p] + left
  BY <1>2, <1>4
<1>11. left = w[y] + both
  BY <1>6, <1>8
<1>12. without = w[p] + both /\ w[y] \in Int /\ w[p] \in Int /\ both \in Int
  BY <1>7, <1>9
<1> HIDE DEF both, here, without, left
<1>13. QED
  BY <1>10, <1>11, <1>12

\* A new element adds its value to the total.
LEMMA TotalInsert ==
  ASSUME NEW w, NEW S, IsFiniteSet(S), NEW x, x \notin S, \A y \in S \cup {x} : w[y] \in Int
  PROVE  Total(w, S \cup {x}) = w[x] + Total(w, S)
<1>1. IsFiniteSet(S \cup {x})
  BY FS_AddElement
<1>2. (S \cup {x}) \ {x} = S
  OBVIOUS
<1>3. QED
  BY <1>1, <1>2, TotalRemove

\* A larger set of amounts that are not negative has no smaller total.
LEMMA TotalMonotone ==
  ASSUME NEW w, NEW T, IsFiniteSet(T), \A x \in T : w[x] \in Nat, NEW S \in SUBSET T
  PROVE  Total(w, S) <= Total(w, T)
<1> DEFINE B == {U \in SUBSET T : S \subseteq U /\ ~ (Total(w, S) <= Total(w, U))}
<1> SUFFICES ASSUME B # {} PROVE FALSE
  OBVIOUS
<1>1. PICK U \in B : \A t \in SUBSET U : t # U => t \notin B
  <2>1. B \subseteq SUBSET T
    OBVIOUS
  <2> HIDE DEF B
  <2>2. QED
    BY <2>1, Minimal
<1>2. \A s \in SUBSET T : IsFiniteSet(s) /\ Total(w, s) \in Nat
  BY FS_Subset, TotalNat
<1>3. S # U
  BY <1>1, <1>2
<1>4. PICK x \in U : x \notin S
  BY <1>1, <1>3
<1>5. Total(w, S) <= Total(w, U \ {x})
  BY <1>1, <1>4
<1>6. Total(w, U) = w[x] + Total(w, U \ {x})
  BY <1>1, <1>2, TotalRemove
<1>7. w[x] \in Nat /\ Total(w, U \ {x}) \in Nat /\ Total(w, U) \in Nat /\ Total(w, S) \in Nat
  BY <1>1, <1>2
<1>8. QED
  BY <1>1, <1>5, <1>6, <1>7

\* The totals of two sets with no element in common add up.
LEMMA TotalUnion ==
  ASSUME NEW w, NEW S, NEW T, IsFiniteSet(S), IsFiniteSet(T), S \cap T = {},
         \A x \in S \cup T : w[x] \in Int
  PROVE  Total(w, S \cup T) = Total(w, S) + Total(w, T)
<1> DEFINE B == {U \in SUBSET T : Total(w, S \cup U) # Total(w, S) + Total(w, U)}
<1> SUFFICES ASSUME B # {} PROVE FALSE
  OBVIOUS
<1>1. PICK U \in B : \A t \in SUBSET U : t # U => t \notin B
  <2>1. B \subseteq SUBSET T
    OBVIOUS
  <2> HIDE DEF B
  <2>2. QED
    BY <2>1, Minimal
<1>2. Total(w, S) \in Int
  BY TotalInt
<1>3. U # {}
  <2>1. ASSUME U = {} PROVE FALSE
    <3>1. Total(w, {}) = 0 /\ S \cup {} = S
      BY TotalEmpty
    <3>2. Total(w, S \cup {}) # Total(w, S) + Total(w, {})
      BY <1>1, <2>1
    <3>3. QED
      BY <1>2, <3>1, <3>2
  <2>2. QED
    BY <2>1
<1>4. PICK x \in U : TRUE
  BY <1>3
<1> DEFINE V == U \ {x}
<1>5. Total(w, S \cup V) = Total(w, S) + Total(w, V)
  BY <1>1
<1>6. IsFiniteSet(U) /\ IsFiniteSet(V) /\ IsFiniteSet(S \cup U)
  BY <1>1, FS_Subset, FS_Union
<1>7. Total(w, U) = w[x] + Total(w, V)
  BY <1>1, <1>6, TotalRemove
<1>8. (S \cup U) \ {x} = S \cup V
  BY <1>1
<1>9. Total(w, S \cup U) = w[x] + Total(w, S \cup V)
  BY <1>1, <1>6, <1>8, TotalRemove
<1>10. w[x] \in Int /\ Total(w, V) \in Int
  BY <1>1, <1>6, TotalInt
<1>11. QED
  BY <1>1, <1>2, <1>5, <1>7, <1>9, <1>10

\* The same amount for every element.
LEMMA TotalConstant ==
  ASSUME NEW w, NEW S, IsFiniteSet(S), NEW c \in Nat, \A x \in S : w[x] = c
  PROVE  Total(w, S) = c * Cardinality(S)
<1> DEFINE B == {U \in SUBSET S : Total(w, U) # c * Cardinality(U)}
<1> SUFFICES ASSUME B # {} PROVE FALSE
  OBVIOUS
<1>1. PICK U \in B : \A t \in SUBSET U : t # U => t \notin B
  <2>1. B \subseteq SUBSET S
    OBVIOUS
  <2> HIDE DEF B
  <2>2. QED
    BY <2>1, Minimal
<1>2. U # {}
  <2>1. Total(w, {}) = 0 /\ Cardinality({}) = 0 /\ c * 0 = 0
    BY TotalEmpty, FS_EmptySet
  <2>2. Total(w, U) # c * Cardinality(U)
    BY <1>1
  <2>3. QED
    BY <2>1, <2>2
<1>3. PICK x \in U : TRUE
  BY <1>2
<1> DEFINE V == U \ {x}
<1>4. IsFiniteSet(U) /\ IsFiniteSet(V) /\ Cardinality(V) \in Nat /\ Cardinality(U) = Cardinality(V) + 1
  <2>1. IsFiniteSet(U) /\ IsFiniteSet(V) /\ Cardinality(V) = Cardinality(U) - 1
    BY <1>1, FS_Subset, FS_RemoveElement
  <2>2. Cardinality(V) \in Nat /\ Cardinality(U) \in Nat
    BY <2>1, FS_CardinalityType
  <2>3. QED
    BY <2>1, <2>2
<1>5. Total(w, V) = c * Cardinality(V)
  BY <1>1
<1>6. Total(w, U) = c + Total(w, V)
  <2>1. w[x] = c /\ \A y \in U : w[y] \in Int
    BY <1>1
  <2>2. QED
    BY <1>3, <1>4, <2>1, TotalRemove
<1>7. \A n \in Nat : c * (n + 1) = c + c * n
  OBVIOUS
<1>8. QED
  BY <1>1, <1>4, <1>5, <1>6, <1>7

------------------------------------------------------------------------------
(* The maximum of a finite set *)

\* A finite set of integers has a greatest element, and Max is it.
LEMMA MaxIs ==
  ASSUME NEW S \in SUBSET Int, IsFiniteSet(S), S # {}
  PROVE  Max(S) \in S /\ \A y \in S : Max(S) >= y
<1> DEFINE Greatest(U) == \E m \in U : \A y \in U : m >= y
           B == {U \in SUBSET S : U # {} /\ ~ Greatest(U)}
<1>1. ASSUME B # {} PROVE FALSE
  <2>1. PICK U \in B : \A t \in SUBSET U : t # U => t \notin B
    <3>1. B \subseteq SUBSET S
      OBVIOUS
    <3> HIDE DEF B
    <3>2. QED
      BY <1>1, <3>1, Minimal
  <2>2. PICK x \in U : TRUE
    BY <2>1
  <2> DEFINE V == U \ {x}
  <2>3. CASE V = {}
    BY <2>1, <2>2, <2>3
  <2>4. CASE V # {}
    <3>1. PICK m \in V : \A y \in V : m >= y
      BY <2>1, <2>4
    <3>2. m \in Int /\ x \in Int /\ U \subseteq Int
      BY <2>1, <2>2, <3>1
    <3>3. CASE m >= x
      BY <2>1, <3>1, <3>2, <3>3
    <3>4. CASE x >= m
      BY <2>1, <3>1, <3>2, <3>4
    <3>5. QED
      BY <3>2, <3>3, <3>4
  <2>5. QED
    BY <2>3, <2>4
<1>2. Greatest(S)
  BY <1>1
<1>3. QED
  BY <1>2 DEF Max

\* An element that none exceeds is the maximum.
LEMMA MaxUnique ==
  ASSUME NEW S \in SUBSET Int, NEW m \in S, \A y \in S : m >= y
  PROVE  Max(S) = m
<1>1. Max(S) \in S /\ \A y \in S : Max(S) >= y
  BY DEF Max
<1>2. Max(S) \in Int /\ m \in Int /\ Max(S) >= m /\ m >= Max(S)
  BY <1>1
<1>3. QED
  BY <1>2
------------------------------------------------------------------------------
(* The greatest element of a finite set *)

\* A finite set that a transitive relation orders totally has a greatest element.
LEMMA Greatest ==
  ASSUME NEW S, IsFiniteSet(S), S # {}, NEW R,
         \A x, y \in S : <<x, y>> \in R \/ <<y, x>> \in R,
         \A x, y, z \in S : <<x, y>> \in R /\ <<y, z>> \in R => <<x, z>> \in R
  PROVE  \E x \in S : \A y \in S : <<x, y>> \in R
<1> DEFINE Has(U) == \E m \in U : \A y \in U : <<m, y>> \in R
           B == {U \in SUBSET S : U # {} /\ ~ Has(U)}
<1>1. ASSUME B # {} PROVE FALSE
  <2>1. PICK U \in B : \A t \in SUBSET U : t # U => t \notin B
    <3>1. B \subseteq SUBSET S
      OBVIOUS
    <3> HIDE DEF B
    <3>2. QED
      BY <1>1, <3>1, Minimal
  <2>2. PICK x \in U : TRUE
    BY <2>1
  <2> DEFINE V == U \ {x}
  <2>3. U \subseteq S /\ x \in S /\ V \subseteq S
    BY <2>1, <2>2
  <2>4. CASE V = {}
    BY <2>1, <2>2, <2>3, <2>4
  <2>5. CASE V # {}
    <3>1. PICK m \in V : \A y \in V : <<m, y>> \in R
      <4>1. V \in SUBSET U /\ V # U /\ V \in SUBSET S
        BY <2>2, <2>3
      <4>2. V \notin B
        BY <2>1, <4>1
      <4> QED BY <2>5, <4>1, <4>2
    <3>2. m \in S /\ m \in U
      BY <2>3, <3>1
    <3>3. CASE <<m, x>> \in R
      BY <2>1, <3>1, <3>2, <3>3
    <3>4. CASE <<x, m>> \in R
      <4>1. \A y \in V : <<x, y>> \in R
        BY <2>3, <3>1, <3>2, <3>4
      <4>2. <<x, x>> \in R
        BY <2>3
      <4> QED BY <2>1, <2>2, <4>1, <4>2
    <3> QED BY <2>3, <3>2, <3>3, <3>4
  <2> QED BY <2>4, <2>5
<1> QED BY <1>1

\* A finite set of integers has a least element.
LEMMA LeastOf ==
  ASSUME NEW S \in SUBSET Int, IsFiniteSet(S), S # {}
  PROVE  \E x \in S : \A y \in S : x <= y
<1> DEFINE R == {pair \in S \X S : pair[1] <= pair[2]}
<1>1. \A x, y \in S : <<x, y>> \in R <=> x <= y
  OBVIOUS
<1> HIDE DEF R
<1>2. \A x, y \in S : <<x, y>> \in R \/ <<y, x>> \in R
  <2> TAKE x \in S, y \in S
  <2>1. x \in Int /\ y \in Int
    OBVIOUS
  <2>2. QED
    BY <1>1, <2>1
<1>3. \A x, y, z \in S : <<x, y>> \in R /\ <<y, z>> \in R => <<x, z>> \in R
  <2> TAKE x \in S, y \in S, z \in S
  <2>1. x \in Int /\ y \in Int /\ z \in Int
    OBVIOUS
  <2>2. QED
    BY <1>1, <2>1
<1>4. PICK x \in S : \A y \in S : <<x, y>> \in R
  BY <1>2, <1>3, Greatest
<1>5. QED
  BY <1>1, <1>4

\* Min is it.
LEMMA MinIs ==
  ASSUME NEW S \in SUBSET Int, IsFiniteSet(S), S # {}
  PROVE  Min(S) \in S /\ \A y \in S : Min(S) <= y
<1>1. \E x \in S : \A y \in S : x <= y
  BY LeastOf
<1>2. QED
  BY <1>1 DEF Min
=============================================================================
