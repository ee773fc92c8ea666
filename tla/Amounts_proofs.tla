---------------------------- MODULE Amounts_proofs ----------------------------
(***************************************************************************)
(* Sums over finite sets do not depend on the order they are taken in, and *)
(* what follows from that.  Induction is by a smallest counterexample      *)
(* throughout: the library's induction theorems take an operator, which no *)
(* prover here can instantiate.                                            *)
(***************************************************************************)
EXTENDS Amounts, FiniteSetTheorems, WellFoundedInduction, TLAPS

\* A non-empty set of numbers has a least one.
LEMMA LeastNumber ==
  ASSUME NEW N, N \subseteq Nat, N # {}
  PROVE  \E k \in N : \A i \in N : k <= i
<1> DEFINE R == OpToRel(<, Nat)
<1>1. PICK k \in N : \A i \in N : ~(<<i, k>> \in R)
  <2>1. IsWellFoundedOn(R, Nat)
    BY NatLessThanWellFounded
  <2> HIDE DEF R
  <2> QED
    BY <2>1, WFMin
<1>2. \A i \in N : ~(i < k)
  BY <1>1 DEF OpToRel
<1> QED
  BY <1>2

\* A non-empty family of finite sets has a smallest one.
LEMMA SmallestSet ==
  ASSUME NEW A, A # {}, \A S \in A : IsFiniteSet(S)
  PROVE  \E S \in A : \A T \in A : Cardinality(S) <= Cardinality(T)
<1> DEFINE N == {Cardinality(S) : S \in A}
<1>1. N \subseteq Nat /\ N # {}
  BY FS_CardinalityType
<1>2. PICK k \in N : \A i \in N : k <= i
  <2> HIDE DEF N
  <2> QED
    BY <1>1, LeastNumber
<1> QED
  BY <1>2

\* Taking one element out leaves a smaller set.
LEMMA OneLess ==
  ASSUME NEW S, IsFiniteSet(S), NEW x \in S
  PROVE  /\ IsFiniteSet(S \ {x}) /\ Cardinality(S) \in Nat
         /\ Cardinality(S \ {x}) = Cardinality(S) - 1
         /\ Cardinality(S) > 0 /\ ~(Cardinality(S) <= Cardinality(S \ {x}))
<1>1. Cardinality(S \ {x}) \in Nat /\ Cardinality(S) \in Nat
  BY FS_RemoveElement, FS_CardinalityType
<1>2. IsFiniteSet(S \ {x}) /\ Cardinality(S \ {x}) = Cardinality(S) - 1
  BY FS_RemoveElement
<1> QED
  BY <1>1, <1>2

Pick(S) == CHOOSE x \in S : TRUE

\* g gives the sum of every part of D.
Sums(g, n, D) ==
  \A T \in SUBSET D : g[T] = IF T = {} THEN 0 ELSE n[Pick(T)] + g[T \ {Pick(T)}]

\* The fold behind Total has a result.
LEMMA SumsExist ==
  ASSUME NEW D, IsFiniteSet(D), NEW n \in [D -> Int]
  PROVE  \E g \in [SUBSET D -> Int] : Sums(g, n, D)
<1> DEFINE Upto(k) == {T \in SUBSET D : Cardinality(T) <= k}
           Good(k, g) == /\ g \in [SUBSET D -> Int]
                         /\ \A T \in Upto(k) :
                              g[T] = IF T = {} THEN 0 ELSE n[Pick(T)] + g[T \ {Pick(T)}]
           Bad == {k \in Nat : ~\E g : Good(k, g)}
<1>1. \A T \in SUBSET D : IsFiniteSet(T) /\ Cardinality(T) \in Nat
  BY FS_Subset, FS_CardinalityType
<1>2. ASSUME NEW T \in SUBSET D, T # {}
      PROVE  /\ Pick(T) \in T /\ n[Pick(T)] \in Int /\ T \ {Pick(T)} \in SUBSET D
             /\ Cardinality(T \ {Pick(T)}) = Cardinality(T) - 1
  <2>1. Pick(T) \in T
    BY <1>2 DEF Pick
  <2> QED
    BY <1>1, <2>1, OneLess
<1>3. ASSUME Bad # {} PROVE FALSE
  <2>1. PICK k \in Bad : \A i \in Bad : k <= i
    <3>1. Bad \subseteq Nat
      OBVIOUS
    <3> HIDE DEF Bad
    <3> QED
      BY <1>3, <3>1, LeastNumber
  <2>2. CASE k = 0
    <3> DEFINE g == [T \in SUBSET D |-> 0]
    <3>1. \A T \in Upto(0) : T = {}
      BY <1>1, FS_EmptySet
    <3>2. Good(0, g)
      BY <3>1
    <3> QED
      BY <2>2, <3>2
  <2>3. CASE k # 0
    <3>0. k \in Nat
      OBVIOUS
    <3>1. k - 1 \in Nat /\ k - 1 \notin Bad
      <4> HIDE DEF Bad
      <4> QED
        BY <2>1, <2>3, <3>0
    <3>2. PICK g : Good(k - 1, g)
      BY <3>1
    <3> g \in [SUBSET D -> Int]
      BY <3>2
    <3> DEFINE h == [T \in SUBSET D |->
                       IF T = {} THEN 0 ELSE n[Pick(T)] + g[T \ {Pick(T)}]]
    <3>3. ASSUME NEW T \in SUBSET D, T # {} PROVE n[Pick(T)] + g[T \ {Pick(T)}] \in Int
      <4>1. n[Pick(T)] \in Int /\ g[T \ {Pick(T)}] \in Int
        BY <1>2, <3>3
      <4> QED
        BY <4>1
    <3>4. h \in [SUBSET D -> Int]
      BY <3>3
    <3>5. \A T \in Upto(k - 1) : h[T] = g[T]
      BY <3>2
    <3>6. \A T \in Upto(k) : T # {} => T \ {Pick(T)} \in Upto(k - 1)
      BY <1>1, <1>2
    <3>7. Good(k, h)
      BY <3>4, <3>5, <3>6
    <3> QED
      BY <3>7
  <2> QED
    BY <2>2, <2>3
<1>4. Cardinality(D) \in Nat
  BY FS_CardinalityType
<1>5. PICK g : Good(Cardinality(D), g)
  BY <1>3, <1>4
<1>6. \A T \in SUBSET D : T \in Upto(Cardinality(D))
  BY FS_Subset
<1> QED
  BY <1>5, <1>6 DEF Sums

\* Any two such functions agree where both are given.
LEMMA SumsAgree ==
  ASSUME NEW D, IsFiniteSet(D), NEW n, NEW S \in SUBSET D,
         NEW g, Sums(g, n, D), NEW h, Sums(h, n, S)
  PROVE  g[S] = h[S]
<1> DEFINE Bad == {T \in SUBSET S : g[T] # h[T]}
<1>1. ASSUME Bad # {} PROVE FALSE
  <2>1. \A T \in Bad : IsFiniteSet(T)
    BY FS_Subset
  <2>2. PICK T \in Bad : \A U \in Bad : Cardinality(T) <= Cardinality(U)
    <3> HIDE DEF Bad
    <3> QED
      BY <1>1, <2>1, SmallestSet
  <2>3. T \in SUBSET S /\ T \in SUBSET D /\ IsFiniteSet(T) /\ g[T] # h[T]
    BY <2>1
  <2>4. T # {}
    BY <2>3 DEF Sums
  <2>5. Pick(T) \in T
    BY <2>4 DEF Pick
  <2>6. T \ {Pick(T)} \notin Bad
    <3>1. ~(Cardinality(T) <= Cardinality(T \ {Pick(T)}))
      BY <2>3, <2>5, OneLess
    <3> HIDE DEF Bad
    <3> QED
      BY <2>2, <3>1
  <2>7. g[T \ {Pick(T)}] = h[T \ {Pick(T)}]
    BY <2>3, <2>6
  <2> QED
    BY <2>3, <2>4, <2>7 DEF Sums
<1> QED
  BY <1>1

\* The sum as the fold takes it: an element it picks, and the rest.
LEMMA TotalStep ==
  ASSUME NEW D, IsFiniteSet(D), NEW n \in [D -> Int], NEW S \in SUBSET D
  PROVE  /\ Total(n, S) \in Int
         /\ Total(n, {}) = 0
         /\ S # {} => Total(n, S) = n[Pick(S)] + Total(n, S \ {Pick(S)})
<1>1. PICK g \in [SUBSET D -> Int] : Sums(g, n, D)
  BY SumsExist
<1>2. ASSUME NEW T \in SUBSET D PROVE Total(n, T) = g[T]
  <2> DEFINE F(h) == [s \in SUBSET T |->
                        IF s = {} THEN 0 ELSE n[Pick(s)] + h[s \ {Pick(s)}]]
             iter == CHOOSE h : h = F(h)
  <2>1. Total(n, T) = iter[T]
    BY DEF Total, Sets!MapThenSumSet, Sets!MapThenFoldSet, Pick
  <2>2. IsFiniteSet(T)
    BY FS_Subset
  <2>3. n \in [D -> Int] /\ [o \in T |-> n[o]] \in [T -> Int]
    OBVIOUS
  <2>4. PICK h : h = F(h)
    <3> DEFINE h == [s \in SUBSET T |-> g[s]]
    <3>1. \A s \in SUBSET T : s \in SUBSET D /\ s \ {Pick(s)} \in SUBSET T
      OBVIOUS
    <3>2. h = F(h)
      BY <1>1, <3>1 DEF Sums
    <3> QED
      BY <3>2
  <2>5. iter = F(iter)
    <3> HIDE DEF F
    <3> QED
      BY <2>4
  <2>6. Sums(iter, n, T)
    <3> HIDE DEF iter
    <3>1. \A s \in SUBSET T : F(iter)[s] = IF s = {} THEN 0 ELSE n[Pick(s)] + iter[s \ {Pick(s)}]
      OBVIOUS
    <3> HIDE DEF F
    <3> QED
      BY <2>5, <3>1 DEF Sums
  <2> HIDE DEF iter
  <2> QED
    BY <1>1, <2>1, <2>6, SumsAgree
<1>3. {} \in SUBSET D /\ S \ {Pick(S)} \in SUBSET D
  OBVIOUS
<1> QED
  BY <1>1, <1>2, <1>3 DEF Sums

\* Any element may be taken first.
LEMMA TotalRemove ==
  ASSUME NEW D, IsFiniteSet(D), NEW n \in [D -> Int], NEW S \in SUBSET D, NEW o \in S
  PROVE  Total(n, S) = n[o] + Total(n, S \ {o})
<1> DEFINE Bad == {T \in SUBSET D : \E p \in T : Total(n, T) # n[p] + Total(n, T \ {p})}
<1>1. ASSUME Bad # {} PROVE FALSE
  <2>1. \A T \in Bad : IsFiniteSet(T)
    BY FS_Subset
  <2>2. PICK T \in Bad : \A U \in Bad : Cardinality(T) <= Cardinality(U)
    <3> HIDE DEF Bad
    <3> QED
      BY <1>1, <2>1, SmallestSet
  <2>3. T \in SUBSET D /\ IsFiniteSet(T)
    BY <2>1
  <2>4. PICK p \in T : Total(n, T) # n[p] + Total(n, T \ {p})
    OBVIOUS
  <2>5. PICK x : x = Pick(T)
    OBVIOUS
  <2>6. x \in T /\ Total(n, T) = n[x] + Total(n, T \ {x})
    BY <2>3, <2>5, TotalStep DEF Pick
  <2>7. x # p
    BY <2>4, <2>6
  <2>8. T \ {x} \notin Bad /\ T \ {p} \notin Bad
    <3>1. \A y \in T : ~(Cardinality(T) <= Cardinality(T \ {y}))
      BY <2>3, OneLess
    <3> HIDE DEF Bad
    <3> QED
      BY <2>2, <2>4, <2>6, <3>1
  <2>9. /\ Total(n, T \ {x}) = n[p] + Total(n, (T \ {x}) \ {p})
        /\ Total(n, T \ {p}) = n[x] + Total(n, (T \ {p}) \ {x})
    BY <2>3, <2>6, <2>7, <2>8
  <2>10. PICK U \in SUBSET D : U = (T \ {x}) \ {p} /\ U = (T \ {p}) \ {x}
    BY <2>3
  <2>11. Total(n, U) \in Int /\ n[x] \in Int /\ n[p] \in Int
    BY <2>3, <2>6, TotalStep
  <2>12. /\ Total(n, T \ {x}) = n[p] + Total(n, U)
         /\ Total(n, T \ {p}) = n[x] + Total(n, U)
    BY <2>9, <2>10
  <2>13. Total(n, T) = n[p] + Total(n, T \ {p})
    BY <2>6, <2>11, <2>12
  <2> QED
    BY <2>4, <2>13
<1> QED
  BY <1>1

\* The sum of two sets that share nothing is the sum of their sums.
LEMMA TotalAdds ==
  ASSUME NEW D, IsFiniteSet(D), NEW n \in [D -> Int],
         NEW S \in SUBSET D, NEW T \in SUBSET D, S \cap T = {}
  PROVE  Total(n, S \cup T) = Total(n, S) + Total(n, T)
<1> DEFINE Bad == {U \in SUBSET (D \ S) : Total(n, S \cup U) # Total(n, S) + Total(n, U)}
<1>1. ASSUME Bad # {} PROVE FALSE
  <2>1. \A U \in Bad : IsFiniteSet(U)
    BY FS_Subset
  <2>2. PICK U \in Bad : \A V \in Bad : Cardinality(U) <= Cardinality(V)
    <3> HIDE DEF Bad
    <3> QED
      BY <1>1, <2>1, SmallestSet
  <2>3. U \in SUBSET (D \ S) /\ U \in SUBSET D /\ IsFiniteSet(U) /\ S \cup U \in SUBSET D
    BY <2>1
  <2>4. Total(n, S) \in Int
    BY TotalStep
  <2>5. U # {}
    <3>1. S \cup {} = S /\ Total(n, {}) = 0
      BY TotalStep
    <3>2. {} \notin Bad
      BY <2>4, <3>1
    <3> HIDE DEF Bad
    <3> QED
      BY <3>2
  <2>6. PICK x : x \in U
    BY <2>5
  <2>7. PICK V : V = U \ {x}
    OBVIOUS
  <2>8. V \notin Bad /\ V \in SUBSET (D \ S)
    <3>1. ~(Cardinality(U) <= Cardinality(V))
      BY <2>3, <2>6, <2>7, OneLess
    <3>2. V \in SUBSET (D \ S)
      BY <2>3, <2>7
    <3> HIDE DEF Bad
    <3> QED
      BY <2>2, <3>1, <3>2
  <2>9. Total(n, S \cup V) = Total(n, S) + Total(n, V)
    BY <2>8
  <2>10. Total(n, U) = n[x] + Total(n, V)
    BY <2>3, <2>6, <2>7, TotalRemove
  <2>11. Total(n, S \cup U) = n[x] + Total(n, S \cup V)
    <3>1. x \in S \cup U /\ (S \cup U) \ {x} = S \cup V
      BY <2>3, <2>6, <2>7
    <3> QED
      BY <2>3, <3>1, TotalRemove
  <2>12. Total(n, V) \in Int /\ n[x] \in Int
    <3>1. V \in SUBSET D /\ x \in D
      BY <2>3, <2>6, <2>7
    <3> QED
      BY <3>1, TotalStep
  <2> QED
    BY <2>4, <2>9, <2>10, <2>11, <2>12
<1>2. T \in SUBSET (D \ S)
  OBVIOUS
<1> QED
  BY <1>1, <1>2

\* What a part leaves of the sum, and that no part of amounts is more
\* than the whole.
LEMMA TotalOfPart ==
  ASSUME NEW D, IsFiniteSet(D), NEW n \in [D -> Int], NEW S \in SUBSET D, NEW P \in SUBSET S
  PROVE  /\ Total(n, S) = Total(n, P) + Total(n, S \ P)
         /\ Total(n, S) \in Int /\ Total(n, P) \in Int /\ Total(n, S \ P) \in Int
<1>1. P \in SUBSET D /\ S \ P \in SUBSET D /\ P \cap (S \ P) = {} /\ P \cup (S \ P) = S
  OBVIOUS
<1>2. Total(n, P \cup (S \ P)) = Total(n, P) + Total(n, S \ P)
  BY <1>1, TotalAdds
<1> QED
  BY <1>1, <1>2, TotalStep

LEMMA TotalIsPositive ==
  ASSUME NEW D, IsFiniteSet(D), NEW n \in [D -> Int], NEW S \in SUBSET D,
         \A o \in S : n[o] >= 0
  PROVE  Total(n, S) >= 0
<1> DEFINE Bad == {T \in SUBSET S : ~(Total(n, T) >= 0)}
<1>1. ASSUME Bad # {} PROVE FALSE
  <2>1. \A T \in Bad : IsFiniteSet(T)
    BY FS_Subset
  <2>2. PICK T \in Bad : \A U \in Bad : Cardinality(T) <= Cardinality(U)
    <3> HIDE DEF Bad
    <3> QED
      BY <1>1, <2>1, SmallestSet
  <2>3. T \in SUBSET S /\ T \in SUBSET D /\ IsFiniteSet(T)
    BY <2>1
  <2>4. T # {}
    <3>1. {} \notin Bad
      <4>1. Total(n, {}) = 0
        BY TotalStep
      <4> QED
        BY <4>1
    <3> HIDE DEF Bad
    <3> QED
      BY <3>1
  <2>5. PICK x : x \in T
    BY <2>4
  <2>6. T \ {x} \notin Bad
    <3>1. ~(Cardinality(T) <= Cardinality(T \ {x}))
      BY <2>3, <2>5, OneLess
    <3> HIDE DEF Bad
    <3> QED
      BY <2>2, <3>1
  <2>7. Total(n, T \ {x}) >= 0 /\ Total(n, T \ {x}) \in Int
    BY <2>3, <2>6, TotalStep
  <2>8. Total(n, T) = n[x] + Total(n, T \ {x}) /\ n[x] >= 0 /\ n[x] \in Int
    BY <2>3, <2>5, TotalRemove
  <2> QED
    BY <2>7, <2>8
<1> QED
  BY <1>1

\* Where each amount is at most another, so is their sum; and the difference of
\* the sums is at least that of any one of them.
LEMMA TotalGrows ==
  ASSUME NEW D, IsFiniteSet(D), NEW m \in [D -> Int], NEW n \in [D -> Int],
         NEW S \in SUBSET D, \A o \in S : m[o] <= n[o]
  PROVE  Total(m, S) <= Total(n, S)
<1> DEFINE Bad == {T \in SUBSET S : ~(Total(m, T) <= Total(n, T))}
<1>1. ASSUME Bad # {} PROVE FALSE
  <2>1. \A T \in Bad : IsFiniteSet(T)
    BY FS_Subset
  <2>2. PICK T \in Bad : \A U \in Bad : Cardinality(T) <= Cardinality(U)
    <3> HIDE DEF Bad
    <3> QED
      BY <1>1, <2>1, SmallestSet
  <2>3. T \in SUBSET S /\ T \in SUBSET D /\ IsFiniteSet(T)
    BY <2>1
  <2>4. T # {}
    <3>1. {} \notin Bad
      <4>1. Total(m, {}) = 0 /\ Total(n, {}) = 0
        BY TotalStep
      <4> QED
        BY <4>1
    <3> HIDE DEF Bad
    <3> QED
      BY <3>1
  <2>5. PICK x : x \in T
    BY <2>4
  <2>6. T \ {x} \notin Bad
    <3>1. ~(Cardinality(T) <= Cardinality(T \ {x}))
      BY <2>3, <2>5, OneLess
    <3> HIDE DEF Bad
    <3> QED
      BY <2>2, <3>1
  <2>7. /\ Total(m, T \ {x}) <= Total(n, T \ {x})
        /\ Total(m, T \ {x}) \in Int /\ Total(n, T \ {x}) \in Int
    BY <2>3, <2>6, TotalStep
  <2>8. /\ Total(m, T) = m[x] + Total(m, T \ {x})
        /\ Total(n, T) = n[x] + Total(n, T \ {x})
        /\ m[x] <= n[x] /\ m[x] \in Int /\ n[x] \in Int
    BY <2>3, <2>5, TotalRemove
  <2> QED
    BY <2>7, <2>8
<1> QED
  BY <1>1

\* Amounts that are over by at most one each are over by at most their number.
LEMMA TotalNear ==
  ASSUME NEW D, IsFiniteSet(D), NEW m \in [D -> Int], NEW n \in [D -> Int],
         NEW S \in SUBSET D, \A o \in S : m[o] <= n[o] + 1
  PROVE  Total(m, S) <= Total(n, S) + Cardinality(S)
<1> DEFINE Bad == {T \in SUBSET S : ~(Total(m, T) <= Total(n, T) + Cardinality(T))}
<1>1. ASSUME Bad # {} PROVE FALSE
  <2>1. \A T \in Bad : IsFiniteSet(T)
    BY FS_Subset
  <2>2. PICK T \in Bad : \A U \in Bad : Cardinality(T) <= Cardinality(U)
    <3> HIDE DEF Bad
    <3> QED
      BY <1>1, <2>1, SmallestSet
  <2>3. T \in SUBSET S /\ T \in SUBSET D /\ IsFiniteSet(T)
    BY <2>1
  <2>4. T # {}
    <3>1. {} \notin Bad
      <4>1. Total(m, {}) = 0 /\ Total(n, {}) = 0 /\ Cardinality({}) = 0
        BY TotalStep, FS_EmptySet
      <4> QED
        BY <4>1
    <3> HIDE DEF Bad
    <3> QED
      BY <3>1
  <2>5. PICK x : x \in T
    BY <2>4
  <2>6. T \ {x} \notin Bad
    <3>1. ~(Cardinality(T) <= Cardinality(T \ {x}))
      BY <2>3, <2>5, OneLess
    <3> HIDE DEF Bad
    <3> QED
      BY <2>2, <3>1
  <2>7. /\ Total(m, T \ {x}) <= Total(n, T \ {x}) + Cardinality(T \ {x})
        /\ Total(m, T \ {x}) \in Int /\ Total(n, T \ {x}) \in Int
    BY <2>3, <2>6, TotalStep
  <2>8. /\ Total(m, T) = m[x] + Total(m, T \ {x})
        /\ Total(n, T) = n[x] + Total(n, T \ {x})
        /\ m[x] <= n[x] + 1 /\ m[x] \in Int /\ n[x] \in Int
    BY <2>3, <2>5, TotalRemove
  <2>9. Cardinality(T \ {x}) = Cardinality(T) - 1 /\ Cardinality(T) \in Nat
    BY <2>3, <2>5, OneLess
  <2> QED
    BY <2>7, <2>8, <2>9
<1> QED
  BY <1>1

LEMMA TotalGap ==
  ASSUME NEW D, IsFiniteSet(D), NEW m \in [D -> Int], NEW n \in [D -> Int],
         \A o \in D : m[o] <= n[o]
  PROVE  /\ Total(n, D) \in Int /\ Total(m, D) \in Int
         /\ Total(n, D) - Total(m, D) >= 0
         /\ \A o \in D : Total(n, D) - Total(m, D) >= n[o] - m[o]
<1>1. Total(n, D) \in Int /\ Total(m, D) \in Int /\ Total(m, D) <= Total(n, D)
  BY TotalStep, TotalGrows
<1>2. ASSUME NEW o \in D PROVE Total(n, D) - Total(m, D) >= n[o] - m[o]
  <2>1. PICK T \in SUBSET D : T = D \ {o}
    OBVIOUS
  <2>2. Total(n, D) = n[o] + Total(n, T) /\ Total(m, D) = m[o] + Total(m, T)
    BY <2>1, TotalRemove
  <2>3. Total(m, T) <= Total(n, T) /\ Total(n, T) \in Int /\ Total(m, T) \in Int
    BY TotalStep, TotalGrows
  <2>4. n[o] \in Int /\ m[o] \in Int
    OBVIOUS
  <2> QED
    BY <2>2, <2>3, <2>4
<1> QED
  BY <1>1, <1>2

\* What is worth the same comes to the same.
LEMMA TotalSame ==
  ASSUME NEW D, IsFiniteSet(D), NEW m \in [D -> Int],
         NEW E, IsFiniteSet(E), NEW n \in [E -> Int],
         NEW S \in SUBSET D, S \subseteq E, \A o \in S : m[o] = n[o]
  PROVE  Total(m, S) = Total(n, S)
<1> DEFINE Bad == {T \in SUBSET S : Total(m, T) # Total(n, T)}
<1>1. ASSUME Bad # {} PROVE FALSE
  <2>1. \A T \in Bad : IsFiniteSet(T)
    BY FS_Subset
  <2>2. PICK T \in Bad : \A U \in Bad : Cardinality(T) <= Cardinality(U)
    <3> HIDE DEF Bad
    <3> QED
      BY <1>1, <2>1, SmallestSet
  <2>3. T \in SUBSET S /\ T \in SUBSET D /\ T \in SUBSET E /\ IsFiniteSet(T)
    BY <2>1
  <2>4. T # {}
    <3>1. Total(m, {}) = 0 /\ Total(n, {}) = 0
      BY TotalStep
    <3> QED
      BY <3>1
  <2>5. PICK x : x \in T
    BY <2>4
  <2>6. T \ {x} \notin Bad
    <3>1. ~(Cardinality(T) <= Cardinality(T \ {x}))
      BY <2>3, <2>5, OneLess
    <3> HIDE DEF Bad
    <3> QED
      BY <2>2, <3>1
  <2>7. Total(m, T \ {x}) = Total(n, T \ {x}) /\ m[x] = n[x]
    BY <2>3, <2>5, <2>6
  <2>8. Total(m, T) = m[x] + Total(m, T \ {x})
    BY <2>3, <2>5, TotalRemove
  <2>9. Total(n, T) = n[x] + Total(n, T \ {x})
    BY <2>3, <2>5, TotalRemove
  <2> QED
    BY <2>7, <2>8, <2>9
<1> QED
  BY <1>1

\* Where each is worth one, the sum is the number of them.
LEMMA TotalCounts ==
  ASSUME NEW D, IsFiniteSet(D), NEW n \in [D -> Int], \A o \in D : n[o] = 1,
         NEW S \in SUBSET D
  PROVE  Total(n, S) = Cardinality(S)
<1> DEFINE Bad == {T \in SUBSET S : Total(n, T) # Cardinality(T)}
<1>1. ASSUME Bad # {} PROVE FALSE
  <2>1. \A T \in Bad : IsFiniteSet(T)
    BY FS_Subset
  <2>2. PICK T \in Bad : \A U \in Bad : Cardinality(T) <= Cardinality(U)
    <3> HIDE DEF Bad
    <3> QED
      BY <1>1, <2>1, SmallestSet
  <2>3. T \in SUBSET S /\ T \in SUBSET D /\ IsFiniteSet(T)
    BY <2>1
  <2>4. T # {}
    <3>1. Total(n, {}) = 0 /\ Cardinality({}) = 0
      BY TotalStep, FS_EmptySet
    <3> QED
      BY <3>1
  <2>5. PICK x : x \in T
    BY <2>4
  <2>6. /\ ~(Cardinality(T) <= Cardinality(T \ {x}))
        /\ Cardinality(T \ {x}) = Cardinality(T) - 1 /\ Cardinality(T) \in Nat
    BY <2>3, <2>5, OneLess
  <2>7. T \ {x} \notin Bad
    <3> HIDE DEF Bad
    <3> QED
      BY <2>2, <2>6
  <2>8. Total(n, T \ {x}) = Cardinality(T \ {x}) /\ n[x] = 1
    BY <2>3, <2>5, <2>7
  <2>9. Total(n, T) = n[x] + Total(n, T \ {x})
    BY <2>3, <2>5, TotalRemove
  <2> QED
    BY <2>6, <2>8, <2>9
<1> QED
  BY <1>1

\* Where each is worth nothing, so is all of it.
LEMMA TotalOfNothing ==
  ASSUME NEW D, IsFiniteSet(D), NEW n \in [D -> Int], NEW S \in SUBSET D,
         \A o \in S : n[o] = 0
  PROVE  Total(n, S) = 0
<1> DEFINE Bad == {T \in SUBSET S : Total(n, T) # 0}
<1>1. ASSUME Bad # {} PROVE FALSE
  <2>1. \A T \in Bad : IsFiniteSet(T)
    BY FS_Subset
  <2>2. PICK T \in Bad : \A U \in Bad : Cardinality(T) <= Cardinality(U)
    <3> HIDE DEF Bad
    <3> QED
      BY <1>1, <2>1, SmallestSet
  <2>3. T \in SUBSET S /\ T \in SUBSET D /\ IsFiniteSet(T)
    BY <2>1
  <2>4. T # {}
    BY TotalStep
  <2>5. PICK x : x \in T
    BY <2>4
  <2>6. T \ {x} \notin Bad
    <3>1. ~(Cardinality(T) <= Cardinality(T \ {x}))
      BY <2>3, <2>5, OneLess
    <3> HIDE DEF Bad
    <3> QED
      BY <2>2, <3>1
  <2>7. Total(n, T \ {x}) = 0 /\ n[x] = 0
    BY <2>3, <2>5, <2>6
  <2>8. Total(n, T) = n[x] + Total(n, T \ {x})
    BY <2>3, <2>5, TotalRemove
  <2> QED
    BY <2>7, <2>8
<1> QED
  BY <1>1

\* Sorted by a key and summed key by key, things come to the same.
LEMMA TotalByKey ==
  ASSUME NEW D, IsFiniteSet(D), NEW n \in [D -> Int], NEW S \in SUBSET D,
         NEW K, IsFiniteSet(K), NEW key \in [S -> K],
         NEW sub \in [K -> Int], \A r \in K : sub[r] = Total(n, {o \in S : key[o] = r})
  PROVE  Total(sub, K) = Total(n, S)
<1> DEFINE Of(J) == {o \in S : key[o] \in J}
           Bad == {J \in SUBSET K : Total(sub, J) # Total(n, Of(J))}
<1>1. ASSUME Bad # {} PROVE FALSE
  <2>1. \A J \in Bad : IsFiniteSet(J)
    BY FS_Subset
  <2>2. PICK J \in Bad : \A U \in Bad : Cardinality(J) <= Cardinality(U)
    <3> HIDE DEF Bad
    <3> QED
      BY <1>1, <2>1, SmallestSet
  <2>3. J \in SUBSET K /\ IsFiniteSet(J)
    BY <2>1
  <2>4. J # {}
    <3>1. Total(sub, {}) = 0 /\ Total(n, {}) = 0
      BY TotalStep
    <3>2. Of({}) = {}
      OBVIOUS
    <3> QED
      BY <3>1, <3>2
  <2>5. PICK r : r \in J
    BY <2>4
  <2>6. J \ {r} \notin Bad
    <3>1. ~(Cardinality(J) <= Cardinality(J \ {r}))
      BY <2>3, <2>5, OneLess
    <3> HIDE DEF Bad
    <3> QED
      BY <2>2, <3>1
  <2>7. Total(sub, J \ {r}) = Total(n, Of(J \ {r}))
    BY <2>3, <2>6
  <2>8. Total(sub, J) = sub[r] + Total(sub, J \ {r})
    BY <2>3, <2>5, TotalRemove
  <2> DEFINE A == {o \in S : key[o] = r}
             B == Of(J \ {r})
  <2>9. /\ A \in SUBSET D /\ B \in SUBSET D /\ A \cap B = {} /\ A \cup B = Of(J)
        /\ sub[r] = Total(n, A)
    BY <2>3, <2>5
  <2> HIDE DEF A, B
  <2>10. Total(n, A \cup B) = Total(n, A) + Total(n, B)
    BY <2>9, TotalAdds
  <2>11. Total(n, Of(J)) = Total(sub, J)
    BY <2>7, <2>8, <2>9, <2>10 DEF B
  <2> QED
    BY <2>2, <2>11
<1>2. K \notin Bad
  BY <1>1
<1>3. Of(K) = S
  OBVIOUS
<1> HIDE DEF Of
<1> QED
  BY <1>2, <1>3

-----------------------------------------------------------------------------
(* The least of finitely many things *)

LEMMA LeastBy ==
  ASSUME NEW S, IsFiniteSet(S), S # {}, NEW f \in [S -> Int]
  PROVE  \E s \in S : \A t \in S : f[s] <= f[t]
<1> DEFINE Bad == {T \in SUBSET S : T # {} /\ ~\E s \in T : \A t \in T : f[s] <= f[t]}
<1>1. ASSUME Bad # {} PROVE FALSE
  <2>1. \A T \in Bad : IsFiniteSet(T)
    BY FS_Subset
  <2>2. PICK T \in Bad : \A U \in Bad : Cardinality(T) <= Cardinality(U)
    <3> HIDE DEF Bad
    <3> QED
      BY <1>1, <2>1, SmallestSet
  <2>3. T \in SUBSET S /\ T # {} /\ IsFiniteSet(T)
    BY <2>1
  <2>4. PICK x : x \in T
    BY <2>3
  <2>5. T \ {x} \notin Bad
    <3>1. ~(Cardinality(T) <= Cardinality(T \ {x}))
      BY <2>3, <2>4, OneLess
    <3> HIDE DEF Bad
    <3> QED
      BY <2>2, <3>1
  <2>6. f[x] \in Int /\ \A t \in T : f[t] \in Int
    BY <2>3, <2>4
  <2>7. \A s \in T : ~\A t \in T : f[s] <= f[t]
    OBVIOUS
  <2>8. T \ {x} # {}
    BY <2>4, <2>6, <2>7
  <2>9. PICK m \in T \ {x} : \A t \in T \ {x} : f[m] <= f[t]
    BY <2>3, <2>5, <2>8
  <2>10. f[m] \in Int
    BY <2>6
  <2>11. CASE f[m] <= f[x]
    <3>1. \A t \in T : f[m] <= f[t]
      BY <2>9, <2>11
    <3> QED
      BY <2>7, <3>1
  <2>12. CASE f[x] < f[m]
    <3>1. \A t \in T : f[x] <= f[t]
      BY <2>6, <2>9, <2>10, <2>12
    <3> QED
      BY <2>4, <2>7, <3>1
  <2> QED
    BY <2>6, <2>10, <2>11, <2>12
<1>2. S \notin Bad
  BY <1>1
<1> QED
  BY <1>2

\* By one measure, among equals by a second, and among those by a third.
LEMMA LeastByThree ==
  ASSUME NEW S, IsFiniteSet(S), S # {},
         NEW f \in [S -> Int], NEW g \in [S -> Int], NEW h \in [S -> Int]
  PROVE  \E s \in S : \A t \in S :
           \/ f[s] < f[t]
           \/ f[s] = f[t] /\ g[s] < g[t]
           \/ f[s] = f[t] /\ g[s] = g[t] /\ h[s] <= h[t]
<1>1. PICK a \in S : \A t \in S : f[a] <= f[t]
  BY LeastBy
<1>2. PICK A \in SUBSET S : A = {t \in S : f[t] = f[a]}
  OBVIOUS
<1>3. IsFiniteSet(A) /\ A # {} /\ [t \in A |-> g[t]] \in [A -> Int]
  BY <1>2, FS_Subset
<1>4. PICK b \in A : \A t \in A : g[b] <= g[t]
  <2>1. PICK gA \in [A -> Int] : \A t \in A : gA[t] = g[t]
    BY <1>3
  <2> QED
    BY <1>3, <2>1, LeastBy
<1>5. PICK B \in SUBSET S : B = {t \in A : g[t] = g[b]}
  OBVIOUS
<1>6. IsFiniteSet(B) /\ B # {} /\ [t \in B |-> h[t]] \in [B -> Int]
  BY <1>5, FS_Subset
<1>7. PICK c \in B : \A t \in B : h[c] <= h[t]
  <2>1. PICK hB \in [B -> Int] : \A t \in B : hB[t] = h[t]
    BY <1>6
  <2> QED
    BY <1>6, <2>1, LeastBy
<1>8. ASSUME NEW t \in S
      PROVE  \/ f[c] < f[t]
             \/ f[c] = f[t] /\ g[c] < g[t]
             \/ f[c] = f[t] /\ g[c] = g[t] /\ h[c] <= h[t]
  <2>1. c \in S /\ c \in A /\ f[c] = f[a] /\ g[c] = g[b] /\ f[a] <= f[t]
    BY <1>1, <1>2, <1>5
  <2>2. f[c] \in Int /\ f[t] \in Int /\ g[c] \in Int /\ g[t] \in Int
    BY <2>1
  <2>3. f[t] = f[c] => t \in A /\ g[b] <= g[t]
    BY <1>2, <1>4, <2>1
  <2>4. f[t] = f[c] /\ g[t] = g[c] => t \in B /\ h[c] <= h[t]
    BY <1>5, <1>7, <2>1, <2>3
  <2> QED
    BY <2>1, <2>2, <2>3, <2>4
<1>9. c \in S
  OBVIOUS
<1> QED
  BY <1>8, <1>9

\* What a function gives the elements of a finite set is a finite set.
LEMMA ImageIsFinite ==
  ASSUME NEW S, IsFiniteSet(S), NEW f
  PROVE  IsFiniteSet({f[s] : s \in S})
<1> DEFINE T == {f[s] : s \in S}
           g == [s \in S |-> f[s]]
<1>1. g \in Surjection(S, T)
  BY DEF Surjection
<1>2. \A h \in Surjection(S, T) : IsFiniteSet(T)
  <2> HIDE DEF T
  <2> QED
    BY FS_Surjection
<1> QED
  BY <1>1, <1>2
=============================================================================
