--------------------------- MODULE Cascade_proofs ---------------------------
(***************************************************************************)
(* First the search of SubsetSum: the order of its report, and that the    *)
(* three cuts lose nothing.  Then the cascade's type invariant, and the    *)
(* two facts its postings rest on: no order is claimed twice, and the      *)
(* index's spent set is what the postable findings claim.  That argument   *)
(* needs only that a pool avoids the spent orders and that a postable      *)
(* proof stays inside its pool; it does not look into the search.  What a  *)
(* verdict says of the search behind it is a second invariant.             *)
(***************************************************************************)
EXTENDS Cascade, Amounts_proofs

-----------------------------------------------------------------------------
(* The order in which the search reports *)

\* Larger nets come first, ties in the order of the file.
LEMMA BeforeIsTotal ==
  ASSUME NEW n \in [Orders -> Int], NEW o \in Orders, NEW p \in Orders, NEW q \in Orders
  PROVE  /\ o # p => Before(n, o, p) \/ Before(n, p, o)
         /\ ~(Before(n, o, p) /\ Before(n, p, o))
         /\ Before(n, o, p) /\ Before(n, p, q) => Before(n, o, q)
<1>1. n[o] \in Int /\ n[p] \in Int /\ n[q] \in Int
  OBVIOUS
<1>2. Position[o] \in Nat /\ Position[p] \in Nat /\ Position[q] \in Nat
  BY SubsetSumAssumption
<1>3. Position[o] = Position[p] => o = p
  BY SubsetSumAssumption
<1> QED
  BY <1>1, <1>2, <1>3 DEF Before

LEMMA ReportedTransitive ==
  ASSUME NEW n \in [Orders -> Int], NEW S \in SUBSET Orders, NEW T \in SUBSET Orders,
         NEW U \in SUBSET Orders, ReportedBefore(n, S, T), ReportedBefore(n, T, U)
  PROVE  ReportedBefore(n, S, U)
<1>1. PICK o \in S \ T : \A p \in T \ S : Before(n, o, p)
  BY DEF ReportedBefore
<1>2. PICK q \in T \ U : \A p \in U \ T : Before(n, q, p)
  BY DEF ReportedBefore
<1>3. CASE Before(n, o, q)
  <2>1. o \notin U
    BY <1>2, <1>3, BeforeIsTotal
  <2>2. \A p \in U \ S : Before(n, o, p)
    <3> SUFFICES ASSUME NEW p \in U \ S PROVE Before(n, o, p)
      OBVIOUS
    <3>1. CASE p \in T
      BY <1>1, <3>1
    <3>2. CASE p \notin T
      BY <1>2, <1>3, <3>2, BeforeIsTotal
    <3> QED
      BY <3>1, <3>2
  <2> QED
    BY <2>1, <2>2 DEF ReportedBefore
<1>4. CASE Before(n, q, o)
  <2>1. q \in S
    BY <1>1, <1>4, BeforeIsTotal
  <2>2. \A p \in U \ S : Before(n, q, p)
    <3> SUFFICES ASSUME NEW p \in U \ S PROVE Before(n, q, p)
      OBVIOUS
    <3>1. CASE p \in T
      <4>1. Before(n, o, p)
        BY <1>1, <3>1
      <4> QED
        BY <1>4, <4>1, BeforeIsTotal
    <3>2. CASE p \notin T
      BY <1>2, <3>2
    <3> QED
      BY <3>1, <3>2
  <2> QED
    BY <2>1, <2>2 DEF ReportedBefore
<1>5. o # q
  OBVIOUS
<1> QED
  BY <1>3, <1>4, <1>5, BeforeIsTotal

\* Of finitely many sets of orders one is reported first.
LEMMA OneIsFirst ==
  ASSUME NEW n \in [Orders -> Int], NEW A, A \subseteq SUBSET Orders, IsFiniteSet(A), A # {}
  PROVE  \E S \in A : \A T \in A : ~ReportedBefore(n, T, S)
<1> DEFINE Earlier(S) == {T \in A : ReportedBefore(n, T, S)}
           Counts == {Cardinality(Earlier(S)) : S \in A}
<1>1. \A S \in A : IsFiniteSet(Earlier(S)) /\ Cardinality(Earlier(S)) \in Nat
  BY FS_Subset, FS_CardinalityType
<1>2. Counts \subseteq Nat /\ Counts # {}
  BY <1>1
<1>3. PICK c \in Counts : \A d \in Counts : c <= d
  <2> HIDE DEF Counts
  <2> QED
    BY <1>2, LeastNumber
<1>4. PICK S \in A : c = Cardinality(Earlier(S))
  OBVIOUS
<1>5. ASSUME NEW T \in A, ReportedBefore(n, T, S) PROVE FALSE
  <2>1. Earlier(T) \subseteq Earlier(S)
    BY <1>5, ReportedTransitive
  <2>2. T \in Earlier(S) /\ T \notin Earlier(T)
    BY <1>5 DEF ReportedBefore
  <2>3. Cardinality(Earlier(T)) < Cardinality(Earlier(S))
    <3> DEFINE X == Earlier(T)
               Y == Earlier(S)
    <3>1. X \subseteq Y /\ X # Y /\ IsFiniteSet(Y) /\ IsFiniteSet(X)
      BY <1>1, <2>1, <2>2
    <3>2. Cardinality(X) \in Nat /\ Cardinality(Y) \in Nat
      BY <1>1
    <3> HIDE DEF X, Y
    <3>3. Cardinality(X) <= Cardinality(Y) /\ (Cardinality(X) = Cardinality(Y) => X = Y)
      BY <3>1, FS_Subset
    <3> QED
      BY <3>1, <3>2, <3>3 DEF X, Y
  <2>4. Cardinality(Earlier(T)) \in Counts
    OBVIOUS
  <2>5. c <= Cardinality(Earlier(T))
    <3> HIDE DEF Counts
    <3> QED
      BY <1>3, <2>4
  <2>6. c \in Nat /\ Cardinality(Earlier(T)) \in Nat
    BY <1>1, <1>4
  <2>7. c = Cardinality(Earlier(S))
    BY <1>4
  <2> HIDE DEF Earlier, Counts
  <2> QED
    BY <2>3, <2>5, <2>6, <2>7
<1> QED
  BY <1>5

-----------------------------------------------------------------------------
(* What a list that was not cut short says *)

LEMMA ExplanationsAreSets ==
  ASSUME NEW n, NEW pool \in SUBSET Orders, NEW x
  PROVE  /\ Explanations(n, pool, x) \subseteq SUBSET pool
         /\ IsFiniteSet(Explanations(n, pool, x))
         /\ \A S \in Explanations(n, pool, x) : KernelAccepts(n, S, x)
<1>1. Explanations(n, pool, x) \subseteq SUBSET pool
  BY DEF Explanations
<1>2. IsFiniteSet(SUBSET pool)
  BY SubsetSumAssumption, FS_Subset, FS_SUBSET
<1>3. IsFiniteSet(Explanations(n, pool, x))
  BY <1>1, <1>2, FS_Subset
<1>4. \A S \in Explanations(n, pool, x) : Fits(n, S, x)
  BY DEF Explanations
<1> QED
  BY <1>1, <1>3, <1>4 DEF KernelAccepts

\* A list within the cap is everything the search would have found, and so is
\* a list of one: the cap is at least two.
LEMMA FoundIsAll ==
  ASSUME NEW n \in [Orders -> Int], NEW pool \in SUBSET Orders, NEW x,
         Affordable(n, pool, x) = pool
  PROVE  /\ Exhaustive(n, pool, x) => Found(n, pool, x) = Explanations(n, pool, x)
         /\ \A p : Found(n, pool, x) = {p} => Explanations(n, pool, x) = {p}
<1> DEFINE all == Explanations(n, pool, x)
           Earlier(S) == {T \in all : ReportedBefore(n, T, S)}
<1>1. all \subseteq SUBSET Orders /\ IsFiniteSet(all) /\ Cardinality(all) \in Nat
  BY ExplanationsAreSets, FS_CardinalityType
<1>2. Found(n, pool, x) = {S \in all : Cardinality(Earlier(S)) < MaxEnum}
  BY DEF Found
<1>3. Exhaustive(n, pool, x) <=> Cardinality(all) <= MaxEnum
  BY DEF Exhaustive
<1>4. MaxEnum \in Nat /\ MaxEnum > 1
  BY SubsetSumAssumption
<1> HIDE DEF all
<1>5. \A S \in all : IsFiniteSet(Earlier(S)) /\ Cardinality(Earlier(S)) \in Nat
  BY <1>1, FS_Subset, FS_CardinalityType
<1>6. ASSUME Cardinality(all) <= MaxEnum, NEW S \in all
      PROVE  Cardinality(Earlier(S)) < MaxEnum
  <2>1. Earlier(S) \subseteq all /\ S \notin Earlier(S)
    BY DEF ReportedBefore
  <2>2. PICK X : X = Earlier(S)
    OBVIOUS
  <2>3. Cardinality(X) <= Cardinality(all) /\ (Cardinality(X) = Cardinality(all) => X = all)
    BY <1>1, <2>1, <2>2, FS_Subset
  <2>4. X # all /\ Cardinality(X) \in Nat
    BY <1>5, <2>1, <2>2
  <2> QED
    BY <1>1, <1>4, <1>6, <2>2, <2>3, <2>4
<1>7. ASSUME NEW p, Found(n, pool, x) = {p}, all # {p} PROVE FALSE
  <2>1. p \in all
    BY <1>2, <1>7
  <2>2. all \ {p} # {} /\ all \ {p} \subseteq SUBSET Orders /\ IsFiniteSet(all \ {p})
    BY <1>1, <1>7, <2>1, FS_Subset
  <2>3. PICK S \in all \ {p} : \A T \in all \ {p} : ~ReportedBefore(n, T, S)
    BY <2>2, OneIsFirst
  <2>4. Earlier(S) \subseteq {p}
    BY <2>3
  <2>5. Cardinality(Earlier(S)) <= 1
    <3>1. PICK X : X = Earlier(S)
      OBVIOUS
    <3>2. IsFiniteSet({p}) /\ Cardinality({p}) = 1
      BY FS_Singleton
    <3>3. Cardinality(X) <= 1
      BY <2>4, <3>1, <3>2, FS_Subset
    <3> QED
      BY <3>1, <3>3
  <2>6. S \in Found(n, pool, x)
    BY <1>2, <1>4, <1>5, <2>3, <2>5
  <2> QED
    BY <1>7, <2>3, <2>6
<1> QED
  BY <1>2, <1>3, <1>6, <1>7 DEF all

\* When there is something to find, the search reports something: its first.
LEMMA FoundIsSome ==
  ASSUME NEW n \in [Orders -> Int], NEW pool \in SUBSET Orders, NEW x,
         Affordable(n, pool, x) = pool, Explanations(n, pool, x) # {}
  PROVE  Found(n, pool, x) # {}
<1> DEFINE all == Explanations(n, pool, x)
<1>1. all \subseteq SUBSET Orders /\ IsFiniteSet(all) /\ all # {}
  BY ExplanationsAreSets
<1>2. PICK S \in all : \A T \in all : ~ReportedBefore(n, T, S)
  <2> HIDE DEF all
  <2> QED
    BY <1>1, OneIsFirst
<1>3. {T \in all : ReportedBefore(n, T, S)} = {}
  BY <1>2
<1>4. Cardinality({T \in all : ReportedBefore(n, T, S)}) < MaxEnum
  <2>1. Cardinality({}) = 0
    BY FS_EmptySet
  <2> HIDE DEF all
  <2> QED
    BY <1>3, <2>1, SubsetSumAssumption
<1> QED
  BY <1>2, <1>4 DEF Found

\* Of finitely many sets of orders one is reported last.
LEMMA OneIsLast ==
  ASSUME NEW n \in [Orders -> Int], NEW A, A \subseteq SUBSET Orders, IsFiniteSet(A), A # {}
  PROVE  \E S \in A : \A T \in A : ~ReportedBefore(n, S, T)
<1> DEFINE Later(S) == {T \in A : ReportedBefore(n, S, T)}
           Counts == {Cardinality(Later(S)) : S \in A}
<1>1. \A S \in A : IsFiniteSet(Later(S)) /\ Cardinality(Later(S)) \in Nat
  BY FS_Subset, FS_CardinalityType
<1>2. Counts \subseteq Nat /\ Counts # {}
  BY <1>1
<1>3. PICK c \in Counts : \A d \in Counts : c <= d
  <2> HIDE DEF Counts
  <2> QED
    BY <1>2, LeastNumber
<1>4. PICK S \in A : c = Cardinality(Later(S))
  OBVIOUS
<1>5. ASSUME NEW T \in A, ReportedBefore(n, S, T) PROVE FALSE
  <2>1. Later(T) \subseteq Later(S)
    BY <1>5, ReportedTransitive
  <2>2. T \in Later(S) /\ T \notin Later(T)
    BY <1>5 DEF ReportedBefore
  <2>3. Cardinality(Later(T)) < Cardinality(Later(S))
    <3> DEFINE X == Later(T)
               Y == Later(S)
    <3>1. X \subseteq Y /\ X # Y /\ IsFiniteSet(Y) /\ IsFiniteSet(X)
      BY <1>1, <2>1, <2>2
    <3>2. Cardinality(X) \in Nat /\ Cardinality(Y) \in Nat
      BY <1>1
    <3> HIDE DEF X, Y
    <3>3. Cardinality(X) <= Cardinality(Y) /\ (Cardinality(X) = Cardinality(Y) => X = Y)
      BY <3>1, FS_Subset
    <3> QED
      BY <3>1, <3>2, <3>3 DEF X, Y
  <2>4. Cardinality(Later(T)) \in Counts
    OBVIOUS
  <2>5. c <= Cardinality(Later(T))
    <3> HIDE DEF Counts
    <3> QED
      BY <1>3, <2>4
  <2>6. c \in Nat /\ Cardinality(Later(T)) \in Nat
    BY <1>1, <1>4
  <2>7. c = Cardinality(Later(S))
    BY <1>4
  <2> HIDE DEF Later, Counts
  <2> QED
    BY <2>3, <2>5, <2>6, <2>7
<1> QED
  BY <1>5

\* Of two sets of orders one is reported before the other.
LEMMA ReportedIsTotal ==
  ASSUME NEW n \in [Orders -> Int], NEW S \in SUBSET Orders, NEW T \in SUBSET Orders, S # T
  PROVE  ReportedBefore(n, S, T) \/ ReportedBefore(n, T, S)
<1> DEFINE D == (S \ T) \cup (T \ S)
           Starts == {{q \in D : Before(n, q, o)} : o \in D}
<1>1. D \subseteq Orders /\ D # {} /\ IsFiniteSet(D)
  <2>1. D \subseteq Orders /\ D # {}
    OBVIOUS
  <2> QED
    BY <2>1, SubsetSumAssumption, FS_Subset
<1> HIDE DEF D
<1>2. \A A \in Starts : IsFiniteSet(A)
  BY <1>1, FS_Subset
<1>3. PICK A \in Starts : \A B \in Starts : Cardinality(A) <= Cardinality(B)
  <2>1. PICK B : B \in Starts
    BY <1>1
  <2> HIDE DEF Starts
  <2> QED
    BY <1>2, <2>1, SmallestSet
<1>4. PICK o \in D : A = {q \in D : Before(n, q, o)}
  OBVIOUS
<1>5. ASSUME NEW q \in D, Before(n, q, o) PROVE FALSE
  <2>1. PICK B : B = {r \in D : Before(n, r, q)}
    OBVIOUS
  <2>2. B \subseteq A /\ q \in A /\ q \notin B
    BY <1>1, <1>4, <1>5, <2>1, BeforeIsTotal
  <2>3. B \in Starts /\ IsFiniteSet(A) /\ IsFiniteSet(B)
    BY <1>2, <2>1
  <2>4. Cardinality(B) <= Cardinality(A) /\ (Cardinality(B) = Cardinality(A) => B = A)
    BY <2>2, <2>3, FS_Subset
  <2>5. Cardinality(A) <= Cardinality(B)
    <3> HIDE DEF Starts
    <3> QED
      BY <1>3, <2>3
  <2>6. Cardinality(A) \in Nat /\ Cardinality(B) \in Nat
    BY <2>3, FS_CardinalityType
  <2> QED
    BY <2>2, <2>4, <2>5, <2>6
<1>6. \A q \in D : q = o \/ Before(n, o, q)
  BY <1>1, <1>5, BeforeIsTotal
<1>7. CASE o \in S \ T
  <2>1. \A q \in T \ S : Before(n, o, q)
    BY <1>6, <1>7 DEF D
  <2> QED
    BY <1>7, <2>1 DEF ReportedBefore
<1>8. CASE o \in T \ S
  <2>1. \A q \in S \ T : Before(n, o, q)
    BY <1>6, <1>8 DEF D
  <2> QED
    BY <1>8, <2>1 DEF ReportedBefore
<1> QED
  BY <1>4, <1>7, <1>8 DEF D

\* A list that was cut short leaves out an explanation: the last.
LEMMA CutListsLeaveOneOut ==
  ASSUME NEW n \in [Orders -> Int], NEW pool \in SUBSET Orders, NEW x,
         Affordable(n, pool, x) = pool, ~Exhaustive(n, pool, x)
  PROVE  \E S \in Explanations(n, pool, x) : S \notin Found(n, pool, x)
<1> DEFINE all == Explanations(n, pool, x)
           Earlier(S) == {T \in all : ReportedBefore(n, T, S)}
<1>1. all \subseteq SUBSET Orders /\ IsFiniteSet(all) /\ Cardinality(all) \in Nat
  BY ExplanationsAreSets, FS_CardinalityType
<1>2. Found(n, pool, x) = {S \in all : Cardinality(Earlier(S)) < MaxEnum}
  BY DEF Found
<1>3. MaxEnum \in Nat /\ Cardinality(all) > MaxEnum
  BY <1>1, SubsetSumAssumption DEF Exhaustive
<1> HIDE DEF all
<1>4. \A S \in all : IsFiniteSet(Earlier(S)) /\ Cardinality(Earlier(S)) \in Nat
  BY <1>1, FS_Subset, FS_CardinalityType
<1>5. all # {}
  <2>1. Cardinality({}) = 0
    BY FS_EmptySet
  <2> QED
    BY <1>3, <2>1
<1>6. PICK S \in all : \A T \in all : ~ReportedBefore(n, S, T)
  BY <1>1, <1>5, OneIsLast
<1>7. Earlier(S) = all \ {S}
  <2>1. \A T \in all \ {S} : ReportedBefore(n, T, S)
    BY <1>1, <1>6, ReportedIsTotal
  <2>2. ~ReportedBefore(n, S, S)
    BY DEF ReportedBefore
  <2> QED
    BY <2>1, <2>2
<1>8. Cardinality(all \ {S}) = Cardinality(all) - 1
  BY <1>1, OneLess
<1>9. ~(Cardinality(Earlier(S)) < MaxEnum)
  <2> HIDE DEF Earlier
  <2> QED
    BY <1>1, <1>3, <1>7, <1>8
<1> QED
  BY <1>2, <1>6, <1>9 DEF all

-----------------------------------------------------------------------------
(* The cuts lose nothing *)

LEMMA BandIsNat ==
  ASSUME NEW pool \in SUBSET Orders
  PROVE  Band(pool) \in Nat
<1>1. Cardinality(pool) \in Nat
  BY SubsetSumAssumption, FS_Subset, FS_CardinalityType
<1> QED
  BY <1>1, SubsetSumAssumption DEF Band, Tolerance

\* The start of a set, in the order the items are taken in.
IsPrefix(n, T, S) == T \subseteq S /\ \A p \in T, q \in S \ T : Before(n, p, q)

\* What a prefix has before one of its items is a shorter prefix.
LEMMA PrefixOfPrefix ==
  ASSUME NEW n \in [Orders -> Int], NEW S \in SUBSET Orders, NEW T, IsPrefix(n, T, S),
         NEW o \in T
  PROVE  /\ Chosen(n, T, o) \subseteq T \ {o}
         /\ IsPrefix(n, Chosen(n, T, o), S)
         /\ \A q \in S \ Chosen(n, T, o) : ~Before(n, q, o)
<1>1. T \subseteq S /\ T \subseteq Orders
  BY DEF IsPrefix
<1>2. Chosen(n, T, o) \subseteq T \ {o}
  BY <1>1, BeforeIsTotal DEF Chosen
<1>3. ASSUME NEW q \in S \ Chosen(n, T, o) PROVE ~Before(n, q, o)
  <2>1. CASE q \in T
    BY <2>1 DEF Chosen
  <2>2. CASE q \notin T
    <3>1. Before(n, o, q)
      BY <2>2 DEF IsPrefix
    <3> QED
      BY <1>1, <3>1, BeforeIsTotal
  <2> QED
    BY <2>1, <2>2
<1>4. ASSUME NEW p \in Chosen(n, T, o), NEW q \in S \ Chosen(n, T, o)
      PROVE  Before(n, p, q)
  <2>1. Before(n, p, o) /\ p \in Orders /\ q \in Orders /\ o \in Orders
    BY <1>1 DEF Chosen
  <2>2. q = o \/ Before(n, o, q)
    BY <1>3, <2>1, BeforeIsTotal
  <2> QED
    BY <2>1, <2>2, BeforeIsTotal
<1> QED
  BY <1>1, <1>2, <1>3, <1>4 DEF IsPrefix

\* On the way to a set that does not overshoot and leaves no more than the
\* band, none of the three cuts fires.
LEMMA NoCutOnTheWay ==
  ASSUME NEW n \in [Orders -> Int], NEW pool \in SUBSET Orders, NEW x \in Int,
         \A o \in pool : n[o] > 0,
         NEW S \in SUBSET pool, Residual(n, S, x) >= 0, Residual(n, S, x) <= Band(pool),
         NEW P \in SUBSET S, NEW o \in pool, \A q \in S \ P : ~Before(n, q, o)
  PROVE  Uncut(n, pool, Reachable(n, pool, x), Residual(n, P, x), o)
<1> DEFINE rest == S \ P
           ahead == {q \in pool : ~Before(n, q, o)}
           b == Band(pool)
           r == Residual(n, P, x)
           left == Total(n, rest)
<1>0. IsFiniteSet(Orders) /\ b \in Nat
  BY SubsetSumAssumption, BandIsNat
<1>1. /\ Total(n, S) = Total(n, P) + left
      /\ Total(n, S) \in Int /\ Total(n, P) \in Int /\ left \in Int
  BY <1>0, TotalOfPart
<1>2. left >= 0
  BY <1>0, TotalIsPositive
<1>3. r = x - Total(n, P) /\ r \in Int /\ r - left = Residual(n, S, x)
  BY <1>1 DEF Residual
<1>4. Total(n, ahead) >= left
  <2>1. PICK A \in SUBSET Orders : A = ahead
    OBVIOUS
  <2>2. rest \in SUBSET A /\ A \subseteq pool
    BY <2>1
  <2>3. Total(n, A) = left + Total(n, A \ rest) /\ Total(n, A \ rest) \in Int
    <3> HIDE DEF rest
    <3> QED
      BY <1>0, <2>2, TotalOfPart
  <2>4. Total(n, A \ rest) >= 0
    <3>1. A \ rest \in SUBSET Orders /\ \A q \in A \ rest : n[q] > 0
      BY <2>2
    <3> HIDE DEF rest
    <3> QED
      BY <1>0, <3>1, TotalIsPositive
  <2> HIDE DEF left, ahead, rest
  <2> QED
    BY <1>1, <2>1, <2>3, <2>4
<1>5. Total(n, ahead) \in Int
  <2>1. ahead \in SUBSET Orders
    OBVIOUS
  <2> QED
    BY <1>0, <2>1, TotalStep
<1>6. Total(n, P) >= 0
  BY <1>0, TotalIsPositive
<1>7. left \in Reachable(n, pool, x)
  <2>1. rest \in SUBSET pool
    OBVIOUS
  <2>2. left \in 0 .. x
    <3> HIDE DEF left, r
    <3> QED
      BY <1>1, <1>2, <1>3, <1>6 DEF Residual
  <2> QED
    BY <2>1, <2>2 DEF Reachable
<1> HIDE DEF left, ahead, r, b
<1>8. Residual(n, S, x) = r - left /\ r - left >= 0 /\ r - left <= b
  BY <1>3 DEF b
<1>9. r >= -b /\ Total(n, ahead) >= r - b
  BY <1>0, <1>1, <1>2, <1>3, <1>4, <1>5, <1>8
<1>10. Magnitude(left - r) <= b
  BY <1>0, <1>1, <1>3, <1>8 DEF Magnitude
<1>11. Attainable(Reachable(n, pool, x), b, r)
  BY <1>7, <1>10 DEF Attainable
<1> QED
  BY <1>9, <1>11 DEF Uncut, ahead, r, b

\* The search is complete up to its band: a set of candidates that fits the
\* credit, does not overshoot it and leaves no more than the band open has a
\* reported explanation as its start.  Larger residuals, which only a set of
\* more than BandCap orders may leave, are outside of what it looks for.
THEOREM SearchIsComplete ==
  ASSUME NEW n \in [Orders -> Int], NEW pool \in SUBSET Orders, NEW x \in Int,
         \A o \in pool : n[o] > 0,
         NEW S \in SUBSET pool, S # {}, Fits(n, S, x),
         Residual(n, S, x) >= 0, Residual(n, S, x) <= Band(pool)
  PROVE  \E p \in Explanations(n, pool, x) : p \subseteq S
<1> DEFINE A == {T \in SUBSET S : T # {} /\ Fits(n, T, x) /\ IsPrefix(n, T, S)}
           fits == {T \in SUBSET pool : T # {} /\ Fits(n, T, x)}
<1>1. S \in A
  BY DEF IsPrefix
<1>2. IsFiniteSet(S)
  BY SubsetSumAssumption, FS_Subset
<1>3. \A T \in A : IsFiniteSet(T)
  BY <1>2, FS_Subset
<1>4. PICK T \in A : \A U \in A : Cardinality(T) <= Cardinality(U)
  <2> HIDE DEF A
  <2> QED
    BY <1>1, <1>3, SmallestSet
<1>5. T \in SUBSET S /\ T # {} /\ Fits(n, T, x) /\ IsPrefix(n, T, S) /\ T \in fits
  OBVIOUS
<1>6. ASSUME NEW o \in T
      PROVE  /\ Chosen(n, T, o) \notin fits
             /\ Uncut(n, pool, Reachable(n, pool, x), Residual(n, Chosen(n, T, o), x), o)
  <2>1. PICK P : P = Chosen(n, T, o)
    OBVIOUS
  <2>2. P \subseteq T \ {o} /\ IsPrefix(n, P, S) /\ \A q \in S \ P : ~Before(n, q, o)
    BY <1>5, <2>1, PrefixOfPrefix
  <2>3. P \notin A
    <3>1. IsFiniteSet(T) /\ T \ {o} \subseteq T /\ IsFiniteSet(T \ {o})
      BY <1>3, FS_Subset
    <3>2. Cardinality(P) <= Cardinality(T \ {o}) /\ IsFiniteSet(P)
      BY <2>2, <3>1, FS_Subset
    <3>3. Cardinality(T \ {o}) = Cardinality(T) - 1 /\ Cardinality(T) \in Nat
      BY <3>1, OneLess
    <3>4. Cardinality(P) \in Nat
      BY <3>2, FS_CardinalityType
    <3>5. ~(Cardinality(T) <= Cardinality(P))
      BY <3>2, <3>3, <3>4
    <3> HIDE DEF A
    <3> QED
      BY <1>4, <3>5
  <2>4. P \notin fits
    BY <1>5, <2>2, <2>3
  <2>5. P \in SUBSET S /\ o \in pool
    BY <1>5, <2>2
  <2>6. Uncut(n, pool, Reachable(n, pool, x), Residual(n, P, x), o)
    BY <2>2, <2>5, NoCutOnTheWay
  <2> QED
    BY <2>1, <2>4, <2>6
<1>7. T \in Explanations(n, pool, x)
  BY <1>5, <1>6 DEF Explanations
<1> QED
  BY <1>5, <1>7

-----------------------------------------------------------------------------
(* The engine *)

\* The settlements still to come are undecided, and none comes up twice.
WorkInv ==
  /\ \A i, j \in DOMAIN work : work[i] = work[j] => i = j
  /\ \A i \in DOMAIN work : i >= turn => findings[work[i]] = Undecided

\* The inductive invariant.
IInv == TypeOK /\ WorkInv /\ SpentIsAccounted /\ NoOrderSpentTwice

\* The part of the types the engine's steps rest on, whatever book it was given.
EngineOK ==
  /\ net \in [Orders -> Int] /\ credit \in [Settlements -> Int]
  /\ rung \in 0 .. LastRung /\ turn \in Nat \ {0} /\ spent \subseteq Orders
  /\ findings \in [Settlements -> FindingType]

-----------------------------------------------------------------------------
\* A candidate is an order nobody has been given (PoolIndex.pool).
LEMMA PoolIsFree ==
  ASSUME NEW s, NEW r
  PROVE  Pool(s, r) \subseteq Orders \ spent
BY DEF Pool, Affordable, Window

\* Whatever the search reports is made of candidates.
LEMMA ProofsAreCandidates ==
  ASSUME NEW s, NEW r
  PROVE  Proofs(s, r) \subseteq SUBSET Pool(s, r)
BY DEF Proofs, Found, Explanations, Affordable

LEMMA CardinalityIsInt ==
  ASSUME NEW S \in SUBSET Orders
  PROVE  Cardinality(S) \in Nat
<1>1. IsFiniteSet(Orders)
  BY SubsetSumAssumption
<1>2. IsFiniteSet(S)
  BY <1>1, FS_Subset
<1> QED
  BY <1>2, FS_CardinalityType

LEMMA SettlementCount == Cardinality(Settlements) \in Nat
BY CascadeAssumption, FS_CardinalityType

LEMMA WorkIsAList ==
  ASSUME TypeOK
  PROVE  \E n \in Nat : DOMAIN work = 1 .. n /\ \A i \in 1 .. n : work[i] \in Settlements
BY SettlementCount DEF TypeOK

LEMMA TypesOfTheEngine == TypeOK => EngineOK
<1> SUFFICES ASSUME TypeOK PROVE EngineOK
  OBVIOUS
<1>1. net \in [Orders -> Int] /\ credit \in [Settlements -> Int]
  BY CascadeAssumption DEF TypeOK
<1>2. turn \in Nat \ {0}
  BY SettlementCount DEF TypeOK
<1> QED
  BY <1>1, <1>2 DEF TypeOK, EngineOK

LEMMA SpaceTyped ==
  ASSUME NEW s, NEW r
  PROVE  SpaceOf(s, r) \in SearchSpaces /\ SpaceOf(s, r).members = Pool(s, r)
<1> DEFINE w == Window(s, r)
<1>1. /\ w \subseteq Orders /\ w \ spent \subseteq Orders
      /\ Pool(s, r) \subseteq Orders
  BY PoolIsFree DEF Window
<1>2. /\ Cardinality(Orders) \in Nat /\ Cardinality(w) \in Nat
      /\ Cardinality(w \ spent) \in Nat /\ Cardinality(Pool(s, r)) \in Nat
  BY <1>1, CardinalityIsInt
<1> HIDE DEF w
<1>3. SpaceOf(s, r) =
        [members |-> Pool(s, r), window |-> Cardinality(Orders) - Cardinality(w),
         claimed |-> Cardinality(w) - Cardinality(w \ spent),
         ceiling |-> Cardinality(w \ spent) - Cardinality(Pool(s, r))]
  BY DEF SpaceOf, w
<1> QED
  BY <1>1, <1>2, <1>3 DEF SearchSpaces

LEMMA FindingTyped ==
  ASSUME NEW s, NEW r \in 0 .. LastRung, NEW v \in Verdicts,
         NEW proofs \in SUBSET SUBSET Orders, NEW e \in BOOLEAN, NEW l \in Layers
  PROVE  /\ Finding(s, r, v, proofs, e, l) \in FindingType
         /\ Finding(s, r, v, proofs, e, l).verdict # "UNDECIDED"
         /\ Finding(s, r, v, proofs, e, l).space.members \subseteq Orders \ spent
<1>1. SpaceOf(s, r) \in SearchSpaces
  BY SpaceTyped
<1>2. SpaceOf(s, r).members \subseteq Orders \ spent
  BY SpaceTyped, PoolIsFree
<1>3. v \in Verdicts \cup {"UNDECIDED"} /\ l \in Layers \cup {""}
  OBVIOUS
<1> QED
  BY <1>1, <1>2, <1>3 DEF Finding, FindingType, Verdicts

\* A postable finding claims candidates only.
LEMMA ClaimIsFree ==
  ASSUME NEW f, f.space.members \subseteq Orders \ spent
  PROVE  Claim(f) \subseteq Orders \ spent
BY DEF Claim, Postable

LEMMA UndecidedClaimsNothing == Claim(Undecided) = {}
BY DEF Claim, Postable, Undecided

\* The four steps that answer a settlement all conclude a typed finding over
\* candidates that are still free.
LEMMA AnswersConclude ==
  ASSUME EngineOK, MatchSingle \/ Skip \/ Decide \/ Exhaust
  PROVE  /\ Deciding
         /\ \E f \in FindingType :
              /\ f.verdict # "UNDECIDED"
              /\ f.space.members \subseteq Orders \ spent /\ Conclude(f)
<1> DEFINE Free(f) == f.verdict # "UNDECIDED" /\ f.space.members \subseteq Orders \ spent
<1>0. rung \in 0 .. LastRung
  BY DEF EngineOK
<1>1. CASE MatchSingle
  <2> DEFINE f == Finding(Current, rung, "PROVEN",
                          {Singles(Current, rung)}, TRUE, "L2-single")
  <2>1. {Singles(Current, rung)} \in SUBSET SUBSET Orders
    BY PoolIsFree DEF Singles
  <2>2. f \in FindingType /\ Free(f)
    BY <1>0, <2>1, FindingTyped DEF Verdicts, Layers
  <2>3. Deciding /\ Conclude(f)
    BY <1>1 DEF MatchSingle
  <2> QED
    BY <2>2, <2>3
<1>2. CASE Skip
  <2> DEFINE f == Finding(Current, rung, "INSUFFICIENT", {}, FALSE, "L3-skipped")
  <2>1. f \in FindingType /\ Free(f)
    BY <1>0, FindingTyped DEF Verdicts, Layers
  <2>2. Deciding /\ Conclude(f)
    BY <1>2 DEF Skip
  <2> QED
    BY <2>1, <2>2
<1>3. CASE Decide
  <2> DEFINE proofs == Proofs(Current, rung)
             v == IF \E p \in proofs : proofs = {p} THEN "PROVEN" ELSE "AMBIGUOUS"
             e == Exhaustive(net, Pool(Current, rung), credit[Current])
             f == Finding(Current, rung, v, proofs, e, "L3-dp")
  <2>1. proofs \in SUBSET SUBSET Orders
    BY ProofsAreCandidates, PoolIsFree
  <2>2. v \in Verdicts
    BY DEF Verdicts
  <2>3. e \in BOOLEAN
    BY DEF Exhaustive
  <2>4. Deciding /\ Conclude(f)
    BY <1>3 DEF Decide, Searched
  <2> HIDE DEF proofs, v, e
  <2>5. f \in FindingType /\ Free(f)
    BY <1>0, <2>1, <2>2, <2>3, FindingTyped DEF Layers
  <2> QED
    BY <2>4, <2>5
<1>4. CASE Exhaust
  <2> DEFINE f == Finding(Current, rung, "CONTRADICTED", {}, FALSE,
                          "L3-dp/exhausted")
  <2>1. f \in FindingType /\ Free(f)
    BY <1>0, FindingTyped DEF Verdicts, Layers
  <2>2. Deciding /\ Conclude(f)
    BY <1>4 DEF Exhaust, Searched
  <2> QED
    BY <2>1, <2>2
<1> QED
  BY <1>1, <1>2, <1>3, <1>4

-----------------------------------------------------------------------------
(* The inductive invariant *)

LEMMA InitIInv == Init => IInv
<1> SUFFICES ASSUME Init PROVE IInv
  OBVIOUS
<1>1. Undecided \in FindingType
  <2>1. Cardinality({}) = 0
    BY FS_EmptySet
  <2> QED
    BY DEF Undecided, FindingType, EmptySpace, SearchSpaces, LastRung, LagLadder
<1>2. TypeOK
  BY <1>1, SettlementCount DEF Init, TypeOK, WorkOrders, LastRung, LagLadder
<1>3. WorkInv
  <2>1. \A i, j \in DOMAIN work : work[i] = work[j] => i = j
    <3> SUFFICES ASSUME NEW i \in DOMAIN work, NEW j \in DOMAIN work, i # j
                 PROVE  work[i] # work[j]
      OBVIOUS
    <3>1. DOMAIN work \subseteq Int
      BY SettlementCount DEF Init, WorkOrders
    <3>2. i < j \/ j < i
      BY <3>1
    <3> QED
      BY <3>2 DEF Init, WorkOrders
  <2>2. \A i \in DOMAIN work : findings[work[i]] = Undecided
    BY DEF Init, WorkOrders
  <2> QED
    BY <2>1, <2>2 DEF WorkInv
<1>4. SpentIsAccounted
  BY UndecidedClaimsNothing DEF Init, SpentIsAccounted
<1>5. NoOrderSpentTwice
  BY UndecidedClaimsNothing DEF Init, NoOrderSpentTwice
<1> QED
  BY <1>2, <1>3, <1>4, <1>5 DEF IInv

\* Answering the settlement whose turn it is keeps the invariant: its orders
\* join spent, and it was undecided until now.
LEMMA ConcludeIInv ==
  ASSUME IInv, Deciding, NEW f \in FindingType,
         f.space.members \subseteq Orders \ spent, Conclude(f)
  PROVE  IInv'
<1> DEFINE c == work[turn]
<1>1. /\ c \in Settlements
      /\ turn \in DOMAIN work
      /\ DOMAIN work = 1 .. Cardinality(Settlements)
  BY DEF IInv, TypeOK, Deciding
<1>2. /\ findings' = [findings EXCEPT ![c] = f]
      /\ spent' = spent \cup Claim(f)
      /\ turn' = turn + 1 /\ rung' = 0 /\ phase' = phase
      /\ net' = net /\ capturedOn' = capturedOn /\ credit' = credit
      /\ settledOn' = settledOn /\ work' = work
  BY DEF Conclude, Current, book
<1>3. Claim(f) \subseteq Orders
  BY ClaimIsFree
<1>4. TypeOK'
  <2>1. turn' \in 1 .. (Cardinality(Settlements) + 1)
    BY <1>1, <1>2, SettlementCount
  <2>2. rung' \in 0 .. LastRung
    BY <1>2 DEF LastRung, LagLadder
  <2>3. findings' \in [Settlements -> FindingType]
    BY <1>1, <1>2 DEF IInv, TypeOK
  <2>4. spent' \subseteq Orders
    BY <1>2, <1>3 DEF IInv, TypeOK
  <2> QED
    BY <1>2, <2>1, <2>2, <2>3, <2>4 DEF IInv, TypeOK
<1>5. WorkInv'
  <2> SUFFICES ASSUME NEW i \in DOMAIN work, i >= turn + 1
               PROVE  findings'[work[i]] = Undecided
    BY <1>2 DEF IInv, WorkInv
  <2>1. i \in Int /\ turn \in Int
    BY <1>1, SettlementCount
  <2>2. i >= turn /\ i # turn
    BY <2>1
  <2>3. work[i] # c /\ work[i] \in Settlements
    BY <1>1, <2>2 DEF IInv, WorkInv, TypeOK
  <2> QED
    BY <1>2, <2>2, <2>3 DEF IInv, WorkInv, TypeOK
<1>6. \A s \in Settlements :
        Claim(findings'[s]) = IF s = c THEN Claim(f) ELSE Claim(findings[s])
  BY <1>1, <1>2 DEF IInv, TypeOK
<1>7. spent = UNION {Claim(findings[s]) : s \in Settlements}
  BY DEF IInv, SpentIsAccounted
<1>8. SpentIsAccounted'
  <2>1. Claim(findings[c]) = {}
    <3>1. turn >= turn
      BY <1>1, SettlementCount
    <3> QED
      BY <1>1, <3>1, UndecidedClaimsNothing DEF IInv, WorkInv
  <2>2. ASSUME NEW o \in spent' PROVE \E s \in Settlements : o \in Claim(findings'[s])
    <3>1. CASE o \in Claim(f)
      BY <1>1, <1>6, <3>1
    <3>2. CASE o \in spent
      <4>1. PICK s \in Settlements : o \in Claim(findings[s])
        BY <1>7, <3>2
      <4>2. s # c
        BY <2>1, <4>1
      <4> QED
        BY <1>6, <4>1, <4>2
    <3> QED
      BY <1>2, <2>2, <3>1, <3>2
  <2>3. ASSUME NEW s \in Settlements, NEW o \in Claim(findings'[s])
        PROVE  o \in spent'
    BY <1>2, <1>6, <1>7, <2>3
  <2> QED
    BY <2>2, <2>3 DEF SpentIsAccounted
<1>9. NoOrderSpentTwice'
  <2>1. \A s \in Settlements : Claim(findings[s]) \cap Claim(f) = {}
    BY <1>7, ClaimIsFree
  <2> QED
    BY <1>6, <2>1 DEF IInv, NoOrderSpentTwice
<1> QED
  BY <1>4, <1>5, <1>8, <1>9 DEF IInv

\* Naming a core changes no verdict, proof or space, hence no claim.
LEMMA WithCoreKeeps ==
  ASSUME NEW f \in FindingType
  PROVE  /\ WithCore(f) \in FindingType
         /\ WithCore(f).verdict = f.verdict /\ WithCore(f).proofs = f.proofs
         /\ Claim(WithCore(f)) = Claim(f)
<1>1. /\ WithCore(f).verdict = f.verdict /\ WithCore(f).proofs = f.proofs
      /\ WithCore(f).layer = f.layer /\ WithCore(f).space = f.space
  BY DEF WithCore
<1>2. WithCore(f) \in FindingType
  BY DEF WithCore, FindingType
<1> QED
  BY <1>1, <1>2 DEF Claim, Postable

LEMMA AttachCoresKeeps ==
  ASSUME EngineOK, AttachCores
  PROVE  \A s \in Settlements :
           /\ findings'[s] \in FindingType
           /\ findings'[s].verdict = findings[s].verdict
           /\ findings'[s].proofs = findings[s].proofs
           /\ Claim(findings'[s]) = Claim(findings[s])
           /\ findings[s] = Undecided => findings'[s] = Undecided
<1> SUFFICES ASSUME NEW s \in Settlements
             PROVE  /\ findings'[s] \in FindingType
                    /\ findings'[s].verdict = findings[s].verdict
                    /\ findings'[s].proofs = findings[s].proofs
                    /\ Claim(findings'[s]) = Claim(findings[s])
                    /\ findings[s] = Undecided => findings'[s] = Undecided
  OBVIOUS
<1>1. findings[s] \in FindingType
  BY DEF EngineOK
<1>2. \/ findings'[s] = findings[s]
      \/ findings'[s] = WithCore(findings[s]) /\ Explainable(findings[s])
  BY DEF AttachCores
<1>3. findings[s] = Undecided => ~Explainable(findings[s])
  <2>1. Undecided.verdict = "UNDECIDED"
    BY DEF Undecided
  <2> QED
    BY <2>1 DEF Explainable
<1> QED
  BY <1>1, <1>2, <1>3, WithCoreKeeps

LEMMA NextIInv == IInv /\ [Next]_vars => IInv'
<1> SUFFICES ASSUME IInv, [Next]_vars PROVE IInv'
  OBVIOUS
<1>0. TypeOK /\ EngineOK /\ WorkInv /\ SpentIsAccounted /\ NoOrderSpentTwice
  BY TypesOfTheEngine DEF IInv
<1>1. CASE MatchSingle \/ Skip \/ Decide \/ Exhaust
  <2>1. Deciding
    BY <1>0, <1>1, AnswersConclude
  <2>2. PICK f \in FindingType :
          f.space.members \subseteq Orders \ spent /\ Conclude(f)
    BY <1>0, <1>1, AnswersConclude
  <2> QED
    BY <2>1, <2>2, ConcludeIInv
<1>2. CASE Widen
  <2>1. rung + 1 \in 0 .. LastRung
    BY <1>0, <1>2 DEF TypeOK, Widen, LastRung, LagLadder
  <2> QED
    BY <1>0, <1>2, <2>1
       DEF IInv, TypeOK, WorkInv, SpentIsAccounted, NoOrderSpentTwice,
           Widen, book
<1>3. CASE Finish
  BY <1>0, <1>3 DEF IInv, TypeOK, WorkInv, SpentIsAccounted, NoOrderSpentTwice,
                    Finish, book
<1>4. CASE AttachCores
  <2>1. \A s \in Settlements :
          /\ findings'[s] \in FindingType
          /\ Claim(findings'[s]) = Claim(findings[s])
          /\ findings[s] = Undecided => findings'[s] = Undecided
    BY <1>0, <1>4, AttachCoresKeeps
  <2>2. /\ spent' = spent /\ turn' = turn /\ rung' = rung /\ phase' = "done"
        /\ net' = net /\ capturedOn' = capturedOn /\ credit' = credit
        /\ settledOn' = settledOn /\ work' = work
    BY <1>4 DEF AttachCores, book
  <2>3. findings' \in [Settlements -> FindingType]
    <3>1. \E d \in SUBSET Settlements :
            findings' = [s \in Settlements |->
              IF s \in d THEN WithCore(findings[s]) ELSE findings[s]]
      BY <1>4 DEF AttachCores
    <3> QED
      BY <2>1, <3>1
  <2>4. TypeOK'
    BY <1>0, <2>2, <2>3 DEF TypeOK
  <2>5. WorkInv'
    BY <1>0, <2>1, <2>2 DEF WorkInv, TypeOK
  <2>6. SpentIsAccounted'
    BY <1>0, <2>1, <2>2 DEF SpentIsAccounted
  <2>7. NoOrderSpentTwice'
    BY <1>0, <2>1 DEF NoOrderSpentTwice
  <2> QED
    BY <2>4, <2>5, <2>6, <2>7 DEF IInv
<1>5. CASE UNCHANGED vars
  BY <1>0, <1>5 DEF IInv, TypeOK, WorkInv, SpentIsAccounted, NoOrderSpentTwice,
                    vars
<1> QED
  BY <1>1, <1>2, <1>3, <1>4, <1>5 DEF Next

\* The engine reads any book so typed, and rewrites only what is its own.
LEMMA NextEngineOK == EngineOK /\ [Next]_vars => EngineOK'
<1> SUFFICES ASSUME EngineOK, [Next]_vars PROVE EngineOK'
  OBVIOUS
<1>0. net' = net /\ credit' = credit
  BY DEF Next, MatchSingle, Skip, Decide, Widen, Exhaust, Finish, AttachCores, Conclude,
         book, vars
<1>1. CASE MatchSingle \/ Skip \/ Decide \/ Exhaust
  <2>1. PICK f \in FindingType : f.space.members \subseteq Orders \ spent /\ Conclude(f)
    BY <1>1, AnswersConclude
  <2>2. Claim(f) \subseteq Orders
    BY <2>1, ClaimIsFree
  <2>3. rung' = 0 /\ turn' = turn + 1 /\ spent' = spent \cup Claim(f)
        /\ findings' = [findings EXCEPT ![Current] = f]
    BY <2>1 DEF Conclude
  <2>4. 0 \in 0 .. LastRung
    BY DEF LastRung, LagLadder
  <2>5. findings' \in [Settlements -> FindingType]
    BY <2>1, <2>3 DEF EngineOK
  <2>6. turn' \in Nat \ {0} /\ spent' \subseteq Orders
    BY <2>2, <2>3 DEF EngineOK
  <2> QED
    BY <1>0, <2>3, <2>4, <2>5, <2>6 DEF EngineOK
<1>2. CASE Widen
  <2>1. rung + 1 \in 0 .. LastRung
    BY <1>2 DEF EngineOK, Widen, LastRung, LagLadder
  <2> QED
    BY <1>0, <1>2, <2>1 DEF EngineOK, Widen
<1>3. CASE Finish \/ UNCHANGED vars
  <2>1. UNCHANGED <<turn, rung, spent, findings>>
    BY <1>3 DEF Finish, vars
  <2> QED
    BY <1>0, <2>1 DEF EngineOK
<1>4. CASE AttachCores
  <2>1. \A s \in Settlements : findings'[s] \in FindingType
    BY <1>4, AttachCoresKeeps
  <2>2. \E d \in SUBSET Settlements :
          findings' = [s \in Settlements |->
            IF s \in d THEN WithCore(findings[s]) ELSE findings[s]]
    BY <1>4 DEF AttachCores
  <2>3. findings' \in [Settlements -> FindingType]
    BY <2>1, <2>2
  <2> QED
    BY <1>0, <1>4, <2>3 DEF EngineOK, AttachCores
<1> QED
  BY <1>1, <1>2, <1>3, <1>4 DEF Next

-----------------------------------------------------------------------------
(* Theorems *)

\* The inductive invariant holds whatever the portfolio, the ladder and the
\* search bounds: types, the order of work, spent set and disjoint claims.
THEOREM CascadeInvariant == Spec => []IInv
<1>1. Init => IInv
  BY InitIInv
<1>2. IInv /\ [Next]_vars => IInv'
  BY NextIInv
<1> QED
  BY <1>1, <1>2, PTL DEF Spec

\* Every variable of the engine stays in its type.
THEOREM TypeCorrect == Spec => []TypeOK
<1>1. IInv => TypeOK
  BY DEF IInv
<1> QED
  BY <1>1, CascadeInvariant, PTL

\* An order proven to belong to one payout is claimed by no other.
THEOREM ClaimsAreDisjoint == Spec => []NoOrderSpentTwice
<1>1. IInv => NoOrderSpentTwice
  BY DEF IInv
<1> QED
  BY <1>1, CascadeInvariant, PTL

\* The index has spent exactly what the postable findings claim, so a refused
\* or ambiguous settlement holds nothing back from the settlements after it.
THEOREM SpentIsClaimed == Spec => []SpentIsAccounted
<1>1. IInv => SpentIsAccounted
  BY DEF IInv
<1> QED
  BY <1>1, CascadeInvariant, PTL

-----------------------------------------------------------------------------
(* The engine implements the claim book *)

\* Who owns an order is settled by the claims: they are disjoint.
LEMMA OwnerIsTheClaimant ==
  ASSUME NoOrderSpentTwice, SpentIsAccounted, NEW o \in Orders
  PROVE  /\ \A s \in Settlements : o \in Claim(findings[s]) => Owner(o) = s
         /\ o \notin spent => Owner(o) = "nobody"
<1>1. ASSUME NEW s \in Settlements, o \in Claim(findings[s]) PROVE Owner(o) = s
  <2>1. \A t \in Settlements : o \in Claim(findings[t]) => t = s
    BY <1>1 DEF NoOrderSpentTwice
  <2> QED
    BY <1>1, <2>1 DEF Owner
<1>2. o \notin spent => ~\E s \in Settlements : o \in Claim(findings[s])
  BY DEF SpentIsAccounted
<1> QED
  BY <1>1, <1>2 DEF Owner

\* The claim book's view of a state.
OwnerOf == [o \in Orders |-> Owner(o)]
Answered == {s \in Settlements : findings[s].verdict # "UNDECIDED"}

\* An answer takes orders nobody has, for a settlement nobody answered before.
LEMMA ConcludeAnswers ==
  ASSUME IInv, Deciding, NEW f \in FindingType, f.verdict # "UNDECIDED",
         f.space.members \subseteq Orders \ spent, Conclude(f)
  PROVE  Claims!Next
<1>0. PICK c : c = work[turn]
  OBVIOUS
<1>1. TypeOK /\ WorkInv /\ SpentIsAccounted /\ NoOrderSpentTwice
  BY DEF IInv
<1>2. IInv'
  BY ConcludeIInv
<1>3. c \in Settlements /\ findings[c] = Undecided
  <2>1. turn \in DOMAIN work /\ turn \in Int
    BY <1>1, SettlementCount DEF Deciding, TypeOK
  <2> QED
    BY <1>0, <1>1, <2>1 DEF TypeOK, WorkInv
<1>4. \A s \in Settlements : findings'[s] = IF s = c THEN f ELSE findings[s]
  BY <1>0, <1>1, <1>3 DEF Conclude, Current, TypeOK
<1>5. Claim(f) \subseteq Orders \ spent
  BY ClaimIsFree
<1>6. Claim(f) \subseteq {o \in Orders : OwnerOf[o] = "nobody"}
  BY <1>1, <1>5, OwnerIsTheClaimant DEF OwnerOf
<1>7. ASSUME NEW o \in Orders
      PROVE  Owner(o)' = IF o \in Claim(f) THEN c ELSE Owner(o)
  <2>1. /\ NoOrderSpentTwice' /\ spent' = spent \cup Claim(f)
        /\ \A s \in Settlements :
             Claim(findings'[s]) = IF s = c THEN Claim(f) ELSE Claim(findings[s])
    BY <1>2, <1>4 DEF IInv, Conclude
  <2>2. CASE o \in Claim(f)
    <3>1. o \in Claim(findings'[c])
      BY <1>3, <2>1, <2>2
    <3>2. \A s \in Settlements : o \in Claim(findings'[s]) => s = c
      BY <1>3, <2>1, <3>1 DEF NoOrderSpentTwice
    <3> QED
      BY <1>3, <2>2, <3>1, <3>2 DEF Owner
  <2>3. CASE o \notin Claim(f)
    <3>1. Claim(findings[c]) = {}
      BY <1>3, UndecidedClaimsNothing
    <3>2. \A s \in Settlements : o \in Claim(findings'[s]) <=> o \in Claim(findings[s])
      BY <2>1, <2>3, <3>1
    <3>3. Owner(o)' = Owner(o)
      BY <3>2 DEF Owner
    <3> QED
      BY <2>3, <3>3
  <2> QED
    BY <2>2, <2>3
<1>8. OwnerOf' = [o \in Orders |-> IF o \in Claim(f) THEN c ELSE OwnerOf[o]]
  BY <1>7 DEF OwnerOf
<1>9. c \notin Answered /\ Answered' = Answered \cup {c}
  <2>1. Undecided.verdict = "UNDECIDED"
    BY DEF Undecided
  <2> QED
    BY <1>3, <1>4, <2>1 DEF Answered
<1>10. Claims!Answer(c, Claim(f))
  BY <1>6, <1>8, <1>9 DEF Claims!Answer, Claims!Free, OwnerOf, Answered
<1> QED
  BY <1>3, <1>5, <1>10 DEF Claims!Next

\* Widening, finishing and naming cores leave the book as it is.
LEMMA OthersLeaveTheBook ==
  ASSUME IInv, Widen \/ Finish \/ AttachCores \/ UNCHANGED vars
  PROVE  OwnerOf' = OwnerOf /\ Answered' = Answered
<1>1. \A s \in Settlements :
        /\ Claim(findings'[s]) = Claim(findings[s])
        /\ findings'[s].verdict = findings[s].verdict
  <2>1. CASE AttachCores
    BY <2>1, AttachCoresKeeps, TypesOfTheEngine DEF IInv
  <2>2. CASE Widen \/ Finish \/ UNCHANGED vars
    BY <2>2 DEF Widen, Finish, vars
  <2> QED
    BY <2>1, <2>2
<1>2. \A o \in Orders : Owner(o)' = Owner(o)
  BY <1>1 DEF Owner
<1> QED
  BY <1>1, <1>2 DEF OwnerOf, Answered

\* The reconciliation, however it searches, hands every order out once: each
\* answer takes orders nobody holds, and what is held is never handed on.
THEOREM CascadeIsAClaimBook == Spec => ImplementsClaimBook
<1>1. Init => Claims!Init
  <2> SUFFICES ASSUME Init PROVE Claims!Init
    OBVIOUS
  <2>1. \A s \in Settlements : findings[s] = Undecided
    BY DEF Init
  <2>2. \A s \in Settlements : Claim(findings[s]) = {} /\ findings[s].verdict = "UNDECIDED"
    <3>1. Undecided.verdict = "UNDECIDED"
      BY DEF Undecided
    <3> QED
      BY <2>1, <3>1, UndecidedClaimsNothing
  <2>3. \A o \in Orders : Owner(o) = "nobody"
    BY <2>2 DEF Owner
  <2> QED
    BY <2>2, <2>3 DEF Claims!Init
<1>2. IInv /\ [Next]_vars => [Claims!Next]_<<OwnerOf, Answered>>
  <2> SUFFICES ASSUME IInv, [Next]_vars PROVE [Claims!Next]_<<OwnerOf, Answered>>
    OBVIOUS
  <2>1. CASE MatchSingle \/ Skip \/ Decide \/ Exhaust
    <3>1. Deciding
      BY <2>1, AnswersConclude, TypesOfTheEngine DEF IInv
    <3>2. PICK f \in FindingType :
            /\ f.verdict # "UNDECIDED"
            /\ f.space.members \subseteq Orders \ spent /\ Conclude(f)
      BY <2>1, AnswersConclude, TypesOfTheEngine DEF IInv
    <3> QED
      BY <3>1, <3>2, ConcludeAnswers
  <2>2. CASE Widen \/ Finish \/ AttachCores \/ UNCHANGED vars
    BY <2>2, OthersLeaveTheBook
  <2> QED
    BY <2>1, <2>2 DEF Next
<1> QED
  BY <1>1, <1>2, CascadeInvariant, PTL
     DEF Spec, ImplementsClaimBook, Claims!Spec, Claims!vars, OwnerOf, Answered

-----------------------------------------------------------------------------
(* What a verdict says of the search *)

\* A contradiction found nothing in the whole pool, a proof is accepted by the
\* kernel, and a search that stopped at one explanation, or was not cut short,
\* has reported them all.
Faithful(f, n, x) ==
  LET all == Explanations(n, f.space.members, x)
  IN  /\ Affordable(n, f.space.members, x) = f.space.members
      /\ f.verdict = "CONTRADICTED" => all = {}
      /\ f.verdict = "AMBIGUOUS" => f.layer = "L3-dp"
      /\ f.verdict = "PROVEN" => \E p \in f.proofs : f.proofs = {p} /\ KernelAccepts(n, p, x)
      /\ f.layer = "L3-dp" =>
           /\ f.exhaustive => f.proofs = all
           /\ f.verdict = "PROVEN" => f.proofs = all

SearchInv == \A s \in Settlements : Faithful(findings[s], net, credit[s])

LEMMA PoolIsAffordable ==
  ASSUME NEW s, NEW r
  PROVE  /\ Pool(s, r) \in SUBSET Orders
         /\ Affordable(net, Pool(s, r), credit[s]) = Pool(s, r)
BY DEF Pool, Affordable, Window

\* The kernel turns away nothing the search reports.
LEMMA ProofsAreFound ==
  ASSUME NEW s, NEW r
  PROVE  Proofs(s, r) = Found(net, Pool(s, r), credit[s])
<1>1. \A S \in Found(net, Pool(s, r), credit[s]) : KernelAccepts(net, S, credit[s])
  BY PoolIsAffordable, ExplanationsAreSets DEF Found
<1> QED
  BY <1>1 DEF Proofs

\* Whatever the cascade answers is faithful to the search it made.
LEMMA AnswersAreFaithful ==
  ASSUME EngineOK, MatchSingle \/ Skip \/ Decide \/ Exhaust
  PROVE  \E f : Faithful(f, net, credit[Current]) /\ Conclude(f)
<1> DEFINE x == credit[Current]
           pool == Pool(Current, rung)
           all == Explanations(net, pool, x)
<1>0. net \in [Orders -> Int]
  BY DEF EngineOK
<1>1. /\ pool \in SUBSET Orders /\ Affordable(net, pool, x) = pool
      /\ SpaceOf(Current, rung).members = pool
  BY PoolIsAffordable, SpaceTyped
<1>2. CASE MatchSingle
  <2> DEFINE p == Singles(Current, rung)
             f == Finding(Current, rung, "PROVEN", {p}, TRUE, "L2-single")
  <2>1. KernelAccepts(net, p, x)
    BY <1>2 DEF MatchSingle, SingleMatch
  <2>2. /\ f.verdict = "PROVEN" /\ f.proofs = {p} /\ f.layer = "L2-single"
        /\ f.space.members = pool
    BY <1>1 DEF Finding
  <2>3. Conclude(f)
    BY <1>2 DEF MatchSingle
  <2> HIDE DEF f, p, pool, x
  <2>4. Faithful(f, net, x)
    BY <1>1, <2>1, <2>2 DEF Faithful
  <2> QED
    BY <2>3, <2>4 DEF x
<1>3. CASE Skip
  <2> DEFINE f == Finding(Current, rung, "INSUFFICIENT", {}, FALSE, "L3-skipped")
  <2>1. f.verdict = "INSUFFICIENT" /\ f.layer = "L3-skipped" /\ f.space.members = pool
    BY <1>1 DEF Finding
  <2>2. Conclude(f)
    BY <1>3 DEF Skip
  <2> HIDE DEF f, pool, x
  <2>3. Faithful(f, net, x)
    BY <1>1, <2>1 DEF Faithful
  <2> QED
    BY <2>2, <2>3 DEF x
<1>4. CASE Exhaust
  <2> DEFINE f == Finding(Current, rung, "CONTRADICTED", {}, FALSE, "L3-dp/exhausted")
  <2>1. f.verdict = "CONTRADICTED" /\ f.layer = "L3-dp/exhausted" /\ f.space.members = pool
    BY <1>1 DEF Finding
  <2>2. Conclude(f) /\ Proofs(Current, rung) = {}
    BY <1>4 DEF Exhaust
  <2>3. all = {}
    <3>1. Found(net, pool, x) = {}
      BY <2>2, ProofsAreFound
    <3> HIDE DEF pool, x
    <3> QED
      BY <1>0, <1>1, <3>1, FoundIsSome
  <2> HIDE DEF f, pool, x
  <2>4. Faithful(f, net, x)
    BY <1>1, <2>1, <2>3 DEF Faithful
  <2> QED
    BY <2>2, <2>4 DEF x
<1>5. CASE Decide
  <2> DEFINE proofs == Proofs(Current, rung)
             e == Exhaustive(net, pool, x)
             v == IF \E p \in proofs : proofs = {p} THEN "PROVEN" ELSE "AMBIGUOUS"
             f == Finding(Current, rung, v, proofs, e, "L3-dp")
  <2>1. /\ f.verdict = v /\ f.proofs = proofs /\ f.exhaustive = e /\ f.layer = "L3-dp"
        /\ f.space.members = pool
    BY <1>1 DEF Finding
  <2>2. Conclude(f)
    BY <1>5 DEF Decide
  <2>3. /\ e => proofs = all
        /\ \A p : proofs = {p} => all = {p}
    <3>1. proofs = Found(net, pool, x)
      BY ProofsAreFound
    <3> HIDE DEF pool, x, proofs
    <3> QED
      BY <1>0, <1>1, <3>1, FoundIsAll
  <2>4. \A p \in proofs : KernelAccepts(net, p, x)
    BY DEF Proofs
  <2>5. v = "PROVEN" => \E p \in proofs : proofs = {p}
    OBVIOUS
  <2>6. v # "CONTRADICTED"
    OBVIOUS
  <2> HIDE DEF f, v, e, proofs, pool, x
  <2>7. Faithful(f, net, x)
    BY <1>1, <2>1, <2>3, <2>4, <2>5, <2>6 DEF Faithful
  <2> QED
    BY <2>2, <2>7 DEF x
<1> QED
  BY <1>2, <1>3, <1>4, <1>5

LEMMA InitSearchInv == Init => SearchInv
<1>1. /\ Undecided.verdict = "UNDECIDED" /\ Undecided.layer = ""
      /\ Undecided.space.members = {}
  BY DEF Undecided, EmptySpace
<1>2. \A n, x : Affordable(n, {}, x) = {}
  BY DEF Affordable
<1>3. \A n, x : Faithful(Undecided, n, x)
  BY <1>1, <1>2 DEF Faithful
<1> QED
  BY <1>3 DEF Init, SearchInv

\* A core named later changes nothing of what was searched.
LEMMA NextSearchInv == EngineOK /\ SearchInv /\ [Next]_vars => SearchInv'
<1> SUFFICES ASSUME EngineOK, SearchInv, [Next]_vars PROVE SearchInv'
  OBVIOUS
<1>0. net' = net /\ credit' = credit
  BY DEF Next, MatchSingle, Skip, Decide, Widen, Exhaust, Finish, AttachCores, Conclude,
         book, vars
<1>1. CASE MatchSingle \/ Skip \/ Decide \/ Exhaust
  <2>1. PICK f : Faithful(f, net, credit[Current]) /\ Conclude(f)
    BY <1>1, AnswersAreFaithful
  <2>2. findings' = [findings EXCEPT ![Current] = f]
    BY <2>1 DEF Conclude
  <2>3. \A s \in Settlements : findings'[s] = IF s = Current THEN f ELSE findings[s]
    BY <2>2 DEF EngineOK
  <2> QED
    BY <1>0, <2>1, <2>3 DEF SearchInv
<1>2. CASE AttachCores
  <2>1. \A s \in Settlements :
          findings'[s] = findings[s] \/ findings'[s] = WithCore(findings[s])
    BY <1>2 DEF AttachCores
  <2>2. \A f \in FindingType : \A n, x : Faithful(f, n, x) => Faithful(WithCore(f), n, x)
    <3> SUFFICES ASSUME NEW f \in FindingType, NEW n, NEW x, Faithful(f, n, x)
                 PROVE  Faithful(WithCore(f), n, x)
      OBVIOUS
    <3>1. /\ WithCore(f).verdict = f.verdict /\ WithCore(f).proofs = f.proofs
          /\ WithCore(f).layer = f.layer /\ WithCore(f).space = f.space
          /\ WithCore(f).exhaustive = f.exhaustive
      BY DEF WithCore, FindingType
    <3> QED
      BY <3>1 DEF Faithful
  <2>3. \A s \in Settlements : findings[s] \in FindingType
    BY DEF EngineOK
  <2> QED
    BY <1>0, <2>1, <2>2, <2>3 DEF SearchInv
<1>3. CASE Widen \/ Finish \/ UNCHANGED vars
  <2>1. findings' = findings
    BY <1>3 DEF Widen, Finish, vars
  <2> QED
    BY <1>0, <2>1 DEF SearchInv
<1> QED
  BY <1>1, <1>2, <1>3 DEF Next

\* Every finding is faithful to the search that led to it, in every state.
THEOREM SearchInvariant == Spec => []SearchInv
<1>1. Init => SearchInv
  BY InitSearchInv
<1>2. TypeOK /\ SearchInv /\ [Next]_vars => SearchInv'
  BY NextSearchInv, TypesOfTheEngine
<1> QED
  BY <1>1, <1>2, TypeCorrect, PTL DEF Spec

\* Whatever is in reach of the search starts with an explanation it lists.
LEMMA ReachIsSearched ==
  ASSUME EngineOK, SearchInv, NEW s \in Settlements,
         NEW S \in SUBSET findings[s].space.members,
         InReach(net, findings[s].space.members, S, credit[s])
  PROVE  \E p \in Explanations(net, findings[s].space.members, credit[s]) : p \subseteq S
<1> DEFINE pool == findings[s].space.members
           x == credit[s]
<1>1. net \in [Orders -> Int] /\ x \in Int
  BY DEF EngineOK
<1>2. pool \in SUBSET Orders
  <2>1. findings[s] \in FindingType
    BY DEF EngineOK
  <2> QED
    BY <2>1 DEF FindingType, SearchSpaces
<1>3. Affordable(net, pool, x) = pool
  <2>1. Faithful(findings[s], net, credit[s])
    BY DEF SearchInv
  <2> QED
    BY <2>1 DEF Faithful
<1>4. \A o \in pool : net[o] > 0
  BY <1>1, <1>2, <1>3 DEF Affordable
<1>5. /\ S \in SUBSET pool /\ S # {} /\ Fits(net, S, x)
      /\ Residual(net, S, x) \in 0 .. Band(pool)
  BY DEF InReach
<1> HIDE DEF pool, x
<1>6. Residual(net, S, x) >= 0 /\ Residual(net, S, x) <= Band(pool)
  BY <1>2, <1>5, BandIsNat
<1>7. \E p \in Explanations(net, pool, x) : p \subseteq S
  BY <1>1, <1>2, <1>4, <1>5, <1>6, SearchIsComplete
<1> QED
  BY <1>7 DEF pool, x

\* A contradiction is a finished search: nothing among the candidates explains
\* the credit without overshooting it.
THEOREM ContradictionsAreFinished == Spec => []ContradictionIsExhaustive
<1>1. TypeOK /\ SearchInv => ContradictionIsExhaustive
  <2> SUFFICES ASSUME TypeOK, SearchInv, NEW s \in Settlements,
                      findings[s].verdict = "CONTRADICTED",
                      NEW S \in SUBSET findings[s].space.members,
                      InReach(net, findings[s].space.members, S, credit[s])
               PROVE  FALSE
    BY DEF ContradictionIsExhaustive
  <2>1. Explanations(net, findings[s].space.members, credit[s]) = {}
    BY DEF SearchInv, Faithful
  <2> QED
    BY <2>1, ReachIsSearched, TypesOfTheEngine
<1> QED
  BY <1>1, TypeCorrect, SearchInvariant, PTL

\* What layer 3 proves has no rival but itself with orders added.
THEOREM ProofsHaveNoRival == Spec => []RivalsExtendTheProof
<1>1. TypeOK /\ SearchInv => RivalsExtendTheProof
  <2> SUFFICES ASSUME TypeOK, SearchInv, NEW s \in Settlements,
                      findings[s].verdict = "PROVEN", findings[s].layer = "L3-dp",
                      NEW S \in SUBSET findings[s].space.members,
                      InReach(net, findings[s].space.members, S, credit[s])
               PROVE  \E p \in findings[s].proofs : p \subseteq S
    BY DEF RivalsExtendTheProof
  <2>1. Faithful(findings[s], net, credit[s])
    BY DEF SearchInv
  <2>2. findings[s].proofs = Explanations(net, findings[s].space.members, credit[s])
    BY <2>1 DEF Faithful
  <2> QED
    BY <2>2, ReachIsSearched, TypesOfTheEngine
<1> QED
  BY <1>1, TypeCorrect, SearchInvariant, PTL

-----------------------------------------------------------------------------
(* What an abstention tells a reviewer *)

\* The list of an ambiguous finding is of several explanations, and one is
\* missing from it when it is flagged as cut short.
Abstains(f, n, x) ==
  f.verdict = "AMBIGUOUS" =>
    /\ f.proofs \subseteq Explanations(n, f.space.members, x)
    /\ \E p, q \in f.proofs : p # q
    /\ ~f.exhaustive => \E S \in Explanations(n, f.space.members, x) : S \notin f.proofs

AbstainInv == \A s \in Settlements : Abstains(findings[s], net, credit[s])

LEMMA DecideAbstains ==
  ASSUME EngineOK, Decide
  PROVE  \E f : Abstains(f, net, credit[Current]) /\ Conclude(f)
<1> DEFINE x == credit[Current]
           pool == Pool(Current, rung)
           all == Explanations(net, pool, x)
           proofs == Proofs(Current, rung)
           e == Exhaustive(net, pool, x)
           v == IF \E p \in proofs : proofs = {p} THEN "PROVEN" ELSE "AMBIGUOUS"
           f == Finding(Current, rung, v, proofs, e, "L3-dp")
<1>1. /\ pool \in SUBSET Orders /\ Affordable(net, pool, x) = pool
      /\ SpaceOf(Current, rung).members = pool /\ net \in [Orders -> Int]
  BY PoolIsAffordable, SpaceTyped DEF EngineOK
<1>2. /\ f.verdict = v /\ f.proofs = proofs /\ f.exhaustive = e
      /\ f.space.members = pool
  BY <1>1 DEF Finding
<1>3. Conclude(f) /\ proofs # {}
  BY DEF Decide
<1>4. proofs = Found(net, pool, x)
  BY ProofsAreFound
<1>5. proofs \subseteq all
  BY <1>1, <1>4 DEF Found
<1>6. v = "AMBIGUOUS" => \E p, q \in proofs : p # q
  <2>1. PICK p \in proofs : TRUE
    BY <1>3
  <2>2. proofs # {p} => \E q \in proofs : p # q
    BY <2>1
  <2> QED
    BY <2>1, <2>2
<1>7. ~e => \E S \in all : S \notin proofs
  <2> HIDE DEF pool, x, proofs
  <2> QED
    BY <1>1, <1>4, CutListsLeaveOneOut
<1> HIDE DEF f, v, e, proofs, pool, x
<1>8. Abstains(f, net, x)
  BY <1>2, <1>5, <1>6, <1>7 DEF Abstains
<1> QED
  BY <1>3, <1>8 DEF x

\* Only layer 3 abstains for ambiguity, and the overlay of cores hands every
\* field over.
LEMMA NextAbstainInv == EngineOK /\ AbstainInv /\ [Next]_vars => AbstainInv'
<1> SUFFICES ASSUME EngineOK, AbstainInv, [Next]_vars PROVE AbstainInv'
  OBVIOUS
<1>0. net' = net /\ credit' = credit
  BY DEF Next, MatchSingle, Skip, Decide, Widen, Exhaust, Finish, AttachCores, Conclude,
         book, vars
<1>1. CASE MatchSingle \/ Skip \/ Decide \/ Exhaust
  <2>1. PICK f : Abstains(f, net, credit[Current]) /\ Conclude(f)
    <3>1. CASE MatchSingle \/ Skip \/ Exhaust
      <4>1. PICK f : Conclude(f) /\ f.verdict # "AMBIGUOUS"
        BY <3>1 DEF MatchSingle, Skip, Exhaust, Finding
      <4> QED
        BY <4>1 DEF Abstains
    <3>2. CASE Decide
      BY <3>2, DecideAbstains
    <3> QED
      BY <1>1, <3>1, <3>2
  <2>2. findings' = [findings EXCEPT ![Current] = f]
    BY <2>1 DEF Conclude
  <2>3. \A s \in Settlements : findings'[s] = IF s = Current THEN f ELSE findings[s]
    BY <2>2 DEF EngineOK
  <2> QED
    BY <1>0, <2>1, <2>3 DEF AbstainInv
<1>2. CASE AttachCores
  <2>1. \A s \in Settlements :
          findings'[s] = findings[s] \/ findings'[s] = WithCore(findings[s])
    BY <1>2 DEF AttachCores
  <2>2. \A f, n, x : Abstains(f, n, x) => Abstains(WithCore(f), n, x)
    BY DEF WithCore, Abstains
  <2> QED
    BY <1>0, <2>1, <2>2 DEF AbstainInv
<1>3. CASE Widen \/ Finish \/ UNCHANGED vars
  <2>1. findings' = findings
    BY <1>3 DEF Widen, Finish, vars
  <2> QED
    BY <1>0, <2>1 DEF AbstainInv
<1> QED
  BY <1>1, <1>2, <1>3 DEF Next

\* An abstention lists several explanations the kernel accepts, and says
\* truly whether they are all there is.
THEOREM AbstentionsTellAll == Spec => []AbstentionsAreComplete
<1>1. Init => AbstainInv
  <2>1. Undecided.verdict = "UNDECIDED"
    BY DEF Undecided
  <2>2. \A n, x : Abstains(Undecided, n, x)
    BY <2>1 DEF Abstains
  <2> QED
    BY <2>2 DEF Init, AbstainInv
<1>2. TypeOK /\ AbstainInv /\ [Next]_vars => AbstainInv'
  BY NextAbstainInv, TypesOfTheEngine
<1>3. ASSUME TypeOK, SearchInv, AbstainInv PROVE AbstentionsAreComplete
  <2> SUFFICES ASSUME NEW s \in Settlements, findings[s].verdict = "AMBIGUOUS"
               PROVE  LET f == findings[s]
                          fits == {S \in SUBSET f.space.members :
                                     S # {} /\ Fits(net, S, credit[s])}
                      IN  /\ f.proofs \subseteq fits
                          /\ \E p, q \in f.proofs : p # q
                          /\ f.exhaustive =>
                               \A S \in SUBSET f.space.members :
                                 InReach(net, f.space.members, S, credit[s])
                                   => \E p \in f.proofs : p \subseteq S
                          /\ ~f.exhaustive => \E S \in fits : S \notin f.proofs
    BY DEF AbstentionsAreComplete
  <2> DEFINE all == Explanations(net, findings[s].space.members, credit[s])
  <2>1. /\ findings[s].proofs \subseteq all
        /\ \E p, q \in findings[s].proofs : p # q
        /\ ~findings[s].exhaustive => \E S \in all : S \notin findings[s].proofs
    BY <1>3 DEF AbstainInv, Abstains
  <2>2. findings[s].exhaustive => findings[s].proofs = all
    BY <1>3 DEF SearchInv, Faithful
  <2>3. all \subseteq {S \in SUBSET findings[s].space.members :
                         S # {} /\ Fits(net, S, credit[s])}
    BY DEF Explanations
  <2>4. \A S \in SUBSET findings[s].space.members :
          InReach(net, findings[s].space.members, S, credit[s]) => \E p \in all : p \subseteq S
    BY <1>3, ReachIsSearched, TypesOfTheEngine
  <2> HIDE DEF all
  <2> QED
    BY <2>1, <2>2, <2>3, <2>4
<1> QED
  BY <1>1, <1>2, <1>3, TypeCorrect, SearchInvariant, PTL DEF Spec
=============================================================================
