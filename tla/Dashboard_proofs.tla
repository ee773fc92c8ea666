--------------------------- MODULE Dashboard_proofs ---------------------------
(***************************************************************************)
(* What the dashboard answers, for every well-formed book of a period: the *)
(* verdict names what it leaves open, a simulation relieves nobody it did  *)
(* not touch, blockers come first, the screens agree, a report is about    *)
(* its settlement, and the graph leads from a blocker back to its money.   *)
(* The desk at which the queue is worked comes last.                       *)
(***************************************************************************)
EXTENDS Dashboard, Amounts_proofs, SequenceTheorems

-----------------------------------------------------------------------------
(* Records in their places *)

\* Records with a place have a first one.
LEMMA FirstIsIn ==
  ASSUME NEW S, IsFiniteSet(S), S # {}, \A r \in S : r.at \in Int
  PROVE  First(S) \in S
<1>1. PICK f \in [S -> Int] : \A r \in S : f[r] = r.at
  <2>1. [r \in S |-> r.at] \in [S -> Int]
    OBVIOUS
  <2> QED
    BY <2>1
<1>2. \E r \in S : \A q \in S : f[r] <= f[q]
  BY LeastBy
<1> QED
  BY <1>1, <1>2 DEF First

\* Blockers that can be told apart by their places.
Placed(B) ==
  /\ IsFiniteSet(B)
  /\ \A k \in B : k.at[1] \in Int /\ k.at[2] \in Int /\ k.at[3] \in Int

\* One of finitely many blockers is found before the others.
LEMMA ForemostIs ==
  ASSUME NEW B, Placed(B), B # {}
  PROVE  \E k \in B : \A l \in B : ~Earlier(l.at, k.at)
<1>1. PICK f \in [B -> Int] : \A k \in B : f[k] = k.at[1]
  <2>1. [k \in B |-> k.at[1]] \in [B -> Int]
    BY DEF Placed
  <2> QED
    BY <2>1
<1>2. PICK g \in [B -> Int] : \A k \in B : g[k] = k.at[2]
  <2>1. [k \in B |-> k.at[2]] \in [B -> Int]
    BY DEF Placed
  <2> QED
    BY <2>1
<1>3. PICK h \in [B -> Int] : \A k \in B : h[k] = k.at[3]
  <2>1. [k \in B |-> k.at[3]] \in [B -> Int]
    BY DEF Placed
  <2> QED
    BY <2>1
<1>4. IsFiniteSet(B)
  BY DEF Placed
<1>5. PICK k \in B : \A l \in B :
        \/ f[k] < f[l]
        \/ f[k] = f[l] /\ g[k] < g[l]
        \/ f[k] = f[l] /\ g[k] = g[l] /\ h[k] <= h[l]
  <2>1. B # {} /\ f \in [B -> Int] /\ g \in [B -> Int] /\ h \in [B -> Int]
    OBVIOUS
  <2>2. \E k \in B : \A l \in B :
          \/ f[k] < f[l]
          \/ f[k] = f[l] /\ g[k] < g[l]
          \/ f[k] = f[l] /\ g[k] = g[l] /\ h[k] <= h[l]
    BY ONLY <1>4, <2>1, LeastByThree, SMTT(30)
  <2> QED
    BY ONLY <2>2
<1>6. ASSUME NEW l \in B PROVE ~Earlier(l.at, k.at)
  <2>1. /\ f[k] \in Int /\ f[l] \in Int /\ g[k] \in Int /\ g[l] \in Int
        /\ h[k] \in Int /\ h[l] \in Int
    OBVIOUS
  <2>2. \/ f[k] < f[l]
        \/ f[k] = f[l] /\ g[k] < g[l]
        \/ f[k] = f[l] /\ g[k] = g[l] /\ h[k] <= h[l]
    BY <1>5
  <2> QED
    BY <1>1, <1>2, <1>3, <2>1, <2>2 DEF Earlier
<1> QED
  BY <1>6

Mark(k) == [kind |-> k.kind, ref |-> k.ref]

\* Leaving out what is listed twice leaves every record blocked that was.
LEMMA DeduplicatedKeepsMarks ==
  ASSUME NEW B, Placed(B)
  PROVE  /\ Deduplicated(B) \subseteq B
         /\ \A k \in B : \E l \in Deduplicated(B) : l.kind = k.kind /\ l.ref = k.ref
<1>1. Deduplicated(B) \subseteq B
  BY DEF Deduplicated
<1>2. ASSUME NEW k \in B PROVE \E l \in Deduplicated(B) : l.kind = k.kind /\ l.ref = k.ref
  <2>1. PICK C \in SUBSET B : C = {l \in B : l.kind = k.kind /\ l.ref = k.ref}
    OBVIOUS
  <2>2. Placed(C) /\ C # {}
    BY <2>1, FS_Subset DEF Placed
  <2>3. PICK l \in C : \A m \in C : ~Earlier(m.at, l.at)
    BY <2>2, ForemostIs
  <2>4. l \in Deduplicated(B)
    BY <2>1, <2>3 DEF Deduplicated
  <2> QED
    BY <2>1, <2>4
<1> QED
  BY <1>1, <1>2

-----------------------------------------------------------------------------
(* Books *)

LEMMA ScopedFields ==
  ASSUME NEW b, Typed(b)
  PROVE  /\ DOMAIN Scoped(b) = DOMAIN b
         /\ Scoped(b).period = b.period /\ Scoped(b).net = b.net
         /\ Scoped(b).late = b.late /\ Scoped(b).blocked = b.blocked
         /\ Scoped(b).findings = {f \in b.findings : f.sid \in b.period}
         /\ Scoped(b).exceptions = {e \in b.exceptions : e.sid \in b.period}
BY DEF Typed, Fields, Scoped

LEMMA ScopedIsTyped ==
  ASSUME NEW b, Typed(b)
  PROVE  /\ Typed(Scoped(b))
         /\ Accounted(b) => Accounted(Scoped(b))
         /\ \A s \in b.period : /\ FindingsOf(Scoped(b), s) = FindingsOf(b, s)
                                /\ ExceptionsOf(Scoped(b), s) = ExceptionsOf(b, s)
<1>1. PICK c : c = Scoped(b)
  OBVIOUS
<1>2. /\ DOMAIN c = DOMAIN b
      /\ c.period = b.period /\ c.net = b.net
      /\ c.findings = {f \in b.findings : f.sid \in b.period}
      /\ c.exceptions = {e \in b.exceptions : e.sid \in b.period}
  BY <1>1, ScopedFields
<1>3. \A s \in b.period : /\ FindingsOf(c, s) = FindingsOf(b, s)
                          /\ ExceptionsOf(c, s) = ExceptionsOf(b, s)
  BY <1>2 DEF FindingsOf, ExceptionsOf
<1>4. IsFiniteSet(c.findings) /\ IsFiniteSet(c.exceptions)
  <2>1. c.findings \in SUBSET b.findings /\ c.exceptions \in SUBSET b.exceptions
    BY <1>2
  <2> QED
    BY <2>1, FS_Subset DEF Typed
<1>5. \A A \in Assignments(c.findings) : IsFiniteSet(A)
  BY <1>2 DEF Typed, Assignments
<1>6. Typed(c)
  BY <1>2, <1>4, <1>5 DEF Typed
<1>7. Accounted(b) => Accounted(c)
  BY <1>2, <1>3 DEF Accounted
<1> QED
  BY <1>1, <1>3, <1>6, <1>7

\* What is found for a settlement is finitely much, and typed.
LEMMA RecordsOfSettlement ==
  ASSUME NEW b, Typed(b), NEW s
  PROVE  /\ FindingsOf(b, s) \subseteq b.findings /\ IsFiniteSet(FindingsOf(b, s))
         /\ FindingsOf(b, s) # {} => First(FindingsOf(b, s)) \in FindingsOf(b, s)
         /\ ExceptionsOf(b, s) \subseteq b.exceptions /\ IsFiniteSet(ExceptionsOf(b, s))
         /\ ExceptionsOf(b, s) # {} => First(ExceptionsOf(b, s)) \in ExceptionsOf(b, s)
<1>1. /\ FindingsOf(b, s) \in SUBSET b.findings /\ ExceptionsOf(b, s) \in SUBSET b.exceptions
  BY DEF FindingsOf, ExceptionsOf
<1>2. IsFiniteSet(FindingsOf(b, s)) /\ IsFiniteSet(ExceptionsOf(b, s))
  BY <1>1, FS_Subset DEF Typed
<1>3. \A f \in FindingsOf(b, s) : f.at \in Int
  BY <1>1 DEF Typed, Finding
<1>4. \A e \in ExceptionsOf(b, s) : e.at \in Int
  BY <1>1 DEF Typed, ExceptionType
<1> QED
  BY <1>1, <1>2, <1>3, <1>4, FirstIsIn

\* The finding that speaks for a settlement is one of its own, and unproven if
\* any of them is.
LEMMA FindingOfIs ==
  ASSUME NEW b, Typed(b), NEW s
  PROVE  /\ FindingsOf(b, s) = {} => FindingOf(b, s) = NoFinding
         /\ FindingsOf(b, s) # {} => FindingOf(b, s) \in FindingsOf(b, s)
         /\ (\E f \in FindingsOf(b, s) : f.verdict # "PROVEN")
              => FindingOf(b, s).verdict # "PROVEN"
<1>1. PICK F : F = FindingsOf(b, s)
  OBVIOUS
<1>2. F \subseteq b.findings /\ IsFiniteSet(F) /\ (F # {} => First(F) \in F)
  BY <1>1, RecordsOfSettlement
<1>3. PICK U \in SUBSET F : U = {f \in F : f.verdict # "PROVEN"}
  OBVIOUS
<1>4. U # {} => First(U) \in U
  <2>1. \A f \in U : f.at \in Int
    BY <1>2 DEF Typed, Finding
  <2> QED
    BY <1>2, <2>1, FS_Subset, FirstIsIn
<1>5. FindingOf(b, s) = CASE F = {} -> NoFinding [] U # {} -> First(U) [] OTHER -> First(F)
  BY <1>1, <1>3 DEF FindingOf
<1>6. F = {} => U = {}
  BY <1>3
<1>7. /\ F = {} => FindingOf(b, s) = NoFinding
      /\ F # {} /\ U # {} => FindingOf(b, s) = First(U)
      /\ F # {} /\ U = {} => FindingOf(b, s) = First(F)
  BY <1>5, <1>6
<1> QED
  BY <1>1, <1>2, <1>3, <1>4, <1>6, <1>7

\* The exception that speaks for it leaves as much open as any.
LEMMA ExceptionOfIs ==
  ASSUME NEW b, Typed(b), NEW s
  PROVE  /\ ExceptionsOf(b, s) = {} => ExceptionOf(b, s) = NoException
         /\ ExceptionsOf(b, s) # {} => ExceptionOf(b, s) \in ExceptionsOf(b, s)
         /\ \A d \in ExceptionsOf(b, s) :
              Magnitude(d.unexplained) <= Magnitude(ExceptionOf(b, s).unexplained)
<1>1. PICK E : E = ExceptionsOf(b, s)
  OBVIOUS
<1>2. E \subseteq b.exceptions /\ IsFiniteSet(E)
  BY <1>1, RecordsOfSettlement
<1>3. \A e \in E : e.at \in Int /\ e.unexplained \in Int
  BY <1>2 DEF Typed, ExceptionType
<1>4. PICK L \in SUBSET E :
        L = {e \in E : \A d \in E : Magnitude(d.unexplained) <= Magnitude(e.unexplained)}
  OBVIOUS
<1>5. E # {} => L # {}
  <2>1. PICK f \in [E -> Int] : \A e \in E : f[e] = -Magnitude(e.unexplained)
    <3>1. [e \in E |-> -Magnitude(e.unexplained)] \in [E -> Int]
      BY <1>3 DEF Magnitude
    <3> QED
      BY <3>1
  <2>2. SUFFICES ASSUME E # {} PROVE L # {}
    OBVIOUS
  <2>3. PICK e \in E : \A d \in E : f[e] <= f[d]
    BY <1>2, <2>2, LeastBy
  <2>4. \A d \in E : Magnitude(d.unexplained) <= Magnitude(e.unexplained)
    BY <1>3, <2>1, <2>3 DEF Magnitude
  <2> QED
    BY <1>4, <2>4
<1>6. L # {} => First(L) \in L
  <2>1. \A e \in L : e.at \in Int
    BY <1>3
  <2> QED
    BY <1>2, <2>1, FS_Subset, FirstIsIn
<1>7. ExceptionOf(b, s) = IF E = {} THEN NoException ELSE First(L)
  BY <1>1, <1>4 DEF ExceptionOf
<1> QED
  BY <1>1, <1>4, <1>5, <1>6, <1>7

-----------------------------------------------------------------------------
(* Exposure *)

LEMMA ProofsAreTyped ==
  ASSUME NEW b, Typed(b), NEW f \in b.findings
  PROVE  /\ f.proofs # <<>> => f.proofs[1].net \in Int /\ 1 \in DOMAIN f.proofs
         /\ IsFiniteSet(DOMAIN f.proofs) /\ Len(f.proofs) \in Nat
         /\ \A i \in DOMAIN f.proofs :
              /\ i \in Nat
              /\ f.proofs[i].gross \in Int /\ f.proofs[i].off \in Nat
              /\ f.proofs[i].orders \subseteq Int /\ IsFiniteSet(f.proofs[i].orders)
<1> DEFINE Proof == [orders : SUBSET Int, gross : Int, net : Int, off : Nat]
<1>1. f.proofs \in Seq(Proof)
  BY DEF Typed, Finding
<1>2. PICK p \in Seq(Proof) : p = f.proofs
  BY <1>1
<1>3. DOMAIN p = 1 .. Len(p) /\ Len(p) \in Nat /\ \A i \in 1 .. Len(p) : p[i] \in Proof
  <2> HIDE DEF Proof
  <2> QED
    BY <1>2, LenProperties
<1>4. p # <<>> => Len(p) > 0
  <2> HIDE DEF Proof
  <2> QED
    BY <1>2, EmptySeq, LenProperties
<1>5. IsFiniteSet(DOMAIN p)
  BY <1>3, FS_Interval
<1>6. ASSUME NEW i \in DOMAIN p PROVE IsFiniteSet(p[i].orders)
  <2>1. p[i].orders \in Assignments(b.findings)
    BY <1>2, <1>6 DEF Assignments
  <2> QED
    BY <2>1 DEF Typed
<1>7. \A i \in DOMAIN p :
        /\ i \in Nat
        /\ p[i].gross \in Int /\ p[i].off \in Nat /\ p[i].net \in Int
        /\ p[i].orders \subseteq Int
  BY <1>3
<1>8. p # <<>> => 1 \in DOMAIN p
  BY <1>3, <1>4
<1> QED
  BY ONLY <1>2, <1>3, <1>5, <1>6, <1>7, <1>8

LEMMA SpokenForTyped ==
  ASSUME NEW b, Typed(b), NEW s
  PROVE  /\ FindingOf(b, s).proofs # <<>> => FindingOf(b, s).proofs[1].net \in Int
         /\ FindingOf(b, s).proofs # <<>> => FindingOf(b, s) \in b.findings
         /\ ExceptionOf(b, s).amount \in Int /\ ExceptionOf(b, s).unexplained \in Int
         /\ ExceptionOf(b, s).disputed \in Int
<1>1. CASE FindingsOf(b, s) = {}
  <2>1. FindingOf(b, s).proofs = <<>>
    BY <1>1, FindingOfIs DEF NoFinding
  <2>2. ExceptionOf(b, s) = NoException \/ ExceptionOf(b, s) \in b.exceptions
    BY ExceptionOfIs, RecordsOfSettlement
  <2> QED
    BY <2>1, <2>2 DEF NoException, Typed, ExceptionType
<1>2. CASE FindingsOf(b, s) # {}
  <2>1. FindingOf(b, s) \in b.findings
    BY <1>2, FindingOfIs, RecordsOfSettlement
  <2>2. ExceptionOf(b, s) = NoException \/ ExceptionOf(b, s) \in b.exceptions
    BY ExceptionOfIs, RecordsOfSettlement
  <2>3. /\ ExceptionOf(b, s).amount \in Int /\ ExceptionOf(b, s).unexplained \in Int
        /\ ExceptionOf(b, s).disputed \in Int
    BY <2>2 DEF NoException, Typed, ExceptionType
  <2> QED
    BY <2>1, <2>3, ProofsAreTyped
<1> QED
  BY <1>1, <1>2

LEMMA ValueIsNat ==
  ASSUME NEW b, Typed(b), NEW s
  PROVE  /\ Value(b, s) \in Nat
         /\ s \in DOMAIN b.net => Value(b, s) = b.net[s]
<1>1. CASE s \in DOMAIN b.net
  <2>1. b.net[s] \in Nat
    BY <1>1 DEF Typed
  <2> QED
    BY <1>1, <2>1 DEF Value, Magnitude
<1>2. CASE s \notin DOMAIN b.net
  BY <1>2, SpokenForTyped DEF Value, Magnitude
<1> QED
  BY <1>1, <1>2

\* What the cases of assess_exposure leave open, and that they leave nothing
\* open only of a settlement that is verified.
LEMMA ItemIs ==
  ASSUME NEW b, Typed(b), NEW s
  PROVE  /\ ItemOf(b, s).exposure \in Int
         /\ ItemOf(b, s).kind = "VERIFIED"
              <=> Explained(FindingOf(b, s)) /\ ExceptionOf(b, s).unexplained = 0
         /\ VerifiedPart(b, s) \in Int /\ 0 <= VerifiedPart(b, s)
         /\ VerifiedPart(b, s) <= Value(b, s)
         /\ ItemOf(b, s).kind = "VERIFIED" => VerifiedPart(b, s) = Value(b, s)
         /\ \A d \in ExceptionsOf(b, s) : Magnitude(d.unexplained) <= Value(b, s)
              => Value(b, s) - VerifiedPart(b, s) >= Magnitude(d.unexplained)
<1>1. PICK f : f = FindingOf(b, s)
  OBVIOUS
<1>2. PICK e : e = ExceptionOf(b, s)
  OBVIOUS
<1>3. PICK v \in Nat : v = Value(b, s)
  BY ValueIsNat
<1>4. e.unexplained \in Int /\ e.disputed \in Int
  BY <1>2, SpokenForTyped
<1>5. PICK item : item = Classified(f, e, v)
  OBVIOUS
<1>6. ItemOf(b, s) = item /\ VerifiedPart(b, s) = Vouched(f, e, item, v)
  BY <1>1, <1>2, <1>3, <1>5 DEF ItemOf, VerifiedPart
<1>7. Contested(f, e, v) \in Int
  <2>1. CASE e.disputed > 0
    BY <1>4, <2>1 DEF Contested
  <2>2. CASE e.disputed <= 0 /\ f.proofs # <<>> /\ Len(f.proofs) > 1
    <3>1. f \in b.findings
      BY <1>1, <2>2, SpokenForTyped
    <3>2. IsFiniteSet(DOMAIN f.proofs)
      BY <3>1, ProofsAreTyped
    <3>3. [i \in DOMAIN f.proofs |-> f.proofs[i].gross] \in [DOMAIN f.proofs -> Int]
      BY <3>1, ProofsAreTyped
    <3>4. PICK g \in [DOMAIN f.proofs -> Int] :
            g = [i \in DOMAIN f.proofs |-> f.proofs[i].gross]
      BY <3>3
    <3>5. Total(g, DOMAIN f.proofs) \in Int
      BY <3>2, TotalStep
    <3> QED
      BY <1>4, <2>2, <3>4, <3>5 DEF Contested
  <2>3. CASE e.disputed <= 0 /\ ~(Len(f.proofs) > 1)
    BY <1>4, <2>3 DEF Contested, Magnitude
  <2>4. f.proofs = <<>> => ~(Len(f.proofs) > 1)
    BY EmptySeq
  <2> QED
    BY <1>4, <2>1, <2>2, <2>3, <2>4
<1>8. item.exposure \in Int
  BY <1>4, <1>5, <1>7 DEF Classified, Item, Lesser, Lost, Unfound, Magnitude
<1>9. item.kind = "VERIFIED" <=> Explained(f) /\ e.unexplained = 0
  BY <1>4, <1>5 DEF Classified, Item, Lost, Unfound, Explained
<1>10. Explained(f) /\ e.unexplained = 0 => item.exposure = 0
  BY <1>5 DEF Classified, Item, Explained
<1>11. Explained(f) /\ e.unexplained > 0 => item.exposure = Lesser(v, e.unexplained)
  BY <1>5, <1>4 DEF Classified, Item, Explained
<1>12. \/ Vouched(f, e, item, v) = 0 /\ ~(Explained(f) /\ e.unexplained >= 0)
       \/ Explained(f) /\ e.unexplained = 0 /\ Vouched(f, e, item, v) = v
       \/ /\ Explained(f) /\ e.unexplained > 0
          /\ Vouched(f, e, item, v) = v - Lesser(v, e.unexplained)
  BY <1>4, <1>10, <1>11 DEF Vouched
<1>13. PICK w : w = Vouched(f, e, item, v)
  OBVIOUS
<1>14. /\ w \in Int /\ 0 <= w /\ w <= v
       /\ Explained(f) /\ e.unexplained = 0 => w = v
  BY <1>4, <1>12, <1>13 DEF Lesser
<1>15. ASSUME NEW d \in ExceptionsOf(b, s), Magnitude(d.unexplained) <= v
       PROVE  v - w >= Magnitude(d.unexplained)
  <2>1. Magnitude(d.unexplained) <= Magnitude(e.unexplained)
    BY <1>2, ExceptionOfIs
  <2>2. d.unexplained \in Int
    BY RecordsOfSettlement DEF Typed, ExceptionType
  <2> QED
    BY <1>4, <1>12, <1>13, <1>15, <2>1, <2>2 DEF Lesser, Magnitude
<1> QED
  BY <1>1, <1>2, <1>3, <1>6, <1>8, <1>9, <1>13, <1>14, <1>15

\* The exposure of a period: never negative, at least what any settlement
\* leaves open, and of nothing when every settlement is verified.
LEMMA ExposureIs ==
  ASSUME NEW b, Typed(b), NEW x, x = AssessExposure(b)
  PROVE  /\ x.total \in Int /\ x.net \in Int /\ x.gross \in Int /\ x.net >= 0
         /\ \A s \in b.period : x.net >= Value(b, s) - VerifiedPart(b, s)
         /\ x.items = {} => x.net = 0
         /\ x.items \subseteq b.period
         /\ \A s \in b.period : /\ s \in x.items <=> ItemOf(b, s).kind # "VERIFIED"
                                /\ x.item[s] = ItemOf(b, s) /\ x.item[s].exposure \in Int
         /\ DOMAIN b.net = b.period => x.total = Total(b.net, DOMAIN b.net)
<1>1. PICK D : D = b.period
  OBVIOUS
<1>2. IsFiniteSet(D)
  BY <1>1 DEF Typed
<1>3. PICK n \in [D -> Int] : n = [s \in D |-> Value(b, s)]
  <2>1. \A s \in D : Value(b, s) \in Int
    BY ValueIsNat
  <2> QED
    BY <2>1
<1>4. PICK m \in [D -> Int] : m = [s \in D |-> VerifiedPart(b, s)]
  BY ItemIs
<1>5. PICK g \in [D -> Int] : g = [s \in D |-> ItemOf(b, s).exposure]
  BY ItemIs
<1>6. \A s \in D : m[s] <= n[s]
  BY <1>3, <1>4, ItemIs
<1>7. /\ Total(n, D) \in Int /\ Total(m, D) \in Int /\ Total(n, D) - Total(m, D) >= 0
      /\ \A s \in D : Total(n, D) - Total(m, D) >= n[s] - m[s]
  BY <1>2, <1>6, TotalGap
<1>8. Total(g, D) \in Int
  BY <1>2, TotalStep
<1>9. \A s \in D : [t \in D |-> ItemOf(b, t)][s].exposure = ItemOf(b, s).exposure
  OBVIOUS
<1>10. /\ x.total = Total(n, D) /\ x.net = Total(n, D) - Total(m, D) /\ x.gross = Total(g, D)
       /\ x.items = {s \in D : [t \in D |-> ItemOf(b, t)][s].kind # "VERIFIED"}
       /\ x.item = [s \in D |-> ItemOf(b, s)]
  <2>1. g = [s \in D |-> [t \in D |-> ItemOf(b, t)][s].exposure]
    BY <1>5, <1>9
  <2> QED
    BY <1>1, <1>3, <1>4, <2>1 DEF AssessExposure, Exposed
<1>11. x.items = {} => x.net = 0
  <2>1. SUFFICES ASSUME x.items = {} PROVE x.net = 0
    OBVIOUS
  <2>2. \A s \in D : ItemOf(b, s).kind = "VERIFIED"
    BY <1>10, <2>1
  <2>3. m = n
    BY <1>3, <1>4, <2>2, ItemIs
  <2>4. Total(m, D) = Total(n, D)
    BY <2>3
  <2> QED
    BY <1>7, <1>10, <2>4
<1>12. DOMAIN b.net = b.period => x.total = Total(b.net, DOMAIN b.net)
  <2>1. SUFFICES ASSUME DOMAIN b.net = b.period PROVE n = b.net
    BY <1>1, <1>10
  <2>2. b.net \in [D -> Nat] /\ \A s \in D : n[s] = b.net[s]
    BY <1>1, <1>3, <2>1, ValueIsNat DEF Typed
  <2> QED
    BY <2>2
<1>13. \A s \in D : /\ s \in x.items <=> ItemOf(b, s).kind # "VERIFIED"
                    /\ x.item[s] = ItemOf(b, s) /\ x.item[s].exposure \in Int
  BY <1>10, ItemIs
<1>14. \A s \in D : x.net >= Value(b, s) - VerifiedPart(b, s)
  BY <1>3, <1>4, <1>7, <1>10
<1>15. x.items \subseteq D
  BY <1>10
<1>16. x.total \in Int /\ x.net \in Int /\ x.gross \in Int /\ x.net >= 0
  BY <1>7, <1>8, <1>10
<1> QED
  BY <1>1, <1>11, <1>12, <1>13, <1>14, <1>15, <1>16

LEMMA AllowableIs ==
  ASSUME NEW total \in Int
  PROVE  Allowable(total) \in Nat /\ Allowable(total) <= Ceiling
<1>1. PICK scaled \in Int : scaled = (total * ThresholdBps) \div 10000
  <2>1. total * ThresholdBps \in Int
    BY BoundAssumption
  <2> QED
    BY <2>1
<1>2. Floor \in Nat /\ Ceiling \in Nat /\ Floor <= Ceiling
  BY BoundAssumption
<1>3. Allowable(total) = IF total <= 0 THEN Floor
                         ELSE IF Lesser(scaled, Ceiling) < Floor THEN Floor
                         ELSE Lesser(scaled, Ceiling)
  BY <1>1 DEF Allowable
<1> QED
  BY <1>2, <1>3 DEF Lesser

-----------------------------------------------------------------------------
(* Blockers *)

\* Finitely many blockers, each with its place and its stake.
Typical(B) == Placed(B) /\ \A k \in B : k.exposure \in Int

LEMMA TypicalUnion ==
  ASSUME NEW B, NEW C, Typical(B), Typical(C)
  PROVE  Typical(B \cup C)
BY FS_Union DEF Typical, Placed

LEMMA TypicalUnions ==
  ASSUME NEW A, IsFiniteSet(A), \A B \in A : Typical(B)
  PROVE  Typical(UNION A)
BY FS_UNION DEF Typical, Placed

LEMMA TypicalNone == Typical({})
BY FS_EmptySet DEF Typical, Placed

LEMMA TypicalOne ==
  ASSUME NEW kind, NEW ref, NEW i \in Int, NEW j \in Int, NEW l \in Int, NEW stake \in Int
  PROVE  Typical({Blocker(<<i, j, l>>, kind, ref, stake)})
<1>1. PICK k : k = Blocker(<<i, j, l>>, kind, ref, stake)
  OBVIOUS
<1>2. k.at = <<i, j, l>> /\ k.exposure = stake
  BY <1>1 DEF Blocker
<1>3. IsFiniteSet({k})
  BY FS_Singleton
<1> QED
  BY <1>1, <1>2, <1>3 DEF Typical, Placed

LEMMA UntimelyIs ==
  ASSUME NEW b, Typed(b)
  PROVE  Typical(Untimely(b))
<1>1. PICK S : S = b.period \cap b.late \cap DOMAIN b.net
  OBVIOUS
<1>2. S \in SUBSET b.period /\ IsFiniteSet(S)
  BY <1>1, FS_Subset DEF Typed
<1>3. PICK f : f = [s \in S |-> Blocker(<<1, s, 0>>, "IMPOSSIBLE_STATE_TRANSITION", Settlement(s),
                                        Magnitude(b.net[s]))]
  OBVIOUS
<1>4. Untimely(b) = {f[s] : s \in S}
  BY <1>1, <1>3 DEF Untimely
<1>5. \A s \in S : s \in Int /\ Magnitude(b.net[s]) \in Int
  BY <1>1 DEF Typed, Magnitude
<1>6. \A s \in S : f[s].at = <<1, s, 0>> /\ f[s].exposure = Magnitude(b.net[s])
  BY <1>3 DEF Blocker
<1> QED
  BY <1>2, <1>4, <1>5, <1>6, ImageIsFinite DEF Typical, Placed

LEMMA DisagreementsIs ==
  ASSUME NEW b, Typed(b)
  PROVE  Typical(Disagreements(b))
<1>1. PICK S : S = {t \in b.period : Conflicting(b, t)}
  OBVIOUS
<1>2. S \in SUBSET b.period /\ IsFiniteSet(S)
  BY <1>1, FS_Subset DEF Typed
<1>3. PICK f : f = [s \in S |-> Blocker(<<2, First(FindingsOf(b, s)).at, 0>>,
                                        "CONTRADICTORY_EVIDENCE", Settlement(s), 0)]
  OBVIOUS
<1>4. Disagreements(b) = {f[s] : s \in S}
  BY <1>1, <1>3 DEF Disagreements
<1>5. \A s \in S : First(FindingsOf(b, s)).at \in Int
  <2>1. SUFFICES ASSUME NEW s \in S PROVE First(FindingsOf(b, s)).at \in Int
    OBVIOUS
  <2>2. FindingsOf(b, s) # {}
    <3>1. SUFFICES ASSUME FindingsOf(b, s) = {} PROVE FALSE
      OBVIOUS
    <3>2. Cardinality(FindingsOf(b, s)) = 0 /\ Cardinality({g.verdict : g \in FindingsOf(b, s)}) = 0
      <4>1. {g.verdict : g \in FindingsOf(b, s)} = {}
        BY <3>1
      <4> QED
        BY <3>1, <4>1, FS_EmptySet
    <3>3. ~Conflicting(b, s)
      BY <3>2 DEF Conflicting
    <3> QED
      BY <1>1, <3>3
  <2> QED
    BY <2>2, RecordsOfSettlement DEF Typed, Finding
<1>6. \A s \in S : f[s].at = <<2, First(FindingsOf(b, s)).at, 0>> /\ f[s].exposure = 0
  BY <1>3 DEF Blocker
<1> QED
  BY <1>2, <1>4, <1>5, <1>6, ImageIsFinite DEF Typical, Placed

LEMMA ContradictedIs ==
  ASSUME NEW b, Typed(b)
  PROVE  Typical(Contradictions(b))
<1>1. ASSUME NEW f \in b.findings PROVE Typical(Contradicted(b, f))
  <2>1. PICK S : S = {x \in ExceptionsOf(b, f.sid) : f.verdict = "CONTRADICTED" /\ Wholly(x)}
    OBVIOUS
  <2>2. S \in SUBSET ExceptionsOf(b, f.sid) /\ S \subseteq b.exceptions /\ IsFiniteSet(S)
    BY <2>1, RecordsOfSettlement, FS_Subset
  <2>3. PICK g : g = [e \in S |-> Blocker(<<3, f.at, e.at>>, "CONTRADICTORY_EVIDENCE",
                                          Exception(e), e.unexplained)]
    OBVIOUS
  <2>4. Contradicted(b, f) = {g[e] : e \in S}
    BY <2>1, <2>3 DEF Contradicted
  <2>5. f.at \in Int /\ \A e \in S : e.at \in Int /\ e.unexplained \in Int
    BY <2>2 DEF Typed, ExceptionType, Finding
  <2>6. \A e \in S : g[e].at = <<3, f.at, e.at>> /\ g[e].exposure = e.unexplained
    BY <2>3 DEF Blocker
  <2> QED
    BY <2>2, <2>4, <2>5, <2>6, ImageIsFinite DEF Typical, Placed
<1>2. PICK h : h = [f \in b.findings |-> Contradicted(b, f)]
  OBVIOUS
<1>3. PICK H : H = {h[f] : f \in b.findings}
  OBVIOUS
<1>4. IsFiniteSet(H)
  BY <1>3, ImageIsFinite DEF Typed
<1>5. Contradictions(b) = UNION H /\ \A B \in H : Typical(B)
  BY <1>1, <1>2, <1>3 DEF Contradictions
<1> QED
  BY <1>4, <1>5, TypicalUnions

LEMMA FailedInvariantsIs ==
  ASSUME NEW b, Typed(b)
  PROVE  Typical(FailedInvariants(b))
<1>1. ASSUME NEW f \in b.findings PROVE Typical(FailedBy(f))
  <2>1. PICK S : S = {j \in DOMAIN f.proofs : f.proofs[j].off > 0}
    OBVIOUS
  <2>2. S \in SUBSET DOMAIN f.proofs /\ IsFiniteSet(S)
    <3>1. S \in SUBSET DOMAIN f.proofs /\ IsFiniteSet(DOMAIN f.proofs)
      BY <2>1, ProofsAreTyped
    <3> QED
      BY <3>1, FS_Subset
  <2>3. PICK g : g = [i \in S |-> Blocker(<<5, f.at, i>>, "FAILED_INVARIANT", Settlement(f.sid),
                                          f.proofs[i].off)]
    OBVIOUS
  <2>4. PICK one : one = IF f.verdict = "PROVEN" /\ ~f.postable
                         THEN {Blocker(<<5, f.at, 0>>, "FAILED_INVARIANT", Settlement(f.sid), 0)}
                         ELSE {}
    OBVIOUS
  <2>5. FailedBy(f) = one \cup {g[i] : i \in S}
    BY <2>1, <2>3, <2>4 DEF FailedBy
  <2>6. f.at \in Int
    BY DEF Typed, Finding
  <2>7. Typical(one)
    BY <2>4, <2>6, TypicalNone, TypicalOne
  <2>8. \A i \in S : i \in Int /\ f.proofs[i].off \in Int
    BY <2>2, ProofsAreTyped
  <2>9. \A i \in S : g[i].at = <<5, f.at, i>> /\ g[i].exposure = f.proofs[i].off
    BY <2>3 DEF Blocker
  <2>10. Typical({g[i] : i \in S})
    BY <2>2, <2>6, <2>8, <2>9, ImageIsFinite DEF Typical, Placed
  <2> QED
    BY <2>5, <2>7, <2>10, TypicalUnion
<1>2. PICK h : h = [f \in b.findings |-> FailedBy(f)]
  OBVIOUS
<1>3. PICK H : H = {h[f] : f \in b.findings}
  OBVIOUS
<1>4. IsFiniteSet(H)
  BY <1>3, ImageIsFinite DEF Typed
<1>5. FailedInvariants(b) = UNION H /\ \A B \in H : Typical(B)
  BY <1>1, <1>2, <1>3 DEF FailedInvariants
<1> QED
  BY <1>4, <1>5, TypicalUnions

LEMMA CompromisedIs ==
  ASSUME NEW b, Typed(b)
  PROVE  Typical(Compromised(b))
<1>1. PICK S \in SUBSET b.findings : S = {g \in b.findings : g.lossy}
  OBVIOUS
<1>2. IsFiniteSet(S)
  BY FS_Subset DEF Typed
<1>3. PICK f : f = [g \in S |-> Blocker(<<6, g.at, 0>>, "COMPROMISED_INTEGRITY",
                                        Settlement(g.sid), 0)]
  OBVIOUS
<1>4. Compromised(b) = {f[g] : g \in S}
  BY <1>1, <1>3 DEF Compromised
<1>5. \A g \in S : g.at \in Int
  BY DEF Typed, Finding
<1>6. \A g \in S : f[g].at = <<6, g.at, 0>> /\ f[g].exposure = 0
  BY <1>3 DEF Blocker
<1> QED
  BY <1>2, <1>4, <1>5, <1>6, ImageIsFinite DEF Typical, Placed

LEMMA ProhibitedIs ==
  ASSUME NEW b, Typed(b)
  PROVE  Typical(Prohibited(b))
<1>1. PICK S \in SUBSET b.period : S = b.period \cap b.blocked
  OBVIOUS
<1>2. IsFiniteSet(S)
  BY FS_Subset DEF Typed
<1>3. PICK f : f = [s \in S |-> Blocker(<<7, s, 0>>, "POLICY_BLOCKED", Settlement(s), 0)]
  OBVIOUS
<1>4. Prohibited(b) = {f[s] : s \in S}
  BY <1>1, <1>3 DEF Prohibited
<1>5. \A s \in S : s \in Int
  BY DEF Typed
<1>6. \A s \in S : f[s].at = <<7, s, 0>> /\ f[s].exposure = 0
  BY <1>3 DEF Blocker
<1> QED
  BY <1>2, <1>4, <1>5, <1>6, ImageIsFinite DEF Typical, Placed

LEMMA SeriousIs ==
  ASSUME NEW b, Typed(b)
  PROVE  Typical(Serious(b))
<1>1. PICK S \in SUBSET b.exceptions : S = {x \in b.exceptions : x.severity = "HIGH"}
  OBVIOUS
<1>2. IsFiniteSet(S)
  BY FS_Subset DEF Typed
<1>3. PICK f : f = [e \in S |-> Blocker(<<8, e.at, 0>>, "HIGH_SEVERITY_EXCEPTION", Exception(e),
                                        Magnitude(e.unexplained))]
  OBVIOUS
<1>4. Serious(b) = {f[e] : e \in S}
  BY <1>1, <1>3 DEF Serious
<1>5. \A e \in S : e.at \in Int /\ Magnitude(e.unexplained) \in Int
  BY DEF Typed, ExceptionType, Magnitude
<1>6. \A e \in S : f[e].at = <<8, e.at, 0>> /\ f[e].exposure = Magnitude(e.unexplained)
  BY <1>3 DEF Blocker
<1> QED
  BY <1>2, <1>4, <1>5, <1>6, ImageIsFinite DEF Typical, Placed

LEMMA UnexaminedIs ==
  ASSUME NEW b, Typed(b)
  PROVE  Typical(Unexamined(b))
<1>1. PICK S \in SUBSET b.period :
        S = {t \in b.period : FindingsOf(b, t) = {} /\ ExceptionsOf(b, t) = {}}
  OBVIOUS
<1>2. IsFiniteSet(S)
  BY FS_Subset DEF Typed
<1>3. PICK f : f = [s \in S |-> Blocker(<<9, s, 0>>, "MISSING_SETTLEMENT", Settlement(s), 0)]
  OBVIOUS
<1>4. Unexamined(b) = {f[s] : s \in S}
  BY <1>1, <1>3 DEF Unexamined
<1>5. \A s \in S : s \in Int
  BY DEF Typed
<1>6. \A s \in S : f[s].at = <<9, s, 0>> /\ f[s].exposure = 0
  BY <1>3 DEF Blocker
<1> QED
  BY <1>2, <1>4, <1>5, <1>6, ImageIsFinite DEF Typical, Placed

\* The orders cited by the findings of a set, and who cites them, are finite.
LEMMA CitedIsFinite ==
  ASSUME NEW b, Typed(b)
  PROVE  /\ IsFiniteSet(UNION Assignments(ProvenOf(b)))
         /\ UNION Assignments(ProvenOf(b)) \subseteq Int
         /\ \A o : IsFiniteSet(Citing(b, o)) /\ Citing(b, o) \subseteq Nat
<1>1. PICK P \in SUBSET b.findings : P = ProvenOf(b)
  BY DEF ProvenOf
<1>2. IsFiniteSet(P)
  BY FS_Subset DEF Typed
<1>3. PICK h : h = [f \in P |-> {f.proofs[i] : i \in DOMAIN f.proofs}]
  OBVIOUS
<1>4. ASSUME NEW f \in P PROVE IsFiniteSet(h[f])
  <2>1. PICK p : p = f.proofs
    OBVIOUS
  <2>2. IsFiniteSet(DOMAIN p)
    BY <2>1, ProofsAreTyped
  <2>3. IsFiniteSet({p[i] : i \in DOMAIN p})
    BY <2>2, ImageIsFinite
  <2> QED
    BY <1>3, <2>1, <2>3
<1>5. PICK H : H = {h[f] : f \in P}
  OBVIOUS
<1>6. IsFiniteSet(H) /\ \A T \in H : IsFiniteSet(T)
  BY <1>2, <1>4, <1>5, ImageIsFinite
<1>7. PICK Q : Q = UNION H
  OBVIOUS
<1>8. IsFiniteSet(Q)
  BY <1>6, <1>7, FS_UNION
<1>9. PICK g : g = [q \in Q |-> q.orders]
  OBVIOUS
<1>10. Q = UNION {{f.proofs[i] : i \in DOMAIN f.proofs} : f \in P}
  BY <1>3, <1>5, <1>7
<1>11. Assignments(P) = {g[q] : q \in Q}
  BY <1>9, <1>10 DEF Assignments
<1>12. IsFiniteSet(Assignments(P))
  BY <1>8, <1>11, ImageIsFinite
<1>13. \A A \in Assignments(P) : IsFiniteSet(A) /\ A \subseteq Int
  <2>1. SUFFICES ASSUME NEW A \in Assignments(P) PROVE IsFiniteSet(A) /\ A \subseteq Int
    OBVIOUS
  <2>2. PICK f \in P : \E i \in DOMAIN f.proofs : A = f.proofs[i].orders
    BY DEF Assignments
  <2>3. f \in b.findings
    OBVIOUS
  <2> QED
    BY <2>2, <2>3, ProofsAreTyped
<1>14. IsFiniteSet(UNION Assignments(P)) /\ UNION Assignments(P) \subseteq Int
  BY <1>12, <1>13, FS_UNION
<1>15. ASSUME NEW o PROVE IsFiniteSet(Citing(b, o)) /\ Citing(b, o) \subseteq Nat
  <2>1. PICK G \in SUBSET P : G = {f \in P : \E i \in DOMAIN f.proofs : o \in f.proofs[i].orders}
    OBVIOUS
  <2>2. PICK k : k = [f \in G |-> f.sid]
    OBVIOUS
  <2>3. Citing(b, o) = {k[f] : f \in G}
    BY <1>1, <2>1, <2>2 DEF Citing
  <2>4. \A f \in G : f.sid \in Nat
    BY <1>1 DEF Typed, Finding
  <2>5. IsFiniteSet(G)
    BY <1>2, FS_Subset
  <2> QED
    BY <2>2, <2>3, <2>4, <2>5, ImageIsFinite
<1> QED
  BY <1>1, <1>14, <1>15

LEMMA DuplicateImpactIs ==
  ASSUME NEW b, Typed(b)
  PROVE  Typical(DuplicateImpact(b))
<1>1. PICK O \in SUBSET UNION Assignments(ProvenOf(b)) :
        O = {p \in UNION Assignments(ProvenOf(b)) : Cardinality(Citing(b, p)) > 1}
  OBVIOUS
<1>2. IsFiniteSet(O) /\ O \subseteq Int
  BY CitedIsFinite, FS_Subset
<1>3. PICK h : h = [o \in O |-> {Blocker(<<4, o, s>>, "DUPLICATE_LEDGER_IMPACT", SharedOrder(s, o), 0)
                                 : s \in Citing(b, o)}]
  OBVIOUS
<1>4. ASSUME NEW o \in O PROVE Typical(h[o])
  <2>1. PICK g : g = [s \in Citing(b, o) |->
                        Blocker(<<4, o, s>>, "DUPLICATE_LEDGER_IMPACT", SharedOrder(s, o), 0)]
    OBVIOUS
  <2>2. h[o] = {g[s] : s \in Citing(b, o)}
    BY <1>3, <2>1
  <2>3. o \in Int /\ \A s \in Citing(b, o) : s \in Int
    <3>1. Citing(b, o) \subseteq Nat
      BY CitedIsFinite
    <3> QED
      BY <1>2, <3>1
  <2>4. \A s \in Citing(b, o) : g[s].at = <<4, o, s>> /\ g[s].exposure = 0
    BY <2>1 DEF Blocker
  <2>5. IsFiniteSet(Citing(b, o))
    BY CitedIsFinite
  <2> QED
    BY <2>2, <2>3, <2>4, <2>5, ImageIsFinite DEF Typical, Placed
<1>5. PICK H : H = {h[o] : o \in O}
  OBVIOUS
<1>6. IsFiniteSet(H) /\ \A B \in H : Typical(B)
  <2>1. IsFiniteSet(H)
    BY <1>2, <1>5, ImageIsFinite
  <2> QED
    BY <1>4, <1>5, <2>1
<1>7. DuplicateImpact(b) = UNION H
  <2>1. H = {{Blocker(<<4, o, s>>, "DUPLICATE_LEDGER_IMPACT", SharedOrder(s, o), 0)
              : s \in Citing(b, o)} : o \in O}
    BY <1>3, <1>5
  <2> QED
    BY <1>1, <2>1 DEF DuplicateImpact
<1> QED
  BY <1>6, <1>7, TypicalUnions

LEMMA HardBlockersAreTypical ==
  ASSUME NEW b, Typed(b)
  PROVE  Typical(HardBlockers(b))
<1>1. /\ Typical(Untimely(b)) /\ Typical(Disagreements(b)) /\ Typical(Contradictions(b))
      /\ Typical(DuplicateImpact(b)) /\ Typical(FailedInvariants(b)) /\ Typical(Compromised(b))
      /\ Typical(Prohibited(b)) /\ Typical(Serious(b)) /\ Typical(Unexamined(b))
  BY UntimelyIs, DisagreementsIs, ContradictedIs, DuplicateImpactIs, FailedInvariantsIs,
     CompromisedIs, ProhibitedIs, SeriousIs, UnexaminedIs
<1> QED
  BY <1>1, TypicalUnion DEF HardBlockers

LEMMA RankIs ==
  ASSUME NEW b, Typed(b), NEW x, x = AssessExposure(b), NEW s
  PROVE  Rank(x, s) \in Int
<1>1. IsFiniteSet(x.items)
  <2>1. x.items \in SUBSET b.period
    BY ExposureIs
  <2> QED
    BY <2>1, FS_Subset DEF Typed
<1>2. PICK S \in SUBSET x.items :
        S = {t \in x.items : \/ x.item[t].exposure > x.item[s].exposure
                             \/ x.item[t].exposure = x.item[s].exposure /\ t < s}
  OBVIOUS
<1>3. Cardinality(S) \in Nat
  BY <1>1, FS_Subset, FS_CardinalityType
<1> QED
  BY <1>2, <1>3 DEF Rank

LEMMA ContributorsAreTypical ==
  ASSUME NEW b, Typed(b), NEW x, x = AssessExposure(b), NEW s \in b.period
  PROVE  Typical(Contributors(b, x, s))
<1>1. Rank(x, s) \in Int /\ x.item[s].exposure \in Int
  BY RankIs, ExposureIs
<1>2. CASE ExceptionsOf(b, s) = {}
  <2>1. Typical({Blocker(<<12, Rank(x, s), 0>>, "UNRESOLVED_MATERIAL_AMOUNT", Settlement(s),
                         x.item[s].exposure)})
    BY <1>1, TypicalOne
  <2> QED
    BY <1>2, <2>1 DEF Contributors
<1>3. CASE ExceptionsOf(b, s) # {}
  <2>1. PICK E : E = ExceptionsOf(b, s)
    OBVIOUS
  <2>2. IsFiniteSet(E) /\ E \subseteq b.exceptions
    BY <2>1, RecordsOfSettlement
  <2>3. PICK g : g = [e \in E |-> Blocker(<<12, Rank(x, s), e.at>>, "UNRESOLVED_MATERIAL_AMOUNT",
                                          Exception(e), Magnitude(e.unexplained))]
    OBVIOUS
  <2>4. Contributors(b, x, s) = {g[e] : e \in E}
    BY <1>3, <2>1, <2>3 DEF Contributors
  <2>5. \A e \in E : e.at \in Int /\ Magnitude(e.unexplained) \in Int
    BY <2>2 DEF Typed, ExceptionType, Magnitude
  <2>6. \A e \in E : /\ g[e].at = <<12, Rank(x, s), e.at>>
                     /\ g[e].exposure = Magnitude(e.unexplained)
    BY <2>3 DEF Blocker
  <2> QED
    BY <1>1, <2>2, <2>4, <2>5, <2>6, ImageIsFinite DEF Typical, Placed
<1> QED
  BY <1>2, <1>3

LEMMA MaterialBlockersAreTypical ==
  ASSUME NEW b, Typed(b), NEW x, x = AssessExposure(b)
  PROVE  Typical(MaterialBlockers(b, x))
<1>1. x.items \in SUBSET b.period /\ IsFiniteSet(x.items)
  <2>1. x.items \in SUBSET b.period
    BY ExposureIs
  <2> QED
    BY <2>1, FS_Subset DEF Typed
<1>2. PICK S \in SUBSET x.items :
        S = {t \in x.items : x.item[t].kind = "AMBIGUOUS" /\ Value(b, t) > Allowable(x.total)}
  OBVIOUS
<1>3. PICK g : g = [s \in S |-> Blocker(<<10, Rank(x, s), 0>>, "AMBIGUOUS_MATERIAL_SETTLEMENT",
                                        Settlement(s), Value(b, s))]
  OBVIOUS
<1>4. \A s \in S : Rank(x, s) \in Int /\ Value(b, s) \in Int
  <2>1. \A s \in S : Value(b, s) \in Nat /\ Rank(x, s) \in Int
    BY RankIs, ValueIsNat
  <2> QED
    BY <2>1
<1>5. \A s \in S : g[s].at = <<10, Rank(x, s), 0>> /\ g[s].exposure = Value(b, s)
  BY <1>3 DEF Blocker
<1>6. IsFiniteSet(S)
  BY <1>1, FS_Subset
<1>7. Typical({g[s] : s \in S})
  BY <1>4, <1>5, <1>6, ImageIsFinite DEF Typical, Placed
<1>8. PICK h : h = [s \in x.items |-> Contributors(b, x, s)]
  OBVIOUS
<1>9. PICK H : H = {h[s] : s \in x.items}
  OBVIOUS
<1>10. IsFiniteSet(H)
  BY <1>1, <1>9, ImageIsFinite
<1>11. \A C \in H : Typical(C)
  BY <1>1, <1>8, <1>9, ContributorsAreTypical
<1>12. Typical(UNION H)
  BY <1>10, <1>11, TypicalUnions
<1>13. PICK P : P = {Blocker(<<11, 0, 0>>, "UNRESOLVED_MATERIAL_AMOUNT", Period, x.net)}
  OBVIOUS
<1>14. Typical(P)
  BY <1>13, TypicalOne, ExposureIs
<1>15. PICK M : M = IF x.net > Allowable(x.total) THEN P \cup UNION H ELSE {}
  OBVIOUS
<1>16. Typical(M)
  BY <1>12, <1>14, <1>15, TypicalUnion, TypicalNone
<1>17. UNION H = UNION {Contributors(b, x, s) : s \in x.items}
  BY <1>8, <1>9
<1>18. MaterialBlockers(b, x) = {g[s] : s \in S} \cup M
  BY <1>2, <1>3, <1>13, <1>15, <1>17 DEF MaterialBlockers
<1> QED
  BY <1>7, <1>16, <1>18, TypicalUnion

\* What the rules that do not look at materiality name.
LEMMA HardBlockerIs ==
  ASSUME NEW b, NEW k \in HardBlockers(b)
  PROVE  /\ k.kind \notin MaterialKinds
         /\ \/ \E s : k.ref = Settlement(s)
            \/ \E e \in b.exceptions : k.ref = Exception(e)
            \/ \E s, o : k.ref = SharedOrder(s, o)
<1>1. CASE k \in Untimely(b)
  BY <1>1 DEF Untimely, Blocker, MaterialKinds
<1>2. CASE k \in Disagreements(b)
  BY <1>2 DEF Disagreements, Blocker, MaterialKinds
<1>3. CASE k \in Contradictions(b)
  BY <1>3 DEF Contradictions, Contradicted, ExceptionsOf, Blocker, MaterialKinds
<1>4. CASE k \in DuplicateImpact(b)
  BY <1>4 DEF DuplicateImpact, Blocker, MaterialKinds
<1>5. CASE k \in FailedInvariants(b)
  BY <1>5 DEF FailedInvariants, FailedBy, Blocker, MaterialKinds
<1>6. CASE k \in Compromised(b)
  BY <1>6 DEF Compromised, Blocker, MaterialKinds
<1>7. CASE k \in Prohibited(b)
  BY <1>7 DEF Prohibited, Blocker, MaterialKinds
<1>8. CASE k \in Serious(b)
  BY <1>8 DEF Serious, Blocker, MaterialKinds
<1>9. CASE k \in Unexamined(b)
  BY <1>9 DEF Unexamined, Blocker, MaterialKinds
<1> QED
  BY <1>1, <1>2, <1>3, <1>4, <1>5, <1>6, <1>7, <1>8, <1>9 DEF HardBlockers

LEMMA MaterialBlockerIs ==
  ASSUME NEW b, NEW x, NEW k \in MaterialBlockers(b, x)
  PROVE  /\ k.kind \in MaterialKinds
         /\ \/ \E s : k.ref = Settlement(s)
            \/ \E e \in b.exceptions : k.ref = Exception(e)
            \/ k.ref = Period /\ x.net > Allowable(x.total)
<1>1. CASE \E s : k \in Contributors(b, x, s)
  BY <1>1 DEF Contributors, ExceptionsOf, Blocker, MaterialKinds
<1>2. CASE ~\E s : k \in Contributors(b, x, s)
  BY <1>2 DEF MaterialBlockers, Blocker, MaterialKinds
<1> QED
  BY <1>1, <1>2

Blockers(b) == HardBlockers(b) \cup MaterialBlockers(b, AssessExposure(b))

\* decide_period: it blocks exactly when a rule names something, and what it
\* says of the books is said of those in the scope of the period.
LEMMA VerdictIs ==
  ASSUME NEW books, Typed(books), NEW b, b = Scoped(books),
         NEW x, x = AssessExposure(b), NEW v, v = DecidePeriod(books)
  PROVE  /\ v.blockers \subseteq Blockers(b) /\ Typical(Blockers(b))
         /\ \A k \in Blockers(b) : \E l \in v.blockers : l.kind = k.kind /\ l.ref = k.ref
         /\ v.decision = "BLOCKED" <=> v.blockers # {}
         /\ v.decision = "READY_TO_CLOSE"
              <=> v.blockers = {} /\ x.net <= 0 /\ b.exceptions = {}
         /\ v.carried = IF v.decision = "READY_WITH_CARRY_FORWARD" THEN b.exceptions ELSE {}
         /\ v.net = x.net /\ v.net \in Int /\ v.material \in Int
         /\ v.decision \in {"BLOCKED", "READY_TO_CLOSE", "READY_WITH_CARRY_FORWARD"}
<1>1. Typed(b)
  BY ScopedIsTyped
<1>2. PICK B : B = Blockers(b)
  OBVIOUS
<1>3. Typical(B)
  BY <1>1, <1>2, HardBlockersAreTypical, MaterialBlockersAreTypical, TypicalUnion DEF Blockers
<1>4. PICK D : D = Deduplicated(B)
  OBVIOUS
<1>5. D \subseteq B /\ \A k \in B : \E l \in D : l.kind = k.kind /\ l.ref = k.ref
  BY <1>3, <1>4, DeduplicatedKeepsMarks DEF Typical
<1>6. v = Judged(b, x, D)
  BY <1>2, <1>4 DEF DecidePeriod, Decided, Blockers
<1>7. PICK d : d = Decision(b, x, D)
  OBVIOUS
<1>8. v = Verdict(b, x, D, d)
  BY <1>6, <1>7 DEF Judged
<1>9. /\ D # {} => d = "BLOCKED"
      /\ D = {} /\ x.net <= 0 /\ b.exceptions = {} => d = "READY_TO_CLOSE"
      /\ D = {} /\ ~(x.net <= 0 /\ b.exceptions = {}) => d = "READY_WITH_CARRY_FORWARD"
  BY <1>7 DEF Decision
<1>10. x.net \in Int
  BY <1>1, ExposureIs
<1>11. PICK g \in [D -> Int] : g = [k \in D |-> k.exposure]
  BY <1>3, <1>5 DEF Typical
<1>12. Total(g, D) \in Int
  <2>1. D \in SUBSET B /\ IsFiniteSet(D)
    BY <1>3, <1>5, FS_Subset DEF Typical, Placed
  <2> QED
    BY <2>1, TotalStep
<1>13. v.material \in Int
  <2>1. v.material = CASE d # "BLOCKED" -> 0
                       [] d = "BLOCKED" /\ x.net > Allowable(x.total) -> x.net
                       [] OTHER -> Total(g, D)
    BY <1>8, <1>11 DEF Verdict
  <2> QED
    BY <1>10, <1>12, <2>1
<1>14. /\ v.blockers = D /\ v.decision = d /\ v.net = x.net
       /\ v.carried = IF d = "READY_WITH_CARRY_FORWARD" THEN b.exceptions ELSE {}
  BY <1>8 DEF Verdict
<1> QED
  BY <1>2, <1>3, <1>5, <1>9, <1>10, <1>13, <1>14

-----------------------------------------------------------------------------
(* Projections: the simulator's copies of the books *)

LEMMA LatestIs ==
  ASSUME NEW b, Typed(b)
  PROVE  Latest(b) \in Int
<1>1. PICK P : P = {f.at : f \in b.findings} \cup {0}
  OBVIOUS
<1>2. P \subseteq Int /\ P # {}
  BY <1>1 DEF Typed, Finding
<1>3. IsFiniteSet(P)
  <2>1. PICK g : g = [f \in b.findings |-> f.at]
    OBVIOUS
  <2>2. IsFiniteSet({g[f] : f \in b.findings})
    BY ImageIsFinite DEF Typed
  <2>3. P = {g[f] : f \in b.findings} \cup {0}
    BY <1>1, <2>1
  <2> QED
    BY <2>2, <2>3, FS_AddElement
<1>4. PICK g \in [P -> Int] : \A n \in P : g[n] = -n
  <2>1. [n \in P |-> -n] \in [P -> Int]
    BY <1>2
  <2> QED
    BY <2>1
<1>5. PICK n \in P : \A m \in P : g[n] <= g[m]
  BY <1>2, <1>3, LeastBy
<1>6. \A m \in P : m <= n
  BY <1>2, <1>4, <1>5
<1>7. Latest(b) = CHOOSE q \in P : \A m \in P : m <= q
  BY <1>1 DEF Latest
<1> QED
  BY <1>2, <1>6, <1>7

LEMMA HypotheticalIs ==
  ASSUME NEW b, Typed(b), NEW s \in Nat, NEW net \in Int
  PROVE  LET h == Hypothetical(b, s, net)
         IN  /\ h \in Finding /\ h.sid = s /\ h.verdict = "PROVEN"
             /\ \A i \in DOMAIN h.proofs : IsFiniteSet(h.proofs[i].orders)
<1>1. PICK h : h = Hypothetical(b, s, net)
  OBVIOUS
<1>2. PICK p : p = [orders |-> {SimulatedOrder(s)}, gross |-> net, net |-> net, off |-> 0]
  OBVIOUS
<1>3. p \in [orders : SUBSET Int, gross : Int, net : Int, off : Nat]
  BY <1>2 DEF SimulatedOrder
<1>4. p.orders = {SimulatedOrder(s)} /\ IsFiniteSet(p.orders)
  BY <1>2, FS_Singleton
<1>5. h = [at |-> Latest(b) + s, sid |-> s, verdict |-> "PROVEN", postable |-> TRUE,
           lossy |-> FALSE, proofs |-> <<p>>]
  BY <1>1, <1>2 DEF Hypothetical
<1>6. <<p>> \in Seq([orders : SUBSET Int, gross : Int, net : Int, off : Nat])
  BY <1>3
<1>7. Latest(b) + s \in Int
  BY LatestIs
<1>8. h \in Finding
  BY <1>5, <1>6, <1>7 DEF Finding
<1>9. \A i \in DOMAIN h.proofs : h.proofs[i] = p
  BY <1>5
<1> QED
  BY <1>1, <1>4, <1>5, <1>8, <1>9

\* A copy c of books b with findings F of b, and settlements S taken to be proven.
Copies(c, b, F, S, worth) ==
  /\ IsFiniteSet(S) /\ S \subseteq Nat /\ \A s \in S : worth[s] \in Int
  /\ F \subseteq b.findings
  /\ DOMAIN c = DOMAIN b /\ c.period = b.period /\ c.net = b.net
  /\ c.exceptions \subseteq b.exceptions
  /\ c.findings = F \cup Hypotheticals(b, S, worth)

\* Whatever findings are dropped and whatever settlements are then taken to be
\* proven, the copy is of books again, and of any other settlement it has what
\* was not dropped.
LEMMA CopyIsTyped ==
  ASSUME NEW b, Typed(b), NEW S, NEW worth, NEW F, NEW c, Copies(c, b, F, S, worth)
  PROVE  /\ Typed(c)
         /\ \A f \in c.findings \ F : f.sid \in S /\ f.verdict = "PROVEN"
         /\ \A s : s \notin S => FindingsOf(c, s) = {f \in F : f.sid = s}
<1> USE DEF Copies
<1>1. PICK g : g = [s \in S |-> Hypothetical(b, s, worth[s])]
  OBVIOUS
<1>2. PICK H : H = Hypotheticals(b, S, worth)
  OBVIOUS
<1>3. H = {g[s] : s \in S}
  BY <1>1, <1>2 DEF Hypotheticals
<1>4. ASSUME NEW s \in S
      PROVE  /\ g[s] \in Finding /\ g[s].sid = s /\ g[s].verdict = "PROVEN"
             /\ \A i \in DOMAIN g[s].proofs : IsFiniteSet(g[s].proofs[i].orders)
  <2>1. s \in Nat /\ worth[s] \in Int /\ g[s] = Hypothetical(b, s, worth[s])
    BY <1>1
  <2> QED
    BY <2>1, HypotheticalIs
<1>5. IsFiniteSet(H) /\ H \subseteq Finding
  <2>1. IsFiniteSet(H)
    BY <1>3, ImageIsFinite
  <2> QED
    BY <1>3, <1>4, <2>1
<1>6. IsFiniteSet(c.findings) /\ c.findings \subseteq Finding
  <2>1. F \in SUBSET b.findings
    OBVIOUS
  <2>2. IsFiniteSet(F) /\ F \subseteq Finding
    BY <2>1, FS_Subset DEF Typed
  <2> QED
    BY <1>2, <1>5, <2>2, FS_Union
<1>7. IsFiniteSet(c.exceptions)
  <2>1. c.exceptions \in SUBSET b.exceptions
    OBVIOUS
  <2> QED
    BY <2>1, FS_Subset DEF Typed
<1>8. \A A \in Assignments(c.findings) : IsFiniteSet(A)
  <2>1. SUFFICES ASSUME NEW A \in Assignments(c.findings) PROVE IsFiniteSet(A)
    OBVIOUS
  <2>2. PICK f \in c.findings : \E i \in DOMAIN f.proofs : A = f.proofs[i].orders
    BY DEF Assignments
  <2>3. CASE f \in F
    <3>1. f \in b.findings
      BY <2>3
    <3> QED
      BY <2>2, <3>1, ProofsAreTyped
  <2>4. CASE f \in H
    BY <1>3, <1>4, <2>2, <2>4
  <2> QED
    BY <1>2, <2>3, <2>4
<1>9. Typed(c)
  BY <1>6, <1>7, <1>8 DEF Typed
<1>10. \A f \in H : f.sid \in S /\ f.verdict = "PROVEN"
  BY <1>3, <1>4
<1>11. \A s : s \notin S => FindingsOf(c, s) = {f \in F : f.sid = s}
  BY <1>2, <1>10 DEF FindingsOf
<1> QED
  BY <1>2, <1>9, <1>10, <1>11

LEMMA SidsAreFinite ==
  ASSUME NEW R, IsFiniteSet(R), \A r \in R : r.sid \in Nat
  PROVE  IsFiniteSet({r.sid : r \in R}) /\ {r.sid : r \in R} \subseteq Nat
<1>1. PICK g : g = [r \in R |-> r.sid]
  OBVIOUS
<1>2. {r.sid : r \in R} = {g[r] : r \in R}
  BY <1>1
<1>3. IsFiniteSet({g[r] : r \in R})
  BY ImageIsFinite
<1> QED
  BY <1>2, <1>3

\* Step 3 of a projection.
LEMMA AfterResolvingIs ==
  ASSUME NEW b, Typed(b), NEW ids, NEW c, c = AfterResolving(b, ids)
  PROVE  /\ Typed(c)
         /\ c.period = b.period /\ c.net = b.net /\ c.late = b.late /\ c.blocked = b.blocked
         /\ c.exceptions = Left(b, ids)
         /\ Accounted(b) => Accounted(c)
         /\ \A s : s \notin Freed(b, ids) => FindingsOf(c, s) = FindingsOf(b, s)
<1>1. PICK S : S = Replaced(b, ids)
  OBVIOUS
<1>2. \A s \in S : ExceptionsOf(b, s) # {}
  BY <1>1 DEF Replaced, Freed, ExceptionsOf
<1>3. IsFiniteSet(S) /\ S \subseteq Nat
  <2>1. \A e \in b.exceptions : e.sid \in Nat
    BY DEF Typed, ExceptionType
  <2>2. S \in SUBSET {e.sid : e \in b.exceptions}
    BY <1>1 DEF Replaced, Freed
  <2>3. PICK Q : Q = {e.sid : e \in b.exceptions}
    OBVIOUS
  <2>4. IsFiniteSet(Q) /\ Q \subseteq Nat /\ S \in SUBSET Q
    BY <2>1, <2>2, <2>3, SidsAreFinite DEF Typed
  <2> QED
    BY <2>4, FS_Subset
<1>4. \A s \in S : ResolvedWorth(b, s) \in Int
  <2>1. SUFFICES ASSUME NEW s \in S PROVE ResolvedWorth(b, s) \in Int
    OBVIOUS
  <2>2. CASE Filed(b, s)
    BY <2>2 DEF ResolvedWorth, Filed, Typed, Magnitude
  <2>3. CASE ~Filed(b, s) /\ FindingsOf(b, s) # {} /\ First(FindingsOf(b, s)).proofs # <<>>
    <3>1. First(FindingsOf(b, s)) \in b.findings
      BY <2>3, RecordsOfSettlement
    <3> QED
      BY <2>3, <3>1, ProofsAreTyped DEF ResolvedWorth
  <2>4. CASE ~Filed(b, s) /\ ~(FindingsOf(b, s) # {} /\ First(FindingsOf(b, s)).proofs # <<>>)
    <3>1. First(ExceptionsOf(b, s)) \in b.exceptions
      BY <1>2, RecordsOfSettlement
    <3>2. First(ExceptionsOf(b, s)).amount \in Int
      BY <3>1 DEF Typed, ExceptionType
    <3> QED
      BY <2>4, <3>2 DEF ResolvedWorth, Magnitude
  <2> QED
    BY <2>2, <2>3, <2>4
<1>5. PICK worth : worth = [s \in S |-> ResolvedWorth(b, s)]
  OBVIOUS
<1>6. PICK F \in SUBSET b.findings : F = {f \in b.findings : f.sid \notin S}
  OBVIOUS
<1>7. /\ DOMAIN c = DOMAIN b /\ c.period = b.period /\ c.net = b.net /\ c.late = b.late
      /\ c.blocked = b.blocked /\ c.exceptions = Left(b, ids)
      /\ c.findings = F \cup Hypotheticals(b, S, worth)
  BY <1>1, <1>5, <1>6 DEF AfterResolving, Typed, Fields
<1>8. c.exceptions \subseteq b.exceptions /\ \A s \in S : worth[s] \in Int
  BY <1>4, <1>5, <1>7 DEF Left
<1>9. /\ Typed(c)
      /\ \A f \in c.findings \ F : f.verdict = "PROVEN"
      /\ \A s : s \notin S => FindingsOf(c, s) = {f \in F : f.sid = s}
  <2>1. /\ Typed(c)
        /\ \A f \in c.findings \ F : f.sid \in S /\ f.verdict = "PROVEN"
        /\ \A s : s \notin S => FindingsOf(c, s) = {f \in F : f.sid = s}
    <3>1. Copies(c, b, F, S, worth)
      BY <1>3, <1>7, <1>8 DEF Copies
    <3> QED
      BY <3>1, CopyIsTyped
  <2> QED
    BY <2>1
<1>10. \A s : s \notin S => FindingsOf(c, s) = FindingsOf(b, s)
  BY <1>6, <1>9 DEF FindingsOf
<1>11. ASSUME Accounted(b) PROVE Accounted(c)
  <2>1. SUFFICES ASSUME NEW f \in c.findings, f.verdict # "PROVEN"
                 PROVE  ExceptionsOf(c, f.sid) # {}
    BY DEF Accounted
  <2>2. f \in b.findings /\ f.sid \notin S
    BY <1>6, <1>9, <2>1
  <2>3. PICK e \in b.exceptions : e.sid = f.sid
    BY <1>11, <2>1, <2>2 DEF Accounted, ExceptionsOf
  <2>4. f \in FindingsOf(b, f.sid) /\ ~Explained(f)
    BY <2>1, <2>2 DEF FindingsOf, Explained
  <2>5. f.sid \notin Freed(b, ids)
    BY <1>1, <2>2, <2>4 DEF Replaced
  <2>6. \E d \in Left(b, ids) : d.sid = f.sid
    BY <2>3, <2>5 DEF Freed
  <2> QED
    BY <1>7, <2>6 DEF ExceptionsOf
<1>12. S \subseteq Freed(b, ids)
  BY <1>1 DEF Replaced
<1> QED
  BY <1>7, <1>9, <1>10, <1>11, <1>12

\* Step 4: what policy blocks, what nobody looked at, what conflicts.
LEMMA UnblockedIs ==
  ASSUME NEW b, Typed(b), NEW refs, NEW kinds, NEW c, c = Unblocked(b, refs, kinds)
  PROVE  /\ Typed(c) /\ DOMAIN c = DOMAIN b
         /\ c.period = b.period /\ c.net = b.net /\ c.late = b.late
         /\ c.exceptions = b.exceptions /\ c.findings = b.findings
         /\ c.blocked = {s \in b.blocked : Settlement(s) \notin refs /\ "POLICY_BLOCKED" \notin kinds}
         /\ Accounted(b) => Accounted(c)
         /\ \A s : FindingsOf(c, s) = FindingsOf(b, s)
<1>1. /\ DOMAIN c = DOMAIN b
      /\ c.period = b.period /\ c.net = b.net /\ c.late = b.late
      /\ c.exceptions = b.exceptions /\ c.findings = b.findings
      /\ c.blocked = {s \in b.blocked : Settlement(s) \notin refs /\ "POLICY_BLOCKED" \notin kinds}
  BY DEF Unblocked, Typed, Fields
<1>2. Typed(c)
  BY <1>1 DEF Typed
<1>3. Accounted(b) => Accounted(c)
  BY <1>1 DEF Accounted, ExceptionsOf
<1> QED
  BY <1>1, <1>2, <1>3 DEF FindingsOf

\* A copy with the exceptions it had is accounted for as it was.
LEMMA CopyIsAccounted ==
  ASSUME NEW b, Typed(b), Accounted(b), NEW S, NEW worth, NEW F, NEW c, Copies(c, b, F, S, worth),
         c.exceptions = b.exceptions
  PROVE  Accounted(c)
<1>1. \A f \in c.findings \ F : f.verdict = "PROVEN"
  BY CopyIsTyped
<1>2. F \subseteq b.findings
  BY DEF Copies
<1> QED
  BY <1>1, <1>2 DEF Accounted, ExceptionsOf

LEMMA SuppliedIs ==
  ASSUME NEW b, Typed(b), NEW refs, NEW kinds, NEW c, c = Supplied(b, refs, kinds)
  PROVE  /\ Typed(c)
         /\ c.period = b.period /\ c.net = b.net /\ c.late = b.late
         /\ c.exceptions = b.exceptions /\ c.blocked = b.blocked
         /\ Accounted(b) => Accounted(c)
         /\ \A s : s \notin Absent(b, refs, kinds) => FindingsOf(c, s) = FindingsOf(b, s)
<1>1. PICK S \in SUBSET b.period : S = Absent(b, refs, kinds)
  BY DEF Absent
<1>2. IsFiniteSet(S) /\ S \subseteq Nat
  BY FS_Subset DEF Typed
<1>3. PICK worth : worth = [s \in S |-> IF s \in DOMAIN b.net THEN Magnitude(b.net[s]) ELSE 1000]
  OBVIOUS
<1>4. \A s \in S : worth[s] \in Int
  BY <1>3 DEF Typed, Magnitude
<1>5. PICK F : F = b.findings
  OBVIOUS
<1>6. /\ DOMAIN c = DOMAIN b /\ c.period = b.period /\ c.net = b.net /\ c.late = b.late
      /\ c.blocked = b.blocked /\ c.exceptions = b.exceptions
      /\ c.findings = F \cup Hypotheticals(b, S, worth)
  BY <1>1, <1>3, <1>5 DEF Supplied, Typed, Fields
<1>7. Copies(c, b, F, S, worth)
  BY <1>2, <1>4, <1>5, <1>6 DEF Copies
<1>8. /\ Typed(c)
      /\ \A s : s \notin S => FindingsOf(c, s) = {f \in F : f.sid = s}
  BY <1>7, CopyIsTyped
<1>9. Accounted(b) => Accounted(c)
  BY <1>6, <1>7, CopyIsAccounted
<1> QED
  BY <1>1, <1>5, <1>6, <1>8, <1>9 DEF FindingsOf

LEMMA HarmonisedIs ==
  ASSUME NEW b, Typed(b), NEW kinds, NEW c, c = Harmonised(b, kinds)
  PROVE  /\ Typed(c)
         /\ c.period = b.period /\ c.net = b.net /\ c.late = b.late
         /\ c.exceptions = b.exceptions /\ c.blocked = b.blocked
         /\ Accounted(b) => Accounted(c)
         /\ \A s : "CONTRADICTORY_EVIDENCE" \notin kinds \/ ~(Cardinality(FindingsOf(b, s)) > 1)
              => FindingsOf(c, s) = FindingsOf(b, s)
<1>1. CASE "CONTRADICTORY_EVIDENCE" \notin kinds
  BY <1>1 DEF Harmonised
<1>2. CASE "CONTRADICTORY_EVIDENCE" \in kinds
  <2>1. PICK S : S = Plural(b)
    OBVIOUS
  <2>2. PICK R \in SUBSET b.findings : R = {g \in b.findings : Cardinality(FindingsOf(b, g.sid)) > 1}
    OBVIOUS
  <2>3. S = {r.sid : r \in R}
    BY <2>1, <2>2 DEF Plural
  <2>4. IsFiniteSet(R) /\ \A r \in R : r.sid \in Nat
    BY FS_Subset DEF Typed, Finding
  <2>5. IsFiniteSet(S) /\ S \subseteq Nat
    BY <2>3, <2>4, SidsAreFinite
  <2>6. PICK worth : worth = [s \in S |->
          LET proofs == First(FindingsOf(b, s)).proofs
          IN  CASE s \in DOMAIN b.net -> Magnitude(b.net[s])
                [] s \notin DOMAIN b.net /\ proofs # <<>> -> proofs[1].net
                [] OTHER -> 1000]
    OBVIOUS
  <2>7. ASSUME NEW s \in S PROVE worth[s] \in Int
    <3>1. FindingsOf(b, s) # {}
      BY <2>2, <2>3 DEF FindingsOf
    <3>2. First(FindingsOf(b, s)) \in b.findings
      BY <3>1, RecordsOfSettlement
    <3>3. PICK f : f = First(FindingsOf(b, s))
      OBVIOUS
    <3>4. f.proofs # <<>> => f.proofs[1].net \in Int
      BY <3>2, <3>3, ProofsAreTyped
    <3>5. worth[s] = CASE s \in DOMAIN b.net -> Magnitude(b.net[s])
                       [] s \notin DOMAIN b.net /\ f.proofs # <<>> -> f.proofs[1].net
                       [] OTHER -> 1000
      BY <2>6, <3>3
    <3>6. s \in DOMAIN b.net => Magnitude(b.net[s]) \in Int
      BY DEF Typed, Magnitude
    <3> QED
      BY <3>4, <3>5, <3>6
  <2>8. PICK F \in SUBSET b.findings : F = {f \in b.findings : f.sid \notin S}
    OBVIOUS
  <2>9. /\ DOMAIN c = DOMAIN b /\ c.period = b.period /\ c.net = b.net /\ c.late = b.late
        /\ c.blocked = b.blocked /\ c.exceptions = b.exceptions
        /\ c.findings = F \cup Hypotheticals(b, S, worth)
    BY <1>2, <2>1, <2>6, <2>8 DEF Harmonised, Typed, Fields
  <2>10. Copies(c, b, F, S, worth)
    BY <2>5, <2>7, <2>9 DEF Copies
  <2>11. /\ Typed(c)
         /\ \A s : s \notin S => FindingsOf(c, s) = {f \in F : f.sid = s}
    BY <2>10, CopyIsTyped
  <2>12. Accounted(b) => Accounted(c)
    BY <2>9, <2>10, CopyIsAccounted
  <2>13. ASSUME NEW s, ~(Cardinality(FindingsOf(b, s)) > 1)
         PROVE  FindingsOf(c, s) = FindingsOf(b, s)
    <3>1. s \notin S
      BY <2>2, <2>3, <2>13
    <3> QED
      BY <2>8, <2>11, <3>1 DEF FindingsOf
  <2> QED
    BY <1>2, <2>9, <2>11, <2>12, <2>13
<1> QED
  BY <1>1, <1>2

\* A projection is of books again, accounted for if the books were; its
\* exceptions are those not resolved; and what was found for a settlement that
\* the scenario did not act on is as it was.
LEMMA ProjectionIs ==
  ASSUME NEW b, Typed(b), NEW ids, NEW refs, NEW kinds,
         NEW P, P = AfterClearing(AfterResolving(b, ids), refs, kinds)
  PROVE  /\ Accounted(b) => Accounted(P)
         /\ Typed(P)
         /\ P.period = b.period /\ P.net = b.net /\ P.late = b.late
         /\ P.exceptions = Left(b, ids)
         /\ P.blocked = {s \in b.blocked : Settlement(s) \notin refs /\ "POLICY_BLOCKED" \notin kinds}
         /\ \A s : /\ s \notin Freed(b, ids)
                   /\ FindingsOf(b, s) = {}
                        => Settlement(s) \notin refs /\ "MISSING_SETTLEMENT" \notin kinds
                   /\ "CONTRADICTORY_EVIDENCE" \notin kinds \/ ~(Cardinality(FindingsOf(b, s)) > 1)
                   => FindingsOf(P, s) = FindingsOf(b, s)
<1>1. PICK b1 : b1 = AfterResolving(b, ids)
  OBVIOUS
<1>2. PICK b2 : b2 = Unblocked(b1, refs, kinds)
  OBVIOUS
<1>3. PICK b3 : b3 = Supplied(b2, refs, kinds)
  OBVIOUS
<1>4. P = Harmonised(b3, kinds)
  BY <1>1, <1>2, <1>3 DEF AfterClearing
<1>5. /\ Typed(b1)
      /\ b1.period = b.period /\ b1.net = b.net /\ b1.late = b.late /\ b1.blocked = b.blocked
      /\ b1.exceptions = Left(b, ids)
      /\ Accounted(b) => Accounted(b1)
      /\ \A s : s \notin Freed(b, ids) => FindingsOf(b1, s) = FindingsOf(b, s)
  BY <1>1, AfterResolvingIs
<1>6. /\ Typed(b2)
      /\ b2.period = b1.period /\ b2.net = b1.net /\ b2.late = b1.late
      /\ b2.exceptions = b1.exceptions
      /\ b2.blocked = {s \in b1.blocked : Settlement(s) \notin refs /\ "POLICY_BLOCKED" \notin kinds}
      /\ Accounted(b1) => Accounted(b2)
      /\ \A s : FindingsOf(b2, s) = FindingsOf(b1, s)
  BY <1>2, <1>5, UnblockedIs
<1>7. /\ Typed(b3)
      /\ b3.period = b2.period /\ b3.net = b2.net /\ b3.late = b2.late
      /\ b3.exceptions = b2.exceptions /\ b3.blocked = b2.blocked
      /\ Accounted(b2) => Accounted(b3)
      /\ \A s : s \notin Absent(b2, refs, kinds) => FindingsOf(b3, s) = FindingsOf(b2, s)
  BY <1>3, <1>6, SuppliedIs
<1>8. /\ Typed(P)
      /\ P.period = b3.period /\ P.net = b3.net /\ P.late = b3.late
      /\ P.exceptions = b3.exceptions /\ P.blocked = b3.blocked
      /\ Accounted(b3) => Accounted(P)
      /\ \A s : "CONTRADICTORY_EVIDENCE" \notin kinds \/ ~(Cardinality(FindingsOf(b3, s)) > 1)
           => FindingsOf(P, s) = FindingsOf(b3, s)
  BY <1>4, <1>7, HarmonisedIs
<1>9. ASSUME NEW s, s \notin Freed(b, ids),
             FindingsOf(b, s) = {}
               => Settlement(s) \notin refs /\ "MISSING_SETTLEMENT" \notin kinds,
             "CONTRADICTORY_EVIDENCE" \notin kinds \/ ~(Cardinality(FindingsOf(b, s)) > 1)
      PROVE  FindingsOf(P, s) = FindingsOf(b, s)
  <2>1. FindingsOf(b2, s) = FindingsOf(b, s)
    BY <1>5, <1>6, <1>9
  <2>2. s \notin Absent(b2, refs, kinds)
    BY <1>9, <2>1 DEF Absent
  <2>3. FindingsOf(b3, s) = FindingsOf(b, s)
    BY <1>7, <2>1, <2>2
  <2> QED
    BY <1>8, <1>9, <2>3
<1> QED
  BY <1>5, <1>6, <1>7, <1>8, <1>9

-----------------------------------------------------------------------------
(* What the verdicts say *)

\* A period closes only over settlements that are verified in full or that an
\* exception it carries names: one with neither findings nor exceptions is
\* missing, an unproven finding comes with an exception, and a proven one that
\* cannot be posted blocks.
LEMMA ClosesOverNamed ==
  ASSUME NEW b, Typed(b), Accounted(b), NEW v, v = DecidePeriod(b), v.decision # "BLOCKED"
  PROVE  Names(b, v)
<1>1. PICK c : c = Scoped(b)
  OBVIOUS
<1>2. PICK x : x = AssessExposure(c)
  OBVIOUS
<1>3. Typed(c) /\ Accounted(c) /\ c.period = b.period
  BY <1>1, ScopedIsTyped, ScopedFields
<1>4. /\ v.blockers = {} /\ \A k \in Blockers(c) : \E l \in v.blockers : l.kind = k.kind /\ l.ref = k.ref
      /\ v.decision = "READY_TO_CLOSE" => c.exceptions = {}
      /\ v.decision # "READY_TO_CLOSE" => v.carried = c.exceptions
  BY <1>1, <1>2, VerdictIs
<1>5. Unexamined(c) = {} /\ FailedInvariants(c) = {}
  <2>1. Blockers(c) = {}
    BY <1>4
  <2> QED
    BY <2>1 DEF Blockers, HardBlockers
<1>6. SUFFICES ASSUME NEW s \in c.period, VerifiedPart(c, s) < Value(c, s)
               PROVE  \E e \in v.carried : e.sid = s
  BY <1>1, <1>3 DEF Names
<1>7. ExceptionsOf(c, s) # {}
  <2>1. SUFFICES ASSUME ExceptionsOf(c, s) = {} PROVE FALSE
    OBVIOUS
  <2>2. FindingsOf(c, s) # {}
    BY <1>5, <2>1 DEF Unexamined
  <2>3. PICK f : f = FindingOf(c, s)
    OBVIOUS
  <2>4. f \in FindingsOf(c, s) /\ f \in c.findings /\ f.sid = s
    BY <1>3, <2>2, <2>3, FindingOfIs DEF FindingsOf
  <2>5. f.verdict = "PROVEN"
    BY <1>3, <2>1, <2>4 DEF Accounted
  <2>6. f.postable
    <3>1. FailedBy(f) = {}
      BY <1>5, <2>4 DEF FailedInvariants
    <3>2. f.verdict = "PROVEN" /\ ~f.postable
            => Blocker(<<5, f.at, 0>>, "FAILED_INVARIANT", Settlement(f.sid), 0) \in FailedBy(f)
      BY DEF FailedBy
    <3> QED
      BY <2>5, <3>1, <3>2
  <2>7. ExceptionOf(c, s).unexplained = 0
    BY <1>3, <2>1, ExceptionOfIs DEF NoException
  <2>8. Explained(f)
    BY <2>5, <2>6 DEF Explained
  <2>9. VerifiedPart(c, s) = Value(c, s)
    BY <1>3, <2>3, <2>7, <2>8, ItemIs
  <2>10. Value(c, s) \in Nat
    BY <1>3, ValueIsNat
  <2> QED
    BY <1>6, <2>9, <2>10
<1>8. PICK e \in c.exceptions : e.sid = s
  BY <1>7 DEF ExceptionsOf
<1> QED
  BY <1>4, <1>8

\* What a hard rule found, and a scenario did not act on, it finds again.
LEMMA UntouchedStays ==
  ASSUME Typed(book), NEW sc, NEW o, o = Outcome(book, sc),
         NEW k \in HardBlockers(Scoped(book)), ~Concerns(o, Mark(k))
  PROVE  \E l \in o.verdict.blockers : l.kind = k.kind /\ l.ref = k.ref
<1>1. PICK ids : ids = ToResolve(book, sc)
  OBVIOUS
<1>2. PICK P : P = AfterClearing(AfterResolving(book, ids), sc.refs, sc.kinds)
  OBVIOUS
<1>3. o.verdict = DecidePeriod(P) /\ o.resolved = ids /\ o.refs = sc.refs /\ o.kinds = sc.kinds
  BY <1>1, <1>2 DEF Outcome, Project
<1>4. PICK refs, kinds : refs = sc.refs /\ kinds = sc.kinds
  OBVIOUS
<1>5. /\ Typed(P)
      /\ P.period = book.period /\ P.net = book.net /\ P.late = book.late
      /\ P.exceptions = Left(book, ids)
      /\ P.blocked = {s \in book.blocked : Settlement(s) \notin refs /\ "POLICY_BLOCKED" \notin kinds}
      /\ \A s : /\ s \notin Freed(book, ids)
                /\ FindingsOf(book, s) = {}
                     => Settlement(s) \notin refs /\ "MISSING_SETTLEMENT" \notin kinds
                /\ "CONTRADICTORY_EVIDENCE" \notin kinds \/ ~(Cardinality(FindingsOf(book, s)) > 1)
                => FindingsOf(P, s) = FindingsOf(book, s)
  BY <1>2, <1>4, ProjectionIs
<1>6. PICK b : b = Scoped(book)
  OBVIOUS
<1>7. PICK c : c = Scoped(P)
  OBVIOUS
<1>8. /\ Typed(b)
      /\ b.period = book.period /\ b.net = book.net /\ b.late = book.late /\ b.blocked = book.blocked
      /\ b.findings = {f \in book.findings : f.sid \in book.period}
      /\ b.exceptions = {e \in book.exceptions : e.sid \in book.period}
      /\ \A s \in book.period : /\ FindingsOf(b, s) = FindingsOf(book, s)
                                /\ ExceptionsOf(b, s) = ExceptionsOf(book, s)
  BY <1>6, ScopedFields, ScopedIsTyped
<1>9. /\ Typed(c)
      /\ c.period = P.period /\ c.net = P.net /\ c.late = P.late /\ c.blocked = P.blocked
      /\ c.findings = {f \in P.findings : f.sid \in P.period}
      /\ c.exceptions = {e \in P.exceptions : e.sid \in P.period}
      /\ \A s \in P.period : /\ FindingsOf(c, s) = FindingsOf(P, s)
                             /\ ExceptionsOf(c, s) = ExceptionsOf(P, s)
  BY <1>5, <1>7, ScopedFields, ScopedIsTyped
<1>10. c.period = b.period /\ c.net = b.net /\ c.late = b.late
  BY <1>5, <1>8, <1>9
<1>11. c.exceptions = {e \in b.exceptions : e.id \notin ids}
  BY <1>5, <1>8, <1>9 DEF Left
<1>12. ASSUME NEW s \in b.period, s \notin Touched(o)
       PROVE  /\ FindingsOf(b, s) # {} \/ "MISSING_SETTLEMENT" \notin kinds
                   => FindingsOf(c, s) = FindingsOf(b, s)
              /\ ExceptionsOf(c, s) = ExceptionsOf(b, s)
              /\ Settlement(s) \notin refs
  <2>1. /\ \A e \in book.exceptions : e.sid = s => e.id \notin ids
        /\ Settlement(s) \notin refs
        /\ "CONTRADICTORY_EVIDENCE" \notin kinds \/ ~(Cardinality(FindingsOf(book, s)) > 1)
    BY <1>3, <1>4, <1>8, <1>12 DEF Touched
  <2>2. s \notin Freed(book, ids)
    BY <2>1 DEF Freed, Left
  <2>3. FindingsOf(book, s) # {} \/ "MISSING_SETTLEMENT" \notin kinds
          => FindingsOf(P, s) = FindingsOf(book, s)
    BY <1>5, <2>1, <2>2
  <2>4. ExceptionsOf(P, s) = ExceptionsOf(book, s)
    BY <1>5, <2>1 DEF ExceptionsOf, Left
  <2> QED
    BY <1>5, <1>8, <1>9, <2>1, <2>3, <2>4
<1>13. ASSUME NEW f \in b.findings, f.sid \notin Touched(o)
       PROVE  f \in c.findings
  <2>1. f.sid \in b.period /\ f \in FindingsOf(b, f.sid)
    BY <1>8 DEF FindingsOf
  <2>2. f \in FindingsOf(c, f.sid)
    BY <1>12, <1>13, <2>1
  <2> QED
    BY <2>2 DEF FindingsOf
<1>14. /\ k.kind \notin kinds
       /\ \A s : k.ref = Settlement(s) => s \notin Touched(o)
       /\ \A e : k.ref = Exception(e) => e.id \notin ids
       /\ \A s, p : k.ref = SharedOrder(s, p) => Citing(b, p) \cap Touched(o) = {}
  <2>1. PICK m : m = Mark(k)
    OBVIOUS
  <2>2. m.kind = k.kind /\ m.ref = k.ref /\ ~Concerns(o, m)
    BY <2>1 DEF Mark
  <2> QED
    BY <1>3, <1>4, <1>6, <2>2 DEF Concerns, OrderSharers, Settlement, Exception, SharedOrder
<1>15. SUFFICES \E l \in HardBlockers(c) : l.kind = k.kind /\ l.ref = k.ref
  <2>1. \A l \in Blockers(c) : \E m \in o.verdict.blockers : m.kind = l.kind /\ m.ref = l.ref
    BY <1>3, <1>5, <1>7, VerdictIs
  <2>2. HardBlockers(c) \subseteq Blockers(c)
    BY DEF Blockers
  <2> QED
    BY <2>1, <2>2
<1>21. CASE k \in Untimely(b)
  <2>1. Untimely(c) = Untimely(b)
    BY <1>10 DEF Untimely
  <2> QED
    BY <1>21, <2>1 DEF HardBlockers
<1>22. CASE k \in Disagreements(b)
  <2>1. PICK s \in b.period : /\ Conflicting(b, s) /\ k.kind = "CONTRADICTORY_EVIDENCE"
                              /\ k.ref = Settlement(s)
    BY <1>22 DEF Disagreements, Blocker
  <2>2. FindingsOf(b, s) # {}
    <3>1. SUFFICES ASSUME FindingsOf(b, s) = {} PROVE FALSE
      OBVIOUS
    <3>2. {f.verdict : f \in FindingsOf(b, s)} = {}
      BY <3>1
    <3> QED
      BY <2>1, <3>1, <3>2, FS_EmptySet DEF Conflicting
  <2>3. FindingsOf(c, s) = FindingsOf(b, s)
    BY <1>12, <1>14, <2>1, <2>2
  <2>4. Conflicting(c, s)
    BY <2>1, <2>3 DEF Conflicting
  <2>5. Blocker(<<2, First(FindingsOf(c, s)).at, 0>>, "CONTRADICTORY_EVIDENCE", Settlement(s), 0)
          \in Disagreements(c)
    BY <1>10, <2>1, <2>4 DEF Disagreements
  <2> QED
    BY <2>1, <2>5 DEF Blocker, HardBlockers
<1>23. CASE k \in Contradictions(b)
  <2>1. PICK f \in b.findings : k \in Contradicted(b, f)
    BY <1>23 DEF Contradictions
  <2>2. PICK e \in ExceptionsOf(b, f.sid) :
          /\ f.verdict = "CONTRADICTED" /\ Wholly(e)
          /\ k.kind = "CONTRADICTORY_EVIDENCE" /\ k.ref = Exception(e)
    BY <2>1 DEF Contradicted, Blocker
  <2>3. e \in b.exceptions /\ e.sid = f.sid /\ e.id \notin ids
    BY <1>14, <2>2 DEF ExceptionsOf
  <2>4. e \in ExceptionsOf(c, f.sid) /\ e \in Left(book, ids)
    BY <1>5, <1>9, <1>11, <2>3 DEF ExceptionsOf
  <2>5. f.sid \notin Freed(book, ids)
    BY <2>3, <2>4 DEF Freed
  <2>6. f \in FindingsOf(book, f.sid) /\ f.sid \in book.period
    BY <1>8 DEF FindingsOf
  <2>7. FindingsOf(P, f.sid) = FindingsOf(book, f.sid)
    BY <1>5, <1>14, <2>2, <2>5, <2>6
  <2>8. f \in c.findings
    BY <1>5, <1>9, <2>6, <2>7 DEF FindingsOf
  <2>9. Blocker(<<3, f.at, e.at>>, "CONTRADICTORY_EVIDENCE", Exception(e), e.unexplained)
          \in Contradicted(c, f)
    BY <2>2, <2>4 DEF Contradicted
  <2> QED
    BY <2>2, <2>8, <2>9 DEF Blocker, Contradictions, HardBlockers
<1>24. CASE k \in DuplicateImpact(b)
  <2>1. PICK p \in UNION Assignments(ProvenOf(b)) : \E s \in Citing(b, p) :
          /\ Cardinality(Citing(b, p)) > 1
          /\ k.kind = "DUPLICATE_LEDGER_IMPACT" /\ k.ref = SharedOrder(s, p)
    BY <1>24 DEF DuplicateImpact, Blocker
  <2>2. PICK s \in Citing(b, p) : /\ Cardinality(Citing(b, p)) > 1
                                  /\ k.kind = "DUPLICATE_LEDGER_IMPACT" /\ k.ref = SharedOrder(s, p)
    BY <2>1
  <2>3. Citing(b, p) \cap Touched(o) = {}
    BY <1>14, <2>2
  <2>4. \A f \in b.findings : f.sid \in Citing(b, p) => f \in c.findings
    BY <1>13, <2>3
  <2>5. Citing(b, p) \in SUBSET Citing(c, p)
    BY <2>4 DEF Citing, ProvenOf
  <2>6. Cardinality(Citing(c, p)) > 1
    <3>1. IsFiniteSet(Citing(c, p))
      BY <1>9, CitedIsFinite
    <3>2. /\ Cardinality(Citing(b, p)) <= Cardinality(Citing(c, p))
          /\ IsFiniteSet(Citing(b, p))
      BY <2>5, <3>1, FS_Subset
    <3>3. Cardinality(Citing(b, p)) \in Nat /\ Cardinality(Citing(c, p)) \in Nat
      BY <3>1, <3>2, FS_CardinalityType
    <3> QED
      BY <2>2, <3>2, <3>3
  <2>7. p \in UNION Assignments(ProvenOf(c))
    <3>1. s \in Citing(c, p)
      BY <2>2, <2>5
    <3> QED
      BY ONLY <3>1 DEF Citing, Assignments
  <2>8. Blocker(<<4, p, s>>, "DUPLICATE_LEDGER_IMPACT", SharedOrder(s, p), 0) \in DuplicateImpact(c)
    BY <2>2, <2>5, <2>6, <2>7 DEF DuplicateImpact
  <2> QED
    BY <2>2, <2>8 DEF Blocker, HardBlockers
<1>25. CASE k \in FailedInvariants(b)
  <2>1. PICK f \in b.findings : k \in FailedBy(f)
    BY <1>25 DEF FailedInvariants
  <2>2. k.ref = Settlement(f.sid)
    BY <2>1 DEF FailedBy, Blocker
  <2>3. f \in c.findings
    BY <1>13, <1>14, <2>2
  <2> QED
    BY <2>1, <2>3 DEF FailedInvariants, HardBlockers
<1>26. CASE k \in Compromised(b)
  <2>1. PICK f \in b.findings : /\ f.lossy
                                /\ k = Blocker(<<6, f.at, 0>>, "COMPROMISED_INTEGRITY", Settlement(f.sid), 0)
    BY <1>26 DEF Compromised
  <2>2. k.ref = Settlement(f.sid)
    BY <2>1 DEF Blocker
  <2>3. f \in c.findings
    BY <1>13, <1>14, <2>2
  <2>4. k \in Compromised(c)
    BY <2>1, <2>3 DEF Compromised
  <2> QED
    BY <2>4 DEF HardBlockers
<1>27. CASE k \in Prohibited(b)
  <2>1. PICK s \in b.period : /\ s \in b.blocked
                              /\ k = Blocker(<<7, s, 0>>, "POLICY_BLOCKED", Settlement(s), 0)
    BY <1>27 DEF Prohibited
  <2>2. k.ref = Settlement(s) /\ k.kind = "POLICY_BLOCKED"
    BY <2>1 DEF Blocker
  <2>3. s \in c.blocked
    BY <1>5, <1>8, <1>9, <1>12, <1>14, <2>1, <2>2
  <2>4. k \in Prohibited(c)
    BY <1>10, <2>1, <2>3 DEF Prohibited
  <2> QED
    BY <2>4 DEF HardBlockers
<1>28. CASE k \in Serious(b)
  <2>1. PICK e \in b.exceptions :
          /\ e.severity = "HIGH"
          /\ k = Blocker(<<8, e.at, 0>>, "HIGH_SEVERITY_EXCEPTION", Exception(e), Magnitude(e.unexplained))
    BY <1>28 DEF Serious
  <2>2. k.ref = Exception(e)
    BY <2>1 DEF Blocker
  <2>3. e \in c.exceptions
    BY <1>11, <1>14, <2>2
  <2>4. k \in Serious(c)
    BY <2>1, <2>3 DEF Serious
  <2> QED
    BY <2>4 DEF HardBlockers
<1>29. CASE k \in Unexamined(b)
  <2>1. PICK s \in b.period : /\ FindingsOf(b, s) = {} /\ ExceptionsOf(b, s) = {}
                              /\ k = Blocker(<<9, s, 0>>, "MISSING_SETTLEMENT", Settlement(s), 0)
    BY <1>29 DEF Unexamined
  <2>2. k.ref = Settlement(s) /\ k.kind = "MISSING_SETTLEMENT"
    BY <2>1 DEF Blocker
  <2>3. FindingsOf(c, s) = {} /\ ExceptionsOf(c, s) = {}
    BY <1>12, <1>14, <2>1, <2>2
  <2>4. k \in Unexamined(c)
    BY <1>10, <2>1, <2>3 DEF Unexamined
  <2> QED
    BY <2>4 DEF HardBlockers
<1> QED
  BY <1>6, <1>21, <1>22, <1>23, <1>24, <1>25, <1>26, <1>27, <1>28, <1>29 DEF HardBlockers

\* Scoping the books leaves a settlement of the period worth what it was.
LEMMA ScopedValue ==
  ASSUME NEW b, Typed(b), NEW s \in b.period
  PROVE  Value(Scoped(b), s) = Value(b, s)
<1>1. PICK c : c = Scoped(b)
  OBVIOUS
<1>2. /\ FindingsOf(c, s) = FindingsOf(b, s) /\ ExceptionsOf(c, s) = ExceptionsOf(b, s)
      /\ c.net = b.net
  BY <1>1, ScopedIsTyped, ScopedFields
<1>3. FindingOf(c, s) = FindingOf(b, s) /\ ExceptionOf(c, s) = ExceptionOf(b, s)
  BY <1>2 DEF FindingOf, ExceptionOf
<1> QED
  BY <1>1, <1>2, <1>3 DEF Value

\* An exception that leaves more open than is allowable of the whole blocks the
\* period by itself: it is of high severity, or its settlement contributes to
\* an exposure that is material.
LEMMA MaterialExceptionBlocks ==
  ASSUME NEW books, WellFormed(books), NEW b, b = Scoped(books), NEW x, x = AssessExposure(b),
         NEW v, v = DecidePeriod(books),
         NEW d \in b.exceptions, Magnitude(d.unexplained) > Allowable(x.total)
  PROVE  \E k \in v.blockers : k.ref = Exception(d)
<1>1. Typed(books) /\ Typed(b)
  BY ScopedIsTyped DEF WellFormed
<1>2. \A k \in Blockers(b) : \E l \in v.blockers : l.kind = k.kind /\ l.ref = k.ref
  BY <1>1, VerdictIs
<1>3. SUFFICES \E k \in Blockers(b) : k.ref = Exception(d)
  BY <1>2
<1>4. d \in books.exceptions /\ d.sid \in books.period /\ b.period = books.period
  BY <1>1, ScopedFields
<1>5. CASE d.severity = "HIGH"
  <2>1. PICK k : k = Blocker(<<8, d.at, 0>>, "HIGH_SEVERITY_EXCEPTION", Exception(d),
                             Magnitude(d.unexplained))
    OBVIOUS
  <2>2. k \in Serious(b)
    BY <1>5, <2>1 DEF Serious
  <2>3. k.ref = Exception(d)
    BY <2>1 DEF Blocker
  <2> QED
    BY <2>2, <2>3 DEF Blockers, HardBlockers
<1>6. CASE d.severity # "HIGH"
  <2>1. PICK s : s = d.sid
    OBVIOUS
  <2>2. PICK m : m = Magnitude(d.unexplained)
    OBVIOUS
  <2>3. PICK a \in Nat : a = Allowable(x.total)
    BY <1>1, ExposureIs, AllowableIs
  <2>4. m \in Nat
    BY <1>4, <2>2 DEF Typed, ExceptionType, Magnitude, WellFormed
  <2>5. Value(b, s) = Value(books, s) /\ Value(b, s) \in Nat
    BY <1>1, <1>4, <2>1, ScopedValue, ValueIsNat
  <2>6. m <= Value(b, s)
    <3>1. ~(m > Value(books, s))
      BY <1>4, <1>6, <2>1, <2>2 DEF WellFormed
    <3> QED
      BY <2>4, <2>5, <3>1
  <2>7. d \in ExceptionsOf(b, s)
    BY <2>1 DEF ExceptionsOf
  <2>8. Value(b, s) - VerifiedPart(b, s) >= m /\ VerifiedPart(b, s) \in Int
    BY <1>1, <2>2, <2>6, <2>7, ItemIs
  <2>9. x.net >= Value(b, s) - VerifiedPart(b, s) /\ x.net \in Int
    BY <1>1, <1>4, <2>1, ExposureIs
  <2>10. x.net > a /\ m > 0
    BY <2>2, <2>3, <2>4, <2>5, <2>8, <2>9
  <2>11. ItemOf(b, s).kind # "VERIFIED"
    <3>1. VerifiedPart(b, s) # Value(b, s)
      BY <2>5, <2>8, <2>10, <2>4
    <3> QED
      BY <1>1, <3>1, ItemIs
  <2>12. s \in x.items
    BY <1>1, <1>4, <2>1, <2>11, ExposureIs
  <2>13. PICK k : k = Blocker(<<12, Rank(x, s), d.at>>, "UNRESOLVED_MATERIAL_AMOUNT", Exception(d),
                              Magnitude(d.unexplained))
    OBVIOUS
  <2>14. k \in Contributors(b, x, s)
    BY <2>7, <2>13 DEF Contributors
  <2>15. k \in MaterialBlockers(b, x)
    BY <2>3, <2>10, <2>12, <2>14 DEF MaterialBlockers
  <2>16. k.ref = Exception(d)
    BY <2>13 DEF Blocker
  <2> QED
    BY <2>15, <2>16 DEF Blockers
<1> QED
  BY <1>5, <1>6

\* An exposure that is material is of some settlement, which the verdict names
\* or whose exceptions it names.
LEMMA MaterialPeriodShows ==
  ASSUME NEW b, Typed(b), NEW x, x = AssessExposure(b), x.net > Allowable(x.total)
  PROVE  /\ \E k \in Blockers(b) : k.ref = Period
         /\ \E k \in Blockers(b) : \/ \E s : k.ref = Settlement(s)
                                   \/ \E e \in b.exceptions : k.ref = Exception(e)
<1>1. x.net \in Int /\ x.total \in Int /\ Allowable(x.total) \in Nat
  BY ExposureIs, AllowableIs
<1>2. x.items # {}
  BY <1>1, ExposureIs
<1>3. PICK s \in x.items : TRUE
  BY <1>2
<1>4. Contributors(b, x, s) \subseteq MaterialBlockers(b, x)
  BY <1>3 DEF MaterialBlockers
<1>5. \E k \in Contributors(b, x, s) : \/ k.ref = Settlement(s)
                                       \/ \E e \in b.exceptions : k.ref = Exception(e)
  <2>1. CASE ExceptionsOf(b, s) = {}
    BY <2>1 DEF Contributors, Blocker
  <2>2. CASE ExceptionsOf(b, s) # {}
    <3>1. PICK e \in ExceptionsOf(b, s) : TRUE
      BY <2>2
    <3>2. PICK k : k = Blocker(<<12, Rank(x, s), e.at>>, "UNRESOLVED_MATERIAL_AMOUNT", Exception(e),
                               Magnitude(e.unexplained))
      OBVIOUS
    <3>3. k \in Contributors(b, x, s)
      BY <2>2, <3>2 DEF Contributors
    <3>4. k.ref = Exception(e) /\ e \in b.exceptions
      BY <3>2 DEF Blocker, ExceptionsOf
    <3> QED
      BY <3>3, <3>4
  <2> QED
    BY <2>1, <2>2
<1>6. PICK k : k = Blocker(<<11, 0, 0>>, "UNRESOLVED_MATERIAL_AMOUNT", Period, x.net)
  OBVIOUS
<1>7. k \in MaterialBlockers(b, x)
  BY <1>6 DEF MaterialBlockers
<1>8. k.ref = Period
  BY <1>6 DEF Blocker
<1> QED
  BY <1>4, <1>5, <1>7, <1>8 DEF Blockers

\* The reference to the period is the sign of an exposure that is material.
LEMMA PeriodRef ==
  ASSUME NEW b, NEW k \in Blockers(b), NEW x, x = AssessExposure(b), k.ref = Period
  PROVE  x.net > Allowable(x.total)
<1>1. /\ \A s : Settlement(s) # Period
      /\ \A e : Exception(e) # Period
      /\ \A s, o : SharedOrder(s, o) # Period
  BY DEF Settlement, Exception, SharedOrder, Period
<1>2. k \notin HardBlockers(b)
  BY <1>1, HardBlockerIs
<1>3. k \in MaterialBlockers(b, x)
  BY <1>2 DEF Blockers
<1> QED
  BY <1>1, <1>3, MaterialBlockerIs

LEMMA RefIsSomeRecord ==
  ASSUME NEW b, NEW k \in Blockers(b)
  PROVE  \/ \E s : k.ref = Settlement(s)
         \/ \E e \in b.exceptions : k.ref = Exception(e)
         \/ \E s, o : k.ref = SharedOrder(s, o)
         \/ k.ref = Period
BY HardBlockerIs, MaterialBlockerIs DEF Blockers

-----------------------------------------------------------------------------
(* The dashboard *)

LEMMA OutcomeIs ==
  ASSUME NEW b, Typed(b), NEW sc, NEW o, o = Outcome(b, sc)
  PROVE  o.verdict.net \in Int /\ o.verdict.material \in Int
<1>1. PICK P : P = Project(b, sc)
  OBVIOUS
<1>2. Typed(P)
  BY <1>1, ProjectionIs DEF Project
<1>3. o.verdict = DecidePeriod(P)
  BY <1>1 DEF Outcome
<1> QED
  BY <1>2, <1>3, VerdictIs

\* The suite has finitely many outcomes, each of which resolves finitely many
\* exceptions: so one of them is recommended.
LEMMA RecommendedIs ==
  ASSUME NEW b, Typed(b), NEW days, NEW suite, suite = Suite(b, days)
  PROVE  /\ \A o \in suite : \E sc : o = Outcome(b, sc)
         /\ \E sc : Recommended(b, suite) = Outcome(b, sc)
<1>1. PICK v : v = DecidePeriod(b)
  OBVIOUS
<1>2. PICK R : R = Proposals(b, v, days)
  OBVIOUS
<1>3. suite = {Outcome(b, sc) : sc \in R}
  BY <1>1, <1>2 DEF Suite
<1>4. IsFiniteSet(R) /\ R # {}
  <2>1. IsFiniteSet({CarryForward, WaitFor(days)})
    <3>1. PICK p : p = CarryForward
      OBVIOUS
    <3>2. PICK q : q = WaitFor(days)
      OBVIOUS
    <3>3. IsFiniteSet({p}) /\ IsFiniteSet({q})
      BY FS_Singleton
    <3>4. {CarryForward, WaitFor(days)} = {p} \cup {q}
      BY <3>1, <3>2
    <3> QED
      BY <3>3, <3>4, FS_Union
  <2>2. PICK A : A = IF Suspects(b, v) = {} THEN {} ELSE {Resolve(Suspects(b, v))}
    OBVIOUS
  <2>3. PICK C : C = IF v.blockers = {} THEN {} ELSE {Clear({Foremost(v.blockers).ref}, {})}
    OBVIOUS
  <2>4. IsFiniteSet(A) /\ IsFiniteSet(C)
    BY <2>2, <2>3, FS_Singleton, FS_EmptySet
  <2>5. PICK D : D = {CarryForward, WaitFor(days)}
    OBVIOUS
  <2>6. R = (D \cup A) \cup C
    BY <1>2, <2>2, <2>3, <2>5 DEF Proposals
  <2> QED
    BY <2>1, <2>4, <2>5, <2>6, FS_Union
<1>5. IsFiniteSet(suite) /\ suite # {}
  <2>1. PICK g : g = [sc \in R |-> Outcome(b, sc)]
    OBVIOUS
  <2>2. suite = {g[sc] : sc \in R}
    BY <1>3, <2>1
  <2> QED
    BY <1>4, <2>2, ImageIsFinite
<1>6. IsFiniteSet(Ids(b))
  <2>1. PICK g : g = [e \in b.exceptions |-> e.id]
    OBVIOUS
  <2>2. Ids(b) = {g[e] : e \in b.exceptions}
    BY <2>1 DEF Ids
  <2> QED
    BY <2>2, ImageIsFinite DEF Typed
<1>7. ASSUME NEW o \in suite
      PROVE  /\ Intrusion(o) \in Int /\ Listed(o) \in Int
             /\ Cardinality(o.resolved) \in Int
             /\ o.verdict.net \in Int /\ o.verdict.material \in Int
  <2>1. PICK sc \in R : o = Outcome(b, sc)
    BY <1>3
  <2>2. sc.resolved \subseteq Ids(b)
    <3>1. Suspects(b, v) \subseteq Ids(b)
      BY DEF Suspects, Ids
    <3> QED
      BY <1>2, <3>1 DEF Proposals, CarryForward, WaitFor, Resolve, Clear, Scenario
  <2>3. ToResolve(b, sc) \in SUBSET Ids(b)
    BY <2>2 DEF ToResolve, Awaited, Ids
  <2>4. o.resolved = ToResolve(b, sc)
    BY <2>1 DEF Outcome
  <2>5. IsFiniteSet(o.resolved)
    BY <1>6, <2>3, <2>4, FS_Subset
  <2>6. Cardinality(o.resolved) \in Nat
    BY <2>5, FS_CardinalityType
  <2>7. Intrusion(o) \in Int /\ Listed(o) \in Int
    BY DEF Intrusion, Listed
  <2> QED
    BY <2>1, <2>6, <2>7, OutcomeIs
<1>8. ASSUME NEW C \in SUBSET suite, C # {}
      PROVE  \E o \in C : \A p \in C : ~Before(p, o)
  <2>1. IsFiniteSet(C)
    BY <1>5, FS_Subset
  <2>2. PICK f \in [C -> Int] : \A o \in C : f[o] = Intrusion(o)
    <3>1. [o \in C |-> Intrusion(o)] \in [C -> Int]
      BY <1>7
    <3> QED
      BY <3>1
  <2>3. PICK g \in [C -> Int] : \A o \in C : g[o] = Cardinality(o.resolved)
    <3>1. [o \in C |-> Cardinality(o.resolved)] \in [C -> Int]
      BY <1>7
    <3> QED
      BY <3>1
  <2>4. PICK h \in [C -> Int] : \A o \in C : h[o] = o.verdict.net
    <3>1. [o \in C |-> o.verdict.net] \in [C -> Int]
      BY <1>7
    <3> QED
      BY <3>1
  <2>5. PICK o \in C : \A p \in C :
          \/ f[o] < f[p]
          \/ f[o] = f[p] /\ g[o] < g[p]
          \/ f[o] = f[p] /\ g[o] = g[p] /\ h[o] <= h[p]
    <3>1. /\ IsFiniteSet(C) /\ C # {}
          /\ f \in [C -> Int] /\ g \in [C -> Int] /\ h \in [C -> Int]
      BY <1>8, <2>1
    <3> QED
      BY ONLY <3>1, LeastByThree, SMTT(30)
  <2>6. ASSUME NEW p \in C PROVE ~Before(p, o)
    <3>1. /\ f[o] \in Int /\ f[p] \in Int /\ g[o] \in Int /\ g[p] \in Int
          /\ h[o] \in Int /\ h[p] \in Int
      OBVIOUS
    <3>2. \/ f[o] < f[p]
          \/ f[o] = f[p] /\ g[o] < g[p]
          \/ f[o] = f[p] /\ g[o] = g[p] /\ h[o] <= h[p]
      BY <2>5
    <3> QED
      BY <2>2, <2>3, <2>4, <3>1, <3>2 DEF Before
  <2> QED
    BY <2>6
<1>9. \E o \in suite : \A p \in suite : ~Nearer(p, o)
  <2>1. PICK f \in [suite -> Int] : \A o \in suite : f[o] = o.verdict.material
    <3>1. [o \in suite |-> o.verdict.material] \in [suite -> Int]
      BY <1>7
    <3> QED
      BY <3>1
  <2>2. PICK g \in [suite -> Int] : \A o \in suite : g[o] = o.verdict.net
    <3>1. [o \in suite |-> o.verdict.net] \in [suite -> Int]
      BY <1>7
    <3> QED
      BY <3>1
  <2>3. PICK h \in [suite -> Int] : \A o \in suite : h[o] = Listed(o)
    <3>1. [o \in suite |-> Listed(o)] \in [suite -> Int]
      BY <1>7
    <3> QED
      BY <3>1
  <2>4. PICK o \in suite : \A p \in suite :
          \/ f[o] < f[p]
          \/ f[o] = f[p] /\ g[o] < g[p]
          \/ f[o] = f[p] /\ g[o] = g[p] /\ h[o] <= h[p]
    <3>1. /\ IsFiniteSet(suite) /\ suite # {}
          /\ f \in [suite -> Int] /\ g \in [suite -> Int] /\ h \in [suite -> Int]
      BY <1>5
    <3> QED
      BY ONLY <3>1, LeastByThree, SMTT(30)
  <2>5. ASSUME NEW p \in suite PROVE ~Nearer(p, o)
    <3>1. /\ f[o] \in Int /\ f[p] \in Int /\ g[o] \in Int /\ g[p] \in Int
          /\ h[o] \in Int /\ h[p] \in Int
      OBVIOUS
    <3>2. \/ f[o] < f[p]
          \/ f[o] = f[p] /\ g[o] < g[p]
          \/ f[o] = f[p] /\ g[o] = g[p] /\ h[o] <= h[p]
      BY <2>4
    <3> QED
      BY <2>1, <2>2, <2>3, <3>1, <3>2 DEF Nearer
  <2> QED
    BY <2>5
<1>10. PICK C \in SUBSET suite : C = Closing(suite)
  BY DEF Closing
<1>11. \/ Recommended(b, suite) = Outcome(b, CloseNow)
       \/ Recommended(b, suite) \in suite
  <2>1. CASE Closeable(v)
    BY <1>1, <2>1 DEF Recommended
  <2>2. CASE ~Closeable(v) /\ C # {}
    <3>1. Recommended(b, suite) = CHOOSE o \in C : \A p \in C : ~Before(p, o)
      BY <1>1, <1>10, <2>2 DEF Recommended
    <3>2. Recommended(b, suite) \in C
      BY <1>8, <2>2, <3>1
    <3> QED
      BY <3>2
  <2>3. CASE ~Closeable(v) /\ C = {}
    <3>1. Recommended(b, suite) = CHOOSE o \in suite : \A p \in suite : ~Nearer(p, o)
      BY <1>1, <1>10, <2>3 DEF Recommended
    <3> QED
      BY <1>9, <3>1
  <2> QED
    BY <2>1, <2>2, <2>3
<1> QED
  BY <1>3, <1>11

\* The inductive invariant: the verdict is that of the books, and so is the
\* answer in hand, whatever was asked.
Answers ==
  \/ /\ answer.kind = "simulation"
     /\ \A o \in answer.outcomes : \E sc : o = Outcome(book, sc)
  \/ /\ answer.kind \in {"report", "evidence"}
     /\ \E suspicious \in BOOLEAN : answer.report = Investigate(book, answer.target, suspicious)
  \/ /\ answer.kind = "readiness" /\ answer.net = verdict.net
     /\ answer.canClose <=> verdict.decision = "READY_TO_CLOSE"
     /\ answer.threshold = Allowable(Filing)
     /\ answer.settlements = BlockedSettlements /\ answer.exceptions = BlockedExceptions
  \/ /\ answer.kind = "why-blocked"
     /\ answer.integrity <=> "COMPROMISED_INTEGRITY" \notin {k.kind : k \in verdict.blockers}
     /\ answer.arithmetic <=> "FAILED_INVARIANT" \notin {k.kind : k \in verdict.blockers}
  \/ /\ answer.kind = "materiality"
     /\ answer.exceeds <=> verdict.net > Allowable(Filing)
     /\ answer.material = {e.id : e \in {x \in book.exceptions : x.unexplained > Allowable(Filing)}}

DashInv ==
  /\ book \in Books
  /\ verdict = NoVerdict \/ verdict = DecidePeriod(book)
  /\ answer = NoAnswer \/ (verdict = DecidePeriod(book) /\ Answers)

LEMMA BooksAre == DashInv => WellFormed(book) /\ Typed(book) /\ Accounted(book)
BY BooksAssumption DEF DashInv, WellFormed

LEMMA DashInitInv == DashInit => DashInv
BY DEF DashInit, DashInv

LEMMA DashNextInv == DashInv /\ [DashNext]_dashVars => DashInv'
<1> SUFFICES ASSUME DashInv, [DashNext]_dashVars PROVE DashInv'
  OBVIOUS
<1>1. CASE UNCHANGED analysis
  BY <1>1 DEF DashInv, analysis, Answers, Filing, BlockedSettlements, BlockedExceptions
<1>2. CASE CreateState
  BY <1>2 DEF DashInv, CreateState, NoVerdict, NoAnswer, Answers, Filing, BlockedSettlements,
     BlockedExceptions
<1>3. CASE Answered
  BY <1>3 DEF DashInv, Answered
<1>4. ASSUME NEW content, Asked, Respond(content)
      PROVE  /\ book' = book /\ verdict' = verdict /\ answer' = content
             /\ book \in Books /\ verdict = DecidePeriod(book)
             /\ Filing' = Filing /\ BlockedSettlements' = BlockedSettlements
             /\ BlockedExceptions' = BlockedExceptions
  BY <1>4 DEF DashInv, Asked, Respond, Filing, BlockedSettlements, BlockedExceptions
<1>5. CASE Simulate
  <2>1. PICK sc : Respond([kind |-> "simulation", outcomes |-> {Outcome(book, sc)}])
    BY <1>5 DEF Simulate
  <2>2. /\ book' = book /\ verdict' = verdict /\ book \in Books /\ verdict = DecidePeriod(book)
        /\ answer' = [kind |-> "simulation", outcomes |-> {Outcome(book, sc)}]
    BY <1>4, <1>5, <2>1 DEF Simulate
  <2> QED
    BY <2>2 DEF DashInv, Answers
<1>6. CASE CompareScenarios
  <2>1. PICK days : LET suite == Suite(book, days)
                    IN  Respond([kind |-> "simulation",
                                 outcomes |-> {Recommended(book, suite)} \cup suite])
    BY <1>6 DEF CompareScenarios
  <2>2. PICK suite : suite = Suite(book, days)
    OBVIOUS
  <2>3. Respond([kind |-> "simulation", outcomes |-> {Recommended(book, suite)} \cup suite])
    BY <2>1, <2>2
  <2>4. /\ book' = book /\ verdict' = verdict /\ book \in Books /\ verdict = DecidePeriod(book)
        /\ answer' = [kind |-> "simulation", outcomes |-> {Recommended(book, suite)} \cup suite]
    BY <1>4, <1>6, <2>3 DEF CompareScenarios
  <2>5. /\ \A o \in suite : \E sc : o = Outcome(book, sc)
        /\ \E sc : Recommended(book, suite) = Outcome(book, sc)
    BY <2>2, BooksAre, RecommendedIs
  <2>6. /\ answer'.kind = "simulation" /\ answer'.outcomes = {Recommended(book, suite)} \cup suite
    BY <2>4
  <2>7. Answers'
    BY <2>4, <2>5, <2>6 DEF Answers
  <2> QED
    BY <2>4, <2>7 DEF DashInv
<1>7. CASE HandleInvestigate
  <2>0. PICK target : \E suspicious \in BOOLEAN :
          Respond([kind |-> "report", target |-> target,
                   report |-> Investigate(book, target, suspicious)])
    BY <1>7 DEF HandleInvestigate
  <2>1. PICK suspicious \in BOOLEAN :
          Respond([kind |-> "report", target |-> target,
                   report |-> Investigate(book, target, suspicious)])
    BY <2>0
  <2>2. /\ book' = book /\ verdict' = verdict /\ book \in Books /\ verdict = DecidePeriod(book)
        /\ answer' = [kind |-> "report", target |-> target,
                      report |-> Investigate(book, target, suspicious)]
    BY <1>4, <1>7, <2>1 DEF HandleInvestigate
  <2>3. /\ answer'.kind = "report" /\ answer'.target = target
        /\ answer'.report = Investigate(book', answer'.target, suspicious)
    BY <2>2
  <2> QED
    BY <2>2, <2>3 DEF DashInv, Answers
<1>8. CASE HandleEvidence
  <2>1. PICK target : Respond([kind |-> "evidence", target |-> target,
                               trace |-> TraceBackward(Graph, Bare(target)),
                               report |-> Investigate(book, target, FALSE)])
    BY <1>8 DEF HandleEvidence
  <2>2. PICK trace : trace = TraceBackward(Graph, Bare(target))
    OBVIOUS
  <2>3. /\ book' = book /\ verdict' = verdict /\ book \in Books /\ verdict = DecidePeriod(book)
        /\ answer' = [kind |-> "evidence", target |-> target, trace |-> trace,
                      report |-> Investigate(book, target, FALSE)]
    BY <1>4, <1>8, <2>1, <2>2 DEF HandleEvidence
  <2>4. /\ answer'.kind = "evidence" /\ answer'.target = target
        /\ answer'.report = Investigate(book', answer'.target, FALSE)
    BY <2>3
  <2> QED
    BY <2>3, <2>4 DEF DashInv, Answers
<1>9. CASE HandleReadiness
  <2>1. /\ book' = book /\ verdict' = verdict /\ book \in Books /\ verdict = DecidePeriod(book)
        /\ Filing' = Filing /\ BlockedSettlements' = BlockedSettlements
        /\ BlockedExceptions' = BlockedExceptions
        /\ answer' = [kind |-> "readiness", net |-> verdict.net,
              canClose |-> verdict.decision = "READY_TO_CLOSE",
              threshold |-> Allowable(Filing),
              settlements |-> BlockedSettlements, exceptions |-> BlockedExceptions]
    BY <1>4, <1>9 DEF HandleReadiness
  <2>2. /\ answer'.kind = "readiness" /\ answer'.net = verdict'.net
        /\ answer'.canClose <=> verdict'.decision = "READY_TO_CLOSE"
        /\ answer'.threshold = Allowable(Filing')
        /\ answer'.settlements = BlockedSettlements' /\ answer'.exceptions = BlockedExceptions'
    BY <2>1
  <2> QED
    BY <2>1, <2>2 DEF DashInv, Answers
<1>10. CASE HandleWhyBlocked
  <2>1. PICK kinds : kinds = {k.kind : k \in verdict.blockers}
    OBVIOUS
  <2>2. /\ book' = book /\ verdict' = verdict /\ book \in Books /\ verdict = DecidePeriod(book)
        /\ answer' = [kind |-> "why-blocked", blocked |-> verdict.decision = "BLOCKED",
                      integrity |-> "COMPROMISED_INTEGRITY" \notin kinds,
                      arithmetic |-> "FAILED_INVARIANT" \notin kinds]
    BY <1>4, <1>10, <2>1 DEF HandleWhyBlocked
  <2>3. /\ answer'.kind = "why-blocked" /\ verdict' = verdict
        /\ answer'.integrity <=> "COMPROMISED_INTEGRITY" \notin kinds
        /\ answer'.arithmetic <=> "FAILED_INVARIANT" \notin kinds
    BY <2>2
  <2> QED
    BY <2>1, <2>2, <2>3 DEF DashInv, Answers
<1>11. CASE HandleMateriality
  <2>1. PICK M : M = {e.id : e \in {x \in book.exceptions : x.unexplained > Allowable(Filing)}}
    OBVIOUS
  <2>2. /\ book' = book /\ verdict' = verdict /\ book \in Books /\ verdict = DecidePeriod(book)
        /\ Filing' = Filing
        /\ answer' = [kind |-> "materiality", exceeds |-> verdict.net > Allowable(Filing),
                      material |-> M]
    BY <1>4, <1>11, <2>1 DEF HandleMateriality
  <2>3. M' = M
    BY <2>1, <2>2
  <2>4. /\ answer'.kind = "materiality"
        /\ answer'.exceeds <=> verdict'.net > Allowable(Filing')
        /\ answer'.material
             = {e.id : e \in {x \in book'.exceptions : x.unexplained > Allowable(Filing')}}
    BY <2>1, <2>2
  <2> QED
    BY <2>2, <2>4 DEF DashInv, Answers
<1>12. CASE Review
  BY <1>1, <1>12 DEF Review
<1> QED
  BY <1>1, <1>2, <1>3, <1>5, <1>6, <1>7, <1>8, <1>9, <1>10, <1>11, <1>12
     DEF DashNext, dashVars

\* What the dashboard shows is what the books say, for any books and any
\* requests.
THEOREM DashboardInvariant == DashSpec => []DashInv
<1>1. DashInit => DashInv
  BY DashInitInv
<1>2. DashInv /\ [DashNext]_dashVars => DashInv'
  BY DashNextInv
<1> QED
  BY <1>1, <1>2, PTL DEF DashSpec

-----------------------------------------------------------------------------
(* What a controller is told *)

\* The answer in hand is to the books in hand.
LEMMA AnswerInHand ==
  ASSUME DashInv, answer.kind # "none"
  PROVE  verdict = DecidePeriod(book) /\ Answers
BY DEF DashInv, NoAnswer

LEMMA VerdictInHand ==
  ASSUME DashInv, Ready
  PROVE  verdict = DecidePeriod(book)
BY DEF DashInv, Ready

\* What a simulation shows of an outcome can be projected again from the
\* outcome itself.
LEMMA OutcomeInHand ==
  ASSUME DashInv, Simulated, NEW o \in answer.outcomes
  PROVE  /\ verdict = DecidePeriod(book)
         /\ \E sc : /\ o = Outcome(book, sc)
                    /\ LET again == Scenario("CUSTOM_COMPOSITE", o.resolved, o.refs, o.kinds, 0)
                       IN  Project(book, again) = Project(book, sc)
                    /\ o.verdict = DecidePeriod(Project(book, sc))
<1>1. answer.kind = "simulation"
  BY DEF Simulated
<1>2. verdict = DecidePeriod(book) /\ Answers
  BY <1>1, AnswerInHand
<1>3. PICK sc : o = Outcome(book, sc)
  BY <1>1, <1>2 DEF Answers
<1>4. PICK ids, refs, kinds : ids = ToResolve(book, sc) /\ refs = sc.refs /\ kinds = sc.kinds
  OBVIOUS
<1>5. /\ o.resolved = ids /\ o.refs = refs /\ o.kinds = kinds
      /\ o.verdict = DecidePeriod(Project(book, sc))
  BY <1>3, <1>4 DEF Outcome
<1>6. PICK again : again = Scenario("CUSTOM_COMPOSITE", ids, refs, kinds, 0)
  OBVIOUS
<1>7. ToResolve(book, again) = ids /\ again.refs = refs /\ again.kinds = kinds
  BY <1>6 DEF ToResolve, Scenario
<1>8. Project(book, again) = Project(book, sc)
  BY <1>4, <1>7 DEF Project
<1> QED
  BY <1>2, <1>3, <1>5, <1>6, <1>8

LEMMA NothingUnnamedHolds == DashInv => NothingUnverifiedIsUnnamed
<1> SUFFICES ASSUME DashInv PROVE NothingUnverifiedIsUnnamed
  OBVIOUS
<1>1. Typed(book) /\ Accounted(book)
  BY BooksAre
<1>2. (Idle /\ Closeable(verdict)) => Names(book, verdict)
  BY <1>1, VerdictInHand, ClosesOverNamed DEF Idle, Closeable
<1>3. ASSUME Simulated, NEW o \in answer.outcomes,
             NEW again, again = Scenario("CUSTOM_COMPOSITE", o.resolved, o.refs, o.kinds, 0),
             Closeable(o.verdict)
      PROVE  Names(Project(book, again), o.verdict)
  <2>1. PICK sc : /\ Project(book, again) = Project(book, sc)
                  /\ o.verdict = DecidePeriod(Project(book, sc))
    BY <1>3, OutcomeInHand
  <2>2. PICK P : P = Project(book, sc)
    OBVIOUS
  <2>3. Typed(P) /\ Accounted(P)
    BY <1>1, <2>2, ProjectionIs DEF Project
  <2>4. Names(P, o.verdict)
    BY <1>3, <2>1, <2>2, <2>3, ClosesOverNamed DEF Closeable
  <2> QED
    BY <2>1, <2>2, <2>4
<1> QED
  BY <1>2, <1>3 DEF NothingUnverifiedIsUnnamed

\* Nothing closes, nor is said to close in a simulation, over a settlement that
\* is not verified in full and that no exception carried names.
THEOREM CloseNamesWhatIsUnverified == DashSpec => []NothingUnverifiedIsUnnamed
BY DashboardInvariant, NothingUnnamedHolds, PTL

LEMMA UntouchedHolds == DashInv => UntouchedBlockersStay
<1> SUFFICES ASSUME DashInv, Simulated, NEW o \in answer.outcomes,
                    NEW mark \in Marks(verdict) \ MaterialityMarks, ~Concerns(o, mark)
             PROVE  mark \in Marks(o.verdict)
  BY DEF UntouchedBlockersStay
<1>1. Typed(book)
  BY BooksAre
<1>2. verdict = DecidePeriod(book) /\ \E sc : o = Outcome(book, sc)
  BY OutcomeInHand
<1>3. PICK sc : o = Outcome(book, sc)
  BY <1>2
<1>4. PICK k \in verdict.blockers : mark = Mark(k)
  BY DEF Marks, Mark
<1>5. mark.kind = k.kind /\ mark.kind \notin MaterialKinds
  BY <1>4 DEF MaterialityMarks, Mark
<1>6. PICK b : b = Scoped(book)
  OBVIOUS
<1>7. k \in Blockers(b)
  BY <1>1, <1>2, <1>6, VerdictIs
<1>8. k \in HardBlockers(Scoped(book))
  BY <1>5, <1>6, <1>7, MaterialBlockerIs DEF Blockers
<1>9. \E l \in o.verdict.blockers : l.kind = k.kind /\ l.ref = k.ref
  BY <1>1, <1>3, <1>4, <1>8, UntouchedStays
<1> QED
  BY <1>4, <1>9 DEF Marks, Mark

\* A hard blocker on a record no scenario acted on is there in its outcome.
THEOREM SimulationWaivesNothing == DashSpec => []UntouchedBlockersStay
BY DashboardInvariant, UntouchedHolds, PTL

-----------------------------------------------------------------------------
(* Resolving more *)

\* The books P are b with the exceptions ids resolved.
Resolved(P, b, ids) == P = AfterClearing(AfterResolving(b, ids), {}, {})

Stand(b, s) == Hypothetical(b, s, ResolvedWorth(b, s))

LEMMA StandIs ==
  ASSUME NEW b, NEW s
  PROVE  LET h == Stand(b, s)
         IN  /\ Explained(h) /\ h.verdict = "PROVEN" /\ h.postable /\ ~h.lossy /\ h.sid = s
             /\ h.proofs # <<>> /\ h.proofs[1].net = ResolvedWorth(b, s)
             /\ \A i \in DOMAIN h.proofs : /\ h.proofs[i].off = 0
                                           /\ h.proofs[i].orders = {SimulatedOrder(s)}
<1>1. PICK p : p = [orders |-> {SimulatedOrder(s)}, gross |-> ResolvedWorth(b, s),
                    net |-> ResolvedWorth(b, s), off |-> 0]
  OBVIOUS
<1>2. PICK h : h = Stand(b, s)
  OBVIOUS
<1>3. /\ h.verdict = "PROVEN" /\ h.postable = TRUE /\ h.lossy = FALSE /\ h.sid = s
      /\ h.proofs = <<p>>
  BY <1>1, <1>2 DEF Stand, Hypothetical
<1>4. /\ h.proofs # <<>> /\ h.proofs[1] = p /\ \A i \in DOMAIN h.proofs : h.proofs[i] = p
  BY <1>3
<1>5. p.off = 0 /\ p.orders = {SimulatedOrder(s)} /\ p.net = ResolvedWorth(b, s)
  BY <1>1
<1> QED
  BY <1>2, <1>3, <1>4, <1>5 DEF Explained

\* What resolving leaves: of a settlement without exceptions any more, and not
\* proven before, a proof of its own; of any other, what was found.
LEMMA ResolvedIs ==
  ASSUME NEW b, Typed(b), NEW ids, NEW P, Resolved(P, b, ids)
  PROVE  /\ Typed(P)
         /\ P.period = b.period /\ P.net = b.net /\ P.late = b.late /\ P.blocked = b.blocked
         /\ \A s : ExceptionsOf(P, s) = {e \in ExceptionsOf(b, s) : e.id \notin ids}
         /\ \A s \in Replaced(b, ids) : /\ FindingsOf(P, s) = {Stand(b, s)}
                                        /\ ExceptionsOf(P, s) = {}
         /\ \A s : s \notin Replaced(b, ids) => FindingsOf(P, s) = FindingsOf(b, s)
<1>1. PICK b1 : b1 = AfterResolving(b, ids)
  OBVIOUS
<1>2. PICK b2 : b2 = Unblocked(b1, {}, {})
  OBVIOUS
<1>3. PICK b3 : b3 = Supplied(b2, {}, {})
  OBVIOUS
<1>4. P = b3
  BY <1>1, <1>2, <1>3 DEF Resolved, AfterClearing, Harmonised
<1>5. PICK S : S = Replaced(b, ids)
  OBVIOUS
<1>6. PICK H : H = {Stand(b, s) : s \in S}
  OBVIOUS
<1>7. DOMAIN b1 = DOMAIN b /\ b1.findings = {f \in b.findings : f.sid \notin S} \cup H
  <2>1. Hypotheticals(b, S, [s \in S |-> ResolvedWorth(b, s)]) = H
    BY <1>6 DEF Hypotheticals, Stand
  <2> QED
    BY <1>1, <1>5, <2>1 DEF AfterResolving, Typed, Fields
<1>8. DOMAIN b2 = DOMAIN b /\ b2.findings = b1.findings
  BY <1>2, <1>7 DEF Unblocked, Typed, Fields
<1>9. b3.findings = b2.findings
  <2>1. Absent(b2, {}, {}) = {}
    BY DEF Absent
  <2>2. \A worth : Hypotheticals(b2, {}, worth) = {}
    BY DEF Hypotheticals
  <2> QED
    BY <1>3, <1>8, <2>1, <2>2 DEF Supplied, Typed, Fields
<1>10. P.findings = {f \in b.findings : f.sid \notin S} \cup H
  BY <1>4, <1>7, <1>8, <1>9
<1>11. /\ Typed(P)
       /\ P.period = b.period /\ P.net = b.net /\ P.late = b.late
       /\ P.exceptions = Left(b, ids)
       /\ P.blocked = {s \in b.blocked : Settlement(s) \notin {} /\ "POLICY_BLOCKED" \notin {}}
  <2>1. P = AfterClearing(AfterResolving(b, ids), {}, {})
    BY DEF Resolved
  <2> QED
    BY <2>1, ProjectionIs
<1>12. P.blocked = b.blocked
  BY <1>11
<1>13. \A s : ExceptionsOf(P, s) = {e \in ExceptionsOf(b, s) : e.id \notin ids}
  BY <1>11 DEF ExceptionsOf, Left
<1>14. \A s \in S : Stand(b, s).sid = s
  BY StandIs
<1>15. \A s \in S : FindingsOf(P, s) = {Stand(b, s)}
  BY <1>6, <1>10, <1>14 DEF FindingsOf
<1>16. \A s : s \notin S => FindingsOf(P, s) = FindingsOf(b, s)
  BY <1>6, <1>10, <1>14 DEF FindingsOf
<1>17. \A s \in S : ExceptionsOf(P, s) = {}
  BY <1>5, <1>11 DEF Replaced, Freed, ExceptionsOf
<1> QED
  BY <1>5, <1>11, <1>12, <1>13, <1>15, <1>16, <1>17

\* Where no exception is left of those there were, the settlement is proven.
LEMMA FreedIsExplained ==
  ASSUME NEW b, Typed(b), NEW ids, NEW P, Resolved(P, b, ids), NEW s,
         ExceptionsOf(P, s) = {}, ExceptionsOf(b, s) # {}
  PROVE  Explained(FindingOf(P, s)) /\ FindingOf(P, s) \in FindingsOf(P, s)
<1>1. s \in Freed(b, ids)
  <2>1. \A e \in b.exceptions : e.sid = s => e.id \in ids
    BY ResolvedIs DEF ExceptionsOf
  <2> QED
    BY <2>1 DEF Freed, Left, ExceptionsOf
<1>2. Typed(P)
  BY ResolvedIs
<1>3. CASE s \in Replaced(b, ids)
  <2>1. FindingsOf(P, s) = {Stand(b, s)}
    BY <1>3, ResolvedIs
  <2>2. FindingOf(P, s) \in FindingsOf(P, s)
    BY <1>2, <2>1, FindingOfIs
  <2> QED
    BY <2>1, <2>2, StandIs
<1>4. CASE s \notin Replaced(b, ids)
  <2>1. FindingsOf(P, s) # {} /\ \A f \in FindingsOf(P, s) : Explained(f)
    BY <1>1, <1>4, ResolvedIs DEF Replaced
  <2> QED
    BY <1>2, <2>1, FindingOfIs
<1> QED
  BY <1>3, <1>4

\* Resolving changes what is known of a settlement and not what it is worth.
LEMMA ResolvedValue ==
  ASSUME NEW b, Typed(b), Plain(b), NEW ids, NEW P, Resolved(P, b, ids), NEW s \in b.period
  PROVE  Value(P, s) = Value(b, s)
<1>1. Typed(P) /\ P.net = b.net
  BY ResolvedIs
<1>2. CASE s \in DOMAIN b.net
  BY <1>1, <1>2, ValueIsNat
<1>3. CASE s \notin DOMAIN b.net
  <2> DEFINE f == FindingOf(b, s)
             g == FindingOf(P, s)
  <2>1. /\ \A h, k \in FindingsOf(b, s) : h = k
        /\ \A d, e \in ExceptionsOf(b, s) : d = e
        /\ \A h \in FindingsOf(b, s) : Explained(h) => h.proofs # <<>>
    BY <1>3 DEF Plain
  <2>2. /\ f.proofs # <<>> => Value(b, s) = Magnitude(f.proofs[1].net)
        /\ f.proofs = <<>> => Value(b, s) = Magnitude(ExceptionOf(b, s).amount)
        /\ g.proofs # <<>> => Value(P, s) = Magnitude(g.proofs[1].net)
        /\ g.proofs = <<>> => Value(P, s) = Magnitude(ExceptionOf(P, s).amount)
    BY <1>1, <1>3 DEF Value
  <2>3. /\ FindingsOf(b, s) = {} => f = NoFinding /\ f.proofs = <<>>
        /\ FindingsOf(b, s) # {} => f = First(FindingsOf(b, s)) /\ f \in FindingsOf(b, s)
        /\ ExceptionsOf(b, s) # {} => ExceptionOf(b, s) = First(ExceptionsOf(b, s))
    BY <2>1, FindingOfIs, ExceptionOfIs, RecordsOfSettlement DEF NoFinding
  <2>4. CASE s \in Replaced(b, ids)
    <3>1. g = Stand(b, s)
      <4>1. FindingsOf(P, s) = {Stand(b, s)}
        BY <2>4, ResolvedIs
      <4> QED
        BY <1>1, <4>1, FindingOfIs
    <3>2. Value(P, s) = Magnitude(ResolvedWorth(b, s))
      BY <2>2, <3>1, StandIs
    <3>3. ExceptionsOf(b, s) # {} /\ ~Filed(b, s)
      BY <1>3, <2>4 DEF Replaced, Freed, ExceptionsOf, Filed
    <3>4. CASE f.proofs # <<>>
      <4>1. FindingsOf(b, s) # {} /\ First(FindingsOf(b, s)).proofs # <<>>
        BY <2>3, <3>4
      <4>2. ResolvedWorth(b, s) = f.proofs[1].net
        BY <2>3, <3>3, <4>1 DEF ResolvedWorth
      <4> QED
        BY <2>2, <3>2, <3>4, <4>2
    <3>5. CASE f.proofs = <<>>
      <4>1. ~(FindingsOf(b, s) # {} /\ First(FindingsOf(b, s)).proofs # <<>>)
        BY <2>3, <3>5
      <4>2. ResolvedWorth(b, s) = Magnitude(ExceptionOf(b, s).amount)
        BY <2>3, <3>3, <4>1 DEF ResolvedWorth
      <4>3. ExceptionOf(b, s).amount \in Int
        BY SpokenForTyped
      <4>4. Magnitude(Magnitude(ExceptionOf(b, s).amount)) = Magnitude(ExceptionOf(b, s).amount)
        BY <4>3 DEF Magnitude
      <4> QED
        BY <2>2, <3>2, <3>5, <4>2, <4>4
    <3> QED
      BY <3>4, <3>5
  <2>5. CASE s \notin Replaced(b, ids)
    <3>1. FindingsOf(P, s) = FindingsOf(b, s)
      BY <2>5, ResolvedIs
    <3>2. g = f
      BY <3>1 DEF FindingOf
    <3>3. CASE ExceptionsOf(P, s) = ExceptionsOf(b, s)
      <4>1. ExceptionOf(P, s) = ExceptionOf(b, s)
        BY <3>3 DEF ExceptionOf
      <4> QED
        BY <2>2, <3>2, <4>1
    <3>4. CASE ExceptionsOf(P, s) # ExceptionsOf(b, s)
      <4>1. ExceptionsOf(P, s) = {e \in ExceptionsOf(b, s) : e.id \notin ids}
        BY ResolvedIs
      <4>2. ExceptionsOf(P, s) = {} /\ ExceptionsOf(b, s) # {}
        BY <2>1, <3>4, <4>1
      <4>3. Explained(f) /\ f \in FindingsOf(b, s)
        BY <3>1, <3>2, <4>2, FreedIsExplained
      <4> QED
        BY <2>1, <2>2, <3>2, <4>3
    <3> QED
      BY <3>3, <3>4
  <2> QED
    BY <2>4, <2>5
<1> QED
  BY <1>2, <1>3

\* How much of a settlement is verified.
LEMMA VerifiedIs ==
  ASSUME NEW b, Typed(b), NEW s
  PROVE  LET f == FindingOf(b, s)
             n == ExceptionOf(b, s).unexplained
         IN  /\ ~(Explained(f) /\ n >= 0) => VerifiedPart(b, s) = 0
             /\ Explained(f) /\ n = 0 => VerifiedPart(b, s) = Value(b, s)
             /\ Explained(f) /\ n > 0
                  => VerifiedPart(b, s) = Value(b, s) - Lesser(Value(b, s), n)
<1>1. PICK f : f = FindingOf(b, s)
  OBVIOUS
<1>2. PICK e : e = ExceptionOf(b, s)
  OBVIOUS
<1>3. PICK v \in Nat : v = Value(b, s)
  BY ValueIsNat
<1>4. e.unexplained \in Int
  BY <1>2, SpokenForTyped
<1>5. PICK item : item = Classified(f, e, v)
  OBVIOUS
<1>6. VerifiedPart(b, s) = Vouched(f, e, item, v)
  BY <1>1, <1>2, <1>3, <1>5 DEF ItemOf, VerifiedPart
<1>7. Explained(f) /\ e.unexplained = 0 => item.exposure = 0
  BY <1>5 DEF Classified, Item, Explained
<1>8. Explained(f) /\ e.unexplained > 0 => item.exposure = Lesser(v, e.unexplained)
  BY <1>5, <1>4 DEF Classified, Item, Explained
<1> QED
  BY <1>1, <1>2, <1>3, <1>4, <1>6, <1>7, <1>8 DEF Vouched

\* An assessment says that a settlement is ambiguous when its finding is.
LEMMA AmbiguousIs ==
  ASSUME NEW b, Typed(b), NEW s
  PROVE  ItemOf(b, s).kind = "AMBIGUOUS"
           <=> LET f == FindingOf(b, s)
               IN  f.verdict = "AMBIGUOUS" \/ (f.verdict = "PROVEN" /\ ~f.postable)
<1>1. PICK f : f = FindingOf(b, s)
  OBVIOUS
<1>2. PICK e : e = ExceptionOf(b, s)
  OBVIOUS
<1>3. e.unexplained \in Int
  BY <1>2, SpokenForTyped
<1>4. PICK v : v = Value(b, s)
  OBVIOUS
<1>5. Classified(f, e, v).kind = "AMBIGUOUS"
        <=> (f.verdict = "AMBIGUOUS" \/ (f.verdict = "PROVEN" /\ ~f.postable))
  BY <1>3 DEF Classified, Item, Lost, Unfound, Explained
<1> QED
  BY <1>1, <1>2, <1>4, <1>5 DEF ItemOf

\* Where every settlement is worth the same and at least as much of it is
\* verified, no more is exposed.
LEMMA ExposureFalls ==
  ASSUME NEW a, Typed(a), NEW c, Typed(c), c.period = a.period,
         \A s \in a.period : /\ Value(c, s) = Value(a, s)
                             /\ VerifiedPart(a, s) <= VerifiedPart(c, s)
  PROVE  /\ AssessExposure(c).total = AssessExposure(a).total
         /\ AssessExposure(c).net <= AssessExposure(a).net
<1>1. PICK D : D = a.period
  OBVIOUS
<1>2. IsFiniteSet(D)
  BY <1>1 DEF Typed
<1>3. PICK n \in [D -> Int] : n = [s \in D |-> Value(a, s)]
  <2>1. \A s \in D : Value(a, s) \in Int
    BY ValueIsNat
  <2> QED
    BY <2>1
<1>4. PICK m \in [D -> Int] : m = [s \in D |-> VerifiedPart(a, s)]
  BY ItemIs
<1>5. PICK k \in [D -> Int] : k = [s \in D |-> VerifiedPart(c, s)]
  BY ItemIs
<1>6. n = [s \in D |-> Value(c, s)]
  BY <1>1, <1>3
<1>7. \A s \in D : m[s] <= k[s]
  BY <1>1, <1>4, <1>5
<1>8. /\ Total(n, D) \in Int /\ Total(m, D) \in Int /\ Total(k, D) \in Int
      /\ Total(m, D) <= Total(k, D)
  BY <1>2, <1>7, TotalGap, TotalGrows
<1>9. /\ AssessExposure(a).total = Total(n, D)
      /\ AssessExposure(a).net = Total(n, D) - Total(m, D)
  BY <1>1, <1>3, <1>4 DEF AssessExposure, Exposed
<1>10. /\ AssessExposure(c).total = Total(n, D)
       /\ AssessExposure(c).net = Total(n, D) - Total(k, D)
  BY <1>1, <1>5, <1>6 DEF AssessExposure, Exposed
<1> QED
  BY <1>8, <1>9, <1>10

\* A settlement taken to be proven, by a proof of an order that is its own.
Stands(c, s) ==
  /\ ExceptionsOf(c, s) = {}
  /\ \E h : /\ FindingsOf(c, s) = {h} /\ Explained(h) /\ ~h.lossy
            /\ \A i \in DOMAIN h.proofs : /\ h.proofs[i].off = 0
                                          /\ h.proofs[i].orders = {SimulatedOrder(s)}

\* Nothing about the settlement is new in c, and it keeps an exception unless
\* it is proven.
Keeps(c, a, s) ==
  /\ FindingsOf(c, s) = FindingsOf(a, s)
  /\ ExceptionsOf(c, s) = {} /\ ExceptionsOf(a, s) # {} => Explained(FindingOf(c, s))
  /\ \A d, e \in ExceptionsOf(a, s) :
       d.unexplained < 0 /\ e.unexplained > 0 => ~Explained(FindingOf(a, s))
  /\ \A A \in Assignments(FindingsOf(c, s)) : A \subseteq Nat \ {0}

\* The books c are the books a with more resolved.
Ahead(c, a) ==
  /\ Typed(c) /\ Typed(a)
  /\ c.period = a.period /\ c.net = a.net /\ c.late = a.late /\ c.blocked = a.blocked
  /\ \A r \in c.findings \cup c.exceptions : r.sid \in a.period
  /\ \A s \in a.period : /\ Value(c, s) = Value(a, s)
                         /\ ExceptionsOf(c, s) \subseteq ExceptionsOf(a, s)
                         /\ Stands(c, s) \/ Keeps(c, a, s)

LEMMA MoreResolvedIsAhead ==
  ASSUME NEW b, Typed(b), Plain(b), NEW more, NEW fewer, fewer \subseteq more,
         NEW P, Resolved(P, b, more), NEW Q, Resolved(Q, b, fewer)
  PROVE  Ahead(Scoped(P), Scoped(Q))
<1>1. PICK c : c = Scoped(P)
  OBVIOUS
<1>2. PICK a : a = Scoped(Q)
  OBVIOUS
<1>3. /\ Typed(P) /\ P.period = b.period /\ P.net = b.net /\ P.late = b.late
      /\ P.blocked = b.blocked
      /\ \A s : ExceptionsOf(P, s) = {e \in ExceptionsOf(b, s) : e.id \notin more}
      /\ \A s \in Replaced(b, more) : /\ FindingsOf(P, s) = {Stand(b, s)}
                                      /\ ExceptionsOf(P, s) = {}
      /\ \A s : s \notin Replaced(b, more) => FindingsOf(P, s) = FindingsOf(b, s)
  BY ResolvedIs
<1>4. /\ Typed(Q) /\ Q.period = b.period /\ Q.net = b.net /\ Q.late = b.late
      /\ Q.blocked = b.blocked
      /\ \A s : ExceptionsOf(Q, s) = {e \in ExceptionsOf(b, s) : e.id \notin fewer}
      /\ \A s : s \notin Replaced(b, fewer) => FindingsOf(Q, s) = FindingsOf(b, s)
  BY ResolvedIs
<1>5. /\ Typed(c) /\ c.period = b.period /\ c.net = b.net /\ c.late = b.late
      /\ c.blocked = b.blocked
      /\ c.findings = {f \in P.findings : f.sid \in b.period}
      /\ c.exceptions = {e \in P.exceptions : e.sid \in b.period}
      /\ \A s \in b.period : /\ FindingsOf(c, s) = FindingsOf(P, s)
                             /\ ExceptionsOf(c, s) = ExceptionsOf(P, s)
                             /\ Value(c, s) = Value(b, s)
  BY <1>1, <1>3, ScopedFields, ScopedIsTyped, ScopedValue, ResolvedValue
<1>6. /\ Typed(a) /\ a.period = b.period /\ a.net = b.net /\ a.late = b.late
      /\ a.blocked = b.blocked
      /\ \A s \in b.period : /\ FindingsOf(a, s) = FindingsOf(Q, s)
                             /\ ExceptionsOf(a, s) = ExceptionsOf(Q, s)
                             /\ Value(a, s) = Value(b, s)
  BY <1>2, <1>4, ScopedFields, ScopedIsTyped, ScopedValue, ResolvedValue
<1>7. Replaced(b, fewer) \subseteq Replaced(b, more)
  <2>1. Left(b, more) \subseteq Left(b, fewer)
    BY DEF Left
  <2>2. Freed(b, fewer) \subseteq Freed(b, more)
    BY <2>1 DEF Freed
  <2> QED
    BY <2>2 DEF Replaced
<1>8. ASSUME NEW s \in b.period, s \in Replaced(b, more) PROVE Stands(c, s)
  <2>1. FindingsOf(c, s) = {Stand(b, s)} /\ ExceptionsOf(c, s) = {}
    BY <1>3, <1>5, <1>8
  <2> QED
    BY <2>1, StandIs DEF Stands
<1>9. ASSUME NEW s \in b.period, s \notin Replaced(b, more) PROVE Keeps(c, a, s)
  <2>1. FindingsOf(c, s) = FindingsOf(b, s) /\ FindingsOf(a, s) = FindingsOf(b, s)
    BY <1>3, <1>4, <1>5, <1>6, <1>7, <1>9
  <2>2. /\ FindingOf(c, s) = FindingOf(b, s) /\ FindingOf(a, s) = FindingOf(b, s)
        /\ FindingOf(P, s) = FindingOf(b, s)
    BY <1>5, <2>1 DEF FindingOf
  <2>3. ASSUME ExceptionsOf(c, s) = {}, ExceptionsOf(a, s) # {}
        PROVE  Explained(FindingOf(c, s))
    <3>1. ExceptionsOf(P, s) = {} /\ ExceptionsOf(b, s) # {}
      BY <1>4, <1>5, <1>6, <2>3
    <3> QED
      BY <2>2, <3>1, FreedIsExplained
  <2>4. ExceptionsOf(a, s) \subseteq ExceptionsOf(b, s)
    BY <1>4, <1>6
  <2>5. \A d, e \in ExceptionsOf(a, s) :
          d.unexplained < 0 /\ e.unexplained > 0 => ~Explained(FindingOf(a, s))
    BY <2>2, <2>4 DEF Plain
  <2>6. Assignments(FindingsOf(c, s)) \subseteq Assignments(b.findings)
    BY <2>1 DEF Assignments, FindingsOf
  <2>7. \A A \in Assignments(FindingsOf(c, s)) : A \subseteq Nat \ {0}
    BY <2>6 DEF Plain
  <2> QED
    BY <2>1, <2>3, <2>5, <2>7 DEF Keeps
<1>10. \A s \in b.period : ExceptionsOf(c, s) \subseteq ExceptionsOf(a, s)
  BY <1>3, <1>4, <1>5, <1>6
<1>11. Ahead(c, a)
  BY <1>5, <1>6, <1>8, <1>9, <1>10 DEF Ahead
<1> QED
  BY <1>1, <1>2, <1>11

\* What speaks for a settlement that stands.
LEMMA StandsIs ==
  ASSUME NEW c, Typed(c), NEW s, Stands(c, s)
  PROVE  /\ Explained(FindingOf(c, s)) /\ ExceptionOf(c, s).unexplained = 0
         /\ ItemOf(c, s).kind = "VERIFIED" /\ VerifiedPart(c, s) = Value(c, s)
<1>1. Explained(FindingOf(c, s))
  BY FindingOfIs DEF Stands
<1>2. ExceptionOf(c, s).unexplained = 0
  BY ExceptionOfIs DEF Stands, NoException
<1> QED
  BY <1>1, <1>2, ItemIs

LEMMA AheadIsVerified ==
  ASSUME NEW c, NEW a, Ahead(c, a), NEW s \in a.period
  PROVE  VerifiedPart(a, s) <= VerifiedPart(c, s)
<1>1. Typed(a) /\ Typed(c) /\ Value(c, s) = Value(a, s)
  BY DEF Ahead
<1>2. PICK v \in Nat : v = Value(a, s)
  BY <1>1, ValueIsNat
<1>3. /\ VerifiedPart(a, s) \in Int /\ VerifiedPart(a, s) <= v
      /\ VerifiedPart(c, s) \in Int /\ 0 <= VerifiedPart(c, s)
  BY <1>1, <1>2, ItemIs
<1>4. CASE Stands(c, s)
  BY <1>1, <1>2, <1>3, <1>4, StandsIs
<1>5. CASE Keeps(c, a, s)
  <2>1. FindingOf(c, s) = FindingOf(a, s)
    BY <1>5 DEF Keeps, FindingOf
  <2>2. PICK f : f = FindingOf(a, s)
    OBVIOUS
  <2>3. PICK m \in Int : m = ExceptionOf(a, s).unexplained
    BY <1>1, SpokenForTyped
  <2>4. PICK n \in Int : n = ExceptionOf(c, s).unexplained
    BY <1>1, SpokenForTyped
  <2>5. /\ ~(Explained(f) /\ m >= 0) => VerifiedPart(a, s) = 0
        /\ Explained(f) /\ m = 0 => VerifiedPart(a, s) = v
        /\ Explained(f) /\ m > 0 => VerifiedPart(a, s) = v - Lesser(v, m)
        /\ Explained(f) /\ n = 0 => VerifiedPart(c, s) = v
        /\ Explained(f) /\ n > 0 => VerifiedPart(c, s) = v - Lesser(v, n)
    BY <1>1, <1>2, <2>1, <2>2, <2>3, <2>4, VerifiedIs
  <2>6. n = 0 \/ (ExceptionsOf(c, s) # {} /\ Magnitude(n) <= Magnitude(m))
    <3>1. CASE ExceptionsOf(c, s) = {}
      BY <1>1, <2>4, <3>1, ExceptionOfIs DEF NoException
    <3>2. CASE ExceptionsOf(c, s) # {}
      <4>1. ExceptionOf(c, s) \in ExceptionsOf(a, s)
        BY <1>1, <3>2, ExceptionOfIs DEF Ahead
      <4> QED
        BY <1>1, <2>3, <2>4, <3>2, <4>1, ExceptionOfIs
    <3> QED
      BY <3>1, <3>2
  <2>7. Explained(f) /\ m >= 0 => n >= 0 /\ n <= m
    <3>1. SUFFICES ASSUME Explained(f), m >= 0, ~(n >= 0 /\ n <= m) PROVE FALSE
      OBVIOUS
    <3>2. n < 0 /\ m > 0 /\ ExceptionsOf(c, s) # {}
      BY <2>6, <3>1 DEF Magnitude
    <3>3. ExceptionOf(c, s) \in ExceptionsOf(a, s)
      BY <1>1, <3>2, ExceptionOfIs DEF Ahead
    <3>4. ExceptionOf(a, s) \in ExceptionsOf(a, s)
      BY <1>1, <3>3, ExceptionOfIs
    <3>5. ~Explained(f)
      BY <1>5, <2>2, <2>3, <2>4, <3>2, <3>3, <3>4 DEF Keeps
    <3> QED
      BY <3>1, <3>5
  <2> QED
    BY <1>3, <2>5, <2>7 DEF Lesser
<1> QED
  BY <1>4, <1>5 DEF Ahead

\* Where the books that are ahead have something on record, so do the others,
\* unless the settlement stands.
LEMMA AheadKeeps ==
  ASSUME NEW c, NEW a, Ahead(c, a)
  PROVE  /\ \A f \in c.findings : f \in a.findings \/ Stands(c, f.sid)
         /\ \A s, f : Stands(c, s) /\ f \in FindingsOf(c, s) =>
              /\ f.verdict = "PROVEN" /\ f.postable /\ ~f.lossy
              /\ \A i \in DOMAIN f.proofs : /\ f.proofs[i].off = 0
                                            /\ f.proofs[i].orders = {SimulatedOrder(s)}
         /\ c.exceptions \subseteq a.exceptions
         /\ \A f \in c.findings : f \in FindingsOf(c, f.sid) /\ f.sid \in a.period
<1>1. ASSUME NEW f \in c.findings
      PROVE  f \in FindingsOf(c, f.sid) /\ f.sid \in a.period
  BY DEF Ahead, FindingsOf
<1>2. ASSUME NEW f \in c.findings PROVE f \in a.findings \/ Stands(c, f.sid)
  <2>1. Stands(c, f.sid) \/ Keeps(c, a, f.sid)
    BY <1>1 DEF Ahead
  <2>2. Keeps(c, a, f.sid) => f \in FindingsOf(a, f.sid)
    BY <1>1 DEF Keeps
  <2>3. FindingsOf(a, f.sid) \subseteq a.findings
    BY DEF FindingsOf
  <2> QED
    BY <2>1, <2>2, <2>3
<1>3. ASSUME NEW e \in c.exceptions PROVE e \in a.exceptions
  <2>1. e.sid \in a.period /\ e \in ExceptionsOf(c, e.sid)
    BY DEF Ahead, ExceptionsOf
  <2>2. e \in ExceptionsOf(a, e.sid)
    BY <2>1 DEF Ahead
  <2> QED
    BY <2>2 DEF ExceptionsOf
<1>4. ASSUME NEW s, NEW f, Stands(c, s), f \in FindingsOf(c, s)
      PROVE  /\ f.verdict = "PROVEN" /\ f.postable /\ ~f.lossy
             /\ \A i \in DOMAIN f.proofs : /\ f.proofs[i].off = 0
                                           /\ f.proofs[i].orders = {SimulatedOrder(s)}
  BY <1>4 DEF Stands, Explained
<1> QED
  BY <1>1, <1>2, <1>3, <1>4

\* An order cited twice in the books that are ahead was cited by the same
\* settlements before.
LEMMA AheadCites ==
  ASSUME NEW c, NEW a, Ahead(c, a), NEW p \in Int, Cardinality(Citing(c, p)) > 1
  PROVE  Citing(c, p) \subseteq Citing(a, p) /\ Cardinality(Citing(a, p)) > 1
<1>1. Typed(c) /\ Typed(a) /\ c.period = a.period /\ a.period \subseteq Nat
  BY DEF Ahead, Typed
<1>2. IsFiniteSet(Citing(c, p)) /\ IsFiniteSet(Citing(a, p))
  BY <1>1, CitedIsFinite
<1>3. ASSUME NEW t \in Citing(c, p), Stands(c, t) PROVE p = -t
  <2>1. PICK f \in c.findings : /\ f.sid = t
                                /\ \E i \in DOMAIN f.proofs : p \in f.proofs[i].orders
    BY DEF Citing, ProvenOf
  <2>2. f \in FindingsOf(c, t)
    BY <2>1 DEF FindingsOf
  <2>3. \A i \in DOMAIN f.proofs : f.proofs[i].orders = {SimulatedOrder(t)}
    BY <1>3, <2>2, AheadKeeps
  <2> QED
    BY <2>1, <2>3 DEF SimulatedOrder
<1>4. ASSUME NEW t \in Citing(c, p), Keeps(c, a, t) PROVE p \in Nat \ {0} /\ t \in Citing(a, p)
  <2>1. PICK f \in c.findings : /\ f.sid = t /\ f.verdict = "PROVEN"
                                /\ \E i \in DOMAIN f.proofs : p \in f.proofs[i].orders
    BY DEF Citing, ProvenOf
  <2>2. f \in FindingsOf(c, t) /\ f \in FindingsOf(a, t)
    BY <1>4, <2>1 DEF FindingsOf, Keeps
  <2>3. PICK i \in DOMAIN f.proofs : p \in f.proofs[i].orders
    BY <2>1
  <2>4. f.proofs[i].orders \in Assignments(FindingsOf(c, t))
    BY <2>2 DEF Assignments
  <2>5. p \in Nat \ {0}
    BY <1>4, <2>3, <2>4 DEF Keeps
  <2>6. f \in ProvenOf(a)
    BY <2>1, <2>2 DEF ProvenOf, FindingsOf
  <2> QED
    BY <2>1, <2>5, <2>6 DEF Citing
<1>5. \A t \in Citing(c, p) : t \in Nat /\ (Stands(c, t) \/ Keeps(c, a, t))
  BY <1>1 DEF Citing, ProvenOf, Ahead
<1>6. p \in Nat \ {0}
  <2>1. SUFFICES ASSUME ~(p \in Nat \ {0}) PROVE FALSE
    OBVIOUS
  <2>2. \A t \in Citing(c, p) : p = -t
    BY <1>3, <1>4, <1>5, <2>1
  <2>3. Citing(c, p) \in SUBSET {-p}
    BY <1>5, <2>2
  <2>4. IsFiniteSet({-p}) /\ Cardinality({-p}) = 1
    BY FS_Singleton
  <2>5. Cardinality(Citing(c, p)) <= 1
    BY <2>3, <2>4, FS_Subset
  <2>6. Cardinality(Citing(c, p)) \in Nat
    BY <1>2, FS_CardinalityType
  <2> QED
    BY <2>5, <2>6
<1>7. Citing(c, p) \in SUBSET Citing(a, p)
  <2>1. SUFFICES ASSUME NEW t \in Citing(c, p) PROVE t \in Citing(a, p)
    OBVIOUS
  <2>2. ~Stands(c, t)
    BY <1>3, <1>5, <1>6, <2>1
  <2> QED
    BY <1>4, <1>5, <2>1, <2>2
<1>8. /\ Cardinality(Citing(c, p)) <= Cardinality(Citing(a, p))
      /\ Cardinality(Citing(c, p)) \in Nat /\ Cardinality(Citing(a, p)) \in Nat
  BY <1>2, <1>7, FS_Subset, FS_CardinalityType
<1> QED
  BY <1>7, <1>8

\* What a hard rule finds in the books that are ahead it found before.
LEMMA AheadBlocksNoMore ==
  ASSUME NEW c, NEW a, Ahead(c, a), NEW k \in HardBlockers(c)
  PROVE  \E l \in HardBlockers(a) : l.kind = k.kind /\ l.ref = k.ref
<1>1. /\ Typed(c) /\ Typed(a)
      /\ c.period = a.period /\ c.net = a.net /\ c.late = a.late /\ c.blocked = a.blocked
  BY DEF Ahead
<1>2. /\ \A f \in c.findings : f \in a.findings \/ Stands(c, f.sid)
      /\ \A s, f : Stands(c, s) /\ f \in FindingsOf(c, s) =>
           /\ f.verdict = "PROVEN" /\ f.postable /\ ~f.lossy
           /\ \A i \in DOMAIN f.proofs : /\ f.proofs[i].off = 0
                                         /\ f.proofs[i].orders = {SimulatedOrder(s)}
      /\ c.exceptions \subseteq a.exceptions
      /\ \A f \in c.findings : f \in FindingsOf(c, f.sid) /\ f.sid \in a.period
  BY AheadKeeps
<1>11. CASE k \in Untimely(c)
  <2>1. Untimely(c) = Untimely(a)
    BY <1>1 DEF Untimely
  <2> QED
    BY <1>11, <2>1 DEF HardBlockers
<1>12. CASE k \in Disagreements(c)
  <2>1. PICK s \in c.period : /\ Conflicting(c, s) /\ k.kind = "CONTRADICTORY_EVIDENCE"
                              /\ k.ref = Settlement(s)
    BY <1>12 DEF Disagreements, Blocker
  <2>2. ~Stands(c, s)
    <3>1. SUFFICES ASSUME Stands(c, s) PROVE FALSE
      OBVIOUS
    <3>2. PICK h : FindingsOf(c, s) = {h}
      BY <3>1 DEF Stands
    <3>3. {f.verdict : f \in FindingsOf(c, s)} = {h.verdict}
      BY <3>2
    <3>4. Cardinality({h.verdict}) = 1 /\ Cardinality({h}) = 1
      BY FS_Singleton
    <3> QED
      BY <2>1, <3>2, <3>3, <3>4 DEF Conflicting
  <2>3. FindingsOf(a, s) = FindingsOf(c, s)
    BY <1>1, <2>2 DEF Ahead, Keeps
  <2>4. Conflicting(a, s)
    BY <2>1, <2>3 DEF Conflicting
  <2>5. Blocker(<<2, First(FindingsOf(a, s)).at, 0>>, "CONTRADICTORY_EVIDENCE", Settlement(s), 0)
          \in Disagreements(a)
    BY <1>1, <2>1, <2>4 DEF Disagreements
  <2> QED
    BY <2>1, <2>5 DEF Blocker, HardBlockers
<1>13. CASE k \in Contradictions(c)
  <2>1. PICK f \in c.findings : k \in Contradicted(c, f)
    BY <1>13 DEF Contradictions
  <2>2. PICK e \in ExceptionsOf(c, f.sid) :
          /\ f.verdict = "CONTRADICTED" /\ Wholly(e)
          /\ k.kind = "CONTRADICTORY_EVIDENCE" /\ k.ref = Exception(e)
    BY <2>1 DEF Contradicted, Blocker
  <2>3. f \in a.findings
    BY <1>2, <2>2
  <2>4. e \in ExceptionsOf(a, f.sid)
    BY <1>2, <2>2 DEF ExceptionsOf
  <2>5. Blocker(<<3, f.at, e.at>>, "CONTRADICTORY_EVIDENCE", Exception(e), e.unexplained)
          \in Contradicted(a, f)
    BY <2>2, <2>4 DEF Contradicted
  <2> QED
    BY <2>2, <2>3, <2>5 DEF Blocker, Contradictions, HardBlockers
<1>14. CASE k \in DuplicateImpact(c)
  <2>1. PICK p \in UNION Assignments(ProvenOf(c)) : \E s \in Citing(c, p) :
          /\ Cardinality(Citing(c, p)) > 1
          /\ k.kind = "DUPLICATE_LEDGER_IMPACT" /\ k.ref = SharedOrder(s, p)
    BY <1>14 DEF DuplicateImpact, Blocker
  <2>2. PICK s \in Citing(c, p) : /\ Cardinality(Citing(c, p)) > 1
                                  /\ k.kind = "DUPLICATE_LEDGER_IMPACT" /\ k.ref = SharedOrder(s, p)
    BY <2>1
  <2>3. p \in Int
    <3>1. PICK f \in c.findings : \E i \in DOMAIN f.proofs : p \in f.proofs[i].orders
      BY DEF Assignments, ProvenOf
    <3>2. \A i \in DOMAIN f.proofs : f.proofs[i].orders \subseteq Int
      BY <1>1, ProofsAreTyped
    <3> QED
      BY <3>1, <3>2
  <2>4. Citing(c, p) \subseteq Citing(a, p) /\ Cardinality(Citing(a, p)) > 1
    BY <2>2, <2>3, AheadCites
  <2>5. p \in UNION Assignments(ProvenOf(a))
    BY <2>2, <2>4 DEF Citing, Assignments
  <2>6. Blocker(<<4, p, s>>, "DUPLICATE_LEDGER_IMPACT", SharedOrder(s, p), 0) \in DuplicateImpact(a)
    BY <2>2, <2>4, <2>5 DEF DuplicateImpact
  <2> QED
    BY <2>2, <2>6 DEF Blocker, HardBlockers
<1>15. CASE k \in FailedInvariants(c)
  <2>1. PICK f \in c.findings : k \in FailedBy(f)
    BY <1>15 DEF FailedInvariants
  <2>2. ASSUME Stands(c, f.sid) PROVE FALSE
    <3>1. /\ f.verdict = "PROVEN" /\ f.postable
          /\ \A i \in DOMAIN f.proofs : f.proofs[i].off = 0
      BY <1>2, <2>2
    <3>2. {j \in DOMAIN f.proofs : f.proofs[j].off > 0} = {}
      BY <3>1
    <3>3. FailedBy(f) = {}
      BY <3>1, <3>2 DEF FailedBy
    <3> QED
      BY <2>1, <3>3
  <2>3. f \in a.findings
    BY <1>2, <2>2
  <2> QED
    BY <2>1, <2>3 DEF FailedInvariants, HardBlockers
<1>16. CASE k \in Compromised(c)
  <2>1. PICK f \in c.findings : /\ f.lossy
                                /\ k = Blocker(<<6, f.at, 0>>, "COMPROMISED_INTEGRITY", Settlement(f.sid), 0)
    BY <1>16 DEF Compromised
  <2>2. f \in a.findings
    BY <1>2, <2>1
  <2>3. k \in Compromised(a)
    BY <2>1, <2>2 DEF Compromised
  <2> QED
    BY <2>3 DEF HardBlockers
<1>17. CASE k \in Prohibited(c)
  <2>1. Prohibited(c) = Prohibited(a)
    BY <1>1 DEF Prohibited
  <2> QED
    BY <1>17, <2>1 DEF HardBlockers
<1>18. CASE k \in Serious(c)
  <2>1. k \in Serious(a)
    BY <1>2, <1>18 DEF Serious
  <2> QED
    BY <2>1 DEF HardBlockers
<1>19. CASE k \in Unexamined(c)
  <2>1. PICK s \in c.period : /\ FindingsOf(c, s) = {} /\ ExceptionsOf(c, s) = {}
                              /\ k = Blocker(<<9, s, 0>>, "MISSING_SETTLEMENT", Settlement(s), 0)
    BY <1>19 DEF Unexamined
  <2>2. Keeps(c, a, s)
    BY <1>1, <2>1 DEF Ahead, Stands
  <2>3. FindingOf(c, s) = NoFinding /\ ~Explained(FindingOf(c, s))
    BY <1>1, <2>1, FindingOfIs DEF NoFinding, Explained
  <2>4. FindingsOf(a, s) = {} /\ ExceptionsOf(a, s) = {}
    BY <2>1, <2>2, <2>3 DEF Keeps
  <2>5. k \in Unexamined(a)
    BY <1>1, <2>1, <2>4 DEF Unexamined
  <2> QED
    BY <2>5 DEF HardBlockers
<1> QED
  BY <1>11, <1>12, <1>13, <1>14, <1>15, <1>16, <1>17, <1>18, <1>19 DEF HardBlockers

\* Nor does a material one: no more is exposed, under the same threshold.
LEMMA AheadIsNoMoreMaterial ==
  ASSUME NEW c, NEW a, Ahead(c, a), NEW x, x = AssessExposure(c), NEW y, y = AssessExposure(a)
  PROVE  /\ x.net <= y.net
         /\ \A k \in MaterialBlockers(c, x) :
              \E l \in MaterialBlockers(a, y) : l.kind = k.kind /\ l.ref = k.ref
<1>1. /\ Typed(c) /\ Typed(a) /\ c.period = a.period
      /\ \A s \in a.period : Value(c, s) = Value(a, s)
  BY DEF Ahead
<1>2. x.total = y.total /\ x.net <= y.net
  BY <1>1, AheadIsVerified, ExposureFalls
<1>3. /\ x.net \in Int /\ y.net \in Int /\ y.total \in Int
      /\ x.items \subseteq a.period
      /\ \A s \in a.period : /\ s \in x.items <=> ItemOf(c, s).kind # "VERIFIED"
                             /\ s \in y.items <=> ItemOf(a, s).kind # "VERIFIED"
                             /\ x.item[s] = ItemOf(c, s) /\ y.item[s] = ItemOf(a, s)
  BY <1>1, ExposureIs
<1>4. PICK limit \in Nat : limit = Allowable(y.total)
  BY <1>3, AllowableIs
<1>5. ASSUME NEW s \in x.items
      PROVE  /\ s \in a.period /\ Keeps(c, a, s) /\ s \in y.items
             /\ ItemOf(c, s).kind = "AMBIGUOUS" => ItemOf(a, s).kind = "AMBIGUOUS"
             /\ ExceptionsOf(c, s) = {} => ExceptionsOf(a, s) = {}
             /\ ExceptionsOf(c, s) \subseteq ExceptionsOf(a, s)
  <2>1. s \in a.period /\ ItemOf(c, s).kind # "VERIFIED"
    BY <1>3
  <2>2. Keeps(c, a, s) /\ ExceptionsOf(c, s) \subseteq ExceptionsOf(a, s)
    BY <1>1, <2>1, StandsIs DEF Ahead
  <2>3. FindingOf(c, s) = FindingOf(a, s)
    BY <2>2 DEF Keeps, FindingOf
  <2>4. ItemOf(c, s).kind = "AMBIGUOUS" => ItemOf(a, s).kind = "AMBIGUOUS"
    BY <1>1, <2>3, AmbiguousIs
  <2>5. ~(Explained(FindingOf(c, s)) /\ ExceptionOf(c, s).unexplained = 0)
    BY <1>1, <2>1, ItemIs
  <2>6. ExceptionsOf(c, s) = {} => ExceptionsOf(a, s) = {}
    <3>1. ExceptionsOf(c, s) = {} => ExceptionOf(c, s).unexplained = 0
      BY <1>1, ExceptionOfIs DEF NoException
    <3> QED
      BY <2>2, <2>5, <3>1 DEF Keeps
  <2>7. ASSUME ItemOf(a, s).kind = "VERIFIED" PROVE FALSE
    <3>1. Explained(FindingOf(a, s)) /\ ExceptionOf(a, s).unexplained = 0
      BY <1>1, <2>7, ItemIs
    <3>2. ExceptionOf(c, s).unexplained # 0 /\ ExceptionOf(c, s).unexplained \in Int
      BY <1>1, <2>3, <2>5, <3>1, SpokenForTyped
    <3>3. ExceptionOf(c, s) \in ExceptionsOf(c, s)
      BY <1>1, <3>2, ExceptionOfIs DEF NoException
    <3>4. Magnitude(ExceptionOf(c, s).unexplained) <= Magnitude(ExceptionOf(a, s).unexplained)
      BY <1>1, <2>2, <3>3, ExceptionOfIs
    <3> QED
      BY <3>1, <3>2, <3>4 DEF Magnitude
  <2> QED
    BY <1>3, <2>1, <2>2, <2>4, <2>6, <2>7
<1>6. ASSUME NEW s \in x.items, ItemOf(c, s).kind = "AMBIGUOUS", Value(c, s) > limit,
             NEW k, k = Blocker(<<10, Rank(x, s), 0>>, "AMBIGUOUS_MATERIAL_SETTLEMENT",
                                Settlement(s), Value(c, s))
      PROVE  \E l \in MaterialBlockers(a, y) : l.kind = k.kind /\ l.ref = k.ref
  <2>1. s \in y.items /\ y.item[s].kind = "AMBIGUOUS" /\ Value(a, s) > Allowable(y.total)
    BY <1>1, <1>3, <1>4, <1>5, <1>6
  <2>2. PICK l : l = Blocker(<<10, Rank(y, s), 0>>, "AMBIGUOUS_MATERIAL_SETTLEMENT",
                             Settlement(s), Value(a, s))
    OBVIOUS
  <2>3. l \in MaterialBlockers(a, y)
    BY <2>1, <2>2 DEF MaterialBlockers
  <2>4. l.kind = k.kind /\ l.ref = k.ref
    BY <1>6, <2>2 DEF Blocker
  <2> QED
    BY <2>3, <2>4
<1>7. ASSUME x.net > limit PROVE y.net > Allowable(y.total)
  BY <1>2, <1>3, <1>4, <1>7
<1>8. ASSUME x.net > limit
      PROVE  Blocker(<<11, 0, 0>>, "UNRESOLVED_MATERIAL_AMOUNT", Period, y.net)
               \in MaterialBlockers(a, y)
  BY <1>7, <1>8 DEF MaterialBlockers
<1>9. ASSUME x.net > limit, NEW s \in x.items, NEW k \in Contributors(c, x, s)
      PROVE  \E l \in MaterialBlockers(a, y) : l.kind = k.kind /\ l.ref = k.ref
  <2>1. Contributors(a, y, s) \subseteq MaterialBlockers(a, y)
    BY <1>5, <1>7, <1>9 DEF MaterialBlockers
  <2>2. SUFFICES \E l \in Contributors(a, y, s) : l.kind = k.kind /\ l.ref = k.ref
    BY <2>1
  <2>3. CASE ExceptionsOf(c, s) = {}
    <3>1. ExceptionsOf(a, s) = {}
      BY <1>5, <2>3
    <3>2. k.kind = "UNRESOLVED_MATERIAL_AMOUNT" /\ k.ref = Settlement(s)
      BY <1>9, <2>3 DEF Contributors, Blocker
    <3>3. PICK l : l = Blocker(<<12, Rank(y, s), 0>>, "UNRESOLVED_MATERIAL_AMOUNT",
                               Settlement(s), y.item[s].exposure)
      OBVIOUS
    <3>4. l \in Contributors(a, y, s)
      BY <3>1, <3>3 DEF Contributors
    <3>5. l.kind = "UNRESOLVED_MATERIAL_AMOUNT" /\ l.ref = Settlement(s)
      BY <3>3 DEF Blocker
    <3> QED
      BY <3>2, <3>4, <3>5
  <2>4. CASE ExceptionsOf(c, s) # {}
    <3>1. PICK e \in ExceptionsOf(c, s) :
            k = Blocker(<<12, Rank(x, s), e.at>>, "UNRESOLVED_MATERIAL_AMOUNT", Exception(e),
                        Magnitude(e.unexplained))
      BY <1>9, <2>4 DEF Contributors
    <3>2. e \in ExceptionsOf(a, s)
      BY <1>5, <3>1
    <3>3. PICK l : l = Blocker(<<12, Rank(y, s), e.at>>, "UNRESOLVED_MATERIAL_AMOUNT",
                               Exception(e), Magnitude(e.unexplained))
      OBVIOUS
    <3>4. l \in Contributors(a, y, s)
      BY <3>2, <3>3 DEF Contributors
    <3>5. l.kind = k.kind /\ l.ref = k.ref
      BY <3>1, <3>3 DEF Blocker
    <3> QED
      BY <3>4, <3>5
  <2> QED
    BY <2>3, <2>4
<1>10. ASSUME NEW k \in MaterialBlockers(c, x)
       PROVE  \E l \in MaterialBlockers(a, y) : l.kind = k.kind /\ l.ref = k.ref
  <2>1. Allowable(x.total) = limit
    BY <1>2, <1>4
  <2>2. \/ \E s \in x.items : /\ x.item[s].kind = "AMBIGUOUS" /\ Value(c, s) > limit
                              /\ k = Blocker(<<10, Rank(x, s), 0>>, "AMBIGUOUS_MATERIAL_SETTLEMENT",
                                             Settlement(s), Value(c, s))
        \/ /\ x.net > limit
           /\ \/ k = Blocker(<<11, 0, 0>>, "UNRESOLVED_MATERIAL_AMOUNT", Period, x.net)
              \/ \E s \in x.items : k \in Contributors(c, x, s)
    BY <2>1 DEF MaterialBlockers
  <2>3. CASE \E s \in x.items : /\ x.item[s].kind = "AMBIGUOUS" /\ Value(c, s) > limit
                                /\ k = Blocker(<<10, Rank(x, s), 0>>, "AMBIGUOUS_MATERIAL_SETTLEMENT",
                                               Settlement(s), Value(c, s))
    <3>1. PICK s \in x.items : /\ x.item[s].kind = "AMBIGUOUS" /\ Value(c, s) > limit
                               /\ k = Blocker(<<10, Rank(x, s), 0>>, "AMBIGUOUS_MATERIAL_SETTLEMENT",
                                              Settlement(s), Value(c, s))
      BY <2>3
    <3>2. ItemOf(c, s).kind = "AMBIGUOUS"
      BY <1>3, <3>1
    <3> QED
      BY <1>6, <3>1, <3>2
  <2>4. CASE x.net > limit /\ k = Blocker(<<11, 0, 0>>, "UNRESOLVED_MATERIAL_AMOUNT", Period, x.net)
    <3>1. PICK l \in MaterialBlockers(a, y) :
            l = Blocker(<<11, 0, 0>>, "UNRESOLVED_MATERIAL_AMOUNT", Period, y.net)
      BY <1>8, <2>4
    <3>2. l.kind = k.kind /\ l.ref = k.ref
      BY <2>4, <3>1 DEF Blocker
    <3> QED
      BY <3>2
  <2>5. CASE x.net > limit /\ \E s \in x.items : k \in Contributors(c, x, s)
    BY <1>9, <2>5
  <2> QED
    BY <2>2, <2>3, <2>4, <2>5
<1> QED
  BY <1>2, <1>10

\* So a verdict after resolving more has the blockers of the one after resolving
\* less, or fewer of them, and no more exposed.
LEMMA MoreResolvedIsNoWorse ==
  ASSUME NEW b, Typed(b), Plain(b), NEW more, NEW fewer, fewer \subseteq more,
         NEW v, v = DecidePeriod(Project(b, Resolve(more))),
         NEW w, w = DecidePeriod(Project(b, Resolve(fewer)))
  PROVE  Marks(v) \subseteq Marks(w) /\ v.net <= w.net
<1>1. PICK P : P = Project(b, Resolve(more))
  OBVIOUS
<1>2. PICK Q : Q = Project(b, Resolve(fewer))
  OBVIOUS
<1>3. Resolved(P, b, more) /\ Resolved(Q, b, fewer)
  BY <1>1, <1>2 DEF Resolved, Project, Resolve, Scenario, ToResolve
<1>4. PICK c : c = Scoped(P)
  OBVIOUS
<1>5. PICK a : a = Scoped(Q)
  OBVIOUS
<1>6. Ahead(c, a)
  BY <1>3, <1>4, <1>5, MoreResolvedIsAhead
<1>7. Typed(P) /\ Typed(Q)
  BY <1>3, ResolvedIs
<1>8. /\ v.blockers \subseteq Blockers(c) /\ v.net = AssessExposure(c).net
      /\ w.net = AssessExposure(a).net
      /\ \A k \in Blockers(a) : \E l \in w.blockers : l.kind = k.kind /\ l.ref = k.ref
  BY <1>1, <1>2, <1>4, <1>5, <1>7, VerdictIs
<1>9. \A k \in Blockers(c) : \E l \in Blockers(a) : l.kind = k.kind /\ l.ref = k.ref
  BY <1>6, AheadBlocksNoMore, AheadIsNoMoreMaterial DEF Blockers
<1>10. Marks(v) \subseteq Marks(w)
  <2>1. SUFFICES ASSUME NEW k \in v.blockers
                 PROVE  [kind |-> k.kind, ref |-> k.ref] \in Marks(w)
    BY DEF Marks
  <2>2. PICK l \in Blockers(a) : l.kind = k.kind /\ l.ref = k.ref
    BY <1>8, <1>9, <2>1
  <2>3. PICK m \in w.blockers : m.kind = l.kind /\ m.ref = l.ref
    BY <1>8, <2>2
  <2> QED
    BY <2>2, <2>3 DEF Marks
<1>11. v.net <= w.net
  BY <1>6, <1>8, AheadIsNoMoreMaterial
<1> QED
  BY <1>10, <1>11

\* Waiting longer awaits no fewer exceptions.
LEMMA AwaitedGrows ==
  ASSUME NEW b, NEW m \in Int, NEW n \in Int, m <= n
  PROVE  Awaited(b, m) \subseteq Awaited(b, n)
<1>1. ASSUME NEW e PROVE PredictAsFiled(e).days \in Int
  <2>1. Prior(e.reason).days \in Int
    BY DEF Prior
  <2>2. \A logit : Horizon(e.reason, logit, 0) \in Int
    BY <2>1 DEF Horizon
  <2> QED
    BY <2>2 DEF PredictAsFiled, Predict
<1>2. \A e : PredictAsFiled(e).days <= m => PredictAsFiled(e).days <= n
  BY <1>1
<1> QED
  BY <1>2 DEF Awaited

LEMMA ResolvingHolds == DashInv => ResolvingMoreNeverHurts
<1> SUFFICES ASSUME DashInv, Idle PROVE ResolvingMoreNeverHurts
  BY DEF ResolvingMoreNeverHurts
<1>1. Typed(book) /\ Plain(book)
  BY BooksAre, PlainAssumption DEF DashInv
<1>2. ASSUME NEW ids \in SUBSET Ids(book), NEW id \in Ids(book)
      PROVE  /\ Marks(DecidePeriod(Project(book, Resolve(ids \cup {id}))))
                  \subseteq Marks(DecidePeriod(Project(book, Resolve(ids))))
             /\ DecidePeriod(Project(book, Resolve(ids \cup {id}))).net
                  <= DecidePeriod(Project(book, Resolve(ids))).net
  BY <1>1, MoreResolvedIsNoWorse
<1>3. ASSUME NEW m \in Horizons, NEW n \in Horizons, m <= n
      PROVE  /\ Marks(DecidePeriod(Project(book, Resolve(Awaited(book, n)))))
                  \subseteq Marks(DecidePeriod(Project(book, Resolve(Awaited(book, m)))))
             /\ DecidePeriod(Project(book, Resolve(Awaited(book, n)))).net
                  <= DecidePeriod(Project(book, Resolve(Awaited(book, m)))).net
  <2>1. Awaited(book, m) \subseteq Awaited(book, n)
    BY <1>3, AwaitedGrows, PlainAssumption
  <2> QED
    BY <1>1, <2>1, MoreResolvedIsNoWorse
<1> QED
  BY <1>2, <1>3 DEF ResolvingMoreNeverHurts

\* Resolving one exception more, or waiting longer, adds no blocker and exposes
\* no more, in any book that is Plain.
THEOREM ResolvingMoreIsSafe == DashSpec => []ResolvingMoreNeverHurts
BY DashboardInvariant, ResolvingHolds, PTL

-----------------------------------------------------------------------------
(* The order of the books *)

SameFinding(f, g) ==
  /\ g.sid = f.sid /\ g.verdict = f.verdict /\ g.proofs = f.proofs
  /\ g.postable = f.postable /\ g.lossy = f.lossy

SameException(e, d) ==
  /\ d.id = e.id /\ d.sid = e.sid /\ d.amount = e.amount
  /\ d.unexplained = e.unexplained /\ d.disputed = e.disputed
  /\ d.reason = e.reason /\ d.severity = e.severity
  /\ d.partial = e.partial /\ d.established = e.established /\ d.missing = e.missing

\* c lists everything b does, at whatever places.
Lists(b, c) ==
  /\ Typed(b) /\ Typed(c)
  /\ c.period = b.period /\ c.net = b.net /\ c.late = b.late /\ c.blocked = b.blocked
  /\ \E turn \in [b.findings -> c.findings] :
       /\ \A f, g \in b.findings : turn[f] = turn[g] => f = g
       /\ \A f \in b.findings : SameFinding(f, turn[f])
  /\ \A e \in b.exceptions : \E d \in c.exceptions : SameException(e, d)

Turned(r) == [r EXCEPT !.at = -@]

LEMMA TurnedIs ==
  /\ \A f \in Finding : /\ Turned(f) \in Finding /\ Turned(Turned(f)) = f
                        /\ SameFinding(f, Turned(f))
  /\ \A e : ExceptionType(e) => ExceptionType(Turned(e)) /\ SameException(e, Turned(e))
                                /\ Turned(Turned(e)) = e
<1>1. ASSUME NEW f \in Finding
      PROVE  Turned(f) \in Finding /\ Turned(Turned(f)) = f /\ SameFinding(f, Turned(f))
  <2>1. Turned(f) \in Finding /\ SameFinding(f, Turned(f)) /\ Turned(f).at = -f.at
    BY DEF Finding, Turned, SameFinding
  <2>2. PICK g \in Finding : g = Turned(f)
    BY <2>1
  <2>3. Turned(g) \in Finding /\ SameFinding(g, Turned(g)) /\ Turned(g).at = -g.at
    BY DEF Finding, Turned, SameFinding
  <2>4. f.at \in Int /\ Turned(g).at = f.at
    BY <2>1, <2>2, <2>3 DEF Finding
  <2>5. Turned(g) = f
    BY <2>1, <2>2, <2>3, <2>4 DEF Finding, SameFinding
  <2> QED
    BY <2>1, <2>2, <2>5
<1>2. ASSUME NEW e, ExceptionType(e)
      PROVE  ExceptionType(Turned(e)) /\ SameException(e, Turned(e)) /\ Turned(e).at = -e.at
  BY <1>2 DEF ExceptionType, Turned, SameException
<1>3. ASSUME NEW e, ExceptionType(e) PROVE Turned(Turned(e)) = e
  <2>1. PICK d : d = Turned(e)
    OBVIOUS
  <2>2. ExceptionType(d) /\ SameException(e, d) /\ d.at = -e.at
    BY <1>2, <1>3, <2>1
  <2>3. ExceptionType(Turned(d)) /\ SameException(d, Turned(d)) /\ Turned(d).at = -d.at
    BY <1>2, <2>2
  <2>4. e.at \in Int /\ Turned(d).at = e.at
    BY <1>3, <2>2, <2>3 DEF ExceptionType
  <2>5. Turned(d) = e
    BY <1>3, <2>2, <2>3, <2>4 DEF ExceptionType, SameException
  <2> QED
    BY <2>1, <2>5
<1> QED
  BY <1>1, <1>2, <1>3

LEMMA BackwardsIs ==
  ASSUME NEW b, Typed(b), NEW c, c = Backwards(b)
  PROVE  /\ DOMAIN c = DOMAIN b
         /\ c.period = b.period /\ c.net = b.net /\ c.late = b.late /\ c.blocked = b.blocked
         /\ c.findings = {Turned(f) : f \in b.findings}
         /\ c.exceptions = {Turned(e) : e \in b.exceptions}
BY DEF Backwards, Typed, Fields, Turned

LEMMA BackwardsIsTyped ==
  ASSUME NEW b, Typed(b)
  PROVE  Typed(Backwards(b))
<1>1. PICK c : c = Backwards(b)
  OBVIOUS
<1>2. /\ DOMAIN c = DOMAIN b
      /\ c.period = b.period /\ c.net = b.net
      /\ c.findings = {Turned(f) : f \in b.findings}
      /\ c.exceptions = {Turned(e) : e \in b.exceptions}
  BY <1>1, BackwardsIs
<1>3. \A f \in b.findings : f \in Finding
  BY DEF Typed
<1>4. \A e \in b.exceptions : ExceptionType(e)
  BY DEF Typed
<1>5. c.findings \subseteq Finding /\ \A e \in c.exceptions : ExceptionType(e)
  BY <1>2, <1>3, <1>4, TurnedIs
<1>6. IsFiniteSet(c.findings) /\ IsFiniteSet(c.exceptions)
  <2>1. PICK f : f = [r \in b.findings \cup b.exceptions |-> Turned(r)]
    OBVIOUS
  <2>2. IsFiniteSet({f[r] : r \in b.findings}) /\ IsFiniteSet({f[r] : r \in b.exceptions})
    BY ImageIsFinite DEF Typed
  <2>3. c.findings = {f[r] : r \in b.findings} /\ c.exceptions = {f[r] : r \in b.exceptions}
    BY <1>2, <2>1
  <2> QED
    BY <2>2, <2>3
<1>7. \A A \in Assignments(c.findings) : IsFiniteSet(A)
  <2>1. \A f \in b.findings : Turned(f).proofs = f.proofs
    BY <1>3, TurnedIs DEF SameFinding
  <2>2. Assignments(c.findings) \subseteq Assignments(b.findings)
    BY <1>2, <2>1 DEF Assignments
  <2> QED
    BY <2>2 DEF Typed
<1>8. ASSUME NEW d \in c.exceptions, NEW e \in c.exceptions, d.id = e.id
      PROVE  d = e
  <2>1. PICK x \in b.exceptions, y \in b.exceptions : d = Turned(x) /\ e = Turned(y)
    BY <1>2
  <2>2. x.id = y.id
    BY <1>4, <1>8, <2>1, TurnedIs DEF SameException
  <2> QED
    BY <2>1, <2>2 DEF Typed
<1>9. /\ Fields \subseteq DOMAIN c
      /\ c.period \subseteq Nat /\ DOMAIN c.net \subseteq Nat /\ c.net \in [DOMAIN c.net -> Nat]
      /\ IsFiniteSet(c.period)
  BY <1>2 DEF Typed
<1> QED
  BY <1>1, <1>5, <1>6, <1>7, <1>8, <1>9 DEF Typed

\* Read backwards, the books list the same.
LEMMA BackwardsLists ==
  ASSUME NEW b, Typed(b)
  PROVE  Lists(b, Backwards(b)) /\ Lists(Backwards(b), b)
<1>1. PICK c : c = Backwards(b)
  OBVIOUS
<1>2. /\ c.period = b.period /\ c.net = b.net /\ c.late = b.late /\ c.blocked = b.blocked
      /\ c.findings = {Turned(f) : f \in b.findings}
      /\ c.exceptions = {Turned(e) : e \in b.exceptions}
      /\ Typed(c)
  BY <1>1, BackwardsIs, BackwardsIsTyped
<1>3. b.findings \subseteq Finding /\ c.findings \subseteq Finding
  BY <1>2 DEF Typed
<1>4. (\A e \in b.exceptions : ExceptionType(e)) /\ \A e \in c.exceptions : ExceptionType(e)
  BY <1>2 DEF Typed
<1>5. /\ \A f \in b.findings : Turned(f) \in c.findings
      /\ \A f \in c.findings : Turned(f) \in b.findings
      /\ \A e \in b.exceptions : Turned(e) \in c.exceptions
      /\ \A e \in c.exceptions : Turned(e) \in b.exceptions
  BY <1>2, <1>3, <1>4, TurnedIs
<1>6. ASSUME NEW F \in SUBSET Finding, NEW G \in SUBSET Finding, \A f \in F : Turned(f) \in G
      PROVE  \E turn \in [F -> G] : /\ \A f, g \in F : turn[f] = turn[g] => f = g
                                    /\ \A f \in F : SameFinding(f, turn[f])
  <2>1. PICK turn \in [F -> G] : turn = [f \in F |-> Turned(f)]
    BY <1>6
  <2>2. \A f, g \in F : turn[f] = turn[g] => f = g
    BY <2>1, TurnedIs
  <2>3. \A f \in F : SameFinding(f, turn[f])
    BY <2>1, TurnedIs
  <2> QED
    BY <2>2, <2>3
<1>7. /\ \A e \in b.exceptions : \E d \in c.exceptions : SameException(e, d)
      /\ \A e \in c.exceptions : \E d \in b.exceptions : SameException(e, d)
  BY <1>4, <1>5, TurnedIs
<1>8. Lists(b, c)
  BY <1>2, <1>3, <1>5, <1>6, <1>7 DEF Lists
<1>9. Lists(c, b)
  BY <1>2, <1>3, <1>5, <1>6, <1>7 DEF Lists
<1> QED
  BY <1>1, <1>8, <1>9

LEMMA ScopedLists ==
  ASSUME NEW b, NEW c, Lists(b, c)
  PROVE  Lists(Scoped(b), Scoped(c))
<1>1. PICK p, q : p = Scoped(b) /\ q = Scoped(c)
  OBVIOUS
<1>2. Typed(b) /\ Typed(c)
  BY DEF Lists
<1>3. /\ Typed(p) /\ p.period = b.period /\ p.net = b.net /\ p.late = b.late /\ p.blocked = b.blocked
      /\ p.findings = {f \in b.findings : f.sid \in b.period}
      /\ p.exceptions = {e \in b.exceptions : e.sid \in b.period}
  BY <1>1, <1>2, ScopedFields, ScopedIsTyped
<1>4. /\ Typed(q) /\ q.period = c.period /\ q.net = c.net /\ q.late = c.late /\ q.blocked = c.blocked
      /\ q.findings = {f \in c.findings : f.sid \in c.period}
      /\ q.exceptions = {e \in c.exceptions : e.sid \in c.period}
  BY <1>1, <1>2, ScopedFields, ScopedIsTyped
<1>5. c.period = b.period /\ c.net = b.net /\ c.late = b.late /\ c.blocked = b.blocked
  BY DEF Lists
<1>6. PICK turn \in [b.findings -> c.findings] :
        /\ \A f, g \in b.findings : turn[f] = turn[g] => f = g
        /\ \A f \in b.findings : SameFinding(f, turn[f])
  BY DEF Lists
<1>7. PICK t : t = [f \in p.findings |-> turn[f]]
  OBVIOUS
<1>8. \A f \in p.findings : turn[f] \in q.findings
  BY <1>3, <1>4, <1>5, <1>6 DEF SameFinding
<1>9. t \in [p.findings -> q.findings]
  BY <1>7, <1>8
<1>10. /\ \A f, g \in p.findings : t[f] = t[g] => f = g
       /\ \A f \in p.findings : SameFinding(f, t[f])
  BY <1>3, <1>6, <1>7
<1>11. \A e \in p.exceptions : \E d \in q.exceptions : SameException(e, d)
  BY <1>3, <1>4, <1>5 DEF Lists, SameException
<1> QED
  BY <1>1, <1>3, <1>4, <1>5, <1>9, <1>10, <1>11 DEF Lists

\* What is listed of one settlement.
LEMMA ListedRecords ==
  ASSUME NEW b, NEW c, Lists(b, c), NEW s
  PROVE  /\ \A f \in FindingsOf(b, s) : \E g \in FindingsOf(c, s) : SameFinding(f, g)
         /\ \A e \in ExceptionsOf(b, s) : \E d \in ExceptionsOf(c, s) : SameException(e, d)
         /\ Cardinality(FindingsOf(b, s)) \in Nat /\ Cardinality(FindingsOf(c, s)) \in Nat
         /\ Cardinality(FindingsOf(b, s)) <= Cardinality(FindingsOf(c, s))
<1>1. PICK F, G : F = FindingsOf(b, s) /\ G = FindingsOf(c, s)
  OBVIOUS
<1>2. F = {f \in b.findings : f.sid = s} /\ G = {f \in c.findings : f.sid = s}
  BY <1>1 DEF FindingsOf
<1>3. IsFiniteSet(F) /\ IsFiniteSet(G)
  BY <1>1, RecordsOfSettlement DEF Lists
<1>4. PICK turn \in [b.findings -> c.findings] :
        /\ \A f, g \in b.findings : turn[f] = turn[g] => f = g
        /\ \A f \in b.findings : SameFinding(f, turn[f])
  BY DEF Lists
<1>5. \A f \in F : turn[f] \in G
  BY <1>2, <1>4 DEF SameFinding
<1>6. PICK t \in [F -> G] : t = [f \in F |-> turn[f]]
  BY <1>5
<1>7. t \in Injection(F, G)
  BY <1>2, <1>4, <1>6 DEF Injection, IsInjective
<1>8. Cardinality(F) <= Cardinality(G) /\ Cardinality(F) \in Nat /\ Cardinality(G) \in Nat
  BY <1>3, <1>7, FS_Injection, FS_CardinalityType
<1>9. \A f \in F : \E g \in G : SameFinding(f, g)
  BY <1>2, <1>4, <1>5
<1>10. \A e \in ExceptionsOf(b, s) : \E d \in ExceptionsOf(c, s) : SameException(e, d)
  BY DEF Lists, ExceptionsOf, SameException
<1> QED
  BY <1>1, <1>8, <1>9, <1>10

LEMMA ListedAssignments ==
  ASSUME NEW F, NEW G, \A f \in F : \E g \in G : SameFinding(f, g)
  PROVE  Assignments(F) \subseteq Assignments(G)
<1>1. ASSUME NEW A \in Assignments(F) PROVE A \in Assignments(G)
  <2>1. PICK f \in F : \E i \in DOMAIN f.proofs : A = f.proofs[i].orders
    BY DEF Assignments
  <2>2. PICK g \in G : SameFinding(f, g)
    OBVIOUS
  <2> QED
    BY <2>1, <2>2 DEF Assignments, SameFinding
<1> QED
  BY <1>1

LEMMA ListedCiting ==
  ASSUME NEW b, NEW c, Lists(b, c), NEW o
  PROVE  Citing(b, o) \subseteq Citing(c, o)
<1>1. ASSUME NEW s \in Citing(b, o) PROVE s \in Citing(c, o)
  <2>1. PICK f \in b.findings : /\ f.verdict = "PROVEN" /\ s = f.sid
                                /\ \E i \in DOMAIN f.proofs : o \in f.proofs[i].orders
    BY DEF Citing, ProvenOf
  <2>2. PICK g \in c.findings : SameFinding(f, g)
    BY DEF Lists
  <2> QED
    BY <2>1, <2>2 DEF Citing, ProvenOf, SameFinding
<1> QED
  BY <1>1

\* What conflicts conflicts in any order.
LEMMA ListedConflict ==
  ASSUME NEW b, NEW c, Lists(b, c), Lists(c, b), NEW s, Conflicting(b, s)
  PROVE  Conflicting(c, s) /\ FindingsOf(c, s) # {}
<1>1. PICK F, G : F = FindingsOf(b, s) /\ G = FindingsOf(c, s)
  OBVIOUS
<1>2. /\ \A f \in F : \E g \in G : SameFinding(f, g)
      /\ \A g \in G : \E f \in F : SameFinding(g, f)
      /\ Cardinality(F) = Cardinality(G)
  <2>1. Cardinality(F) <= Cardinality(G) /\ Cardinality(G) <= Cardinality(F)
        /\ Cardinality(F) \in Nat /\ Cardinality(G) \in Nat
    BY <1>1, ListedRecords
  <2> QED
    BY <1>1, <2>1, ListedRecords
<1>3. {f.verdict : f \in F} = {g.verdict : g \in G}
  BY <1>2 DEF SameFinding
<1>4. Assignments(F) = Assignments(G)
  <2>1. \A f \in F : \E g \in G : SameFinding(f, g)
    BY <1>2
  <2>2. \A g \in G : \E f \in F : SameFinding(g, f)
    BY <1>2
  <2>3. Assignments(F) \subseteq Assignments(G)
    BY <2>1, ListedAssignments
  <2>4. Assignments(G) \subseteq Assignments(F)
    BY <2>2, ListedAssignments
  <2> QED
    BY <2>3, <2>4
<1>5. Conflicting(c, s)
  BY <1>1, <1>2, <1>3, <1>4 DEF Conflicting
<1>6. G # {}
  <2>1. SUFFICES ASSUME G = {} PROVE FALSE
    OBVIOUS
  <2>2. F = {}
    BY <1>2, <2>1
  <2>3. {f.verdict : f \in F} = {}
    BY <2>2
  <2> QED
    BY <1>1, <2>2, <2>3, FS_EmptySet DEF Conflicting
<1> QED
  BY <1>1, <1>5, <1>6

\* A rule that does not look at materiality finds what it found, whatever the
\* order.
LEMMA ListedBlockers ==
  ASSUME NEW b, NEW c, Lists(b, c), Lists(c, b), NEW k \in HardBlockers(b)
  PROVE  \E l \in HardBlockers(c) : l.kind = k.kind /\ l.ref = k.ref
<1>1. /\ Typed(b) /\ Typed(c)
      /\ c.period = b.period /\ c.net = b.net /\ c.late = b.late /\ c.blocked = b.blocked
      /\ \A f \in b.findings : \E g \in c.findings : SameFinding(f, g)
      /\ \A e \in b.exceptions : \E d \in c.exceptions : SameException(e, d)
  BY DEF Lists
<1>11. CASE k \in Untimely(b)
  <2>1. Untimely(c) = Untimely(b)
    BY <1>1 DEF Untimely
  <2> QED
    BY <1>11, <2>1 DEF HardBlockers
<1>12. CASE k \in Disagreements(b)
  <2>1. PICK s \in b.period : /\ Conflicting(b, s) /\ k.kind = "CONTRADICTORY_EVIDENCE"
                              /\ k.ref = Settlement(s)
    BY <1>12 DEF Disagreements, Blocker
  <2>2. Conflicting(c, s)
    BY <2>1, ListedConflict
  <2>3. Blocker(<<2, First(FindingsOf(c, s)).at, 0>>, "CONTRADICTORY_EVIDENCE", Settlement(s), 0)
          \in Disagreements(c)
    BY <1>1, <2>1, <2>2 DEF Disagreements
  <2> QED
    BY <2>1, <2>3 DEF Blocker, HardBlockers
<1>13. CASE k \in Contradictions(b)
  <2>1. PICK f \in b.findings : k \in Contradicted(b, f)
    BY <1>13 DEF Contradictions
  <2>2. PICK e \in ExceptionsOf(b, f.sid) :
          /\ f.verdict = "CONTRADICTED" /\ Wholly(e)
          /\ k.kind = "CONTRADICTORY_EVIDENCE" /\ k.ref = Exception(e)
    BY <2>1 DEF Contradicted, Blocker
  <2>3. PICK g \in c.findings : SameFinding(f, g)
    BY <1>1
  <2>4. PICK d \in ExceptionsOf(c, f.sid) : SameException(e, d)
    BY ListedRecords
  <2>5. /\ d \in ExceptionsOf(c, g.sid) /\ g.verdict = "CONTRADICTED" /\ Wholly(d)
        /\ Exception(d) = Exception(e)
    BY <2>2, <2>3, <2>4 DEF SameFinding, SameException, Wholly, Exception
  <2>6. Blocker(<<3, g.at, d.at>>, "CONTRADICTORY_EVIDENCE", Exception(d), d.unexplained)
          \in Contradicted(c, g)
    BY <2>5 DEF Contradicted
  <2> QED
    BY <2>2, <2>3, <2>5, <2>6 DEF Blocker, Contradictions, HardBlockers
<1>14. CASE k \in DuplicateImpact(b)
  <2>1. PICK p \in UNION Assignments(ProvenOf(b)) : \E s \in Citing(b, p) :
          /\ Cardinality(Citing(b, p)) > 1
          /\ k.kind = "DUPLICATE_LEDGER_IMPACT" /\ k.ref = SharedOrder(s, p)
    BY <1>14 DEF DuplicateImpact, Blocker
  <2>2. PICK s \in Citing(b, p) : /\ Cardinality(Citing(b, p)) > 1
                                  /\ k.kind = "DUPLICATE_LEDGER_IMPACT" /\ k.ref = SharedOrder(s, p)
    BY <2>1
  <2>3. Citing(c, p) = Citing(b, p)
    BY ListedCiting
  <2>4. p \in UNION Assignments(ProvenOf(c))
    <3>1. s \in Citing(c, p)
      BY <2>3
    <3>2. PICK g \in ProvenOf(c) : \E i \in DOMAIN g.proofs : p \in g.proofs[i].orders
      BY <3>1 DEF Citing
    <3>3. PICK i \in DOMAIN g.proofs : p \in g.proofs[i].orders
      BY <3>2
    <3>4. g.proofs[i].orders \in Assignments(ProvenOf(c))
      BY DEF Assignments
    <3> QED
      BY <3>3, <3>4
  <2>5. Blocker(<<4, p, s>>, "DUPLICATE_LEDGER_IMPACT", SharedOrder(s, p), 0) \in DuplicateImpact(c)
    BY <2>2, <2>3, <2>4 DEF DuplicateImpact
  <2> QED
    BY <2>2, <2>5 DEF Blocker, HardBlockers
<1>15. CASE k \in FailedInvariants(b)
  <2>1. PICK f \in b.findings : k \in FailedBy(f)
    BY <1>15 DEF FailedInvariants
  <2>2. PICK g \in c.findings : SameFinding(f, g)
    BY <1>1
  <2>3. CASE f.verdict = "PROVEN" /\ ~f.postable /\ k.kind = "FAILED_INVARIANT" /\ k.ref = Settlement(f.sid)
    <3>1. Blocker(<<5, g.at, 0>>, "FAILED_INVARIANT", Settlement(g.sid), 0) \in FailedBy(g)
      BY <2>2, <2>3 DEF FailedBy, SameFinding
    <3> QED
      BY <2>2, <2>3, <3>1 DEF Blocker, FailedInvariants, HardBlockers, SameFinding
  <2>4. CASE \E i \in DOMAIN f.proofs : /\ f.proofs[i].off > 0
                                        /\ k.kind = "FAILED_INVARIANT" /\ k.ref = Settlement(f.sid)
    <3>1. PICK i \in DOMAIN f.proofs : f.proofs[i].off > 0
      BY <2>4
    <3>2. Blocker(<<5, g.at, i>>, "FAILED_INVARIANT", Settlement(g.sid), g.proofs[i].off) \in FailedBy(g)
      BY <2>2, <3>1 DEF FailedBy, SameFinding
    <3> QED
      BY <2>2, <2>4, <3>2 DEF Blocker, FailedInvariants, HardBlockers, SameFinding
  <2> QED
    BY <2>1, <2>3, <2>4 DEF FailedBy, Blocker
<1>16. CASE k \in Compromised(b)
  <2>1. PICK f \in b.findings : f.lossy /\ k.kind = "COMPROMISED_INTEGRITY" /\ k.ref = Settlement(f.sid)
    BY <1>16 DEF Compromised, Blocker
  <2>2. PICK g \in c.findings : SameFinding(f, g)
    BY <1>1
  <2>3. Blocker(<<6, g.at, 0>>, "COMPROMISED_INTEGRITY", Settlement(g.sid), 0) \in Compromised(c)
    BY <2>1, <2>2 DEF Compromised, SameFinding
  <2> QED
    BY <2>1, <2>2, <2>3 DEF Blocker, HardBlockers, SameFinding
<1>17. CASE k \in Prohibited(b)
  <2>1. Prohibited(c) = Prohibited(b)
    BY <1>1 DEF Prohibited
  <2> QED
    BY <1>17, <2>1 DEF HardBlockers
<1>18. CASE k \in Serious(b)
  <2>1. PICK e \in b.exceptions : /\ e.severity = "HIGH" /\ k.kind = "HIGH_SEVERITY_EXCEPTION"
                                  /\ k.ref = Exception(e)
    BY <1>18 DEF Serious, Blocker
  <2>2. PICK d \in c.exceptions : SameException(e, d)
    BY <1>1
  <2>3. Blocker(<<8, d.at, 0>>, "HIGH_SEVERITY_EXCEPTION", Exception(d), Magnitude(d.unexplained))
          \in Serious(c)
    BY <2>1, <2>2 DEF Serious, SameException
  <2> QED
    BY <2>1, <2>2, <2>3 DEF Blocker, HardBlockers, SameException, Exception
<1>19. CASE k \in Unexamined(b)
  <2>1. PICK s \in b.period : /\ FindingsOf(b, s) = {} /\ ExceptionsOf(b, s) = {}
                              /\ k = Blocker(<<9, s, 0>>, "MISSING_SETTLEMENT", Settlement(s), 0)
    BY <1>19 DEF Unexamined
  <2>2. FindingsOf(c, s) = {} /\ ExceptionsOf(c, s) = {}
    BY <2>1, ListedRecords
  <2>3. k \in Unexamined(c)
    BY <1>1, <2>1, <2>2 DEF Unexamined
  <2> QED
    BY <2>3 DEF HardBlockers
<1> QED
  BY <1>11, <1>12, <1>13, <1>14, <1>15, <1>16, <1>17, <1>18, <1>19 DEF HardBlockers

\* A settlement proven whichever finding is read first is proven by all of them.
LEMMA ProvenByAll ==
  ASSUME NEW b, Typed(b), NEW s, FindingOf(b, s).verdict = "PROVEN"
  PROVE  /\ FindingOf(b, s) \in FindingsOf(b, s)
         /\ \A f \in FindingsOf(b, s) : f.verdict = "PROVEN"
<1>1. FindingOf(b, s) # NoFinding
  BY DEF NoFinding
<1> QED
  BY <1>1, FindingOfIs

LEMMA ListedExplained ==
  ASSUME NEW b, NEW c, Lists(b, c), Lists(c, b), NEW s,
         \A f, g \in FindingsOf(b, s) :
           f.verdict = "PROVEN" /\ g.verdict = "PROVEN" => f.postable = g.postable,
         Explained(FindingOf(b, s))
  PROVE  Explained(FindingOf(c, s))
<1>1. PICK f : f = FindingOf(b, s)
  OBVIOUS
<1>2. PICK g : g = FindingOf(c, s)
  OBVIOUS
<1>3. Typed(b) /\ Typed(c)
  BY DEF Lists
<1>4. f \in FindingsOf(b, s) /\ \A h \in FindingsOf(b, s) : h.verdict = "PROVEN"
  BY <1>1, <1>3, ProvenByAll DEF Explained
<1>5. FindingsOf(c, s) # {}
  BY <1>4, ListedRecords
<1>6. g \in FindingsOf(c, s)
  BY <1>2, <1>3, <1>5, FindingOfIs
<1>7. PICK h \in FindingsOf(b, s) : SameFinding(g, h)
  BY <1>6, ListedRecords
<1>8. h.postable = f.postable /\ f.postable
  BY <1>1, <1>4, <1>7 DEF Explained
<1> QED
  BY <1>2, <1>4, <1>7, <1>8 DEF Explained, SameFinding

LEMMA ListedValue ==
  ASSUME NEW b, NEW c, Lists(b, c), Lists(c, b), NEW s,
         \/ s \in DOMAIN b.net
         \/ /\ \A f, g \in FindingsOf(b, s) : f = g
            /\ \A d, e \in ExceptionsOf(b, s) : d = e
  PROVE  Value(c, s) = Value(b, s)
<1>1. Typed(b) /\ Typed(c) /\ c.net = b.net
  BY DEF Lists
<1>2. CASE s \in DOMAIN b.net
  BY <1>1, <1>2, ValueIsNat
<1>3. CASE /\ s \notin DOMAIN b.net
           /\ \A f, g \in FindingsOf(b, s) : f = g
           /\ \A d, e \in ExceptionsOf(b, s) : d = e
  <2>1. FindingOf(c, s).proofs = FindingOf(b, s).proofs
    <3>1. CASE FindingsOf(b, s) = {}
      <4>1. FindingsOf(c, s) = {}
        BY <3>1, ListedRecords
      <4> QED
        BY <1>1, <3>1, <4>1, FindingOfIs
    <3>2. CASE FindingsOf(b, s) # {}
      <4>1. FindingsOf(c, s) # {}
        BY <3>2, ListedRecords
      <4>2. FindingOf(b, s) \in FindingsOf(b, s) /\ FindingOf(c, s) \in FindingsOf(c, s)
        BY <1>1, <3>2, <4>1, FindingOfIs
      <4>3. PICK h \in FindingsOf(b, s) : SameFinding(FindingOf(c, s), h)
        BY <4>2, ListedRecords
      <4> QED
        BY <1>3, <4>2, <4>3 DEF SameFinding
    <3> QED
      BY <3>1, <3>2
  <2>2. ExceptionOf(c, s).amount = ExceptionOf(b, s).amount
    <3>1. CASE ExceptionsOf(b, s) = {}
      <4>1. ExceptionsOf(c, s) = {}
        BY <3>1, ListedRecords
      <4> QED
        BY <1>1, <3>1, <4>1, ExceptionOfIs
    <3>2. CASE ExceptionsOf(b, s) # {}
      <4>1. ExceptionsOf(c, s) # {}
        BY <3>2, ListedRecords
      <4>2. ExceptionOf(b, s) \in ExceptionsOf(b, s) /\ ExceptionOf(c, s) \in ExceptionsOf(c, s)
        BY <1>1, <3>2, <4>1, ExceptionOfIs
      <4>3. PICK h \in ExceptionsOf(b, s) : SameException(ExceptionOf(c, s), h)
        BY <4>2, ListedRecords
      <4> QED
        BY <1>3, <4>2, <4>3 DEF SameException
    <3> QED
      BY <3>1, <3>2
  <2>3. PICK p, q : p = FindingOf(b, s).proofs /\ q = ExceptionOf(b, s).amount
    OBVIOUS
  <2>4. Value(b, s) = IF p # <<>> THEN Magnitude(p[1].net) ELSE Magnitude(q)
    BY <1>3, <2>3 DEF Value
  <2>5. Value(c, s) = IF p # <<>> THEN Magnitude(p[1].net) ELSE Magnitude(q)
    BY <1>1, <1>3, <2>1, <2>2, <2>3 DEF Value
  <2> QED
    BY <2>4, <2>5
<1> QED
  BY <1>2, <1>3

LEMMA ExplainedPart ==
  ASSUME NEW b, Typed(b), NEW s, Explained(FindingOf(b, s)),
         NEW k \in Int, k = ExceptionOf(b, s).unexplained, NEW v, v = Value(b, s)
  PROVE  /\ k < 0 => VerifiedPart(b, s) = 0
         /\ k = 0 => VerifiedPart(b, s) = v
         /\ k > 0 => VerifiedPart(b, s) = v - Lesser(v, k)
BY VerifiedIs

\* As much is verified of a settlement, as long as what is doubted of a proven
\* one is all on one side.
LEMMA ListedVerified ==
  ASSUME NEW b, NEW c, Lists(b, c), Lists(c, b), NEW s,
         \A f, g \in FindingsOf(b, s) :
           f.verdict = "PROVEN" /\ g.verdict = "PROVEN" => f.postable = g.postable,
         \A d, e \in ExceptionsOf(b, s) :
           d.unexplained < 0 /\ e.unexplained > 0 => ~Explained(FindingOf(b, s)),
         Value(c, s) = Value(b, s)
  PROVE  VerifiedPart(c, s) = VerifiedPart(b, s)
<1>1. Typed(b) /\ Typed(c)
  BY DEF Lists
<1>2. \A f, g \in FindingsOf(c, s) :
        f.verdict = "PROVEN" /\ g.verdict = "PROVEN" => f.postable = g.postable
  <2>1. SUFFICES ASSUME NEW f \in FindingsOf(c, s), NEW g \in FindingsOf(c, s),
                        f.verdict = "PROVEN", g.verdict = "PROVEN"
                 PROVE  f.postable = g.postable
    OBVIOUS
  <2>2. PICK p \in FindingsOf(b, s), q \in FindingsOf(b, s) : SameFinding(f, p) /\ SameFinding(g, q)
    BY ListedRecords
  <2> QED
    BY <2>1, <2>2 DEF SameFinding
<1>3. Explained(FindingOf(c, s)) <=> Explained(FindingOf(b, s))
  BY <1>2, ListedExplained
<1>4. CASE ~Explained(FindingOf(b, s))
  BY <1>1, <1>3, <1>4, VerifiedIs
<1>5. CASE Explained(FindingOf(b, s))
  <2>1. PICK m, n : m = ExceptionOf(b, s) /\ n = ExceptionOf(c, s)
    OBVIOUS
  <2>2. m.unexplained = n.unexplained
    <3>1. CASE ExceptionsOf(b, s) = {}
      <4>1. ExceptionsOf(c, s) = {}
        BY <3>1, ListedRecords
      <4> QED
        BY <1>1, <2>1, <3>1, <4>1, ExceptionOfIs
    <3>2. CASE ExceptionsOf(b, s) # {}
      <4>1. ExceptionsOf(c, s) # {}
        BY <3>2, ListedRecords
      <4>2. m \in ExceptionsOf(b, s) /\ n \in ExceptionsOf(c, s)
        BY <1>1, <2>1, <3>2, <4>1, ExceptionOfIs
      <4>3. PICK p \in ExceptionsOf(b, s), q \in ExceptionsOf(c, s) :
              p.unexplained = n.unexplained /\ q.unexplained = m.unexplained
        BY <4>2, ListedRecords DEF SameException
      <4>4. /\ Magnitude(p.unexplained) <= Magnitude(m.unexplained)
            /\ Magnitude(q.unexplained) <= Magnitude(n.unexplained)
        BY <1>1, <2>1, ExceptionOfIs
      <4>5. m.unexplained \in Int /\ n.unexplained \in Int
        BY <1>1, <2>1, SpokenForTyped
      <4>6. Magnitude(m.unexplained) = Magnitude(n.unexplained)
        BY <4>3, <4>4, <4>5 DEF Magnitude
      <4>7. /\ ~(m.unexplained < 0 /\ p.unexplained > 0)
            /\ ~(p.unexplained < 0 /\ m.unexplained > 0)
        BY <1>5, <4>2
      <4> QED
        BY <4>3, <4>5, <4>6, <4>7 DEF Magnitude
    <3> QED
      BY <3>1, <3>2
  <2>3. PICK v \in Nat : v = Value(b, s) /\ v = Value(c, s)
    BY <1>1, ValueIsNat
  <2>4. PICK k \in Int : k = m.unexplained /\ k = n.unexplained
    BY <1>1, <2>1, <2>2, SpokenForTyped
  <2>5. /\ k < 0 => VerifiedPart(b, s) = 0
        /\ k = 0 => VerifiedPart(b, s) = v
        /\ k > 0 => VerifiedPart(b, s) = v - Lesser(v, k)
    <3>1. Explained(FindingOf(b, s)) /\ k = ExceptionOf(b, s).unexplained /\ v = Value(b, s)
      BY <1>5, <2>1, <2>3, <2>4
    <3> QED
      BY ONLY <1>1, <3>1, k \in Int, ExplainedPart
  <2>6. /\ k < 0 => VerifiedPart(c, s) = 0
        /\ k = 0 => VerifiedPart(c, s) = v
        /\ k > 0 => VerifiedPart(c, s) = v - Lesser(v, k)
    BY <1>1, <1>3, <1>5, <2>1, <2>3, <2>4, ExplainedPart
  <2> QED
    BY <2>4, <2>5, <2>6
<1> QED
  BY <1>4, <1>5

\* What is doubted of a settlement is all on one side or it is not explained, and
\* one that is not filed has one finding and one exception at most.
Read(b) ==
  \A s \in b.period :
    /\ \A d, e \in ExceptionsOf(b, s) :
         d.unexplained < 0 /\ e.unexplained > 0 => ~Explained(FindingOf(b, s))
    /\ \/ s \in DOMAIN b.net
       \/ /\ \A f, g \in FindingsOf(b, s) : f = g
          /\ \A d, e \in ExceptionsOf(b, s) : d = e

\* Two assessments of one period: as much in all, and as much open.
LEMMA ListedExposure ==
  ASSUME NEW b, NEW c, Lists(b, c), Lists(c, b), Read(b),
         NEW x, x = AssessExposure(b), NEW y, y = AssessExposure(c)
  PROVE  /\ y.total = x.total
         /\ \A s \in b.period : Value(c, s) = Value(b, s)
         /\ Alike(b) => y.net = x.net
<1>1. PICK D : D = b.period /\ D = c.period
  BY DEF Lists
<1>2. \A s \in D : Value(c, s) = Value(b, s)
  BY <1>1, ListedValue DEF Read
<1>3. PICK n : n = [s \in D |-> Value(b, s)] /\ n = [s \in D |-> Value(c, s)]
  BY <1>2
<1>4. x.total = Total(n, D) /\ y.total = Total(n, D)
  BY <1>1, <1>3 DEF AssessExposure, Exposed
<1>5. ASSUME Alike(b) PROVE y.net = x.net
  <2>1. \A s \in D : \A f, g \in FindingsOf(b, s) :
          f.verdict = "PROVEN" /\ g.verdict = "PROVEN" => f.postable = g.postable
    BY <1>5 DEF Alike, ProvenOf, FindingsOf
  <2>2. \A s \in D : VerifiedPart(c, s) = VerifiedPart(b, s)
    <3>1. SUFFICES ASSUME NEW s \in D PROVE VerifiedPart(c, s) = VerifiedPart(b, s)
      OBVIOUS
    <3>2. Value(c, s) = Value(b, s)
      BY <1>2
    <3>3. \A d, e \in ExceptionsOf(b, s) :
            d.unexplained < 0 /\ e.unexplained > 0 => ~Explained(FindingOf(b, s))
      BY <1>1 DEF Read
    <3> QED
      BY <2>1, <3>2, <3>3, ListedVerified
  <2>3. PICK m : m = [s \in D |-> VerifiedPart(b, s)] /\ m = [s \in D |-> VerifiedPart(c, s)]
    BY <2>2
  <2>4. x.net = Total(n, D) - Total(m, D) /\ y.net = Total(n, D) - Total(m, D)
    BY <1>1, <1>3, <2>3 DEF AssessExposure, Exposed
  <2> QED
    BY <2>4
<1> QED
  BY <1>1, <1>2, <1>4, <1>5

\* Where no hard rule is broken, proofs may post and the findings of a
\* settlement agree.
LEMMA NothingHard ==
  ASSUME NEW b, Typed(b), \A f \in b.findings : f.sid \in b.period, HardBlockers(b) = {}
  PROVE  /\ \A f \in b.findings : f.verdict = "PROVEN" => f.postable
         /\ Alike(b)
         /\ \A s \in b.period : \A f, g \in FindingsOf(b, s) : f.verdict = g.verdict
<1>1. ASSUME NEW f \in b.findings, f.verdict = "PROVEN", ~f.postable PROVE FALSE
  <2>1. Blocker(<<5, f.at, 0>>, "FAILED_INVARIANT", Settlement(f.sid), 0) \in FailedBy(f)
    BY <1>1 DEF FailedBy
  <2>2. Blocker(<<5, f.at, 0>>, "FAILED_INVARIANT", Settlement(f.sid), 0) \in HardBlockers(b)
    BY <2>1 DEF FailedInvariants, HardBlockers
  <2> QED
    BY <2>2
<1>2. \A f, g \in ProvenOf(b) : f.postable = g.postable
  <2>1. \A f \in ProvenOf(b) : f.postable = TRUE
    <3>1. \A f \in ProvenOf(b) : f.postable /\ f.postable \in BOOLEAN
      BY <1>1 DEF ProvenOf, Typed, Finding
    <3> QED
      BY <3>1
  <2> QED
    BY <2>1
<1>3. ASSUME NEW s \in b.period, NEW f \in FindingsOf(b, s), NEW g \in FindingsOf(b, s),
             f.verdict # g.verdict
      PROVE  FALSE
  <2>1. PICK V : V = {h.verdict : h \in FindingsOf(b, s)}
    OBVIOUS
  <2>2. IsFiniteSet(V)
    <3>1. PICK t : t = [h \in FindingsOf(b, s) |-> h.verdict]
      OBVIOUS
    <3>2. IsFiniteSet({t[h] : h \in FindingsOf(b, s)})
      BY RecordsOfSettlement, ImageIsFinite
    <3>3. V = {t[h] : h \in FindingsOf(b, s)}
      BY <2>1, <3>1
    <3> QED
      BY <3>2, <3>3
  <2>3. Cardinality({f.verdict, g.verdict}) = 2
    <3>1. Cardinality({f.verdict}) = 1 /\ IsFiniteSet({f.verdict})
      BY FS_Singleton
    <3>2. Cardinality({f.verdict} \cup {g.verdict}) = Cardinality({f.verdict}) + 1
      BY <1>3, <3>1, FS_AddElement
    <3>3. {f.verdict} \cup {g.verdict} = {f.verdict, g.verdict}
      OBVIOUS
    <3> QED
      BY <3>1, <3>2, <3>3
  <2>4. Cardinality(V) > 1
    <3>1. {f.verdict, g.verdict} \in SUBSET V
      BY <2>1
    <3>2. Cardinality({f.verdict, g.verdict}) <= Cardinality(V) /\ Cardinality(V) \in Nat
      BY <2>2, <3>1, FS_Subset, FS_CardinalityType
    <3> QED
      BY <2>3, <3>2
  <2>5. Conflicting(b, s)
    BY <2>1, <2>4 DEF Conflicting
  <2>6. Blocker(<<2, First(FindingsOf(b, s)).at, 0>>, "CONTRADICTORY_EVIDENCE", Settlement(s), 0)
          \in HardBlockers(b)
    BY <2>5 DEF Disagreements, HardBlockers
  <2> QED
    BY <2>6
<1>4. Alike(b)
  BY <1>2 DEF Alike
<1> QED
  BY <1>1, <1>3, <1>4

\* What stands for a settlement is ambiguous in either order.
LEMMA ListedAmbiguous ==
  ASSUME NEW b, NEW c, Lists(b, c), Lists(c, b), \A f \in b.findings : f.sid \in b.period,
         HardBlockers(b) = {}, NEW s \in b.period, ItemOf(b, s).kind = "AMBIGUOUS"
  PROVE  ItemOf(c, s).kind = "AMBIGUOUS"
<1>1. Typed(b) /\ Typed(c)
  BY DEF Lists
<1>2. PICK f : f = FindingOf(b, s)
  OBVIOUS
<1>3. f.verdict = "AMBIGUOUS" \/ (f.verdict = "PROVEN" /\ ~f.postable)
  BY <1>1, <1>2, AmbiguousIs
<1>4. f # NoFinding
  BY <1>3 DEF NoFinding
<1>5. f \in FindingsOf(b, s) /\ f \in b.findings
  BY <1>1, <1>2, <1>4, FindingOfIs DEF FindingsOf
<1>6. f.verdict = "AMBIGUOUS"
  BY <1>1, <1>3, <1>5, NothingHard
<1>7. FindingOf(c, s) \in FindingsOf(c, s)
  BY <1>1, <1>5, FindingOfIs, ListedRecords
<1>8. PICK h \in FindingsOf(b, s) : SameFinding(FindingOf(c, s), h)
  BY <1>7, ListedRecords
<1>9. h.verdict = f.verdict
  BY <1>1, <1>5, NothingHard
<1> QED
  BY <1>1, <1>6, <1>8, <1>9, AmbiguousIs DEF SameFinding

\* So the period is blocked in one order when it is in the other.
LEMMA ListedBlocks ==
  ASSUME NEW b, NEW c, Lists(b, c), Lists(c, b), Read(b),
         \A f \in b.findings : f.sid \in b.period,
         \A f \in c.findings : f.sid \in c.period
  PROVE  Blockers(b) = {} <=> Blockers(c) = {}
<1>1. HardBlockers(b) = {} <=> HardBlockers(c) = {}
  BY ListedBlockers
<1>2. CASE HardBlockers(b) # {}
  BY <1>1, <1>2 DEF Blockers
<1>3. CASE HardBlockers(b) = {}
  <2>1. PICK x, y : x = AssessExposure(b) /\ y = AssessExposure(c)
    OBVIOUS
  <2>2. /\ Typed(b) /\ Typed(c) /\ c.period = b.period
        /\ HardBlockers(c) = {}
    BY <1>1, <1>3 DEF Lists
  <2>3. Alike(b)
    BY <1>3, <2>2, NothingHard
  <2>4. y.total = x.total /\ y.net = x.net /\ \A s \in b.period : Value(c, s) = Value(b, s)
    BY <2>1, <2>3, ListedExposure
  <2>5. \A s \in b.period : ItemOf(b, s).kind = "AMBIGUOUS" <=> ItemOf(c, s).kind = "AMBIGUOUS"
    BY <1>3, <2>2, ListedAmbiguous
  <2>6. /\ \A s \in b.period : x.item[s] = ItemOf(b, s) /\ y.item[s] = ItemOf(c, s)
        /\ x.items = {s \in b.period : ItemOf(b, s).kind # "VERIFIED"}
        /\ y.items = {s \in b.period : ItemOf(c, s).kind # "VERIFIED"}
    BY <2>1, <2>2 DEF AssessExposure, Exposed
  <2>7. PICK bound : bound = Allowable(x.total)
    OBVIOUS
  <2>8. {t \in x.items : x.item[t].kind = "AMBIGUOUS" /\ Value(b, t) > bound}
          = {t \in y.items : y.item[t].kind = "AMBIGUOUS" /\ Value(c, t) > bound}
    BY <2>4, <2>5, <2>6
  <2>9. PICK S : /\ S = {t \in x.items : x.item[t].kind = "AMBIGUOUS" /\ Value(b, t) > bound}
                 /\ S = {t \in y.items : y.item[t].kind = "AMBIGUOUS" /\ Value(c, t) > bound}
    BY <2>8
  <2>10. MaterialBlockers(b, x) = {} <=> (S = {} /\ ~(x.net > bound))
    BY ONLY <2>7, <2>9 DEF MaterialBlockers
  <2>11. MaterialBlockers(c, y) = {} <=> (S = {} /\ ~(y.net > bound))
    <3>1. bound = Allowable(y.total)
      BY <2>4, <2>7
    <3> QED
      BY ONLY <3>1, <2>9 DEF MaterialBlockers
  <2> QED
    BY <1>3, <2>1, <2>2, <2>4, <2>10, <2>11 DEF Blockers
<1> QED
  BY <1>2, <1>3

LEMMA OrderIgnored == DashInv => DecisionIgnoresOrder
<1> SUFFICES ASSUME DashInv, Idle,
                    NEW other, other = DecidePeriod(Backwards(book))
             PROVE  /\ other.decision = verdict.decision
                    /\ HardMarks(other) = HardMarks(verdict)
                    /\ {e.id : e \in other.carried} = {e.id : e \in verdict.carried}
                    /\ Alike(book) => other.net = verdict.net
  BY DEF DecisionIgnoresOrder
<1>1. Typed(book) /\ Plain(book) /\ verdict = DecidePeriod(book)
  BY BooksAre, VerdictInHand, PlainAssumption DEF DashInv, Idle
<1>2. Lists(book, Backwards(book)) /\ Lists(Backwards(book), book) /\ Typed(Backwards(book))
  BY <1>1, BackwardsLists, BackwardsIsTyped
<1>3. PICK b, c : b = Scoped(book) /\ c = Scoped(Backwards(book))
  OBVIOUS
<1>4. Lists(b, c) /\ Lists(c, b)
  BY <1>2, <1>3, ScopedLists
<1>5. /\ \A f \in b.findings : f.sid \in b.period
      /\ \A f \in c.findings : f.sid \in c.period
      /\ b.period = book.period /\ b.net = book.net
      /\ b.findings \subseteq book.findings
      /\ \A s \in b.period : /\ FindingsOf(b, s) = FindingsOf(book, s)
                             /\ ExceptionsOf(b, s) = ExceptionsOf(book, s)
  BY <1>1, <1>2, <1>3, ScopedFields, ScopedIsTyped
<1>6. Read(b)
  <2>1. \A s \in b.period : FindingOf(b, s) = FindingOf(book, s)
    BY <1>5 DEF FindingOf
  <2> QED
    BY <1>1, <1>5, <2>1 DEF Read, Plain
<1>7. PICK x, y : x = AssessExposure(b) /\ y = AssessExposure(c)
  OBVIOUS
<1>8. /\ verdict.blockers \subseteq Blockers(b)
      /\ \A k \in Blockers(b) : \E l \in verdict.blockers : l.kind = k.kind /\ l.ref = k.ref
      /\ verdict.decision = "BLOCKED" <=> verdict.blockers # {}
      /\ verdict.decision = "READY_TO_CLOSE"
           <=> verdict.blockers = {} /\ x.net <= 0 /\ b.exceptions = {}
      /\ verdict.carried = IF verdict.decision = "READY_WITH_CARRY_FORWARD" THEN b.exceptions ELSE {}
      /\ verdict.net = x.net
      /\ verdict.decision \in {"BLOCKED", "READY_TO_CLOSE", "READY_WITH_CARRY_FORWARD"}
  BY <1>1, <1>3, <1>7, VerdictIs
<1>9. /\ other.blockers \subseteq Blockers(c)
      /\ \A k \in Blockers(c) : \E l \in other.blockers : l.kind = k.kind /\ l.ref = k.ref
      /\ other.decision = "BLOCKED" <=> other.blockers # {}
      /\ other.decision = "READY_TO_CLOSE"
           <=> other.blockers = {} /\ y.net <= 0 /\ c.exceptions = {}
      /\ other.carried = IF other.decision = "READY_WITH_CARRY_FORWARD" THEN c.exceptions ELSE {}
      /\ other.net = y.net
      /\ other.decision \in {"BLOCKED", "READY_TO_CLOSE", "READY_WITH_CARRY_FORWARD"}
  BY <1>2, <1>3, <1>7, VerdictIs
<1>10. verdict.blockers = {} <=> other.blockers = {}
  BY <1>4, <1>5, <1>6, <1>8, <1>9, ListedBlocks
<1>11. {e.id : e \in c.exceptions} = {e.id : e \in b.exceptions}
  BY <1>4 DEF Lists, SameException
<1>12. ASSUME verdict.blockers = {} PROVE y.net = x.net
  <2>1. Blockers(b) = {}
    BY <1>8, <1>12
  <2>2. Alike(b)
    BY <1>4, <1>5, <2>1, NothingHard DEF Blockers, Lists
  <2> QED
    BY <1>4, <1>6, <1>7, <2>2, ListedExposure
<1>13. c.exceptions = {} <=> b.exceptions = {}
  BY <1>4 DEF Lists
<1>14. other.decision = verdict.decision
  BY <1>8, <1>9, <1>10, <1>12, <1>13
<1>15. {e.id : e \in other.carried} = {e.id : e \in verdict.carried}
  BY <1>8, <1>9, <1>11, <1>14
<1>16. Alike(book) => other.net = verdict.net
  <2>1. Alike(book) => Alike(b)
    BY <1>5 DEF Alike, ProvenOf
  <2> QED
    BY <1>4, <1>6, <1>7, <1>8, <1>9, <2>1, ListedExposure
<1>17. HardMarks(other) \subseteq HardMarks(verdict)
  <2>1. SUFFICES ASSUME NEW k \in other.blockers, k.kind \notin MaterialKinds
                 PROVE  \E l \in verdict.blockers : l.kind = k.kind /\ l.ref = k.ref
    BY DEF HardMarks, Marks
  <2>2. k \in HardBlockers(c)
    BY <1>9, <2>1, MaterialBlockerIs DEF Blockers
  <2>3. PICK l \in HardBlockers(b) : l.kind = k.kind /\ l.ref = k.ref
    BY <1>4, <2>2, ListedBlockers
  <2> QED
    BY <1>8, <2>3 DEF Blockers
<1>18. HardMarks(verdict) \subseteq HardMarks(other)
  <2>1. SUFFICES ASSUME NEW k \in verdict.blockers, k.kind \notin MaterialKinds
                 PROVE  \E l \in other.blockers : l.kind = k.kind /\ l.ref = k.ref
    BY DEF HardMarks, Marks
  <2>2. k \in HardBlockers(b)
    BY <1>8, <2>1, MaterialBlockerIs DEF Blockers
  <2>3. PICK l \in HardBlockers(c) : l.kind = k.kind /\ l.ref = k.ref
    BY <1>4, <2>2, ListedBlockers
  <2> QED
    BY <1>9, <2>3 DEF Blockers
<1> QED
  BY <1>14, <1>15, <1>16, <1>17, <1>18

\* The decision, the rules broken and what is carried do not depend on the order
\* in which the evidence is listed.
THEOREM OrderDoesNotDecide == DashSpec => []DecisionIgnoresOrder
BY DashboardInvariant, OrderIgnored, PTL

-----------------------------------------------------------------------------
(* What is shown *)

\* An exception that no blocker is on is not of high severity, and leaves no
\* more open than is allowable of the whole.
LEMMA UnblockedExceptionIs ==
  ASSUME WellFormed(book), verdict = DecidePeriod(book), NEW b, b = Scoped(book),
         NEW x, x = AssessExposure(b), NEW f \in b.exceptions, ~IsHard(verdict, f)
  PROVE  /\ f.severity # "HIGH"
         /\ ~(Magnitude(f.unexplained) > Allowable(x.total))
         /\ OnIt(verdict, f) = {}
<1>1. OnIt(verdict, f) = {}
  BY DEF IsHard
<1>2. \A k \in verdict.blockers : k.ref # Exception(f)
  BY <1>1 DEF OnIt
<1>3. Typed(book)
  BY DEF WellFormed
<1>4. f.severity # "HIGH"
  <2>1. SUFFICES ASSUME f.severity = "HIGH" PROVE FALSE
    OBVIOUS
  <2>2. PICK k : k = Blocker(<<8, f.at, 0>>, "HIGH_SEVERITY_EXCEPTION", Exception(f),
                             Magnitude(f.unexplained))
    OBVIOUS
  <2>3. k \in Serious(b)
    BY <2>1, <2>2 DEF Serious
  <2>4. k \in Blockers(b)
    BY <2>3 DEF Blockers, HardBlockers
  <2>5. \E l \in verdict.blockers : l.kind = k.kind /\ l.ref = k.ref
    BY <1>3, <2>4, VerdictIs
  <2>6. k.ref = Exception(f)
    BY <2>2 DEF Blocker
  <2> QED
    BY <1>2, <2>5, <2>6
<1>5. ~(Magnitude(f.unexplained) > Allowable(x.total))
  BY <1>2, MaterialExceptionBlocks
<1> QED
  BY <1>1, <1>4, <1>5

\* No exception that is allowable weighs as much as a blocker does.
Outweighed == Ceiling \div 1000 < 552000

\* Neither impact, nor age, nor doubt can make up for a blocker: the ceiling the
\* code is configured with is 10,000,000 paise, far below 552,000,000.
LEMMA RankHolds ==
  ASSUME Outweighed
  PROVE  DashInv => BlockersRankFirst
<1>1. PICK b : b = Scoped(book)
  OBVIOUS
<1>2. PICK x : x = AssessExposure(b)
  OBVIOUS
<1> SUFFICES ASSUME DashInv, Idle, NEW e \in b.exceptions, IsHard(verdict, e),
                    NEW f \in b.exceptions, ~IsHard(verdict, f), NEW doubt \in Extremes
             PROVE  PriorityScore(verdict, x.total, e, 0, 1000)
                      > PriorityScore(verdict, x.total, f, 60, doubt)
  BY <1>1, <1>2 DEF BlockersRankFirst
<1>3. WellFormed(book) /\ Typed(book) /\ verdict = DecidePeriod(book) /\ Typed(b)
  BY <1>1, BooksAre, VerdictInHand, ScopedIsTyped DEF Idle
<1>4. PICK a \in Nat : a = Allowable(x.total) /\ a <= Ceiling
  BY <1>2, <1>3, ExposureIs, AllowableIs
<1>5. PICK m \in Nat : m = Magnitude(f.unexplained)
  BY <1>3 DEF Typed, ExceptionType, Magnitude
<1>6. PICK n \in Nat : n = Magnitude(e.unexplained)
  BY <1>3 DEF Typed, ExceptionType, Magnitude
<1>7. f.severity # "HIGH" /\ m <= a /\ OnIt(verdict, f) = {}
  <2>1. /\ f.severity # "HIGH" /\ ~(Magnitude(f.unexplained) > Allowable(x.total))
        /\ OnIt(verdict, f) = {}
    BY <1>1, <1>2, <1>3, UnblockedExceptionIs
  <2> QED
    BY <1>4, <1>5, <2>1
<1>8. ~IsMaterial(verdict, x.total, f)
  BY <1>4, <1>5, <1>7 DEF IsMaterial
<1>9. Safety(verdict, x.total, f) \in Int /\ Safety(verdict, x.total, f) <= 300000
  <2>1. If(IsHard(verdict, f), 1000000) = 0
    BY SMT DEF If
  <2>2. If(IsMaterial(verdict, x.total, f), 500000) = 0
    BY <1>8, SMT DEF If
  <2>3. If(f.severity = "HIGH", 300000) = 0
    BY <1>7, SMT DEF If
  <2>4. If(f.severity = "MEDIUM", 100000) \in {0, 100000}
    BY SMT DEF If
  <2>5. If(IsAmbiguous(verdict, f), 200000) \in {0, 200000}
    BY SMT DEF If
  <2> QED
    BY <2>1, <2>2, <2>3, <2>4, <2>5, SMT DEF Safety
<1>10. Ceiling \in Nat
  BY BoundAssumption
<1>11. m \div 1000 <= Ceiling \div 1000
  BY <1>4, <1>7, <1>10
<1>12. Impact(verdict, x.total, f) <= Ceiling \div 1000 /\ Impact(verdict, x.total, f) \in Int
  <2>1. Impact(verdict, x.total, f) = Lesser(m \div 1000, MostImpact)
    BY <1>5, <1>8, SMT DEF Impact, If, Lesser, MostImpact
  <2> QED
    BY <1>10, <1>11, <2>1, SMT DEF Lesser, MostImpact
<1>13. Urgency(60, doubt) \in Int /\ Urgency(60, doubt) <= 149000
  <2>1. doubt = 1000 \/ doubt = 99000
    BY SMT DEF Extremes
  <2>2. Lesser(60 * 1000, MostUrgency) = 50000
    BY SMT DEF Lesser, MostUrgency
  <2> QED
    BY <2>1, <2>2, SMT DEF Urgency
<1>14. Safety(verdict, x.total, e) \in Nat /\ Safety(verdict, x.total, e) >= 1000000
  BY SMT DEF Safety, If
<1>15. Impact(verdict, x.total, e) \in Nat
  BY <1>6, SMT DEF Impact, If, Lesser, MostImpact
<1>16. Urgency(0, 1000) = 1000
  BY SMT DEF Urgency, Lesser, MostUrgency
<1>17. Ceiling \div 1000 \in Int
  BY <1>10
<1> QED
  BY <1>9, <1>12, <1>13, <1>14, <1>15, <1>16, <1>17, SMT DEF PriorityScore, Outweighed

\* An exception that blocks the period is shown before all that do not.
THEOREM BlockersComeFirst ==
  ASSUME Outweighed
  PROVE  DashSpec => []BlockersRankFirst
<1>1. DashInv => BlockersRankFirst
  BY RankHolds
<1> QED
  BY <1>1, DashboardInvariant, PTL

\* What the screens are proved from: the verdict is that of the books, whose
\* settlement file is that of the period.
OwnFile == DashInv /\ verdict = DecidePeriod(book) /\ DOMAIN book.net = book.period

LEMMA ScreenedBooks ==
  ASSUME OwnFile, NEW b, b = Scoped(book), NEW x, x = AssessExposure(b)
  PROVE  /\ WellFormed(book) /\ Typed(book) /\ Typed(b)
         /\ b.exceptions = book.exceptions
         /\ verdict.net = x.net /\ x.net \in Int /\ x.net >= 0
         /\ x.total = Filing /\ x.total \in Int /\ Allowable(Filing) \in Nat
         /\ verdict.blockers \subseteq Blockers(b)
         /\ \A k \in Blockers(b) : \E l \in verdict.blockers : l.kind = k.kind /\ l.ref = k.ref
         /\ verdict.decision = "BLOCKED" <=> verdict.blockers # {}
         /\ verdict.decision = "READY_TO_CLOSE" => x.net <= 0 /\ b.exceptions = {}
<1>1. WellFormed(book) /\ Typed(book) /\ Typed(b)
  BY BooksAre, ScopedIsTyped DEF OwnFile
<1>2. /\ b.exceptions = {e \in book.exceptions : e.sid \in book.period}
      /\ b.net = book.net /\ b.period = book.period
  BY <1>1, ScopedFields
<1>3. b.exceptions = book.exceptions
  BY <1>1, <1>2 DEF WellFormed, OwnFile
<1>4. x.net \in Int /\ x.net >= 0 /\ x.total \in Int /\ x.total = Filing
  BY <1>1, <1>2, ExposureIs DEF OwnFile, Filing
<1>5. Allowable(Filing) \in Nat
  BY <1>4, AllowableIs
<1>6. /\ verdict.net = x.net
      /\ verdict.blockers \subseteq Blockers(b)
      /\ \A k \in Blockers(b) : \E l \in verdict.blockers : l.kind = k.kind /\ l.ref = k.ref
      /\ verdict.decision = "BLOCKED" <=> verdict.blockers # {}
      /\ verdict.decision = "READY_TO_CLOSE" => x.net <= 0 /\ b.exceptions = {}
  BY <1>1, VerdictIs DEF OwnFile
<1> QED
  BY <1>1, <1>3, <1>4, <1>5, <1>6

\* The reference to the period is the sign of an exposure over the threshold.
LEMMA PeriodIsBlocked ==
  ASSUME OwnFile
  PROVE  verdict.net > Allowable(Filing) <=> Period \in RefsOf(verdict)
<1>1. PICK b : b = Scoped(book)
  OBVIOUS
<1>2. PICK x : x = AssessExposure(b)
  OBVIOUS
<1>3. /\ Typed(b) /\ verdict.net = x.net /\ x.total = Filing
      /\ verdict.blockers \subseteq Blockers(b)
      /\ \A k \in Blockers(b) : \E l \in verdict.blockers : l.kind = k.kind /\ l.ref = k.ref
  BY <1>1, <1>2, ScreenedBooks
<1>4. ASSUME verdict.net > Allowable(Filing) PROVE Period \in RefsOf(verdict)
  <2>1. \E k \in Blockers(b) : k.ref = Period
    BY <1>2, <1>3, <1>4, MaterialPeriodShows
  <2> QED
    BY <1>3, <2>1 DEF RefsOf
<1>5. ASSUME Period \in RefsOf(verdict) PROVE verdict.net > Allowable(Filing)
  <2>1. PICK k \in verdict.blockers : k.ref = Period
    BY <1>5 DEF RefsOf
  <2>2. k \in Blockers(b)
    BY <1>3
  <2>3. x.net > Allowable(x.total)
    BY <1>2, <2>1, <2>2, PeriodRef
  <2> QED
    BY <1>3, <2>3
<1> QED
  BY <1>4, <1>5

\* Whatever blocks the period is shown to be of a settlement or of an exception.
LEMMA BlockedIsShown ==
  ASSUME OwnFile
  PROVE  verdict.decision = "BLOCKED" <=> BlockedSettlements # {} \/ BlockedExceptions # {}
<1>1. PICK b : b = Scoped(book)
  OBVIOUS
<1>2. PICK x : x = AssessExposure(b)
  OBVIOUS
<1>3. /\ Typed(b) /\ verdict.blockers \subseteq Blockers(b)
      /\ \A k \in Blockers(b) : \E l \in verdict.blockers : l.kind = k.kind /\ l.ref = k.ref
      /\ verdict.decision = "BLOCKED" <=> verdict.blockers # {}
  BY <1>1, <1>2, ScreenedBooks
<1>4. ASSUME verdict.decision = "BLOCKED"
      PROVE  BlockedSettlements # {} \/ BlockedExceptions # {}
  <2>1. \E k \in verdict.blockers : \/ \E s : k.ref = Settlement(s)
                                    \/ \E e \in b.exceptions : k.ref = Exception(e)
                                    \/ \E s, o : k.ref = SharedOrder(s, o)
    <3>1. PICK k \in verdict.blockers : TRUE
      BY <1>3, <1>4
    <3>2. k \in Blockers(b)
      BY <1>3
    <3>3. CASE k.ref = Period
      <4>1. x.net > Allowable(x.total)
        BY <1>2, <3>2, <3>3, PeriodRef
      <4>2. \E l \in Blockers(b) : \/ \E s : l.ref = Settlement(s)
                                   \/ \E e \in b.exceptions : l.ref = Exception(e)
        BY <1>2, <1>3, <4>1, MaterialPeriodShows
      <4>3. PICK l \in Blockers(b) : \/ \E s : l.ref = Settlement(s)
                                     \/ \E e \in b.exceptions : l.ref = Exception(e)
        BY <4>2
      <4>4. PICK m \in verdict.blockers : m.ref = l.ref
        BY <1>3
      <4> QED
        BY <4>3, <4>4
    <3> QED
      BY <3>2, <3>3, RefIsSomeRecord
  <2>2. PICK k \in verdict.blockers : \/ \E s : k.ref = Settlement(s)
                                      \/ \E e \in b.exceptions : k.ref = Exception(e)
                                      \/ \E s, o : k.ref = SharedOrder(s, o)
    BY <2>1
  <2>3. k.ref[1] \in {"settlement", "order"} => k.ref[2] \in BlockedSettlements
    BY DEF BlockedSettlements
  <2>4. k.ref[1] = "exception" => k.ref \in BlockedExceptions
    BY DEF BlockedExceptions, RefsOf
  <2>5. k.ref[1] \in {"settlement", "order", "exception"}
    BY <2>2 DEF Settlement, Exception, SharedOrder
  <2> QED
    BY <2>3, <2>4, <2>5
<1>5. ASSUME BlockedSettlements # {} \/ BlockedExceptions # {} PROVE verdict.blockers # {}
  BY <1>5 DEF BlockedSettlements, BlockedExceptions, RefsOf
<1> QED
  BY <1>3, <1>4, <1>5

\* A check that is shown as passed is passed by every finding of the period.
LEMMA ChecksAreOfAll ==
  ASSUME OwnFile, NEW b, b = Scoped(book), NEW f \in b.findings
  PROVE  /\ f.lossy => "COMPROMISED_INTEGRITY" \in {k.kind : k \in verdict.blockers}
         /\ (f.verdict = "PROVEN" /\ ~f.postable) \/ (\E i \in DOMAIN f.proofs : f.proofs[i].off > 0)
              => "FAILED_INVARIANT" \in {k.kind : k \in verdict.blockers}
<1>1. PICK x : x = AssessExposure(b)
  OBVIOUS
<1>2. \A k \in Blockers(b) : \E l \in verdict.blockers : l.kind = k.kind /\ l.ref = k.ref
  BY <1>1, ScreenedBooks
<1>3. ASSUME f.lossy
      PROVE  \E k \in Blockers(b) : k.kind = "COMPROMISED_INTEGRITY"
  <2>1. PICK k : k = Blocker(<<6, f.at, 0>>, "COMPROMISED_INTEGRITY", Settlement(f.sid), 0)
    OBVIOUS
  <2>2. k \in Compromised(b)
    BY <1>3, <2>1 DEF Compromised
  <2>3. k.kind = "COMPROMISED_INTEGRITY"
    BY <2>1 DEF Blocker
  <2> QED
    BY <2>2, <2>3 DEF Blockers, HardBlockers
<1>4. ASSUME (f.verdict = "PROVEN" /\ ~f.postable) \/ (\E i \in DOMAIN f.proofs : f.proofs[i].off > 0)
      PROVE  \E k \in Blockers(b) : k.kind = "FAILED_INVARIANT"
  <2>1. \E k \in FailedBy(f) : k.kind = "FAILED_INVARIANT"
    <3>1. CASE f.verdict = "PROVEN" /\ ~f.postable
      <4>1. PICK k : k = Blocker(<<5, f.at, 0>>, "FAILED_INVARIANT", Settlement(f.sid), 0)
        OBVIOUS
      <4>2. k \in FailedBy(f)
        BY <3>1, <4>1 DEF FailedBy
      <4> QED
        BY <4>1, <4>2 DEF Blocker
    <3>2. CASE \E i \in DOMAIN f.proofs : f.proofs[i].off > 0
      <4>1. PICK i \in DOMAIN f.proofs : f.proofs[i].off > 0
        BY <3>2
      <4>2. PICK k : k = Blocker(<<5, f.at, i>>, "FAILED_INVARIANT", Settlement(f.sid), f.proofs[i].off)
        OBVIOUS
      <4>3. k \in FailedBy(f)
        BY <4>1, <4>2 DEF FailedBy
      <4> QED
        BY <4>2, <4>3 DEF Blocker
    <3> QED
      BY <1>4, <3>1, <3>2
  <2> QED
    BY <2>1 DEF Blockers, HardBlockers, FailedInvariants
<1> QED
  BY <1>2, <1>3, <1>4

LEMMA ScreensHold == DashInv => ScreensAgree
<1> SUFFICES ASSUME DashInv, DOMAIN book.net = book.period, answer.kind # "none"
             PROVE  /\ answer.kind = "readiness" => ScreensAgree
                    /\ answer.kind = "why-blocked" => ScreensAgree
                    /\ answer.kind = "materiality" => ScreensAgree
  BY DEF ScreensAgree
<1>1. verdict = DecidePeriod(book) /\ Answers
  BY AnswerInHand
<1>2. OwnFile
  BY <1>1 DEF OwnFile
<1>3. PICK b : b = Scoped(book)
  OBVIOUS
<1>4. PICK x : x = AssessExposure(b)
  OBVIOUS
<1>5. /\ WellFormed(book) /\ Typed(book) /\ Typed(b)
      /\ b.exceptions = book.exceptions
      /\ verdict.net = x.net /\ x.net \in Int /\ x.net >= 0
      /\ x.total = Filing /\ x.total \in Int /\ Allowable(Filing) \in Nat
      /\ verdict.blockers \subseteq Blockers(b)
      /\ verdict.decision = "BLOCKED" <=> verdict.blockers # {}
      /\ verdict.decision = "READY_TO_CLOSE" => x.net <= 0 /\ b.exceptions = {}
  BY <1>2, <1>3, <1>4, ScreenedBooks
<1>6. ASSUME verdict.net > Allowable(Filing) PROVE verdict.decision = "BLOCKED"
  <2>1. Period \in RefsOf(verdict)
    BY <1>2, <1>6, PeriodIsBlocked
  <2> QED
    BY <1>5, <2>1 DEF RefsOf
<1>7. ASSUME answer.kind = "readiness" PROVE ScreensAgree
  <2>1. /\ answer.net = verdict.net
        /\ answer.canClose <=> verdict.decision = "READY_TO_CLOSE"
        /\ answer.threshold = Allowable(Filing)
        /\ answer.settlements = BlockedSettlements /\ answer.exceptions = BlockedExceptions
    BY <1>1, <1>7 DEF Answers
  <2>2. answer.canClose => answer.net = 0 /\ book.exceptions = {}
    BY <1>5, <2>1
  <2>3. verdict.decision = "BLOCKED" <=> answer.settlements # {} \/ answer.exceptions # {}
    BY <1>2, <2>1, BlockedIsShown
  <2>4. verdict.decision = "READY_WITH_CARRY_FORWARD" => answer.net <= answer.threshold
    BY <1>5, <1>6, <2>1
  <2> QED
    BY <1>7, <2>2, <2>3, <2>4 DEF ScreensAgree
<1>8. ASSUME answer.kind = "why-blocked" PROVE ScreensAgree
  <2>1. PICK kinds : kinds = {k.kind : k \in verdict.blockers}
    OBVIOUS
  <2>2. /\ answer.integrity <=> "COMPROMISED_INTEGRITY" \notin kinds
        /\ answer.arithmetic <=> "FAILED_INVARIANT" \notin kinds
    BY <1>1, <1>8, <2>1 DEF Answers
  <2>3. ASSUME NEW f \in b.findings
        PROVE  /\ answer.integrity => ~f.lossy
               /\ answer.arithmetic => /\ f.verdict = "PROVEN" => f.postable
                                       /\ \A i \in DOMAIN f.proofs : f.proofs[i].off = 0
    <3>1. /\ f.lossy => "COMPROMISED_INTEGRITY" \in kinds
          /\ (f.verdict = "PROVEN" /\ ~f.postable) \/ (\E i \in DOMAIN f.proofs : f.proofs[i].off > 0)
               => "FAILED_INVARIANT" \in kinds
      BY <1>2, <1>3, <2>1, ChecksAreOfAll
    <3>2. \A i \in DOMAIN f.proofs : f.proofs[i].off \in Nat
      BY <1>5, ProofsAreTyped
    <3>3. \A i \in DOMAIN f.proofs : ~(f.proofs[i].off > 0) => f.proofs[i].off = 0
      BY <3>2
    <3> QED
      BY <2>2, <3>1, <3>3
  <2> QED
    BY <1>3, <1>8, <2>3 DEF ScreensAgree
<1>9. ASSUME answer.kind = "materiality" PROVE ScreensAgree
  <2>1. PICK over : over = {e \in book.exceptions : e.unexplained > Allowable(Filing)}
    OBVIOUS
  <2>2. /\ answer.exceeds <=> verdict.net > Allowable(Filing)
        /\ answer.material = {e.id : e \in over}
    BY <1>1, <1>9, <2>1 DEF Answers
  <2>3. answer.exceeds <=> Period \in RefsOf(verdict)
    BY <1>2, <2>2, PeriodIsBlocked
  <2>4. answer.exceeds => verdict.decision = "BLOCKED"
    BY <1>6, <2>2
  <2>5. ASSUME over # {} PROVE verdict.decision = "BLOCKED"
    <3>1. PICK d \in b.exceptions : d.unexplained > Allowable(Filing)
      BY <1>5, <2>1, <2>5
    <3>2. d.unexplained \in Int
      BY <1>5, <3>1 DEF Typed, ExceptionType
    <3>3. Magnitude(d.unexplained) > Allowable(x.total)
      BY <1>5, <3>1, <3>2 DEF Magnitude
    <3>4. \E k \in verdict.blockers : k.ref = Exception(d)
      BY <1>1, <1>3, <1>4, <1>5, <3>3, MaterialExceptionBlocks
    <3> QED
      BY <1>5, <3>4
  <2>6. answer.exceeds \/ answer.material # {} => verdict.decision = "BLOCKED"
    BY <2>2, <2>4, <2>5
  <2> QED
    BY <1>9, <2>3, <2>6 DEF ScreensAgree
<1> QED
  BY <1>7, <1>8, <1>9

\* The screens say of the verdict, of the books and of one another what is so.
THEOREM ScreensAgreeAlways == DashSpec => []ScreensAgree
BY DashboardInvariant, ScreensHold, PTL

\* The exception a report is about is one of the books, named by the target or
\* of the settlement it names.
LEMMA ExceptionForIs ==
  ASSUME NEW b, Typed(b), NEW target, NEW e, e = ExceptionFor(b, target), e # NoException
  PROVE  e \in b.exceptions /\ (Exception(e) = target \/ Settlement(e.sid) = target)
<1>1. PICK named : named = {y \in b.exceptions : Exception(y) = target}
  OBVIOUS
<1>2. PICK about : about = {y \in b.exceptions : Settlement(y.sid) = target}
  OBVIOUS
<1>3. /\ IsFiniteSet(named) /\ \A y \in named : y.at \in Int
      /\ IsFiniteSet(about) /\ \A y \in about : y.at \in Int
  BY <1>1, <1>2, FS_Subset DEF Typed, ExceptionType
<1>4. CASE named # {}
  <2>1. e = First(named)
    BY <1>1, <1>4 DEF ExceptionFor
  <2>2. e \in named
    BY <1>3, <1>4, <2>1, FirstIsIn
  <2> QED
    BY <1>1, <2>2
<1>5. CASE named = {} /\ about # {}
  <2>1. e = First(about)
    BY <1>1, <1>2, <1>5 DEF ExceptionFor
  <2>2. e \in about
    BY <1>3, <1>5, <2>1, FirstIsIn
  <2> QED
    BY <1>2, <2>2
<1>6. CASE named = {} /\ about = {}
  <2>1. e = NoException
    BY <1>1, <1>2, <1>6 DEF ExceptionFor
  <2> QED
    BY <2>1
<1> QED
  BY <1>4, <1>5, <1>6

\* What there is to cite: exceptions, orders and bank lines of the subject.
LEMMA SubjectIs ==
  ASSUME NEW b, Typed(b), NEW target, NEW subject, subject = Subject(b, target)
  PROVE  /\ \A ref \in CitedExceptions(b, target) :
              /\ \E s : subject = Settlement(s)
              /\ \E e \in b.exceptions : ref = Exception(e) /\ Settlement(e.sid) = subject
         /\ \A o \in Candidates(b, target) :
              \E s : /\ subject = Settlement(s)
                     /\ \E e \in ExceptionsOf(b, s) : o \in b.names[e.id]
<1>1. PICK e : e = ExceptionFor(b, target)
  OBVIOUS
<1>2. PICK d : d = ExceptionFor(b, subject)
  OBVIOUS
<1>3. CASE e = NoException
  <2>1. subject = target /\ d = NoException
    BY <1>1, <1>2, <1>3 DEF Subject
  <2>2. CitedExceptions(b, target) = {} /\ Candidates(b, target) = {}
    BY <1>1, <1>2, <1>3, <2>1 DEF CitedExceptions, Candidates
  <2> QED
    BY <2>2
<1>4. CASE e # NoException
  <2>1. subject = Settlement(e.sid) /\ e \in b.exceptions
    BY <1>1, <1>4, ExceptionForIs DEF Subject
  <2>2. CitedExceptions(b, target) = {Exception(e)}
    BY <1>1, <1>4 DEF CitedExceptions, ExceptionRef, Exception
  <2>3. ASSUME NEW o \in Candidates(b, target)
        PROVE  d \in ExceptionsOf(b, e.sid) /\ o \in b.names[d.id]
    <3>1. d # NoException /\ o \in b.names[d.id]
      BY <1>2, <2>3 DEF Candidates
    <3>2. d \in b.exceptions /\ (Exception(d) = subject \/ Settlement(d.sid) = subject)
      BY <1>2, <3>1, ExceptionForIs
    <3>3. d.sid = e.sid
      BY <2>1, <3>2 DEF Exception, Settlement
    <3> QED
      BY <3>1, <3>2, <3>3 DEF ExceptionsOf
  <2> QED
    BY <2>1, <2>2, <2>3
<1> QED
  BY <1>3, <1>4

\* The kinds of reference a report may cite.
Exhibit(b, target, subject, ref) ==
  \/ ref \in CitedExceptions(b, target)
  \/ ref = subject /\ \E s : subject = Settlement(s)
  \/ \E c \in Lines(b, target) : ref = CreditRef(c)
  \/ \E o \in Candidates(b, target) : ref = OrderRef(o)

LEMMA ReportIs ==
  ASSUME NEW b, Typed(b), NEW target, NEW suspicious \in BOOLEAN,
         NEW report, report = Investigate(b, target, suspicious),
         NEW subject, subject = Subject(b, target)
  PROVE  /\ \A ref \in report.cited : Exhibit(b, target, subject, ref)
         /\ report.status = "COMPLETED" => Lines(b, target) \cap b.tainted = {}
<1>1. PICK e : e = ExceptionFor(b, target)
  OBVIOUS
<1>2. PICK lines : lines = Lines(b, target)
  OBVIOUS
<1>3. PICK filed : filed = {s \in {subject} : OnFile(b, s)}
  OBVIOUS
<1>4. report = Findings(b, target, e, lines, filed, suspicious)
  BY <1>1, <1>2, <1>3 DEF Investigate
<1>5. filed \subseteq {subject} /\ (filed # {} => \E s : subject = Settlement(s))
  BY <1>3 DEF OnFile
<1>6. Conflicted(b, target) => \E s : subject = Settlement(s)
  <2>1. e = NoException => ~Conflicted(b, target)
    BY <1>1 DEF Conflicted, NoException
  <2>2. e # NoException => subject = Settlement(e.sid)
    BY <1>1 DEF Subject
  <2> QED
    BY <2>1, <2>2
<1>7. CASE suspicious
  <2>1. report.cited = {} /\ report.status = "REJECTED_UNTRUSTED_CONTENT"
    BY <1>4, <1>7, SMT DEF Findings, Report
  <2> QED
    BY <2>1
<1>8. CASE ~suspicious /\ e = NoException /\ filed = {}
  <2>1. report.cited = {} /\ report.status = "INSUFFICIENT_EVIDENCE"
    <3>1. lines = {}
      BY <1>2, <1>3, <1>8 DEF Lines
    <3>2. ~Conflicted(b, target)
      BY <1>1, <1>8 DEF Conflicted, NoException
    <3> QED
      BY <1>4, <1>8, <3>1, <3>2, SMT DEF Findings, Report
  <2> QED
    BY <2>1
<1>9. CASE ~suspicious /\ ~(e = NoException /\ filed = {}) /\ lines \cap b.tainted # {}
  <2>1. report.cited = {CreditRef(c) : c \in lines} /\ report.status = "REJECTED_UNTRUSTED_CONTENT"
    BY <1>4, <1>9, SMT DEF Findings, Report
  <2> QED
    BY <1>2, <2>1 DEF Exhibit
<1>10. CASE /\ ~suspicious /\ ~(e = NoException /\ filed = {}) /\ lines \cap b.tainted = {}
            /\ Conflicted(b, target)
  <2>1. report.cited = CitedExceptions(b, target) \cup {subject} /\ report.status = "CONFLICTING_EVIDENCE"
    BY <1>4, <1>10, SMT DEF Findings, Report
  <2> QED
    BY <1>6, <1>10, <2>1 DEF Exhibit
<1>11. CASE /\ ~suspicious /\ ~(e = NoException /\ filed = {}) /\ lines \cap b.tainted = {}
            /\ ~Conflicted(b, target)
  <2>1. report.cited = CitedExceptions(b, target) \cup filed \cup {CreditRef(c) : c \in lines}
                         \cup {OrderRef(o) : o \in Candidates(b, target)}
    BY <1>4, <1>11, SMT DEF Findings, Report
  <2> QED
    BY <1>2, <1>5, <1>11, <2>1 DEF Exhibit
<1> QED
  BY <1>7, <1>8, <1>9, <1>10, <1>11

LEMMA GroundsHold == DashInv => ReportsAreGrounded
<1> SUFFICES ASSUME DashInv, Reported PROVE ReportsAreGrounded
  BY DEF ReportsAreGrounded
<1>1. Typed(book)
  BY BooksAre
<1>2. answer.kind \in {"report", "evidence"}
  BY DEF Reported
<1>3. Answers
  BY <1>2, AnswerInHand
<1>4. PICK suspicious \in BOOLEAN : answer.report = Investigate(book, answer.target, suspicious)
  BY <1>2, <1>3 DEF Answers
<1>5. PICK report : report = answer.report
  OBVIOUS
<1>6. PICK target : target = answer.target
  OBVIOUS
<1>7. PICK subject : subject = Subject(book, target)
  OBVIOUS
<1>8. /\ \A ref \in report.cited : Exhibit(book, target, subject, ref)
      /\ report.status = "COMPLETED" => Lines(book, target) \cap book.tainted = {}
  BY <1>1, <1>4, <1>5, <1>6, <1>7, ReportIs
<1>9. report.cited \subseteq Retrieved(book, target)
  <2>1. PICK R : R = Retrieved(book, target)
    OBVIOUS
  <2>2. /\ CitedExceptions(book, target) \subseteq R /\ subject \in R
        /\ \A c \in Lines(book, target) : CreditRef(c) \in R
        /\ \A o \in Candidates(book, target) : OrderRef(o) \in R
    BY <1>7, <2>1 DEF Retrieved
  <2> QED
    BY <1>8, <2>1, <2>2 DEF Exhibit
<1>10. ASSUME NEW ref \in report.cited
       PROVE  CASE ref[1] = "exception" ->
                     \E e \in book.exceptions :
                       Exception(e) = ref /\ Settlement(e.sid) = subject
                [] ref[1] = "order" -> ref[2] \in Naming(subject[2])
                [] ref[1] = "bank" ->
                     \E c \in book.credits : CreditRef(c) = ref /\ Settlement(c.utr) = subject
                [] OTHER -> ref = subject
  <2>1. Exhibit(book, target, subject, ref)
    BY <1>8
  <2>2. CASE ref \in CitedExceptions(book, target)
    <3>1. \E e \in book.exceptions : ref = Exception(e) /\ Settlement(e.sid) = subject
      BY <1>1, <1>7, <2>2, SubjectIs
    <3>2. ref[1] = "exception"
      BY <3>1 DEF Exception
    <3> QED
      BY <3>1, <3>2
  <2>3. CASE ref = subject /\ \E s : subject = Settlement(s)
    <3>1. ref[1] = "settlement"
      BY <2>3 DEF Settlement
    <3> QED
      BY <2>3, <3>1
  <2>4. CASE \E c \in Lines(book, target) : ref = CreditRef(c)
    <3>1. PICK c \in Lines(book, target) : ref = CreditRef(c)
      BY <2>4
    <3>2. c \in book.credits /\ Settlement(c.utr) = subject
      BY <1>7 DEF Lines
    <3>3. ref[1] = "bank"
      BY <3>1 DEF CreditRef
    <3> QED
      BY <3>1, <3>2, <3>3
  <2>5. CASE \E o \in Candidates(book, target) : ref = OrderRef(o)
    <3>1. PICK o \in Candidates(book, target) : ref = OrderRef(o)
      BY <2>5
    <3>2. \E s : /\ subject = Settlement(s)
                 /\ \E e \in ExceptionsOf(book, s) : o \in book.names[e.id]
      BY <1>1, <1>7, SubjectIs
    <3>3. PICK s : /\ subject = Settlement(s)
                   /\ \E e \in ExceptionsOf(book, s) : o \in book.names[e.id]
      BY <3>2
    <3>4. subject[2] = s
      BY <3>3 DEF Settlement
    <3>5. o \in Naming(subject[2])
      BY <3>3, <3>4 DEF Naming
    <3>6. ref[1] = "order" /\ ref[2] = o
      BY <3>1 DEF OrderRef
    <3> QED
      BY <3>5, <3>6
  <2> QED
    BY <2>1, <2>2, <2>3, <2>4, <2>5 DEF Exhibit
<1> QED
  BY <1>5, <1>6, <1>7, <1>8, <1>9, <1>10 DEF ReportsAreGrounded

\* A report cites what the tools returned of its subject, and nothing else.
THEOREM ReportsCiteTheRecords == DashSpec => []ReportsAreGrounded
BY DashboardInvariant, GroundsHold, PTL

-----------------------------------------------------------------------------
(* Lineage *)

\* A trace is the last of a chain of sets, each a step of the graph further.
ChainUp(after, edges, node) ==
  after = [n \in 0..LongestPath |->
             IF n = 0 THEN {node} ELSE Upstream(edges, after[n - 1])]

ChainDown(after, edges, node) ==
  after = [n \in 0..LongestPath |->
             IF n = 0 THEN {node} ELSE Downstream(edges, after[n - 1])]

LEMMA ChainUpExists ==
  ASSUME NEW edges, NEW node
  PROVE  \E after : ChainUp(after, edges, node)
<1>1. PICK a0, a1, a2, a3, a4 :
        /\ a0 = {node} /\ a1 = Upstream(edges, a0) /\ a2 = Upstream(edges, a1)
        /\ a3 = Upstream(edges, a2) /\ a4 = Upstream(edges, a3)
  OBVIOUS
<1>2. PICK a5, a6, a7, a8, a9 :
        /\ a5 = Upstream(edges, a4) /\ a6 = Upstream(edges, a5) /\ a7 = Upstream(edges, a6)
        /\ a8 = Upstream(edges, a7) /\ a9 = Upstream(edges, a8)
  OBVIOUS
<1>3. PICK after : after = [n \in 0..9 |->
        IF n = 0 THEN a0 ELSE IF n = 1 THEN a1 ELSE IF n = 2 THEN a2 ELSE IF n = 3 THEN a3
        ELSE IF n = 4 THEN a4 ELSE IF n = 5 THEN a5 ELSE IF n = 6 THEN a6 ELSE IF n = 7 THEN a7
        ELSE IF n = 8 THEN a8 ELSE a9]
  OBVIOUS
<1>4. /\ after[0] = a0 /\ after[1] = a1 /\ after[2] = a2 /\ after[3] = a3 /\ after[4] = a4
      /\ after[5] = a5 /\ after[6] = a6 /\ after[7] = a7 /\ after[8] = a8 /\ after[9] = a9
      /\ after = [n \in 0..9 |-> after[n]]
  BY <1>3
<1>5. ASSUME NEW n \in 0..9
      PROVE  after[n] = IF n = 0 THEN {node} ELSE Upstream(edges, after[n - 1])
  <2>1. \/ n = 0 \/ n = 1 \/ n = 2 \/ n = 3 \/ n = 4 \/ n = 5 \/ n = 6 \/ n = 7 \/ n = 8 \/ n = 9
    OBVIOUS
  <2> QED
    BY <1>1, <1>2, <1>4, <2>1
<1>6. after = [n \in 0..9 |-> IF n = 0 THEN {node} ELSE Upstream(edges, after[n - 1])]
  BY <1>4, <1>5
<1> QED
  BY <1>6 DEF ChainUp, LongestPath

LEMMA ChainDownExists ==
  ASSUME NEW edges, NEW node
  PROVE  \E after : ChainDown(after, edges, node)
<1>1. PICK back : back = {<<e[2], e[1]>> : e \in edges}
  OBVIOUS
<1>2. \A reached : Upstream(back, reached) = Downstream(edges, reached)
  <2> SUFFICES ASSUME NEW reached PROVE Upstream(back, reached) = Downstream(edges, reached)
    OBVIOUS
  <2>1. PICK U : U = {e[1] : e \in {d \in back : d[2] \in reached}}
    OBVIOUS
  <2>2. PICK D : D = {e[2] : e \in {d \in edges : d[1] \in reached}}
    OBVIOUS
  <2>3. ASSUME NEW m \in U PROVE m \in D
    <3>1. PICK d \in back : d[2] \in reached /\ m = d[1]
      BY <2>1, <2>3
    <3>2. PICK e \in edges : d = <<e[2], e[1]>>
      BY <1>1
    <3>3. e[1] \in reached /\ m = e[2]
      BY <3>1, <3>2
    <3> QED
      BY <2>2, <3>3
  <2>4. ASSUME NEW m \in D PROVE m \in U
    <3>1. PICK e \in edges : e[1] \in reached /\ m = e[2]
      BY <2>2, <2>4
    <3>2. PICK d : d = <<e[2], e[1]>>
      OBVIOUS
    <3>3. d \in back /\ d[2] \in reached /\ m = d[1]
      BY <1>1, <3>1, <3>2
    <3> QED
      BY <2>1, <3>3
  <2>5. U = D
    BY <2>3, <2>4
  <2> QED
    BY <2>1, <2>2, <2>5 DEF Upstream, Downstream
<1>3. PICK after : ChainUp(after, back, node)
  BY ChainUpExists
<1>4. after = [n \in 0..LongestPath |->
                 IF n = 0 THEN {node} ELSE Upstream(back, after[n - 1])]
  BY <1>3 DEF ChainUp
<1>5. \A n \in 0..LongestPath : Upstream(back, after[n - 1]) = Downstream(edges, after[n - 1])
  BY <1>2
<1>6. after = [n \in 0..LongestPath |->
                 IF n = 0 THEN {node} ELSE Downstream(edges, after[n - 1])]
  BY <1>4, <1>5
<1> QED
  BY <1>6 DEF ChainDown

\* Every step of a chain adds what the one before leads to, and keeps the rest.
LEMMA TracedUp ==
  ASSUME NEW graph, NEW node
  PROVE  \E after :
           /\ TraceBackward(graph, node) = after[9] \cap graph.nodes
           /\ after[0] = {node}
           /\ \A n \in 0..8 : /\ after[n] \subseteq after[n + 1]
                              /\ after[n] \subseteq after[9]
                              /\ \A e \in graph.edges : e[2] \in after[n] => e[1] \in after[n + 1]
<1>1. PICK after : after = CHOOSE f : ChainUp(f, graph.edges, node)
  OBVIOUS
<1>2. TraceBackward(graph, node) = after[LongestPath] \cap graph.nodes
  BY <1>1 DEF TraceBackward, ChainUp
<1>3. ChainUp(after, graph.edges, node)
  BY <1>1, ChainUpExists
<1>4. after[0] = {node} /\ \A n \in 0..8 : after[n + 1] = Upstream(graph.edges, after[n])
  <2>1. after[0] = {node}
    BY <1>3 DEF ChainUp, LongestPath
  <2>2. ASSUME NEW n \in 0..8 PROVE after[n + 1] = Upstream(graph.edges, after[n])
    <3>1. n + 1 \in 0..LongestPath /\ n + 1 # 0 /\ (n + 1) - 1 = n
      BY DEF LongestPath
    <3> QED
      BY <1>3, <3>1 DEF ChainUp
  <2> QED
    BY <2>1, <2>2
<1>5. \A n \in 0..8 : /\ after[n] \subseteq after[n + 1]
                      /\ \A e \in graph.edges : e[2] \in after[n] => e[1] \in after[n + 1]
  BY <1>4 DEF Upstream
<1>6. /\ after[0] \subseteq after[1] /\ after[1] \subseteq after[2] /\ after[2] \subseteq after[3]
      /\ after[3] \subseteq after[4] /\ after[4] \subseteq after[5] /\ after[5] \subseteq after[6]
      /\ after[6] \subseteq after[7] /\ after[7] \subseteq after[8] /\ after[8] \subseteq after[9]
  BY <1>5
<1>7. ASSUME NEW n \in 0..8 PROVE after[n] \subseteq after[9]
  <2>1. \/ n = 0 \/ n = 1 \/ n = 2 \/ n = 3 \/ n = 4 \/ n = 5 \/ n = 6 \/ n = 7 \/ n = 8
    OBVIOUS
  <2> QED
    BY <1>6, <2>1
<1>8. \A n \in 0..8 : /\ after[n] \subseteq after[n + 1]
                      /\ after[n] \subseteq after[9]
                      /\ \A e \in graph.edges : e[2] \in after[n] => e[1] \in after[n + 1]
  BY <1>5, <1>7
<1> QED
  BY <1>2, <1>4, <1>8 DEF LongestPath

Descent(after, edges, node) ==
  /\ after[0] = {node}
  /\ \A n \in 0..8 : /\ after[n] \subseteq after[9]
                     /\ \A e \in edges : e[1] \in after[n] => e[2] \in after[n + 1]
  /\ \A S : node \in S /\ (\A e \in edges : e[1] \in S => e[2] \in S)
              => after[9] \subseteq S

\* A trace forward leaves no set that the edges do not lead out of.
LEMMA TracedDown ==
  ASSUME NEW graph, NEW node
  PROVE  \E after : /\ TraceForward(graph, node) = after[9] \cap graph.nodes
                    /\ Descent(after, graph.edges, node)
<1>1. PICK after : after = CHOOSE f : ChainDown(f, graph.edges, node)
  OBVIOUS
<1>2. TraceForward(graph, node) = after[LongestPath] \cap graph.nodes
  BY <1>1 DEF TraceForward, ChainDown
<1>3. ChainDown(after, graph.edges, node)
  BY <1>1, ChainDownExists
<1>4. after[0] = {node} /\ \A n \in 0..8 : after[n + 1] = Downstream(graph.edges, after[n])
  <2>1. after[0] = {node}
    BY <1>3 DEF ChainDown, LongestPath
  <2>2. ASSUME NEW n \in 0..8 PROVE after[n + 1] = Downstream(graph.edges, after[n])
    <3>1. n + 1 \in 0..LongestPath /\ n + 1 # 0 /\ (n + 1) - 1 = n
      BY DEF LongestPath
    <3> QED
      BY <1>3, <3>1 DEF ChainDown
  <2> QED
    BY <2>1, <2>2
<1>5. \A n \in 0..8 : /\ after[n] \subseteq after[n + 1]
                      /\ \A e \in graph.edges : e[1] \in after[n] => e[2] \in after[n + 1]
  BY <1>4 DEF Downstream
<1>6. /\ after[0] \subseteq after[1] /\ after[1] \subseteq after[2] /\ after[2] \subseteq after[3]
      /\ after[3] \subseteq after[4] /\ after[4] \subseteq after[5] /\ after[5] \subseteq after[6]
      /\ after[6] \subseteq after[7] /\ after[7] \subseteq after[8] /\ after[8] \subseteq after[9]
  BY <1>5
<1>7. ASSUME NEW n \in 0..8 PROVE after[n] \subseteq after[9]
  <2>1. \/ n = 0 \/ n = 1 \/ n = 2 \/ n = 3 \/ n = 4 \/ n = 5 \/ n = 6 \/ n = 7 \/ n = 8
    OBVIOUS
  <2> QED
    BY <1>6, <2>1
<1>8. ASSUME NEW S, node \in S, \A e \in graph.edges : e[1] \in S => e[2] \in S
      PROVE  after[9] \subseteq S
  <2>1. ASSUME NEW n \in 0..8, after[n] \subseteq S PROVE after[n + 1] \subseteq S
    <3>1. after[n + 1] = Downstream(graph.edges, after[n])
      BY <1>4
    <3> QED
      BY <1>8, <2>1, <3>1 DEF Downstream
  <2>2. after[0] \subseteq S
    BY <1>4, <1>8
  <2>3. after[1] \subseteq S
    BY <2>1, <2>2
  <2>4. after[2] \subseteq S
    BY <2>1, <2>3
  <2>5. after[3] \subseteq S
    BY <2>1, <2>4
  <2>6. after[4] \subseteq S
    BY <2>1, <2>5
  <2>7. after[5] \subseteq S
    BY <2>1, <2>6
  <2>8. after[6] \subseteq S
    BY <2>1, <2>7
  <2>9. after[7] \subseteq S
    BY <2>1, <2>8
  <2>10. after[8] \subseteq S
    BY <2>1, <2>9
  <2> QED
    BY <2>1, <2>10
<1>9. \A n \in 0..8 : /\ after[n] \subseteq after[9]
                      /\ \A e \in graph.edges : e[1] \in after[n] => e[2] \in after[n + 1]
  BY <1>5, <1>7
<1>10. Descent(after, graph.edges, node)
  BY <1>4, <1>8, <1>9 DEF Descent
<1> QED
  BY <1>2, <1>10 DEF LongestPath

\* The nodes of the graph, by the records they stand for.
LEMMA NodesAre ==
  ASSUME NEW b, NEW x, NEW v, NEW N, N = Nodes(b, x, v)
  PROVE  /\ \A o \in b.orders \cup CitedBy(b) : Order(o) \in N
         /\ \A o \in b.orders : Event(o) \in N
         /\ \A c \in b.credits : Bank(c) \in N /\ Feed(c) \in N
         /\ \A s \in b.period : Settlement(s) \in N
         /\ \A f \in b.findings : /\ FindingNode(f.sid) \in N
                                  /\ \A i \in DOMAIN f.proofs : ProofNode(f.sid, i) \in N
         /\ \A e \in b.exceptions : /\ Exception(e) \in N
                                    /\ e.missing => Lacking(e) \in N
         /\ \A s \in x.items : Exposure(s) \in N
         /\ Materiality \in N /\ VerdictNode \in N
         /\ \A k \in v.blockers : BlockerNode(k) \in N
         /\ \A e \in v.carried : Carried(e) \in N
<1>1. PICK A : A = UNION {{Bank(c), Feed(c)} : c \in b.credits}
  OBVIOUS
<1>2. PICK B : B = UNION {{FindingNode(f.sid)} \cup ProofsOf(f) : f \in b.findings}
  OBVIOUS
<1>3. N = {Order(o) : o \in b.orders \cup CitedBy(b)} \cup {Event(o) : o \in b.orders}
          \cup A \cup {Settlement(s) : s \in b.period} \cup B
          \cup {Exception(e) : e \in b.exceptions}
          \cup {Lacking(e) : e \in {y \in b.exceptions : y.missing}}
          \cup {Exposure(s) : s \in x.items} \cup {Materiality, VerdictNode}
          \cup {BlockerNode(k) : k \in v.blockers} \cup {Carried(e) : e \in v.carried}
  BY <1>1, <1>2 DEF Nodes
<1>4. \A c \in b.credits : Bank(c) \in A /\ Feed(c) \in A
  BY <1>1
<1>5. \A f \in b.findings : /\ FindingNode(f.sid) \in B
                            /\ \A i \in DOMAIN f.proofs : ProofNode(f.sid, i) \in B
  <2>1. ASSUME NEW f \in b.findings
        PROVE  /\ FindingNode(f.sid) \in B
               /\ \A i \in DOMAIN f.proofs : ProofNode(f.sid, i) \in B
    <3>1. {FindingNode(f.sid)} \cup ProofsOf(f) \subseteq B
      BY <1>2
    <3> QED
      BY <3>1 DEF ProofsOf
  <2> QED
    BY <2>1
<1> QED
  BY <1>3, <1>4, <1>5

\* What a node of each of these kinds stands for.
LEMMA NodesOfKind ==
  ASSUME NEW b, NEW x, NEW v, NEW n \in Nodes(b, x, v)
  PROVE  /\ n[1] = "settlement" => \E s \in b.period : n = Settlement(s)
         /\ n[1] = "exposure" => \E s \in x.items : n = Exposure(s)
         /\ n[1] = "blocker" => \E k \in v.blockers : n = BlockerNode(k)
         /\ n[1] = "carried" => \E e \in v.carried : n = Carried(e)
<1>1. PICK A : A = UNION {{Bank(c), Feed(c)} : c \in b.credits}
  OBVIOUS
<1>2. PICK B : B = UNION {{FindingNode(f.sid)} \cup ProofsOf(f) : f \in b.findings}
  OBVIOUS
<1>3. \/ \E o : n = Order(o) \/ n = Event(o)
      \/ n \in A \/ n \in B
      \/ \E s \in b.period : n = Settlement(s)
      \/ \E e : n = Exception(e) \/ n = Lacking(e)
      \/ \E s \in x.items : n = Exposure(s)
      \/ n = Materiality \/ n = VerdictNode
      \/ \E k \in v.blockers : n = BlockerNode(k)
      \/ \E e \in v.carried : n = Carried(e)
  BY <1>1, <1>2 DEF Nodes
<1>4. n \in A => n[1] \in {"bank", "feed"}
  <2>1. ASSUME n \in A PROVE \E c : n = Bank(c) \/ n = Feed(c)
    BY <1>1, <2>1
  <2> QED
    BY <2>1 DEF Bank, Feed
<1>5. n \in B => n[1] \in {"finding", "proof"}
  <2>1. ASSUME n \in B PROVE \E f : n = FindingNode(f.sid) \/ \E i : n = ProofNode(f.sid, i)
    BY <1>2, <2>1 DEF ProofsOf
  <2> QED
    BY <2>1 DEF FindingNode, ProofNode
<1>6. /\ \A o : Order(o)[1] = "order" /\ Event(o)[1] = "event"
      /\ \A s : Settlement(s)[1] = "settlement" /\ Exposure(s)[1] = "exposure"
      /\ \A e : Exception(e)[1] = "exception" /\ Lacking(e)[1] = "missing" /\ Carried(e)[1] = "carried"
      /\ \A k : BlockerNode(k)[1] = "blocker"
      /\ Materiality[1] = "materiality" /\ VerdictNode[1] = "verdict"
  BY DEF Order, Event, Settlement, Exposure, Exception, Lacking, Carried, BlockerNode, Materiality,
     VerdictNode
<1> QED
  BY <1>3, <1>4, <1>5, <1>6

\* The kinds that come after the settlements.
Later == {"exception", "exposure", "materiality", "verdict", "blocker", "carried"}

LEMMA KindsOfNodes ==
  /\ \A o : Order(o)[1] = "order" /\ Event(o)[1] = "event"
  /\ \A c : Bank(c)[1] = "bank" /\ Feed(c)[1] = "feed"
  /\ \A s : Settlement(s)[1] = "settlement" /\ Exposure(s)[1] = "exposure"
            /\ FindingNode(s)[1] = "finding"
  /\ \A s, i : ProofNode(s, i)[1] = "proof"
  /\ \A e : Exception(e)[1] = "exception" /\ Lacking(e)[1] = "missing" /\ Carried(e)[1] = "carried"
  /\ \A k : BlockerNode(k)[1] = "blocker"
  /\ Materiality[1] = "materiality" /\ VerdictNode[1] = "verdict"
BY DEF Order, Event, Settlement, Exposure, Exception, Lacking, Carried, BlockerNode, Materiality,
   VerdictNode, Bank, Feed, FindingNode, ProofNode

\* The edges of the graph that the traces of a blocker and of an order follow.
LEMMA EdgesAre ==
  ASSUME NEW books, NEW v, NEW b, b = Scoped(books), NEW x, x = AssessExposure(b),
         NEW E, E = BuildLineage(books, v).edges
  PROVE  /\ \A s \in b.period : <<Settlement(s), VerdictNode>> \in E
         /\ \A f \in b.findings : <<FindingNode(f.sid), Settlement(f.sid)>> \in E
         /\ \A f \in b.findings : \A i \in DOMAIN f.proofs :
              /\ <<ProofNode(f.sid, i), FindingNode(f.sid)>> \in E
              /\ \A o \in f.proofs[i].orders : <<Order(o), ProofNode(f.sid, i)>> \in E
         /\ \A e \in b.exceptions : <<Settlement(e.sid), Exception(e)>> \in E
         /\ \A s \in x.items : /\ <<Settlement(s), Exposure(s)>> \in E
                               /\ <<Exposure(s), Materiality>> \in E
         /\ <<Materiality, VerdictNode>> \in E
         /\ \A k \in v.blockers : /\ <<BlockerNode(k), VerdictNode>> \in E
                                  /\ \A c \in CauseOf(b, k) : <<c, BlockerNode(k)>> \in E
         /\ \A e \in v.carried : <<Carried(e), VerdictNode>> \in E
<1>1. PICK e1, e2, e3, e4, e5, e6 :
        /\ e1 = RecordEdges(b) /\ e2 = SettlementEdges(b) /\ e3 = FindingEdges(b)
        /\ e4 = ExceptionEdges(b) /\ e5 = ExposureEdges(b, x) /\ e6 = VerdictEdges(b, v)
  OBVIOUS
<1>2. E = e1 \cup e2 \cup e3 \cup e4 \cup e5 \cup e6
  BY <1>1 DEF BuildLineage
<1>3. \A s \in b.period : <<Settlement(s), VerdictNode>> \in e2
  BY <1>1 DEF SettlementEdges
<1>4. ASSUME NEW f \in b.findings
      PROVE  /\ <<FindingNode(f.sid), Settlement(f.sid)>> \in e3
             /\ \A i \in DOMAIN f.proofs :
                  /\ <<ProofNode(f.sid, i), FindingNode(f.sid)>> \in e3
                  /\ \A o \in f.proofs[i].orders : <<Order(o), ProofNode(f.sid, i)>> \in e3
  <2>1. PICK A, B, C : /\ A = {<<FindingNode(f.sid), Settlement(f.sid)>>}
                       /\ B = {<<p, FindingNode(f.sid)>> : p \in ProofsOf(f)}
                       /\ C = UNION {{<<Order(o), ProofNode(f.sid, i)>> : o \in f.proofs[i].orders}
                                      : i \in DOMAIN f.proofs}
    OBVIOUS
  <2>2. A \cup B \cup C \subseteq e3
    BY <1>1, <2>1 DEF FindingEdges
  <2>3. <<FindingNode(f.sid), Settlement(f.sid)>> \in A
    BY <2>1
  <2>4. \A i \in DOMAIN f.proofs : <<ProofNode(f.sid, i), FindingNode(f.sid)>> \in B
    BY <2>1 DEF ProofsOf
  <2>5. \A i \in DOMAIN f.proofs : \A o \in f.proofs[i].orders :
          <<Order(o), ProofNode(f.sid, i)>> \in C
    BY <2>1
  <2> QED
    BY <2>2, <2>3, <2>4, <2>5
<1>5. \A e \in b.exceptions : <<Settlement(e.sid), Exception(e)>> \in e4
  BY <1>1 DEF ExceptionEdges
<1>6. ASSUME NEW s \in x.items
      PROVE  <<Settlement(s), Exposure(s)>> \in e5 /\ <<Exposure(s), Materiality>> \in e5
  <2>1. {<<Settlement(s), Exposure(s)>>, <<Exposure(s), Materiality>>} \subseteq e5
    BY <1>1 DEF ExposureEdges
  <2> QED
    BY <2>1
<1>7. <<Materiality, VerdictNode>> \in e6
  BY <1>1 DEF VerdictEdges
<1>8. ASSUME NEW k \in v.blockers
      PROVE  /\ <<BlockerNode(k), VerdictNode>> \in e6
             /\ \A c \in CauseOf(b, k) : <<c, BlockerNode(k)>> \in e6
  <2>1. PICK C : C = {<<c, BlockerNode(k)>> : c \in CauseOf(b, k)}
    OBVIOUS
  <2>2. {<<BlockerNode(k), VerdictNode>>} \cup C \subseteq e6
    BY <1>1, <2>1 DEF VerdictEdges
  <2> QED
    BY <2>1, <2>2
<1>9. ASSUME NEW e \in v.carried PROVE <<Carried(e), VerdictNode>> \in e6
  <2>1. {<<Carried(e), VerdictNode>>, <<Exception(e), Carried(e)>>} \subseteq e6
    BY <1>1 DEF VerdictEdges
  <2> QED
    BY <2>1
<1> QED
  BY <1>2, <1>3, <1>4, <1>5, <1>6, <1>7, <1>8, <1>9

\* The edges of the graph, from the payments to the settlements; all the others
\* lead from a node that is no order to one that comes after the settlements.
LeadsTo(b, N, e) ==
  \/ \E o \in b.orders : e = <<Event(o), Order(o)>>
  \/ \E c \in b.credits : e = <<Feed(c), Bank(c)>>
  \/ \E c \in b.credits : c.utr \in b.period /\ e = <<Bank(c), Settlement(c.utr)>>
  \/ \E f \in b.findings : e = <<FindingNode(f.sid), Settlement(f.sid)>>
  \/ \E f \in b.findings : \E i \in DOMAIN f.proofs :
       e = <<ProofNode(f.sid, i), FindingNode(f.sid)>>
  \/ \E f \in b.findings : \E i \in DOMAIN f.proofs : \E o \in f.proofs[i].orders :
       e = <<Order(o), ProofNode(f.sid, i)>>
  \/ e[1] \in N /\ e[2] \in N /\ e[1][1] # "order" /\ e[2][1] \in Later

LEMMA EdgesLead ==
  ASSUME NEW books, Typed(books), NEW v, NEW b, b = Scoped(books), v.carried \subseteq b.exceptions,
         NEW N, N = BuildLineage(books, v).nodes, NEW e \in BuildLineage(books, v).edges
  PROVE  LeadsTo(b, N, e)
<1>1. PICK x : x = AssessExposure(b)
  OBVIOUS
<1>2. PICK e1, e2, e3, e4, e5, e6 :
        /\ e1 = RecordEdges(b) /\ e2 = SettlementEdges(b) /\ e3 = FindingEdges(b)
        /\ e4 = ExceptionEdges(b) /\ e5 = ExposureEdges(b, x) /\ e6 = VerdictEdges(b, v)
  OBVIOUS
<1>3. e \in e1 \cup e2 \cup e3 \cup e4 \cup e5 \cup e6 /\ N = Nodes(b, x, v)
  BY <1>1, <1>2 DEF BuildLineage
<1>4. /\ \A s \in b.period : Settlement(s) \in N
      /\ \A f \in b.findings : FindingNode(f.sid) \in N
      /\ \A y \in b.exceptions : Exception(y) \in N /\ (y.missing => Lacking(y) \in N)
      /\ \A s \in x.items : Exposure(s) \in N
      /\ Materiality \in N /\ VerdictNode \in N
      /\ \A k \in v.blockers : BlockerNode(k) \in N
      /\ \A y \in v.carried : Carried(y) \in N
  BY <1>3, NodesAre
<1>5. /\ \A y \in b.exceptions : y.sid \in b.period
      /\ x.items \subseteq b.period
  <2>1. Typed(b) /\ \A y \in b.exceptions : y.sid \in b.period
    BY ScopedIsTyped, ScopedFields
  <2> QED
    BY <1>1, <2>1, ExposureIs
<1>6. CASE e \in e1
  BY <1>2, <1>6 DEF RecordEdges, LeadsTo
<1>7. CASE e \in e2
  <2>1. \/ \E c \in b.credits : c.utr \in b.period /\ e = <<Bank(c), Settlement(c.utr)>>
        \/ \E s \in b.period : e = <<Settlement(s), VerdictNode>>
    BY <1>2, <1>7 DEF SettlementEdges
  <2>2. CASE \E s \in b.period : e = <<Settlement(s), VerdictNode>>
    BY <1>4, <2>2, KindsOfNodes DEF LeadsTo, Later
  <2> QED
    BY <2>1, <2>2 DEF LeadsTo
<1>8. CASE e \in e3
  <2>1. PICK f \in b.findings :
          \/ e = <<FindingNode(f.sid), Settlement(f.sid)>>
          \/ \E p \in ProofsOf(f) : e = <<p, FindingNode(f.sid)>>
          \/ \E i \in DOMAIN f.proofs : \E o \in f.proofs[i].orders :
               e = <<Order(o), ProofNode(f.sid, i)>>
    BY <1>2, <1>8 DEF FindingEdges
  <2> QED
    BY <2>1 DEF LeadsTo, ProofsOf
<1>9. CASE e \in e4
  <2>1. PICK y \in b.exceptions : \/ e = <<Settlement(y.sid), Exception(y)>>
                                  \/ y.missing /\ e = <<Lacking(y), Exception(y)>>
    BY <1>2, <1>9 DEF ExceptionEdges
  <2> QED
    BY <1>4, <1>5, <2>1, KindsOfNodes DEF LeadsTo, Later
<1>10. CASE e \in e5
  <2>1. PICK s \in x.items : \/ e = <<Settlement(s), Exposure(s)>> \/ e = <<Exposure(s), Materiality>>
                             \/ \E f \in FindingsOf(b, s) : e = <<FindingNode(s), Exposure(s)>>
                             \/ \E y \in ExceptionsOf(b, s) : e = <<Exception(y), Exposure(s)>>
    <3>1. PICK A : A = {{<<Settlement(s), Exposure(s)>>, <<Exposure(s), Materiality>>}
           \cup {<<FindingNode(s), Exposure(s)>> : f \in FindingsOf(b, s)}
           \cup {<<Exception(y), Exposure(s)>> : y \in ExceptionsOf(b, s)}
           : s \in x.items}
      OBVIOUS
    <3>2. e5 = UNION A
      BY <1>2, <3>1 DEF ExposureEdges
    <3>3. PICK B \in A : e \in B
      BY <1>10, <3>2
    <3>4. PICK s \in x.items :
            B = {<<Settlement(s), Exposure(s)>>, <<Exposure(s), Materiality>>}
           \cup {<<FindingNode(s), Exposure(s)>> : f \in FindingsOf(b, s)}
           \cup {<<Exception(y), Exposure(s)>> : y \in ExceptionsOf(b, s)}
      BY <3>1, <3>3
    <3> QED
      BY <3>3, <3>4
  <2>2. \A f \in FindingsOf(b, s) : FindingNode(s) \in N
    BY <1>4 DEF FindingsOf
  <2>3. \A y \in ExceptionsOf(b, s) : Exception(y) \in N
    BY <1>4 DEF ExceptionsOf
  <2> QED
    BY <1>4, <1>5, <2>1, <2>2, <2>3, KindsOfNodes DEF LeadsTo, Later
<1>11. CASE e \in e6
  <2>1. \/ e = <<Materiality, VerdictNode>>
        \/ \E k \in v.blockers : \/ e = <<BlockerNode(k), VerdictNode>>
                                 \/ \E c \in CauseOf(b, k) : e = <<c, BlockerNode(k)>>
        \/ \E y \in v.carried : e = <<Carried(y), VerdictNode>> \/ e = <<Exception(y), Carried(y)>>
    BY <1>2, <1>11 DEF VerdictEdges
  <2>2. ASSUME NEW k \in v.blockers, NEW c \in CauseOf(b, k)
        PROVE  c \in N /\ c[1] # "order"
    <3>1. \/ \E y \in b.exceptions : c = Exception(y)
          \/ \E s \in b.period : c = Settlement(s)
          \/ c = Materiality
      <4>1. CASE k.ref \in {Exception(y) : y \in b.exceptions} \cup {Settlement(s) : s \in b.period}
        <5>1. CauseOf(b, k) = {k.ref}
          <6>1. k.ref # Period
            BY <4>1 DEF Exception, Settlement, Period
          <6> QED
            BY <4>1, <6>1 DEF CauseOf
        <5> QED
          BY <4>1, <5>1, <2>2
      <4>2. CASE k.ref \notin {Exception(y) : y \in b.exceptions} \cup {Settlement(s) : s \in b.period}
        <5>1. CauseOf(b, k) \subseteq {Materiality}
          BY <4>2 DEF CauseOf
        <5> QED
          BY <5>1, <2>2
      <4> QED
        BY <4>1, <4>2
    <3> QED
      BY <1>4, <3>1, KindsOfNodes
  <2> QED
    BY <1>4, <2>1, <2>2, KindsOfNodes DEF LeadsTo, Later
<1> QED
  BY <1>3, <1>6, <1>7, <1>8, <1>9, <1>10, <1>11

LEMMA NothingDangles ==
  ASSUME NEW books, Typed(books), NEW v, v.carried \subseteq Scoped(books).exceptions,
         NEW graph, graph = BuildLineage(books, v)
  PROVE  Defects(graph) = {} /\ Orphans(books, graph) = {}
<1>1. PICK b : b = Scoped(books)
  OBVIOUS
<1>2. PICK x : x = AssessExposure(b)
  OBVIOUS
<1>3. PICK N, E : N = graph.nodes /\ E = graph.edges
  OBVIOUS
<1>4. N = Nodes(b, x, v)
  BY <1>1, <1>2, <1>3 DEF BuildLineage
<1>5. /\ \A o \in b.orders : Order(o) \in N /\ Event(o) \in N
      /\ \A c \in b.credits : Bank(c) \in N /\ Feed(c) \in N
      /\ \A s \in b.period : Settlement(s) \in N
      /\ \A f \in b.findings : /\ FindingNode(f.sid) \in N
                               /\ \A i \in DOMAIN f.proofs : ProofNode(f.sid, i) \in N
      /\ \A o \in CitedBy(b) : Order(o) \in N
  BY <1>4, NodesAre
<1>6. b.findings = {f \in books.findings : f.sid \in books.period} /\ b.period = books.period
      /\ \A e \in b.exceptions : e.sid \in b.period
  BY <1>1, ScopedFields
<1>7. ASSUME NEW e \in E PROVE e[1] \in N /\ e[2] \in N
  <2>1. LeadsTo(b, N, e)
    BY <1>1, <1>3, EdgesLead
  <2>2. ASSUME NEW f \in b.findings, NEW i \in DOMAIN f.proofs, NEW o \in f.proofs[i].orders
        PROVE  Order(o) \in N
    <3>1. o \in CitedBy(b)
      BY DEF CitedBy, Assignments
    <3> QED
      BY <1>5, <3>1
  <2> QED
    BY <1>5, <1>6, <2>1, <2>2 DEF LeadsTo
<1>8. Defects(graph) = {}
  BY <1>3, <1>7 DEF Defects
<1>9. Orphans(books, graph) = {}
  BY <1>1, <1>3, <1>5, <1>6 DEF Orphans
<1> QED
  BY <1>8, <1>9

\* The verdict rests on all its blockers, on all that it carries and on every
\* settlement of the period.
LEMMA RootsAre ==
  ASSUME NEW books, Typed(books), NEW v, NEW graph, graph = BuildLineage(books, v),
         NEW causes, causes = RootCauses(graph)
  PROVE  /\ causes.blockers = {BlockerNode(k) : k \in v.blockers}
         /\ causes.carried = {Carried(e) : e \in v.carried}
         /\ causes.settlements = {Settlement(s) : s \in books.period}
<1>1. PICK b : b = Scoped(books)
  OBVIOUS
<1>2. PICK x : x = AssessExposure(b)
  OBVIOUS
<1>3. PICK N, E : N = graph.nodes /\ E = graph.edges
  OBVIOUS
<1>4. N = Nodes(b, x, v) /\ b.period = books.period
  BY <1>1, <1>2, <1>3, ScopedFields DEF BuildLineage
<1>5. PICK T : T = TraceBackward(graph, VerdictNode)
  OBVIOUS
<1>6. /\ causes.blockers = {n \in T : n[1] = "blocker"}
      /\ causes.carried = {n \in T : n[1] = "carried"}
      /\ causes.settlements = {n \in T : n[1] = "settlement"}
  BY <1>5 DEF RootCauses, Kind
<1>7. PICK after :
        /\ T = after[9] \cap N
        /\ after[0] = {VerdictNode}
        /\ \A n \in 0..8 : /\ after[n] \subseteq after[n + 1]
                           /\ after[n] \subseteq after[9]
                           /\ \A e \in E : e[2] \in after[n] => e[1] \in after[n + 1]
  BY <1>3, <1>5, TracedUp
<1>8. \A p : <<p, VerdictNode>> \in E /\ p \in N => p \in T
  <2>1. \A e \in E : e[2] \in after[0] => e[1] \in after[0 + 1]
    BY <1>7
  <2>2. after[1] \subseteq after[9]
    BY <1>7
  <2> QED
    BY <1>7, <2>1, <2>2
<1>9. /\ \A k \in v.blockers : BlockerNode(k) \in T
      /\ \A e \in v.carried : Carried(e) \in T
      /\ \A s \in b.period : Settlement(s) \in T
  <2>1. /\ \A k \in v.blockers : BlockerNode(k) \in N
        /\ \A e \in v.carried : Carried(e) \in N
        /\ \A s \in b.period : Settlement(s) \in N
    BY <1>4, NodesAre
  <2>2. /\ \A k \in v.blockers : <<BlockerNode(k), VerdictNode>> \in E
        /\ \A e \in v.carried : <<Carried(e), VerdictNode>> \in E
        /\ \A s \in b.period : <<Settlement(s), VerdictNode>> \in E
    BY <1>1, <1>2, <1>3, EdgesAre
  <2> QED
    BY <1>8, <2>1, <2>2
<1>10. \A n \in T : /\ n[1] = "settlement" => \E s \in b.period : n = Settlement(s)
                    /\ n[1] = "blocker" => \E k \in v.blockers : n = BlockerNode(k)
                    /\ n[1] = "carried" => \E e \in v.carried : n = Carried(e)
  BY <1>4, <1>7, NodesOfKind
<1>11. causes.blockers = {BlockerNode(k) : k \in v.blockers}
  BY <1>6, <1>9, <1>10, KindsOfNodes
<1>12. causes.carried = {Carried(e) : e \in v.carried}
  BY <1>6, <1>9, <1>10, KindsOfNodes
<1>13. causes.settlements = {Settlement(s) : s \in b.period}
  BY <1>6, <1>9, <1>10, KindsOfNodes
<1> QED
  BY <1>4, <1>11, <1>12, <1>13

\* The findings with a proof that cites an order.
CitedIn(b, o) == {f \in b.findings : o \in UNION Assignments({f})}

\* An order has an impact on the settlements whose proofs cite it, through them
\* on the verdict, and on no other settlement: the edges lead out of no set of
\* the order, the proofs that cite it, their findings and settlements, and what
\* comes after the settlements.
LEMMA ImpactIs ==
  ASSUME NEW books, Typed(books), NEW v, v.carried \subseteq Scoped(books).exceptions,
         NEW graph, graph = BuildLineage(books, v), NEW o,
         NEW citing, citing = CitedIn(Scoped(books), o),
         NEW impact, impact = OrderImpact(graph, o)
  PROVE  /\ impact.settlements = {Settlement(f.sid) : f \in citing}
         /\ impact.reached <=> citing # {}
<1>1. PICK b : b = Scoped(books)
  OBVIOUS
<1>2. PICK x : x = AssessExposure(b)
  OBVIOUS
<1>3. PICK N, E : N = graph.nodes /\ E = graph.edges
  OBVIOUS
<1>4. /\ N = Nodes(b, x, v) /\ Typed(b)
      /\ \A f \in b.findings : f.sid \in b.period
  BY <1>1, <1>2, <1>3, ScopedFields, ScopedIsTyped DEF BuildLineage
<1>5. PICK T : T = TraceForward(graph, Order(o))
  OBVIOUS
<1>6. /\ impact.settlements = {n \in T : n[1] = "settlement"}
      /\ impact.reached <=> VerdictNode \in T
  BY <1>5 DEF OrderImpact, Kind
<1>7. PICK after :
        /\ T = after[9] \cap N
        /\ after[0] = {Order(o)}
        /\ \A n \in 0..8 : /\ after[n] \subseteq after[9]
                           /\ \A e \in E : e[1] \in after[n] => e[2] \in after[n + 1]
        /\ \A S : Order(o) \in S /\ (\A e \in E : e[1] \in S => e[2] \in S)
                    => after[9] \subseteq S
  <2>1. PICK start : start = Order(o)
    OBVIOUS
  <2>2. PICK after : /\ TraceForward(graph, start) = after[9] \cap graph.nodes
                     /\ Descent(after, graph.edges, start)
    BY TracedDown
  <2>3. Descent(after, E, start)
    BY <1>3, <2>2
  <2> QED
    BY <1>3, <1>5, <2>1, <2>2, <2>3 DEF Descent
<1>8. \A f \in b.findings :
        f \in citing <=> \E i \in DOMAIN f.proofs : o \in f.proofs[i].orders
  <2>1. ASSUME NEW f \in b.findings
        PROVE  o \in UNION Assignments({f}) <=> \E i \in DOMAIN f.proofs : o \in f.proofs[i].orders
    BY DEF Assignments
  <2> QED
    BY <1>1, <2>1 DEF CitedIn
<1>9. citing \subseteq b.findings
  BY <1>1 DEF CitedIn
<1>10. \A f \in citing : Settlement(f.sid) \in T /\ VerdictNode \in T
  <2> SUFFICES ASSUME NEW f \in citing PROVE Settlement(f.sid) \in T /\ VerdictNode \in T
    OBVIOUS
  <2>1. PICK i \in DOMAIN f.proofs : o \in f.proofs[i].orders
    BY <1>8, <1>9
  <2>2. /\ <<Order(o), ProofNode(f.sid, i)>> \in E
        /\ <<ProofNode(f.sid, i), FindingNode(f.sid)>> \in E
        /\ <<FindingNode(f.sid), Settlement(f.sid)>> \in E
        /\ <<Settlement(f.sid), VerdictNode>> \in E
    BY <1>1, <1>2, <1>3, <1>4, <1>9, <2>1, EdgesAre
  <2>3. ProofNode(f.sid, i) \in after[1]
    <3>1. \A e \in E : e[1] \in after[0] => e[2] \in after[0 + 1]
      BY <1>7
    <3> QED
      BY <1>7, <2>2, <3>1
  <2>4. FindingNode(f.sid) \in after[2]
    <3>1. \A e \in E : e[1] \in after[1] => e[2] \in after[1 + 1]
      BY <1>7
    <3> QED
      BY <2>2, <2>3, <3>1
  <2>5. Settlement(f.sid) \in after[3]
    <3>1. \A e \in E : e[1] \in after[2] => e[2] \in after[2 + 1]
      BY <1>7
    <3> QED
      BY <2>2, <2>4, <3>1
  <2>6. VerdictNode \in after[4]
    <3>1. \A e \in E : e[1] \in after[3] => e[2] \in after[3 + 1]
      BY <1>7
    <3> QED
      BY <2>2, <2>5, <3>1
  <2>7. after[3] \subseteq after[9] /\ after[4] \subseteq after[9]
    BY <1>7
  <2>8. Settlement(f.sid) \in N /\ VerdictNode \in N
    BY <1>4, <1>9, NodesAre
  <2> QED
    BY <1>7, <2>5, <2>6, <2>7, <2>8
<1>11. PICK after_citing : after_citing = {n \in N : n[1] \in Later /\ citing # {}}
  OBVIOUS
<1>12. PICK P : P = {p \in N : \E f \in citing : \E i \in DOMAIN f.proofs : p = ProofNode(f.sid, i)}
  OBVIOUS
<1>13. PICK F : F = {FindingNode(f.sid) : f \in citing}
  OBVIOUS
<1>14. PICK G : G = {Settlement(f.sid) : f \in citing}
  OBVIOUS
<1>15. PICK S : S = {Order(o)} \cup P \cup F \cup G \cup after_citing
  OBVIOUS
<1>16. \A n \in S : n # Order(o) => citing # {}
  BY <1>11, <1>12, <1>13, <1>14, <1>15
<1>17. \A n \in S : \/ n = Order(o) \/ n[1] \in {"proof", "finding", "settlement"} \/ n[1] \in Later
  <2>1. ASSUME NEW n \in P PROVE n[1] = "proof"
    <3>1. \E s, i : n = ProofNode(s, i)
      BY <1>12
    <3> QED
      BY <3>1, KindsOfNodes
  <2>2. \A n \in F : n[1] = "finding"
    BY <1>13, KindsOfNodes
  <2>3. \A n \in G : n[1] = "settlement"
    BY <1>14, KindsOfNodes
  <2> QED
    BY <1>11, <1>15, <2>1, <2>2, <2>3
<1>18. ASSUME NEW e \in E, e[1] \in S PROVE e[2] \in S
  <2>1. LeadsTo(b, N, e)
    BY <1>1, <1>3, EdgesLead
  <2>2. CASE \E p \in b.orders : e = <<Event(p), Order(p)>>
    BY <1>17, <1>18, <2>2, KindsOfNodes DEF Later
  <2>3. CASE \E c \in b.credits : e = <<Feed(c), Bank(c)>>
    BY <1>17, <1>18, <2>3, KindsOfNodes DEF Later
  <2>4. CASE \E c \in b.credits : c.utr \in b.period /\ e = <<Bank(c), Settlement(c.utr)>>
    BY <1>17, <1>18, <2>4, KindsOfNodes DEF Later
  <2>5. CASE \E f \in b.findings : e = <<FindingNode(f.sid), Settlement(f.sid)>>
    <3>1. PICK f \in b.findings : e = <<FindingNode(f.sid), Settlement(f.sid)>>
      BY <2>5
    <3>2. e[1] \in F
      <4>1. e[1][1] = "finding"
        BY <3>1, KindsOfNodes
      <4> QED
        BY <1>11, <1>12, <1>14, <1>15, <1>18, <4>1, KindsOfNodes DEF Later
    <3>3. PICK g \in citing : FindingNode(g.sid) = FindingNode(f.sid)
      BY <1>13, <3>1, <3>2
    <3>4. g.sid = f.sid
      BY <3>3 DEF FindingNode
    <3> QED
      BY <1>14, <1>15, <3>1, <3>4
  <2>6. CASE \E f \in b.findings : \E i \in DOMAIN f.proofs :
               e = <<ProofNode(f.sid, i), FindingNode(f.sid)>>
    <3>1. PICK f \in b.findings : \E i \in DOMAIN f.proofs :
            e = <<ProofNode(f.sid, i), FindingNode(f.sid)>>
      BY <2>6
    <3>2. PICK i \in DOMAIN f.proofs : e = <<ProofNode(f.sid, i), FindingNode(f.sid)>>
      BY <3>1
    <3>3. e[1] \in P
      <4>1. e[1][1] = "proof"
        BY <3>2, KindsOfNodes
      <4> QED
        BY <1>11, <1>13, <1>14, <1>15, <1>18, <4>1, KindsOfNodes DEF Later
    <3>4. PICK g \in citing : \E j \in DOMAIN g.proofs : ProofNode(g.sid, j) = ProofNode(f.sid, i)
      BY <1>12, <3>2, <3>3
    <3>5. g.sid = f.sid
      BY <3>4 DEF ProofNode
    <3> QED
      BY <1>13, <1>15, <3>2, <3>5
  <2>7. CASE \E f \in b.findings : \E i \in DOMAIN f.proofs : \E p \in f.proofs[i].orders :
               e = <<Order(p), ProofNode(f.sid, i)>>
    <3>1. PICK f \in b.findings : \E i \in DOMAIN f.proofs : \E p \in f.proofs[i].orders :
            e = <<Order(p), ProofNode(f.sid, i)>>
      BY <2>7
    <3>2. PICK i \in DOMAIN f.proofs : \E p \in f.proofs[i].orders :
            e = <<Order(p), ProofNode(f.sid, i)>>
      BY <3>1
    <3>3. PICK p \in f.proofs[i].orders : e = <<Order(p), ProofNode(f.sid, i)>>
      BY <3>2
    <3>4. e[1] = Order(o)
      BY <1>17, <1>18, <3>3, KindsOfNodes DEF Later
    <3>5. p = o
      BY <3>3, <3>4 DEF Order
    <3>6. f \in citing
      BY <1>8, <3>3, <3>5
    <3>7. ProofNode(f.sid, i) \in N
      BY <1>4, NodesAre
    <3> QED
      BY <1>12, <1>15, <3>3, <3>6, <3>7
  <2>8. CASE e[1] \in N /\ e[2] \in N /\ e[1][1] # "order" /\ e[2][1] \in Later
    <3>1. e[1] # Order(o)
      BY <2>8, KindsOfNodes
    <3>2. citing # {}
      BY <1>16, <1>18, <3>1
    <3> QED
      BY <1>11, <1>15, <2>8, <3>2
  <2> QED
    BY <2>1, <2>2, <2>3, <2>4, <2>5, <2>6, <2>7, <2>8 DEF LeadsTo
<1>19. T \subseteq S
  <2>1. Order(o) \in S /\ \A e \in E : e[1] \in S => e[2] \in S
    BY <1>15, <1>18
  <2>2. after[9] \subseteq S
    BY <1>7, <2>1
  <2> QED
    BY <1>7, <2>2
<1>20. impact.settlements = {Settlement(f.sid) : f \in citing}
  <2>1. \A n \in S : n[1] = "settlement" => n \in G
    <3>1. ASSUME NEW n \in P PROVE n[1] = "proof"
      <4>1. \E s, i : n = ProofNode(s, i)
        BY <1>12
      <4> QED
        BY <4>1, KindsOfNodes
    <3>2. \A n \in F : n[1] = "finding"
      BY <1>13, KindsOfNodes
    <3>3. Order(o)[1] = "order" /\ "settlement" \notin Later
      BY KindsOfNodes DEF Later
    <3> QED
      BY <1>11, <1>15, <3>1, <3>2, <3>3
  <2>2. \A n \in G : n \in T /\ n[1] = "settlement"
    BY <1>10, <1>14, KindsOfNodes
  <2>3. impact.settlements = G
    BY <1>6, <1>19, <2>1, <2>2
  <2> QED
    BY <1>14, <2>3
<1>21. impact.reached <=> citing # {}
  <2>1. VerdictNode \in T => citing # {}
    BY <1>16, <1>19, KindsOfNodes
  <2> QED
    BY <1>6, <1>10, <2>1
<1> QED
  BY <1>20, <1>21

\* From a set of a chain the findings, the proofs and the orders of a
\* settlement in it are three steps away.
LEMMA RecordsAreTraced ==
  ASSUME NEW books, Typed(books), NEW v, NEW graph, graph = BuildLineage(books, v),
         NEW b, b = Scoped(books), NEW s \in b.period, NEW after,
         \A n \in 0..8 : /\ after[n] \subseteq after[9]
                         /\ \A e \in graph.edges : e[2] \in after[n] => e[1] \in after[n + 1],
         NEW n \in 0..5, Settlement(s) \in after[n]
  PROVE  RecordsOf(books, s) \subseteq after[9] \cap graph.nodes
<1>1. PICK x : x = AssessExposure(b)
  OBVIOUS
<1>2. PICK N, E : N = graph.nodes /\ E = graph.edges
  OBVIOUS
<1>3. N = Nodes(b, x, v) /\ b.period = books.period /\ FindingsOf(books, s) = FindingsOf(b, s)
  BY <1>1, <1>2, ScopedFields, ScopedIsTyped DEF BuildLineage
<1>4. FindingsOf(b, s) = {f \in b.findings : f.sid = s}
  BY DEF FindingsOf
<1>5. \A k \in 0..8 : \A p, q : <<p, q>> \in E /\ q \in after[k] => p \in after[k + 1]
  BY <1>2
<1>6. /\ n \in 0..8 /\ n + 1 \in 0..8 /\ n + 2 \in 0..8 /\ n + 3 \in 0..8
      /\ (n + 1) + 1 = n + 2 /\ (n + 2) + 1 = n + 3
  OBVIOUS
<1>7. Settlement(s) \in after[9] \cap N
  BY <1>3, <1>6, NodesAre
<1>8. ASSUME NEW f \in FindingsOf(b, s)
      PROVE  FindingNode(f.sid) \in after[n + 1] /\ FindingNode(f.sid) \in N
  <2>1. <<FindingNode(f.sid), Settlement(s)>> \in E
    BY <1>1, <1>2, <1>4, EdgesAre
  <2>2. FindingNode(f.sid) \in after[n + 1]
    BY <1>5, <1>6, <2>1
  <2> QED
    BY <1>3, <1>4, <2>2, NodesAre
<1>9. ASSUME NEW f \in FindingsOf(b, s), NEW i \in DOMAIN f.proofs, NEW o \in f.proofs[i].orders
      PROVE  Order(o) \in after[n + 3] /\ Order(o) \in N
  <2>1. /\ <<ProofNode(f.sid, i), FindingNode(f.sid)>> \in E
        /\ <<Order(o), ProofNode(f.sid, i)>> \in E
    BY <1>1, <1>2, <1>4, EdgesAre
  <2>2. ProofNode(f.sid, i) \in after[n + 2]
    BY <1>5, <1>6, <1>8, <2>1
  <2>3. Order(o) \in after[n + 3]
    BY <1>5, <1>6, <2>1, <2>2
  <2>4. o \in CitedBy(b)
    BY <1>4 DEF CitedBy, Assignments
  <2> QED
    BY <1>3, <2>3, <2>4, NodesAre
<1>10. ASSUME NEW o \in UNION Assignments(FindingsOf(b, s))
       PROVE  Order(o) \in after[9] \cap N
  <2>1. PICK A \in Assignments(FindingsOf(b, s)) : o \in A
    OBVIOUS
  <2>2. \E f \in FindingsOf(b, s) : \E i \in DOMAIN f.proofs : A = f.proofs[i].orders
    BY DEF Assignments
  <2>3. PICK f \in FindingsOf(b, s) : \E i \in DOMAIN f.proofs : A = f.proofs[i].orders
    BY <2>2
  <2>4. PICK i \in DOMAIN f.proofs : A = f.proofs[i].orders
    BY <2>3
  <2>5. Order(o) \in after[n + 3] /\ Order(o) \in N
    BY <1>9, <2>1, <2>4
  <2> QED
    BY <1>6, <2>5
<1>11. \A f \in FindingsOf(b, s) : FindingNode(f.sid) \in after[9] \cap N
  BY <1>6, <1>8
<1>12. RecordsOf(books, s)
        = {Settlement(s)} \cup {FindingNode(f.sid) : f \in FindingsOf(b, s)}
          \cup {Order(o) : o \in UNION Assignments(FindingsOf(b, s))}
  BY <1>3 DEF RecordsOf
<1> QED
  BY <1>2, <1>7, <1>10, <1>11, <1>12

\* Whatever settlement a blocker is about, the trace of the blocker gets to it:
\* directly, through its exception, or through its exposure and materiality.
LEMMA BlockerLeadsBack ==
  ASSUME DashInv, verdict = DecidePeriod(book), NEW k \in verdict.blockers,
         NEW s \in book.period, s \in Concerned(k), NEW graph, graph = Graph
  PROVE  RecordsOf(book, s) \subseteq TraceBackward(graph, BlockerNode(k))
<1>1. PICK b : b = Scoped(book)
  OBVIOUS
<1>2. PICK x : x = AssessExposure(b)
  OBVIOUS
<1>3. PICK v : v = verdict
  OBVIOUS
<1>4. /\ graph = BuildLineage(book, v) /\ graph.nodes = Nodes(b, x, v) /\ k \in v.blockers
  BY <1>1, <1>2, <1>3 DEF Graph, BuildLineage
<1>5. /\ Typed(book) /\ Typed(b) /\ b.period = book.period
      /\ b.exceptions = {e \in book.exceptions : e.sid \in book.period}
      /\ k \in Blockers(b)
  <2>1. Typed(book)
    BY BooksAre
  <2> QED
    BY <1>1, <1>3, <2>1, ScopedFields, ScopedIsTyped, VerdictIs
<1>6. PICK E : E = graph.edges
  OBVIOUS
<1>7. PICK start : start = BlockerNode(k)
  OBVIOUS
<1>8. PICK after :
        /\ TraceBackward(graph, start) = after[9] \cap graph.nodes
        /\ after[0] = {start}
        /\ \A n \in 0..8 : /\ after[n] \subseteq after[n + 1]
                           /\ after[n] \subseteq after[9]
                           /\ \A e \in graph.edges : e[2] \in after[n] => e[1] \in after[n + 1]
  BY TracedUp
<1>9. \A n \in 0..8 : \A p, q : <<p, q>> \in E /\ q \in after[n] => p \in after[n + 1]
  BY <1>6, <1>8
<1>10. start \in after[0] /\ \A c \in CauseOf(b, k) : c \in after[1]
  <2>1. \A c \in CauseOf(b, k) : <<c, start>> \in E
    BY <1>1, <1>2, <1>4, <1>6, <1>7, EdgesAre
  <2>2. start \in after[0] /\ 0 \in 0..8 /\ 0 + 1 = 1
    BY <1>8
  <2> QED
    BY <1>9, <2>1, <2>2
<1>11. \E n \in 0..5 : Settlement(s) \in after[n]
  <2>1. CASE k.ref[1] = "settlement"
    <3>1. k.ref[2] = s
      <4>1. k.ref # Period
        BY <2>1 DEF Period
      <4> QED
        BY <2>1, <4>1 DEF Concerned
    <3>2. k.ref = Settlement(s)
      BY <1>5, <2>1, <3>1, RefIsSomeRecord DEF Settlement, Exception, SharedOrder, Period
    <3>3. CauseOf(b, k) = {k.ref}
      BY <1>5, <3>2 DEF CauseOf, Settlement, Period
    <3> QED
      BY <1>10, <3>2, <3>3
  <2>2. CASE k.ref[1] = "exception"
    <3>1. PICK y \in book.exceptions : y.id = k.ref[2] /\ y.sid = s
      <4>1. k.ref # Period
        BY <2>2 DEF Period
      <4>2. Concerned(k) = {y.sid : y \in {z \in book.exceptions : z.id = k.ref[2]}}
        BY <2>2, <4>1 DEF Concerned
      <4> QED
        BY <4>2
    <3>2. PICK e \in b.exceptions : k.ref = Exception(e)
      BY <1>5, <2>2, RefIsSomeRecord DEF Settlement, Exception, SharedOrder, Period
    <3>3. e.id = y.id /\ e \in book.exceptions
      BY <1>5, <3>1, <3>2 DEF Exception
    <3>4. e.sid = s
      BY <1>5, <3>1, <3>3 DEF Typed
    <3>5. CauseOf(b, k) = {k.ref}
      BY <3>2 DEF CauseOf, Exception, Period
    <3>6. Exception(e) \in after[1]
      BY <1>10, <3>2, <3>5
    <3>7. <<Settlement(s), Exception(e)>> \in E
      BY <1>1, <1>2, <1>4, <1>6, <3>4, EdgesAre
    <3>8. Settlement(s) \in after[1 + 1] /\ 1 + 1 \in 0..5
      BY <1>9, <3>6, <3>7
    <3> QED
      BY <3>8
  <2>3. CASE k.ref = Period
    <3>1. Exposure(s) \in graph.nodes
      <4>1. Period[1] = "period"
        BY DEF Period
      <4>2. Concerned(k) = {t \in book.period : Exposure(t) \in Graph.nodes}
        BY <2>3, <4>1 DEF Concerned
      <4> QED
        BY <4>2
    <3>2. s \in x.items
      <4>1. \E t \in x.items : Exposure(s) = Exposure(t)
        BY <1>4, <3>1, NodesOfKind, KindsOfNodes
      <4> QED
        BY <4>1 DEF Exposure
    <3>3. CauseOf(b, k) = {Materiality}
      <4>1. /\ \A e : Exception(e) # Period
            /\ \A t : Settlement(t) # Period
        BY DEF Exception, Settlement, Period
      <4> QED
        BY <2>3, <4>1 DEF CauseOf
    <3>4. Materiality \in after[1]
      BY <1>10, <3>3
    <3>5. <<Settlement(s), Exposure(s)>> \in E /\ <<Exposure(s), Materiality>> \in E
      BY <1>1, <1>2, <1>4, <1>6, <3>2, EdgesAre
    <3>6. Exposure(s) \in after[1 + 1]
      BY <1>9, <3>4, <3>5
    <3>7. Settlement(s) \in after[2 + 1] /\ 2 + 1 \in 0..5
      BY <1>9, <3>5, <3>6
    <3> QED
      BY <3>7
  <2>4. CASE k.ref[1] \notin {"settlement", "exception"} /\ k.ref # Period
    <3>1. Concerned(k) = {}
      BY <2>4 DEF Concerned
    <3> QED
      BY <3>1
  <2> QED
    BY <2>1, <2>2, <2>3, <2>4
<1>12. PICK n \in 0..5 : Settlement(s) \in after[n]
  BY <1>11
<1>13. \A m \in 0..8 : /\ after[m] \subseteq after[9]
                       /\ \A e \in graph.edges : e[2] \in after[m] => e[1] \in after[m + 1]
  BY <1>8
<1>14. RecordsOf(book, s) \subseteq after[9] \cap graph.nodes
  BY <1>1, <1>4, <1>5, <1>12, <1>13, RecordsAreTraced
<1> QED
  BY <1>7, <1>8, <1>14

\* Every blocker but those about a shared order is about a settlement.
LEMMA BlockerConcerns ==
  ASSUME DashInv, verdict = DecidePeriod(book), NEW k \in verdict.blockers,
         k.kind # "DUPLICATE_LEDGER_IMPACT"
  PROVE  Concerned(k) \cap book.period # {}
<1>1. PICK b : b = Scoped(book)
  OBVIOUS
<1>2. PICK x : x = AssessExposure(b)
  OBVIOUS
<1>3. PICK v : v = verdict
  OBVIOUS
<1>4. /\ Typed(b) /\ b.period = book.period /\ k \in Blockers(b)
      /\ b.exceptions = {e \in book.exceptions : e.sid \in book.period}
  <2>1. Typed(book)
    BY BooksAre
  <2> QED
    BY <1>1, <1>3, <2>1, ScopedFields, ScopedIsTyped, VerdictIs
<1>5. /\ \A f \in b.findings : f.sid \in b.period
      /\ x.items \subseteq b.period
  <2>1. Typed(book)
    BY BooksAre
  <2> QED
    BY <1>1, <1>2, <1>4, <2>1, ScopedFields, ExposureIs
<1>6. \/ \E s \in b.period : k.ref = Settlement(s)
      \/ \E e \in b.exceptions : k.ref = Exception(e)
      \/ k.ref = Period
  <2>1. CASE k \in HardBlockers(b)
    <3>1. CASE k \in Untimely(b)
      BY <3>1 DEF Untimely, Blocker
    <3>2. CASE k \in Disagreements(b)
      BY <3>2 DEF Disagreements, Blocker
    <3>3. CASE k \in Contradictions(b)
      BY <3>3 DEF Contradictions, Contradicted, ExceptionsOf, Blocker
    <3>4. CASE k \in DuplicateImpact(b)
      BY <3>4 DEF DuplicateImpact, Blocker
    <3>5. CASE k \in FailedInvariants(b)
      BY <1>5, <3>5 DEF FailedInvariants, FailedBy, Blocker
    <3>6. CASE k \in Compromised(b)
      BY <1>5, <3>6 DEF Compromised, Blocker
    <3>7. CASE k \in Prohibited(b)
      BY <3>7 DEF Prohibited, Blocker
    <3>8. CASE k \in Serious(b)
      BY <3>8 DEF Serious, Blocker
    <3>9. CASE k \in Unexamined(b)
      BY <3>9 DEF Unexamined, Blocker
    <3> QED
      BY <2>1, <3>1, <3>2, <3>3, <3>4, <3>5, <3>6, <3>7, <3>8, <3>9 DEF HardBlockers
  <2>2. CASE k \in MaterialBlockers(b, x)
    <3>1. CASE \E s \in x.items : k \in Contributors(b, x, s)
      BY <1>5, <3>1 DEF Contributors, ExceptionsOf, Blocker
    <3>2. CASE ~\E s \in x.items : k \in Contributors(b, x, s)
      BY <1>5, <2>2, <3>2 DEF MaterialBlockers, Blocker
    <3> QED
      BY <3>1, <3>2
  <2> QED
    BY <1>2, <1>4, <2>1, <2>2 DEF Blockers
<1>7. CASE \E s \in b.period : k.ref = Settlement(s)
  <2>1. PICK s \in b.period : k.ref = Settlement(s)
    BY <1>7
  <2>2. k.ref[1] = "settlement" /\ k.ref[2] = s
    BY <2>1 DEF Settlement
  <2>3. k.ref # Period
    BY <2>2 DEF Period
  <2>4. Concerned(k) = {k.ref[2]}
    BY <2>2, <2>3 DEF Concerned
  <2> QED
    BY <1>4, <2>1, <2>2, <2>4
<1>8. CASE \E e \in b.exceptions : k.ref = Exception(e)
  <2>1. PICK e \in b.exceptions : k.ref = Exception(e)
    BY <1>8
  <2>2. k.ref[1] = "exception" /\ k.ref[2] = e.id
    BY <2>1 DEF Exception
  <2>3. k.ref # Period
    BY <2>2 DEF Period
  <2>4. Concerned(k) = {y.sid : y \in {z \in book.exceptions : z.id = k.ref[2]}}
    BY <2>2, <2>3 DEF Concerned
  <2>5. e \in book.exceptions /\ e.sid \in book.period
    BY <1>4, <2>1
  <2> QED
    BY <2>2, <2>4, <2>5
<1>9. CASE k.ref = Period
  <2>1. Concerned(k) = {t \in book.period : Exposure(t) \in Graph.nodes}
    BY <1>9 DEF Concerned, Period
  <2>2. x.net > Allowable(x.total)
    BY <1>2, <1>4, <1>9, PeriodRef
  <2>3. x.net \in Int /\ x.total \in Int /\ Allowable(x.total) \in Nat
    BY <1>2, <1>4, ExposureIs, AllowableIs
  <2>4. PICK s \in x.items : TRUE
    BY <1>2, <1>4, <2>2, <2>3, ExposureIs
  <2>5. Graph.nodes = Nodes(b, x, v)
    BY <1>1, <1>2, <1>3 DEF Graph, BuildLineage
  <2>6. Exposure(s) \in Graph.nodes
    BY <2>4, <2>5 DEF Nodes
  <2> QED
    BY <1>4, <1>5, <2>1, <2>4, <2>6
<1> QED
  BY <1>6, <1>7, <1>8, <1>9

LEMMA TracesHold == DashInv => BlockersAreTraced
<1> SUFFICES ASSUME DashInv, Idle PROVE BlockersAreTraced
  BY DEF BlockersAreTraced
<1>1. verdict = DecidePeriod(book) /\ Typed(book)
  BY BooksAre, VerdictInHand DEF Idle
<1>2. PICK graph : graph = Graph
  OBVIOUS
<1>3. PICK v : v = verdict
  OBVIOUS
<1>4. graph = BuildLineage(book, v) /\ v.carried \subseteq Scoped(book).exceptions
  <2>1. v.carried = IF v.decision = "READY_WITH_CARRY_FORWARD" THEN Scoped(book).exceptions ELSE {}
    BY <1>1, <1>3, VerdictIs
  <2> QED
    BY <1>2, <1>3, <2>1 DEF Graph
<1>5. Defects(graph) = {} /\ Orphans(book, graph) = {}
  BY <1>1, <1>4, NothingDangles
<1>6. PICK causes : causes = RootCauses(graph)
  OBVIOUS
<1>7. /\ causes.blockers = {BlockerNode(k) : k \in v.blockers}
      /\ causes.carried = {Carried(e) : e \in v.carried}
      /\ causes.settlements = {Settlement(s) : s \in book.period}
  BY <1>1, <1>4, <1>6, RootsAre
<1>8. ASSUME NEW o \in book.orders, NEW impact, impact = OrderImpact(graph, o),
             NEW citing, citing = CitedIn(Scoped(book), o)
      PROVE  /\ impact.settlements = {Settlement(f.sid) : f \in citing}
             /\ impact.reached <=> citing # {}
  BY <1>1, <1>4, <1>8, ImpactIs
<1>9. ASSUME NEW k \in v.blockers
      PROVE  /\ \A s \in Concerned(k) \cap book.period :
                   RecordsOf(book, s) \subseteq TraceBackward(graph, BlockerNode(k))
             /\ \/ k.kind = "DUPLICATE_LEDGER_IMPACT"
                \/ Concerned(k) \cap book.period # {}
  BY <1>1, <1>2, <1>3, <1>9, BlockerLeadsBack, BlockerConcerns
<1>10. ASSUME NEW o \in book.orders
       PROVE  LET impact == OrderImpact(graph, o)
                  citing == {f \in Scoped(book).findings : o \in UNION Assignments({f})}
              IN  /\ impact.settlements = {Settlement(f.sid) : f \in citing}
                  /\ impact.reached <=> citing # {}
  BY <1>8 DEF CitedIn
<1> QED
  BY <1>2, <1>3, <1>5, <1>6, <1>7, <1>9, <1>10 DEF BlockersAreTraced

\* The graph accounts for the verdict: each blocker but those about a shared
\* order is about some settlement and is traced to the records of the ones it is
\* about, and each order to what it has an impact on.  For a blocker about an
\* order build_lineage draws no edge to a cause, and nothing is said of it.
THEOREM LineageAccountsForTheVerdict == DashSpec => []BlockersAreTraced
BY DashboardInvariant, TracesHold, PTL

-----------------------------------------------------------------------------
(* The review queue in service, for any threads, items and reviewers.  A      *)
(* queue that follows its log is turned by record_action into one that does,  *)
(* and a handler only ever publishes the successor of a queue it read: hence  *)
(* the published queue follows its log under any interleaving.  When requests *)
(* do not overlap the queue a handler read is still the published one, and    *)
(* the desk is an audit trail.                                                *)

Labels == {"idle", "record", "reply"}

Records == [id : Items \X Nat, item : Items, action : Actions, reviewer : Reviewers,
            previous : Statuses, new : Statuses \ {"PENDING"}]
Queues == [status : [Items -> Statuses], assigned : [Items -> Reviewers \cup {Blank}],
           log : Seq(Records)]

TypeInv ==
  /\ overlap \in BOOLEAN /\ queue \in Queues
  /\ pc \in [Threads -> Labels] /\ request \in [Threads -> Requests]
  /\ copy \in [Threads -> Queues] /\ reply \in [Threads -> Seq(Records)]

\* The inductive invariant of any interleaving: the published queue and those
\* the handlers hold agree with their logs.
IInv == TypeInv /\ Follows(queue) /\ \A t \in Threads : Follows(copy[t])

\* Requests that do not overlap: what a handler read is what is published, and
\* what it is about to show, or has shown, is on record.
AloneInv ==
  /\ \A t, u \in Threads : pc[t] # "idle" /\ pc[u] # "idle" => t = u
  /\ \A t \in Threads : pc[t] = "record" => copy[t] = queue
  /\ \A t \in Threads : ToSet(reply[t]) \subseteq ToSet(queue.log)
  /\ AcknowledgedIsKept
SInv == ~overlap => AloneInv

-----------------------------------------------------------------------------
(* Queues *)

LEMMA NewStatusTyped ==
  ASSUME NEW a \in Actions
  PROVE  NewStatus(a) \in Statuses \ {"PENDING"}
BY DEF Actions, NewStatus, Statuses

LEMMA NewQueueFollows == NewQueue \in Queues /\ Follows(NewQueue)
<1>1. <<>> \in Seq(Records) /\ Len(<<>>) = 0
  BY EmptySeq
<1>2. NewQueue \in Queues
  BY <1>1 DEF NewQueue, Queues, Statuses
<1>3. /\ NewQueue.log = <<>>
      /\ \A i \in Items : NewQueue.status[i] = "PENDING" /\ NewQueue.assigned[i] = Blank
  BY DEF NewQueue
<1>4. DOMAIN <<>> = {}
  OBVIOUS
<1>5. \A i \in Items : StatusAt(<<>>, i, 1) = "PENDING"
  BY DEF StatusAt
<1> QED
  BY <1>1, <1>2, <1>3, <1>4, <1>5 DEF Follows

\* The places of a log that qualify have a last one.
LEMMA MaxIsIn ==
  ASSUME NEW n \in Nat, NEW S, S \subseteq 1 .. n, S # {}
  PROVE  Max(S) \in S
<1>1. PICK D : D = {n - x : x \in S}
  OBVIOUS
<1>2. D \in SUBSET Nat /\ D # {}
  <2>1. \A x \in S : n - x \in Nat
    OBVIOUS
  <2>2. \A d \in D : d \in Nat
    BY <1>1, <2>1
  <2>3. PICK x \in S : TRUE
    OBVIOUS
  <2>4. n - x \in D
    BY <1>1, <2>3
  <2> QED
    BY <2>2, <2>4
<1>3. PICK d \in D : \A c \in D : d <= c
  BY <1>2, LeastNumber
<1>4. PICK m \in S : d = n - m
  BY <1>1
<1>5. ASSUME NEW x \in S PROVE m >= x
  <2>1. n - m <= n - x
    BY <1>1, <1>3, <1>4
  <2> QED
    BY <2>1
<1> QED
  BY <1>5 DEF Max

\* The last of a set of places that ends in n.
LEMMA MaxIsLast ==
  ASSUME NEW S, S \subseteq Int, NEW n \in S, \A k \in S : k <= n
  PROVE  Max(S) = n
<1>1. \A x \in S : (\A y \in S : x >= y) => x = n
  BY SMT
<1>2. \A y \in S : n >= y
  BY SMT
<1> QED
  BY <1>1, <1>2 DEF Max

\* record_action logs one record more, and touches its item alone.
LEMMA RecordActionAppends ==
  ASSUME NEW q \in Queues, NEW r \in Requests, Admissible(r)
  PROVE  /\ Record(q, r) \in Records
         /\ RecordAction(q, r) \in Queues
         /\ RecordAction(q, r).log = Append(q.log, Record(q, r))
         /\ Len(RecordAction(q, r).log) = Len(q.log) + 1 /\ Len(q.log) \in Nat
         /\ DOMAIN q.log = 1 .. Len(q.log)
         /\ DOMAIN RecordAction(q, r).log = 1 .. (Len(q.log) + 1)
         /\ RecordAction(q, r).log[Len(q.log) + 1] = Record(q, r)
         /\ \A k \in 1 .. Len(q.log) : RecordAction(q, r).log[k] = q.log[k]
<1> DEFINE e == Record(q, r)
           p == RecordAction(q, r)
<1>1. r.item \in Items /\ r.action \in Actions /\ r.reviewer \in Reviewers
  BY DEF Admissible, Requests
<1>2. /\ q.log \in Seq(Records) /\ q.status \in [Items -> Statuses]
      /\ q.assigned \in [Items -> Reviewers \cup {Blank}]
  BY DEF Queues
<1>3. Len(q.log) \in Nat /\ DOMAIN q.log = 1 .. Len(q.log)
  BY <1>2, LenProperties
<1>4. e \in Records
  BY <1>1, <1>2, <1>3, NewStatusTyped DEF Record, Records
<1>5. p.log = Append(q.log, e)
  BY DEF RecordAction
<1> HIDE DEF e
<1>6. /\ p.log \in Seq(Records) /\ Len(p.log) = Len(q.log) + 1
      /\ p.log[Len(q.log) + 1] = e /\ \A k \in 1 .. Len(q.log) : p.log[k] = q.log[k]
  BY <1>2, <1>4, <1>5, AppendProperties
<1>7. DOMAIN p.log = 1 .. (Len(q.log) + 1)
  BY <1>6, LenProperties
<1>8. p \in Queues
  BY <1>1, <1>2, <1>6, NewStatusTyped DEF RecordAction, Queues
<1> QED
  BY <1>3, <1>4, <1>5, <1>6, <1>7, <1>8 DEF e

\* A queue that follows its log is turned into one that does.
LEMMA RecordActionFollows ==
  ASSUME NEW q \in Queues, NEW r \in Requests, Admissible(r), Follows(q)
  PROVE  Follows(RecordAction(q, r))
<1> DEFINE p == RecordAction(q, r)
           e == Record(q, r)
           n == Len(q.log)
<1>1. /\ n \in Nat /\ Len(p.log) = n + 1 /\ DOMAIN q.log = 1 .. n
      /\ DOMAIN p.log = 1 .. (n + 1) /\ p.log[n + 1] = e
      /\ \A k \in 1 .. n : p.log[k] = q.log[k]
  BY RecordActionAppends
<1>2. /\ e.item = r.item /\ e.action = r.action /\ e.reviewer = r.reviewer
      /\ e.previous = q.status[r.item] /\ e.new = NewStatus(r.action)
  BY DEF Record
<1>3. \A i \in Items :
        /\ p.status[i] = IF i = r.item THEN e.new ELSE q.status[i]
        /\ p.assigned[i] = IF r.action = "ASSIGN_REVIEWER" /\ i = r.item
                           THEN r.reviewer ELSE q.assigned[i]
  BY <1>2 DEF RecordAction, Queues
<1> HIDE DEF p, e, n
<1> SUFFICES ASSUME NEW i \in Items
             PROVE  LET given == {k \in DOMAIN p.log : p.log[k].item = i
                                                  /\ p.log[k].action = "ASSIGN_REVIEWER"}
                    IN  /\ \A k \in DOMAIN p.log :
                             p.log[k].item = i => p.log[k].previous = StatusAt(p.log, i, k)
                        /\ p.status[i] = StatusAt(p.log, i, Len(p.log) + 1)
                        /\ p.assigned[i] = IF given = {} THEN Blank ELSE p.log[Max(given)].reviewer
  BY DEF Follows, p
<1>4. \A k \in 1 .. (n + 1) : StatusAt(p.log, i, k) = StatusAt(q.log, i, k)
  <2> SUFFICES ASSUME NEW k \in 1 .. (n + 1)
               PROVE  StatusAt(p.log, i, k) = StatusAt(q.log, i, k)
    OBVIOUS
  <2>0. \A j \in 1 .. (k - 1) : p.log[j] = q.log[j]
    BY <1>1
  <2> DEFINE before == {j \in 1 .. (k - 1) : q.log[j].item = i}
  <2>1. {j \in 1 .. (k - 1) : p.log[j].item = i} = before
    BY <2>0
  <2>2. \A j \in before : p.log[j] = q.log[j]
    BY <2>0
  <2>3. before # {} => Max(before) \in before
    <3>1. before \subseteq 1 .. (k - 1) /\ k - 1 \in Nat
      BY <1>1
    <3> HIDE DEF before
    <3> QED
      BY <3>1, MaxIsIn
  <2>4. StatusAt(p.log, i, k) = IF before = {} THEN "PENDING" ELSE p.log[Max(before)].new
    BY <2>1 DEF StatusAt
  <2>5. StatusAt(q.log, i, k) = IF before = {} THEN "PENDING" ELSE q.log[Max(before)].new
    BY DEF StatusAt
  <2> HIDE DEF before
  <2> QED
    BY <2>2, <2>3, <2>4, <2>5
<1>5. StatusAt(p.log, i, n + 2) = IF i = r.item THEN e.new ELSE StatusAt(q.log, i, n + 1)
  <2> DEFINE before == {k \in 1 .. n : q.log[k].item = i}
             after == {k \in 1 .. (n + 1) : p.log[k].item = i}
  <2>1. /\ StatusAt(p.log, i, n + 2) = IF after = {} THEN "PENDING" ELSE p.log[Max(after)].new
        /\ StatusAt(p.log, i, n + 1) = IF before = {} THEN "PENDING" ELSE p.log[Max(before)].new
    <3>1. (n + 2) - 1 = n + 1 /\ (n + 1) - 1 = n
      BY <1>1
    <3>2. before = {k \in 1 .. n : p.log[k].item = i}
      BY <1>1
    <3> QED
      BY <3>1, <3>2 DEF StatusAt
  <2>2. CASE i = r.item
    <3>1. n + 1 \in after /\ after \subseteq Int /\ \A k \in after : k <= n + 1
      BY <1>1, <1>2, <2>2
    <3> HIDE DEF after
    <3>2. Max(after) = n + 1 /\ after # {}
      BY <3>1, MaxIsLast
    <3> QED
      BY <1>1, <2>1, <2>2, <3>2
  <2>3. CASE i # r.item
    <3>1. after = before
      BY <1>1, <1>2, <2>3
    <3>2. StatusAt(p.log, i, n + 1) = StatusAt(q.log, i, n + 1)
      BY <1>1, <1>4
    <3> HIDE DEF after, before
    <3> QED
      BY <2>1, <2>3, <3>1, <3>2
  <2> QED
    BY <2>2, <2>3
<1>6. /\ \A k \in 1 .. n : q.log[k].item = i => q.log[k].previous = StatusAt(q.log, i, k)
      /\ q.status[i] = StatusAt(q.log, i, n + 1)
  BY <1>1 DEF Follows, n
<1>7. ASSUME NEW k \in DOMAIN p.log, p.log[k].item = i
      PROVE  p.log[k].previous = StatusAt(p.log, i, k)
  <2>1. k \in 1 .. n \/ k = n + 1
    BY <1>1
  <2>2. CASE k \in 1 .. n
    BY <1>1, <1>4, <1>6, <1>7, <2>2
  <2>3. CASE k = n + 1
    <3>1. i = r.item /\ e.previous = StatusAt(q.log, i, n + 1)
      BY <1>1, <1>2, <1>6, <1>7, <2>3
    <3>2. StatusAt(p.log, i, n + 1) = StatusAt(q.log, i, n + 1)
      BY <1>1, <1>4
    <3> QED
      BY <1>1, <2>3, <3>1, <3>2
  <2> QED
    BY <2>1, <2>2, <2>3
<1>8. p.status[i] = StatusAt(p.log, i, Len(p.log) + 1)
  <2>1. Len(p.log) + 1 = n + 2
    BY <1>1
  <2> QED
    BY <1>3, <1>5, <1>6, <2>1
<1> DEFINE Given(log, m) == {k \in 1 .. m : log[k].item = i /\ log[k].action = "ASSIGN_REVIEWER"}
           was == Given(q.log, n)
           is == Given(p.log, n + 1)
<1>9. q.assigned[i] = IF was = {} THEN Blank ELSE q.log[Max(was)].reviewer
  BY <1>1 DEF Follows, n
<1>10. p.assigned[i] = IF is = {} THEN Blank ELSE p.log[Max(is)].reviewer
  <2>1. CASE r.action = "ASSIGN_REVIEWER" /\ i = r.item
    <3>1. n + 1 \in is /\ is \subseteq Int /\ \A k \in is : k <= n + 1
      BY <1>1, <1>2, <2>1
    <3> HIDE DEF is
    <3>2. Max(is) = n + 1 /\ is # {}
      BY <3>1, MaxIsLast
    <3> QED
      BY <1>1, <1>2, <1>3, <2>1, <3>2
  <2>2. CASE ~(r.action = "ASSIGN_REVIEWER" /\ i = r.item)
    <3>1. is = was /\ was \subseteq 1 .. n
      BY <1>1, <1>2, <2>2
    <3>2. was # {} => Max(was) \in was
      <4> HIDE DEF was
      <4> QED
        BY <1>1, <3>1, MaxIsIn
    <3> HIDE DEF is, was
    <3> QED
      BY <1>1, <1>3, <1>9, <2>2, <3>1, <3>2
  <2> QED
    BY <2>1, <2>2
<1> HIDE DEF was, is
<1>11. is = {k \in DOMAIN p.log : p.log[k].item = i /\ p.log[k].action = "ASSIGN_REVIEWER"}
  BY <1>1 DEF is
<1> QED
  BY <1>7, <1>8, <1>10, <1>11

-----------------------------------------------------------------------------
(* Any interleaving *)

LEMMA InitIInv == Init => IInv
<1> SUFFICES ASSUME Init PROVE IInv
  OBVIOUS
<1>1. NoRequest \in Requests
  BY DeskAssumption DEF NoRequest, Requests
<1>2. NoReply \in Seq(Records)
  BY EmptySeq DEF NoReply
<1>3. TypeInv
  BY <1>1, <1>2, NewQueueFollows, DeskAssumption DEF Init, TypeInv, Labels
<1>4. Follows(queue) /\ \A t \in Threads : Follows(copy[t])
  BY NewQueueFollows DEF Init
<1> QED
  BY <1>3, <1>4 DEF IInv

LEMMA ForgetKeeps ==
  ASSUME IInv, NEW t \in Threads, Forget(t)
  PROVE  /\ request' \in [Threads -> Requests] /\ copy' \in [Threads -> Queues]
         /\ \A u \in Threads : Follows(copy'[u])
<1>1. NoRequest \in Requests
  BY DeskAssumption DEF NoRequest, Requests
<1> QED
  BY <1>1, NewQueueFollows DEF Forget, IInv, TypeInv

\* What a handler publishes is the successor of a queue it read.
LEMMA PublishIInv ==
  ASSUME IInv, NEW t \in Threads, Publish(t)
  PROVE  IInv'
<1> DEFINE q == copy[t]
           r == request[t]
           p == RecordAction(q, r)
<1>1. q \in Queues /\ r \in Requests /\ Follows(q) /\ Admissible(r)
  BY DEF IInv, TypeInv, Publish
<1>2. p \in Queues /\ Follows(p) /\ p.log \in Seq(Records) /\ p.log # <<>>
  <2>1. Len(p.log) = Len(q.log) + 1 /\ Len(q.log) \in Nat
    BY <1>1, RecordActionAppends
  <2>2. p.log # <<>>
    BY <2>1, EmptySeq
  <2> QED
    BY <1>1, <2>2, RecordActionAppends, RecordActionFollows DEF Queues
<1>3. queue' = p /\ reply' = [reply EXCEPT ![t] = <<p.log[Len(p.log)]>>]
  BY DEF Publish
<1> HIDE DEF p
<1>4. p.log[Len(p.log)] \in Records
  <2>1. Len(p.log) \in 1 .. Len(p.log)
    BY <1>2, LenProperties, EmptySeq
  <2> QED
    BY <1>2, <2>1, ElementOfSeq
<1>5. reply' \in [Threads -> Seq(Records)]
  BY <1>3, <1>4 DEF IInv, TypeInv
<1>6. pc' \in [Threads -> Labels] /\ overlap' = overlap
  BY DEF Publish, Goto, IInv, TypeInv, Labels
<1>7. Forget(t)
  BY DEF Publish
<1> QED
  BY <1>2, <1>3, <1>5, <1>6, <1>7, ForgetKeeps DEF IInv, TypeInv

LEMMA NextIInv == IInv /\ [Next]_vars => IInv'
<1> SUFFICES ASSUME IInv, [Next]_vars PROVE IInv'
  OBVIOUS
<1>0. TypeInv /\ Follows(queue) /\ \A t \in Threads : Follows(copy[t])
  BY DEF IInv
<1>1. ASSUME NEW t \in Threads, Receive(t) PROVE IInv'
  <2>1. PICK r \in Requests : request' = [request EXCEPT ![t] = r]
    BY <1>1 DEF Receive
  <2>2. /\ UNCHANGED <<overlap, queue, reply>> /\ copy' = [copy EXCEPT ![t] = queue]
        /\ pc' = [pc EXCEPT ![t] = "record"]
    BY <1>1 DEF Receive, Goto
  <2>3. TypeInv'
    BY <1>0, <2>1, <2>2 DEF TypeInv, Labels
  <2>4. \A u \in Threads : Follows(copy'[u])
    BY <1>0, <2>2 DEF TypeInv
  <2> QED
    BY <1>0, <2>2, <2>3, <2>4 DEF IInv
<1>2. ASSUME NEW t \in Threads, Refuse(t) PROVE IInv'
  <2>1. Forget(t) /\ UNCHANGED <<overlap, queue, reply>> /\ pc' = [pc EXCEPT ![t] = "reply"]
    BY <1>2 DEF Refuse, Goto
  <2> QED
    BY <1>0, <2>1, ForgetKeeps DEF IInv, TypeInv, Labels
<1>3. ASSUME NEW t \in Threads, Publish(t) PROVE IInv'
  BY <1>3, PublishIInv
<1>4. ASSUME NEW t \in Threads, Reply(t) PROVE IInv'
  <2>1. /\ UNCHANGED <<overlap, queue, request, copy>> /\ pc' = [pc EXCEPT ![t] = "idle"]
        /\ reply' = [reply EXCEPT ![t] = NoReply]
    BY <1>4 DEF Reply, Goto
  <2>2. NoReply \in Seq(Records)
    BY EmptySeq DEF NoReply
  <2>3. TypeInv'
    BY <1>0, <2>1, <2>2 DEF TypeInv, Labels
  <2> QED
    BY <1>0, <2>1, <2>3 DEF IInv
<1>5. CASE UNCHANGED vars
  BY <1>5 DEF vars, IInv, TypeInv
<1> QED
  BY <1>1, <1>2, <1>3, <1>4, <1>5 DEF Next

\* Whoever reads and publishes when, every queue in play follows its log.
THEOREM DeskInvariant == Spec => []IInv
<1>1. Init => IInv
  BY InitIInv
<1>2. IInv /\ [Next]_vars => IInv'
  BY NextIInv
<1> QED
  BY <1>1, <1>2, PTL DEF Spec

\* Under any interleaving no item of the published queue moves unrecorded, and
\* each has the status and the reviewer its log gives it: an update that is
\* lost is lost from the queue and from the log alike.
THEOREM PublishedQueueFollowsLog == Spec => []QueueFollowsLog
<1>1. IInv => QueueFollowsLog
  BY DEF IInv, QueueFollowsLog
<1> QED
  BY <1>1, DeskInvariant, PTL

-----------------------------------------------------------------------------
(* Requests that do not overlap *)

LEMMA InitSInv == Init => SInv
<1> SUFFICES ASSUME Init PROVE AloneInv
  BY DEF SInv
<1>1. ToSet(NoReply) = {}
  BY DEF NoReply, ToSet
<1> QED
  BY <1>1 DEF Init, AloneInv, AcknowledgedIsKept

LEMMA NextSInv == IInv /\ SInv /\ [Next]_vars => SInv'
<1> SUFFICES ASSUME IInv, SInv, [Next]_vars, ~overlap' PROVE AloneInv'
  BY DEF SInv
<1>0. overlap' = overlap
  BY DEF Next, Receive, Refuse, Publish, Reply, vars
<1>1. AloneInv /\ TypeInv /\ ~overlap
  BY <1>0 DEF SInv, IInv
<1>2. ToSet(NoReply) = {}
  BY DEF NoReply, ToSet
<1>3. ASSUME NEW t \in Threads, Receive(t) PROVE AloneInv'
  <2>1. /\ \A u \in Threads : pc[u] = "idle"
        /\ UNCHANGED <<queue, reply, acknowledged>>
        /\ pc' = [pc EXCEPT ![t] = "record"] /\ copy' = [copy EXCEPT ![t] = queue]
    BY <1>1, <1>3 DEF Receive, Goto
  <2> QED
    BY <1>1, <2>1 DEF AloneInv, AcknowledgedIsKept, TypeInv
<1>4. ASSUME NEW t \in Threads, Refuse(t) PROVE AloneInv'
  <2>1. /\ pc[t] = "record" /\ UNCHANGED <<queue, reply, acknowledged>>
        /\ pc' = [pc EXCEPT ![t] = "reply"] /\ copy' = [copy EXCEPT ![t] = NewQueue]
    BY <1>4 DEF Refuse, Goto, Forget
  <2> QED
    BY <1>1, <2>1 DEF AloneInv, AcknowledgedIsKept, TypeInv
<1>5. ASSUME NEW t \in Threads, Publish(t) PROVE AloneInv'
  <2> DEFINE p == RecordAction(queue, request[t])
  <2>1. /\ pc[t] = "record" /\ copy[t] = queue /\ Admissible(request[t])
        /\ queue \in Queues /\ request[t] \in Requests
    BY <1>1, <1>5 DEF Publish, AloneInv, TypeInv
  <2>2. /\ queue' = p /\ reply' = [reply EXCEPT ![t] = <<p.log[Len(p.log)]>>]
        /\ acknowledged' = acknowledged /\ pc' = [pc EXCEPT ![t] = "reply"]
    BY <1>5, <2>1 DEF Publish, Goto
  <2>3. /\ Len(p.log) = Len(queue.log) + 1 /\ Len(queue.log) \in Nat
        /\ DOMAIN queue.log = 1 .. Len(queue.log) /\ DOMAIN p.log = 1 .. (Len(queue.log) + 1)
        /\ \A k \in 1 .. Len(queue.log) : p.log[k] = queue.log[k]
    BY <2>1, RecordActionAppends
  <2> HIDE DEF p
  <2>4. ToSet(queue.log) \subseteq ToSet(p.log)
    BY <2>3 DEF ToSet
  <2>5. ToSet(<<p.log[Len(p.log)]>>) \subseteq ToSet(p.log)
    <3>1. ToSet(<<p.log[Len(p.log)]>>) = {p.log[Len(p.log)]}
      BY DEF ToSet
    <3>2. Len(p.log) \in DOMAIN p.log
      BY <2>3
    <3> QED
      BY <3>1, <3>2 DEF ToSet
  <2>6. \A u \in Threads \ {t} : pc'[u] = "idle" /\ reply'[u] = reply[u]
    BY <1>1, <2>1, <2>2 DEF AloneInv, TypeInv
  <2>7. pc'[t] = "reply" /\ reply'[t] = <<p.log[Len(p.log)]>>
    BY <1>1, <2>2 DEF TypeInv
  <2> QED
    BY <1>1, <2>2, <2>4, <2>5, <2>6, <2>7 DEF AloneInv, AcknowledgedIsKept
<1>6. ASSUME NEW t \in Threads, Reply(t) PROVE AloneInv'
  <2>1. /\ pc[t] = "reply" /\ UNCHANGED <<queue, copy>>
        /\ acknowledged' = acknowledged \cup ToSet(reply[t])
        /\ reply' = [reply EXCEPT ![t] = NoReply] /\ pc' = [pc EXCEPT ![t] = "idle"]
    BY <1>6 DEF Reply, Goto
  <2> QED
    BY <1>1, <1>2, <2>1 DEF AloneInv, AcknowledgedIsKept, TypeInv
<1>7. CASE UNCHANGED vars
  BY <1>1, <1>7 DEF vars, AloneInv, AcknowledgedIsKept
<1> QED
  BY <1>3, <1>4, <1>5, <1>6, <1>7 DEF Next

\* As long as requests do not overlap, a handler publishes the successor of the
\* queue that is there.
THEOREM AloneInvariant == Spec => []SInv
<1>1. Init => SInv
  BY InitSInv
<1>2. IInv /\ SInv /\ [Next]_vars => SInv'
  BY NextSInv
<1> QED
  BY <1>1, <1>2, DeskInvariant, PTL DEF Spec

\* As long as requests do not overlap, what a controller was shown as recorded
\* stays in the audit trail.
THEOREM AcknowledgedIsKeptAlone == Spec => [](~overlap => AcknowledgedIsKept)
<1>1. SInv => (~overlap => AcknowledgedIsKept)
  BY DEF SInv, AloneInv
<1> QED
  BY <1>1, AloneInvariant, PTL

\* The audit trail's view of a state.
Entered == [k \in DOMAIN queue.log |->
              [item |-> queue.log[k].item, from |-> queue.log[k].previous,
               to |-> queue.log[k].new]]
TrailOf == IF overlap THEN <<>> ELSE Entered
StatusOf == IF overlap THEN NewQueue.status ELSE queue.status

LEMMA FunctionIsSeq ==
  ASSUME NEW S, NEW n \in Nat, NEW f \in [1 .. n -> S]
  PROVE  f \in Seq(S) /\ Len(f) = n
<1>1. f \in Seq(S)
  BY SeqDef
<1>2. Len(f) \in Nat /\ 1 .. Len(f) = 1 .. n
  BY <1>1, LenProperties
<1>3. ~(n < Len(f))
  <2> SUFFICES ASSUME n < Len(f) PROVE FALSE
    OBVIOUS
  <2>1. n + 1 \in 1 .. Len(f)
    BY <1>2
  <2> QED
    BY <1>2, <2>1
<1>4. ~(Len(f) < n)
  BY <1>2
<1> QED
  BY <1>1, <1>2, <1>3, <1>4

\* Publishing moves one item and records the move.
LEMMA PublishActs ==
  ASSUME IInv, AloneInv, ~overlap, ~overlap', NEW t \in Threads, Publish(t)
  PROVE  Trail!Next
<1>0. PICK q, r, n : q = queue /\ r = request[t] /\ n = Len(queue.log)
  OBVIOUS
<1> DEFINE e == Record(q, r)
           x == [item |-> e.item, from |-> e.previous, to |-> e.new]
           p == RecordAction(q, r)
<1>1. q \in Queues /\ r \in Requests /\ Admissible(r) /\ queue' = p
  BY <1>0 DEF IInv, TypeInv, AloneInv, Publish
<1>2. /\ n \in Nat /\ e \in Records /\ DOMAIN q.log = 1 .. n
      /\ DOMAIN p.log = 1 .. (n + 1) /\ p.log[n + 1] = e
      /\ \A k \in 1 .. n : p.log[k] = q.log[k]
  BY <1>0, <1>1, RecordActionAppends
<1>3. /\ e.item = r.item /\ e.previous = q.status[r.item] /\ e.new = NewStatus(r.action)
      /\ r.item \in Items /\ NewStatus(r.action) \in Statuses \ {"PENDING"}
  BY <1>1, NewStatusTyped DEF Record, Admissible
<1>4. queue'.status = [queue.status EXCEPT ![r.item] = NewStatus(r.action)]
  BY <1>0, <1>1 DEF RecordAction
<1> HIDE DEF e, p
<1>5. Entered' = Append(Entered, x)
  <2> DEFINE S == {Entered[k] : k \in 1 .. n} \cup {x}
  <2>1. DOMAIN Entered = 1 .. n /\ Entered \in [1 .. n -> S]
    BY <1>0, <1>2 DEF Entered
  <2>2. Entered \in Seq(S) /\ Len(Entered) = n
    BY <1>2, <2>1, FunctionIsSeq
  <2>3. /\ DOMAIN Entered' = 1 .. (n + 1) /\ Entered'[n + 1] = x
        /\ \A k \in 1 .. n : Entered'[k] = Entered[k]
    BY <1>0, <1>1, <1>2 DEF Entered
  <2>4. x \in S
    OBVIOUS
  <2>5. Entered' \in [1 .. (n + 1) -> S]
    <3>1. \A k \in 1 .. (n + 1) : k \in 1 .. n \/ k = n + 1
      BY <1>2
    <3>2. \A k \in 1 .. n : Entered[k] \in S
      OBVIOUS
    <3> HIDE DEF S, x
    <3>3. \A k \in 1 .. (n + 1) : Entered'[k] \in S
      BY <2>3, <2>4, <3>1, <3>2
    <3> QED
      BY <2>3, <3>3 DEF Entered
  <2> HIDE DEF S, x
  <2>6. Entered' \in Seq(S) /\ Len(Entered') = n + 1
    BY <1>2, <2>5, FunctionIsSeq
  <2>7. /\ Append(Entered, x) \in Seq(S) /\ Len(Append(Entered, x)) = n + 1
        /\ Append(Entered, x)[n + 1] = x
        /\ \A k \in 1 .. n : Append(Entered, x)[k] = Entered[k]
    BY <2>2, <2>4, AppendProperties
  <2>8. \A k \in 1 .. (n + 1) : k \in 1 .. n \/ k = n + 1
    BY <1>2
  <2> QED
    BY <2>3, <2>6, <2>7, <2>8, SeqEqual
<1>6. Trail!Act(r.item, NewStatus(r.action))
  BY <1>0, <1>3, <1>4, <1>5 DEF Trail!Act, Entered
<1> QED
  BY <1>3, <1>6 DEF Trail!Next

\* As long as requests do not overlap, the desk implements the audit trail: a
\* record once published stays, and every move of an item is on record.
THEOREM DeskIsAnAuditTrail == Spec => ImplementsAuditTrail
<1>1. Init => Trail!Init
  <2> SUFFICES ASSUME Init PROVE Trail!Init
    OBVIOUS
  <2>1. queue.log = <<>> /\ queue.status = [i \in Items |-> "PENDING"]
        /\ NewQueue.status = [i \in Items |-> "PENDING"]
    BY DEF Init, NewQueue
  <2> QED
    BY <2>1 DEF Trail!Init
<1>2. IInv /\ SInv /\ [Next]_vars => [Trail!Next]_<<TrailOf, StatusOf>>
  <2> SUFFICES ASSUME IInv, SInv, [Next]_vars PROVE [Trail!Next]_<<TrailOf, StatusOf>>
    OBVIOUS
  <2>0. overlap' = overlap
    BY DEF Next, Receive, Refuse, Publish, Reply, vars
  <2>1. CASE queue' = queue
    BY <2>0, <2>1 DEF TrailOf, StatusOf, Entered
  <2>2. CASE queue' # queue
    <3>1. PICK t \in Threads : Publish(t)
      BY <2>2 DEF Next, Receive, Refuse, Reply, vars
    <3>2. CASE ~overlap
      BY <2>0, <3>1, <3>2, PublishActs DEF SInv
    <3>3. CASE overlap
      BY <2>0, <3>3 DEF TrailOf, StatusOf
    <3> QED
      BY <3>2, <3>3
  <2> QED
    BY <2>1, <2>2
<1> QED
  BY <1>1, <1>2, DeskInvariant, AloneInvariant, PTL
     DEF Spec, ImplementsAuditTrail, Trail!Spec, Trail!vars, TrailOf, StatusOf, Entered

\* Of the requests the dashboard serves only the reviews write the queue, and
\* they write it as the desk does.
THEOREM DashboardRunsTheDesk == DashSpec => Spec
<1>1. DashInit => Init
  BY DEF DashInit
<1>2. [DashNext]_dashVars => [Next]_vars
  BY DEF DashNext, dashVars, CreateState, Simulate, CompareScenarios, HandleInvestigate,
     HandleEvidence, HandleReadiness, HandleWhyBlocked, HandleMateriality, Respond, Answered, Review
<1> QED
  BY <1>1, <1>2, PTL DEF DashSpec, Spec

\* So in the dashboard, too, the published queue follows its log, and the desk
\* is an audit trail as long as requests do not overlap.
THEOREM ServedQueueFollowsLog == DashSpec => []QueueFollowsLog
BY DashboardRunsTheDesk, PublishedQueueFollowsLog, PTL

THEOREM ServedDeskIsAnAuditTrail == DashSpec => ImplementsAuditTrail
BY DashboardRunsTheDesk, DeskIsAnAuditTrail, PTL
=============================================================================
