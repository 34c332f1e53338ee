---------------------------- MODULE RevenueProofs ----------------------------
(***************************************************************************)
(* What the metrics compute, for every table, allow-list and range.        *)
(*                                                                         *)
(* A sum over a finite set takes its members in an order that CHOOSE       *)
(* settles.  The first lemmas show that the order does not matter: each    *)
(* looks at a smallest set for which it would.                             *)
(***************************************************************************)
EXTENDS Revenue, RunnerPassProofs

----------------------------------------------------------------------------
\* Sums over finite sets

\* A collection of subsets of a finite set has a smallest one.
LEMMA SmallestSubset ==
  ASSUME NEW U, IsFiniteSet(U), NEW T \in SUBSET SUBSET U, T # {}
  PROVE  \E L \in T : \A M \in T : M \subseteq L => M = L
<1>1. IsWellFoundedOn(StrictSubsetOrdering(U), SUBSET U)
    BY FS_StrictSubsetOrderingWellFounded, FS_FiniteSubsetsOfFinite
<1>2. PICK L \in T : \A M \in T : <<M, L>> \notin StrictSubsetOrdering(U)
    BY <1>1, WFMin
<1>3. ASSUME NEW M \in T, M \subseteq L, M # L PROVE FALSE
  <2>1. <<M, L>> \in StrictSubsetOrdering(U)
      BY <1>3 DEF StrictSubsetOrdering
  <2> QED
      BY <1>2, <2>1
<1> QED
    BY <1>3

SomeOf(S) == CHOOSE x \in S : TRUE

\* The member a fold takes out.
LEMMA SomeMember ==
  ASSUME NEW U, NEW S \in SUBSET U, S # {}
  PROVE  SomeOf(S) \in S /\ S \ {SomeOf(S)} \in SUBSET U /\ S \ {SomeOf(S)} # S
BY DEF SomeOf

\* f sums the weights w over each subset of U, the way MapThenSumSet does.
IsSums(f, w, U) ==
    f = [S \in SUBSET U |-> IF S = {} THEN 0 ELSE w[SomeOf(S)] + f[S \ {SomeOf(S)}]]

\* One step of a sum.
LEMMA SumsUnfold ==
  ASSUME NEW U, NEW w, NEW f, IsSums(f, w, U), NEW S \in SUBSET U
  PROVE  /\ S = {} => f[S] = 0
         /\ S # {} => f[S] = w[SomeOf(S)] + f[S \ {SomeOf(S)}]
BY DEF IsSums

\* Two such functions agree on what both sum over.
LEMMA SumsAgree ==
  ASSUME NEW U, IsFiniteSet(U), NEW V, NEW w,
         NEW f, IsSums(f, w, U), NEW g, IsSums(g, w, V)
  PROVE  \A S : S \subseteq U /\ S \subseteq V => f[S] = g[S]
<1> DEFINE T == {S \in SUBSET U : S \subseteq V /\ f[S] # g[S]}
<1>1. T \in SUBSET SUBSET U
    OBVIOUS
<1>2. SUFFICES ASSUME T # {} PROVE FALSE
    OBVIOUS
<1> HIDE DEF T
<1>3. PICK L \in T : \A M \in T : M \subseteq L => M = L
    BY <1>1, <1>2, SmallestSubset
<1>4. L \in SUBSET U /\ L \in SUBSET V /\ f[L] # g[L]
    BY <1>3 DEF T
<1>5. L # {}
    BY <1>4, SumsUnfold
<1> DEFINE rest == L \ {SomeOf(L)}
<1>6. rest \in SUBSET U /\ rest \in SUBSET V /\ rest # L /\ rest \subseteq L
    BY <1>4, <1>5, SomeMember
<1>7. f[rest] = g[rest]
    BY <1>3, <1>6 DEF T
<1>8. f[L] = w[SomeOf(L)] + f[rest] /\ g[L] = w[SomeOf(L)] + g[rest]
    BY <1>4, <1>5, SumsUnfold
<1> QED
    BY <1>4, <1>7, <1>8

\* The sum of the whole set.
SumOver(w, U) == (CHOOSE f : IsSums(f, w, U))[U]

\* The recursion has a solution.
LEMMA SumsExist ==
  ASSUME NEW U, IsFiniteSet(U), NEW w
  PROVE  \E f : IsSums(f, w, U)
<1> DEFINE T == {D \in SUBSET U : ~ \E f : IsSums(f, w, D)}
<1>1. T \in SUBSET SUBSET U
    OBVIOUS
<1>2. SUFFICES ASSUME T # {} PROVE FALSE
    OBVIOUS
<1> HIDE DEF T
<1>3. PICK D \in T : \A M \in T : M \subseteq D => M = D
    BY <1>1, <1>2, SmallestSubset
<1>4. D \in SUBSET U /\ ~ \E f : IsSums(f, w, D)
    BY <1>3 DEF T
<1>5. ASSUME NEW R \in SUBSET D, R # D
      PROVE  /\ IsFiniteSet(R)
             /\ IsSums(CHOOSE f : IsSums(f, w, R), w, R)
  <2>1. R \notin T /\ R \in SUBSET U
      BY <1>3, <1>4, <1>5
  <2>2. \E f : IsSums(f, w, R)
      BY <2>1 DEF T
  <2>3. IsFiniteSet(R)
      BY <2>1, FS_Subset
  <2> QED
      BY <2>2, <2>3
<1> DEFINE h == [S \in SUBSET D |->
                   IF S = {} THEN 0 ELSE w[SomeOf(S)] + SumOver(w, S \ {SomeOf(S)})]
<1>6. ASSUME NEW R \in SUBSET D, R # D PROVE h[R] = SumOver(w, R)
  <2> DEFINE g == CHOOSE f : IsSums(f, w, R)
  <2>1. IsFiniteSet(R) /\ IsSums(g, w, R) /\ SumOver(w, R) = g[R]
      BY <1>5, <1>6 DEF SumOver
  <2>2. CASE R = {}
    <3>1. h[R] = 0
        BY <2>2
    <3> HIDE DEF h, g
    <3>2. g[R] = 0
        BY <2>1, <2>2, SumsUnfold
    <3> QED
        BY <2>1, <3>1, <3>2
  <2>3. CASE R # {}
    <3> DEFINE Q == R \ {SomeOf(R)}
               k == CHOOSE f : IsSums(f, w, Q)
    <3>1. Q \in SUBSET D /\ Q \in SUBSET R /\ Q # D
        BY <1>6, <2>3, SomeMember
    <3>2. IsFiniteSet(Q) /\ IsSums(k, w, Q) /\ SumOver(w, Q) = k[Q]
        BY <1>5, <3>1 DEF SumOver
    <3>3. h[R] = w[SomeOf(R)] + SumOver(w, Q)
        BY <2>3
    <3> HIDE DEF h, g, k
    <3>4. g[R] = w[SomeOf(R)] + g[Q]
        BY <2>1, <2>3, SumsUnfold
    <3> HIDE DEF Q
    <3>5. g[Q] = k[Q]
        BY <2>1, <3>1, <3>2, SumsAgree
    <3> QED
        BY <2>1, <3>2, <3>3, <3>4, <3>5
  <2> QED
      BY <2>2, <2>3
<1>7. ASSUME NEW S \in SUBSET D, S # {}
      PROVE  h[S] = w[SomeOf(S)] + h[S \ {SomeOf(S)}]
  <2> DEFINE Q == S \ {SomeOf(S)}
  <2>1. Q \in SUBSET D /\ Q # D
      BY <1>7, SomeMember
  <2>2. h[S] = w[SomeOf(S)] + SumOver(w, Q)
      BY <1>7
  <2> HIDE DEF h, Q
  <2>3. h[Q] = SumOver(w, Q)
      BY <1>6, <2>1
  <2> QED
      BY <2>2, <2>3 DEF Q
<1>8. h[{}] = 0
    OBVIOUS
<1>9. h = [S \in SUBSET D |-> h[S]]
    OBVIOUS
<1> HIDE DEF h
<1>10. IsSums(h, w, D)
  <2>1. \A S \in SUBSET D : h[S] = IF S = {} THEN 0 ELSE w[SomeOf(S)] + h[S \ {SomeOf(S)}]
      BY <1>7, <1>8
  <2> QED
      BY <1>9, <2>1 DEF IsSums
<1> QED
    BY <1>4, <1>10

\* Sums are numbers, and any member may be taken out first.
LEMMA SumsRemove ==
  ASSUME NEW U, IsFiniteSet(U), NEW w, \A x \in U : w[x] \in Nat,
         NEW f, IsSums(f, w, U)
  PROVE  /\ \A S \in SUBSET U : f[S] \in Nat
         /\ \A S \in SUBSET U, x \in U : x \in S => f[S] = w[x] + f[S \ {x}]
<1>1. \A S \in SUBSET U : f[S] \in Nat
  <2> DEFINE T == {S \in SUBSET U : f[S] \notin Nat}
  <2>1. T \in SUBSET SUBSET U
      OBVIOUS
  <2>2. SUFFICES ASSUME T # {} PROVE FALSE
      OBVIOUS
  <2> HIDE DEF T
  <2>3. PICK L \in T : \A M \in T : M \subseteq L => M = L
      BY <2>1, <2>2, SmallestSubset
  <2>4. L \in SUBSET U /\ f[L] \notin Nat
      BY <2>3 DEF T
  <2>5. L # {}
    <3>1. L = {} => f[L] = 0
        BY <2>4, SumsUnfold
    <3> QED
        BY <2>4, <3>1
  <2>6. SomeOf(L) \in L /\ L \ {SomeOf(L)} \in SUBSET U /\ L \ {SomeOf(L)} # L
      BY <2>4, <2>5, SomeMember
  <2>7. f[L \ {SomeOf(L)}] \in Nat
      BY <2>3, <2>6 DEF T
  <2>8. f[L] = w[SomeOf(L)] + f[L \ {SomeOf(L)}]
      BY <2>4, <2>5, SumsUnfold
  <2> QED
      BY <2>4, <2>6, <2>7, <2>8
<1>2. \A S \in SUBSET U, x \in U : x \in S => f[S] = w[x] + f[S \ {x}]
  <2> DEFINE T == {S \in SUBSET U : \E x \in S : f[S] # w[x] + f[S \ {x}]}
  <2>1. T \in SUBSET SUBSET U
      OBVIOUS
  <2>2. SUFFICES ASSUME T # {} PROVE FALSE
      OBVIOUS
  <2> HIDE DEF T
  <2>3. PICK L \in T : \A M \in T : M \subseteq L => M = L
      BY <2>1, <2>2, SmallestSubset
  <2>4. PICK x \in L : f[L] # w[x] + f[L \ {x}]
      BY <2>3 DEF T
  <2>5. L \in SUBSET U /\ L # {}
      BY <2>3 DEF T
  <2> DEFINE y == SomeOf(L)
  <2>6. y \in L /\ L \ {y} \in SUBSET U /\ L \ {y} # L
      BY <2>5, SomeMember
  <2>7. f[L] = w[y] + f[L \ {y}]
      BY <2>5, SumsUnfold
  <2> HIDE DEF y
  <2>8. x # y
      BY <2>4, <2>7
  <2>9. \A M \in SUBSET L : M # L => \A z \in M : f[M] = w[z] + f[M \ {z}]
      BY <2>3, <2>5 DEF T
  <2>10. f[L \ {y}] = w[x] + f[(L \ {y}) \ {x}]
      BY <2>6, <2>8, <2>9
  <2>11. f[L \ {x}] = w[y] + f[(L \ {x}) \ {y}]
      BY <2>4, <2>6, <2>8, <2>9
  <2>12. (L \ {x}) \ {y} = (L \ {y}) \ {x}
      OBVIOUS
  <2> DEFINE n == f[(L \ {y}) \ {x}]
  <2>13. w[x] \in Nat /\ w[y] \in Nat /\ n \in Nat
      BY <1>1, <2>5, <2>6
  <2>14. f[L] = w[y] + (w[x] + n) /\ f[L \ {x}] = w[y] + n
      BY <2>7, <2>10, <2>11, <2>12
  <2> HIDE DEF n
  <2> QED
      BY <2>4, <2>13, <2>14
<1> QED
    BY <1>1, <1>2

\* The sum over two sets that share nothing.
LEMMA SumsAdd ==
  ASSUME NEW U, IsFiniteSet(U), NEW w, \A x \in U : w[x] \in Nat,
         NEW f, IsSums(f, w, U), NEW B \in SUBSET U
  PROVE  \A A \in SUBSET U : A \cap B = {} => f[A \cup B] = f[A] + f[B]
<1> DEFINE T == {A \in SUBSET U : A \cap B = {} /\ f[A \cup B] # f[A] + f[B]}
<1>1. T \in SUBSET SUBSET U
    OBVIOUS
<1>2. SUFFICES ASSUME T # {} PROVE FALSE
    OBVIOUS
<1> HIDE DEF T
<1>3. PICK L \in T : \A M \in T : M \subseteq L => M = L
    BY <1>1, <1>2, SmallestSubset
<1>4. L \in SUBSET U /\ L \cap B = {} /\ f[L \cup B] # f[L] + f[B]
    BY <1>3 DEF T
<1>5. f[{}] = 0 /\ \A S \in SUBSET U : f[S] \in Nat
  <2>1. {} \in SUBSET U
      OBVIOUS
  <2>2. f[{}] = 0
      BY <2>1, SumsUnfold
  <2> QED
      BY <2>2, SumsRemove
<1>6. L # {}
  <2> SUFFICES ASSUME L = {} PROVE FALSE
      OBVIOUS
  <2>1. L \cup B = B /\ f[L] = 0 /\ f[B] \in Nat
      BY <1>5
  <2> QED
      BY <1>4, <2>1
<1>7. PICK x \in L : TRUE
    BY <1>6
<1>8. x \in U /\ L \ {x} \in SUBSET U /\ L \cup B \in SUBSET U
      /\ L \ {x} # L /\ (L \ {x}) \cap B = {} /\ x \notin B
    BY <1>4
<1>9. f[(L \ {x}) \cup B] = f[L \ {x}] + f[B]
    BY <1>3, <1>8 DEF T
<1>10. (L \cup B) \ {x} = (L \ {x}) \cup B
    BY <1>8
<1>11. f[L] = w[x] + f[L \ {x}] /\ f[L \cup B] = w[x] + f[(L \cup B) \ {x}]
    BY <1>4, <1>8, SumsRemove
<1>12. w[x] \in Nat /\ f[L \ {x}] \in Nat /\ f[B] \in Nat
    BY <1>5, <1>8
<1>13. f[L \cup B] = w[x] + (f[L \ {x}] + f[B])
    BY <1>9, <1>10, <1>11
<1> QED
    BY <1>4, <1>11, <1>12, <1>13

----------------------------------------------------------------------------
\* Totals

\* Total is such a sum.
LEMMA TotalSums ==
  ASSUME NEW U, IsFiniteSet(U), \A t \in U : t.amount \in Nat
  PROVE  \E f : /\ IsSums(f, [t \in U |-> t.amount], U)
                /\ \A S \in SUBSET U : Total(S) = f[S]
<1> DEFINE w == [t \in U |-> t.amount]
<1>1. PICK f : IsSums(f, w, U)
    BY SumsExist
<1>2. ASSUME NEW S \in SUBSET U PROVE Total(S) = f[S]
  <2> DEFINE Iter(g) == g = [R \in SUBSET S |-> IF R = {} THEN 0
                                                ELSE Amount(SomeOf(R)) + g[R \ {SomeOf(R)}]]
  <2>1. Total(S) = (CHOOSE g : Iter(g))[S]
      BY DEF Total, MapThenSumSet, MapThenFoldSet, SomeOf
  <2>2. \A R \in SUBSET S : R # {} => Amount(SomeOf(R)) = w[SomeOf(R)]
      BY SomeMember DEF Amount
  <2>3. \A g : Iter(g) <=> IsSums(g, w, S)
    <3> SUFFICES ASSUME NEW g
                 PROVE  [R \in SUBSET S |-> IF R = {} THEN 0
                                            ELSE Amount(SomeOf(R)) + g[R \ {SomeOf(R)}]]
                      = [R \in SUBSET S |-> IF R = {} THEN 0
                                            ELSE w[SomeOf(R)] + g[R \ {SomeOf(R)}]]
        BY DEF IsSums
    <3> HIDE DEF w
    <3> QED
        BY <2>2
  <2> DEFINE h == CHOOSE g : Iter(g)
  <2>4. IsFiniteSet(S)
      BY FS_Subset
  <2> HIDE DEF w
  <2>5. \E g : IsSums(g, w, S)
      BY <2>4, SumsExist
  <2>6. Iter(h)
    <3> HIDE DEF Iter
    <3> QED
        BY <2>3, <2>5
  <2> HIDE DEF Iter, h
  <2>7. IsSums(h, w, S)
      BY <2>3, <2>6
  <2>8. h[S] = f[S]
      BY <1>1, <2>4, <2>7, SumsAgree
  <2> QED
      BY <2>1, <2>8 DEF h
<1> QED
    BY <1>1, <1>2

\* So is BucketTotal.
LEMMA BucketTotalSums ==
  ASSUME NEW U, IsFiniteSet(U), \A b \in U : b.totalCollected \in Nat
  PROVE  \E f : /\ IsSums(f, [b \in U |-> b.totalCollected], U)
                /\ \A S \in SUBSET U : BucketTotal(S) = f[S]
<1> DEFINE w == [b \in U |-> b.totalCollected]
<1>1. PICK f : IsSums(f, w, U)
    BY SumsExist
<1>2. ASSUME NEW S \in SUBSET U PROVE BucketTotal(S) = f[S]
  <2> DEFINE Iter(g) == g = [R \in SUBSET S |-> IF R = {} THEN 0
                               ELSE SomeOf(R).totalCollected + g[R \ {SomeOf(R)}]]
  <2>1. BucketTotal(S) = (CHOOSE g : Iter(g))[S]
      BY DEF BucketTotal, MapThenSumSet, MapThenFoldSet, SomeOf
  <2>2. \A R \in SUBSET S : R # {} => SomeOf(R).totalCollected = w[SomeOf(R)]
      BY SomeMember
  <2>3. \A g : Iter(g) <=> IsSums(g, w, S)
    <3> SUFFICES ASSUME NEW g
                 PROVE  [R \in SUBSET S |-> IF R = {} THEN 0
                           ELSE SomeOf(R).totalCollected + g[R \ {SomeOf(R)}]]
                      = [R \in SUBSET S |-> IF R = {} THEN 0
                           ELSE w[SomeOf(R)] + g[R \ {SomeOf(R)}]]
        BY DEF IsSums
    <3> HIDE DEF w
    <3> QED
        BY <2>2
  <2> DEFINE h == CHOOSE g : Iter(g)
  <2>4. IsFiniteSet(S)
      BY FS_Subset
  <2> HIDE DEF w
  <2>5. \E g : IsSums(g, w, S)
      BY <2>4, SumsExist
  <2>6. Iter(h)
    <3> HIDE DEF Iter
    <3> QED
        BY <2>3, <2>5
  <2> HIDE DEF Iter, h
  <2>7. IsSums(h, w, S)
      BY <2>3, <2>6
  <2>8. h[S] = f[S]
      BY <1>1, <2>4, <2>7, SumsAgree
  <2> QED
      BY <2>1, <2>8 DEF h
<1> QED
    BY <1>1, <1>2

\* The rows of two sets that share none add up.
LEMMA TotalAdds ==
  ASSUME NEW A, NEW B, IsFiniteSet(A), IsFiniteSet(B), A \cap B = {},
         \A t \in A \cup B : t.amount \in Nat
  PROVE  Total(A \cup B) = Total(A) + Total(B)
<1> DEFINE U == A \cup B
<1>1. IsFiniteSet(U) /\ A \in SUBSET U /\ B \in SUBSET U /\ U \in SUBSET U
    BY FS_Union
<1>2. \A t \in U : t.amount \in Nat
    OBVIOUS
<1> HIDE DEF U
<1>3. PICK f : /\ IsSums(f, [t \in U |-> t.amount], U)
               /\ \A S \in SUBSET U : Total(S) = f[S]
    BY <1>1, <1>2, TotalSums
<1> DEFINE w == [t \in U |-> t.amount]
<1>4. \A t \in U : w[t] \in Nat
    BY <1>2
<1> HIDE DEF w
<1>5. f[A \cup B] = f[A] + f[B]
    BY <1>1, <1>3, <1>4, SumsAdd DEF w
<1> QED
    BY <1>1, <1>3, <1>5 DEF U

\* Totals are numbers.
LEMMA TotalNat ==
  ASSUME NEW A, IsFiniteSet(A), \A t \in A : t.amount \in Nat
  PROVE  Total(A) \in Nat
<1>1. PICK f : /\ IsSums(f, [t \in A |-> t.amount], A)
               /\ \A S \in SUBSET A : Total(S) = f[S]
    BY TotalSums
<1> DEFINE w == [t \in A |-> t.amount]
<1>2. \A t \in A : w[t] \in Nat
    OBVIOUS
<1> HIDE DEF w
<1>3. f[A] \in Nat
    BY <1>1, <1>2, SumsRemove DEF w
<1> QED
    BY <1>1, <1>3

\* Nothing adds up to nothing.
LEMMA TotalEmpty == Total({}) = 0
<1>1. IsFiniteSet({})
    BY FS_EmptySet
<1>2. PICK f : /\ IsSums(f, [t \in {} |-> t.amount], {})
               /\ \A S \in SUBSET {} : Total(S) = f[S]
    BY <1>1, TotalSums
<1>3. {} \in SUBSET {}
    OBVIOUS
<1>4. f[{}] = 0
    BY <1>2, <1>3, SumsUnfold
<1> QED
    BY <1>2, <1>4

----------------------------------------------------------------------------
\* Periods

\* Periods of one length begin a length apart.
LEMMA TruncFacts ==
  ASSUME NEW L \in Nat \ {0}, NEW a \in Nat, NEW b \in Nat
  PROVE  /\ a - (a % L) \in Nat
         /\ a - (a % L) < b - (b % L) => (a - (a % L)) + L <= b - (b % L)
<1>1. /\ a = L * (a \div L) + (a % L) /\ a \div L \in Nat /\ a % L \in Nat
      /\ b = L * (b \div L) + (b % L) /\ b \div L \in Nat /\ b % L \in Nat
    OBVIOUS
<1> DEFINE q == a \div L
           r == b \div L
<1>2. /\ q \in Nat /\ r \in Nat
      /\ a - (a % L) = L * q /\ b - (b % L) = L * r
    BY <1>1
<1> HIDE DEF q, r
<1>3. L * q < L * r => L * q + L <= L * r
  <2>1. CASE q < r
    <3>1. PICK d \in Nat : r = q + 1 + d
      <4>1. r - q - 1 \in Nat /\ r = q + 1 + (r - q - 1)
          BY <1>2, <2>1
      <4> QED
          BY <4>1
    <3>2. L * r = L * q + L + L * d
        BY <1>2, <3>1
    <3>3. L * d \in Nat /\ L * q \in Nat
        BY <1>2, <3>1
    <3> QED
        BY <3>2, <3>3
  <2>2. CASE r <= q
    <3>1. PICK d \in Nat : q = r + d
      <4>1. q - r \in Nat /\ q = r + (q - r)
          BY <1>2, <2>2
      <4> QED
          BY <4>1
    <3>2. L * q = L * r + L * d
        BY <1>2, <3>1
    <3>3. L * d \in Nat /\ L * r \in Nat
        BY <1>2, <3>1
    <3> QED
        BY <3>2, <3>3
  <2> QED
      BY <1>2, <2>1, <2>2
<1>4. L * q \in Nat
    BY <1>2
<1> QED
    BY <1>2, <1>3, <1>4

\* The periods of either length cut time into pieces that do not overlap.
LEMMA LengthFacts ==
  ASSUME NEW granularity, NEW at \in Nat, NEW later \in Nat
  PROVE  /\ Length(granularity) \in Nat \ {0}
         /\ Trunc(granularity, at) \in Nat
         /\ Trunc(granularity, at) < Trunc(granularity, later) =>
              Trunc(granularity, at) + Length(granularity) <= Trunc(granularity, later)
<1>1. Length(granularity) \in Nat \ {0}
    BY TimeAssumption DEF Length
<1> QED
    BY <1>1, TruncFacts DEF Trunc

\* The rows of a period.
RowsOf(rows, granularity, s) == {t \in rows : Trunc(granularity, t.occurredAt) = s}

\* A bucket is known by its start, and every row is in one.
LEMMA BucketFacts ==
  ASSUME NEW rows, IsFiniteSet(rows), NEW granularity
  PROVE  /\ IsFiniteSet(Buckets(rows, granularity))
         /\ \A b \in Buckets(rows, granularity) :
              /\ \E t \in rows : b.periodStart = Trunc(granularity, t.occurredAt)
              /\ b.periodEnd = b.periodStart + Length(granularity)
              /\ b.totalCollected = Total(RowsOf(rows, granularity, b.periodStart))
         /\ \A b, c \in Buckets(rows, granularity) : b.periodStart = c.periodStart => b = c
         /\ \A t \in rows : \E b \in Buckets(rows, granularity) :
              b.periodStart = Trunc(granularity, t.occurredAt)
<1> DEFINE Bucket(s) == [periodStart |-> s, periodEnd |-> s + Length(granularity),
                         totalCollected |-> Total(RowsOf(rows, granularity, s))]
           B == {Bucket(Trunc(granularity, t.occurredAt)) : t \in rows}
           g == [t \in rows |-> Bucket(Trunc(granularity, t.occurredAt))]
<1>1. Buckets(rows, granularity) = B
    BY DEF Buckets, RowsOf
<1>2. g \in Surjection(rows, B)
    BY DEF Surjection
<1>3. IsFiniteSet(B)
  <2> HIDE DEF g, B
  <2> QED
      BY <1>2, FS_Surjection
<1>4. \A b \in B : /\ \E t \in rows : b.periodStart = Trunc(granularity, t.occurredAt)
                   /\ b = Bucket(b.periodStart)
    OBVIOUS
<1>5. \A t \in rows : \E b \in B : b.periodStart = Trunc(granularity, t.occurredAt)
  <2> SUFFICES ASSUME NEW t \in rows
               PROVE  \E b \in B : b.periodStart = Trunc(granularity, t.occurredAt)
      OBVIOUS
  <2> WITNESS Bucket(Trunc(granularity, t.occurredAt)) \in B
  <2> QED
      OBVIOUS
<1> HIDE DEF B
<1>6. \A b \in B : /\ b.periodEnd = b.periodStart + Length(granularity)
                   /\ b.totalCollected = Total(RowsOf(rows, granularity, b.periodStart))
    BY <1>4
<1>7. \A b, c \in B : b.periodStart = c.periodStart => b = c
    BY <1>4
<1> QED
    BY <1>1, <1>3, <1>4, <1>5, <1>6, <1>7

\* Periods neither overlap nor lose or repeat a row.
LEMMA BucketsAddUp ==
  ASSUME NEW rows, IsFiniteSet(rows), NEW granularity,
         \A t \in rows : t.amount \in Nat /\ t.occurredAt \in Nat
  PROVE  /\ BucketTotal(Buckets(rows, granularity)) = Total(rows)
         /\ \A b, c \in Buckets(rows, granularity) :
              b # c => b.periodEnd <= c.periodStart \/ c.periodEnd <= b.periodStart
<1> DEFINE B == Buckets(rows, granularity)
           Start(t) == Trunc(granularity, t.occurredAt)
           In(s) == RowsOf(rows, granularity, s)
           InSome(X) == {t \in rows : \E b \in X : b.periodStart = Start(t)}
<1>1. /\ IsFiniteSet(B)
      /\ \A b \in B : /\ \E t \in rows : b.periodStart = Start(t)
                      /\ b.periodEnd = b.periodStart + Length(granularity)
                      /\ b.totalCollected = Total(In(b.periodStart))
      /\ \A b, c \in B : b.periodStart = c.periodStart => b = c
      /\ \A t \in rows : \E b \in B : b.periodStart = Start(t)
    BY BucketFacts
<1>2. \A b \in B : b.periodStart \in Nat
    BY <1>1, LengthFacts
<1>3. \A b, c \in B : b.periodStart < c.periodStart => b.periodEnd <= c.periodStart
  <2> SUFFICES ASSUME NEW b \in B, NEW c \in B, b.periodStart < c.periodStart
               PROVE  b.periodEnd <= c.periodStart
      OBVIOUS
  <2>1. PICK t \in rows : b.periodStart = Start(t)
      BY <1>1
  <2>2. PICK u \in rows : c.periodStart = Start(u)
      BY <1>1
  <2> HIDE DEF B
  <2> QED
      BY <1>1, <2>1, <2>2, LengthFacts
<1> HIDE DEF B
<1>4. \A b, c \in B : b # c => b.periodEnd <= c.periodStart \/ c.periodEnd <= b.periodStart
  <2>1. \A b, c \in B : b # c => b.periodStart < c.periodStart \/ c.periodStart < b.periodStart
      BY <1>1, <1>2
  <2> QED
      BY <1>3, <2>1
<1>5. \A S : S \subseteq rows =>
        IsFiniteSet(S) /\ Total(S) \in Nat /\ \A t \in S : t.amount \in Nat
    BY FS_Subset, TotalNat
<1>6. \A s : In(s) \subseteq rows
    BY DEF RowsOf
<1>7. \A b \in B : b.totalCollected \in Nat
    BY <1>1, <1>5, <1>6
<1>8. PICK f : /\ IsSums(f, [b \in B |-> b.totalCollected], B)
               /\ \A S \in SUBSET B : BucketTotal(S) = f[S]
    BY <1>1, <1>7, BucketTotalSums
<1> DEFINE w == [b \in B |-> b.totalCollected]
<1>9. \A b \in B : w[b] \in Nat /\ w[b] = b.totalCollected
    BY <1>7
<1> HIDE DEF w
<1>10. /\ f[{}] = 0
       /\ \A X \in SUBSET B, b \in B : b \in X => f[X] = b.totalCollected + f[X \ {b}]
  <2>1. IsSums(f, w, B) /\ {} \in SUBSET B
      BY <1>8 DEF w
  <2>2. f[{}] = 0
      BY <2>1, SumsUnfold
  <2>3. \A X \in SUBSET B, b \in B : b \in X => f[X] = w[b] + f[X \ {b}]
      BY <1>1, <1>9, <2>1, SumsRemove
  <2> QED
      BY <1>9, <2>2, <2>3
<1> DEFINE T == {X \in SUBSET B : f[X] # Total(InSome(X))}
<1>11. T = {}
  <2>1. T \in SUBSET SUBSET B
      OBVIOUS
  <2>2. SUFFICES ASSUME T # {} PROVE FALSE
      OBVIOUS
  <2> HIDE DEF T
  <2>3. PICK X \in T : \A M \in T : M \subseteq X => M = X
      BY <1>1, <2>1, <2>2, SmallestSubset
  <2>4. X \in SUBSET B /\ f[X] # Total(InSome(X))
      BY <2>3 DEF T
  <2>5. X # {}
    <3>1. InSome({}) = {}
        OBVIOUS
    <3> QED
        BY <1>10, <2>4, <3>1, TotalEmpty
  <2>6. PICK b \in X : TRUE
      BY <2>5
  <2> DEFINE rest == X \ {b}
  <2>7. rest \in SUBSET B /\ rest # X /\ rest \subseteq X /\ b \in B
      BY <2>4
  <2>8. f[rest] = Total(InSome(rest))
      BY <2>3, <2>7 DEF T
  <2>9. InSome(X) = In(b.periodStart) \cup InSome(rest)
      BY DEF RowsOf
  <2>10. In(b.periodStart) \cap InSome(rest) = {}
      BY <1>1, <2>4, <2>7 DEF RowsOf
  <2>11. In(b.periodStart) \subseteq rows /\ InSome(rest) \subseteq rows
      BY DEF RowsOf
  <2>12. f[X] = b.totalCollected + f[rest]
      BY <1>10, <2>4, <2>7
  <2>13. b.totalCollected = Total(In(b.periodStart))
      BY <1>1, <2>7
  <2> HIDE DEF In, InSome, rest
  <2>14. Total(In(b.periodStart) \cup InSome(rest)) = Total(In(b.periodStart)) + Total(InSome(rest))
    <3>1. /\ IsFiniteSet(In(b.periodStart)) /\ IsFiniteSet(InSome(rest))
          /\ \A t \in In(b.periodStart) \cup InSome(rest) : t.amount \in Nat
        BY <1>5, <2>11
    <3> QED
        BY <2>10, <3>1, TotalAdds
  <2> QED
      BY <2>4, <2>8, <2>9, <2>12, <2>13, <2>14
<1>12. InSome(B) = rows
    BY <1>1
<1>13. BucketTotal(B) = Total(rows)
  <2>1. f[B] = Total(InSome(B))
      BY <1>11
  <2> QED
      BY <1>8, <1>12, <2>1
<1> QED
    BY <1>4, <1>13 DEF B

----------------------------------------------------------------------------
\* The metrics

\* Rows hold versions the fixture may have.
TableBound == \A k \in Keys : table[k] \in 0..MaxInstant

\* The table of transactions is a finite set of rows, each of Stripe or of the fixture.
LEMMA TransactionsTypes ==
  ASSUME TableBound
  PROVE  /\ IsFiniteSet(Transactions) /\ Transactions \subseteq Rows
         /\ Transactions \subseteq StripeRows \cup {Facts[k][v] : k \in Keys, v \in 1..MaxInstant}
<1> DEFINE held == {x \in Keys : table[x] # 0}
           row == [k \in held |-> Facts[k][table[k]]]
           written == {Facts[k][table[k]] : k \in held}
<1>1. ASSUME NEW k \in Keys, table[k] # 0 PROVE table[k] \in 1..MaxInstant
  <2>1. table[k] \in 0..MaxInstant /\ MaxInstant \in Nat
      BY FixtureAssumption DEF TableBound
  <2> QED
      BY <1>1, <2>1
<1>2. written \subseteq {Facts[k][v] : k \in Keys, v \in 1..MaxInstant}
    BY <1>1
<1>3. written \subseteq Rows
    BY <1>1, RowAssumption
<1>4. IsFiniteSet(held)
    BY RowAssumption, FS_Subset
<1>5. row \in Surjection(held, written)
    BY DEF Surjection
<1> HIDE DEF row, held, written
<1>6. IsFiniteSet(written)
    BY <1>4, <1>5, FS_Surjection
<1>7. Transactions = written \cup StripeRows
    BY DEF Transactions, written, held
<1>8. IsFiniteSet(Transactions)
    BY <1>6, <1>7, RowAssumption, FS_Union
<1> QED
    BY <1>2, <1>3, <1>7, <1>8, RowAssumption

\* The rows a summary or a breakdown is about.
LEMMA CountedTypes ==
  ASSUME TableBound, NEW from, NEW to
  PROVE  LET counted == Within(Collected(Transactions, mapping), from, to) IN
         /\ IsFiniteSet(counted)
         /\ \A t \in counted : t.amount \in Nat /\ t.occurredAt \in Nat
<1> DEFINE counted == Within(Collected(Transactions, mapping), from, to)
<1>1. counted \in SUBSET Transactions
    BY DEF Within, Collected
<1> HIDE DEF counted
<1>2. IsFiniteSet(counted) /\ counted \subseteq Rows
    BY <1>1, TransactionsTypes, FS_Subset
<1>3. \A t \in Rows : t.amount \in Nat /\ t.occurredAt \in Nat
    BY DEF Rows
<1> QED
    BY <1>2, <1>3 DEF counted

\* The total is that of the periods, whatever is asked and by whom (the page does not check
\* its dates).
LEMMA SummaryIsBreakdown ==
  ASSUME TableBound, NEW from, NEW to, NEW granularity
  PROVE  LET buckets == Breakdown(Transactions, mapping, from, to, granularity) IN
         /\ BucketTotal(buckets) = Summary(Transactions, mapping, from, to)
         /\ \A b, c \in buckets :
              b # c => b.periodEnd <= c.periodStart \/ c.periodEnd <= b.periodStart
BY CountedTypes, BucketsAddUp DEF Breakdown, Summary

\* The two views of the revenue agree in every state whose rows come from the fixture.
LEMMA TablesAgree == TableBound => ViewsAgree
BY SummaryIsBreakdown DEF ViewsAgree

\* So do a range and the two it is cut into.
LEMMA TablesCompose == TableBound => RangesCompose
<1> SUFFICES ASSUME TableBound, NEW from \in Times, NEW mid \in Times, NEW to \in Times,
                    from < mid, mid < to
             PROVE  Summary(Transactions, mapping, from, to) =
                      Summary(Transactions, mapping, from, mid)
                        + Summary(Transactions, mapping, mid, to)
    BY DEF RangesCompose
<1> DEFINE In(a, b) == Within(Collected(Transactions, mapping), a, b)
<1>1. \A a, b : /\ IsFiniteSet(In(a, b))
                /\ \A t \in In(a, b) : t.amount \in Nat /\ t.occurredAt \in Nat
    BY CountedTypes
<1>2. from \in Nat /\ mid \in Nat /\ to \in Nat
    BY TimeAssumption
<1>3. \A t \in Collected(Transactions, mapping) : t.occurredAt \in Nat
    BY TransactionsTypes DEF Collected, Rows
<1>4. In(from, to) = In(from, mid) \cup In(mid, to)
    BY <1>2, <1>3 DEF Within
<1>5. In(from, mid) \cap In(mid, to) = {}
    BY <1>2, <1>3 DEF Within
<1> HIDE DEF In
<1>6. Total(In(from, mid) \cup In(mid, to)) = Total(In(from, mid)) + Total(In(mid, to))
    BY <1>1, <1>5, TotalAdds
<1> QED
    BY <1>4, <1>6 DEF In, Summary

\* Whatever the allow-list calls collected, the seed lists so or somebody added.
AllowInv ==
    \A p \in DOMAIN mapping : mapping[p] = "collected" =>
        \/ p \in ByHand
        \/ \E m \in ToSet(StatusMappings) :
             <<m.source, m.rawStatus>> = p /\ m.canonicalStatus = "collected"

\* What counts is in the allow-list as collected, and so allowed.
LEMMA AllowListSuffices == AllowInv => UnlistedNeverCounts
BY DEF AllowInv, UnlistedNeverCounts, Collected

\* The script brings what it lists.
LEMMA SeedAllows ==
  ASSUME AllowInv, NEW pair, NEW canonical, mapping' = Upserted(pair, canonical),
         canonical = "collected" =>
           \/ pair \in ByHand
           \/ \E m \in ToSet(StatusMappings) :
                <<m.source, m.rawStatus>> = pair /\ m.canonicalStatus = "collected"
  PROVE  AllowInv'
BY DEF AllowInv, Upserted

\* So does all of it at once.
LEMMA ListingAllows ==
  ASSUME mapping = Listing
  PROVE  AllowInv /\ DOMAIN mapping \subseteq Pairs
                  /\ \A p \in DOMAIN mapping : mapping[p] \in CanonicalStatus
<1>1. \A m \in ToSet(StatusMappings) : m.canonicalStatus \in CanonicalStatus
  <2> DEFINE Entry == [source : STRING, rawStatus : STRING, canonicalStatus : CanonicalStatus]
  <2>1. StatusMappings \in Seq(Entry)
      BY MappingAssumption
  <2>2. \A e \in Entry : e.canonicalStatus \in CanonicalStatus
      OBVIOUS
  <2> HIDE DEF Entry
  <2>3. \A i \in DOMAIN StatusMappings : StatusMappings[i] \in Entry
      BY <2>1
  <2> QED
      BY <2>2, <2>3 DEF ToSet
<1>2. DOMAIN mapping = Pairs \ ByHand
    BY DEF Listing
<1>3. ASSUME NEW p \in Pairs \ ByHand
      PROVE  \E m \in ToSet(StatusMappings) :
               <<m.source, m.rawStatus>> = p /\ mapping[p] = m.canonicalStatus
  <2> DEFINE m == CHOOSE m \in ToSet(StatusMappings) : <<m.source, m.rawStatus>> = p
  <2>1. \E x \in ToSet(StatusMappings) : <<x.source, x.rawStatus>> = p
      BY DEF Pairs
  <2>2. m \in ToSet(StatusMappings) /\ <<m.source, m.rawStatus>> = p
      BY <2>1
  <2>3. mapping[p] = m.canonicalStatus
      BY DEF Listing
  <2> QED
      BY <2>2, <2>3
<1> QED
    BY <1>1, <1>2, <1>3 DEF AllowInv
=============================================================================
