----------------------- MODULE LearningRewards_proofs -----------------------
(***************************************************************************)
(* For any budgets, lessons, readings and tablets: what a family exports   *)
(* it can import again, a completion is paid once, the starts are bounded  *)
(* and nothing earned is lost.                                             *)
(*                                                                         *)
(* Budgets are sums over the ledger, which comes first: the sum of a set   *)
(* with one more reward is the old sum and its stars, and paid answers add *)
(* up to no more than the ledger says.                                     *)
(***************************************************************************)
EXTENDS LearningRewards, FiniteSetTheorems, WellFoundedInduction, TLAPS

-----------------------------------------------------------------------------
(* Sums.                                                                   *)

\* A set of numbers that has 0, and with a number the next one, has all numbers.
LEMMA AllNumbers ==
  ASSUME NEW T \in SUBSET Nat, 0 \in T, \A n \in T : n + 1 \in T
  PROVE  \A n \in Nat : n \in T
<1> SUFFICES ASSUME Nat \ T # {} PROVE FALSE
  OBVIOUS
<1>1. PICK x \in Nat \ T : \A y \in Nat \ T : ~ (<<y, x>> \in OpToRel(<, Nat))
  BY NatLessThanWellFounded, WFMin
<1>2. x # 0 /\ x - 1 \in Nat /\ x - 1 < x /\ (x - 1) + 1 = x
  OBVIOUS
<1>3. x - 1 \in T
  BY <1>1, <1>2 DEF OpToRel
<1> QED BY <1>2, <1>3

Pick(s) == CHOOSE x \in s : TRUE

\* g is the function that adds f up, over every subset of S, as the fold does.
Step(f, g, s) == IF s = {} THEN 0 ELSE f[Pick(s)] + g[s \ {Pick(s)}]
IsSum(f, S, g) == g = [s \in SUBSET S |-> Step(f, g, s)]

\* Sets are smaller without an element.
LEMMA Smaller ==
  ASSUME NEW S, IsFiniteSet(S), NEW s \in SUBSET S, NEW x \in s
  PROVE  /\ IsFiniteSet(s) /\ IsFiniteSet(s \ {x}) /\ s \ {x} \in SUBSET S
         /\ Cardinality(s) \in Nat /\ Cardinality(s \ {x}) \in Nat
         /\ Cardinality(s) = Cardinality(s \ {x}) + 1
<1>1. IsFiniteSet(s)
  BY FS_Subset
<1>2. IsFiniteSet(s \ {x}) /\ Cardinality(s \ {x}) = Cardinality(s) - 1
  BY <1>1, FS_RemoveElement
<1> QED BY <1>1, <1>2, FS_CardinalityType

LEMMA PickIsIn ==
  ASSUME NEW s, s # {}
  PROVE  Pick(s) \in s
BY DEF Pick

\* The subsets with at most n elements.
Upto(S, n) == {s \in SUBSET S : Cardinality(s) <= n}

LEMMA UptoGrows ==
  ASSUME NEW S, IsFiniteSet(S), NEW n \in Nat, NEW s \in Upto(S, n + 1), NEW x \in s
  PROVE  s \ {x} \in Upto(S, n)
BY Smaller DEF Upto

LEMMA UptoNothing ==
  ASSUME NEW S, IsFiniteSet(S), NEW s \in Upto(S, 0)
  PROVE  s = {}
<1>1. IsFiniteSet(s) /\ Cardinality(s) <= 0 /\ Cardinality(s) \in Nat
  BY FS_Subset, FS_CardinalityType DEF Upto
<1> QED BY <1>1, FS_EmptySet

LEMMA UptoAll ==
  ASSUME NEW S, IsFiniteSet(S)
  PROVE  Cardinality(S) \in Nat /\ Upto(S, Cardinality(S)) = SUBSET S
<1>1. \A s \in SUBSET S : Cardinality(s) <= Cardinality(S)
  BY FS_Subset
<1> QED BY <1>1, FS_CardinalityType DEF Upto

LEMMA SumExists ==
  ASSUME NEW S, IsFiniteSet(S), NEW f \in [S -> Nat]
  PROVE  \E g : IsSum(f, S, g)
<1> DEFINE T == {n \in Nat : \E g \in [SUBSET S -> Nat] : \A s \in Upto(S, n) : g[s] = Step(f, g, s)}
<1>1. 0 \in T
  <2> DEFINE g == [s \in SUBSET S |-> 0]
  <2>1. \A s \in Upto(S, 0) : g[s] = Step(f, g, s)
    BY UptoNothing DEF Step
  <2> QED BY <2>1
<1>2. ASSUME NEW n \in T PROVE n + 1 \in T
  <2>1. PICK g \in [SUBSET S -> Nat] : \A s \in Upto(S, n) : g[s] = Step(f, g, s)
    BY <1>2
  <2> DEFINE h == [s \in SUBSET S |-> Step(f, g, s)]
  <2>2. ASSUME NEW s \in SUBSET S PROVE Step(f, g, s) \in Nat
    <3>1. CASE s = {}
      BY <3>1 DEF Step
    <3>2. CASE s # {}
      <4>1. Pick(s) \in S /\ s \ {Pick(s)} \in SUBSET S
        BY <3>2, PickIsIn
      <4> QED BY <3>2, <4>1 DEF Step
    <3> QED BY <3>1, <3>2
  <2>3. h \in [SUBSET S -> Nat]
    BY <2>2
  <2>4. ASSUME NEW s \in Upto(S, n + 1) PROVE h[s] = Step(f, h, s)
    <3>1. s \in SUBSET S /\ h[s] = Step(f, g, s)
      BY DEF Upto
    <3>2. CASE s = {}
      BY <3>1, <3>2 DEF Step
    <3>3. CASE s # {}
      <4> DEFINE r == s \ {Pick(s)}
      <4>1. r \in Upto(S, n) /\ r \in SUBSET S
        BY <3>1, <3>3, PickIsIn, UptoGrows
      <4>2. h[r] = g[r]
        BY <2>1, <4>1
      <4> QED BY <3>1, <3>3, <4>2 DEF Step
    <3> QED BY <3>2, <3>3
  <2>5. \E e \in [SUBSET S -> Nat] : \A s \in Upto(S, n + 1) : e[s] = Step(f, e, s)
    <3> HIDE DEF h
    <3> QED BY <2>3, <2>4
  <2> QED BY <2>5
<1>3. \A n \in Nat : n \in T
  BY <1>1, <1>2, AllNumbers
<1>4. PICK g \in [SUBSET S -> Nat] : \A s \in SUBSET S : g[s] = Step(f, g, s)
  <2>1. Cardinality(S) \in T
    BY <1>3, UptoAll
  <2> QED BY <2>1, UptoAll
<1>5. g = [s \in SUBSET S |-> Step(f, g, s)]
  BY <1>4
<1> QED BY <1>5 DEF IsSum

LEMMA SumStep ==
  ASSUME NEW S, NEW f, NEW g, IsSum(f, S, g), NEW s \in SUBSET S
  PROVE  g[s] = Step(f, g, s)
<1>1. g = [r \in SUBSET S |-> Step(f, g, r)]
  BY DEF IsSum
<1> DEFINE e == [r \in SUBSET S |-> Step(f, g, r)]
<1>2. e[s] = Step(f, g, s)
  OBVIOUS
<1> QED BY <1>1, <1>2

LEMMA SumIsNat ==
  ASSUME NEW S, IsFiniteSet(S), NEW f \in [S -> Nat], NEW g, IsSum(f, S, g)
  PROVE  \A s \in SUBSET S : g[s] \in Nat
<1> DEFINE T == {n \in Nat : \A s \in Upto(S, n) : g[s] \in Nat}
<1>1. 0 \in T
  <2>1. ASSUME NEW s \in Upto(S, 0) PROVE g[s] \in Nat
    BY UptoNothing, SumStep DEF Step
  <2> QED BY <2>1
<1>2. ASSUME NEW n \in T PROVE n + 1 \in T
  <2>1. ASSUME NEW s \in Upto(S, n + 1) PROVE g[s] \in Nat
    <3>1. s \in SUBSET S
      BY DEF Upto
    <3>0. g[s] = Step(f, g, s)
      BY <3>1, SumStep
    <3>2. CASE s = {}
      BY <3>0, <3>2 DEF Step
    <3>3. CASE s # {}
      <4>1. Pick(s) \in S /\ s \ {Pick(s)} \in Upto(S, n)
        BY <3>1, <3>3, PickIsIn, UptoGrows
      <4>2. g[s \ {Pick(s)}] \in Nat /\ f[Pick(s)] \in Nat
        BY <4>1
      <4> QED BY <3>0, <3>3, <4>2 DEF Step
    <3> QED BY <3>2, <3>3
  <2> QED BY <2>1
<1>3. \A n \in Nat : n \in T
  BY <1>1, <1>2, AllNumbers
<1> QED BY <1>3, UptoAll

\* Two sums agree where what they add up agrees.
LEMMA SumsAgree ==
  ASSUME NEW S, IsFiniteSet(S), NEW f, NEW g, IsSum(f, S, g),
         NEW R, NEW e, NEW h, IsSum(e, R, h)
  PROVE  \A s \in SUBSET S : s \in SUBSET R /\ (\A x \in s : f[x] = e[x]) => g[s] = h[s]
<1> DEFINE OK(s) == (\A x \in s : f[x] = e[x]) => g[s] = h[s]
           T == {n \in Nat : \A s \in Upto(S, n) : s \in SUBSET R => OK(s)}
<1>1. 0 \in T
  <2>1. ASSUME NEW s \in Upto(S, 0), s \in SUBSET R PROVE OK(s)
    <3>1. s = {} /\ s \in SUBSET S
      BY UptoNothing
    <3>2. g[s] = Step(f, g, s) /\ h[s] = Step(e, h, s)
      BY <2>1, <3>1, SumStep
    <3> QED BY <3>1, <3>2 DEF Step
  <2> QED BY <2>1
<1>2. ASSUME NEW n \in T PROVE n + 1 \in T
  <2>1. ASSUME NEW s \in Upto(S, n + 1), s \in SUBSET R, \A x \in s : f[x] = e[x]
        PROVE  g[s] = h[s]
    <3>1. s \in SUBSET S
      BY DEF Upto
    <3>2. g[s] = Step(f, g, s) /\ h[s] = Step(e, h, s)
      BY <2>1, <3>1, SumStep
    <3>3. CASE s = {}
      BY <3>2, <3>3 DEF Step
    <3>4. CASE s # {}
      <4> DEFINE r == s \ {Pick(s)}
      <4>1. Pick(s) \in s /\ r \in Upto(S, n) /\ r \in SUBSET R
        BY <2>1, <3>1, <3>4, PickIsIn, UptoGrows
      <4>2. g[r] = h[r]
        BY <2>1, <4>1
      <4>3. f[Pick(s)] = e[Pick(s)]
        BY <2>1, <4>1
      <4> QED BY <3>2, <3>4, <4>2, <4>3 DEF Step
    <3> QED BY <3>3, <3>4
  <2>2. \A s \in Upto(S, n + 1) : s \in SUBSET R => OK(s)
    BY <2>1
  <2> HIDE DEF OK
  <2> QED BY <2>2
<1>3. \A n \in Nat : n \in T
  <2> HIDE DEF OK
  <2> QED BY <1>1, <1>2, AllNumbers
<1>4. Cardinality(S) \in T
  BY <1>3, UptoAll
<1> QED BY <1>4, UptoAll

\* Whatever element is taken out, the rest adds up to the rest.
LEMMA SumTakesOut ==
  ASSUME NEW S, IsFiniteSet(S), NEW f \in [S -> Nat], NEW g, IsSum(f, S, g)
  PROVE  \A s \in SUBSET S : \A x \in s : g[s] = f[x] + g[s \ {x}]
<1> DEFINE OK(s) == \A x \in s : g[s] = f[x] + g[s \ {x}]
           T == {n \in Nat : \A s \in Upto(S, n) : OK(s)}
<1>1. 0 \in T
  <2>1. ASSUME NEW s \in Upto(S, 0) PROVE OK(s)
    BY UptoNothing
  <2> QED BY <2>1
<1>2. ASSUME NEW n \in T PROVE n + 1 \in T
  <2>1. ASSUME NEW s \in Upto(S, n + 1), NEW x \in s PROVE g[s] = f[x] + g[s \ {x}]
    <3> DEFINE y == Pick(s)
    <3>1. s \in SUBSET S /\ y \in s
      BY PickIsIn DEF Upto
    <3>2. g[s] = f[y] + g[s \ {y}]
      <4>1. g[s] = Step(f, g, s)
        BY <3>1, SumStep
      <4> QED BY <4>1, <3>1 DEF Step
    <3>3. CASE x = y
      BY <3>2, <3>3
    <3>4. CASE x # y
      <4>1. s \ {x} \in Upto(S, n) /\ s \ {y} \in Upto(S, n)
        BY <3>1, UptoGrows
      <4>2. y \in s \ {x} /\ x \in s \ {y} /\ (s \ {x}) \ {y} = (s \ {y}) \ {x}
        BY <3>1, <3>4
      <4>3. g[s \ {y}] = f[x] + g[(s \ {y}) \ {x}]
        BY <4>1, <4>2
      <4>4. g[s \ {x}] = f[y] + g[(s \ {x}) \ {y}]
        BY <4>1, <4>2
      <4>5. f[x] \in Nat /\ f[y] \in Nat /\ g[(s \ {x}) \ {y}] \in Nat
        BY <3>1, SumIsNat
      <4>6. PICK k \in Nat : k = g[(s \ {x}) \ {y}] /\ k = g[(s \ {y}) \ {x}]
        BY <4>2, <4>5
      <4>7. g[s] = f[y] + (f[x] + k) /\ g[s \ {x}] = f[y] + k
        BY <3>2, <4>3, <4>4, <4>6
      <4> HIDE DEF y
      <4> QED BY <4>5, <4>7
    <3> QED BY <3>3, <3>4
  <2>2. \A s \in Upto(S, n + 1) : OK(s)
    BY <2>1
  <2> HIDE DEF OK
  <2> QED BY <2>2
<1>3. \A n \in Nat : n \in T
  <2> HIDE DEF OK
  <2> QED BY <1>1, <1>2, AllNumbers
<1>4. Cardinality(S) \in T
  BY <1>3, UptoAll
<1> QED BY <1>4, UptoAll

Total(f, S) == (CHOOSE g : IsSum(f, S, g))[S]

LEMMA TotalIs ==
  ASSUME NEW S, IsFiniteSet(S), NEW f \in [S -> Nat], NEW g, IsSum(f, S, g)
  PROVE  Total(f, S) = g[S] /\ Total(f, S) \in Nat
<1> DEFINE h == CHOOSE e : IsSum(f, S, e)
<1>1. IsSum(f, S, h)
  OBVIOUS
<1> HIDE DEF h
<1>2. h[S] = g[S]
  BY <1>1, SumsAgree
<1>3. h[S] \in Nat
  BY <1>1, SumIsNat
<1> QED BY <1>2, <1>3 DEF Total, h

LEMMA TotalIsNat ==
  ASSUME NEW S, IsFiniteSet(S), NEW f \in [S -> Nat]
  PROVE  Total(f, S) \in Nat
BY SumExists, TotalIs

LEMMA TotalOfNothing ==
  ASSUME NEW f \in [{} -> Nat]
  PROVE  Total(f, {}) = 0
<1>1. IsFiniteSet({})
  BY FS_EmptySet
<1>2. PICK g : IsSum(f, {}, g)
  BY <1>1, SumExists
<1>3. g[{}] = Step(f, g, {})
  BY <1>2, SumStep
<1> QED BY <1>1, <1>2, <1>3, TotalIs DEF Step

LEMMA TotalAdds ==
  ASSUME NEW S, IsFiniteSet(S), NEW x, x \notin S, NEW f \in [S \cup {x} -> Nat],
         NEW e \in [S -> Nat], \A y \in S : e[y] = f[y]
  PROVE  Total(f, S \cup {x}) = Total(e, S) + f[x]
<1> DEFINE R == S \cup {x}
<1>1. IsFiniteSet(R)
  BY FS_AddElement
<1>2. PICK g : IsSum(f, R, g)
  BY <1>1, SumExists
<1>3. PICK h : IsSum(e, S, h)
  BY SumExists
<1>4. x \in R /\ R \in SUBSET R /\ R \ {x} = S /\ S \in SUBSET R
  OBVIOUS
<1>5. g[R] = f[x] + g[R \ {x}]
  BY <1>1, <1>2, <1>4, SumTakesOut
<1>6. h[S] = g[S]
  BY <1>2, <1>3, <1>4, SumsAgree
<1>7. Total(f, R) = g[R]
  BY <1>1, <1>2, TotalIs
<1>8. Total(e, S) = h[S] /\ Total(e, S) \in Nat
  BY <1>3, TotalIs
<1>9. f[x] \in Nat
  OBVIOUS
<1> HIDE DEF R
<1> QED BY <1>4, <1>5, <1>6, <1>7, <1>8, <1>9 DEF R

LEMMA TotalAddsTo ==
  ASSUME NEW R, IsFiniteSet(R), NEW e \in [R -> Nat], NEW x, x \notin R,
         NEW S, S = R \cup {x}, NEW f \in [S -> Nat], \A y \in R : e[y] = f[y],
         NEW a, a = Total(e, R), NEW b, b = Total(f, S), NEW c, c = f[x]
  PROVE  b = a + c
BY TotalAdds

\* What appears in R for every element of S that counts is no less.
LEMMA TotalMaps ==
  ASSUME NEW S, IsFiniteSet(S), NEW f \in [S -> Nat], NEW R, IsFiniteSet(R), NEW e \in [R -> Nat],
         NEW m, \A k \in S : f[k] # 0 => m[k] \in R /\ e[m[k]] = f[k],
         \A j, k \in S : f[j] # 0 /\ f[k] # 0 /\ m[j] = m[k] => j = k
  PROVE  Total(f, S) <= Total(e, R)
<1>1. PICK g : IsSum(f, S, g)
  BY SumExists
<1>2. PICK h : IsSum(e, R, h)
  BY SumExists
<1>3. \A s \in SUBSET S : g[s] \in Nat
  BY <1>1, SumIsNat
<1>4. \A r \in SUBSET R : h[r] \in Nat
  BY <1>2, SumIsNat
<1> DEFINE Covers(r, s) == \A k \in s : f[k] # 0 => m[k] \in r
           OK(s) == \A r \in SUBSET R : Covers(r, s) => g[s] <= h[r]
           T == {n \in Nat : \A s \in Upto(S, n) : OK(s)}
<1>5. 0 \in T
  <2>1. ASSUME NEW s \in Upto(S, 0) PROVE OK(s)
    <3>1. s = {} /\ s \in SUBSET S
      BY UptoNothing
    <3>2. g[s] = Step(f, g, s)
      BY <1>1, <3>1, SumStep
    <3>3. g[s] = 0
      BY <3>1, <3>2 DEF Step
    <3> QED BY <3>3, <1>4
  <2> HIDE DEF OK
  <2> QED BY <2>1
<1>6. ASSUME NEW n \in T PROVE n + 1 \in T
  <2>1. ASSUME NEW s \in Upto(S, n + 1), NEW r \in SUBSET R, Covers(r, s) PROVE g[s] <= h[r]
    <3>1. s \in SUBSET S
      BY DEF Upto
    <3>2. CASE s = {}
      <4>1. g[s] = Step(f, g, s)
        BY <1>1, <3>1, SumStep
      <4>2. g[s] = 0
        BY <3>2, <4>1 DEF Step
      <4> QED BY <4>2, <1>4
    <3>3. CASE s # {}
      <4>1. PICK y \in s : TRUE
        BY <3>3
      <4>2. g[s] = f[y] + g[s \ {y}] /\ s \ {y} \in Upto(S, n) /\ s \ {y} \in SUBSET S
        BY <1>1, <3>1, SumTakesOut, UptoGrows
      <4>3. f[y] \in Nat /\ g[s] \in Nat /\ g[s \ {y}] \in Nat /\ OK(s \ {y})
        BY <1>3, <3>1, <4>2
      <4>4. CASE f[y] = 0
        <5>1. Covers(r, s \ {y})
          BY <2>1
        <5>2. g[s \ {y}] <= h[r]
          BY <4>3, <5>1
        <5> QED BY <4>2, <4>3, <4>4, <5>2
      <4>5. CASE f[y] # 0
        <5> DEFINE q == r \ {m[y]}
        <5>1. m[y] \in r /\ e[m[y]] = f[y] /\ q \in SUBSET R
          BY <2>1, <3>1, <4>5
        <5>2. h[r] = f[y] + h[q]
          BY <1>2, <5>1, SumTakesOut
        <5>3. Covers(q, s \ {y})
          BY <2>1, <3>1, <4>5
        <5>4. g[s \ {y}] <= h[q]
          BY <4>3, <5>1, <5>3
        <5>5. h[q] \in Nat
          BY <1>4, <5>1
        <5> HIDE DEF q
        <5> QED BY <4>2, <4>3, <5>2, <5>4, <5>5
      <4> QED BY <4>4, <4>5
    <3> QED BY <3>2, <3>3
  <2>2. \A s \in Upto(S, n + 1) : OK(s)
    BY <2>1
  <2> HIDE DEF OK
  <2> QED BY <2>2
<1>7. \A n \in Nat : n \in T
  <2> HIDE DEF OK
  <2> QED BY <1>5, <1>6, AllNumbers
<1>8. Cardinality(S) \in T /\ S \in Upto(S, Cardinality(S))
  BY <1>7, UptoAll
<1>9. OK(S)
  <2> HIDE DEF OK
  <2> QED BY <1>8
<1>10. g[S] <= h[R]
  BY <1>9
<1> QED BY <1>1, <1>2, <1>10, TotalIs

-----------------------------------------------------------------------------
(* What the ledger says of a day.                                          *)

Rows(rows, source, date) == {r \in rows : r.source = source /\ r.date = date}
StarsOf(R) == [r \in R |-> r.stars]

LEMMA EarnedIs ==
  ASSUME NEW rows, IsFiniteSet(rows), NEW source, NEW date,
         \A r \in Rows(rows, source, date) : r.stars \in Nat
  PROVE  /\ IsFiniteSet(Rows(rows, source, date))
         /\ StarsOf(Rows(rows, source, date)) \in [Rows(rows, source, date) -> Nat]
         /\ Earned(rows, source, date)
              = Total(StarsOf(Rows(rows, source, date)), Rows(rows, source, date))
         /\ Earned(rows, source, date) \in Nat
<1> DEFINE R == Rows(rows, source, date)
           f == StarsOf(R)
           Adds(g) == g = [s \in SUBSET R |-> IF s = {} THEN 0
                ELSE (CHOOSE x \in s : TRUE).stars + g[s \ {CHOOSE x \in s : TRUE}]]
           it == CHOOSE g : Adds(g)
<1>1. Earned(rows, source, date) = it[R]
  BY Zenon DEF Earned, MapThenSumSet, MapThenFoldSet, Rows
<1>2. IsFiniteSet(R) /\ f \in [R -> Nat]
  BY FS_Subset DEF Rows, StarsOf
<1> HIDE DEF R
<1>3. ASSUME NEW g PROVE Adds(g) <=> IsSum(f, R, g)
  <2>1. ASSUME NEW s \in SUBSET R
        PROVE  Step(f, g, s) = IF s = {} THEN 0
                 ELSE (CHOOSE x \in s : TRUE).stars + g[s \ {CHOOSE x \in s : TRUE}]
    <3>1. CASE s = {}
      BY <3>1 DEF Step
    <3>2. CASE s # {}
      <4>1. Pick(s) \in R
        BY <3>2, PickIsIn
      <4>2. f[Pick(s)] = Pick(s).stars
        BY <4>1 DEF StarsOf
      <4> QED BY <3>2, <4>2 DEF Step, Pick
    <3> QED BY <3>1, <3>2
  <2> QED BY <2>1 DEF IsSum
<1> HIDE DEF f
<1>4. PICK g : IsSum(f, R, g)
  BY <1>2, SumExists
<1>5. Adds(it)
  <2>1. Adds(g)
    BY <1>3, <1>4
  <2> HIDE DEF Adds
  <2> QED BY <2>1
<1> HIDE DEF it, Adds
<1>6. IsSum(f, R, it)
  BY <1>3, <1>5
<1>7. Total(f, R) = it[R] /\ Total(f, R) \in Nat
  BY <1>2, <1>6, TotalIs
<1> QED BY <1>1, <1>2, <1>7 DEF f, R

HaveStars(rows) == \A r \in rows : r.stars \in Nat

\* A new reward adds its stars to its source and day.
LEMMA EarnedAdds ==
  ASSUME NEW rows, IsFiniteSet(rows), NEW r, r \notin rows, HaveStars(rows \cup {r}),
         NEW source, NEW date
  PROVE  IF r.source = source /\ r.date = date
         THEN Earned(rows \cup {r}, source, date) = Earned(rows, source, date) + r.stars
         ELSE Earned(rows \cup {r}, source, date) = Earned(rows, source, date)
<1> DEFINE R == Rows(rows, source, date)
           S == Rows(rows \cup {r}, source, date)
<1>1. IsFiniteSet(rows \cup {r})
  BY FS_AddElement
<1>2. IsFiniteSet(R) /\ StarsOf(R) \in [R -> Nat]
      /\ Earned(rows, source, date) = Total(StarsOf(R), R)
      /\ Earned(rows, source, date) \in Nat
  BY EarnedIs DEF Rows, HaveStars
<1>3. IsFiniteSet(S) /\ StarsOf(S) \in [S -> Nat]
      /\ Earned(rows \cup {r}, source, date) = Total(StarsOf(S), S)
  <2>1. \A q \in S : q.stars \in Nat
    BY DEF Rows, HaveStars
  <2> HIDE DEF S
  <2>2. S = Rows(rows \cup {r}, source, date)
    BY DEF S
  <2> QED BY <1>1, <2>1, <2>2, EarnedIs
<1>4. CASE r.source = source /\ r.date = date
  <2>1. S = R \cup {r} /\ r \notin R
    BY <1>4 DEF Rows
  <2>2. StarsOf(S)[r] = r.stars /\ \A y \in R : StarsOf(R)[y] = StarsOf(S)[y]
    BY <2>1 DEF StarsOf
  <2> HIDE DEF R, S
  <2>3. PICK f \in [R \cup {r} -> Nat] : f = StarsOf(S)
    BY <1>3, <2>1
  <2>4. PICK e \in [R -> Nat] : e = StarsOf(R)
    BY <1>2
  <2>5. \A y \in R : e[y] = f[y]
    BY <2>2, <2>3, <2>4
  <2>6. IsFiniteSet(R) /\ r \notin R
    BY <1>2, <2>1
  <2>7. Total(f, R \cup {r}) = Total(e, R) + f[r]
    BY <2>5, <2>6, TotalAdds
  <2> QED BY <1>2, <1>3, <1>4, <2>1, <2>2, <2>3, <2>4, <2>7
<1>5. CASE ~(r.source = source /\ r.date = date)
  <2>1. S = R
    BY <1>5 DEF Rows
  <2> QED BY <1>2, <1>3, <1>5, <2>1
<1> QED BY <1>4, <1>5

-----------------------------------------------------------------------------
(* What the answers of a day are worth.                                    *)

Counted(ss, versions, date) ==
  {k \in Keys(ss) : ss[k[1]].version \in versions /\ At(ss, k).date = date}
Worths(ss, K) == [k \in K |-> At(ss, k).stars]

LEMMA MathTotalIs ==
  ASSUME NEW ss, NEW versions, NEW date, IsFiniteSet(Keys(ss)),
         \A k \in Keys(ss) : At(ss, k).stars \in Nat
  PROVE  /\ IsFiniteSet(Counted(ss, versions, date))
         /\ Worths(ss, Counted(ss, versions, date)) \in [Counted(ss, versions, date) -> Nat]
         /\ MathTotal(ss, versions, date)
              = Total(Worths(ss, Counted(ss, versions, date)), Counted(ss, versions, date))
         /\ MathTotal(ss, versions, date) \in Nat
<1> DEFINE R == Counted(ss, versions, date)
           f == Worths(ss, R)
           Adds(g) == g = [s \in SUBSET R |-> IF s = {} THEN 0
                ELSE At(ss, CHOOSE x \in s : TRUE).stars + g[s \ {CHOOSE x \in s : TRUE}]]
           it == CHOOSE g : Adds(g)
<1>1. MathTotal(ss, versions, date) = it[R]
  BY Zenon DEF MathTotal, MapThenSumSet, MapThenFoldSet, Counted
<1>2. IsFiniteSet(R) /\ f \in [R -> Nat]
  BY FS_Subset DEF Counted, Worths
<1> HIDE DEF R
<1>3. ASSUME NEW g PROVE Adds(g) <=> IsSum(f, R, g)
  <2>1. ASSUME NEW s \in SUBSET R
        PROVE  Step(f, g, s) = IF s = {} THEN 0
                 ELSE At(ss, CHOOSE x \in s : TRUE).stars + g[s \ {CHOOSE x \in s : TRUE}]
    <3>1. CASE s = {}
      BY <3>1 DEF Step
    <3>2. CASE s # {}
      <4>1. Pick(s) \in R
        BY <3>2, PickIsIn
      <4>2. f[Pick(s)] = At(ss, Pick(s)).stars
        BY <4>1 DEF Worths
      <4> QED BY <3>2, <4>2 DEF Step, Pick
    <3> QED BY <3>1, <3>2
  <2> QED BY <2>1 DEF IsSum
<1> HIDE DEF f
<1>4. PICK g : IsSum(f, R, g)
  BY <1>2, SumExists
<1>5. Adds(it)
  <2>1. Adds(g)
    BY <1>3, <1>4
  <2> HIDE DEF Adds
  <2> QED BY <2>1
<1> HIDE DEF it, Adds
<1>6. IsSum(f, R, it)
  BY <1>3, <1>5
<1>7. Total(f, R) = it[R] /\ Total(f, R) \in Nat
  BY <1>2, <1>6, TotalIs
<1> QED BY <1>1, <1>2, <1>7 DEF f, R

\* Lessons with the same answers have the same totals.
LEMMA MathTotalStays ==
  ASSUME NEW ss, NEW tt, IsFiniteSet(Keys(ss)), Keys(tt) = Keys(ss),
         \A k \in Keys(ss) : /\ At(ss, k).stars \in Nat /\ At(tt, k) = At(ss, k)
                             /\ tt[k[1]].version = ss[k[1]].version,
         NEW versions, NEW date
  PROVE  MathTotal(tt, versions, date) = MathTotal(ss, versions, date)
<1> DEFINE R == Counted(ss, versions, date)
<1>1. Counted(tt, versions, date) = R
  BY DEF Counted
<1>2. Worths(tt, R) = Worths(ss, R)
  BY DEF Worths, Counted
<1>3. MathTotal(ss, versions, date) = Total(Worths(ss, R), R)
  BY MathTotalIs
<1>4. MathTotal(tt, versions, date) = Total(Worths(tt, R), R)
  BY <1>1, MathTotalIs
<1> QED BY <1>2, <1>3, <1>4

\* The lessons with one more answer.
OneMore(ss, tt, x) ==
  /\ IsFiniteSet(Keys(ss)) /\ x \notin Keys(ss) /\ Keys(tt) = Keys(ss) \cup {x}
  /\ \A k \in Keys(ss) : At(tt, k) = At(ss, k) /\ tt[k[1]].version = ss[k[1]].version
  /\ \A k \in Keys(tt) : At(tt, k).stars \in Nat

\* A new answer adds its stars to its version and day.
LEMMA MathTotalAdds ==
  ASSUME NEW ss, NEW tt, NEW x, OneMore(ss, tt, x), NEW versions, NEW date
  PROVE  MathTotal(tt, versions, date) = MathTotal(ss, versions, date)
           + (IF tt[x[1]].version \in versions /\ At(tt, x).date = date THEN At(tt, x).stars ELSE 0)
<1> DEFINE R == Counted(ss, versions, date)
           S == Counted(tt, versions, date)
<1>1. IsFiniteSet(Keys(ss)) /\ \A k \in Keys(ss) : At(ss, k).stars \in Nat
  BY DEF OneMore
<1>6. IsFiniteSet(Keys(tt)) /\ \A k \in Keys(tt) : At(tt, k).stars \in Nat
  BY FS_AddElement DEF OneMore
<1>2. IsFiniteSet(R) /\ Worths(ss, R) \in [R -> Nat]
      /\ MathTotal(ss, versions, date) = Total(Worths(ss, R), R)
      /\ MathTotal(ss, versions, date) \in Nat
  BY <1>1, MathTotalIs
<1>3. IsFiniteSet(S) /\ Worths(tt, S) \in [S -> Nat]
      /\ MathTotal(tt, versions, date) = Total(Worths(tt, S), S)
  BY <1>6, MathTotalIs
<1>4. CASE tt[x[1]].version \in versions /\ At(tt, x).date = date
  <2>1. S = R \cup {x} /\ x \notin R
    BY <1>4 DEF Counted, OneMore
  <2>2. Worths(tt, S)[x] = At(tt, x).stars /\ \A y \in R : Worths(ss, R)[y] = Worths(tt, S)[y]
    BY <2>1 DEF Worths, Counted, OneMore
  <2> HIDE DEF R, S
  <2>3. MathTotal(tt, versions, date) = MathTotal(ss, versions, date) + At(tt, x).stars
    BY <1>2, <1>3, <2>1, <2>2, TotalAddsTo
  <2> QED BY <1>4, <2>3
<1>5. CASE ~(tt[x[1]].version \in versions /\ At(tt, x).date = date)
  <2>1. S = R
    BY <1>5 DEF Counted, OneMore
  <2>2. Worths(tt, R) = Worths(ss, R)
    BY DEF Worths, Counted, OneMore
  <2> QED BY <1>2, <1>3, <1>5, <2>1, <2>2
<1> QED BY <1>4, <1>5

-----------------------------------------------------------------------------
(* Answers and the ledger.                                                 *)

\* The lessons and the ledger that an import accepts, with their kinds.
Answers == [Lessons -> Session]
TypedTables(ss, rows) == ss \in Answers /\ rows \in SUBSET Reward /\ IsFiniteSet(rows)

LEMMA KeysAreFinite ==
  ASSUME NEW ss
  PROVE  IsFiniteSet(Keys(ss))
<1>1. IsFiniteSet(Lessons) /\ IsFiniteSet(1 .. Questions)
  BY LearningAssumption, FS_Interval
<1>2. IsFiniteSet(Lessons \X (1 .. Questions))
  BY <1>1, FS_Product
<1>3. Keys(ss) \subseteq Lessons \X (1 .. Questions)
  BY DEF Keys
<1> QED BY <1>2, <1>3, FS_Subset

LEMMA AnswersAreTyped ==
  ASSUME NEW ss \in Answers, NEW k \in Keys(ss)
  PROVE  k[1] \in Lessons /\ k[2] \in 1 .. Questions /\ k = <<k[1], k[2]>>
         /\ At(ss, k) \in Answer /\ At(ss, k).stars \in Nat /\ At(ss, k).date \in Days
<1>1. k[1] \in Lessons /\ k[2] \in 1 .. Questions /\ k[2] <= Len(ss[k[1]].answers)
      /\ k = <<k[1], k[2]>>
  BY DEF Keys
<1>2. PICK s \in Session : s = ss[k[1]]
  BY <1>1 DEF Answers
<1>3. PICK a \in Seq(Answer) : a = s.answers
  BY <1>2 DEF Session
<1>4. k[2] \in 1 .. Len(a)
  BY <1>1, <1>2, <1>3, LearningAssumption
<1>5. At(ss, k) \in Answer
  BY <1>2, <1>3, <1>4 DEF At
<1> QED BY <1>1, <1>5 DEF Answer

LEMMA RewardsAreTyped ==
  ASSUME NEW rows \in SUBSET Reward
  PROVE  \A r \in rows : r.stars \in Nat
BY DEF Reward

\* Every row of the ledger has its answer and every paid answer its row: what the
\* answers of a day are worth is no more than the ledger says.
LEMMA MathBelowEarned ==
  ASSUME NEW ss, NEW rows, TypedTables(ss, rows), RewardsValid(ss, rows),
         NEW versions, NEW date
  PROVE  MathTotal(ss, versions, date) <= Earned(rows, "math", date)
         /\ MathTotal(ss, versions, date) \in Nat /\ Earned(rows, "math", date) \in Nat
<1> DEFINE S == Counted(ss, versions, date)
           R == Rows(rows, "math", date)
           m == [k \in S |-> CHOOSE r \in R : r.key = k]
<1>1. IsFiniteSet(S) /\ Worths(ss, S) \in [S -> Nat]
      /\ MathTotal(ss, versions, date) = Total(Worths(ss, S), S)
      /\ MathTotal(ss, versions, date) \in Nat
  BY KeysAreFinite, AnswersAreTyped, MathTotalIs DEF TypedTables
<1>2. IsFiniteSet(R) /\ StarsOf(R) \in [R -> Nat]
      /\ Earned(rows, "math", date) = Total(StarsOf(R), R)
      /\ Earned(rows, "math", date) \in Nat
  <2>1. IsFiniteSet(rows) /\ \A r \in Rows(rows, "math", date) : r.stars \in Nat
    BY RewardsAreTyped DEF TypedTables, Rows
  <2> QED BY <2>1, EarnedIs
<1>3. ASSUME NEW k \in S, Worths(ss, S)[k] # 0
      PROVE  m[k] \in R /\ m[k].key = k /\ StarsOf(R)[m[k]] = Worths(ss, S)[k]
  <2>1. k \in Keys(ss) /\ At(ss, k).stars \in Nat /\ At(ss, k).stars # 0 /\ At(ss, k).date = date
    BY <1>3, AnswersAreTyped DEF Counted, Worths, TypedTables
  <2>2. \E r \in rows : r.source = "math" /\ r.key = k
    BY <2>1 DEF RewardsValid
  <2>3. PICK r \in rows : r.source = "math" /\ r.key = k
    BY <2>2
  <2>4. r.stars = At(ss, k).stars /\ r.date = date
    BY <2>1, <2>3 DEF RewardsValid
  <2>5. r \in R
    BY <2>3, <2>4 DEF Rows
  <2>6. m[k] \in R /\ m[k].key = k
    BY <2>3, <2>5
  <2>7. m[k] \in rows /\ m[k].source = "math"
    BY <2>6 DEF Rows
  <2>8. m[k] = r
    BY <2>3, <2>6, <2>7 DEF RewardsValid
  <2> HIDE DEF m
  <2> QED BY <2>4, <2>6, <2>8 DEF StarsOf, Worths
<1> HIDE DEF m, S, R
<1>4. Total(Worths(ss, S), S) <= Total(StarsOf(R), R)
  <2>1. PICK f \in [S -> Nat] : f = Worths(ss, S)
    BY <1>1
  <2>2. PICK e \in [R -> Nat] : e = StarsOf(R)
    BY <1>2
  <2>3. \A k \in S : f[k] # 0 => m[k] \in R /\ e[m[k]] = f[k]
    BY <1>3, <2>1, <2>2
  <2>4. \A j, k \in S : f[j] # 0 /\ f[k] # 0 /\ m[j] = m[k] => j = k
    BY <1>3, <2>1
  <2>5. Total(f, S) <= Total(e, R)
    BY <1>1, <1>2, <2>3, <2>4, TotalMaps
  <2> QED BY <2>1, <2>2, <2>5
<1> QED BY <1>1, <1>2, <1>4

\* Fewer versions are worth no more.
LEMMA FewerVersions ==
  ASSUME NEW ss \in Answers, NEW U, NEW versions \in SUBSET U, NEW date
  PROVE  MathTotal(ss, versions, date) <= MathTotal(ss, U, date)
<1> DEFINE S == Counted(ss, versions, date)
           R == Counted(ss, U, date)
           m == [k \in S |-> k]
<1>1. IsFiniteSet(S) /\ Worths(ss, S) \in [S -> Nat]
      /\ MathTotal(ss, versions, date) = Total(Worths(ss, S), S)
  BY KeysAreFinite, AnswersAreTyped, MathTotalIs
<1>2. IsFiniteSet(R) /\ Worths(ss, R) \in [R -> Nat]
      /\ MathTotal(ss, U, date) = Total(Worths(ss, R), R)
  BY KeysAreFinite, AnswersAreTyped, MathTotalIs
<1>3. \A k \in S : k \in R /\ Worths(ss, R)[k] = Worths(ss, S)[k]
  BY DEF Counted, Worths
<1> HIDE DEF S, R
<1>4. Total(Worths(ss, S), S) <= Total(Worths(ss, R), R)
  <2>1. PICK f \in [S -> Nat] : f = Worths(ss, S)
    BY <1>1
  <2>2. PICK e \in [R -> Nat] : e = Worths(ss, R)
    BY <1>2
  <2>3. \A k \in S : f[k] # 0 => m[k] \in R /\ e[m[k]] = f[k]
    BY <1>3, <2>1, <2>2
  <2>4. \A j, k \in S : f[j] # 0 /\ f[k] # 0 /\ m[j] = m[k] => j = k
    OBVIOUS
  <2> HIDE DEF m
  <2>5. Total(f, S) <= Total(e, R)
    BY <1>1, <1>2, <2>3, <2>4, TotalMaps
  <2> QED BY <2>1, <2>2, <2>5
<1> QED BY <1>1, <1>2, <1>4

-----------------------------------------------------------------------------
(* What is written is accepted again.                                      *)

Accepted(ss, rows) == /\ OneOpen(ss) /\ AnswersValid(ss)
                      /\ RewardsValid(ss, rows) /\ BudgetsValid(ss, rows)

LEMMA AcceptsIs ==
  ASSUME NEW b
  PROVE  Accepts(b) <=> Accepted(b.sessions, b.ledger)
BY DEF Accepts, Accepted

\* The same answers, in lessons that are closed or new.
SameAnswers(ss, tt) ==
  /\ Keys(tt) = Keys(ss)
  /\ \A k \in Keys(ss) : At(tt, k) = At(ss, k) /\ tt[k[1]].version = ss[k[1]].version

LEMMA SameAnswersAccepted ==
  ASSUME NEW ss, NEW tt, NEW rows, TypedTables(ss, rows), Accepted(ss, rows),
         SameAnswers(ss, tt), OneOpen(tt)
  PROVE  Accepted(tt, rows)
<1>1. AnswersValid(tt)
  BY DEF AnswersValid, Accepted, SameAnswers
<1>2. RewardsValid(tt, rows)
  <2>1. RewardsValid(ss, rows)
    BY DEF Accepted
  <2>2. \A r \in rows : r.source = "math" => r.key \in Keys(ss) /\ At(tt, r.key) = At(ss, r.key)
    BY <2>1 DEF RewardsValid, SameAnswers
  <2> QED BY <2>1, <2>2 DEF RewardsValid, SameAnswers
<1>3. ASSUME NEW versions, NEW d
      PROVE  MathTotal(tt, versions, d) = MathTotal(ss, versions, d)
  <2>1. IsFiniteSet(Keys(ss)) /\ \A k \in Keys(ss) : At(ss, k).stars \in Nat
    BY KeysAreFinite, AnswersAreTyped DEF TypedTables
  <2> QED BY <2>1, MathTotalStays DEF SameAnswers
<1>4. BudgetsValid(tt, rows)
  BY <1>3 DEF BudgetsValid, Accepted
<1> QED BY <1>1, <1>2, <1>4 DEF Accepted

\* Budgets of an answer and a reading.
LEMMA WhatIsAwarded ==
  ASSUME NEW s, s.version \in Versions, NEW full \in Nat, NEW earned \in Nat
  PROVE  /\ Awarded(s, full, earned) \in Nat /\ Awarded(s, full, earned) <= full
         /\ s.version = 0 => Awarded(s, full, earned) = full
         /\ s.version = 3 /\ Awarded(s, full, earned) # 0 =>
              earned + Awarded(s, full, earned) <= MathLimit
         /\ s.version = 2 /\ Awarded(s, full, earned) # 0 =>
              earned + Awarded(s, full, earned) <= PreviousMathLimit
<1>1. MathLimit \in Nat /\ PreviousMathLimit \in Nat
  BY LearningAssumption
<1>2. CASE s.version = 3
  BY <1>1, <1>2 DEF Awarded, AtMost, Left
<1>3. CASE s.version = 2
  BY <1>1, <1>3 DEF Awarded, AtMost, Left
<1>4. CASE s.version = 0
  BY <1>4 DEF Awarded
<1> QED BY <1>2, <1>3, <1>4 DEF Versions

\* The lesson l with one more answer a.
Answering(ss, l, a) == [ss EXCEPT ![l] = [ss[l] EXCEPT !.answers = Append(ss[l].answers, a)]]

LEMMA AnsweringAdds ==
  ASSUME NEW ss \in Answers, NEW l \in Lessons, NEW a \in Answer,
         Len(ss[l].answers) + 1 \in 1 .. Questions
  PROVE  /\ Answering(ss, l, a) \in Answers
         /\ OneMore(ss, Answering(ss, l, a), <<l, Len(ss[l].answers) + 1>>)
         /\ At(Answering(ss, l, a), <<l, Len(ss[l].answers) + 1>>) = a
         /\ \A m \in Lessons : /\ Answering(ss, l, a)[m].version = ss[m].version
                               /\ Open(Answering(ss, l, a)[m]) => Open(ss[m])
<1> DEFINE tt == Answering(ss, l, a)
           x == <<l, Len(ss[l].answers) + 1>>
<1>1. PICK s \in Session : s = ss[l]
  BY DEF Answers
<1>2. PICK q \in Seq(Answer) : q = s.answers
  BY DEF Session
<1>3. Append(q, a) \in Seq(Answer) /\ Len(Append(q, a)) = Len(q) + 1 /\ Len(q) \in Nat
      /\ Append(q, a)[Len(q) + 1] = a /\ \A i \in 1 .. Len(q) : Append(q, a)[i] = q[i]
  OBVIOUS
<1>4. PICK n \in Session : /\ n = [s EXCEPT !.answers = Append(q, a)] /\ n.answers = Append(q, a)
                           /\ n.version = s.version /\ n.saved = s.saved /\ n.closed = s.closed
  <2> DEFINE n == [s EXCEPT !.answers = Append(q, a)]
  <2>1. PICK z \in Seq(Answer) : z = Append(q, a)
    BY <1>3
  <2>2. [s EXCEPT !.answers = z] \in Session /\ [s EXCEPT !.answers = z].answers = z
        /\ [s EXCEPT !.answers = z].version = s.version
        /\ [s EXCEPT !.answers = z].saved = s.saved
        /\ [s EXCEPT !.answers = z].closed = s.closed
    BY DEF Session
  <2> QED BY <2>1, <2>2
<1>5. tt = [ss EXCEPT ![l] = n]
  <2>1. tt = [ss EXCEPT ![l] = [ss[l] EXCEPT !.answers = Append(ss[l].answers, a)]]
    BY DEF Answering
  <2>2. [ss[l] EXCEPT !.answers = Append(ss[l].answers, a)] = n
    BY <1>1, <1>2, <1>4, Zenon
  <2> QED BY <2>1, <2>2, Zenon
<1> HIDE DEF tt
<1>6. tt \in Answers /\ tt[l] = n /\ \A m \in Lessons \ {l} : tt[m] = ss[m]
  BY <1>5 DEF Answers
<1>7. x = <<l, Len(q) + 1>> /\ x[1] = l /\ x[2] = Len(q) + 1
  BY <1>1, <1>2
<1> HIDE DEF x
<1>8. At(tt, x) = a
  BY <1>3, <1>4, <1>6, <1>7 DEF At
<1>9. x \notin Keys(ss)
  BY <1>1, <1>2, <1>3, <1>7 DEF Keys
<1>10. Keys(tt) = Keys(ss) \cup {x}
  <2>1. ASSUME NEW k \in Lessons \X (1 .. Questions)
        PROVE  k[2] <= Len(tt[k[1]].answers) <=> k[2] <= Len(ss[k[1]].answers) \/ k = x
    <3>1. CASE k[1] = l
      <4>1. k = <<l, k[2]>> /\ k[2] \in Nat
        BY <3>1
      <4>2. k = x <=> k[2] = Len(q) + 1
        BY <1>7, <4>1
      <4>3. ss[k[1]].answers = q /\ tt[k[1]].answers = Append(q, a)
        BY <1>1, <1>2, <1>4, <1>6, <3>1
      <4> QED BY <1>3, <4>1, <4>2, <4>3
    <3>2. CASE k[1] # l
      BY <1>6, <1>7, <3>2
    <3> QED BY <3>1, <3>2
  <2>2. x \in Lessons \X (1 .. Questions)
    BY <1>1, <1>2, <1>7
  <2> QED BY <2>1, <2>2 DEF Keys
<1>11. ASSUME NEW k \in Keys(ss) PROVE At(tt, k) = At(ss, k)
  <2>1. k[1] \in Lessons /\ k[2] \in 1 .. Questions /\ k[2] <= Len(ss[k[1]].answers)
    BY DEF Keys
  <2>2. CASE k[1] = l
    <3>1. k[2] \in 1 .. Len(q)
      BY <1>1, <1>2, <1>3, <2>1, <2>2, LearningAssumption
    <3>2. ss[k[1]].answers = q /\ tt[k[1]].answers = Append(q, a)
      BY <1>1, <1>2, <1>4, <1>6, <2>2
    <3>3. Append(q, a)[k[2]] = q[k[2]]
      BY <1>3, <3>1
    <3> QED BY <3>2, <3>3 DEF At
  <2>3. CASE k[1] # l
    BY <1>6, <2>1, <2>3 DEF At
  <2> QED BY <2>2, <2>3
<1>12. \A m \in Lessons : tt[m].version = ss[m].version
  BY <1>1, <1>4, <1>6
<1>13. \A m \in Lessons : Open(tt[m]) => Open(ss[m])
  <2>1. Open(tt[l]) => Open(ss[l])
    BY <1>1, <1>2, <1>3, <1>4, <1>6, LearningAssumption DEF Open
  <2> QED BY <2>1, <1>6
<1>14. OneMore(ss, tt, x)
  <2>1. \A k \in Keys(ss) : k[1] \in Lessons
    BY DEF Keys
  <2>2. \A k \in Keys(tt) : At(tt, k).stars \in Nat
    BY <1>6, AnswersAreTyped
  <2> QED BY <1>9, <1>10, <1>11, <1>12, <2>1, <2>2, KeysAreFinite DEF OneMore
<1> QED BY <1>6, <1>8, <1>12, <1>13, <1>14 DEF tt, x

MathReward(l, i, a) == [source |-> "math", key |-> <<l, i>>, date |-> a.date, stars |-> a.stars, level |-> 0]
\* The ledger after the answer a, the i-th of lesson l.
Rewarding(rows, l, i, a) == IF a.stars = 0 THEN rows ELSE Insert(rows, MathReward(l, i, a))

\* An answer that AnswerMath may write.
Due(ss, rows, l, a) ==
  /\ TypedTables(ss, rows) /\ Accepted(ss, rows)
  /\ Len(ss[l].answers) + 1 \in 1 .. Questions
  /\ a.stars = Awarded(ss[l], a.full, Earned(rows, "math", a.date))

LEMMA AnswerAccepted ==
  ASSUME NEW ss, NEW rows, NEW l \in Lessons, NEW a \in Answer, Due(ss, rows, l, a)
  PROVE  LET i == Len(ss[l].answers) + 1
         IN /\ TypedTables(Answering(ss, l, a), Rewarding(rows, l, i, a))
            /\ Accepted(Answering(ss, l, a), Rewarding(rows, l, i, a))
            /\ rows \subseteq Rewarding(rows, l, i, a)
<1> DEFINE tt == Answering(ss, l, a)
           i == Len(ss[l].answers) + 1
           x == <<l, i>>
           rr == Rewarding(rows, l, i, a)
           row == MathReward(l, i, a)
           E == Earned(rows, "math", a.date)
<1>0. TypedTables(ss, rows) /\ Accepted(ss, rows)
  BY DEF Due
<1>1. ss \in Answers /\ rows \in SUBSET Reward /\ IsFiniteSet(rows)
  BY <1>0 DEF TypedTables
<1>2. /\ tt \in Answers /\ OneMore(ss, tt, x) /\ At(tt, x) = a /\ i \in 1 .. Questions
      /\ \A m \in Lessons : tt[m].version = ss[m].version /\ (Open(tt[m]) => Open(ss[m]))
  BY <1>1, AnsweringAdds DEF Due
<1>3. ss[l].version \in Versions /\ a.full \in Nat /\ a.stars \in Nat /\ a.date \in Days
  BY <1>1 DEF Answers, Session, Answer
<1>4. E \in Nat
  BY <1>0, MathBelowEarned DEF Accepted
<1>5. /\ a.stars <= a.full /\ (ss[l].version = 0 => a.stars = a.full)
      /\ ss[l].version = 3 /\ a.stars # 0 => E + a.stars <= MathLimit
      /\ ss[l].version = 2 /\ a.stars # 0 => E + a.stars <= PreviousMathLimit
  BY <1>3, <1>4, WhatIsAwarded DEF Due
<1>6. x \notin Keys(ss) /\ Keys(tt) = Keys(ss) \cup {x} /\ x[1] = l
      /\ \A k \in Keys(ss) : At(tt, k) = At(ss, k)
  BY <1>2 DEF OneMore
<1>7. row \in Reward /\ row.source = "math" /\ row.key = x /\ row.date = a.date
      /\ row.stars = a.stars
  BY <1>2, <1>3 DEF MathReward, Reward
<1>8. \A r \in rows : r.source = "math" => r.key \in Keys(ss) /\ r.key # x
  BY <1>0, <1>6 DEF Accepted, RewardsValid
<1>9. rr = (IF a.stars = 0 THEN rows ELSE rows \cup {row}) /\ row \notin rows
  BY <1>7, <1>8 DEF Rewarding, Insert
<1>10. TypedTables(tt, rr) /\ rows \subseteq rr
  BY <1>1, <1>2, <1>7, <1>9, FS_AddElement DEF TypedTables
<1> HIDE DEF tt, i, x, rr, row, E
<1>11. OneOpen(tt)
  BY <1>0, <1>2 DEF OneOpen, Accepted
<1>12. AnswersValid(tt)
  <2>1. ASSUME NEW k \in Keys(ss)
        PROVE  At(tt, k) = At(ss, k) /\ tt[k[1]].version = ss[k[1]].version
    BY <1>1, <1>2, <1>6, AnswersAreTyped
  <2>2. At(tt, x) = a /\ tt[x[1]].version = ss[l].version
    BY <1>2, <1>6
  <2> QED BY <1>0, <1>5, <1>6, <2>1, <2>2 DEF AnswersValid, Accepted
<1>13. RewardsValid(tt, rr)
  <2>1. \A r, q \in rr : r.source = q.source /\ r.key = q.key => r = q
    BY <1>0, <1>7, <1>8, <1>9 DEF Accepted, RewardsValid
  <2>2. ASSUME NEW r \in rr
        PROVE  IF r.source = "math"
               THEN /\ r.key \in Keys(tt) /\ At(tt, r.key).full > 0
                    /\ r.stars = At(tt, r.key).stars /\ r.date = At(tt, r.key).date
               ELSE r.level \in Levels /\ r.stars <= r.level
    <3>1. CASE r \in rows
      BY <1>0, <1>6, <3>1 DEF Accepted, RewardsValid
    <3>2. CASE r = row /\ a.stars # 0
      <4>1. a.full > 0
        BY <1>3, <1>5, <3>2
      <4> QED BY <1>2, <1>6, <1>7, <3>2, <4>1
    <3> QED BY <1>9, <3>1, <3>2
  <2>3. ASSUME NEW k \in Keys(tt), At(tt, k).stars > 0
        PROVE  \E r \in rr : r.source = "math" /\ r.key = k
    <3>1. CASE k \in Keys(ss)
      BY <1>0, <1>6, <1>10, <2>3, <3>1 DEF Accepted, RewardsValid
    <3>2. CASE k = x
      BY <1>2, <1>7, <1>9, <2>3, <3>2
    <3> QED BY <1>6, <3>1, <3>2
  <2> QED BY <2>1, <2>2, <2>3 DEF RewardsValid
<1>14. BudgetsValid(tt, rr)
  <2> SUFFICES ASSUME NEW d \in Days
               PROVE  /\ MathTotal(tt, {2}, d) <= PreviousMathLimit
                      /\ MathTotal(tt, {2, 3}, d) <= MathLimit
                      /\ Earned(rr, "reading", d) <= ReadingLimit
    BY DEF BudgetsValid
  <2>1. /\ MathTotal(ss, {2}, d) <= PreviousMathLimit
        /\ MathTotal(ss, {2, 3}, d) <= MathLimit
        /\ Earned(rows, "reading", d) <= ReadingLimit
    BY <1>0 DEF Accepted, BudgetsValid
  <2>2. Earned(rr, "reading", d) = Earned(rows, "reading", d)
    <3>1. CASE a.stars = 0
      BY <1>9, <3>1
    <3>2. CASE a.stars # 0
      <4>1. HaveStars(rows \cup {row})
        BY <1>1, <1>3, <1>7, RewardsAreTyped DEF HaveStars
      <4>2. IsFiniteSet(rows) /\ \A r \in Rows(rows, "reading", d) : r.stars \in Nat
        BY <1>1, RewardsAreTyped DEF Rows
      <4>3. Earned(rows, "reading", d) \in Nat
        BY <4>2, EarnedIs
      <4>4. Earned(rows \cup {row}, "reading", d) = Earned(rows, "reading", d)
        <5>1. IsFiniteSet(rows) /\ row \notin rows /\ row.source # "reading"
          BY <1>1, <1>7, <1>9
        <5> QED BY <4>1, <5>1, EarnedAdds
      <4> QED BY <1>7, <1>9, <3>2, <4>3, <4>4
    <3> QED BY <3>1, <3>2
  <2>3. ASSUME NEW versions
        PROVE  MathTotal(tt, versions, d) = MathTotal(ss, versions, d)
                 + (IF ss[l].version \in versions /\ a.date = d THEN a.stars ELSE 0)
    BY <1>2, <1>6, MathTotalAdds
  <2>4. ASSUME NEW versions
        PROVE  MathTotal(ss, versions, d) <= Earned(rows, "math", d)
               /\ MathTotal(ss, versions, d) \in Nat
    BY <1>0, MathBelowEarned DEF Accepted
  <2>5. Earned(rows, "math", d) \in Nat /\ (a.date = d => Earned(rows, "math", d) = E)
    BY <1>0, MathBelowEarned DEF Accepted, E
  <2>6. MathLimit \in Nat /\ PreviousMathLimit \in Nat /\ PreviousMathLimit <= MathLimit
    BY LearningAssumption
  <2>7. MathTotal(tt, {2}, d) <= PreviousMathLimit
    <3>1. CASE ss[l].version = 2 /\ a.date = d /\ a.stars # 0
      BY <1>3, <1>5, <2>3, <2>4, <2>5, <2>6, <3>1
    <3>2. CASE ~(ss[l].version = 2 /\ a.date = d /\ a.stars # 0)
      BY <1>3, <2>1, <2>3, <2>4, <3>2
    <3> QED BY <3>1, <3>2
  <2>8. MathTotal(tt, {2, 3}, d) <= MathLimit
    <3>1. CASE ss[l].version \in {2, 3} /\ a.date = d /\ a.stars # 0
      BY <1>3, <1>5, <2>3, <2>4, <2>5, <2>6, <3>1
    <3>2. CASE ~(ss[l].version \in {2, 3} /\ a.date = d /\ a.stars # 0)
      BY <1>3, <2>1, <2>3, <2>4, <3>2
    <3> QED BY <3>1, <3>2
  <2> QED BY <2>1, <2>2, <2>7, <2>8
<1> QED BY <1>0, <1>10, <1>11, <1>12, <1>13, <1>14 DEF Accepted, tt, rr, i

\* A new reward of a reading, within what the day's budget leaves.
LEMMA ReadingAccepted ==
  ASSUME NEW ss, NEW rows, TypedTables(ss, rows), Accepted(ss, rows),
         NEW r \in Reward, r.source = "reading", r.level \in Levels,
         \A q \in rows : ~(q.source = "reading" /\ q.key = r.key),
         r.stars = AtMost(r.level, Left(ReadingLimit, Earned(rows, "reading", r.date)))
  PROVE  TypedTables(ss, rows \cup {r}) /\ Accepted(ss, rows \cup {r})
<1>1. rows \in SUBSET Reward /\ IsFiniteSet(rows) /\ r \notin rows
  BY DEF TypedTables
<1>2. TypedTables(ss, rows \cup {r})
  BY <1>1, FS_AddElement DEF TypedTables
<1>3. \A d : Earned(rows, "reading", d) \in Nat
  <2>1. \A d : \A q \in Rows(rows, "reading", d) : q.stars \in Nat
    BY <1>1, RewardsAreTyped DEF Rows
  <2> QED BY <1>1, <2>1, EarnedIs
<1>4. r.level \in Nat /\ ReadingLimit \in Nat /\ r.stars \in Nat
  BY LearningAssumption DEF Reward
<1>5. r.stars <= r.level
      /\ (r.stars # 0 => Earned(rows, "reading", r.date) + r.stars <= ReadingLimit)
  BY <1>3, <1>4 DEF AtMost, Left
<1>6. RewardsValid(ss, rows \cup {r})
  BY <1>5 DEF RewardsValid, Accepted
<1>7. ASSUME NEW d \in Days PROVE Earned(rows \cup {r}, "reading", d) <= ReadingLimit
  <2>1. HaveStars(rows \cup {r})
    BY <1>1, <1>4, RewardsAreTyped DEF HaveStars
  <2>2. IF r.date = d
        THEN Earned(rows \cup {r}, "reading", d) = Earned(rows, "reading", d) + r.stars
        ELSE Earned(rows \cup {r}, "reading", d) = Earned(rows, "reading", d)
    <3>1. IsFiniteSet(rows) /\ r \notin rows
      BY <1>1
    <3> QED BY <2>1, <3>1, EarnedAdds
  <2>3. Earned(rows, "reading", d) <= ReadingLimit
    BY DEF Accepted, BudgetsValid
  <2>4. CASE r.date = d /\ r.stars # 0
    BY <1>3, <1>4, <1>5, <2>2, <2>4
  <2>5. CASE ~(r.date = d /\ r.stars # 0)
    BY <1>3, <1>4, <2>2, <2>3, <2>5
  <2> QED BY <2>4, <2>5
<1>8. BudgetsValid(ss, rows \cup {r})
  BY <1>7 DEF BudgetsValid, Accepted
<1> QED BY <1>2, <1>6, <1>8 DEF Accepted

-----------------------------------------------------------------------------
(* The invariant.                                                          *)

\* Lessons that were never saved are empty.
UnsavedAreEmpty(ss) == \A l \in Lessons : ~ss[l].saved => ~ss[l].closed /\ ss[l].answers = <<>>

TablesOK == /\ TypedTables(sessions, ledger) /\ Accepted(sessions, ledger)
            /\ UnsavedAreEmpty(sessions)
            /\ starts \in SUBSET Start /\ IsFiniteSet(starts)

Fresh(S) == {s \in S : ~s.old}
\* Starts without their age.
Started(S) == {[id |-> s.id, level |-> s.level] : s \in S}

\* What a transaction read is what there is, but lessons may have been finished
\* and starts may have aged.
SeenStands(q) ==
  /\ q.seen.ledger = ledger
  /\ \A l \in Lessons : sessions[l] = q.seen.sessions[l]
                        \/ sessions[l] = [q.seen.sessions[l] EXCEPT !.closed = TRUE]
  /\ q.op.kind = "answer" => sessions[q.op.lesson] = q.seen.sessions[q.op.lesson]
  /\ Fresh(starts) \subseteq q.seen.starts /\ IsFiniteSet(q.seen.starts)
  /\ Started(starts) = Started(q.seen.starts)

RequestStands(t) ==
  /\ requests[t].pc = "reading" <=> lock = t
  /\ requests[t].pc = "reading" => SeenStands(requests[t])
RequestsOK == \A t \in Tablets : RequestStands(t)

\* Every reward that was reported is in the ledger.
ToldOK == \A r \in Readings : \A q \in told[r] :
            q \in ledger /\ q.source = "reading" /\ q.key = r

BackupsOK == \A b \in backups : TypedTables(b.sessions, b.ledger) /\ UnsavedAreEmpty(b.sessions)

Inv == TypeOK /\ TablesOK /\ RequestsOK /\ ToldOK /\ BackupsOK /\ StartsAreBounded

LEMMA WorthIsNat ==
  ASSUME NEW v \in Versions, NEW s \in MathSettings
  PROVE  Worth(v, s) \in Nat
<1>1. LegacyStars(s) \in Nat /\ LegacyStars(s) >= 1
  BY DEF LegacyStars
<1>2. PreviousStars(s) \in Nat
  <2>1. CASE Columnar(s)
    BY <1>1, <2>1 DEF PreviousStars, MathSettings
  <2>2. CASE ~Columnar(s)
    BY <1>1, <2>2 DEF PreviousStars
  <2> QED BY <2>1, <2>2
<1>3. Stars(s) \in Nat
  BY <1>2 DEF Stars
<1> QED BY <1>1, <1>2, <1>3 DEF Worth, Versions

LEMMA NoSessionIs ==
  /\ NoSession \in Session /\ NoSession.answers = <<>> /\ ~NoSession.saved /\ ~NoSession.closed
  /\ \A v \in Versions, w \in Nat :
       LET s == [NoSession EXCEPT !.saved = TRUE, !.version = v, !.worth = w]
       IN s \in Session /\ s.answers = <<>> /\ s.saved /\ ~s.closed
<1>1. <<>> \in Seq(Answer)
  OBVIOUS
<1> QED BY <1>1 DEF NoSession, Session, Versions

\* Lessons without answers are accepted with an empty ledger.
LEMMA NoAnswersAccepted ==
  ASSUME NEW ss \in Answers, \A l \in Lessons : ss[l].answers = <<>>, OneOpen(ss)
  PROVE  TypedTables(ss, {}) /\ Accepted(ss, {})
<1>1. Keys(ss) = {}
  BY DEF Keys
<1>2. TypedTables(ss, {})
  BY FS_EmptySet DEF TypedTables
<1>3. ASSUME NEW versions, NEW d
      PROVE  MathTotal(ss, versions, d) = 0
  <2>1. Counted(ss, versions, d) = {}
    BY <1>1 DEF Counted
  <2>2. Worths(ss, {}) \in [{} -> Nat]
    BY DEF Worths
  <2>3. IsFiniteSet(Keys(ss)) /\ \A k \in Keys(ss) : At(ss, k).stars \in Nat
    BY <1>1, FS_EmptySet
  <2>4. MathTotal(ss, versions, d) = Total(Worths(ss, {}), {})
    BY <2>1, <2>3, MathTotalIs
  <2> QED BY <2>2, <2>4, TotalOfNothing
<1>4. ASSUME NEW d
      PROVE  Earned({}, "reading", d) = 0
  <2>1. Rows({}, "reading", d) = {}
    BY DEF Rows
  <2>2. StarsOf({}) \in [{} -> Nat]
    BY DEF StarsOf
  <2>3. Earned({}, "reading", d) = Total(StarsOf({}), {})
    BY <2>1, FS_EmptySet, EarnedIs
  <2> QED BY <2>2, <2>3, TotalOfNothing
<1>5. BudgetsValid(ss, {})
  BY <1>3, <1>4, LearningAssumption DEF BudgetsValid
<1> QED BY <1>1, <1>2, <1>5 DEF Accepted, AnswersValid, RewardsValid

LEMMA InitHolds == Init => Inv
<1> SUFFICES ASSUME Init PROVE Inv
  OBVIOUS
<1>1. /\ sessions \in Answers /\ UnsavedAreEmpty(sessions) /\ OneOpen(sessions)
      /\ \A l \in Lessons : sessions[l].answers = <<>>
  <2> DEFINE none == [l \in Lessons |-> NoSession]
  <2>1. CASE sessions = Empty.sessions
    <3>1. sessions = none
      BY <2>1 DEF Empty
    <3> QED BY <3>1, NoSessionIs DEF Answers, UnsavedAreEmpty, OneOpen, Open
  <2>2. CASE \E l \in Lessons, v \in {0, 2}, s \in Settings :
               sessions = [Empty.sessions EXCEPT ![l] =
                 [NoSession EXCEPT !.saved = TRUE, !.version = v, !.worth = Worth(v, s)]]
    <3>1. PICK l \in Lessons, v \in {0, 2}, s \in Settings :
               sessions = [Empty.sessions EXCEPT ![l] =
                 [NoSession EXCEPT !.saved = TRUE, !.version = v, !.worth = Worth(v, s)]]
      BY <2>2
    <3> DEFINE n == [NoSession EXCEPT !.saved = TRUE, !.version = v, !.worth = Worth(v, s)]
    <3>2. Worth(v, s) \in Nat /\ v \in Versions
      BY WorthIsNat, LearningAssumption DEF Versions
    <3>3. n \in Session /\ n.answers = <<>> /\ n.saved /\ ~n.closed
      BY <3>2, NoSessionIs
    <3>4. sessions = [none EXCEPT ![l] = n]
      BY <3>1 DEF Empty
    <3> HIDE DEF n
    <3>5. sessions[l] = n /\ \A m \in Lessons \ {l} : sessions[m] = NoSession
      BY <3>4
    <3>6. sessions \in Answers
      BY <3>3, <3>4, NoSessionIs DEF Answers
    <3> QED BY <3>3, <3>5, <3>6, NoSessionIs DEF UnsavedAreEmpty, OneOpen, Open
  <2> QED BY <2>1, <2>2 DEF Init
<1>2. ledger = {} /\ starts = {} /\ lock = NoTablet /\ requests = [t \in Tablets |-> Idle]
      /\ backups = {} /\ told = [r \in Readings |-> {}] /\ today = 1
  BY DEF Init
<1>3. TablesOK
  BY <1>1, <1>2, NoAnswersAccepted, FS_EmptySet DEF TablesOK
<1>4. TypeOK
  <2>1. today \in Days
    BY <1>2, LearningAssumption DEF Days
  <2>2. Current \in Tables
    BY <1>1, <1>2 DEF Current, Tables, Answers
  <2>3. requests \in [Tablets -> Request]
    BY <1>2 DEF Request
  <2> QED BY <1>2, <2>1, <2>2, <2>3 DEF TypeOK
<1>5. RequestsOK
  BY <1>2, LearningAssumption DEF RequestsOK, RequestStands, Idle
<1>6. ToldOK /\ BackupsOK
  BY <1>2 DEF ToldOK, BackupsOK
<1>7. StartsAreBounded
  BY <1>2, FS_EmptySet, LearningAssumption DEF StartsAreBounded
<1> QED BY <1>3, <1>4, <1>5, <1>6, <1>7 DEF Inv
-----------------------------------------------------------------------------
(* Steps of the tablets.                                                   *)

LEMMA OpKinds ==
  ASSUME NEW op \in Ops
  PROVE  /\ op.kind = "start" => op.worth \in Nat
         /\ op.kind = "answer" =>
              op.lesson \in Lessons /\ op.index \in 1 .. Questions /\ op.right \in BOOLEAN
         /\ op.kind \in {"begin", "complete"} =>
              op.reading \in Readings /\ op.level \in Levels /\ op.level \in Nat
<1>1. \A s \in Settings : Worth(3, s) \in Nat
  BY WorthIsNat, LearningAssumption DEF Versions
<1> QED BY <1>1, LearningAssumption DEF Ops

\* Who reads has the child's row, and nobody else reads.
LEMMA WhatIsRead ==
  ASSUME Inv, NEW t \in Tablets, requests[t].pc = "reading"
  PROVE  /\ lock = t /\ \A u \in Tablets \ {t} : requests[u].pc # "reading"
         /\ requests[t].op \in Ops /\ requests[t].date \in Days /\ requests[t].seen \in Tables
         /\ requests[t].seen.ledger = ledger /\ SeenStands(requests[t])
<1>1. requests[t] \in Request /\ requests[t] # Idle
  BY DEF Inv, TypeOK, Idle
<1>2. requests[t].op \in Ops /\ requests[t].date \in Days /\ requests[t].seen \in Tables
  BY <1>1 DEF Request
<1>3. lock = t /\ SeenStands(requests[t]) /\ \A u \in Tablets \ {t} : requests[u].pc # "reading"
  BY DEF Inv, RequestsOK, RequestStands
<1> QED BY <1>2, <1>3 DEF SeenStands

\* A transaction that ends leaves the row to the next.
LEMMA DoneFrees ==
  ASSUME Inv, NEW t \in Tablets, requests[t].pc = "reading", Done(t)
  PROVE  /\ today' = today /\ backups' = backups /\ lock' = NoTablet
         /\ requests' \in [Tablets -> Request] /\ RequestsOK'
<1>1. lock = t /\ \A u \in Tablets \ {t} : requests[u].pc # "reading"
  BY WhatIsRead
<1>2. requests \in [Tablets -> Request] /\ requests' = [requests EXCEPT ![t] = Idle]
      /\ lock' = NoTablet
  BY <1>1 DEF Done, Inv, TypeOK
<1>3. requests' \in [Tablets -> Request]
  BY <1>2 DEF Request
<1>4. \A u \in Tablets : requests'[u].pc # "reading" /\ u # NoTablet
  BY <1>1, <1>2, LearningAssumption DEF Idle
<1> QED BY <1>2, <1>3, <1>4 DEF Done, RequestsOK, RequestStands

LEMMA TablesAreTyped ==
  ASSUME TablesOK', today' \in Days, lock' \in Tablets \cup {NoTablet},
         requests' \in [Tablets -> Request],
         backups' \in SUBSET [sessions : [Lessons -> Session], ledger : SUBSET Reward],
         told' \in [Readings -> SUBSET Reward]
  PROVE  TypeOK'
<1>1. sessions' \in Answers /\ ledger' \in SUBSET Reward /\ starts' \in SUBSET Start
  BY DEF TablesOK, TypedTables
<1>2. Current' \in Tables
  BY <1>1 DEF Current, Tables, Answers
<1> QED BY <1>2 DEF TypeOK

\* A request that was read and ends: what it wrote is all there is to see.
LEMMA EndIsSafe ==
  ASSUME Inv, NEW t \in Tablets, requests[t].pc = "reading", Done(t), TablesOK',
         told' \in [Readings -> SUBSET Reward], ToldOK', StartsAreBounded'
  PROVE  Inv'
<1>1. /\ today' = today /\ backups' = backups /\ lock' = NoTablet
      /\ requests' \in [Tablets -> Request] /\ RequestsOK'
  BY DoneFrees
<1>2. TypeOK'
  BY <1>1, TablesAreTyped DEF Inv, TypeOK
<1>3. BackupsOK'
  BY <1>1 DEF Inv, BackupsOK
<1> QED BY <1>1, <1>2, <1>3 DEF Inv

LEMMA ArriveIsSafe ==
  ASSUME Inv, NEW t \in Tablets, NEW op \in Ops, Arrive(t, op)
  PROVE  Inv'
<1> DEFINE q == [pc |-> "arrived", op |-> op, date |-> today, seen |-> Empty]
<1>1. requests \in [Tablets -> Request] /\ requests' = [requests EXCEPT ![t] = q]
      /\ requests[t] = Idle
  BY DEF Arrive, Inv, TypeOK
<1>2. Empty \in Tables
  BY NoSessionIs DEF Empty, Tables
<1>3. q \in Request
  BY <1>2 DEF Request, Inv, TypeOK
<1>4. UNCHANGED <<today, sessions, ledger, starts, lock, backups, told>>
  BY DEF Arrive
<1>5. TablesOK' /\ ToldOK' /\ BackupsOK' /\ StartsAreBounded'
  BY <1>4 DEF Inv, TablesOK, ToldOK, BackupsOK, StartsAreBounded
<1>6. requests' \in [Tablets -> Request]
  BY <1>1, <1>3
<1>7. TypeOK'
  BY <1>4, <1>5, <1>6, TablesAreTyped DEF Inv, TypeOK
<1>8. RequestsOK'
  <2>1. lock # t
    BY <1>1 DEF Inv, RequestsOK, RequestStands, Idle
  <2>2. requests'[t].pc = "arrived" /\ \A u \in Tablets \ {t} : requests'[u] = requests[u]
    BY <1>1
  <2>3. ASSUME NEW u \in Tablets \ {t}
        PROVE  RequestStands(u)'
    <3>1. RequestStands(u)
      BY DEF Inv, RequestsOK
    <3> QED BY <1>4, <2>2, <3>1 DEF RequestStands, SeenStands
  <2> QED BY <1>4, <2>1, <2>2, <2>3 DEF RequestsOK, RequestStands
<1> QED BY <1>5, <1>7, <1>8 DEF Inv

LEMMA ReadIsSafe ==
  ASSUME Inv, NEW t \in Tablets, Read(t)
  PROVE  Inv'
<1>1. PICK q \in Request : q = requests[t]
  BY DEF Inv, TypeOK
<1>2. q.pc = "arrived" /\ q \in [pc : {"arrived", "reading"}, op : Ops, date : Days, seen : Tables]
  BY <1>1 DEF Read, Request, Idle
<1>3. PICK n \in Request : n = [q EXCEPT !.pc = "reading", !.seen = Current]
                           /\ n.pc = "reading" /\ n.seen = Current /\ n.op = q.op
  <2>1. Current \in Tables
    BY DEF Inv, TypeOK
  <2> DEFINE n == [q EXCEPT !.pc = "reading", !.seen = Current]
  <2>2. n \in Request /\ n.pc = "reading" /\ n.seen = Current /\ n.op = q.op
    BY <1>2, <2>1 DEF Request
  <2> QED BY <2>2
<1>4. requests' = [requests EXCEPT ![t] = n]
  <2>1. requests' = [requests EXCEPT ![t].pc = "reading", ![t].seen = Current]
    BY DEF Read
  <2>2. requests' = [requests EXCEPT ![t] = [requests[t] EXCEPT !.pc = "reading", !.seen = Current]]
    BY <2>1, Zenon DEF Inv, TypeOK
  <2> QED BY <1>1, <1>3, <2>2, Zenon
<1>5. lock = NoTablet /\ lock' = t /\ UNCHANGED <<today, sessions, ledger, starts, backups, told>>
  BY DEF Read, RowIsFree
<1>6. requests' \in [Tablets -> Request] /\ requests'[t] = n
      /\ \A u \in Tablets \ {t} : requests'[u] = requests[u]
  BY <1>4 DEF Inv, TypeOK
<1>7. TablesOK' /\ ToldOK' /\ BackupsOK' /\ StartsAreBounded'
  BY <1>5 DEF Inv, TablesOK, ToldOK, BackupsOK, StartsAreBounded
<1>8. TypeOK'
  BY <1>5, <1>6, <1>7, TablesAreTyped DEF Inv, TypeOK
<1>9. RequestsOK'
  <2>1. \A u \in Tablets : requests[u].pc # "reading"
    BY <1>5, LearningAssumption DEF Inv, RequestsOK, RequestStands
  <2>2. SeenStands(n)'
    <3>1. n.seen.sessions = sessions /\ n.seen.ledger = ledger /\ n.seen.starts = starts
      BY <1>3 DEF Current
    <3>2. IsFiniteSet(starts)
      BY DEF Inv, TablesOK
    <3> QED BY <1>5, <3>1, <3>2 DEF SeenStands, Fresh
  <2> QED BY <1>3, <1>5, <1>6, <2>1, <2>2 DEF RequestsOK, RequestStands
<1> QED BY <1>7, <1>8, <1>9 DEF Inv

LEMMA RespondIsSafe ==
  ASSUME Inv, NEW t \in Tablets, Respond(t)
  PROVE  Inv'
<1>1. Done(t) /\ UNCHANGED <<sessions, ledger, starts, told>>
  BY DEF Respond
<1>2. TablesOK' /\ ToldOK' /\ StartsAreBounded'
  BY <1>1 DEF Inv, TablesOK, ToldOK, StartsAreBounded
<1>3. CASE requests[t].pc = "reading"
  BY <1>1, <1>2, <1>3, EndIsSafe DEF Inv, TypeOK
<1>4. CASE requests[t].pc # "reading"
  <2>1. lock # t /\ requests \in [Tablets -> Request]
    BY <1>4 DEF Inv, RequestsOK, RequestStands, TypeOK
  <2>2. lock' = lock /\ today' = today /\ backups' = backups
        /\ requests' = [requests EXCEPT ![t] = Idle]
    BY <1>1, <2>1 DEF Done
  <2>3. requests' \in [Tablets -> Request] /\ requests'[t].pc = "idle"
        /\ \A u \in Tablets \ {t} : requests'[u] = requests[u]
    BY <2>1, <2>2 DEF Request, Idle
  <2>4. TypeOK' /\ BackupsOK'
    BY <1>1, <1>2, <2>2, <2>3, TablesAreTyped DEF Inv, TypeOK, BackupsOK
  <2>5. ASSUME NEW u \in Tablets \ {t}
        PROVE  RequestStands(u)'
    <3>1. RequestStands(u)
      BY DEF Inv, RequestsOK
    <3> QED BY <1>1, <2>2, <2>3, <3>1 DEF RequestStands, SeenStands
  <2>6. RequestsOK'
    BY <2>1, <2>2, <2>3, <2>5 DEF RequestsOK, RequestStands
  <2> QED BY <1>2, <2>4, <2>6 DEF Inv
<1> QED BY <1>3, <1>4

LEMMA ToldStays ==
  ASSUME Inv, told' = told, ledger \subseteq ledger'
  PROVE  ToldOK' /\ told' \in [Readings -> SUBSET Reward]
BY DEF Inv, ToldOK, TypeOK

LEMMA StartMathIsSafe ==
  ASSUME Inv, NEW t \in Tablets, StartMath(t)
  PROVE  Inv'
<1>1. requests[t].pc = "reading" /\ Done(t) /\ UNCHANGED <<ledger, starts, told>>
      /\ requests[t].op.kind = "start"
  BY DEF StartMath, Reading
<1>2. SeenStands(requests[t]) /\ requests[t].op.worth \in Nat
  BY <1>1, WhatIsRead, OpKinds
<1>3. PICK l \in Lessons : /\ ~sessions[l].saved
                           /\ sessions' = [sessions EXCEPT ![l] =
                                [NoSession EXCEPT !.saved = TRUE, !.worth = requests[t].op.worth]]
  BY DEF StartMath
<1> DEFINE w == requests[t].op.worth
           n == [NoSession EXCEPT !.saved = TRUE, !.worth = w]
<1>4. n \in Session /\ n.answers = <<>> /\ n.saved /\ ~n.closed
  BY <1>2, NoSessionIs DEF NoSession, Session
<1>5. sessions \in Answers /\ TypedTables(sessions, ledger) /\ Accepted(sessions, ledger)
      /\ UnsavedAreEmpty(sessions)
  BY DEF Inv, TablesOK, TypedTables
<1>6. sessions' = [sessions EXCEPT ![l] = n]
  BY <1>3
<1> HIDE DEF n
<1>7. sessions' \in Answers /\ sessions'[l] = n
      /\ \A m \in Lessons \ {l} : sessions'[m] = sessions[m]
  BY <1>4, <1>5, <1>6 DEF Answers
<1>8. sessions[l].answers = <<>>
  BY <1>3, <1>5 DEF UnsavedAreEmpty
<1>9. ASSUME NEW m \in Lessons PROVE ~Open(sessions[m])
  <2>1. ~Open(requests[t].seen.sessions[m])
    BY DEF StartMath
  <2>2. sessions[m] = requests[t].seen.sessions[m]
        \/ sessions[m] = [requests[t].seen.sessions[m] EXCEPT !.closed = TRUE]
    BY <1>2 DEF SeenStands
  <2>3. PICK s \in Session : s = requests[t].seen.sessions[m]
    BY <1>1, WhatIsRead DEF Tables
  <2>4. ~Open([s EXCEPT !.closed = TRUE])
    BY DEF Open, Session
  <2> QED BY <2>1, <2>2, <2>3, <2>4
<1>10. OneOpen(sessions')
  BY <1>7, <1>9 DEF OneOpen
<1>11. SameAnswers(sessions, sessions')
  <2>1. \A m \in Lessons : sessions'[m].answers = sessions[m].answers
    BY <1>4, <1>7, <1>8
  <2>2. ASSUME NEW k \in Keys(sessions) PROVE k[1] \in Lessons /\ k[1] # l
    BY <1>8 DEF Keys
  <2>3. Keys(sessions') = Keys(sessions)
    BY <2>1 DEF Keys
  <2> QED BY <1>7, <2>2, <2>3 DEF SameAnswers, At
<1>12. Accepted(sessions', ledger')
  BY <1>1, <1>5, <1>10, <1>11, SameAnswersAccepted
<1>13. TablesOK'
  <2>1. TypedTables(sessions', ledger')
    BY <1>1, <1>5, <1>7 DEF TypedTables
  <2>2. UnsavedAreEmpty(sessions')
    BY <1>4, <1>5, <1>7 DEF UnsavedAreEmpty
  <2> QED BY <1>1, <1>12, <2>1, <2>2 DEF TablesOK, Inv
<1>14. StartsAreBounded'
  BY <1>1 DEF Inv, StartsAreBounded
<1> QED BY <1>1, <1>13, <1>14, ToldStays, EndIsSafe

\* What AnswerMath writes, in the words of the lemmas above.
LEMMA AnswerIs ==
  ASSUME Inv, NEW t \in Tablets, AnswerMath(t)
  PROVE  \E l \in Lessons, a \in Answer :
           /\ Due(sessions, ledger, l, a)
           /\ sessions[l].saved /\ ~sessions[l].closed
           /\ sessions' = Answering(sessions, l, a)
           /\ ledger' = Rewarding(ledger, l, Len(sessions[l].answers) + 1, a)
           /\ a.full \in {0, sessions[l].worth} /\ a.date = requests[t].date
<1> DEFINE op == requests[t].op
           seen == requests[t].seen
           s == seen.sessions[op.lesson]
           full == IF op.right THEN s.worth ELSE 0
           stars == Awarded(s, full, Earned(seen.ledger, "math", requests[t].date))
           l == op.lesson
           a == [full |-> full, stars |-> stars, date |-> requests[t].date]
<1>1. requests[t].pc = "reading" /\ op.kind = "answer"
  BY DEF AnswerMath, Reading
<1>2. /\ l \in Lessons /\ op.index \in 1 .. Questions /\ requests[t].date \in Days
      /\ seen \in Tables /\ seen.ledger = ledger /\ op.right \in BOOLEAN
      /\ sessions[l] = s
  BY <1>1, WhatIsRead, OpKinds DEF SeenStands
<1>3. s \in Session /\ s.worth \in Nat /\ s.version \in Versions
  BY <1>2 DEF Tables, Session
<1>4. full \in Nat
  BY <1>3
<1>5. TypedTables(sessions, ledger) /\ Accepted(sessions, ledger)
  BY DEF Inv, TablesOK
<1>6. Earned(ledger, "math", requests[t].date) \in Nat
  BY <1>5, MathBelowEarned DEF Accepted
<1>7. stars \in Nat
  <2> HIDE DEF full, s
  <2> QED BY <1>2, <1>3, <1>4, <1>6, WhatIsAwarded
<1>8. a \in Answer /\ a.full = full /\ a.stars = stars /\ a.date = requests[t].date
  BY <1>2, <1>4, <1>7 DEF Answer
<1>9. /\ s.saved /\ ~s.closed /\ op.index = Len(s.answers) + 1
      /\ sessions' = [sessions EXCEPT ![op.lesson] = [s EXCEPT !.answers = Append(@, a)]]
      /\ ledger' = IF stars = 0 THEN ledger
                   ELSE Insert(ledger, [source |-> "math", key |-> <<op.lesson, op.index>>,
                                        date |-> requests[t].date, stars |-> stars, level |-> 0])
  BY DEF AnswerMath
<1>10. sessions' = Answering(sessions, l, a)
  <2>1. sessions' = [sessions EXCEPT ![l] = [s EXCEPT !.answers = Append(s.answers, a)]]
    BY <1>9
  <2> HIDE DEF a, s, l
  <2> QED BY <1>2, <2>1, Zenon DEF Answering
<1>11. ledger' = Rewarding(ledger, l, Len(sessions[l].answers) + 1, a)
  <2> HIDE DEF stars, full, s, a
  <2> QED BY <1>2, <1>8, <1>9 DEF Rewarding, MathReward
<1>12. Due(sessions, ledger, l, a)
  <2> HIDE DEF full, s
  <2> QED BY <1>2, <1>5, <1>8, <1>9 DEF Due
<1>13. a.full \in {0, sessions[l].worth} /\ a.date = requests[t].date
  BY <1>2, <1>8
<1> HIDE DEF a, l
<1> QED BY <1>2, <1>8, <1>9, <1>10, <1>11, <1>12, <1>13

LEMMA AnswerMathIsSafe ==
  ASSUME Inv, NEW t \in Tablets, AnswerMath(t)
  PROVE  Inv'
<1>1. requests[t].pc = "reading" /\ Done(t) /\ UNCHANGED <<starts, told>>
  BY DEF AnswerMath, Reading
<1>2. PICK l \in Lessons, a \in Answer :
           /\ Due(sessions, ledger, l, a)
           /\ sessions[l].saved /\ ~sessions[l].closed
           /\ sessions' = Answering(sessions, l, a)
           /\ ledger' = Rewarding(ledger, l, Len(sessions[l].answers) + 1, a)
  BY AnswerIs
<1>3. TypedTables(sessions', ledger') /\ Accepted(sessions', ledger') /\ ledger \subseteq ledger'
  BY <1>2, AnswerAccepted
<1>4. UnsavedAreEmpty(sessions')
  <2>1. sessions \in Answers
    BY DEF Inv, TablesOK, TypedTables
  <2>2. \A m \in Lessons \ {l} : sessions'[m] = sessions[m]
    BY <1>2, <2>1 DEF Answering, Answers
  <2>3. PICK s \in Session : s = sessions[l]
    BY <2>1 DEF Answers
  <2>4. sessions'[l] = [s EXCEPT !.answers = Append(s.answers, a)]
    BY <1>2, <2>1, <2>3 DEF Answering, Answers
  <2>5. sessions'[l].saved
    BY <1>2, <2>3, <2>4 DEF Session
  <2> QED BY <2>2, <2>5 DEF UnsavedAreEmpty, Inv, TablesOK
<1>5. TablesOK' /\ StartsAreBounded'
  BY <1>1, <1>3, <1>4 DEF Inv, TablesOK, StartsAreBounded
<1> QED BY <1>1, <1>3, <1>5, ToldStays, EndIsSafe

\* Fresh starts are no more than were counted.
LEMMA BeginReadingIsSafe ==
  ASSUME Inv, NEW t \in Tablets, BeginReading(t)
  PROVE  Inv'
<1> DEFINE op == requests[t].op
           seen == requests[t].seen
           n == [id |-> op.reading, level |-> op.level, old |-> FALSE]
<1>1. requests[t].pc = "reading" /\ Done(t) /\ UNCHANGED <<sessions, ledger, told>>
      /\ op.kind = "begin" /\ Cardinality(Fresh(seen.starts)) < MaxStarts
      /\ starts' = Fresh(starts) \cup {n}
  BY DEF BeginReading, Reading, Fresh
<1>2. op.reading \in Readings /\ op.level \in Levels /\ seen \in Tables
      /\ Fresh(starts) \subseteq seen.starts /\ IsFiniteSet(seen.starts)
  BY <1>1, WhatIsRead, OpKinds DEF SeenStands
<1>3. n \in Start
  BY <1>2 DEF Start
<1>4. starts \in SUBSET Start /\ IsFiniteSet(starts)
  BY DEF Inv, TablesOK
<1>5. Fresh(starts) \subseteq Fresh(seen.starts) /\ Fresh(starts) \subseteq starts
      /\ Fresh(seen.starts) \subseteq seen.starts
  BY <1>2 DEF Fresh
<1> HIDE DEF n, seen
<1>6. IsFiniteSet(Fresh(starts)) /\ IsFiniteSet(Fresh(seen.starts))
  BY <1>2, <1>4, <1>5, FS_Subset
<1>7. Cardinality(Fresh(starts)) <= Cardinality(Fresh(seen.starts))
      /\ Cardinality(Fresh(starts)) \in Nat /\ Cardinality(Fresh(seen.starts)) \in Nat
  BY <1>5, <1>6, FS_Subset, FS_CardinalityType
<1>8. IsFiniteSet(starts') /\ Cardinality(starts') \in Nat
      /\ Cardinality(starts') <= Cardinality(Fresh(starts)) + 1
  <2>1. CASE n \in Fresh(starts)
    <3>1. starts' = Fresh(starts)
      BY <1>1, <2>1
    <3> QED BY <1>6, <1>7, <3>1
  <2>2. CASE n \notin Fresh(starts)
    <3>1. Cardinality(Fresh(starts) \cup {n}) = Cardinality(Fresh(starts)) + 1
          /\ IsFiniteSet(Fresh(starts) \cup {n})
      BY <1>6, <2>2, FS_AddElement
    <3> QED BY <1>1, <1>7, <3>1
  <2> QED BY <2>1, <2>2
<1>9. StartsAreBounded'
  BY <1>1, <1>7, <1>8, LearningAssumption DEF StartsAreBounded
<1>10. starts' \in SUBSET Start
  BY <1>1, <1>3, <1>4, <1>5
<1>11. TablesOK'
  BY <1>1, <1>8, <1>10 DEF Inv, TablesOK
<1> QED BY <1>1, <1>9, <1>11, ToldStays, EndIsSafe

LEMMA FewerStarts ==
  ASSUME Inv, starts' \subseteq starts
  PROVE  IsFiniteSet(starts') /\ starts' \in SUBSET Start /\ StartsAreBounded'
<1>1. IsFiniteSet(starts) /\ starts \in SUBSET Start /\ Cardinality(starts) <= MaxStarts
  BY DEF Inv, TablesOK, StartsAreBounded
<1>2. IsFiniteSet(starts') /\ Cardinality(starts') <= Cardinality(starts)
      /\ Cardinality(starts') \in Nat /\ Cardinality(starts) \in Nat
  BY <1>1, FS_Subset, FS_CardinalityType
<1> QED BY <1>1, <1>2, LearningAssumption DEF StartsAreBounded

\* What CompleteReading writes, in the words of the lemmas above.
LEMMA CompletionIs ==
  ASSUME Inv, NEW t \in Tablets, CompleteReading(t)
  PROVE  \E r \in Reward :
           /\ r.source = "reading" /\ r.key \in Readings
           /\ \A q \in ledger : ~(q.source = "reading" /\ q.key = r.key)
           /\ ledger' = ledger \cup {r}
           /\ TypedTables(sessions, ledger \cup {r}) /\ Accepted(sessions, ledger \cup {r})
           /\ told' = [told EXCEPT ![r.key] = told[r.key] \cup {r}]
           /\ starts' = {s \in starts : s.id # r.key}
           /\ r.level \in Levels /\ r.date = requests[t].date
           /\ r.stars = AtMost(r.level, Left(ReadingLimit, Earned(ledger, "reading", r.date)))
           /\ \E s \in requests[t].seen.starts : s.id = r.key /\ s.level = r.level
<1> DEFINE op == requests[t].op
           seen == requests[t].seen
           E == Earned(seen.ledger, "reading", requests[t].date)
           stars == AtMost(op.level, Left(ReadingLimit, E))
           r == [source |-> "reading", key |-> op.reading, date |-> requests[t].date,
                 level |-> op.level, stars |-> stars]
<1>1. requests[t].pc = "reading" /\ op.kind = "complete" /\ Paid(t) = {}
      /\ ledger' = Insert(ledger, r) /\ starts' = {s \in starts : s.id # op.reading}
      /\ told' = [told EXCEPT ![op.reading] = @ \cup {r}]
      /\ \E s \in seen.starts : s.id = op.reading /\ s.level = op.level
  BY DEF CompleteReading, Reading
<1>2. op.reading \in Readings /\ op.level \in Levels /\ op.level \in Nat
      /\ requests[t].date \in Days /\ seen.ledger = ledger
  BY <1>1, WhatIsRead, OpKinds
<1>3. TypedTables(sessions, ledger) /\ Accepted(sessions, ledger)
  BY DEF Inv, TablesOK
<1>4. E \in Nat
  <2>1. IsFiniteSet(ledger) /\ ledger \in SUBSET Reward
    BY <1>3 DEF TypedTables
  <2>2. \A q \in Rows(ledger, "reading", requests[t].date) : q.stars \in Nat
    BY <2>1, RewardsAreTyped DEF Rows
  <2> QED BY <1>2, <2>1, <2>2, EarnedIs
<1>5. stars \in Nat
  <2> HIDE DEF E
  <2> QED BY <1>2, <1>4, LearningAssumption DEF AtMost, Left
<1>6. r \in Reward /\ r.source = "reading" /\ r.key = op.reading /\ r.level = op.level
      /\ r.stars = stars /\ r.date = requests[t].date
  <2> HIDE DEF stars
  <2> QED BY <1>2, <1>5 DEF Reward
<1> HIDE DEF r
<1>7. \A q \in ledger : ~(q.source = "reading" /\ q.key = r.key)
  BY <1>1, <1>2, <1>6 DEF Paid
<1>8. ledger' = ledger \cup {r}
  BY <1>1, <1>6, <1>7 DEF Insert
<1>11. r.stars = AtMost(r.level, Left(ReadingLimit, Earned(ledger, "reading", r.date)))
  BY <1>2, <1>6
<1>9. TypedTables(sessions, ledger \cup {r}) /\ Accepted(sessions, ledger \cup {r})
  <2>2. r.level \in Levels
    BY <1>2, <1>6
  <2> QED BY <1>3, <1>6, <1>7, <1>11, <2>2, ReadingAccepted
<1>10. told' = [told EXCEPT ![r.key] = told[r.key] \cup {r}]
  BY <1>1, <1>6
<1>12. starts' = {s \in starts : s.id # r.key} /\ r.level \in Levels /\ r.date = requests[t].date
       /\ \E s \in seen.starts : s.id = r.key /\ s.level = r.level
  BY <1>1, <1>2, <1>6
<1> QED BY <1>1, <1>2, <1>6, <1>7, <1>8, <1>9, <1>10, <1>11, <1>12

LEMMA CompleteReadingIsSafe ==
  ASSUME Inv, NEW t \in Tablets, CompleteReading(t)
  PROVE  Inv'
<1>1. requests[t].pc = "reading" /\ Done(t) /\ sessions' = sessions
  BY DEF CompleteReading, Reading
<1>2. PICK r \in Reward :
           /\ r.source = "reading" /\ r.key \in Readings
           /\ \A q \in ledger : ~(q.source = "reading" /\ q.key = r.key)
           /\ ledger' = ledger \cup {r}
           /\ TypedTables(sessions, ledger \cup {r}) /\ Accepted(sessions, ledger \cup {r})
           /\ told' = [told EXCEPT ![r.key] = told[r.key] \cup {r}]
           /\ starts' \subseteq starts
  BY CompletionIs
<1>3. IsFiniteSet(starts') /\ starts' \in SUBSET Start /\ StartsAreBounded'
  BY <1>2, FewerStarts
<1>4. TablesOK'
  BY <1>1, <1>2, <1>3 DEF Inv, TablesOK
<1>5. told' \in [Readings -> SUBSET Reward] /\ ToldOK'
  <2>1. told \in [Readings -> SUBSET Reward]
    BY DEF Inv, TypeOK
  <2>2. told'[r.key] = told[r.key] \cup {r} /\ \A k \in Readings \ {r.key} : told'[k] = told[k]
    BY <1>2, <2>1
  <2> QED BY <1>2, <2>1, <2>2 DEF Inv, ToldOK
<1> QED BY <1>1, <1>3, <1>4, <1>5, EndIsSafe

LEMMA ReplayReadingIsSafe ==
  ASSUME Inv, NEW t \in Tablets, ReplayReading(t)
  PROVE  Inv'
<1>1. requests[t].pc = "reading" /\ requests[t].op.kind = "complete" /\ Done(t)
      /\ UNCHANGED <<sessions, ledger, starts>>
  BY DEF ReplayReading, Reading
<1> DEFINE id == requests[t].op.reading
<1>2. PICK r \in Paid(t) : told' = [told EXCEPT ![id] = told[id] \cup {r}]
  BY DEF ReplayReading
<1>3. id \in Readings /\ r \in ledger /\ r.source = "reading" /\ r.key = id
  BY <1>1, WhatIsRead, OpKinds DEF Paid
<1> HIDE DEF id
<1>4. TablesOK' /\ StartsAreBounded'
  BY <1>1 DEF Inv, TablesOK, StartsAreBounded
<1>5. told' \in [Readings -> SUBSET Reward] /\ ToldOK'
  <2>1. told \in [Readings -> SUBSET Reward] /\ r \in Reward
    BY <1>3 DEF Inv, TypeOK, TablesOK, TypedTables
  <2>2. told'[id] = told[id] \cup {r} /\ \A k \in Readings \ {id} : told'[k] = told[k]
    BY <1>2, <1>3, <2>1
  <2>3. ASSUME NEW k \in Readings, NEW q \in told'[k]
        PROVE  q \in ledger /\ q.source = "reading" /\ q.key = k
    <3>1. CASE q \in told[k]
      BY <3>1 DEF Inv, ToldOK
    <3>2. CASE q \notin told[k]
      <4>1. k = id /\ q = r
        BY <2>2, <2>3, <3>2
      <4> QED BY <1>3, <4>1
    <3> QED BY <3>1, <3>2
  <2>4. told' \in [Readings -> SUBSET Reward]
    BY <1>2, <2>1
  <2> QED BY <1>1, <2>3, <2>4 DEF ToldOK
<1> QED BY <1>1, <1>4, <1>5, EndIsSafe

-----------------------------------------------------------------------------
(* The other steps.                                                        *)

\* The lesson l is closed, and nothing else changes.
LEMMA FinishIs ==
  ASSUME Inv, NEW l \in Lessons, FinishMath(l)
  PROVE  \E s, n \in Session :
           /\ s = sessions[l] /\ n = [s EXCEPT !.closed = TRUE]
           /\ n.closed /\ n.saved = s.saved /\ n.answers = s.answers /\ n.version = s.version
           /\ s.saved
           /\ sessions' \in Answers /\ sessions'[l] = n
           /\ \A m \in Lessons \ {l} : sessions'[m] = sessions[m]
<1>1. sessions \in Answers
  BY DEF Inv, TablesOK, TypedTables
<1>2. PICK s \in Session : s = sessions[l]
  BY <1>1 DEF Answers
<1>3. PICK n \in Session : /\ n = [s EXCEPT !.closed = TRUE] /\ n.closed /\ n.saved = s.saved
                           /\ n.answers = s.answers /\ n.version = s.version
  <2> DEFINE n == [s EXCEPT !.closed = TRUE]
  <2>1. n \in Session /\ n.closed /\ n.saved = s.saved
        /\ n.answers = s.answers /\ n.version = s.version
    BY DEF Session
  <2> QED BY <2>1
<1>4. sessions' = [sessions EXCEPT ![l] = n]
  <2>1. sessions' = [sessions EXCEPT ![l].closed = TRUE]
    BY DEF FinishMath
  <2>2. sessions' = [sessions EXCEPT ![l] = [sessions[l] EXCEPT !.closed = TRUE]]
    BY <1>1, <2>1, Zenon
  <2> QED BY <1>2, <1>3, <2>2, Zenon
<1>5. s.saved
  BY <1>2 DEF FinishMath
<1>6. sessions' \in Answers /\ sessions'[l] = n
      /\ \A m \in Lessons \ {l} : sessions'[m] = sessions[m]
  BY <1>1, <1>4 DEF Answers
<1> QED BY <1>2, <1>3, <1>5, <1>6

LEMMA FinishMathIsSafe ==
  ASSUME Inv, NEW l \in Lessons, FinishMath(l)
  PROVE  Inv'
<1>1. PICK s \in Session, n \in Session :
           /\ s = sessions[l] /\ n = [s EXCEPT !.closed = TRUE]
           /\ n.closed /\ n.saved = s.saved /\ n.answers = s.answers /\ n.version = s.version
           /\ s.saved
           /\ sessions' \in Answers /\ sessions'[l] = n
           /\ \A m \in Lessons \ {l} : sessions'[m] = sessions[m]
  BY FinishIs
<1>2. ~AnswerHolds(l) /\ UNCHANGED <<today, ledger, starts, lock, requests, backups, told>>
  BY DEF FinishMath
<1>3. TypedTables(sessions, ledger) /\ Accepted(sessions, ledger) /\ UnsavedAreEmpty(sessions)
  BY DEF Inv, TablesOK
<1>4. \A m \in Lessons : /\ sessions'[m].answers = sessions[m].answers
                         /\ sessions'[m].version = sessions[m].version
                         /\ sessions'[m].saved = sessions[m].saved
                         /\ Open(sessions'[m]) => Open(sessions[m])
  BY <1>1 DEF Open
<1>5. SameAnswers(sessions, sessions')
  <2>1. Keys(sessions') = Keys(sessions)
    BY <1>4 DEF Keys
  <2>2. \A k \in Keys(sessions) : k[1] \in Lessons
    BY DEF Keys
  <2> QED BY <1>4, <2>1, <2>2 DEF SameAnswers, At
<1>6. OneOpen(sessions')
  BY <1>3, <1>4 DEF OneOpen, Accepted
<1>7. Accepted(sessions', ledger)
  BY <1>3, <1>5, <1>6, SameAnswersAccepted
<1>8. TypedTables(sessions', ledger) /\ UnsavedAreEmpty(sessions')
  BY <1>1, <1>3 DEF TypedTables, UnsavedAreEmpty
<1>9. TablesOK' /\ StartsAreBounded'
  BY <1>2, <1>7, <1>8 DEF Inv, TablesOK, StartsAreBounded
<1>10. TypeOK' /\ BackupsOK'
  BY <1>2, <1>9, TablesAreTyped DEF Inv, TypeOK, BackupsOK
<1>11. RequestsOK'
  <2> SUFFICES ASSUME NEW u \in Tablets PROVE RequestStands(u)'
    BY DEF RequestsOK
  <2>1. RequestStands(u)
    BY DEF Inv, RequestsOK
  <2>2. CASE requests[u].pc = "reading"
    <3> DEFINE q == requests[u]
    <3>1. SeenStands(q) /\ q.seen \in Tables
      BY <2>2, WhatIsRead
    <3>2. ASSUME NEW m \in Lessons
          PROVE  sessions'[m] = q.seen.sessions[m]
                 \/ sessions'[m] = [q.seen.sessions[m] EXCEPT !.closed = TRUE]
      <4>1. sessions[m] = q.seen.sessions[m]
            \/ sessions[m] = [q.seen.sessions[m] EXCEPT !.closed = TRUE]
        BY <3>1 DEF SeenStands
      <4>2. PICK z \in Session : z = q.seen.sessions[m]
        BY <3>1 DEF Tables
      <4>3. [[z EXCEPT !.closed = TRUE] EXCEPT !.closed = TRUE] = [z EXCEPT !.closed = TRUE]
        BY DEF Session
      <4>4. CASE m = l
        <5>1. s = z \/ s = [z EXCEPT !.closed = TRUE]
          BY <1>1, <4>1, <4>2, <4>4
        <5>2. n = [z EXCEPT !.closed = TRUE]
          BY <1>1, <4>3, <5>1, Zenon
        <5> QED BY <1>1, <4>2, <4>4, <5>2, Zenon
      <4>5. CASE m # l
        <5>1. sessions'[m] = sessions[m]
          BY <1>1, <4>5
        <5> QED BY <4>1, <5>1, Zenon
      <4> QED BY <4>4, <4>5
    <3>3. q.op.kind = "answer" => sessions'[q.op.lesson] = q.seen.sessions[q.op.lesson]
      <4>1. q.op.kind = "answer" => q.op.lesson \in Lessons /\ q.op.lesson # l
        BY <1>2, <2>2, WhatIsRead, OpKinds DEF AnswerHolds
      <4> QED BY <1>1, <3>1, <4>1 DEF SeenStands
    <3> HIDE DEF q
    <3>4. SeenStands(q)'
      BY <1>2, <3>1, <3>2, <3>3 DEF SeenStands, q
    <3> QED BY <1>2, <2>1, <3>4 DEF RequestStands, q
  <2>3. CASE requests[u].pc # "reading"
    BY <1>2, <2>1, <2>3 DEF RequestStands
  <2> QED BY <2>2, <2>3
<1> QED BY <1>2, <1>9, <1>10, <1>11, ToldStays DEF Inv

\* A start that ages is swept later, and no request sees one more that is fresh.
LEMMA StartAgesIsSafe ==
  ASSUME Inv, NEW s \in starts, StartAges(s)
  PROVE  Inv'
<1>1. PICK x \in Start : x = s
  BY DEF Inv, TablesOK
<1>2. PICK n \in Start : n = [x EXCEPT !.old = TRUE] /\ n.old
  <2>1. [x EXCEPT !.old = TRUE] \in Start /\ [x EXCEPT !.old = TRUE].old
    BY DEF Start
  <2> QED BY <2>1
<1>3. starts' = (starts \ {s}) \cup {n}
      /\ UNCHANGED <<today, sessions, ledger, lock, requests, backups, told>>
  BY <1>1, <1>2 DEF StartAges
<1>11. Started(starts') = Started(starts)
  <2>1. n.id = s.id /\ n.level = s.level
    BY <1>1, <1>2 DEF Start
  <2> QED BY <1>3, <2>1 DEF Started
<1>4. starts \in SUBSET Start /\ IsFiniteSet(starts) /\ Cardinality(starts) <= MaxStarts
  BY DEF Inv, TablesOK, StartsAreBounded
<1>5. IsFiniteSet(starts \ {s}) /\ Cardinality(starts \ {s}) = Cardinality(starts) - 1
      /\ Cardinality(starts) \in Nat
  BY <1>4, FS_RemoveElement, FS_CardinalityType
<1>6. IsFiniteSet(starts') /\ Cardinality(starts') <= Cardinality(starts)
      /\ Cardinality(starts') \in Nat
  <2>1. CASE n \in starts \ {s}
    <3>1. starts' = starts \ {s}
      BY <1>3, <2>1
    <3> QED BY <1>5, <3>1, FS_CardinalityType
  <2>2. CASE n \notin starts \ {s}
    <3>1. IsFiniteSet((starts \ {s}) \cup {n})
          /\ Cardinality((starts \ {s}) \cup {n}) = Cardinality(starts \ {s}) + 1
      BY <1>5, <2>2, FS_AddElement
    <3> QED BY <1>3, <1>5, <3>1
  <2> QED BY <2>1, <2>2
<1>7. StartsAreBounded'
  BY <1>4, <1>5, <1>6, LearningAssumption DEF StartsAreBounded
<1>8. TablesOK'
  BY <1>3, <1>4, <1>6 DEF Inv, TablesOK
<1>9. TypeOK' /\ BackupsOK'
  BY <1>3, <1>8, TablesAreTyped DEF Inv, TypeOK, BackupsOK
<1>10. RequestsOK'
  <2>1. Fresh(starts') \subseteq Fresh(starts)
    BY <1>2, <1>3 DEF Fresh
  <2> SUFFICES ASSUME NEW u \in Tablets PROVE RequestStands(u)'
    BY DEF RequestsOK
  <2>2. RequestStands(u)
    BY DEF Inv, RequestsOK
  <2> QED BY <1>3, <1>11, <2>1, <2>2 DEF RequestStands, SeenStands
<1> QED BY <1>3, <1>7, <1>8, <1>9, <1>10, ToldStays DEF Inv

LEMMA MidnightIsSafe ==
  ASSUME Inv, Midnight
  PROVE  Inv'
<1>1. UNCHANGED <<sessions, ledger, starts, lock, requests, backups, told>> /\ today' \in Days
  <2>1. today \in 1 .. MaxDay /\ today < MaxDay /\ today' = today + 1 /\ MaxDay \in Nat
    BY LearningAssumption DEF Midnight, Inv, TypeOK, Days
  <2> QED BY <2>1 DEF Midnight, Days
<1>2. TablesOK' /\ StartsAreBounded' /\ BackupsOK'
  BY <1>1 DEF Inv, TablesOK, StartsAreBounded, BackupsOK
<1>3. TypeOK'
  BY <1>1, <1>2, TablesAreTyped DEF Inv, TypeOK
<1>4. RequestsOK'
  BY <1>1 DEF Inv, RequestsOK, RequestStands, SeenStands
<1> QED BY <1>1, <1>2, <1>3, <1>4, ToldStays DEF Inv

LEMMA ExportIsSafe ==
  ASSUME Inv, Export
  PROVE  Inv'
<1> DEFINE b == [sessions |-> sessions, ledger |-> ledger]
<1>1. UNCHANGED <<today, sessions, ledger, starts, lock, requests, told>>
      /\ backups' = backups \cup {b}
  BY DEF Export
<1>2. TypedTables(sessions, ledger) /\ UnsavedAreEmpty(sessions)
  BY DEF Inv, TablesOK
<1>3. b.sessions = sessions /\ b.ledger = ledger
      /\ b \in [sessions : [Lessons -> Session], ledger : SUBSET Reward]
  BY <1>2 DEF TypedTables, Answers
<1> HIDE DEF b
<1>4. BackupsOK'
  BY <1>1, <1>2, <1>3 DEF Inv, BackupsOK
<1>5. TablesOK' /\ StartsAreBounded'
  BY <1>1 DEF Inv, TablesOK, StartsAreBounded
<1>6. TypeOK'
  BY <1>1, <1>3, <1>5, TablesAreTyped DEF Inv, TypeOK
<1>7. RequestsOK'
  BY <1>1 DEF Inv, RequestsOK, RequestStands, SeenStands
<1> QED BY <1>1, <1>4, <1>5, <1>6, <1>7, ToldStays DEF Inv

\* Nobody reads, and the backup is accepted.
LEMMA ImportIsSafe ==
  ASSUME Inv, NEW b \in backups, Import(b)
  PROVE  Inv'
<1>1. /\ \A t \in Tablets : requests[t].pc # "reading"
      /\ sessions' = b.sessions /\ ledger' = b.ledger /\ starts' = {}
      /\ told' = [r \in Readings |-> {}]
      /\ UNCHANGED <<today, lock, requests, backups>>
      /\ Accepted(b.sessions, b.ledger)
  BY AcceptsIs DEF Import
<1>2. TypedTables(b.sessions, b.ledger) /\ UnsavedAreEmpty(b.sessions)
  BY DEF Inv, BackupsOK
<1>3. TablesOK'
  BY <1>1, <1>2, FS_EmptySet DEF TablesOK
<1>4. StartsAreBounded'
  BY <1>1, FS_EmptySet, LearningAssumption DEF StartsAreBounded
<1>5. ToldOK' /\ BackupsOK' /\ told' \in [Readings -> SUBSET Reward]
  BY <1>1 DEF Inv, ToldOK, BackupsOK
<1>6. TypeOK'
  BY <1>1, <1>3, <1>5, TablesAreTyped DEF Inv, TypeOK
<1>7. RequestsOK'
  BY <1>1 DEF Inv, RequestsOK, RequestStands
<1> QED BY <1>3, <1>4, <1>5, <1>6, <1>7 DEF Inv

-----------------------------------------------------------------------------
(* Every step, and the theorems.                                           *)

LEMMA NextHolds == Inv /\ [Next]_vars => Inv'
<1> SUFFICES ASSUME Inv, [Next]_vars PROVE Inv'
  OBVIOUS
<1>1. ASSUME NEW t \in Tablets, TabletStep(t) PROVE Inv'
  <2>1. ASSUME NEW op \in Ops, Arrive(t, op) PROVE Inv'
    BY <2>1, ArriveIsSafe
  <2>2. CASE Read(t)
    BY <2>2, ReadIsSafe
  <2>3. CASE Respond(t)
    BY <2>3, RespondIsSafe
  <2>4. CASE StartMath(t)
    BY <2>4, StartMathIsSafe
  <2>5. CASE AnswerMath(t)
    BY <2>5, AnswerMathIsSafe
  <2>6. CASE BeginReading(t)
    BY <2>6, BeginReadingIsSafe
  <2>7. CASE CompleteReading(t)
    BY <2>7, CompleteReadingIsSafe
  <2>8. CASE ReplayReading(t)
    BY <2>8, ReplayReadingIsSafe
  <2> QED BY <1>1, <2>1, <2>2, <2>3, <2>4, <2>5, <2>6, <2>7, <2>8 DEF TabletStep
<1>2. ASSUME NEW l \in Lessons, FinishMath(l) PROVE Inv'
  BY <1>2, FinishMathIsSafe
<1>3. ASSUME NEW s \in starts, StartAges(s) PROVE Inv'
  BY <1>3, StartAgesIsSafe
<1>4. ASSUME NEW b \in backups, Import(b) PROVE Inv'
  BY <1>4, ImportIsSafe
<1>5. CASE Midnight
  BY <1>5, MidnightIsSafe
<1>6. CASE Export
  BY <1>6, ExportIsSafe
<1>7. CASE UNCHANGED vars
  <2>1. UNCHANGED <<today, sessions, ledger, starts, lock, requests, backups, told>>
    BY <1>7 DEF vars
  <2>2. TablesOK' /\ StartsAreBounded' /\ BackupsOK'
    BY <2>1 DEF Inv, TablesOK, StartsAreBounded, BackupsOK
  <2>3. TypeOK'
    BY <2>1, <2>2, TablesAreTyped DEF Inv, TypeOK
  <2>4. RequestsOK'
    BY <2>1 DEF Inv, RequestsOK, RequestStands, SeenStands
  <2> QED BY <2>1, <2>2, <2>3, <2>4, ToldStays DEF Inv
<1> QED BY <1>1, <1>2, <1>3, <1>4, <1>5, <1>6, <1>7 DEF Next

LEMMA InvHolds == Spec => []Inv
BY InitHolds, NextHolds, PTL DEF Spec

(***************************************************************************)
(* Tables, requests and backups keep their kinds.                          *)
(***************************************************************************)
THEOREM TypeCorrectness == Spec => []TypeOK
BY InvHolds, PTL DEF Inv

(***************************************************************************)
(* What a family exports validateLearning accepts, whatever the budgets,   *)
(* the settings and the number of tablets that answer at once.             *)
(***************************************************************************)
THEOREM ExportAccepted == Spec => []ExportIsAccepted
<1>1. Inv => ExportIsAccepted
  BY AcceptsIs DEF Inv, TablesOK, ExportIsAccepted
<1> QED BY <1>1, InvHolds, PTL

(***************************************************************************)
(* CompleteReading reports one reward for a reading, however often it is   *)
(* called: all that was reported is in the ledger, which has one row.      *)
(***************************************************************************)
THEOREM OnePerReading == Spec => []OneRewardPerReading
<1>1. ASSUME Inv, NEW r \in Readings PROVE Cardinality(told[r]) <= 1
  <2>1. \A p, q \in told[r] : p = q
    BY <1>1 DEF Inv, ToldOK, TablesOK, Accepted, RewardsValid
  <2>2. CASE told[r] = {}
    BY <2>2, FS_EmptySet
  <2>3. CASE told[r] # {}
    <3>1. PICK q \in told[r] : TRUE
      BY <2>3
    <3>2. told[r] = {q}
      BY <2>1, <3>1
    <3>3. Cardinality({q}) = 1
      BY FS_Singleton
    <3> QED BY <3>2, <3>3
  <2> QED BY <2>2, <2>3
<1>2. Inv => OneRewardPerReading
  BY <1>1 DEF OneRewardPerReading
<1> QED BY <1>2, InvHolds, PTL

(***************************************************************************)
(* StartReading: tablets that begin at once share one limit.               *)
(***************************************************************************)
THEOREM StartsBounded == Spec => []StartsAreBounded
BY InvHolds, PTL DEF Inv

Progress ==
  /\ ledger \subseteq ledger'
  /\ \A l \in Lessons :
       /\ sessions[l].closed => sessions'[l].closed
       /\ Len(sessions[l].answers) <= Len(sessions'[l].answers)
       /\ \A i \in 1 .. Len(sessions[l].answers) :
            sessions'[l].answers[i] = sessions[l].answers[i]

LEMMA LengthsAreNat ==
  ASSUME Inv, NEW l \in Lessons
  PROVE  sessions[l].answers \in Seq(Answer) /\ Len(sessions[l].answers) \in Nat
<1>1. sessions[l].answers \in Seq(Answer)
  BY DEF Inv, TablesOK, TypedTables, Answers, Session
<1> QED BY <1>1

LEMMA StepsProgress == Inv /\ [Next]_vars => Progress \/ (\E b \in backups : Import(b)) \/ UNCHANGED vars
<1> SUFFICES ASSUME Inv, Next PROVE Progress \/ \E b \in backups : Import(b)
  OBVIOUS
<1>1. ASSUME UNCHANGED sessions, ledger \subseteq ledger' PROVE Progress
  BY <1>1, LengthsAreNat DEF Progress
<1>2. ASSUME NEW t \in Tablets, TabletStep(t) PROVE Progress
  <2>1. ASSUME NEW op \in Ops, Arrive(t, op) PROVE Progress
    BY <1>1, <2>1 DEF Arrive
  <2>2. CASE Read(t) \/ Respond(t) \/ BeginReading(t) \/ ReplayReading(t)
    BY <1>1, <2>2 DEF Read, Respond, BeginReading, ReplayReading
  <2>3. CASE CompleteReading(t)
    BY <1>1, <2>3, CompletionIs DEF CompleteReading
  <2>4. CASE StartMath(t)
    <3>1. PICK l \in Lessons : /\ ~sessions[l].saved
                               /\ sessions' = [sessions EXCEPT ![l] =
                                    [NoSession EXCEPT !.saved = TRUE, !.worth = requests[t].op.worth]]
      BY <2>4 DEF StartMath
    <3>2. sessions \in Answers /\ ~sessions[l].closed /\ sessions[l].answers = <<>>
      BY <3>1 DEF Inv, TablesOK, TypedTables, UnsavedAreEmpty
    <3>3. \A m \in Lessons \ {l} : sessions'[m] = sessions[m]
      BY <3>1, <3>2 DEF Answers
    <3>4. sessions'[l].answers = <<>>
      BY <3>1, <3>2 DEF Answers, NoSession
    <3>5. ledger' = ledger
      BY <2>4 DEF StartMath
    <3> QED BY <3>2, <3>3, <3>4, <3>5, LengthsAreNat DEF Progress
  <2>5. CASE AnswerMath(t)
    <3>1. PICK l \in Lessons, a \in Answer :
             /\ Due(sessions, ledger, l, a)
             /\ sessions[l].saved /\ ~sessions[l].closed
             /\ sessions' = Answering(sessions, l, a)
             /\ ledger' = Rewarding(ledger, l, Len(sessions[l].answers) + 1, a)
      BY <2>5, AnswerIs
    <3>2. ledger \subseteq ledger'
      BY <3>1, AnswerAccepted
    <3>3. sessions \in Answers
      BY DEF Inv, TablesOK, TypedTables
    <3>4. PICK s \in Session : s = sessions[l]
      BY <3>3 DEF Answers
    <3>5. sessions'[l] = [s EXCEPT !.answers = Append(s.answers, a)]
          /\ \A m \in Lessons \ {l} : sessions'[m] = sessions[m]
      BY <3>1, <3>3, <3>4 DEF Answering, Answers
    <3>6. PICK q \in Seq(Answer) : q = s.answers
      BY DEF Session
    <3>7. sessions'[l].answers = Append(q, a)
      BY <3>5, <3>6 DEF Session
    <3>8. Len(Append(q, a)) = Len(q) + 1 /\ \A i \in 1 .. Len(q) : Append(q, a)[i] = q[i]
          /\ Len(q) \in Nat
      OBVIOUS
    <3>9. ~sessions[l].closed /\ sessions[l].answers = q
      BY <3>1, <3>4, <3>6
    <3>10. ASSUME NEW m \in Lessons
           PROVE  /\ sessions[m].closed => sessions'[m].closed
                  /\ Len(sessions[m].answers) <= Len(sessions'[m].answers)
                  /\ \A i \in 1 .. Len(sessions[m].answers) :
                       sessions'[m].answers[i] = sessions[m].answers[i]
      <4>1. CASE m = l
        <5>0. Append(q, a) \in Seq(Answer)
          OBVIOUS
        <5>1. PICK z \in Seq(Answer) : z = Append(q, a)
          BY <5>0
        <5>2. Len(q) <= Len(z) /\ \A i \in 1 .. Len(q) : z[i] = q[i]
          BY <3>8, <5>1
        <5>3. sessions'[m].answers = z /\ sessions[m].answers = q /\ ~sessions[m].closed
          BY <3>7, <3>9, <4>1, <5>1
        <5> QED BY <5>2, <5>3
      <4>2. CASE m # l
        BY <3>5, <4>2, LengthsAreNat
      <4> QED BY <4>1, <4>2
    <3> QED BY <3>2, <3>10 DEF Progress
  <2> QED BY <1>2, <2>1, <2>2, <2>3, <2>4, <2>5 DEF TabletStep
<1>3. ASSUME NEW l \in Lessons, FinishMath(l) PROVE Progress
  <2>1. PICK s \in Session, n \in Session :
           /\ s = sessions[l] /\ n.closed /\ n.answers = s.answers
           /\ sessions'[l] = n /\ \A m \in Lessons \ {l} : sessions'[m] = sessions[m]
    BY <1>3, FinishIs
  <2>2. ledger' = ledger
    BY <1>3 DEF FinishMath
  <2> QED BY <2>1, <2>2, LengthsAreNat DEF Progress
<1>4. ASSUME NEW s \in starts, StartAges(s) PROVE Progress
  BY <1>1, <1>4 DEF StartAges
<1>5. CASE Midnight \/ Export
  BY <1>1, <1>5 DEF Midnight, Export
<1> QED BY <1>2, <1>3, <1>4, <1>5 DEF Next

(***************************************************************************)
(* No request takes an answer, a finished lesson or a reward back: that    *)
(* only ImportBackup does.                                                 *)
(***************************************************************************)
THEOREM ProgressKept == Spec => ProgressIsKept
<1>1. Inv /\ [Next]_vars =>
        [\/ /\ ledger \subseteq ledger'
            /\ \A l \in Lessons :
                 /\ sessions[l].closed => sessions'[l].closed
                 /\ Len(sessions[l].answers) <= Len(sessions'[l].answers)
                 /\ \A i \in 1 .. Len(sessions[l].answers) :
                      sessions'[l].answers[i] = sessions[l].answers[i]
         \/ \E b \in backups : Import(b)]_vars
  BY StepsProgress DEF Progress
<1> QED BY <1>1, InvHolds, PTL DEF Spec, ProgressIsKept

-----------------------------------------------------------------------------
(* The record without tablets, transactions and locks.                     *)

\* A request's day is not after today.
Dated == \A t \in Tablets : requests[t] # Idle => requests[t].date \in 1 .. today

LEMMA InitDated == Init => Dated
BY DEF Init, Dated

LEMMA DatedHolds == Inv /\ Dated /\ [Next]_vars => Dated'
<1> SUFFICES ASSUME Inv, Dated, [Next]_vars PROVE Dated'
  OBVIOUS
<1>1. requests \in [Tablets -> Request] /\ today \in Nat /\ today >= 1
  BY DEF Inv, TypeOK, Days
<1>2. ASSUME requests' = requests, today' \in Nat, today <= today' PROVE Dated'
  BY <1>1, <1>2 DEF Dated
<1>3. ASSUME NEW t \in Tablets, requests' = [requests EXCEPT ![t] = Idle], today' = today
      PROVE  Dated'
  BY <1>1, <1>3 DEF Dated
<1>4. ASSUME NEW t \in Tablets, TabletStep(t) PROVE Dated'
  <2>1. ASSUME NEW op \in Ops, Arrive(t, op) PROVE Dated'
    <3>1. requests' = [requests EXCEPT ![t] =
            [pc |-> "arrived", op |-> op, date |-> today, seen |-> Empty]] /\ today' = today
      BY <2>1 DEF Arrive
    <3>2. requests'[t].date = today /\ \A u \in Tablets \ {t} : requests'[u] = requests[u]
      BY <1>1, <3>1
    <3> QED BY <1>1, <3>1, <3>2 DEF Dated
  <2>2. CASE Read(t)
    <3>1. PICK q : q = requests[t] /\ q \in Request /\ q # Idle
      BY <1>1, <2>2 DEF Read, Idle
    <3>2. q \in [pc : {"arrived", "reading"}, op : Ops, date : Days, seen : Tables]
      BY <3>1 DEF Request
    <3>3. requests' = [requests EXCEPT ![t].pc = "reading", ![t].seen = Current] /\ today' = today
      BY <2>2 DEF Read
    <3>4. requests' = [requests EXCEPT ![t] = [requests[t] EXCEPT !.pc = "reading", !.seen = Current]]
      BY <1>1, <3>3, Zenon
    <3>5. requests' = [requests EXCEPT ![t] = [q EXCEPT !.pc = "reading", !.seen = Current]]
      BY <3>1, <3>4, Zenon
    <3>6. [q EXCEPT !.pc = "reading", !.seen = Current].date = q.date
      BY <3>2
    <3>7. requests'[t].date = requests[t].date /\ \A u \in Tablets \ {t} : requests'[u] = requests[u]
      BY <1>1, <3>1, <3>5, <3>6
    <3> QED BY <1>1, <3>1, <3>3, <3>7 DEF Dated
  <2>3. CASE Respond(t) \/ StartMath(t) \/ AnswerMath(t) \/ BeginReading(t)
             \/ CompleteReading(t) \/ ReplayReading(t)
    <3>1. Done(t)
      BY <2>3 DEF Respond, StartMath, AnswerMath, BeginReading, CompleteReading, ReplayReading
    <3> QED BY <1>3, <3>1 DEF Done
  <2> QED BY <1>4, <2>1, <2>2, <2>3 DEF TabletStep
<1>5. CASE UNCHANGED vars \/ Export \/ (\E l \in Lessons : FinishMath(l))
           \/ (\E s \in starts : StartAges(s)) \/ (\E b \in backups : Import(b))
  <2>1. requests' = requests /\ today' = today
    BY <1>5 DEF vars, Export, FinishMath, StartAges, Import
  <2> QED BY <1>1, <1>2, <2>1
<1>6. CASE Midnight
  <2>1. requests' = requests /\ today' = today + 1
    BY <1>6 DEF Midnight
  <2> QED BY <1>1, <1>2, <2>1
<1> QED BY <1>4, <1>5, <1>6 DEF Next

LEMMA SameSums ==
  ASSUME NEW source, NEW date
  PROVE  Record!Earned(source, date) = Earned(ledger, source, date)
BY Zenon DEF Record!Earned, Earned, MapThenSumSet, MapThenFoldSet,
             Record!MapThenSumSet, Record!MapThenFoldSet

LEMMA SameCount == \A S : Record!Cardinality(S) = Cardinality(S)
BY Zenon DEF Cardinality, Record!Cardinality

LEMMA InitMaps == Init => Record!Init
<1> SUFFICES ASSUME Init PROVE Record!Init
  OBVIOUS
<1>1. Inv
  BY InitHolds
<1>2. \A l \in Lessons : sessions[l].answers = <<>>
  <2> DEFINE none == [l \in Lessons |-> NoSession]
  <2>1. CASE sessions = Empty.sessions
    <3>1. sessions = none
      BY <2>1 DEF Empty
    <3> QED BY <3>1, NoSessionIs
  <2>2. ASSUME NEW l \in Lessons, NEW v \in {0, 2}, NEW s \in Settings,
               sessions = [Empty.sessions EXCEPT ![l] =
                 [NoSession EXCEPT !.saved = TRUE, !.version = v, !.worth = Worth(v, s)]]
        PROVE  \A m \in Lessons : sessions[m].answers = <<>>
    <3> DEFINE n == [NoSession EXCEPT !.saved = TRUE, !.version = v, !.worth = Worth(v, s)]
    <3>1. n.answers = <<>>
      BY NoSessionIs DEF NoSession
    <3>2. sessions = [none EXCEPT ![l] = n]
      BY <2>2 DEF Empty
    <3> HIDE DEF n
    <3> QED BY <3>1, <3>2, NoSessionIs
  <2> QED BY <2>1, <2>2 DEF Init
<1>3. OneOpen(sessions)
  BY <1>1 DEF Inv, TablesOK, Accepted
<1> QED BY <1>2, <1>3 DEF Init, Record!Init, Record!Unfinished, OneOpen, Open

LEMMA StartMaps ==
  ASSUME Inv, NEW t \in Tablets, StartMath(t)
  PROVE  \E l \in Lessons : Record!Start(l)
<1>1. requests[t].pc = "reading" /\ requests[t].op.kind = "start" /\ Done(t)
      /\ UNCHANGED <<ledger, starts, told>>
  BY DEF StartMath, Reading
<1>2. SeenStands(requests[t]) /\ requests[t].op.worth \in Nat /\ requests[t].seen \in Tables
  BY <1>1, WhatIsRead, OpKinds
<1>3. PICK l \in Lessons : /\ ~sessions[l].saved
                           /\ sessions' = [sessions EXCEPT ![l] =
                                [NoSession EXCEPT !.saved = TRUE, !.worth = requests[t].op.worth]]
  BY DEF StartMath
<1>4. sessions \in Answers
  BY DEF Inv, TablesOK, TypedTables
<1>5. ASSUME NEW m \in Lessons PROVE ~Open(sessions[m])
  <2>1. ~Open(requests[t].seen.sessions[m])
    BY DEF StartMath
  <2>2. sessions[m] = requests[t].seen.sessions[m]
        \/ sessions[m] = [requests[t].seen.sessions[m] EXCEPT !.closed = TRUE]
    BY <1>2 DEF SeenStands
  <2>3. PICK s \in Session : s = requests[t].seen.sessions[m]
    BY <1>2 DEF Tables
  <2>4. ~Open([s EXCEPT !.closed = TRUE])
    BY DEF Open, Session
  <2> QED BY <2>1, <2>2, <2>3, <2>4
<1> DEFINE n == [NoSession EXCEPT !.saved = TRUE, !.worth = requests[t].op.worth]
<1>6. n.saved /\ ~n.closed /\ n.answers = <<>> /\ n.version = 3
  BY <1>2 DEF NoSession
<1>7. Len(<<>>) < Questions
  BY LearningAssumption
<1> HIDE DEF n
<1>8. sessions'[l] = n /\ \A m \in Lessons \ {l} : sessions'[m] = sessions[m]
  <2>1. sessions' = [sessions EXCEPT ![l] = n]
    BY <1>3 DEF n
  <2> QED BY <1>4, <2>1 DEF Answers
<1>9. Record!Unfinished(l)'
  BY <1>6, <1>7, <1>8 DEF Record!Unfinished
<1>10. \A m \in Lessons : ~Record!Unfinished(m)
  BY <1>5 DEF Record!Unfinished, Open
<1>11. Record!Start(l)
  BY <1>1, <1>3, <1>6, <1>8, <1>9, <1>10 DEF Record!Start, Done
<1> QED BY <1>11

\* What the budget leaves is fair.
LEMMA LeftIsFair ==
  ASSUME NEW full \in Nat, NEW limit \in Nat, NEW earned \in Nat
  PROVE  /\ AtMost(full, Left(limit, earned)) \in 0 .. full
         /\ Record!Fair(AtMost(full, Left(limit, earned)), full, limit, earned)
BY DEF AtMost, Left, Record!Fair

LEMMA AnswerMaps ==
  ASSUME Inv, Dated, NEW t \in Tablets, AnswerMath(t)
  PROVE  \E l \in Lessons : \E date \in 1 .. today : Record!Answer(l, date)
<1>1. requests[t].pc = "reading" /\ Done(t) /\ UNCHANGED <<starts, told>>
  BY DEF AnswerMath, Reading
<1>2. PICK l \in Lessons, a \in Answer :
           /\ Due(sessions, ledger, l, a)
           /\ sessions[l].saved /\ ~sessions[l].closed
           /\ sessions' = Answering(sessions, l, a)
           /\ ledger' = Rewarding(ledger, l, Len(sessions[l].answers) + 1, a)
           /\ a.full \in {0, sessions[l].worth} /\ a.date = requests[t].date
  BY AnswerIs
<1>3. a.date \in 1 .. today
  BY <1>1, <1>2 DEF Dated, Idle
<1>4. /\ sessions \in Answers /\ Accepted(sessions, ledger) /\ TypedTables(sessions, ledger)
      /\ Earned(ledger, "math", a.date) \in Nat
  <2>1. TypedTables(sessions, ledger) /\ Accepted(sessions, ledger)
    BY DEF Inv, TablesOK
  <2>2. Earned(ledger, "math", a.date) \in Nat
    BY <1>2, <2>1, MathBelowEarned DEF Accepted, Answer
  <2> QED BY <2>1, <2>2 DEF TypedTables
<1>5. PICK s \in Session : s = sessions[l]
  BY <1>4 DEF Answers
<1> DEFINE i == Len(sessions[l].answers) + 1
           r == MathReward(l, i, a)
<1>6. PICK q \in Seq(Answer) : q = s.answers
  BY DEF Session
<1>7. Len(q) \in Nat /\ Len(q) + 1 <= Questions /\ Len(Append(q, a)) = Len(q) + 1
  <2>1. Len(q) + 1 \in 1 .. Questions
    BY <1>2, <1>5, <1>6 DEF Due
  <2> QED BY <2>1, LearningAssumption
<1>8. Record!Unfinished(l)
  BY <1>2, <1>5, <1>6, <1>7, LearningAssumption DEF Record!Unfinished
<1>9. a = [full |-> a.full, stars |-> a.stars, date |-> a.date] /\ a.full \in Nat
  BY DEF Answer
<1>10. sessions' = [sessions EXCEPT ![l].answers =
                      Append(@, [full |-> a.full, stars |-> a.stars, date |-> a.date])]
  <2>1. sessions' = [sessions EXCEPT ![l] = [sessions[l] EXCEPT !.answers =
                       Append(sessions[l].answers, [full |-> a.full, stars |-> a.stars, date |-> a.date])]]
    BY <1>2, <1>9, Zenon DEF Answering
  <2> QED BY <1>4, <2>1, Zenon DEF Answers
<1>11. Len(sessions'[l].answers) = i
  <2>1. sessions'[l] = [s EXCEPT !.answers = Append(s.answers, a)]
    BY <1>2, <1>4, <1>5 DEF Answering, Answers
  <2>2. sessions'[l].answers = Append(q, a)
    BY <1>6, <2>1 DEF Session
  <2> QED BY <1>5, <1>6, <1>7, <2>2
<1>12. \A p \in ledger : ~(p.source = "math" /\ p.key = <<l, i>>)
  <2>1. <<l, i>> \notin Keys(sessions)
    BY <1>5, <1>6, <1>7 DEF Keys
  <2> QED BY <1>4, <2>1 DEF Accepted, RewardsValid
<1>13. ledger' = ledger \cup IF a.stars = 0 THEN {} ELSE
          {[source |-> "math", key |-> <<l, i>>, date |-> a.date, stars |-> a.stars, level |-> 0]}
  <2>1. CASE a.stars = 0
    BY <1>2, <2>1 DEF Rewarding
  <2>2. CASE a.stars # 0
    <3>1. ledger' = Insert(ledger, r)
      BY <1>2, <2>2 DEF Rewarding
    <3>2. ledger' = ledger \cup {r}
      BY <1>12, <3>1 DEF Insert, MathReward
    <3> QED BY <2>2, <3>2 DEF MathReward
  <2> QED BY <2>1, <2>2
<1>14. a.stars = Awarded(sessions[l], a.full, Earned(ledger, "math", a.date))
  BY <1>2 DEF Due
<1>15. Record!Earned("math", a.date) = Earned(ledger, "math", a.date)
  BY SameSums
<1>16. /\ a.stars \in 0 .. a.full
       /\ CASE sessions[l].version = 3 -> Record!Fair(a.stars, a.full, MathLimit, Record!Earned("math", a.date))
            [] sessions[l].version = 2 -> Record!Fair(a.stars, a.full, PreviousMathLimit, Record!Earned("math", a.date))
            [] sessions[l].version = 0 -> a.stars = a.full
  <2>1. MathLimit \in Nat /\ PreviousMathLimit \in Nat
    BY LearningAssumption
  <2>2. CASE sessions[l].version = 3
    BY <1>4, <1>9, <1>14, <1>15, <2>1, <2>2, LeftIsFair DEF Awarded
  <2>3. CASE sessions[l].version = 2
    BY <1>4, <1>9, <1>14, <1>15, <2>1, <2>3, LeftIsFair DEF Awarded
  <2>4. CASE sessions[l].version = 0
    BY <1>9, <1>14, <2>4 DEF Awarded
  <2>5. sessions[l].version \in Versions
    BY <1>5 DEF Session
  <2> QED BY <2>2, <2>3, <2>4, <2>5 DEF Versions
<1> HIDE DEF i, r
<1>17. UNCHANGED <<today, starts, backups>>
  BY <1>1 DEF Done
<1>18. UNCHANGED <<today, {[id |-> x.id, level |-> x.level] : x \in starts}, backups>>
  BY <1>17
<1>19. Record!Answer(l, a.date)
  BY <1>2, <1>8, <1>10, <1>11, <1>13, <1>16, <1>18 DEF Record!Answer
<1> QED BY <1>3, <1>19

LEMMA BeginMaps ==
  ASSUME Inv, NEW t \in Tablets, BeginReading(t)
  PROVE  \E id \in Readings, level \in Levels : Record!Begin(id, level)
<1> DEFINE op == requests[t].op
           seen == requests[t].seen
           n == [id |-> op.reading, level |-> op.level, old |-> FALSE]
           kept == Started(Fresh(starts))
<1>1. requests[t].pc = "reading" /\ Done(t) /\ UNCHANGED <<sessions, ledger, told>>
      /\ op.kind = "begin" /\ Cardinality(Fresh(seen.starts)) < MaxStarts
      /\ starts' = Fresh(starts) \cup {n} /\ \A s \in seen.starts : s.id # op.reading
  BY DEF BeginReading, Reading, Fresh
<1>2. op.reading \in Readings /\ op.level \in Levels /\ SeenStands(requests[t])
  BY <1>1, WhatIsRead, OpKinds
<1>3. Fresh(starts) \subseteq seen.starts /\ IsFiniteSet(seen.starts)
      /\ Started(starts) = Started(seen.starts)
  BY <1>2 DEF SeenStands
<1>4. \A s \in Started(starts) : s.id # op.reading
  BY <1>1, <1>3 DEF Started
<1>5. Fresh(starts) \subseteq Fresh(seen.starts) /\ Fresh(seen.starts) \subseteq seen.starts
  BY <1>3 DEF Fresh
<1> HIDE DEF seen
<1>6. /\ IsFiniteSet(Fresh(starts)) /\ Cardinality(Fresh(starts)) \in Nat
      /\ Cardinality(Fresh(seen.starts)) \in Nat
      /\ Cardinality(Fresh(starts)) <= Cardinality(Fresh(seen.starts))
  <2>1. IsFiniteSet(Fresh(seen.starts))
    BY <1>3, <1>5, FS_Subset
  <2> QED BY <1>5, <2>1, FS_Subset, FS_CardinalityType
<1>7. Cardinality(kept) < MaxStarts
  <2> DEFINE f == [s \in Fresh(starts) |-> [id |-> s.id, level |-> s.level]]
  <2>1. f \in Surjection(Fresh(starts), kept)
    BY DEF Surjection, Started
  <2> HIDE DEF f, kept
  <2>2. IsFiniteSet(kept) /\ Cardinality(kept) <= Cardinality(Fresh(starts))
    BY <1>6, <2>1, FS_Surjection
  <2>3. Cardinality(kept) \in Nat
    BY <2>2, FS_CardinalityType
  <2> QED BY <1>1, <1>6, <2>2, <2>3, LearningAssumption
<1>8. kept \in SUBSET Started(starts)
  BY DEF Started, Fresh
<1>9. Started(starts') = kept \cup {[id |-> op.reading, level |-> op.level]}
  <2>1. n.id = op.reading /\ n.level = op.level
    OBVIOUS
  <2> HIDE DEF n
  <2>2. \A A : Started(A \cup {n}) = Started(A) \cup {[id |-> n.id, level |-> n.level]}
    BY DEF Started
  <2> QED BY <1>1, <2>1, <2>2
<1>10. UNCHANGED <<today, sessions, ledger, backups>>
  BY <1>1 DEF Done
<1> HIDE DEF kept, n
<1>11. Record!Cardinality(kept) < MaxStarts
  BY <1>7, SameCount
<1>12. PICK id \in Readings, level \in Levels : id = op.reading /\ level = op.level
  BY <1>2
<1>13. Record!Begin(id, level)
  BY <1>4, <1>8, <1>9, <1>10, <1>11, <1>12, Zenon DEF Record!Begin, Started
<1> QED BY <1>13

LEMMA CompleteMaps ==
  ASSUME Inv, Dated, NEW t \in Tablets, CompleteReading(t)
  PROVE  \E id \in Readings, level \in Levels : \E date \in 1 .. today : Record!Complete(id, level, date)
<1>1. requests[t].pc = "reading" /\ Done(t) /\ sessions' = sessions
  BY DEF CompleteReading, Reading
<1>2. PICK r \in Reward :
           /\ r.source = "reading" /\ r.key \in Readings
           /\ \A q \in ledger : ~(q.source = "reading" /\ q.key = r.key)
           /\ ledger' = ledger \cup {r}
           /\ starts' = {s \in starts : s.id # r.key}
           /\ r.level \in Levels /\ r.date = requests[t].date
           /\ r.stars = AtMost(r.level, Left(ReadingLimit, Earned(ledger, "reading", r.date)))
           /\ \E s \in requests[t].seen.starts : s.id = r.key /\ s.level = r.level
  BY CompletionIs
<1>3. r.date \in 1 .. today
  BY <1>1, <1>2 DEF Dated, Idle
<1>4. [id |-> r.key, level |-> r.level] \in Started(starts)
  <2>1. Started(starts) = Started(requests[t].seen.starts)
    BY <1>1, WhatIsRead DEF SeenStands
  <2> QED BY <1>2, <2>1 DEF Started
<1>5. Started(starts') = {s \in Started(starts) : s.id # r.key}
  BY <1>2 DEF Started
<1>6. r = [source |-> "reading", key |-> r.key, date |-> r.date, stars |-> r.stars, level |-> r.level]
  BY <1>2 DEF Reward
<1>7. r.stars \in 0 .. r.level
      /\ Record!Fair(r.stars, r.level, ReadingLimit, Record!Earned("reading", r.date))
  <2>1. Earned(ledger, "reading", r.date) \in Nat
    <3>1. IsFiniteSet(ledger) /\ ledger \in SUBSET Reward
      BY DEF Inv, TablesOK, TypedTables
    <3>2. \A q \in Rows(ledger, "reading", r.date) : q.stars \in Nat
      BY <3>1, RewardsAreTyped DEF Rows
    <3> QED BY <3>1, <3>2, EarnedIs
  <2>2. r.level \in Nat /\ ReadingLimit \in Nat
    BY <1>2, LearningAssumption
  <2> QED BY <1>2, <2>1, <2>2, LeftIsFair, SameSums
<1>8. UNCHANGED <<today, sessions, backups>>
  BY <1>1 DEF Done
<1>9. \A q \in ledger : q.source = "reading" => q.key # r.key
  BY <1>2
<1>10. ledger' = ledger \cup {[source |-> "reading", key |-> r.key, date |-> r.date,
                               stars |-> r.stars, level |-> r.level]}
  BY <1>2, <1>6
<1>11. Record!Complete(r.key, r.level, r.date)
  BY <1>4, <1>5, <1>7, <1>8, <1>9, <1>10, Zenon DEF Record!Complete, Started
<1> QED BY <1>2, <1>3, <1>11

\* Every step is a step of the record, or none of it.
LEMMA NextMaps == Inv /\ Dated /\ [Next]_vars => [Record!Next]_(Record!vars)
<1> SUFFICES ASSUME Inv, Dated, [Next]_vars PROVE Record!Next \/ UNCHANGED Record!vars
  OBVIOUS
<1>1. ASSUME UNCHANGED <<today, sessions, ledger, backups>>, Started(starts') = Started(starts)
      PROVE  UNCHANGED Record!vars
  BY <1>1 DEF Record!vars, Started
<1>2. ASSUME NEW t \in Tablets, TabletStep(t) PROVE Record!Next \/ UNCHANGED Record!vars
  <2>1. ASSUME NEW op \in Ops, Arrive(t, op) PROVE UNCHANGED Record!vars
    BY <1>1, <2>1 DEF Arrive
  <2>2. CASE Read(t)
    BY <1>1, <2>2 DEF Read
  <2>3. CASE Respond(t)
    BY <1>1, <2>3 DEF Respond, Done
  <2>4. CASE StartMath(t)
    BY <2>4, StartMaps DEF Record!Next
  <2>5. CASE AnswerMath(t)
    BY <2>5, AnswerMaps DEF Record!Next
  <2>6. CASE BeginReading(t)
    BY <2>6, BeginMaps DEF Record!Next
  <2>7. CASE CompleteReading(t)
    BY <2>7, CompleteMaps DEF Record!Next
  <2>8. CASE ReplayReading(t)
    BY <1>1, <2>8 DEF ReplayReading, Done
  <2> QED BY <1>2, <2>1, <2>2, <2>3, <2>4, <2>5, <2>6, <2>7, <2>8 DEF TabletStep
<1>3. ASSUME NEW l \in Lessons, FinishMath(l) PROVE Record!Next
  <2>1. Record!Finish(l)
    BY <1>3 DEF FinishMath, Record!Finish
  <2> QED BY <2>1 DEF Record!Next
<1>4. ASSUME NEW s \in starts, StartAges(s) PROVE UNCHANGED Record!vars
  <2>1. PICK x \in Start : x = s
    BY DEF Inv, TablesOK
  <2>2. [x EXCEPT !.old = TRUE].id = x.id /\ [x EXCEPT !.old = TRUE].level = x.level
    BY DEF Start
  <2>3. starts' = (starts \ {s}) \cup {[s EXCEPT !.old = TRUE]}
        /\ UNCHANGED <<today, sessions, ledger, backups>>
    BY <1>4 DEF StartAges
  <2>4. Started(starts') = Started(starts)
    BY <2>1, <2>2, <2>3 DEF Started
  <2> QED BY <1>1, <2>3, <2>4
<1>5. ASSUME NEW b \in backups, Import(b) PROVE Record!Next
  <2>1. Record!Restore(b)
    BY <1>5 DEF Import, Record!Restore
  <2> QED BY <2>1 DEF Record!Next
<1>6. CASE Midnight
  <2>1. Record!Midnight
    BY <1>6 DEF Midnight, Record!Midnight
  <2> QED BY <2>1 DEF Record!Next
<1>7. CASE Export
  <2>1. Record!Export
    BY <1>7 DEF Export, Record!Export
  <2> QED BY <2>1 DEF Record!Next
<1>8. CASE UNCHANGED vars
  BY <1>1, <1>8 DEF vars
<1> QED BY <1>2, <1>3, <1>4, <1>5, <1>6, <1>7, <1>8 DEF Next

(***************************************************************************)
(* AnswerMath, CreateMathSession, StartReading and CompleteReading, which  *)
(* read under the child's row and write later, are each one step on the    *)
(* record as it is: a child gets exactly what the day's budget leaves.     *)
(***************************************************************************)
THEOREM SerialRequests == Spec => RequestsAreSerial
<1>1. Spec => []Dated
  <2>1. Inv /\ Dated /\ [Next]_vars => Dated'
    BY DatedHolds
  <2> QED BY <2>1, InitDated, InvHolds, PTL DEF Spec
<1>2. Init => Record!Init
  BY InitMaps
<1>3. Inv /\ Dated /\ [Next]_vars => [Record!Next]_(Record!vars)
  BY NextMaps
<1> QED BY <1>1, <1>2, <1>3, InvHolds, PTL DEF Spec, RequestsAreSerial, Record!Spec
=============================================================================
