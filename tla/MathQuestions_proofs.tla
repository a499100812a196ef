------------------------ MODULE MathQuestions_proofs ------------------------
(***************************************************************************)
(* Every question that NewMathSession may draw, with the options that go   *)
(* with it, passes Validate, for all settings; so the lessons of an export *)
(* are accepted by the import as far as their questions are concerned.     *)
(* And the work in columns is right for every question: what Work computes *)
(* digit by digit is what the four operations mean.                        *)
(***************************************************************************)
EXTENDS MathQuestions, FiniteSetTheorems, SequenceTheorems, TLAPS

\* A product is divided by its first factor without remainder; the divisors of a
\* lesson are small, and for each of them this is linear.
LEMMA MultiplesDivide ==
  ASSUME NEW b \in 1 .. 12, NEW r \in Nat
  PROVE  b * r \in Nat /\ (b * r) % b = 0 /\ (b * r) \div b = r
<1>1. \/ b = 1 \/ b = 2 \/ b = 3 \/ b = 4 \/ b = 5 \/ b = 6
      \/ b = 7 \/ b = 8 \/ b = 9 \/ b = 10 \/ b = 11 \/ b = 12
  OBVIOUS
<1>2. CASE b = 1 BY <1>2
<1>3. CASE b = 2 BY <1>3
<1>4. CASE b = 3 BY <1>4
<1>5. CASE b = 4 BY <1>5
<1>6. CASE b = 5 BY <1>6
<1>7. CASE b = 6 BY <1>7
<1>8. CASE b = 7 BY <1>8
<1>9. CASE b = 8 BY <1>9
<1>10. CASE b = 9 BY <1>10
<1>11. CASE b = 10 BY <1>11
<1>12. CASE b = 11 BY <1>12
<1>13. CASE b = 12 BY <1>13
<1> QED
  BY <1>1, <1>2, <1>3, <1>4, <1>5, <1>6, <1>7, <1>8, <1>9, <1>10, <1>11, <1>12, <1>13

\* A product of small factors is within a bound.
LEMMA SmallProduct ==
  ASSUME NEW b \in 1 .. 12, NEW r \in 0 .. 100
  PROVE  b * r \in 0 .. 1200
<1>1. \/ b = 1 \/ b = 2 \/ b = 3 \/ b = 4 \/ b = 5 \/ b = 6
      \/ b = 7 \/ b = 8 \/ b = 9 \/ b = 10 \/ b = 11 \/ b = 12
  OBVIOUS
<1> QED BY <1>1

\* The ranges of the draws.
LEMMA DrawRanges ==
  ASSUME NEW s \in MathSettings
  PROVE  /\ Largest(s) \in {10, 25, 100} /\ Factor(s) \in {10, 12}
         /\ Numbers(s) \subseteq 0 .. 999
<1>1. Largest(s) \in {10, 25, 100}
  BY DEF Largest
<1>2. Factor(s) \in {10, 12}
  BY <1>1 DEF Factor
<1> QED
  BY <1>1, <1>2 DEF Numbers

LEMMA DrawnIsInRange ==
  ASSUME NEW s \in MathSettings, NEW q \in Drawn(s)
  PROVE  /\ q.left \in 0 .. 2000 /\ q.right \in 0 .. 1000
         /\ s.operation = ":" => q.right # 0 /\ q.left % q.right = 0
         /\ s.operation = "-" /\ ~Negative(s) => q.right <= q.left
<1>1. s.operation \in {"+", "-", "*", ":"}
  BY DEF MathSettings
<1>2. CASE s.operation = "+"
  BY <1>2, DrawRanges DEF Drawn
<1>3. CASE s.operation = "-"
  BY <1>3, DrawRanges DEF Drawn
<1>4. CASE s.operation = "*"
  BY <1>4, DrawRanges DEF Drawn
<1>5. CASE s.operation = ":"
  <2>1. PICK b \in 1 .. 12, r \in 0 .. 100 : q = [left |-> b * r, right |-> b]
    <3>1. CASE Columnar(s)
      BY <1>5, <3>1 DEF Drawn
    <3>2. CASE ~Columnar(s)
      BY <1>5, <3>2, DrawRanges DEF Drawn
    <3> QED BY <3>1, <3>2
  <2>2. q.left = b * r /\ q.right = b
    BY <2>1
  <2>3. b * r \in 0 .. 1200
    BY SmallProduct
  <2>4. (b * r) % b = 0
    BY MultiplesDivide
  <2> QED
    BY <1>5, <2>2, <2>3, <2>4
<1> QED
  BY <1>1, <1>2, <1>3, <1>4, <1>5

(***************************************************************************)
(* Every question that may be drawn for any settings, with any options     *)
(* that may be collected for it, passes the validation of a backup.        *)
(***************************************************************************)
THEOREM DrawnIsValid ==
  ASSUME NEW s \in MathSettings, NEW q \in Drawn(s), NEW o \in Options(s, q)
  PROVE  ValidQuestion(s, q, o)
<1>1. IF s.answerMode = "choice" THEN Cardinality(o) = 4 /\ Result(s, q) \in o ELSE o = {}
  <2>1. CASE s.answerMode = "choice"
    BY <2>1 DEF Options
  <2>2. CASE s.answerMode # "choice"
    BY <2>2 DEF Options
  <2> QED BY <2>1, <2>2
<1> QED
  BY <1>1, DrawnIsInRange DEF ValidQuestion

\* Sums and differences of numbers in range.
LEMMA SumsAndDifferences ==
  ASSUME NEW a, NEW b, a \in 0 .. 2000, b \in 0 .. 1000
  PROVE  a + b \in Int /\ a + b >= 0 /\ a - b \in Int /\ (b <= a => a - b >= 0)
OBVIOUS

\* The result of a question that may be drawn is an integer, and negative only if
\* the settings allow it.
LEMMA ResultInRange ==
  ASSUME NEW s \in MathSettings, NEW q \in Drawn(s), s.answerMode = "choice"
  PROVE  Result(s, q) \in Int /\ (s.allowNegative \/ Result(s, q) >= 0)
<1>1. s.operation \in {"+", "-", "*", ":"} /\ ~Columnar(s) /\ s.allowNegative \in BOOLEAN
  BY DEF MathSettings, Columnar
<1>2. q.left \in 0 .. 2000 /\ q.right \in 0 .. 1000
  BY DrawnIsInRange
<1>3. CASE s.operation = "+"
  <2>1. Result(s, q) = q.left + q.right
    BY <1>3 DEF Result
  <2>2. q.left + q.right \in Int /\ q.left + q.right >= 0
    BY <1>2, SumsAndDifferences
  <2> QED BY <2>1, <2>2
<1>4. CASE s.operation = "-"
  <2>1. Result(s, q) = q.left - q.right
    BY <1>4 DEF Result
  <2>2. s.allowNegative \/ q.right <= q.left
    BY <1>1, <1>4, DrawnIsInRange DEF Negative
  <2>3. q.left - q.right \in Int /\ (q.right <= q.left => q.left - q.right >= 0)
    BY <1>2, SumsAndDifferences
  <2> QED BY <2>1, <2>2, <2>3
<1>5. CASE s.operation = "*"
  <2>1. q.left \in 0 .. 12 /\ q.right \in 0 .. 12
    BY <1>1, <1>5, DrawRanges DEF Drawn
  <2>2. q.left = 0 \/ q.left * q.right \in 0 .. 1200
    BY <2>1, SmallProduct
  <2>3. q.left * q.right \in Nat
    BY <2>1, <2>2
  <2> QED BY <1>5, <2>3 DEF Result
<1>6. CASE s.operation = ":"
  <2>1. PICK b \in 1 .. 12, r \in 0 .. 100 : q = [left |-> b * r, right |-> b]
    BY <1>1, <1>6, DrawRanges DEF Drawn
  <2>2. (b * r) \div b = r
    BY MultiplesDivide
  <2> QED BY <1>6, <2>1, <2>2 DEF Result
<1> QED BY <1>1, <1>3, <1>4, <1>5, <1>6

\* Four numbers in a row are four.
LEMMA FourNumbers ==
  ASSUME NEW v \in Int
  PROVE  Cardinality({v, v + 1, v + 2, v + 3}) = 4
<1>0. IsFiniteSet({v}) /\ Cardinality({v}) = 1
  BY FS_Singleton
<1>1. IsFiniteSet({v, v + 1}) /\ Cardinality({v, v + 1}) = 2
  <2>1. {v} \cup {v + 1} = {v, v + 1} /\ v + 1 \notin {v}
    OBVIOUS
  <2> QED BY <1>0, <2>1, FS_AddElement
<1>2. IsFiniteSet({v, v + 1, v + 2}) /\ Cardinality({v, v + 1, v + 2}) = 3
  <2>1. {v, v + 1} \cup {v + 2} = {v, v + 1, v + 2} /\ v + 2 \notin {v, v + 1}
    OBVIOUS
  <2> QED BY <1>1, <2>1, FS_AddElement
<1>3. {v, v + 1, v + 2} \cup {v + 3} = {v, v + 1, v + 2, v + 3} /\ v + 3 \notin {v, v + 1, v + 2}
  OBVIOUS
<1> QED BY <1>2, <1>3, FS_AddElement

(***************************************************************************)
(* The loop that collects four different options can always end: for every *)
(* question of a lesson with a choice there are options to be found.       *)
(***************************************************************************)
THEOREM OptionsCanBeFound ==
  ASSUME NEW s \in MathSettings, NEW q \in Drawn(s), s.answerMode = "choice"
  PROVE  Options(s, q) # {}
<1> DEFINE v == Result(s, q)
           o == {v, v + 1, v + 2, v + 3}
<1>1. v \in Int /\ (s.allowNegative \/ v >= 0)
  BY ResultInRange
<1>2. \A d \in 0 .. 3 : v + d \in Near(s, q)
  BY <1>1 DEF Near
<1>3. v \in Near(s, q) /\ v + 1 \in Near(s, q) /\ v + 2 \in Near(s, q) /\ v + 3 \in Near(s, q)
  <2>1. v + 0 = v BY <1>1
  <2> QED BY <1>2, <2>1
<1>4. o \in SUBSET (Near(s, q) \cup {Result(s, q)}) /\ Result(s, q) \in o
  BY <1>3
<1>5. Cardinality(o) = 4
  BY <1>1, FourNumbers
<1> HIDE DEF o
<1> QED BY <1>4, <1>5 DEF Options

-----------------------------------------------------------------------------
(* The places of numbers.                                                  *)

\* Powers of ten.
LEMMA Tens == /\ TenTo(0) = 1 /\ TenTo(1) = 10 /\ TenTo(2) = 100 /\ TenTo(3) = 1000 /\ TenTo(4) = 10000
              /\ TenTo(5) = 100000 /\ TenTo(6) = 1000000 /\ TenTo(7) = 10000000
BY DEF TenTo

LEMMA DigitsAre ==
  ASSUME NEW v \in Nat, v <= 9999
  PROVE  Digits(v) = IF v < 10 THEN 1 ELSE IF v < 100 THEN 2 ELSE IF v < 1000 THEN 3 ELSE 4
<1> DEFINE d == IF v < 10 THEN 1 ELSE IF v < 100 THEN 2 ELSE IF v < 1000 THEN 3 ELSE 4
           P(n) == v < TenTo(n) /\ (n = 1 \/ TenTo(n - 1) <= v)
<1>1. d \in 1 .. 7 /\ P(d)
  BY Tens
<1>2. ASSUME NEW n \in 1 .. 7, P(n)
      PROVE  n = d
  <2>1. CASE n = 1
    BY <1>2, <2>1, Tens
  <2>2. CASE n = 2
    BY <1>2, <2>2, Tens
  <2>3. CASE n = 3
    BY <1>2, <2>3, Tens
  <2>4. CASE n = 4
    BY <1>2, <2>4, Tens
  <2>5. CASE n > 4
    <3>1. n - 1 = 4 \/ n - 1 = 5 \/ n - 1 = 6
      BY <2>5
    <3>2. TenTo(n - 1) \in {10000, 100000, 1000000}
      <4>1. CASE n - 1 = 4
        BY <4>1, Tens, SMT
      <4>2. CASE n - 1 = 5
        BY <4>2, Tens, SMT
      <4>3. CASE n - 1 = 6
        BY <4>3, Tens, SMT
      <4> QED BY <3>1, <4>1, <4>2, <4>3, SMT
    <3>3. TenTo(n - 1) <= v /\ n # 1
      BY <1>2, <2>5
    <3>4. ASSUME NEW x \in {10000, 100000, 1000000}, x <= v
          PROVE  FALSE
      BY <3>4
    <3> QED BY <3>2, <3>3, <3>4, SMT
  <2>6. n = 1 \/ n = 2 \/ n = 3 \/ n = 4 \/ n > 4
    OBVIOUS
  <2> HIDE DEF d, P
  <2> QED BY <2>1, <2>2, <2>3, <2>4, <2>5, <2>6, SMT
<1>3. Digits(v) = CHOOSE n \in 1 .. 7 : P(n)
  BY DEF Digits
<1> HIDE DEF d, P
<1>4. (CHOOSE n \in 1 .. 7 : P(n)) = d
  BY <1>1, <1>2
<1> QED BY <1>3, <1>4 DEF d

\* Division by ten, one place at a time.
LEMMA ByTen ==
  ASSUME NEW v \in Nat
  PROVE  /\ v = 10 * (v \div 10) + (v % 10) /\ v % 10 \in 0 .. 9 /\ v \div 10 \in Nat
         /\ (v \div 10) \div 10 = v \div 100 /\ (v \div 100) \div 10 = v \div 1000
<1>1. v = 10 * (v \div 10) + (v % 10) /\ v % 10 \in 0 .. 9 /\ v \div 10 \in Nat
  OBVIOUS
<1>2. (v \div 10) \div 10 = v \div 100
  OBVIOUS
<1>3. (v \div 100) \div 10 = v \div 1000
  OBVIOUS
<1> QED BY <1>1, <1>2, <1>3

\* The places of a number of at most four digits.
LEMMA Places ==
  ASSUME NEW v \in Nat, v <= 9999
  PROVE  /\ Digit(v, 0) \in 0 .. 9 /\ Digit(v, 1) \in 0 .. 9
         /\ Digit(v, 2) \in 0 .. 9 /\ Digit(v, 3) \in 0 .. 9
         /\ v = Digit(v, 0) + 10 * Digit(v, 1) + 100 * Digit(v, 2) + 1000 * Digit(v, 3)
<1>1. /\ Digit(v, 0) = v % 10 /\ Digit(v, 1) = (v \div 10) % 10
      /\ Digit(v, 2) = (v \div 100) % 10 /\ Digit(v, 3) = (v \div 1000) % 10
  <2>1. Digit(v, 0) = (v \div 1) % 10
    BY Tens, SMT DEF Digit
  <2>2. Digit(v, 1) = (v \div 10) % 10
    BY Tens, SMT DEF Digit
  <2>3. Digit(v, 2) = (v \div 100) % 10
    BY Tens, SMT DEF Digit
  <2>4. Digit(v, 3) = (v \div 1000) % 10
    BY Tens, SMT DEF Digit
  <2>5. v \div 1 = v
    BY SMT
  <2> QED BY <2>1, <2>2, <2>3, <2>4, <2>5, SMT
<1>2. v \div 10 \in Nat /\ v \div 100 \in Nat /\ v \div 1000 \in 0 .. 9
  OBVIOUS
<1>3. v = 10 * (v \div 10) + (v % 10) /\ v % 10 \in 0 .. 9
  BY ByTen
<1>4. v \div 10 = 10 * (v \div 100) + ((v \div 10) % 10) /\ (v \div 10) % 10 \in 0 .. 9
  BY <1>2, ByTen
<1>5. v \div 100 = 10 * (v \div 1000) + ((v \div 100) % 10) /\ (v \div 100) % 10 \in 0 .. 9
  BY <1>2, ByTen
<1>6. (v \div 1000) % 10 = v \div 1000
  BY <1>2
<1> QED BY <1>1, <1>2, <1>3, <1>4, <1>5, <1>6

\* Four digits make one number.
LEMMA PlacesAreUnique ==
  ASSUME NEW a \in 0 .. 9, NEW b \in 0 .. 9, NEW c \in 0 .. 9, NEW d \in 0 .. 9,
         NEW w \in 0 .. 9, NEW x \in 0 .. 9, NEW y \in 0 .. 9, NEW z \in 0 .. 9,
         a + 10 * b + 100 * c + 1000 * d = w + 10 * x + 100 * y + 1000 * z
  PROVE  a = w /\ b = x /\ c = y /\ d = z
OBVIOUS

LEMMA LongerIs ==
  ASSUME NEW q, q.left \in Nat, q.left <= 999, q.right \in Nat, q.right <= 999
  PROVE  /\ Longer(q) \in 1 .. 3
         /\ q.left < TenTo(Longer(q)) /\ q.right < TenTo(Longer(q))
<1>1. q.left <= 9999 /\ q.right <= 9999
  BY SMT
<1>2. /\ Digits(q.left) = IF q.left < 10 THEN 1 ELSE IF q.left < 100 THEN 2 ELSE 3
      /\ Digits(q.right) = IF q.right < 10 THEN 1 ELSE IF q.right < 100 THEN 2 ELSE 3
  BY <1>1, DigitsAre, SMT
<1>3. CASE q.left < 10 /\ q.right < 10
  <2>1. Longer(q) = 1
    BY <1>2, <1>3, SMT DEF Longer
  <2> QED BY <1>3, <2>1, Tens, SMT
<1>4. CASE ~(q.left < 10 /\ q.right < 10) /\ q.left < 100 /\ q.right < 100
  <2>1. Longer(q) = 2
    BY <1>1, <1>2, <1>4, SMT DEF Longer
  <2> QED BY <1>1, <1>4, <2>1, Tens, SMT
<1>5. CASE ~(q.left < 100 /\ q.right < 100)
  <2>1. Longer(q) = 3
    BY <1>1, <1>2, <1>5, SMT DEF Longer
  <2> QED BY <1>1, <1>5, <2>1, Tens, SMT
<1> QED BY <1>3, <1>4, <1>5, SMT

-----------------------------------------------------------------------------
(* Sums and differences in columns.                                        *)

\* The carry or borrow that column i receives from the one before it.
NextCarry(s, q, i, c) ==
  IF s.operation = "+" THEN (Digit(q.left, i - 1) + Digit(q.right, i - 1) + c) \div 10
  ELSE IF Digit(q.left, i - 1) - c < Digit(q.right, i - 1) THEN 1 ELSE 0

\* The recursion of the carries has a value.
LEMMA CarriesAre ==
  ASSUME NEW s \in MathSettings, NEW q, q.left \in Nat, q.left <= 999, q.right \in Nat, q.right <= 999
  PROVE  /\ Carries(s, q)[0] = 0
         /\ \A i \in 1 .. Longer(q) : Carries(s, q)[i] = NextCarry(s, q, i, Carries(s, q)[i - 1])
<1> DEFINE C(g) == [i \in 0 .. Longer(q) |-> IF i = 0 THEN 0 ELSE NextCarry(s, q, i, g[i - 1])]
           first == NextCarry(s, q, 1, 0)
           second == NextCarry(s, q, 2, first)
           byHand == [i \in 0 .. Longer(q) |->
             IF i = 0 THEN 0 ELSE IF i = 1 THEN first
             ELSE IF i = 2 THEN second ELSE NextCarry(s, q, 3, second)]
<1>0. Longer(q) \in 1 .. 3
  BY LongerIs
<1>1. Carries(s, q) = CHOOSE g : g = C(g)
  BY DEF Carries, NextCarry
<1>2. byHand = C(byHand)
  <2>2. ASSUME NEW i \in 0 .. Longer(q)
        PROVE  byHand[i] = C(byHand)[i]
    <3>1. i = 0 \/ i = 1 \/ i = 2 \/ i = 3
      BY <1>0
    <3> QED BY <1>0, <3>1
  <2> QED BY <2>2
<1> HIDE DEF byHand, C
<1>3. Carries(s, q) = C(Carries(s, q))
  BY <1>1, <1>2
<1>4. C(Carries(s, q))[0] = 0
  BY <1>0 DEF C
<1>5. \A i \in 1 .. Longer(q) : C(Carries(s, q))[i] = NextCarry(s, q, i, Carries(s, q)[i - 1])
  BY <1>0 DEF C
<1> QED BY <1>3, <1>4, <1>5

\* One column of an addition or a subtraction.
LEMMA OneColumn ==
  ASSUME NEW a \in 0 .. 9, NEW b \in 0 .. 9, NEW c \in {0, 1}
  PROVE  /\ (a + b + c) \div 10 \in {0, 1}
         /\ a + b + c - 10 * ((a + b + c) \div 10) \in 0 .. 9
         /\ a - c < b => a - b - c + 10 \in 0 .. 9
         /\ ~(a - c < b) => a - b - c \in 0 .. 9
BY SMT

\* A number below 10 ^ n has n places.
LEMMA FewPlaces ==
  ASSUME NEW v \in Nat, v <= 9999
  PROVE  /\ v < 1000 => Digit(v, 3) = 0
         /\ v < 100 => Digit(v, 2) = 0
         /\ v < 10 => Digit(v, 1) = 0
<1>1. ASSUME NEW a \in 0 .. 9, NEW b \in 0 .. 9, NEW c \in 0 .. 9, NEW d \in 0 .. 9,
             v = a + 10 * b + 100 * c + 1000 * d
      PROVE  (v < 1000 => d = 0) /\ (v < 100 => c = 0) /\ (v < 10 => b = 0)
  BY <1>1, SMT
<1> DEFINE a == Digit(v, 0)
           b == Digit(v, 1)
           c == Digit(v, 2)
           d == Digit(v, 3)
<1>2. /\ a \in 0 .. 9 /\ b \in 0 .. 9 /\ c \in 0 .. 9 /\ d \in 0 .. 9
      /\ v = a + 10 * b + 100 * c + 1000 * d
  BY Places, SMT
<1> HIDE DEF a, b, c, d
<1>3. /\ v < 1000 => d = 0
      /\ v < 100 => c = 0
      /\ v < 10 => b = 0
  <2>1. v < 1000 => d = 0
    BY <1>2, SMT
  <2>2. v < 100 => c = 0
    BY <1>2, SMT
  <2>3. v < 10 => b = 0
    BY <1>2, SMT
  <2> QED BY <2>1, <2>2, <2>3
<1> QED BY <1>3 DEF b, c, d

\* A number put together from its places has them as its digits.
Writes(v, a, b, c, d) ==
  /\ a \in 0 .. 9 /\ b \in 0 .. 9 /\ c \in 0 .. 9 /\ d \in 0 .. 9
  /\ v = a + 10 * b + 100 * c + 1000 * d

LEMMA PutTogether ==
  ASSUME NEW v, NEW a, NEW b, NEW c, NEW d, Writes(v, a, b, c, d)
  PROVE  Digit(v, 0) = a /\ Digit(v, 1) = b /\ Digit(v, 2) = c /\ Digit(v, 3) = d
<1> USE DEF Writes
<1>1. v \in Nat /\ v <= 9999
  BY SMT
<1> DEFINE w == Digit(v, 0)
           x == Digit(v, 1)
           y == Digit(v, 2)
           z == Digit(v, 3)
<1>2. /\ w \in 0 .. 9 /\ x \in 0 .. 9 /\ y \in 0 .. 9 /\ z \in 0 .. 9
      /\ v = w + 10 * x + 100 * y + 1000 * z
  BY <1>1, Places, SMT
<1> HIDE DEF w, x, y, z
<1>3. w = a /\ x = b /\ y = c /\ z = d
  BY <1>2, SMT
<1> QED BY <1>3 DEF w, x, y, z

\* The result of an addition or a subtraction, column by column.
LEMMA ColumnsAdd ==
  ASSUME NEW s \in MathSettings, s.operation \in {"+", "-"},
         NEW q, q.left \in Nat, q.left <= 999, q.right \in Nat, q.right <= 999,
         s.operation = "-" => q.right <= q.left
  PROVE  ColumnsAreRight(s, q)
<1> DEFINE n == Longer(q)
           sign == IF s.operation = "+" THEN 1 ELSE -1
           r == Result(s, q)
           a(i) == Digit(q.left, i)
           b(i) == Digit(q.right, i)
           C(i) == Carries(s, q)[i]
           t(i) == a(i) + sign * (b(i) + C(i) - 10 * C(i + 1))
<1>1. n \in 1 .. 3 /\ q.left < TenTo(n) /\ q.right < TenTo(n)
  BY LongerIs
<1>2. q.left <= 9999 /\ q.right <= 9999
  BY SMT
<1>3. /\ r \in Nat /\ r <= 9999
      /\ s.operation = "+" => r = q.left + q.right
      /\ s.operation = "-" => r = q.left - q.right
  BY <1>2, SMT DEF Result
<1>4. \A i \in {0, 1, 2} : a(i) \in 0 .. 9 /\ b(i) \in 0 .. 9
  BY <1>2, Places, SMT
<1>5. /\ q.left = a(0) + 10 * a(1) + 100 * a(2) /\ q.right = b(0) + 10 * b(1) + 100 * b(2)
      /\ n < 3 => a(2) = 0 /\ b(2) = 0
      /\ n < 2 => a(1) = 0 /\ b(1) = 0
  <2>1. /\ q.left = a(0) + 10 * a(1) + 100 * a(2) + 1000 * a(3)
        /\ q.right = b(0) + 10 * b(1) + 100 * b(2) + 1000 * b(3)
    BY <1>2, Places, SMT
  <2>2. a(3) = 0 /\ b(3) = 0
    BY <1>2, FewPlaces, SMT
  <2>3. n < 3 => q.left < 100 /\ q.right < 100
    <3>1. CASE n = 1
      BY <1>1, <3>1, Tens, SMT
    <3>2. CASE n = 2
      BY <1>1, <3>2, Tens, SMT
    <3> QED BY <1>1, <3>1, <3>2, SMT
  <2>4. n < 2 => q.left < 10 /\ q.right < 10
    <3>1. CASE n = 1
      BY <1>1, <3>1, Tens, SMT
    <3> QED BY <1>1, <3>1, SMT
  <2>5. (n < 3 => a(2) = 0 /\ b(2) = 0) /\ (n < 2 => a(1) = 0 /\ b(1) = 0)
    BY <1>2, <2>3, <2>4, FewPlaces, SMT
  <2>6. a(0) \in 0 .. 9 /\ a(1) \in 0 .. 9 /\ a(2) \in 0 .. 9 /\ b(0) \in 0 .. 9 /\ b(1) \in 0 .. 9 /\ b(2) \in 0 .. 9
    BY <1>4, SMT
  <2> HIDE DEF a, b, n
  <2> QED BY <2>1, <2>2, <2>5, <2>6, SMT
<1>6. C(0) = 0
  BY CarriesAre
<1>7. ASSUME NEW i \in {0, 1, 2}, i < n, C(i) \in {0, 1}
      PROVE  /\ C(i + 1) \in {0, 1} /\ t(i) \in 0 .. 9
             /\ s.operation = "+" => t(i) = a(i) + b(i) + C(i) - 10 * C(i + 1)
             /\ s.operation = "-" => t(i) = a(i) - b(i) - C(i) + 10 * C(i + 1)
  <2>1. C(i + 1) = NextCarry(s, q, i + 1, C(i))
    <3>1. i + 1 \in 1 .. n /\ (i + 1) - 1 = i
      BY <1>1, <1>7, SMT
    <3>2. \A j \in 1 .. n : Carries(s, q)[j] = NextCarry(s, q, j, Carries(s, q)[j - 1])
      BY CarriesAre
    <3> QED BY <3>1, <3>2
  <2>2. C(i + 1) = IF s.operation = "+" THEN (a(i) + b(i) + C(i)) \div 10
                   ELSE IF a(i) - C(i) < b(i) THEN 1 ELSE 0
    <3>1. (i + 1) - 1 = i
      BY <1>7, SMT
    <3> QED BY <2>1, <3>1 DEF NextCarry
  <2>3. a(i) \in 0 .. 9 /\ b(i) \in 0 .. 9
    BY <1>4, <1>7
  <2> HIDE DEF a, b, C
  <2> QED BY <1>7, <2>2, <2>3, OneColumn, SMT
<1> HIDE DEF n, r, a, b, C, t
<1>8. SUFFICES /\ \A i \in {0, 1, 2} : i < n => Digit(r, i) = t(i)
               /\ C(n) = r \div TenTo(n)
  <2>1. \A i \in 0 .. n - 1 : i \in {0, 1, 2} /\ i < n
    BY <1>1, SMT
  <2> QED BY <1>8, <2>1 DEF ColumnsAreRight, n, r, a, b, C, t
<1>9. C(0) \in {0, 1} /\ C(0) = 0
  BY <1>6
<1>10. \A i \in {0, 1, 2} : a(i) \in 0 .. 9 /\ b(i) \in 0 .. 9
  BY <1>4 DEF a, b
<1> DEFINE a0 == a(0)
           a1 == a(1)
           a2 == a(2)
           b0 == b(0)
           b1 == b(1)
           b2 == b(2)
           c1 == C(1)
           c2 == C(2)
           c3 == C(3)
           t0 == t(0)
           t1 == t(1)
           t2 == t(2)
           left == q.left
           right == q.right
<1>11. /\ a0 \in 0 .. 9 /\ a1 \in 0 .. 9 /\ a2 \in 0 .. 9
       /\ b0 \in 0 .. 9 /\ b1 \in 0 .. 9 /\ b2 \in 0 .. 9
       /\ left = a0 + 10 * a1 + 100 * a2 /\ right = b0 + 10 * b1 + 100 * b2
       /\ n < 3 => a2 = 0 /\ b2 = 0
       /\ n < 2 => a1 = 0 /\ b1 = 0
       /\ r \in Nat
       /\ s.operation = "+" => r = left + right
       /\ s.operation = "-" => r = left - right
  BY <1>3, <1>5, <1>10
<1>12. /\ c1 \in {0, 1} /\ t0 \in 0 .. 9
       /\ s.operation = "+" => t0 = a0 + b0 - 10 * c1
       /\ s.operation = "-" => t0 = a0 - b0 + 10 * c1
  BY <1>1, <1>7, <1>9, <1>10, SMT
<1>13. ASSUME 1 < n
       PROVE  /\ c2 \in {0, 1} /\ t1 \in 0 .. 9
              /\ s.operation = "+" => t1 = a1 + b1 + c1 - 10 * c2
              /\ s.operation = "-" => t1 = a1 - b1 - c1 + 10 * c2
  BY <1>7, <1>12, <1>13, SMT
<1>14. ASSUME 2 < n
       PROVE  /\ c3 \in {0, 1} /\ t2 \in 0 .. 9
              /\ s.operation = "+" => t2 = a2 + b2 + c2 - 10 * c3
              /\ s.operation = "-" => t2 = a2 - b2 - c2 + 10 * c3
  <2>1. 1 < n
    BY <1>1, <1>14, SMT
  <2> QED BY <1>7, <1>13, <1>14, <2>1, SMT
<1>15. CASE n = 1
  <2> SUFFICES r = t0 + 10 * c1 /\ Digit(r, 0) = t0 /\ c1 = r \div 10
    BY <1>15, Tens, SMT
  <2> HIDE DEF a0, a1, a2, b0, b1, b2, c1, c2, c3, t0, t1, t2, left, right
  <2>1. r = t0 + 10 * c1
    <3>1. CASE s.operation = "+"
      BY <1>11, <1>12, <1>15, <3>1, SMT
    <3>2. CASE s.operation = "-"
      BY <1>11, <1>12, <1>15, <3>2, SMT
    <3> QED BY <3>1, <3>2
  <2>2. r \div 10 = c1
    BY <1>12, <2>1, SMT
  <2>3. Writes(r, t0, c1, 0, 0)
    BY <1>12, <2>1, SMT DEF Writes
  <2>4. Digit(r, 0) = t0
    BY <2>3, PutTogether
  <2> QED BY <2>1, <2>2, <2>4
<1>16. CASE n = 2
  <2>0. /\ c2 \in {0, 1} /\ t1 \in 0 .. 9
        /\ s.operation = "+" => t1 = a1 + b1 + c1 - 10 * c2
        /\ s.operation = "-" => t1 = a1 - b1 - c1 + 10 * c2
    BY <1>1, <1>13, <1>16, SMT
  <2> SUFFICES r = t0 + 10 * t1 + 100 * c2 /\ Digit(r, 0) = t0 /\ Digit(r, 1) = t1 /\ c2 = r \div 100
    BY <1>16, Tens, SMT
  <2> HIDE DEF a0, a1, a2, b0, b1, b2, c1, c2, c3, t0, t1, t2, left, right
  <2>1. r = t0 + 10 * t1 + 100 * c2
    <3>1. CASE s.operation = "+"
      BY <1>11, <1>12, <1>16, <2>0, <3>1, SMT
    <3>2. CASE s.operation = "-"
      BY <1>11, <1>12, <1>16, <2>0, <3>2, SMT
    <3> QED BY <3>1, <3>2
  <2>2. r \div 100 = c2
    BY <1>12, <2>0, <2>1, SMT
  <2>3. Writes(r, t0, t1, c2, 0)
    BY <1>12, <2>0, <2>1, SMT DEF Writes
  <2>4. Digit(r, 0) = t0 /\ Digit(r, 1) = t1
    BY <2>3, PutTogether
  <2> QED BY <2>1, <2>2, <2>4
<1>17. CASE n = 3
  <2>0. /\ c2 \in {0, 1} /\ t1 \in 0 .. 9
        /\ s.operation = "+" => t1 = a1 + b1 + c1 - 10 * c2
        /\ s.operation = "-" => t1 = a1 - b1 - c1 + 10 * c2
        /\ c3 \in {0, 1} /\ t2 \in 0 .. 9
        /\ s.operation = "+" => t2 = a2 + b2 + c2 - 10 * c3
        /\ s.operation = "-" => t2 = a2 - b2 - c2 + 10 * c3
    BY <1>1, <1>13, <1>14, <1>17, SMT
  <2> SUFFICES /\ r = t0 + 10 * t1 + 100 * t2 + 1000 * c3 /\ Digit(r, 0) = t0
               /\ Digit(r, 1) = t1 /\ Digit(r, 2) = t2 /\ c3 = r \div 1000
    BY <1>17, Tens, SMT
  <2> HIDE DEF a0, a1, a2, b0, b1, b2, c1, c2, c3, t0, t1, t2, left, right
  <2>1. r = t0 + 10 * t1 + 100 * t2 + 1000 * c3
    <3>1. CASE s.operation = "+"
      BY <1>11, <1>12, <2>0, <3>1, SMT
    <3>2. CASE s.operation = "-"
      <4>1. r = t0 + 10 * t1 + 100 * t2 - 1000 * c3
        BY <1>11, <1>12, <2>0, <3>2, SMT
      <4>2. c3 = 0
        BY <1>11, <1>12, <2>0, <4>1, SMT
      <4> QED BY <1>12, <2>0, <4>1, <4>2, SMT
    <3> QED BY <3>1, <3>2
  <2>2. r \div 1000 = c3
    BY <1>12, <2>0, <2>1, SMT
  <2>3. Writes(r, t0, t1, t2, c3)
    BY <1>12, <2>0, <2>1, SMT DEF Writes
  <2>4. Digit(r, 0) = t0 /\ Digit(r, 1) = t1 /\ Digit(r, 2) = t2
    BY <2>3, PutTogether
  <2> QED BY <2>1, <2>2, <2>4
<1> QED BY <1>1, <1>15, <1>16, <1>17, SMT

\* A carry or a borrow is a one or nothing.
LEMMA CarriesAreBits ==
  ASSUME NEW s \in MathSettings,
         NEW q, q.left \in Nat, q.left <= 999, q.right \in Nat, q.right <= 999
  PROVE  \A i \in 1 .. Longer(q) : Carries(s, q)[i] \in {0, 1}
<1> DEFINE n == Longer(q)
           C(i) == Carries(s, q)[i]
<1>1. n \in 1 .. 3 /\ q.left <= 9999 /\ q.right <= 9999
  BY LongerIs
<1>2. \A i \in {0, 1, 2} : Digit(q.left, i) \in 0 .. 9 /\ Digit(q.right, i) \in 0 .. 9
  BY <1>1, Places, SMT
<1>3. C(0) = 0 /\ \A i \in 1 .. n : C(i) = NextCarry(s, q, i, C(i - 1))
  BY CarriesAre
<1> HIDE DEF n, C
<1>4. ASSUME NEW i \in 1 .. n, C(i - 1) \in {0, 1}
      PROVE  C(i) \in {0, 1}
  <2>1. i - 1 \in {0, 1, 2}
    BY <1>1, SMT
  <2>2. Digit(q.left, i - 1) \in 0 .. 9 /\ Digit(q.right, i - 1) \in 0 .. 9
    BY <1>2, <2>1
  <2>3. C(i) = IF s.operation = "+" THEN (Digit(q.left, i - 1) + Digit(q.right, i - 1) + C(i - 1)) \div 10
               ELSE IF Digit(q.left, i - 1) - C(i - 1) < Digit(q.right, i - 1) THEN 1 ELSE 0
    BY <1>3 DEF NextCarry
  <2> QED BY <1>4, <2>2, <2>3, OneColumn
<1>5. /\ 1 - 1 = 0 /\ 2 - 1 = 1 /\ 3 - 1 = 2 /\ 1 \in 1 .. n
      /\ 1 < n => 2 \in 1 .. n
      /\ 2 < n => 3 \in 1 .. n /\ 2 \in 1 .. n
  BY <1>1, SMT
<1>6. C(1) \in {0, 1}
  BY <1>3, <1>4, <1>5
<1>7. 1 < n => C(2) \in {0, 1}
  BY <1>4, <1>5, <1>6
<1>8. 2 < n => C(3) \in {0, 1}
  <2>1. 2 < n => 1 < n
    BY <1>1, SMT
  <2> QED BY <1>4, <1>5, <1>7, <2>1
<1>9. \A i \in 1 .. n : i = 1 \/ (i = 2 /\ 1 < n) \/ (i = 3 /\ 2 < n)
  BY <1>1, SMT
<1> QED BY <1>6, <1>7, <1>8, <1>9 DEF n, C

-----------------------------------------------------------------------------
(* Products in rows.                                                       *)

\* The fold over places, for one place and for two.
LEMMA SumIs ==
  ASSUME NEW f, NEW n \in {1, 2}, \A i \in 1 .. n : f[i] \in Nat
  PROVE  Sum(f, n) = IF n = 1 THEN f[1] ELSE f[1] + f[2]
<1> DEFINE S(g) == [i \in 0 .. n |-> IF i = 0 THEN 0 ELSE g[i - 1] + f[i]]
           byHand == [i \in 0 .. n |-> IF i = 0 THEN 0 ELSE IF i = 1 THEN f[1] ELSE f[1] + f[2]]
           sum == CHOOSE g : g = S(g)
<1>1. Sum(f, n) = sum[n]
  BY DEF Sum
<1>2. byHand = S(byHand)
  <2>1. ASSUME NEW i \in 0 .. n
        PROVE  byHand[i] = S(byHand)[i]
    <3>0. f[1] \in Nat /\ (n = 2 => f[2] \in Nat)
      BY SMT
    <3>1. CASE i = 0
      BY <3>1
    <3>2. CASE i = 1
      BY <3>0, <3>2, SMT
    <3>3. CASE i = 2
      BY <3>0, <3>3, SMT
    <3> QED BY <3>1, <3>2, <3>3, SMT
  <2> QED BY <2>1
<1> HIDE DEF byHand, S
<1>3. sum = S(sum)
  BY <1>2
<1> HIDE DEF sum
<1>4. S(sum)[0] = 0 /\ \A i \in 1 .. n : S(sum)[i] = sum[i - 1] + f[i]
  BY SMT DEF S
<1>5. sum[0] = 0 /\ sum[1] = sum[0] + f[1] /\ (n = 2 => sum[2] = sum[1] + f[2])
  BY <1>3, <1>4, SMT
<1> QED BY <1>1, <1>5, SMT

\* The carries of one row of a multiplication.
LEMMA RowCarriesAre ==
  ASSUME NEW q, Digits(q.left) = 2, NEW digit
  PROVE  /\ RowCarries(q, digit)[0] = 0
         /\ RowCarries(q, digit)[1] = (Digit(q.left, 0) * digit + 0) \div 10
         /\ RowCarries(q, digit)[2] = (Digit(q.left, 1) * digit + RowCarries(q, digit)[1]) \div 10
<1> DEFINE C(g) == [i \in 0 .. 2 |-> IF i = 0 THEN 0 ELSE (Digit(q.left, i - 1) * digit + g[i - 1]) \div 10]
           first == (Digit(q.left, 0) * digit + 0) \div 10
           byHand == [i \in 0 .. 2 |-> IF i = 0 THEN 0 ELSE IF i = 1 THEN first
                                       ELSE (Digit(q.left, 1) * digit + first) \div 10]
           carry == CHOOSE g : g = C(g)
<1>1. RowCarries(q, digit) = carry
  BY DEF RowCarries
<1>2. byHand = C(byHand)
  <2>1. ASSUME NEW i \in 0 .. 2
        PROVE  byHand[i] = C(byHand)[i]
    <3> HIDE DEF first
    <3>1. i = 0 \/ i = 1 \/ i = 2
      OBVIOUS
    <3>2. CASE i = 1
      <4>1. byHand[1] = first /\ C(byHand)[1] = (Digit(q.left, 0) * digit + 0) \div 10
        BY SMT
      <4> QED BY <3>2, <4>1 DEF first
    <3>3. CASE i = 2
      BY <3>3, SMT
    <3>4. CASE i = 0
      BY <3>4
    <3> QED BY <3>1, <3>2, <3>3, <3>4
  <2> QED BY <2>1
<1> HIDE DEF byHand, C
<1>3. carry = C(carry)
  BY <1>2
<1> HIDE DEF carry
<1>4. /\ C(carry)[0] = 0
      /\ C(carry)[1] = (Digit(q.left, 0) * digit + carry[0]) \div 10
      /\ C(carry)[2] = (Digit(q.left, 1) * digit + carry[1]) \div 10
  BY SMT DEF C
<1> QED BY <1>1, <1>3, <1>4

\* The product of two digits.
LEMMA TwoDigits ==
  ASSUME NEW u \in 0 .. 9, NEW d \in 0 .. 9
  PROVE  u * d \in Nat /\ u * d <= 81
<1>1. u * d \in Nat /\ u * d <= 9 * d
  <2>1. u * d \in Nat /\ (9 - u) * d \in Nat
    BY SMT
  <2>2. (9 - u) * d = 9 * d - u * d
    BY SMT
  <2>3. \A m \in Int, k \in Int : m - k \in Nat => k <= m
    BY SMT
  <2> QED BY <2>1, <2>2, <2>3, SMT
<1>2. \A m \in Int : m <= 9 * d => m <= 81
  BY SMT
<1> QED BY <1>1, <1>2

\* Every row of a multiplication is the product with one digit, and they add up.
LEMMA RowsMultiply ==
  ASSUME NEW q, q.left \in Nat, 12 <= q.left, q.left <= 99,
         q.right \in Nat, 2 <= q.right, q.right <= 25
  PROVE  RowsAreRight(q)
<1> DEFINE a == Digit(q.left, 0)
           b == Digit(q.left, 1)
           x == Digit(q.right, 0)
           y == Digit(q.right, 1)
           rows == Digits(q.right)
           row(i) == Partial(q, Digit(q.right, i - 1)) * TenTo(i - 1)
           f == [i \in 1 .. rows |-> row(i)]
<1>1. Digits(q.left) = 2 /\ rows \in {1, 2} /\ (rows = 1 <=> q.right < 10)
  <2>1. Digits(q.left) = IF q.left < 10 THEN 1 ELSE IF q.left < 100 THEN 2 ELSE IF q.left < 1000 THEN 3 ELSE 4
    <3>1. q.left <= 9999
      BY SMT
    <3> QED BY <3>1, DigitsAre
  <2>2. rows = IF q.right < 10 THEN 1 ELSE IF q.right < 100 THEN 2 ELSE IF q.right < 1000 THEN 3 ELSE 4
    <3>1. q.right <= 9999
      BY SMT
    <3> QED BY <3>1, DigitsAre
  <2> QED BY <2>1, <2>2, SMT
<1>2. /\ a \in 0 .. 9 /\ b \in 0 .. 9 /\ q.left = a + 10 * b
      /\ x \in 0 .. 9 /\ y \in 0 .. 9 /\ q.right = x + 10 * y
      /\ rows = 1 => y = 0
  <2>1. q.left <= 9999 /\ q.right <= 9999
    BY SMT
  <2>2. /\ Digit(q.left, 2) = 0 /\ Digit(q.left, 3) = 0 /\ Digit(q.right, 2) = 0 /\ Digit(q.right, 3) = 0
        /\ rows = 1 => y = 0
    BY <1>1, <2>1, FewPlaces, SMT
  <2>3. /\ a \in 0 .. 9 /\ b \in 0 .. 9 /\ x \in 0 .. 9 /\ y \in 0 .. 9
        /\ q.left = a + 10 * b + 100 * Digit(q.left, 2) + 1000 * Digit(q.left, 3)
        /\ q.right = x + 10 * y + 100 * Digit(q.right, 2) + 1000 * Digit(q.right, 3)
    BY <2>1, Places
  <2> HIDE DEF a, b, x, y, rows
  <2> QED BY <2>2, <2>3, SMT
<1> HIDE DEF a, b, x, y
<1>3. ASSUME NEW d \in 0 .. 9
      PROVE  /\ \A j \in {0, 1} : Digit(Partial(q, d), j) = Digit(q.left, j) * d
                                    + RowCarries(q, d)[j] - 10 * RowCarries(q, d)[j + 1]
             /\ RowCarries(q, d)[2] = Partial(q, d) \div 100
  <2> DEFINE c == RowCarries(q, d)[1]
             e == RowCarries(q, d)[2]
             p == Partial(q, d)
             h == a * d
             k == b * d
             u == h - 10 * c
             v == k + c - 10 * e
  <2>1. RowCarries(q, d)[0] = 0 /\ c = (h + 0) \div 10 /\ e = (k + c) \div 10
    BY <1>1, RowCarriesAre DEF a, b
  <2>2. p = h + 10 * k
    <3>1. p = (a + 10 * b) * d
      BY <1>2 DEF Partial
    <3>2. (a + 10 * b) * d = a * d + 10 * (b * d)
      BY <1>2, SMT
    <3> QED BY <3>1, <3>2
  <2>3. h \in Nat /\ h <= 81 /\ k \in Nat /\ k <= 81
    BY <1>2, TwoDigits
  <2> HIDE DEF c, e, p, h, k
  <2>4. c \in 0 .. 8 /\ e \in 0 .. 9 /\ u \in 0 .. 9 /\ v \in 0 .. 9 /\ p = u + 10 * v + 100 * e /\ p \div 100 = e
    <3>1. c = h \div 10
      BY <2>1, <2>3, SMT
    <3>2. /\ c \in 0 .. 8 /\ e \in 0 .. 9 /\ u \in 0 .. 9 /\ v \in 0 .. 9
          /\ p = u + 10 * v + 100 * e
      BY <2>1, <2>2, <2>3, <3>1, SMT
    <3> HIDE DEF u, v
    <3>3. p \div 100 = e
      BY <3>2, SMT
    <3> QED BY <3>2, <3>3
  <2>5. h + 0 - 10 * c = u
    BY <2>3, <2>4, SMT
  <2> HIDE DEF u
  <2>6. k + c - 10 * e = v
    OBVIOUS
  <2> HIDE DEF v
  <2>7. Digit(p, 0) = u /\ Digit(p, 1) = v
    <3>1. Writes(p, u, v, e, 0)
      BY <2>4, SMT DEF Writes
    <3> QED BY <3>1, PutTogether
  <2>8. /\ Digit(Partial(q, d), 0) = Digit(q.left, 0) * d + RowCarries(q, d)[0] - 10 * RowCarries(q, d)[1]
        /\ Digit(Partial(q, d), 1) = Digit(q.left, 1) * d + RowCarries(q, d)[1] - 10 * RowCarries(q, d)[2]
    BY <2>1, <2>5, <2>6, <2>7 DEF a, b, c, e, h, k, p
  <2>9. e = Partial(q, d) \div 100
    BY <2>4 DEF p
  <2>10. ASSUME NEW j \in {0, 1}
         PROVE  Digit(Partial(q, d), j) = Digit(q.left, j) * d
                                    + RowCarries(q, d)[j] - 10 * RowCarries(q, d)[j + 1]
    <3>1. 0 + 1 = 1 /\ 1 + 1 = 2
      BY SMT
    <3>2. CASE j = 0
      BY <2>8, <3>1, <3>2
    <3>3. CASE j = 1
      BY <2>8, <3>1, <3>3
    <3> QED BY <3>2, <3>3
  <2> QED BY <2>9, <2>10 DEF e
<1>4. \A i \in 0 .. rows - 1 : Digit(q.right, i) \in 0 .. 9
  <2>1. \A i \in 0 .. rows - 1 : i = 0 \/ i = 1
    BY <1>1, SMT
  <2> QED BY <1>2, <2>1 DEF x, y
<1>5. \A i \in 0 .. rows - 1 :
         /\ \A j \in 0 .. Digits(q.left) - 1 :
               Digit(Partial(q, Digit(q.right, i)), j) = Digit(q.left, j) * Digit(q.right, i)
                 + RowCarries(q, Digit(q.right, i))[j] - 10 * RowCarries(q, Digit(q.right, i))[j + 1]
         /\ RowCarries(q, Digit(q.right, i))[Digits(q.left)]
              = Partial(q, Digit(q.right, i)) \div TenTo(Digits(q.left))
  <2>1. \A j \in 0 .. Digits(q.left) - 1 : j \in {0, 1}
    BY <1>1, SMT
  <2> QED BY <1>1, <1>3, <1>4, <2>1, Tens
<1>6. q.left * q.right = Sum(f, rows)
  <2>1. /\ row(1) = q.left * x
        /\ rows = 2 => row(2) = (q.left * y) * 10
    <3>1. 1 - 1 = 0 /\ 2 - 1 = 1
      BY SMT
    <3>2. q.left * x \in Nat
      BY <1>2, SMT
    <3>3. row(1) = (q.left * x) * 1
      BY <3>1, Tens DEF Partial, x
    <3>4. row(2) = (q.left * y) * 10
      BY <3>1, Tens DEF Partial, y
    <3> QED BY <3>2, <3>3, <3>4, SMT
  <2>2. q.left * x \in Nat /\ (q.left * y) * 10 \in Nat
    BY <1>2, SMT
  <2>3. f[1] = row(1) /\ (rows = 2 => f[2] = row(2))
    BY <1>1, SMT
  <2>4. \A i \in 1 .. rows : i = 1 \/ (i = 2 /\ rows = 2)
    BY <1>1, SMT
  <2> HIDE DEF f, row
  <2>5. \A i \in 1 .. rows : f[i] \in Nat
    BY <2>1, <2>2, <2>3, <2>4
  <2>6. Sum(f, rows) = IF rows = 1 THEN f[1] ELSE f[1] + f[2]
    BY <1>1, <2>5, SumIs
  <2>7. CASE rows = 1
    <3>1. q.right = x
      BY <1>2, <2>7, SMT
    <3> QED BY <2>1, <2>3, <2>6, <2>7, <3>1
  <2>8. CASE rows = 2
    <3>1. q.left * (x + 10 * y) = q.left * x + (q.left * y) * 10
      BY <1>2, SMT
    <3> QED BY <1>2, <2>1, <2>3, <2>6, <2>8, <3>1, SMT
  <2> QED BY <1>1, <2>7, <2>8
<1> QED BY <1>5, <1>6 DEF RowsAreRight

-----------------------------------------------------------------------------
(* Long divisions.                                                         *)

\* One step of the long division, as Division takes it at digit k.
NextStep(q, k, before) ==
  LET digit == Digit(q.left, Digits(q.left) - k)
      partial == 10 * before.rest + digit
      product == (partial \div q.right) * q.right
  IN IF before.steps = <<>> /\ partial < q.right
     THEN [rest |-> partial, steps |-> <<>>]
     ELSE [rest |-> partial - product,
           steps |-> Append(before.steps,
             [bring |-> digit, product |-> product, remainder |-> partial - product])]

\* The recursion of the long division has a value.
LEMMA DivisionIs ==
  ASSUME NEW q, Digits(q.left) \in 1 .. 3
  PROVE  LET n == Digits(q.left)
             first == NextStep(q, 1, [rest |-> 0, steps |-> <<>>])
             second == NextStep(q, 2, first)
         IN Division(q) = (IF n = 1 THEN first ELSE IF n = 2 THEN second
                           ELSE NextStep(q, 3, second)).steps
<1> DEFINE n == Digits(q.left)
           start == [rest |-> 0, steps |-> <<>>]
           first == NextStep(q, 1, start)
           second == NextStep(q, 2, first)
           third == NextStep(q, 3, second)
           A(g) == [k \in 0 .. n |-> IF k = 0 THEN start ELSE NextStep(q, k, g[k - 1])]
           byHand == [k \in 0 .. n |-> IF k = 0 THEN start ELSE IF k = 1 THEN first
                                       ELSE IF k = 2 THEN second ELSE third]
           after == CHOOSE g : g = A(g)
<1>1. Division(q) = after[n].steps
  BY Zenon DEF Division, NextStep
<1> HIDE DEF start
<1>2. byHand = A(byHand)
  <2>1. ASSUME NEW k \in 0 .. n
        PROVE  byHand[k] = A(byHand)[k]
    <3> HIDE DEF first, second, third, n
    <3>1. k = 0 \/ k = 1 \/ k = 2 \/ k = 3
      BY DEF n
    <3>2. /\ byHand[k] = IF k = 0 THEN start ELSE IF k = 1 THEN first ELSE IF k = 2 THEN second ELSE third
          /\ A(byHand)[k] = IF k = 0 THEN start ELSE NextStep(q, k, byHand[k - 1])
      OBVIOUS
    <3>3. CASE k = 0
      BY <3>2, <3>3
    <3>4. CASE k # 0
      <4>1. k - 1 \in 0 .. n /\ k # 0
        BY <3>4, SMT DEF n
      <4>2. byHand[k - 1] = IF k - 1 = 0 THEN start ELSE IF k - 1 = 1 THEN first ELSE IF k - 1 = 2 THEN second ELSE third
        BY <4>1
      <4> HIDE DEF byHand, A
      <4>3. 1 - 1 = 0 /\ 2 - 1 = 1 /\ 3 - 1 = 2 /\ 1 # 0 /\ 2 # 1 /\ 2 # 0 /\ 3 # 0 /\ 3 # 1 /\ 3 # 2
        OBVIOUS
      <4>4. CASE k = 1
        BY <3>2, <4>2, <4>3, <4>4, Zenon DEF first
      <4>5. CASE k = 2
        BY <3>2, <4>2, <4>3, <4>5, Zenon DEF second
      <4>6. CASE k = 3
        BY <3>2, <4>2, <4>3, <4>6, Zenon DEF third
      <4> QED BY <3>1, <3>4, <4>4, <4>5, <4>6
    <3> QED BY <3>3, <3>4
  <2> QED BY <2>1
<1> HIDE DEF byHand, A
<1>3. after = A(after)
  BY <1>2
<1> HIDE DEF after
<1>4. A(after)[0] = start /\ \A k \in 1 .. n : A(after)[k] = NextStep(q, k, after[k - 1])
  BY SMT DEF A
<1>5. after[0] = start /\ \A k \in 1 .. n : after[k] = NextStep(q, k, after[k - 1])
  BY <1>3, <1>4, Zenon
<1>6. 1 - 1 = 0 /\ 2 - 1 = 1 /\ 3 - 1 = 2
  BY SMT
<1>7. n \in 1 .. 3
  OBVIOUS
<1> HIDE DEF n
<1>8. CASE n = 1
  <2>1. after[1] = first
    <3>1. 1 \in 1 .. n
      BY <1>8, SMT
    <3> QED BY <1>5, <1>6, <3>1, Zenon
  <2> QED BY <1>1, <1>8, <2>1, Zenon DEF n, start
<1>9. CASE n = 2
  <2>1. after[2] = second
    <3>1. 1 \in 1 .. n /\ 2 \in 1 .. n
      BY <1>9, SMT
    <3>2. after[1] = first
      BY <1>5, <1>6, <3>1, Zenon
    <3>3. after[2] = NextStep(q, 2, after[2 - 1])
      BY <1>5, <3>1, Zenon
    <3> QED BY <1>6, <3>2, <3>3, Zenon
  <2>2. 2 # 1
    OBVIOUS
  <2> QED BY <1>1, <1>9, <2>1, <2>2, Zenon DEF n, start
<1>10. CASE n = 3
  <2>1. after[3] = third
    <3>1. 1 \in 1 .. n /\ 2 \in 1 .. n /\ 3 \in 1 .. n
      BY <1>10, SMT
    <3>2. after[1] = first
      BY <1>5, <1>6, <3>1, Zenon
    <3>3. after[2] = NextStep(q, 2, after[2 - 1])
      BY <1>5, <3>1, Zenon
    <3>4. after[2] = second
      BY <1>6, <3>2, <3>3, Zenon
    <3>5. after[3] = NextStep(q, 3, after[3 - 1])
      BY <1>5, <3>1, Zenon
    <3> QED BY <1>6, <3>4, <3>5, Zenon
  <2>2. 3 # 1 /\ 3 # 2
    OBVIOUS
  <2> QED BY <1>1, <1>10, <2>1, <2>2, Zenon DEF n, start
<1> QED BY <1>7, <1>8, <1>9, <1>10, SMT

\* What is divided at digit k when x is left of the digits before, and the step it gives.
Brought(q, k, x) == 10 * x + Digit(q.left, Digits(q.left) - k)
StepOf(d, p, b) == [bring |-> d, product |-> (p \div b) * b, remainder |-> p - (p \div b) * b]
Step(q, k, x) == StepOf(Digit(q.left, Digits(q.left) - k), Brought(q, k, x), q.right)

\* A step before the divisor has gone in, and one after.
LEMMA FirstStep ==
  ASSUME NEW q, NEW k, NEW x
  PROVE  NextStep(q, k, [rest |-> x, steps |-> <<>>])
           = IF Brought(q, k, x) < q.right THEN [rest |-> Brought(q, k, x), steps |-> <<>>]
             ELSE [rest |-> Step(q, k, x).remainder, steps |-> <<Step(q, k, x)>>]
<1>1. Append(<<>>, Step(q, k, x)) = <<Step(q, k, x)>>
  OBVIOUS
<1> QED BY <1>1, Zenon DEF NextStep, Step, StepOf, Brought

\* An element after another one.
LEMMA TwoElements ==
  ASSUME NEW e, NEW f
  PROVE  Append(<<e>>, f) = <<e, f>>
<1> DEFINE S == {e, f}
<1>1. e \in S /\ f \in S
  OBVIOUS
<1>2. <<e>> \in Seq(S) /\ <<e, f>> \in Seq(S)
  BY <1>1
<1>3. Append(<<e>>, f) \in Seq(S) /\ Len(Append(<<e>>, f)) = 2 /\ Append(<<e>>, f)[1] = e /\ Append(<<e>>, f)[2] = f
  BY <1>2
<1>4. Len(<<e, f>>) = 2 /\ <<e, f>>[1] = e /\ <<e, f>>[2] = f
  OBVIOUS
<1> DEFINE l == Append(<<e>>, f)
           r == <<e, f>>
<1>5. l \in Seq(S) /\ r \in Seq(S) /\ Len(l) = Len(r) /\ \A i \in 1 .. Len(l) : l[i] = r[i]
  <2>1. \A i \in 1 .. 2 : i = 1 \/ i = 2
    OBVIOUS
  <2> QED BY <1>2, <1>3, <1>4, <2>1
<1> HIDE DEF l, r, S
<1>6. l = r
  BY <1>5, SeqEqual
<1> QED BY <1>6 DEF l, r

LEMMA LaterStep ==
  ASSUME NEW q, NEW k, NEW x, NEW e
  PROVE  NextStep(q, k, [rest |-> x, steps |-> <<e>>])
           = [rest |-> Step(q, k, x).remainder, steps |-> <<e, Step(q, k, x)>>]
<1>1. Append(<<e>>, Step(q, k, x)) = <<e, Step(q, k, x)>>
  BY TwoElements
<1>2. <<e>> # <<>>
  <2>1. Len(<<e>>) = 1 /\ Len(<<>>) = 0
    OBVIOUS
  <2> QED BY <2>1
<1> QED BY <1>1, <1>2, Zenon DEF NextStep, Step, StepOf, Brought

\* Division by a small number leaves less than it.
LEMMA Goes ==
  ASSUME NEW b \in 2 .. 9, NEW p \in Nat
  PROVE  /\ p \div b \in Nat /\ (p \div b) * b \in Nat /\ (p \div b) * b <= p
         /\ p - (p \div b) * b \in Nat /\ p - (p \div b) * b < b
<1>1. b = 2 \/ b = 3 \/ b = 4 \/ b = 5 \/ b = 6 \/ b = 7 \/ b = 8 \/ b = 9
  OBVIOUS
<1>2. CASE b = 2 BY <1>2, SMT
<1>3. CASE b = 3 BY <1>3, SMT
<1>4. CASE b = 4 BY <1>4, SMT
<1>5. CASE b = 5 BY <1>5, SMT
<1>6. CASE b = 6 BY <1>6, SMT
<1>7. CASE b = 7 BY <1>7, SMT
<1>8. CASE b = 8 BY <1>8, SMT
<1>9. CASE b = 9 BY <1>9, SMT
<1> QED BY <1>1, <1>2, <1>3, <1>4, <1>5, <1>6, <1>7, <1>8, <1>9

\* A quotient of two places: the remainders of its two steps, and its places.
BothSteps(b, r, p, d, x, y, u, v) ==
  /\ b \in 2 .. 9 /\ r \in Nat /\ r <= 99 /\ p \in Nat /\ b <= p /\ d \in 0 .. 9
  /\ b * r = 10 * p + d
  /\ x \in Nat /\ y \in Nat
  /\ u = p - x * b /\ 0 <= u /\ u < b
  /\ v = (10 * u + d) - y * b /\ 0 <= v /\ v < b

LEMMA TwoPlaces ==
  ASSUME NEW b, NEW r, NEW p, NEW d, NEW x, NEW y, NEW u, NEW v, BothSteps(b, r, p, d, x, y, u, v)
  PROVE  x \in 1 .. 9 /\ y \in 0 .. 9 /\ v = 0 /\ r = 10 * x + y
<1> USE DEF BothSteps
<1>0. b = 2 \/ b = 3 \/ b = 4 \/ b = 5 \/ b = 6 \/ b = 7 \/ b = 8 \/ b = 9
  OBVIOUS
<1>1. CASE b = 2 BY <1>1, SMT
<1>2. CASE b = 3 BY <1>2, SMT
<1>3. CASE b = 4 BY <1>3, SMT
<1>4. CASE b = 5 BY <1>4, SMT
<1>5. CASE b = 6 BY <1>5, SMT
<1>6. CASE b = 7 BY <1>6, SMT
<1>7. CASE b = 8 BY <1>7, SMT
<1>8. CASE b = 9 BY <1>8, SMT
<1> QED BY <1>0, <1>1, <1>2, <1>3, <1>4, <1>5, <1>6, <1>7, <1>8

\* A division that a lesson in columns may draw, and its steps: one for a quotient of
\* one place, two for two.
Divides(q, b, r) == b \in 2 .. 9 /\ r \in Nat /\ 2 <= r /\ r <= 99 /\ q.left = b * r /\ q.right = b

OneStep(q, b, r) ==
  r <= 9 /\ \E d \in 0 .. 9 : Division(q) = <<[bring |-> d, product |-> r * b, remainder |-> 0]>>

TwoSteps(q, b, r) ==
  /\ 9 < r
  /\ \E d \in 0 .. 9, e \in 0 .. 9, x \in 1 .. 9, y \in 0 .. 9, u \in Nat :
       /\ u < b /\ r = 10 * x + y
       /\ x * b <= q.left /\ y * b <= q.left
       /\ Division(q) = <<[bring |-> e, product |-> x * b, remainder |-> u],
                          [bring |-> d, product |-> y * b, remainder |-> 0]>>

LEMMA DivisionGives ==
  ASSUME NEW q, NEW b, NEW r, Divides(q, b, r)
  PROVE  /\ Digits(q.left) \in 1 .. 3 /\ q.left \in Nat /\ b <= q.left /\ q.left <= 891
         /\ q.left \div q.right = r
         /\ OneStep(q, b, r) \/ TwoSteps(q, b, r)
<1> USE DEF Divides
<1> DEFINE n == Digits(q.left)
           start == [rest |-> 0, steps |-> <<>>]
           first == NextStep(q, 1, start)
           second == NextStep(q, 2, first)
           third == NextStep(q, 3, second)
           l == q.left
           d0 == Digit(q.left, 0)
           d1 == Digit(q.left, 1)
           d2 == Digit(q.left, 2)
<1>1. l \in Nat /\ 2 * b <= l /\ l <= 99 * b /\ l <= 891 /\ l \div b = r /\ (r <= 9 <=> l < 10 * b)
  <2>0. b = 2 \/ b = 3 \/ b = 4 \/ b = 5 \/ b = 6 \/ b = 7 \/ b = 8 \/ b = 9
    OBVIOUS
  <2> DEFINE P(c) == c * r \in Nat /\ 2 * c <= c * r /\ c * r <= 99 * c /\ c * r <= 891
                     /\ (c * r) \div c = r /\ (r <= 9 <=> c * r < 10 * c)
  <2>1. P(2) /\ P(3) /\ P(4) /\ P(5)
    BY SMT
  <2>2. P(6) /\ P(7) /\ P(8) /\ P(9)
    BY SMT
  <2> QED BY <2>0, <2>1, <2>2
<1>2. l <= 9999
  BY <1>1, SMT
<1>3. n = IF l < 10 THEN 1 ELSE IF l < 100 THEN 2 ELSE 3
  <2>1. n = IF l < 10 THEN 1 ELSE IF l < 100 THEN 2 ELSE IF l < 1000 THEN 3 ELSE 4
    BY <1>1, <1>2, DigitsAre
  <2> HIDE DEF l, n
  <2> QED BY <1>1, <2>1, SMT
<1>4. /\ d0 \in 0 .. 9 /\ d1 \in 0 .. 9 /\ d2 \in 0 .. 9
      /\ l = d0 + 10 * d1 + 100 * d2
      /\ n < 3 => d2 = 0
      /\ n < 2 => d1 = 0
  <2>1. Digit(l, 3) = 0 /\ (l < 100 => d2 = 0) /\ (l < 10 => d1 = 0)
    <3>1. l < 1000
      BY <1>1, SMT
    <3> QED BY <1>1, <1>2, <3>1, FewPlaces
  <2>2. /\ d0 \in 0 .. 9 /\ d1 \in 0 .. 9 /\ d2 \in 0 .. 9
        /\ l = d0 + 10 * d1 + 100 * d2 + 1000 * Digit(l, 3)
    BY <1>1, <1>2, Places
  <2> HIDE DEF l, n, d0, d1, d2
  <2> QED BY <1>1, <1>3, <2>1, <2>2, SMT
<1>5. n \in 1 .. 3
  <2> HIDE DEF n, l
  <2> QED BY <1>3, SMT
<1>6. Division(q) = (IF n = 1 THEN first ELSE IF n = 2 THEN second ELSE third).steps
  BY <1>5, DivisionIs, Zenon
<1>7. /\ n = 1 => Digit(q.left, n - 1) = d0
      /\ n = 2 => Digit(q.left, n - 1) = d1 /\ Digit(q.left, n - 2) = d0
      /\ n = 3 => Digit(q.left, n - 1) = d2 /\ Digit(q.left, n - 2) = d1 /\ Digit(q.left, n - 3) = d0
  <2>1. 1 - 1 = 0 /\ 2 - 1 = 1 /\ 2 - 2 = 0 /\ 3 - 1 = 2 /\ 3 - 2 = 1 /\ 3 - 3 = 0
    OBVIOUS
  <2> QED BY <2>1, Zenon
<1> HIDE DEF n, first, second, third, l, d0, d1, d2
<1> DEFINE One(steps) == r <= 9 /\ \E d \in 0 .. 9 :
                           steps = <<[bring |-> d, product |-> r * b, remainder |-> 0]>>
           Two(steps) ==
             /\ 9 < r
             /\ \E d \in 0 .. 9, e \in 0 .. 9, x \in 1 .. 9, y \in 0 .. 9, u \in Nat :
                  /\ u < b /\ r = 10 * x + y
                  /\ x * b <= q.left /\ y * b <= q.left
                  /\ steps = <<[bring |-> e, product |-> x * b, remainder |-> u],
                               [bring |-> d, product |-> y * b, remainder |-> 0]>>
<1>8. ASSUME NEW k, NEW x \in Nat, Brought(q, k, x) = l, l < 10 * b, Digit(q.left, n - k) \in 0 .. 9
      PROVE  One(NextStep(q, k, [rest |-> x, steps |-> <<>>]).steps)
  <2>1. ~(l < b)
    BY <1>1, SMT
  <2>2. NextStep(q, k, [rest |-> x, steps |-> <<>>]).steps = <<Step(q, k, x)>>
    <3>1. NextStep(q, k, [rest |-> x, steps |-> <<>>])
            = [rest |-> Step(q, k, x).remainder, steps |-> <<Step(q, k, x)>>]
      BY <1>8, <2>1, FirstStep, Zenon
    <3> QED BY <3>1
  <2>3. l - r * b = 0
    BY <1>1, SMT DEF l
  <2>4. Step(q, k, x) = [bring |-> Digit(q.left, n - k), product |-> r * b, remainder |-> 0]
    BY <1>1, <1>8, <2>3, Zenon DEF Step, StepOf, n
  <2>5. r <= 9
    BY <1>1, <1>8
  <2> QED BY <1>8, <2>2, <2>4, <2>5, Zenon
<1>9. ASSUME NEW k, NEW p \in Nat, b <= p, NEW d \in 0 .. 9, NEW e \in 0 .. 9,
             Digit(q.left, n - k) = d, l = 10 * p + d
      PROVE  Two(NextStep(q, k, [rest |-> StepOf(e, p, b).remainder, steps |-> <<StepOf(e, p, b)>>]).steps)
  <2> DEFINE x == p \div b
             u == p - x * b
             z == 10 * u + d
             y == z \div b
             v == z - y * b
  <2>1. x \in Nat /\ x * b \in Nat /\ x * b <= p /\ u \in Nat /\ u < b
    BY Goes
  <2>11. StepOf(e, p, b) = [bring |-> e, product |-> x * b, remainder |-> u]
    BY Zenon DEF StepOf
  <2>12. u = p - x * b
    OBVIOUS
  <2> HIDE DEF x, u
  <2>2. z \in Nat
    BY <2>1, SMT
  <2>13. Brought(q, k, u) = z
    BY <1>9 DEF Brought, n
  <2> HIDE DEF z
  <2>3. y \in Nat /\ y * b \in Nat /\ y * b <= z /\ v \in Nat /\ v < b
    BY <2>2, Goes
  <2>14. Step(q, k, u) = [bring |-> d, product |-> y * b, remainder |-> v]
    BY <1>9, <2>13, Zenon DEF Step, StepOf, n
  <2>15. v = (10 * u + d) - y * b
    BY DEF z
  <2> HIDE DEF y, v
  <2>4. x \in 1 .. 9 /\ y \in 0 .. 9 /\ v = 0 /\ r = 10 * x + y
    <3>1. b * r = 10 * p + d
      BY <1>9 DEF l
    <3>3. 0 <= u /\ u < b /\ 0 <= v /\ v < b
      BY <2>1, <2>3, SMT
    <3>4. BothSteps(b, r, p, d, x, y, u, v)
      BY <1>9, <2>1, <2>3, <2>12, <2>15, <3>1, <3>3, Zenon DEF BothSteps
    <3> QED BY <3>4, TwoPlaces
  <2>5. NextStep(q, k, [rest |-> u, steps |-> <<StepOf(e, p, b)>>]).steps = <<StepOf(e, p, b), Step(q, k, u)>>
    <3>1. NextStep(q, k, [rest |-> u, steps |-> <<StepOf(e, p, b)>>])
            = [rest |-> Step(q, k, u).remainder, steps |-> <<StepOf(e, p, b), Step(q, k, u)>>]
      BY LaterStep, Zenon
    <3> QED BY <3>1
  <2>7. x * b <= l /\ y * b <= l /\ 9 < r
    <3>1. z <= l
      BY <1>9, <2>1, SMT DEF z
    <3>2. x * b <= l
      BY <1>9, <2>1, SMT
    <3>3. y * b <= l
      BY <2>2, <2>3, <3>1, <1>1, SMT
    <3> QED BY <2>4, <3>2, <3>3, SMT
  <2> DEFINE now == NextStep(q, k, [rest |-> u, steps |-> <<StepOf(e, p, b)>>])
  <2>8. now.steps = <<[bring |-> e, product |-> x * b, remainder |-> u],
                      [bring |-> d, product |-> y * b, remainder |-> 0]>>
    BY <2>4, <2>5, <2>11, <2>14
  <2>9. Two(now.steps)
    <3> HIDE DEF now
    <3> QED BY <1>9, <2>1, <2>4, <2>7, <2>8, Zenon DEF l
  <2>10. StepOf(e, p, b).remainder = u
    BY <2>11
  <2> HIDE DEF Two
  <2> QED BY <2>9, <2>10
<1>10. One(Division(q)) \/ Two(Division(q))
  <2> HIDE DEF One, Two
  <2>1. CASE n = 1
    <3>1. Brought(q, 1, 0) = l /\ l < 10 * b /\ Digit(q.left, n - 1) \in 0 .. 9
      <4>1. l = 10 * 0 + d0 /\ l < 10 * b
        BY <1>3, <1>4, <2>1, SMT
      <4> QED BY <1>4, <1>7, <2>1, <4>1 DEF Brought, n
    <3>2. One(first.steps)
      BY <1>8, <3>1 DEF first, start
    <3> QED BY <1>6, <2>1, <3>2
  <2>2. CASE n = 2 /\ d1 < b
    <3>1. Brought(q, 1, 0) = d1
      <4>1. 10 * 0 + d1 = d1
        BY <1>4, SMT
      <4> QED BY <1>7, <2>2, <4>1 DEF Brought, n
    <3>2. first = [rest |-> d1, steps |-> <<>>]
      BY <2>2, <3>1, FirstStep, Zenon DEF first, start
    <3>3. l = 10 * d1 + d0 /\ l < 10 * b /\ d1 \in Nat
      BY <1>4, <2>2, SMT
    <3>4. Brought(q, 2, d1) = l /\ Digit(q.left, n - 2) \in 0 .. 9
      BY <1>4, <1>7, <2>2, <3>3, Zenon DEF Brought, n
    <3>5. One(second.steps)
      BY <1>8, <3>2, <3>3, <3>4 DEF second
    <3> QED BY <1>6, <2>2, <3>5
  <2>3. CASE n = 2 /\ ~(d1 < b)
    <3>1. Brought(q, 1, 0) = d1
      <4>1. 10 * 0 + d1 = d1
        BY <1>4, SMT
      <4> QED BY <1>7, <2>3, <4>1 DEF Brought, n
    <3>2. first = [rest |-> StepOf(d1, d1, b).remainder, steps |-> <<StepOf(d1, d1, b)>>]
      <4>1. first = [rest |-> Step(q, 1, 0).remainder, steps |-> <<Step(q, 1, 0)>>]
        BY <2>3, <3>1, FirstStep, Zenon DEF first, start
      <4>2. Step(q, 1, 0) = StepOf(d1, d1, b)
        BY <1>7, <2>3, <3>1, Zenon DEF Step, n
      <4> QED BY <4>1, <4>2
    <3>3. l = 10 * d1 + d0 /\ d1 \in Nat /\ b <= d1
      BY <1>4, <2>3, SMT
    <3>4. Two(second.steps)
      BY <1>4, <1>7, <1>9, <2>3, <3>2, <3>3 DEF second
    <3> QED BY <1>6, <2>3, <3>4
  <2>4. CASE n = 3
    <3> DEFINE p == 10 * d2 + d1
    <3>1. Brought(q, 1, 0) = d2 /\ d2 < b /\ d2 \in Nat
      <4>1. 10 * 0 + d2 = d2 /\ d2 < b /\ d2 \in Nat
        BY <1>1, <1>4, SMT
      <4> QED BY <1>7, <2>4, <4>1 DEF Brought, n
    <3>2. first = [rest |-> d2, steps |-> <<>>]
      BY <3>1, FirstStep, Zenon DEF first, start
    <3>3. p \in Nat /\ b <= p /\ ~(p < b) /\ l = 10 * p + d0
      BY <1>1, <1>3, <1>4, <2>4, SMT
    <3>4. Brought(q, 2, d2) = p
      BY <1>7, <2>4 DEF Brought, n
    <3> HIDE DEF p
    <3>5. second = [rest |-> StepOf(d1, p, b).remainder, steps |-> <<StepOf(d1, p, b)>>]
      <4>1. second = [rest |-> Step(q, 2, d2).remainder, steps |-> <<Step(q, 2, d2)>>]
        BY <3>2, <3>3, <3>4, FirstStep, Zenon DEF second
      <4>2. Step(q, 2, d2) = StepOf(d1, p, b)
        BY <1>7, <2>4, <3>4, Zenon DEF Step, n
      <4> QED BY <4>1, <4>2
    <3>6. Two(third.steps)
      BY <1>4, <1>7, <1>9, <2>4, <3>3, <3>5 DEF third
    <3> QED BY <1>6, <2>4, <3>6
  <2> QED BY <1>5, <2>1, <2>2, <2>3, <2>4
<1>11. b <= l
  BY <1>1, SMT
<1> QED BY <1>1, <1>5, <1>10, <1>11 DEF l, n, OneStep, TwoSteps

\* The steps of a long division are right.
LEMMA StepsDivide ==
  ASSUME NEW q, NEW b, NEW r, Divides(q, b, r)
  PROVE  StepsAreRight(q)
<1>0. q.left \div q.right = r /\ (OneStep(q, b, r) \/ TwoSteps(q, b, r))
  BY DivisionGives
<1> USE DEF Divides
<1> DEFINE steps == Division(q)
           f(m) == [i \in 1 .. m |-> (steps[i].product \div q.right) * TenTo(m - i)]
<1>1. q.left \div q.right = r
  BY <1>0
<1>2. Digits(r) = IF r <= 9 THEN 1 ELSE 2
  <2>1. r <= 9999
    BY SMT
  <2>2. Digits(r) = IF r < 10 THEN 1 ELSE IF r < 100 THEN 2 ELSE IF r < 1000 THEN 3 ELSE 4
    BY <2>1, DigitsAre
  <2> QED BY <2>2, SMT
<1>3. \A x \in Nat : x * b \in Nat /\ (x * b) \div b = x
  <2>1. \A x \in Nat : x * b = b * x
    BY SMT
  <2> QED BY <2>1, MultiplesDivide
<1>4. CASE r <= 9
  <2>1. PICK d \in 0 .. 9 : steps = <<[bring |-> d, product |-> r * b, remainder |-> 0]>>
    <3>1. ~(9 < r)
      BY <1>4, SMT
    <3>2. OneStep(q, b, r)
      BY <1>0, <3>1, Zenon DEF TwoSteps
    <3> QED BY <3>2, Zenon DEF OneStep
  <2> HIDE DEF steps
  <2>2. Len(steps) = 1 /\ steps[1].remainder = 0 /\ steps[1].product = r * b
    BY <2>1
  <2>3. \A i \in 1 .. 1 : i = 1
    BY SMT
  <2>4. Sum(f(1), 1) = r
    <3>1. f(1)[1] = (steps[1].product \div q.right) * TenTo(1 - 1)
      OBVIOUS
    <3>2. TenTo(1 - 1) = 1
      BY Tens
    <3>3. f(1)[1] = r
      BY <1>3, <2>2, <3>1, <3>2, SMT
    <3>4. \A i \in 1 .. 1 : f(1)[i] \in Nat
      BY <2>3, <3>3
    <3> HIDE DEF f
    <3> QED BY <3>3, <3>4, SumIs
  <2>5. 0 \in 0 .. q.right - 1
    BY SMT
  <2> QED BY <1>1, <1>2, <1>4, <2>2, <2>3, <2>4, <2>5 DEF StepsAreRight, steps
<1>5. CASE 9 < r
  <2>1. PICK d \in 0 .. 9, e \in 0 .. 9, x \in 1 .. 9, y \in 0 .. 9, u \in Nat :
               /\ u < b /\ r = 10 * x + y
               /\ steps = <<[bring |-> e, product |-> x * b, remainder |-> u],
                            [bring |-> d, product |-> y * b, remainder |-> 0]>>
    <3>1. ~(r <= 9)
      BY <1>5, SMT
    <3>2. TwoSteps(q, b, r)
      BY <1>0, <3>1, Zenon DEF OneStep
    <3> QED BY <3>2, Zenon DEF TwoSteps
  <2> HIDE DEF steps
  <2>2. /\ Len(steps) = 2 /\ steps[1].remainder = u /\ steps[1].product = x * b
        /\ steps[2].remainder = 0 /\ steps[2].product = y * b
    BY <2>1
  <2>3. \A i \in 1 .. 2 : i = 1 \/ i = 2
    BY SMT
  <2>4. Sum(f(2), 2) = r
    <3>1. /\ f(2)[1] = (steps[1].product \div q.right) * TenTo(2 - 1)
          /\ f(2)[2] = (steps[2].product \div q.right) * TenTo(2 - 2)
      OBVIOUS
    <3>2. TenTo(2 - 1) = 10 /\ TenTo(2 - 2) = 1
      BY Tens
    <3>3. (steps[1].product \div q.right) = x /\ (steps[2].product \div q.right) = y
      BY <1>3, <2>1, <2>2, SMT
    <3>4. f(2)[1] = x * 10 /\ f(2)[2] = y * 1
      BY <3>1, <3>2, <3>3, Zenon
    <3> HIDE DEF f
    <3>5. \A i \in 1 .. 2 : f(2)[i] \in Nat
      BY <2>1, <2>3, <3>4, SMT
    <3>6. Sum(f(2), 2) = f(2)[1] + f(2)[2]
      <4>1. 2 # 1 /\ 2 \in {1, 2}
        OBVIOUS
      <4>2. Sum(f(2), 2) = IF 2 = 1 THEN f(2)[1] ELSE f(2)[1] + f(2)[2]
        BY <3>5, <4>1, SumIs
      <4> QED BY <4>1, <4>2
    <3> QED BY <2>1, <3>4, <3>6, SMT
  <2>5. u \in 0 .. q.right - 1 /\ 0 \in 0 .. q.right - 1
    BY <2>1, SMT
  <2>6. Digits(r) = 2
    BY <1>2, <1>5, SMT
  <2> QED BY <1>1, <2>2, <2>3, <2>4, <2>5, <2>6 DEF StepsAreRight, steps
<1> QED BY <1>4, <1>5, SMT

-----------------------------------------------------------------------------
(* The fields of the form.                                                 *)

\* A number fits the places that it has, and any larger room.
LEMMA Room ==
  ASSUME NEW v \in Nat, v <= 9999, NEW w \in Nat, w <= 6, Digits(v) <= w
  PROVE  v < TenTo(w)
<1>1. Digits(v) = IF v < 10 THEN 1 ELSE IF v < 100 THEN 2 ELSE IF v < 1000 THEN 3 ELSE 4
  BY DigitsAre
<1>2. w = 0 \/ w = 1 \/ w = 2 \/ w = 3 \/ w = 4 \/ w = 5 \/ w = 6
  BY SMT
<1>3. CASE w = 0
  BY <1>1, <1>3, SMT
<1>4. CASE w = 1
  BY <1>1, <1>4, Tens, SMT
<1>5. CASE w = 2
  BY <1>1, <1>5, Tens, SMT
<1>6. CASE w = 3
  BY <1>1, <1>6, Tens, SMT
<1>7. CASE w = 4
  BY <1>7, Tens, SMT
<1>8. CASE w = 5
  BY <1>8, Tens, SMT
<1>9. CASE w = 6
  BY <1>9, Tens, SMT
<1> QED BY <1>2, <1>3, <1>4, <1>5, <1>6, <1>7, <1>8, <1>9

\* What WorkIsRight asks of one field.
Fits(f) ==
  /\ -AnswerLimit <= f.value /\ f.value <= AnswerLimit
  /\ IF f.value < 0 THEN -f.value < TenTo(f.width - 1) ELSE f.value < TenTo(f.width)

LEMMA FieldFits ==
  ASSUME NEW v \in Nat, v <= 9999, NEW w, v < TenTo(w)
  PROVE  Fits(Field(v, w))
<1>1. Field(v, w).value = v /\ Field(v, w).width = w
  BY DEF Field
<1>2. -AnswerLimit <= v /\ v <= AnswerLimit /\ ~(v < 0)
  BY SMT DEF AnswerLimit
<1> QED BY <1>1, <1>2, SMT DEF Fits

LEMMA InRange ==
  ASSUME NEW m, NEW n \in Nat, m \in 0 .. n
  PROVE  m \in Nat /\ m <= n
BY SMT

\* The results of the questions that may be drawn.
LEMMA ResultIs ==
  ASSUME NEW s \in MathSettings, NEW q \in Drawn(s)
  PROVE  /\ q.left \in Nat /\ q.left <= 2000 /\ q.right \in Nat /\ q.right <= 1000
         /\ Result(s, q) \in Int /\ -1000 <= Result(s, q) /\ Result(s, q) <= 3000
<1>1. s.operation \in {"+", "-", "*", ":"}
  BY DEF MathSettings
<1>2. q.left \in Nat /\ q.left <= 2000 /\ q.right \in Nat /\ q.right <= 1000
  <2>1. q.left \in 0 .. 2000 /\ q.right \in 0 .. 1000
    BY DrawnIsInRange
  <2> DEFINE m == 2000
             n == 1000
  <2>2. m \in Nat /\ n \in Nat /\ q.left \in 0 .. m /\ q.right \in 0 .. n
    BY <2>1, SMT
  <2> HIDE DEF m, n
  <2>3. q.left \in Nat /\ q.left <= m /\ q.right \in Nat /\ q.right <= n
    BY <2>2, InRange
  <2> QED BY <2>3, SMT DEF m, n
<1>3. CASE s.operation = "+"
  BY <1>2, <1>3, SMT DEF Result
<1>4. CASE s.operation = "-"
  BY <1>2, <1>4, SMT DEF Result
<1>5. CASE s.operation = "*"
  <2>1. Result(s, q) = q.left * q.right
    BY <1>5 DEF Result
  <2>2. (q.left <= 12 /\ q.right <= 12) \/ (q.left <= 99 /\ q.right <= 25)
    <3>1. CASE Columnar(s)
      BY <1>5, <3>1, SMT DEF Drawn
    <3>2. CASE ~Columnar(s)
      BY <1>5, <3>2, DrawRanges, SMT DEF Drawn
    <3> QED BY <3>1, <3>2
  <2>3. q.left * q.right \in Nat /\ q.left * q.right <= 99 * q.right /\ q.right <= 25
    <3>1. q.left \in Nat /\ 99 - q.left \in Nat /\ q.right \in Nat /\ q.right <= 25
      BY <1>2, <2>2, SMT
    <3>2. q.left * q.right \in Nat /\ (99 - q.left) * q.right \in Nat
      BY <3>1, SMT
    <3>3. (99 - q.left) * q.right = 99 * q.right - q.left * q.right
      BY <3>1, SMT
    <3>4. \A m \in Int, k \in Int : m - k \in Nat => k <= m
      BY SMT
    <3> QED BY <1>2, <3>1, <3>2, <3>3, <3>4, SMT
  <2> DEFINE m == q.left * q.right
  <2> HIDE DEF m
  <2>4. m \in Nat /\ m <= 99 * q.right /\ q.right <= 25 /\ q.right \in Nat
    BY <1>2, <2>3 DEF m
  <2>5. -1000 <= m /\ m <= 3000 /\ m \in Int
    BY <2>4, SMT
  <2> QED BY <1>2, <2>1, <2>5, SMT DEF m
<1>6. CASE s.operation = ":"
  <2>1. PICK b \in 1 .. 12, r \in 0 .. 100 : q = [left |-> b * r, right |-> b]
    <3>1. CASE Columnar(s)
      BY <1>6, <3>1 DEF Drawn
    <3>2. CASE ~Columnar(s)
      BY <1>6, <3>2, DrawRanges DEF Drawn
    <3> QED BY <3>1, <3>2
  <2>2. Result(s, q) = r
    <3>1. (b * r) \div b = r
      BY MultiplesDivide
    <3>2. Result(s, q) = q.left \div q.right
      BY <1>6 DEF Result
    <3>3. q.left = b * r /\ q.right = b
      BY <2>1
    <3> QED BY <3>1, <3>2, <3>3, SMT
  <2> QED BY <1>2, <2>2, SMT
<1> QED BY <1>1, <1>2, <1>3, <1>4, <1>5, <1>6

\* The numbers of digits of the operands.
LEMMA LongerIsSmall ==
  ASSUME NEW q, q.left \in Nat, q.left <= 2000, q.right \in Nat, q.right <= 1000
  PROVE  Longer(q) \in 1 .. 4 /\ Digits(q.left) <= Longer(q) /\ Digits(q.right) <= Longer(q)
<1>1. q.left <= 9999 /\ q.right <= 9999
  BY SMT
<1>2. /\ Digits(q.left) = IF q.left < 10 THEN 1 ELSE IF q.left < 100 THEN 2 ELSE IF q.left < 1000 THEN 3 ELSE 4
      /\ Digits(q.right) = IF q.right < 10 THEN 1 ELSE IF q.right < 100 THEN 2 ELSE IF q.right < 1000 THEN 3 ELSE 4
  BY <1>1, DigitsAre
<1>3. Digits(q.left) \in 1 .. 4 /\ Digits(q.right) \in 1 .. 4
  BY <1>2, SMT
<1> QED BY <1>3, SMT DEF Longer

\* The field of the answer, which may be negative.
LEMMA AnswerFits ==
  ASSUME NEW v \in Int, -1000 <= v, v <= 3000, NEW l \in 1 .. 4
  PROVE  LET signed == IF v < 0 THEN Digits(-v) + 1 ELSE Digits(v)
         IN Fits(Field(v, IF l < signed THEN signed ELSE l))
<1> DEFINE signed == IF v < 0 THEN Digits(-v) + 1 ELSE Digits(v)
           w == IF l < signed THEN signed ELSE l
<1>1. CASE v < 0
  <2> DEFINE a == -v
  <2>1. a \in Nat /\ a <= 9999
    BY <1>1, SMT
  <2>2. Digits(a) = IF a < 10 THEN 1 ELSE IF a < 100 THEN 2 ELSE IF a < 1000 THEN 3 ELSE 4
    BY <2>1, DigitsAre
  <2>3. signed = Digits(a) + 1
    BY <1>1
  <2> HIDE DEF a, signed
  <2>4. Digits(a) \in 1 .. 4
    BY <2>1, <2>2, SMT
  <2>5. w - 1 \in Nat /\ w - 1 <= 6 /\ Digits(a) <= w - 1
    BY <2>3, <2>4, SMT
  <2> HIDE DEF w
  <2>6. a < TenTo(w - 1)
    BY <2>1, <2>5, Room
  <2>7. Field(v, w).value = v /\ Field(v, w).width = w
    BY DEF Field
  <2>8. -AnswerLimit <= v /\ v <= AnswerLimit
    BY SMT DEF AnswerLimit
  <2>9. Fits(Field(v, w))
    BY <1>1, <2>6, <2>7, <2>8, SMT DEF Fits, a
  <2> QED BY <2>9, SMT DEF w, signed
<1>2. CASE ~(v < 0)
  <2>1. v \in Nat /\ v <= 9999
    BY <1>2, SMT
  <2>2. Digits(v) = IF v < 10 THEN 1 ELSE IF v < 100 THEN 2 ELSE IF v < 1000 THEN 3 ELSE 4
    BY <2>1, DigitsAre
  <2>3. signed = Digits(v)
    BY <1>2
  <2> HIDE DEF signed
  <2>4. Digits(v) \in 1 .. 4
    BY <2>1, <2>2, SMT
  <2>5. w \in Nat /\ w <= 6 /\ Digits(v) <= w
    BY <2>3, <2>4, SMT
  <2> HIDE DEF w
  <2>6. v < TenTo(w)
    BY <2>1, <2>5, Room
  <2>7. Fits(Field(v, w))
    BY <2>1, <2>6, FieldFits
  <2> QED BY <2>7, SMT DEF w, signed
<1> QED BY <1>1, <1>2, SMT

\* The fields of a sum or a difference in columns.
LEMMA CarryFieldsFit ==
  ASSUME NEW s \in MathSettings,
         NEW q, q.left \in Nat, q.left <= 999, q.right \in Nat, q.right <= 999,
         NEW i \in 1 .. Longer(q)
  PROVE  Fits(Field(Carries(s, q)[i], 1))
<1>1. Carries(s, q)[i] \in {0, 1}
  BY CarriesAreBits
<1>2. ASSUME NEW v \in {0, 1} PROVE Fits(Field(v, 1))
  <2>1. v \in Nat /\ v <= 9999 /\ v < TenTo(1)
    BY Tens, SMT
  <2> QED BY <2>1, FieldFits
<1> QED BY <1>1, <1>2

\* The fields of one row of a product.
LEMMA RowFieldsFit ==
  ASSUME NEW q, q.left \in Nat, 12 <= q.left, q.left <= 99, NEW digit \in 0 .. 9
  PROVE  /\ Digits(q.left) = 2
         /\ \A j \in 1 .. 2 : Fits(Field(RowCarries(q, digit)[j], 1))
         /\ Fits(Field(Partial(q, digit), 3))
<1> DEFINE a == Digit(q.left, 0)
           b == Digit(q.left, 1)
           h == a * digit
           k == b * digit
           c == RowCarries(q, digit)[1]
           e == RowCarries(q, digit)[2]
<1>1. q.left <= 9999
  BY SMT
<1>2. Digits(q.left) = 2
  <2>1. Digits(q.left) = IF q.left < 10 THEN 1 ELSE IF q.left < 100 THEN 2 ELSE IF q.left < 1000 THEN 3 ELSE 4
    BY <1>1, DigitsAre
  <2> QED BY <2>1, SMT
<1>3. a \in 0 .. 9 /\ b \in 0 .. 9
  BY <1>1, Places
<1>4. h \in Nat /\ h <= 81 /\ k \in Nat /\ k <= 81
  BY <1>3, TwoDigits
<1>5. c = (h + 0) \div 10 /\ e = (k + c) \div 10
  BY <1>2, RowCarriesAre
<1> HIDE DEF c, e, h, k, a, b
<1>6. c \in Nat /\ c <= 9
  BY <1>4, <1>5, SMT
<1>7. e \in Nat /\ e <= 9
  BY <1>4, <1>5, <1>6, SMT
<1>8. ASSUME NEW v \in Nat, v <= 9 PROVE Fits(Field(v, 1))
  <2>1. v <= 9999 /\ v < TenTo(1)
    BY <1>8, Tens, SMT
  <2> QED BY <2>1, FieldFits
<1>9. ASSUME NEW j \in 1 .. 2 PROVE Fits(Field(RowCarries(q, digit)[j], 1))
  <2>1. j = 1 \/ j = 2
    BY SMT
  <2> QED BY <1>6, <1>7, <1>8, <2>1 DEF c, e
<1>10. Fits(Field(Partial(q, digit), 3))
  <2> DEFINE p == q.left * digit
  <2>1. p \in Nat /\ p <= 99 * digit
    <3>1. 99 - q.left \in Nat
      BY SMT
    <3>2. p \in Nat /\ (99 - q.left) * digit \in Nat
      BY <3>1, SMT
    <3>3. (99 - q.left) * digit = 99 * digit - p
      BY SMT
    <3> HIDE DEF p
    <3> DEFINE m == (99 - q.left) * digit
    <3>4. m \in Nat /\ m = 99 * digit - p
      BY <3>2, <3>3
    <3> HIDE DEF m
    <3> QED BY <3>2, <3>4, SMT
  <2> HIDE DEF p
  <2>2. p <= 9999 /\ p < TenTo(3)
    BY <2>1, Tens, SMT
  <2>3. Fits(Field(p, 3))
    BY <2>1, <2>2, FieldFits
  <2> QED BY <2>3 DEF p, Partial
<1> QED BY <1>2, <1>9, <1>10

\* The fields of the steps of a long division.
LEMMA StepFieldsFit ==
  ASSUME NEW q, NEW b, NEW r, Divides(q, b, r), NEW i \in DOMAIN Division(q)
  PROVE  /\ Fits(Field(Division(q)[i].product, Longer(q)))
         /\ Fits(Field(Division(q)[i].remainder, Longer(q)))
         /\ Fits(Field(Division(q)[i].bring, 1))
<1>1. /\ q.left \in Nat /\ b <= q.left /\ q.left <= 891 /\ q.left \div q.right = r
      /\ OneStep(q, b, r) \/ TwoSteps(q, b, r)
  BY DivisionGives
<1> USE DEF Divides
<1>2. q.left < TenTo(Longer(q))
  <2>1. q.left <= 999 /\ q.right \in Nat /\ q.right <= 999
    BY <1>1, SMT
  <2> QED BY <1>1, <2>1, LongerIs
<1>3. ASSUME NEW v \in Nat, v <= q.left
      PROVE  Fits(Field(v, Longer(q)))
  <2> DEFINE w == TenTo(Longer(q))
  <2>1. TenTo(Longer(q)) = w
    OBVIOUS
  <2>0. w \in Nat
    <3>1. q.left <= 999 /\ q.right \in Nat /\ q.right <= 999
      BY <1>1, SMT
    <3>2. Longer(q) \in 1 .. 3
      BY <1>1, <3>1, LongerIs
    <3>3. Longer(q) = 1 \/ Longer(q) = 2 \/ Longer(q) = 3
      BY <3>2
    <3> QED BY <3>3, Tens
  <2> HIDE DEF w
  <2>2. v <= 9999 /\ v < w
    BY <1>1, <1>2, <1>3, <2>0, <2>1, SMT
  <2> QED BY <2>1, <2>2, FieldFits
<1>4. ASSUME NEW v \in 0 .. 9 PROVE Fits(Field(v, 1))
  <2>1. v \in Nat /\ v <= 9999 /\ v < TenTo(1)
    BY Tens, SMT
  <2> QED BY <2>1, FieldFits
<1>5. 0 \in Nat /\ 0 <= q.left
  BY <1>1, SMT
<1>6. CASE OneStep(q, b, r)
  <2>1. PICK d \in 0 .. 9 : Division(q) = <<[bring |-> d, product |-> r * b, remainder |-> 0]>>
    BY <1>6, Zenon DEF OneStep
  <2>2. i = 1
    BY <2>1
  <2>3. Division(q)[i] = [bring |-> d, product |-> r * b, remainder |-> 0]
    BY <2>1, <2>2
  <2>4. r * b \in Nat /\ r * b <= q.left
    <3>1. r * b = b * r
      BY SMT
    <3> QED BY <1>1, <3>1, SMT
  <2>5. /\ Division(q)[i].product = r * b /\ Division(q)[i].remainder = 0
        /\ Division(q)[i].bring = d
    BY <2>3
  <2> QED BY <1>3, <1>4, <1>5, <2>4, <2>5
<1>7. CASE TwoSteps(q, b, r)
  <2>1. PICK d \in 0 .. 9, e \in 0 .. 9, x \in 1 .. 9, y \in 0 .. 9, u \in Nat :
               /\ u < b /\ r = 10 * x + y
               /\ x * b <= q.left /\ y * b <= q.left
               /\ Division(q) = <<[bring |-> e, product |-> x * b, remainder |-> u],
                                  [bring |-> d, product |-> y * b, remainder |-> 0]>>
    BY <1>7, Zenon DEF TwoSteps
  <2>2. i = 1 \/ i = 2
    BY <2>1
  <2>3. x * b \in Nat /\ y * b \in Nat /\ u <= q.left
    BY <1>1, <2>1, SMT
  <2>4. CASE i = 1
    <3>1. /\ Division(q)[i].product = x * b /\ Division(q)[i].remainder = u
          /\ Division(q)[i].bring = e
      BY <2>1, <2>4
    <3> QED BY <1>3, <1>4, <2>1, <2>3, <3>1
  <2>5. CASE i = 2
    <3>1. /\ Division(q)[i].product = y * b /\ Division(q)[i].remainder = 0
          /\ Division(q)[i].bring = d
      BY <2>1, <2>5
    <3> QED BY <1>3, <1>4, <1>5, <2>1, <2>3, <3>1
  <2> QED BY <2>2, <2>4, <2>5
<1> QED BY <1>1, <1>6, <1>7

\* What a lesson in columns draws.
LEMMA ColumnarDraws ==
  ASSUME NEW s \in MathSettings, Columnar(s), NEW q \in Drawn(s)
  PROVE  /\ s.operation \in {"+", "-"} =>
              /\ q.left \in Nat /\ q.left <= 999 /\ q.right \in Nat /\ q.right <= 999
              /\ s.operation = "-" => q.right <= q.left
         /\ s.operation = "*" =>
              /\ q.left \in Nat /\ 12 <= q.left /\ q.left <= 99
              /\ q.right \in Nat /\ 2 <= q.right /\ q.right <= 25
         /\ s.operation = ":" => \E b, r : Divides(q, b, r)
<1>1. CASE s.operation \in {"+", "-"}
  <2>1. q.left \in Numbers(s) /\ q.right \in Numbers(s) /\ (s.operation = "-" => q.right <= q.left)
    <3>1. CASE s.operation = "+"
      <4>1. q \in [left : Numbers(s), right : Numbers(s)]
        BY <3>1 DEF Drawn
      <4> QED BY <3>1, <4>1
    <3>2. CASE s.operation = "-"
      <4>1. q \in {p \in [left : Numbers(s), right : Numbers(s)] : Negative(s) \/ p.right <= p.left}
        BY <3>2 DEF Drawn
      <4> QED BY <3>2, <4>1, Zenon DEF Negative
    <3> QED BY <1>1, <3>1, <3>2
  <2>2. ASSUME NEW m \in Numbers(s)
        PROVE  m \in Nat /\ m <= 999
    BY SMT DEF Numbers
  <2>3. s.operation # "*" /\ s.operation # ":"
    BY <1>1
  <2>4. /\ q.left \in Nat /\ q.left <= 999 /\ q.right \in Nat /\ q.right <= 999
        /\ s.operation = "-" => q.right <= q.left
    BY <2>1, <2>2
  <2> QED BY <2>3, <2>4
<1>2. CASE s.operation = "*"
  <2>1. q \in [left : 12 .. 99, right : 2 .. 25]
    BY <1>2 DEF Drawn
  <2>2. q.left \in 12 .. 99 /\ q.right \in 2 .. 25
    BY <2>1
  <2>3. /\ q.left \in Nat /\ 12 <= q.left /\ q.left <= 99
        /\ q.right \in Nat /\ 2 <= q.right /\ q.right <= 25
    BY <2>2, SMT
  <2> QED BY <1>2, <2>3
<1>3. CASE s.operation = ":"
  <2>1. PICK b \in 2 .. 9, r \in 2 .. 99 : q = [left |-> b * r, right |-> b]
    BY <1>3 DEF Drawn
  <2>2. q.left = b * r /\ q.right = b
    BY <2>1
  <2>3. r \in Nat /\ 2 <= r /\ r <= 99
    BY SMT
  <2>4. Divides(q, b, r)
    BY <2>2, <2>3, Zenon DEF Divides
  <2>5. s.operation # "*" /\ s.operation # "+" /\ s.operation # "-"
    BY <1>3
  <2> QED BY <2>4, <2>5, Zenon
<1>4. s.operation \in {"+", "-", "*", ":"}
  BY DEF MathSettings
<1> QED BY <1>1, <1>2, <1>3, <1>4

(***************************************************************************)
(* The work in columns is right for every settings of a lesson and every   *)
(* question that may be drawn: the carries and borrows of sums and         *)
(* differences, the rows of products and the steps of long divisions say   *)
(* what the operations mean, every expected number fits its field, and     *)
(* Submit takes it.                                                        *)
(***************************************************************************)
THEOREM WorkIsAlwaysRight ==
  ASSUME NEW s \in MathSettings, NEW q \in Drawn(s)
  PROVE  WorkIsRight(s, q)
<1> DEFINE answer == Result(s, q)
           signed(v) == IF v < 0 THEN Digits(-v) + 1 ELSE Digits(v)
           last == Field(answer, IF Longer(q) < signed(answer) THEN signed(answer) ELSE Longer(q))
           carries == {Field(Carries(s, q)[i], 1) : i \in 1 .. Longer(q)}
           row(d) == {Field(RowCarries(q, d)[j], 1) : j \in 1 .. Digits(q.left)}
                       \cup {Field(Partial(q, d), Digits(q.left) + 1)}
           rows == UNION {row(Digit(q.right, i)) : i \in 0 .. Digits(q.right) - 1}
           steps == IF s.divisionMode = "result" THEN <<>> ELSE Division(q)
           step(i) == {Field(steps[i].product, Longer(q)), Field(steps[i].remainder, Longer(q))}
                        \cup IF s.divisionMode = "full" /\ i > 1 THEN {Field(steps[i].bring, 1)}
                             ELSE {}
           division == UNION {step(i) : i \in DOMAIN steps}
           columns == CASE ~Columnar(s) -> {}
                        [] Columnar(s) /\ s.operation \in {"+", "-"} -> carries
                        [] Columnar(s) /\ s.operation = "*" -> rows
                        [] OTHER -> division
<1>1. Work(s, q) = columns \cup {last}
  BY Zenon DEF Work
<1>2. s.operation \in {"+", "-", "*", ":"}
  BY DEF MathSettings
<1>3. Fits(last)
  <2>1. Longer(q) \in 1 .. 4
    BY ResultIs, LongerIsSmall
  <2>2. answer \in Int /\ -1000 <= answer /\ answer <= 3000
    BY ResultIs
  <2> HIDE DEF answer
  <2> QED BY <2>1, <2>2, AnswerFits
<1>4. ASSUME Columnar(s)
      PROVE  CASE s.operation \in {"+", "-"} -> ColumnsAreRight(s, q)
               [] s.operation = "*" -> RowsAreRight(q)
               [] OTHER -> StepsAreRight(q)
  <2>1. CASE s.operation \in {"+", "-"}
    <3>1. ColumnsAreRight(s, q)
      BY <1>4, <2>1, ColumnarDraws, ColumnsAdd
    <3> QED BY <2>1, <3>1
  <2>2. CASE s.operation = "*"
    <3>1. RowsAreRight(q)
      BY <1>4, <2>2, ColumnarDraws, RowsMultiply
    <3> QED BY <2>2, <3>1
  <2>3. CASE s.operation = ":"
    <3>1. StepsAreRight(q)
      BY <1>4, <2>3, ColumnarDraws, StepsDivide
    <3> QED BY <2>3, <3>1
  <2> QED BY <1>2, <2>1, <2>2, <2>3
<1>5. ASSUME NEW f \in columns
      PROVE  Fits(f)
  <2>0. Columnar(s)
    BY <1>5, Zenon
  <2>1. CASE s.operation \in {"+", "-"}
    <3>1. f \in carries
      BY <1>5, <2>0, <2>1
    <3> QED BY <2>0, <2>1, <3>1, ColumnarDraws, CarryFieldsFit
  <2>2. CASE s.operation = "*"
    <3>1. f \in rows
      BY <1>5, <2>0, <2>2
    <3>2. PICK i \in 0 .. Digits(q.right) - 1 : f \in row(Digit(q.right, i))
      BY <3>1
    <3>3. /\ q.left \in Nat /\ 12 <= q.left /\ q.left <= 99
          /\ q.right \in Nat /\ 2 <= q.right /\ q.right <= 25
      BY <2>0, <2>2, ColumnarDraws
    <3>4. Digit(q.right, i) \in 0 .. 9
      <4>1. q.right <= 9999
        BY <3>3, SMT
      <4>2. i = 0 \/ i = 1
        <5>1. Digits(q.right) = IF q.right < 10 THEN 1 ELSE IF q.right < 100 THEN 2 ELSE IF q.right < 1000 THEN 3 ELSE 4
          BY <3>3, <4>1, DigitsAre
        <5> QED BY <3>3, <5>1, SMT
      <4> QED BY <3>3, <4>1, <4>2, Places
    <3> DEFINE d == Digit(q.right, i)
    <3>5. d \in 0 .. 9 /\ f \in row(d)
      BY <3>2, <3>4
    <3> HIDE DEF d
    <3>6. /\ Digits(q.left) = 2
          /\ \A j \in 1 .. 2 : Fits(Field(RowCarries(q, d)[j], 1))
          /\ Fits(Field(Partial(q, d), 3))
      BY <3>3, <3>5, RowFieldsFit
    <3>7. 2 + 1 = 3
      OBVIOUS
    <3> QED BY <3>5, <3>6, <3>7
  <2>3. CASE s.operation = ":"
    <3>1. f \in division
      BY <1>5, <2>0, <2>3
    <3>2. PICK b, r : Divides(q, b, r)
      BY <2>0, <2>3, ColumnarDraws
    <3>3. PICK i \in DOMAIN steps : f \in step(i)
      BY <3>1
    <3>4. s.divisionMode # "result" /\ steps = Division(q)
      <4>1. DOMAIN <<>> = {}
        OBVIOUS
      <4> QED BY <3>3, <4>1
    <3>5. /\ Fits(Field(steps[i].product, Longer(q))) /\ Fits(Field(steps[i].remainder, Longer(q)))
          /\ Fits(Field(steps[i].bring, 1))
      BY <3>2, <3>3, <3>4, StepFieldsFit
    <3> QED BY <3>3, <3>5
  <2> QED BY <1>2, <2>1, <2>2, <2>3
<1>6. \A f \in Work(s, q) : Fits(f)
  <2> HIDE DEF columns, last
  <2> QED BY <1>1, <1>3, <1>5
<1> HIDE DEF columns, last
<1> QED BY <1>4, <1>6 DEF WorkIsRight, Fits
=============================================================================
