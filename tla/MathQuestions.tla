---------------------------- MODULE MathQuestions ----------------------------
(***************************************************************************)
(* The content of a math lesson: its settings and what they are worth, the *)
(* questions that NewMathSession may draw, what Validate accepts in a      *)
(* backup, and the work that a child is asked to write down in columns.    *)
(* Random draws are sets of possible outcomes.                             *)
(***************************************************************************)
EXTENDS Integers, Sequences, FiniteSets

MathSettings ==
  {s \in [operation : {"+", "-", "*", ":"}, level : {"easy", "medium", "hard", "columnar"},
          answerMode : {"input", "choice"}, divisionMode : {"result", "steps", "full"},
          allowNegative : BOOLEAN] :
     s.level = "columnar" => s.answerMode = "input"}

Columnar(s) == s.level = "columnar"

-----------------------------------------------------------------------------
(* Stars of a correct answer, by the version of the rewards.               *)

LegacyStars(s) == CASE s.level = "easy" -> 1 [] s.level = "medium" -> 2 [] OTHER -> 3

PreviousStars(s) ==
  CASE Columnar(s) /\ s.operation = "*" -> 4
    [] Columnar(s) /\ s.operation = ":" ->
         (CASE s.divisionMode = "full" -> 5 [] s.divisionMode = "steps" -> 4 [] OTHER -> 3)
    [] Columnar(s) /\ s.operation \in {"+", "-"} -> 3
    [] OTHER -> LET stars == LegacyStars(s) + IF s.operation \in {"*", ":"} THEN 1 ELSE 0
                IN IF s.answerMode = "choice" /\ stars > 1 THEN stars - 1 ELSE stars

Stars(s) == PreviousStars(s) + 1

-----------------------------------------------------------------------------
(* Questions.                                                              *)

Largest(s) == CASE s.level = "medium" -> 25 [] s.level = "hard" -> 100 [] OTHER -> 10
Factor(s) == IF Largest(s) < 12 THEN Largest(s) ELSE 12
Numbers(s) == IF Columnar(s) THEN 12 .. 999 ELSE 0 .. Largest(s)
Negative(s) == s.allowNegative /\ ~Columnar(s)

Result(s, q) ==
  CASE s.operation = "+" -> q.left + q.right
    [] s.operation = "-" -> q.left - q.right
    [] s.operation = "*" -> q.left * q.right
    [] OTHER -> q.left \div q.right

\* What may be drawn: the larger number first unless the result may be negative,
\* and dividends that are multiples.
Drawn(s) ==
  CASE s.operation = "+" -> [left : Numbers(s), right : Numbers(s)]
    [] s.operation = "-" -> {q \in [left : Numbers(s), right : Numbers(s)] :
                               Negative(s) \/ q.right <= q.left}
    [] s.operation = "*" -> IF Columnar(s) THEN [left : 12 .. 99, right : 2 .. 25]
                            ELSE [left : 0 .. Factor(s), right : 0 .. Factor(s)]
    [] OTHER -> IF Columnar(s) THEN {[left |-> b * r, right |-> b] : b \in 2 .. 9, r \in 2 .. 99}
                ELSE {[left |-> b * r, right |-> b] : b \in 1 .. Factor(s), r \in 0 .. Largest(s)}

\* Wrong answers are near the right one; without negative numbers, at least zero.
Near(s, q) == {LET v == Result(s, q) + d IN IF s.allowNegative \/ v >= 0 THEN v ELSE 0 :
                 d \in -8 .. 8}

\* The loop that collects four different options ends with one of these sets.
Options(s, q) ==
  IF s.answerMode = "choice"
  THEN {o \in SUBSET (Near(s, q) \cup {Result(s, q)}) :
          Result(s, q) \in o /\ Cardinality(o) = 4}
  ELSE {{}}

\* Validate: the questions that an import accepts.
ValidQuestion(s, q, o) ==
  /\ q.left \in 0 .. 2000 /\ q.right \in 0 .. 1000
  /\ s.operation = ":" => q.right # 0 /\ q.left % q.right = 0
  /\ s.operation = "-" /\ ~Negative(s) => q.right <= q.left
  /\ IF s.answerMode = "choice" THEN Cardinality(o) = 4 /\ Result(s, q) \in o ELSE o = {}

-----------------------------------------------------------------------------
(* Work in columns.                                                        *)

TenTo(n) == 10 ^ n

\* strconv.Itoa of a number that is not negative, from its last digit.
Digits(v) == CHOOSE n \in 1 .. 7 : v < TenTo(n) /\ (n = 1 \/ TenTo(n - 1) <= v)
Digit(v, i) == (v \div TenTo(i)) % 10
Longer(q) == IF Digits(q.left) < Digits(q.right) THEN Digits(q.right) ELSE Digits(q.left)

\* Carries or borrows; the one of column i goes to column i + 1.
Carries(s, q) ==
  LET carry[i \in 0 .. Longer(q)] ==
        IF i = 0 THEN 0
        ELSE LET a == Digit(q.left, i - 1)
                 b == Digit(q.right, i - 1)
             IN IF s.operation = "+" THEN (a + b + carry[i - 1]) \div 10
                ELSE IF a - carry[i - 1] < b THEN 1 ELSE 0
  IN carry

\* Carries of the row of one digit of the multiplier, and its product.
RowCarries(q, digit) ==
  LET carry[i \in 0 .. Digits(q.left)] ==
        IF i = 0 THEN 0 ELSE (Digit(q.left, i - 1) * digit + carry[i - 1]) \div 10
  IN carry
Partial(q, digit) == q.left * digit

\* Long division from the first digit; a step begins when the divisor goes in.
Division(q) ==
  LET n == Digits(q.left)
      after[k \in 0 .. n] ==
        IF k = 0 THEN [rest |-> 0, steps |-> <<>>]
        ELSE LET digit == Digit(q.left, n - k)
                 partial == 10 * after[k - 1].rest + digit
                 product == (partial \div q.right) * q.right
             IN IF after[k - 1].steps = <<>> /\ partial < q.right
                THEN [rest |-> partial, steps |-> <<>>]
                ELSE [rest |-> partial - product,
                      steps |-> Append(after[k - 1].steps,
                        [bring |-> digit, product |-> product, remainder |-> partial - product])]
  IN after[n].steps

\* The fields of the form: the value that is expected and the room there is for it.
Field(value, width) == [value |-> value, width |-> width]
Work(s, q) ==
  LET signed(v) == IF v < 0 THEN Digits(-v) + 1 ELSE Digits(v)
      answer == Result(s, q)
      columns ==
        CASE ~Columnar(s) -> {}
          [] Columnar(s) /\ s.operation \in {"+", "-"} ->
               {Field(Carries(s, q)[i], 1) : i \in 1 .. Longer(q)}
          [] Columnar(s) /\ s.operation = "*" ->
               UNION {LET digit == Digit(q.right, i) IN
                        {Field(RowCarries(q, digit)[j], 1) : j \in 1 .. Digits(q.left)}
                          \cup {Field(Partial(q, digit), Digits(q.left) + 1)} :
                      i \in 0 .. Digits(q.right) - 1}
          [] OTHER ->
               LET steps == IF s.divisionMode = "result" THEN <<>> ELSE Division(q) IN
               UNION {{Field(steps[i].product, Longer(q)), Field(steps[i].remainder, Longer(q))}
                        \cup IF s.divisionMode = "full" /\ i > 1 THEN {Field(steps[i].bring, 1)}
                             ELSE {} :
                      i \in DOMAIN steps}
  IN columns \cup {Field(answer, IF Longer(q) < signed(answer) THEN signed(answer) ELSE Longer(q))}

-----------------------------------------------------------------------------
(* What the columns must say, by the definition of the operations: a sum   *)
(* over places is taken with a fold of its own.                            *)

Sum(f, n) == LET sum[i \in 0 .. n] == IF i = 0 THEN 0 ELSE sum[i - 1] + f[i] IN sum[n]

\* Every column gives one digit of the result, and nothing is left after the last one.
ColumnsAreRight(s, q) ==
  LET n == Longer(q)
      carry == Carries(s, q)
      sign == IF s.operation = "+" THEN 1 ELSE -1
  IN /\ \A i \in 0 .. n - 1 :
          Digit(Result(s, q), i) = Digit(q.left, i)
             + sign * (Digit(q.right, i) + carry[i] - 10 * carry[i + 1])
     /\ carry[n] = Result(s, q) \div TenTo(n)

\* Every row is the product with one digit, and the shifted rows add up.
RowsAreRight(q) ==
  LET rows == Digits(q.right) IN
  /\ \A i \in 0 .. rows - 1 :
       LET digit == Digit(q.right, i)
           carry == RowCarries(q, digit)
       IN /\ \A j \in 0 .. Digits(q.left) - 1 :
               Digit(Partial(q, digit), j) = Digit(q.left, j) * digit + carry[j] - 10 * carry[j + 1]
          /\ carry[Digits(q.left)] = Partial(q, digit) \div TenTo(Digits(q.left))
  /\ q.left * q.right = Sum([i \in 1 .. rows |-> Partial(q, Digit(q.right, i - 1)) * TenTo(i - 1)], rows)

\* One step for each digit of the quotient, small remainders, and none at the end.
StepsAreRight(q) ==
  LET steps == Division(q)
      m == Len(steps)
  IN /\ m = Digits(q.left \div q.right)
     /\ \A i \in 1 .. m : steps[i].remainder \in 0 .. q.right - 1
     /\ steps[m].remainder = 0
     /\ q.left \div q.right
          = Sum([i \in 1 .. m |-> (steps[i].product \div q.right) * TenTo(m - i)], m)

\* Submit takes answers within this limit.
AnswerLimit == 1000000

\* The numbers that the form asks for are right, each fits its field, and Submit takes them.
WorkIsRight(s, q) ==
  /\ Columnar(s) =>
       CASE s.operation \in {"+", "-"} -> ColumnsAreRight(s, q)
         [] s.operation = "*" -> RowsAreRight(q)
         [] OTHER -> StepsAreRight(q)
  /\ \A f \in Work(s, q) :
       /\ -AnswerLimit <= f.value /\ f.value <= AnswerLimit
       /\ IF f.value < 0 THEN -f.value < TenTo(f.width - 1) ELSE f.value < TenTo(f.width)
=============================================================================
