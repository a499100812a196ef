--------------------------- MODULE MCLearningRewards ---------------------------
(* Model values for checking LearningRewards: tablets, lessons and readings  *)
(* are interchangeable.  Before the behaviours, TLC evaluates the work of    *)
(* the questions that may be drawn; of the large numbers, those with every   *)
(* kind of digit next to another.                                            *)
EXTENDS LearningRewards, TLC

MCSettings == {[operation |-> "+", level |-> "medium", answerMode |-> "choice",
                divisionMode |-> "result", allowNegative |-> FALSE]}
Symmetry == Permutations(Tablets) \cup Permutations(Lessons) \cup Permutations(Readings)

Sample == (0 .. 12) \cup {19, 20, 25, 45, 90, 98, 99, 100, 101, 109, 110, 190, 199, 200, 455,
                          545, 899, 900, 901, 990, 998, 999}
Sampled(s) == IF s.operation \in {"+", "-"}
              THEN {q \in [left : Numbers(s) \cap Sample, right : Numbers(s) \cap Sample] :
                      s.operation = "-" => Negative(s) \/ q.right <= q.left}
              ELSE Drawn(s)

\* The form asks for the numbers of the pencil-and-paper method, for every operation:
\* each column, row and step is right and each value fits its field.
ASSUME WorkAssumption ==
  \A s \in {t \in MathSettings : t.answerMode = "input"} : \A q \in Sampled(s) : WorkIsRight(s, q)
=============================================================================
