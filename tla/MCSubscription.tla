---------------------------- MODULE MCSubscription ----------------------------
(* Model values for checking Subscription: operators, parents and references *)
(* are interchangeable; terms that overlap, abut and end together.           *)
EXTENDS Subscription, TLC

T(s, e, n) == [starts |-> s, ends |-> e, limit |-> n]
MCTerms == {T(1, 2, 2), T(1, 3, 1), T(2, 3, 2)}
Symmetry == Permutations(Operators) \cup Permutations(Parents) \cup Permutations(References)
=============================================================================
