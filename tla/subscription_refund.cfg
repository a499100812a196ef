\* A refund and a payment at once, by two operators.
SPECIFICATION Spec
CONSTANTS
  Operators = {o1, o2}
  Parents = {p1}
  Nobody = Nobody
  References = {a, b}
  Terms <- MCTerms
  InitialLimit = 1
  MaxChildren = 2
  MaxTime = 2
INVARIANTS
  PaidIsHonoured
