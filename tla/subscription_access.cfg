\* Two operators and two parents around one family, its payments and refunds.
SPECIFICATION Spec
CONSTANTS
  Operators = {o1, o2}
  Parents = {p1, p2}
  Nobody = Nobody
  References = {a, b}
  Terms <- MCTerms
  InitialLimit = 1
  MaxChildren = 2
  MaxTime = 2
SYMMETRY Symmetry
INVARIANTS
  TypeOK
  AccessIsPaid
  ChildrenFit
PROPERTIES
  ReferenceIsFinal
  OnlyWaitingRefundsTake
  TransactionsAreSerial
