\* One chore of one person who a parent rates, over weeks of two days and two months.
SPECIFICATION Spec
CONSTANTS
  Chores = {c}
  People = {p}
  Parents = {m}
  WeekDays = 2
  MonthStarts <- MCMonthStarts
  MaxDay = 5
INVARIANTS
  TypeOK
  PeriodsAddUp
  PlanIsComplete
PROPERTIES
  DoneOncePerPeriod
