\* Every committed event is settled.
SPECIFICATION FairSpec
CONSTANTS
  Tasks = {t1}
  Refs = {r1}
  Parents = {p1}
  NoParent = NoParent
  Tokens = {k1, k2}
  NoLease = NoLease
  MaxRestores = 0
  MaxFaults = 1
  MaxConsents = 2
  NoEvent = NoEvent
PROPERTIES
  EventSettles
