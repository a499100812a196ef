\* Consent, opt-out and a restore around one task: calls are lost, late, or in flight
\* from before the restore.
SPECIFICATION Spec
CONSTANTS
  Tasks = {t1}
  Refs = {r1}
  Parents = {p1}
  NoParent = NoParent
  Tokens = {k1, k2}
  NoLease = NoLease
  MaxRestores = 1
  MaxFaults = 1
  MaxConsents = 2
  NoEvent = NoEvent
SYMMETRY Symmetry
INVARIANTS
  TypeOK
  NoSendAfterOptOut
  DeniedIsRetired
  DeliveredIsAccepted
PROPERTIES
  ConsentSurvives
  NoSecondEvent
  ImplementsLedger
