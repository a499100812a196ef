\* Remembered sign-ins, tokens, grants and management requests that overlap PIN changes,
\* removals, an account reset and an import.
SPECIFICATION Spec
CONSTANTS
  MaxId = 2
  Names = {n1, n2}
  NoName = NoName
  Owner = 1
  MaxBackups = 1
  MaxRevocations = 1
  Devices = {d1}
  Grants = {g1}
  NoDevice = NoDevice
  NoGrant = NoGrant
  MaxTokens = 1
SYMMETRY Symmetry
INVARIANTS
  TypeOK
  RevocationIsFinal
  VersionsCount
  OwnerRemains
PROPERTIES
  ChildDeviceApproved
  ConfirmationIsCurrent
