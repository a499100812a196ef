\* An import that leaves a profile out, and a new profile with its id.
SPECIFICATION Spec
CONSTANTS
  MaxId = 2
  Names = {n1, n2}
  NoName = NoName
  Owner = 1
  MaxBackups = 1
  MaxRevocations = 1
  Devices = {}
  Grants = {}
  NoDevice = NoDevice
  NoGrant = NoGrant
  MaxTokens = 2
INVARIANTS
  ImportRevokes
