\* Two lessons, two readings or one of each on two tablets, across midnight and an import.
SPECIFICATION Spec
CONSTANTS
  Tablets = {t1, t2}
  NoTablet = NoTablet
  Lessons = {l1, l2}
  Questions = 2
  Settings <- MCSettings
  Marks = {TRUE}
  Readings = {r1, r2}
  Levels = {2}
  MathLimit = 3
  PreviousMathLimit = 1
  ReadingLimit = 3
  MaxStarts = 1
  MaxActivities = 2
  MaxDay = 2
  MaxBackups = 1
SYMMETRY Symmetry
INVARIANTS
  TypeOK
  ExportIsAccepted
  OneRewardPerReading
PROPERTIES
  ProgressIsKept
  RequestsAreSerial
