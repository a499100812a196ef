\* A request from before an import meets its version again.
SPECIFICATION Spec
CONSTANTS
  mum = mum
  kid = kid
  anyone = anyone
  Parents <- MCParents
  Children <- MCChildren
  Anyone = anyone
  Plans <- MCPlans
  Dates = {1, 2}
  Today = 2
  Stages = 2
  MaxEvents = 2
  MaxVersion = 4
  MaxImports = 1
\* Without the child no plan of this small set fits a new card: the family is at rest.
CHECK_DEADLOCK FALSE
PROPERTIES DevicesOverwriteNothing
