CONSTANTS
  Machines <- Small
  Sorts = {"stable", "any"}
  Tables <- MCTables
  Wanted <- MCWanted
SPECIFICATION ActuatorSpec
INVARIANTS TableSound NothingBetween FunctionAgrees NothingMissed PrinterAgrees
PROPERTY SearchEnds
CHECK_DEADLOCK FALSE
