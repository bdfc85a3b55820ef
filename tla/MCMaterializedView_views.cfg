SPECIFICATION Spec
CONSTANTS
  Services = {a, b}
  NoItem = NoItem
  MaxCommands = 3
  MaxTime = 1
  MaxErrors = 1
SYMMETRY Symmetry
CHECK_DEADLOCK FALSE
INVARIANTS
  TypeOK
  LatchMarksCopies
  NoEcho
  RejectedIsStale
  ConvergesToNewest
