SPECIFICATION Spec
CONSTANTS
  NoDevice = {}
  MayFail = {"server", "move"}
  MaxPending = 1
INVARIANTS
  TypeOK
  StatusIsTrue
