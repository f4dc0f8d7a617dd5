SPECIFICATION Spec
CONSTANTS
  Start <- NoDocument
  Gains = {15, 25}
  PerFlush = 2
  Sessions = {}
  Ops = {}
  Levels = {}
  Faults = {}
  MaxMessages = 7
  MaxCommands = 0
  MaxFaults = 1
INVARIANTS LevelFollowsXp
CHECK_DEADLOCK FALSE
