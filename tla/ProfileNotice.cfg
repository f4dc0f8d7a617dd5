SPECIFICATION FairSpec
CONSTANTS
  Start <- LevelNought
  Gains = {15, 25}
  PerFlush = 2
  Sessions = {}
  Ops = {}
  Levels = {1}
  Faults = {}
  MaxMessages = 3
  MaxCommands = 0
  MaxFaults = 1
PROPERTIES LevelUpsAnnounced
CHECK_DEADLOCK FALSE
