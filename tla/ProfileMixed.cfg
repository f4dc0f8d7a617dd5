SPECIFICATION Spec
CONSTANTS
  Start <- LevelNought
  Gains = {15, 25}
  PerFlush = 2
  Sessions = {"bot", "web"}
  Ops = {"edit", "theme", "xpset"}
  Levels = {1}
  Faults = {"db", "stop"}
  MaxMessages = 3
  MaxCommands = 2
  MaxFaults = 2
INVARIANTS ProfileTypeOK NoXpInvented XpConserved LevelFollowsXp
CHECK_DEADLOCK FALSE
