SPECIFICATION Spec
CONSTANTS
  Start <- NoDocument
  Gains = {15, 25}
  PerFlush = 2
  Sessions = {"bot", "owner"}
  Ops = {"edit", "xpset"}
  Levels = {1}
  Faults = {}
  MaxMessages = 0
  MaxCommands = 2
  MaxFaults = 1
PROPERTIES EditKeepsXp
CHECK_DEADLOCK FALSE
