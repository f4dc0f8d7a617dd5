SPECIFICATION Spec
CONSTANTS
  Binaries <- CoreBinaries
  Signed <- CoreSigned
  NoBinary = "none"
  PollErrors = FALSE
  Polls = 2
  MaxCores = 3
  MaxPublished = 2
INVARIANTS RollbackLeavesOneCore
