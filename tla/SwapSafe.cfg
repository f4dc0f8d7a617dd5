SPECIFICATION FairSpec
CONSTANTS
  Binaries <- CoreBinaries
  Signed <- CoreSigned
  NoBinary = "none"
  PollErrors = TRUE
  Polls = 2
  MaxCores = 3
  MaxPublished = 3
INVARIANTS SupervisorTypeOK CurrentIsLkg OnlySignedRuns OneCoreUnlessRolledBack
PROPERTIES UpdatesAreServed
