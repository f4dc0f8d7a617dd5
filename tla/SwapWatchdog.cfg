SPECIFICATION FairSpec
CONSTANTS
  Binaries <- CoreBinaries
  Signed <- CoreSigned
  NoBinary = "none"
  PollErrors = FALSE
  Polls = 2
  MaxCores = 2
  MaxPublished = 2
PROPERTIES WatchdogRevives
