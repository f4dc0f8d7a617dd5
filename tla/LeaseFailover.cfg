SPECIFICATION FairSpec
CONSTANTS
  Instances = {"a", "b", "c"}
  Nobody = "nobody"
  Addressed = {"a", "b"}
  Skew <- SomeSkew
  TTL = 1
  Operations = {"acquire", "steal"}
  ChannelSize = 1
  Faults = {"db"}
  MaxTime = 1
  MaxToken = 2
INVARIANTS LeaseTypeOK TokensFence
PROPERTIES OnlyTheReportedLoseIt DeadLeaderReported
