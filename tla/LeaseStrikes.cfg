SPECIFICATION HistorySpec
CONSTANTS
  Instances = {"a", "b", "c"}
  Nobody = "nobody"
  Addressed = {"a", "b", "c"}
  Skew <- NoSkew
  TTL = 1
  Operations = {"acquire", "steal"}
  ChannelSize = 1
  Faults = {}
  MaxTime = 3
  MaxToken = 2
INVARIANTS DeadAfterThreeProbes
