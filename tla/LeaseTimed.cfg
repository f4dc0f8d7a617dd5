SPECIFICATION Spec
CONSTANTS
  Instances = {"a", "b", "c"}
  Nobody = "nobody"
  Addressed = {}
  Skew <- NoSkew
  TTL = 1
  Operations = {"acquire", "release"}
  ChannelSize = 1
  Faults = {"db"}
  MaxTime = 4
  MaxToken = 3
INVARIANTS OneLeaderAtATime
PROPERTIES IsFencingRegister
