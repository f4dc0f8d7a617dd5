SPECIFICATION Spec
CONSTANTS
  Images = {"logo"}
  Dhash <- MCDhash
  Messages = {"m1"}
  Joins = {}
  Pictures <- RepeatPictures
  Avatar <- Plain
  NoAvatar = "none"
  MaxPictures = 1
  Moderators = {c1}
  Operations = {"whitelist-image"}
  Capacity = 1
  Retries = 0
  Idle = Idle
  Faults = {}
INVARIANTS
  MarkedSafeIsSafe
