SPECIFICATION Spec
CONSTANTS
  Images = {"logo", "icon", "crop"}
  Dhash <- MCDhash
  Messages = {"m1"}
  Joins = {"j1"}
  Pictures <- JoinPictures
  Avatar <- IconAvatar
  NoAvatar = "none"
  MaxPictures = 1
  Moderators = {c1}
  Operations = {"whitelist-pfp", "console-blacklist", "console-whitelist", "console-unwhitelist",
    "whitelist-image", "console-revoke"}
  Capacity = 1
  Retries = 0
  Idle = Idle
  Faults = {"db", "fetch", "discord"}
INVARIANTS
  NoInnocentRemoval
PROPERTIES
  OnlyTheNamedAreFreed
