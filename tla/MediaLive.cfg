SPECIFICATION FairSpec
CONSTANTS
  Images = {"logo", "crop"}
  Dhash <- MCDhash
  Messages = {"m1"}
  Joins = {}
  Pictures <- AlbumPictures
  Avatar <- Plain
  NoAvatar = "none"
  MaxPictures = 2
  Moderators = {c1}
  Operations = {"whitelist-image", "console-blacklist", "console-revoke"}
  Capacity = 1
  Retries = 0
  Idle = Idle
  Faults = {"crash"}
INVARIANTS
  RemovedMeansRecorded
PROPERTIES
  RepeatMediaRemoved
  FlaggedIsRemoved
  MemoryConverges
