SPECIFICATION Spec
CONSTANTS
  Images = {"logo", "crop", "icon"}
  Dhash <- MCDhash
  Messages = {"m1"}
  Joins = {"j1"}
  Pictures <- CropPictures
  Avatar <- CropAvatar
  NoAvatar = "none"
  MaxPictures = 1
  Moderators = {c1}
  Operations = {"console-blacklist"}
  Capacity = 2
  Retries = 0
  Idle = Idle
  Faults = {}
PROPERTIES
  FlaggedAvatarBlocks
