SPECIFICATION Spec
CONSTANTS
  Images = {"logo"}
  Dhash <- MCDhash
  Messages = {"m1", "m2"}
  Joins = {}
  Pictures <- RepeatPictures
  Avatar <- Plain
  NoAvatar = "none"
  MaxPictures = 1
  Moderators = {c1}
  Operations = {"console-revoke"}
  Capacity = 2
  Retries = 0
  Idle = Idle
  Faults = {}
PROPERTIES
  RevokeLiftsTheBan
