SPECIFICATION Spec
CONSTANTS
  Members <- Everybody
  Staff <- Moderators
  BotOwner = "owner"
  Creator = "creator"
  Authors = {"guest"}
  Brackets = {"20-24", "25-29"}
  Unset = "unset"
  Nobody = "nobody"
  MaxCommands = 3
  MaxFaults = 1
INVARIANTS RoomTypeOK OnlyTheEntitledAct
PROPERTIES CommandsAreAtomic VerdictIsTheRooms
