SPECIFICATION Spec
CONSTANTS
  Members = {"sly"}
  Names = {"plain", "soft", "vile"}
  Blank = ""
  Username <- Usernames
  GlobalName <- NoGlobalNames
  Patterns = {"p", "q"}
  Hits <- SoftHits
  Hardcoded = {"vile"}
  FirstRules <- Books
  Compilable <- OnePattern
  Staff = {"mod"}
  Consoles = {"console"}
  Handlers = {"h"}
  Faults = {"db", "discord", "cache", "crash"}
  MaxEvents = 2
  MaxEdits = 2
  MaxFaults = 1
PROPERTIES ReloadKeepsCover
