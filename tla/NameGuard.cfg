SPECIFICATION FairSpec
CONSTANTS
  Members = {"sly"}
  Names = {"plain", "soft", "vile"}
  Blank = ""
  Username <- Usernames
  GlobalName <- NoGlobalNames
  Patterns = {"p", "q"}
  Hits <- SoftHits
  Hardcoded = {"vile"}
  FirstRules <- Books
  Compilable <- OnePattern
  Staff = {"mod"}
  Consoles = {"console"}
  Handlers = {"h"}
  Faults = {"db", "discord", "cache", "crash"}
  MaxEvents = 2
  MaxEdits = 1
  MaxFaults = 1
INVARIANTS NameTypeOK StandingRuleEnforced VerdictHasARule
PROPERTIES MemoryFollows VileNickGoes
