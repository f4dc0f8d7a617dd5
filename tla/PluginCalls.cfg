SPECIFICATION CallsFairSpec
CONSTANTS
  Plugins = {"game"}
  Modules = {"old", "new"}
  NoModule = "no module"
  Listeners = {"new"}
  Requested <- Asks
  Keys = {"score"}
  Values = {"points"}
  Unsure = "unsure"
  Size <- Sizes
  DefaultQuota = 2
  Fuel = 1
  Handlers = {"h1", "h2"}
  Consoles = {"http"}
  Cores = 2
  Faults = {"db", "crash"}
  MaxCalls = 3
  MaxUploads = 2
  MaxFaults = 1
INVARIANTS LoneSetHolds LockHoldersGoOn
PROPERTIES CallsEnd UploadsAreLoaded
CHECK_DEADLOCK FALSE
