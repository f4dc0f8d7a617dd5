SPECIFICATION CallsSpec
CONSTANTS
  Plugins = {"game"}
  Modules = {"old", "new"}
  NoModule = "no module"
  Listeners = {"new"}
  Requested <- Asks
  Keys = {"score"}
  Values = {"points"}
  Unsure = "unsure"
  Size <- Sizes
  DefaultQuota = 2
  Fuel = 1
  Handlers = {"h1", "h2"}
  Consoles = {"http"}
  Cores = 2
  Faults = {}
  MaxCalls = 3
  MaxUploads = 1
  MaxFaults = 0
INVARIANTS NeverGridlocked
