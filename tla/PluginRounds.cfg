SPECIFICATION FairSpec
CONSTANTS
  Names = {"dice", "coin"}
  Codes = {"dice", "dice2", "coin"}
  NoCode = "no code"
  Broken = {"dice2"}
  Manifest <- GivenName
  Uploads <- UnderAnyName
  Admins = {"a", "b"}
  MaxEdits = 3
INVARIANTS PluginTypeOK
PROPERTIES EnabledStaysLoaded RegistryConverges
