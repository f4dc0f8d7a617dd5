SPECIFICATION FairSpec
CONSTANTS
  Names = {"dice", "coin"}
  Codes = {"dice"}
  NoCode = "no code"
  Broken = {}
  Manifest <- GivenName
  Uploads <- UnderAnyName
  Admins = {"a"}
  MaxEdits = 2
PROPERTIES DeletedIsUnloaded
