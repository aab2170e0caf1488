SPECIFICATION FairSpec
CONSTANTS
  Sources = {"config", "password"}
  NFiles = 3
  SourceOf <- SourceOfFile
  PasswordFile = 3
  MaxRevision = 3
  Broken = {2}
  MaxKills = 2
  MaxOutages = 1
INVARIANTS TypeOK StartsComplete Unmixed
PROPERTIES EventuallyCurrent EventuallyServing
