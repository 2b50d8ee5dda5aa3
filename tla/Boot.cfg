\* The service, root, the uninstall script and a vendor module nobody waits for.
SPECIFICATION FairSpec
CONSTANTS
  Awaited <- MCAwaited
  Providers <- OneMore
  MaxAttempts = 3
  Profiles <- AllProfiles
  KmodFiles = {TRUE, FALSE}
  RootActs = TRUE
CHECK_DEADLOCK FALSE
INVARIANT TypeOK
INVARIANT UninstallLeavesNothing
INVARIANT InsmodWhenReady
PROPERTY ServiceEnds
