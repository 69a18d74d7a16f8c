SPECIFICATION Spec
CONSTANTS
  Programs = {"p1", "p2"}
  Setups <- MCSetups
  MaxStarts = 2
  MaxClears = 1
  Names = {"a", "b", "c"}
  Contents <- MCContents
  Builtin <- MCBuiltin
  MaxCalls = 3
  Managers <- MCManagers
  MaxInstalls = 3
  MaxLeft = 2
  Containers = {"c1", "c2", "c3"}
INVARIANTS PublishedIsWhole StartedAsConfigured ProfilesResolve InstallTriesAll SuccessIsWhole
PROPERTIES EveryStartEnds
CHECK_DEADLOCK FALSE
