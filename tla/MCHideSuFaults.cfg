CONSTANTS
  Apps = {1, 3}
  Listed = {1, 3}
  Parent <- MCParent13
  Present = {"zygote", "zygote64"}
  LateZygote64 = TRUE
  MaxRestarts = 1
  MaxDeaths = 1
  MaxFaults = 1
SPECIFICATION Spec
INVARIANTS FrozenWhileDetaching HiddenOnceHandled StoppedIsAhead
CHECK_DEADLOCK FALSE
