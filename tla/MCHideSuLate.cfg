CONSTANTS
  Apps = {1, 2, 3}
  Listed = {1, 3}
  Parent <- MCParent
  Present = {"zygote", "zygote64"}
  LateZygote64 = TRUE
  MaxRestarts = 0
  MaxDeaths = 0
  MaxFaults = 0
SPECIFICATION Spec
PROPERTY DetachesOnlyFromListed
CHECK_DEADLOCK FALSE
