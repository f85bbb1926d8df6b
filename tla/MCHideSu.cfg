CONSTANTS
  Apps = {1, 2, 3}
  Listed = {1, 3}
  Parent <- MCParent
  Present = {"zygote", "zygote64"}
  LateZygote64 = FALSE
  MaxRestarts = 0
  MaxDeaths = 0
  MaxFaults = 1
SPECIFICATION Spec
INVARIANT TypeOK
PROPERTIES DetachesOnlyFromListed EventsHandled StoppedIsContinued
CHECK_DEADLOCK FALSE
