CONSTANTS
  Apps = {1, 2}
  Listed = {1, 2}
  Parent <- MCParent32
  Present = {"zygote"}
  LateZygote64 = FALSE
  MaxRestarts = 0
  MaxDeaths = 1
  MaxFaults = 0
SPECIFICATION Spec
PROPERTY EventsHandled
CHECK_DEADLOCK FALSE
