CONSTANTS
  Ramdisks <- MCRamdisks
  Arguments <- MCArguments
SPECIFICATION ChangesSpec
INVARIANT LoadPolicyPrevented
CHECK_DEADLOCK FALSE
