CONSTANTS
  Ramdisks <- MCRamdisks
  Arguments <- MCArguments
  BuildRamdisks <- MCBuildRamdisks
  MaxRuns = 3
SPECIFICATION Spec
INVARIANTS BuildTypeOK EditsReachImage GuardsFitReleases LabelsResolve
           PublishedAsNamed PublishedFromWhole
CHECK_DEADLOCK FALSE
