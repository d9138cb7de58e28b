SPECIFICATION FairSpec
CONSTANT MaxFaults = 4
INVARIANT MarkerHonest
PROPERTIES OldTouchesNothing InstallFinishes
CHECK_DEADLOCK FALSE
