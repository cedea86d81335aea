SPECIFICATION FairSpec
CONSTANTS
  d1 = d1
  Device = {d1}
  NoDevice = NoDevice
  NoInst = NoInst
  MaxStarts = 3
  MaxReports = 2
  MaxFaults = 1
  MaxEdits = 2
INVARIANTS TypeOK OneWanted InitSafe DownJustified
PROPERTIES InOrder Delivered FollowsTable
CHECK_DEADLOCK FALSE
