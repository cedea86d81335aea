\* The dashboard: two devices chosen up to three times, one location.
SPECIFICATION FairDashboard
CONSTANTS
  Device = {d1, d2}
  Alarmed = {d1, d2}
  NoDevice = none
  Nobody = none
  MaxPicks = 3
  Location = {l1}
  MaxPosts = 1
INVARIANTS
  DashboardTypeOK
  PollingGoesOn
  NoOldTelemetry
  MarksAreSeen
PROPERTY PartsAreShown
