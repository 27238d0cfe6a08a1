SPECIFICATION FairSpec
CONSTANTS
  Backend = {b1, b2}
  NoBackend = NoBackend
  HealthyThreshold = 2
  UnhealthyThreshold = 3
  Maintainable = {b1}
PROPERTY MaintenanceStays
