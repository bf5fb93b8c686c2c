\* Attempts apart from each other, nothing lost: each page is told of its own.
SPECIFICATION Spec
CONSTANTS
  Attempts = {"x", "y"}
  ClientOf <- Client
  PortOf <- Apart
  Processes = {"lab", "legacy", "rust"}
  ProcessOf <- Served
  Writers = {"lab", "legacy"}
  Ceiling = 100
  Window = 1
  MaxRows = 6
  OneTab = TRUE
  RecordsLand = TRUE
  Faults = {}
  MaxFaults = 0
  MaxClock = 1
PROPERTIES VerdictForThisAttempt NoUdpMeansNoHandshake
CONSTRAINT FewRows
CHECK_DEADLOCK FALSE
