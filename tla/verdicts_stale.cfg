\* A second attempt from one address inside the window.
SPECIFICATION Spec
CONSTANTS
  Attempts = {"x", "y"}
  ClientOf <- Client
  PortOf <- AllOn4433
  Processes = {"lab", "legacy", "rust"}
  ProcessOf <- Served
  Writers = {"lab", "legacy"}
  Ceiling = 100
  Window = 1
  MaxRows = 5
  OneTab = TRUE
  RecordsLand = TRUE
  Faults = {}
  MaxFaults = 0
  MaxClock = 0
PROPERTIES VerdictForThisAttempt
CHECK_DEADLOCK FALSE
