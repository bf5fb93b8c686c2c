\* An attempt on the Rust rung, which keeps no record.
SPECIFICATION Spec
CONSTANTS
  Attempts = {"x"}
  ClientOf <- Client
  PortOf <- AllOn4438
  Processes = {"lab", "legacy", "rust"}
  ProcessOf <- Served
  Writers = {"lab", "legacy"}
  Ceiling = 100
  Window = 1
  MaxRows = 5
  OneTab = TRUE
  RecordsLand = TRUE
  Faults = {}
  MaxFaults = 0
  MaxClock = 0
PROPERTIES NoUdpMeansNoPacket
CHECK_DEADLOCK FALSE
