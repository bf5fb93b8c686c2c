\* Two attempts with one file between them: it rolls over, lines are lost and torn,
\* restarts wipe it, requests go unanswered, and pages ask before the record has landed.
SPECIFICATION Spec
CONSTANTS
  Attempts = {"x", "y"}
  ClientOf <- Client
  PortOf <- ApartInOneFile
  Processes = {"lab", "legacy", "rust"}
  ProcessOf <- Served
  Writers = {"lab", "legacy"}
  Ceiling = 2
  Window = 0
  MaxRows = 5
  OneTab = TRUE
  RecordsLand = FALSE
  Faults = {"restart", "lose", "tear", "unanswered"}
  MaxFaults = 1
  MaxClock = 0
INVARIANTS TypeOK
PROPERTIES OnlyLossMisleads
CONSTRAINT FewRows
CHECK_DEADLOCK FALSE
