\* Both processes dying at any moment, a file operation failing, a device and
\* two tabs that hold on to what they were given.
SPECIFICATION FairSpec
CONSTANTS
  Modes = {"hash", "ca", "le"}
  LabPort = 4433
  PublishOrder <- Pinned
  CertSignPort = 4439
  Tabs = {"t1", "t2"}
  PortOf <- Dialled
  MaxDeaths = 2
  MaxFaults = 1
INVARIANTS TypeOK PinHolds ProfileKeepsMatching BetweenFilesIsHarmless
PROPERTIES LabComesUp
CHECK_DEADLOCK FALSE
