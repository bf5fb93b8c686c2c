\* Two sessions for one slot: slot accounting, and the contract if a drop closes.
SPECIFICATION Spec
CONSTANTS
  Addresses = {"a1"}
  Sessions = {"s1", "s2"}
  AddressOf <- OneAddress
  Streams = {"t1"}
  SessionOf <- AllInFirst
  Chunks = {1}
  PerAddressSessions = 1
  SessionEchoBudget = 1
  DailyEgressCeiling = 2
  DropCloses = TRUE
  MaxCounter = 1
  MaxWindows = 1
INVARIANTS SlotsMatchHolders
PROPERTIES ImplementsContract
CHECK_DEADLOCK FALSE
