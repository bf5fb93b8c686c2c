\* A session task and two streams against the budget, the ceiling and a
\* restarting window: bytes on the wire, and how every session ends.
SPECIFICATION FairSpec
CONSTANTS
  Addresses = {"a1"}
  Sessions = {"s1"}
  AddressOf <- OneAddress
  Streams = {"t1", "t2"}
  SessionOf <- AllInFirst
  Chunks = {1, 2}
  PerAddressSessions = 1
  SessionEchoBudget = 3
  DailyEgressCeiling = 3
  DropCloses = FALSE
  MaxCounter = 3
  MaxWindows = 1
INVARIANTS TypeOK SessionEgress DailyEgress NeverFallsSilent
PROPERTIES BittenSessionCloses SlotComesBack
CHECK_DEADLOCK FALSE
