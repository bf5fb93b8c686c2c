\* One probe session, a datagram loop and a stream, against its budget, the ceiling and a restarting window.
SPECIFICATION Spec
CONSTANTS
  Addresses = {"a1"}
  Sessions = {"s1"}
  AddressOf <- OneAddress
  Probe = {"s1"}
  DatagramLoops = {"d1"}
  StreamLoops = {"t1"}
  SessionOf <- AllInFirst
  Chunks = {1, 2}
  PerAddressSessions = 2
  ProbeSessions = 1
  SessionEchoBudget = 1
  ProbeEchoBudget = 3
  DailyEgressCeiling = 3
  MaxCounter = 3
  MaxWindows = 1
INVARIANTS TypeOK SessionEgress DailyEgress TruthfulReason NeverFallsSilent
CHECK_DEADLOCK FALSE
