\* An ordinary and a probe attempt race for one slot: slot accounting, the caps,
\* and the contract.
SPECIFICATION Spec
CONSTANTS
  Addresses = {"a1"}
  Sessions = {"s1", "s2"}
  AddressOf <- OneAddress
  Probe = {"s2"}
  DatagramLoops = {"d1"}
  StreamLoops = {}
  SessionOf <- AllInFirst
  Chunks = {1}
  PerAddressSessions = 1
  ProbeSessions = 1
  SessionEchoBudget = 1
  ProbeEchoBudget = 1
  DailyEgressCeiling = 2
  MaxCounter = 1
  MaxWindows = 1
INVARIANTS SlotsMatchHolders AddressCap
PROPERTIES ImplementsContract
CHECK_DEADLOCK FALSE
