\* Liveness: limits close without the clock, be it budget or ceiling; goroutines end; a slot
\* comes back once lifetimes run out. Two chunks reach the ceiling, a third the budget.
SPECIFICATION FairSpec
CONSTANTS
  Addresses = {"a1"}
  Sessions = {"s1"}
  AddressOf <- OneAddress
  Probe = {"s1"}
  DatagramLoops = {"d1"}
  StreamLoops = {"t1"}
  SessionOf <- AllInFirst
  Chunks = {1}
  PerAddressSessions = 1
  ProbeSessions = 1
  SessionEchoBudget = 1
  ProbeEchoBudget = 2
  DailyEgressCeiling = 2
  MaxCounter = 2
  MaxWindows = 0
PROPERTIES SlotComesBack BittenSessionCloses LoopsEnd
CHECK_DEADLOCK FALSE
