\* Two sends outstanding at once, on one session or on two that follow.
SPECIFICATION FairSpec
CONSTANTS
  Sends = {"s1", "s2"}
  MaxSessions = 2
PROPERTIES HandsToWhoeverWaits
CHECK_DEADLOCK FALSE
