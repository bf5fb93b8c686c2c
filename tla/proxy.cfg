\* Two connections through one accept loop, each of any kind and at any pace.
SPECIFICATION FairSpec
CONSTANTS
  Conns = {"c1", "c2"}
  Kinds = {"direct", "v1", "v2", "unusable v1", "unusable v2", "http", "forwarded"}
  ClientOf <- Client
  Spellings <- Spelled
  Loopbacks <- LoopbackHosts
  Loopback <- Localhost
  Edge <- FlyEdge
INVARIANTS TypeOK TakesTheHeaderOnly AsksForItself
PROPERTIES EveryoneIsServed SlowIsNotLost
CHECK_DEADLOCK FALSE
