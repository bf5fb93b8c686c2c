-------------------------- MODULE MCProxyListener ---------------------------
(***************************************************************************)
(* A small instance of ProxyListener: a far client that TCP and UDP may    *)
(* spell plainly or v4-mapped, and one on the same machine as the server.  *)
(***************************************************************************)
EXTENDS ProxyListener

At(host, form) == [host |-> host, form |-> form]

Client == [c \in Conns |-> IF c = "c1" THEN "far" ELSE "local"]

Spelled == [client \in {"far", "local"} |->
  IF client = "far" THEN {At("far", "plain"), At("far", "mapped")}
  ELSE {At("127.0.0.1", "plain"), At("127.0.0.1", "mapped"), At("::1", "plain")}]

LoopbackHosts == {"127.0.0.1", "::1"}
Localhost == At("127.0.0.1", "plain")
FlyEdge   == At("edge", "mapped")
=============================================================================
