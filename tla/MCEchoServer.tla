---------------------------- MODULE MCEchoServer ----------------------------
(***************************************************************************)
(* Small instances of EchoServer.  Addresses, sessions and loops are       *)
(* strings; the functions below say who dials from where and which session *)
(* a loop belongs to, and each configuration picks the ones it needs.      *)
(***************************************************************************)
EXTENDS EchoServer

\* Everyone dials from one address.
OneAddress == [s \in Sessions |-> "a1"]

\* No loops at all: the function with the empty domain.
NoLoops == [l \in {} |-> "s1"]

\* Every loop belongs to the first session.
AllInFirst == [l \in Loops |-> "s1"]
=============================================================================
