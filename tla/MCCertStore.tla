----------------------------- MODULE MCCertStore -----------------------------
(***************************************************************************)
(* A small instance of CertStore: one port of main, the two kinds of       *)
(* pinned leaf, and a tab on a port of each process.                       *)
(***************************************************************************)
EXTENDS CertStore

Pinned == <<4437, 4439>>

Dialled == [t \in Tabs |-> IF t = "t1" THEN 4433 ELSE 4439]
=============================================================================
