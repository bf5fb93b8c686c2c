---------------------------- MODULE MCRustServer ----------------------------
(***************************************************************************)
(* Small instances of RustServer: s1 and s2 dial from one address, and     *)
(* every stream belongs to s1.                                             *)
(***************************************************************************)
EXTENDS RustServer

OneAddress == [s \in Sessions |-> "a1"]
AllInFirst == [l \in Streams |-> "s1"]
=============================================================================
