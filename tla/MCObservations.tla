--------------------------- MODULE MCObservations ---------------------------
(***************************************************************************)
(* Small instances of Observations: the attempts x and y dial from one     *)
(* address, z from another, and each configuration says on which ports.    *)
(***************************************************************************)
EXTENDS Observations

Client == [a \in Attempts |-> IF a = "z" THEN "other" ELSE "one"]

\* 4433 and 4440 belong to the page's own process, 4436 to legacy, 4438 to Rust.
Served == [port \in {4433, 4436, 4438, 4440} |->
             CASE port \in {4433, 4440} -> "lab"
               [] port = 4436 -> "legacy"
               [] port = 4438 -> "rust"]

AllOn4433 == [a \in Attempts |-> 4433]
AllOn4438 == [a \in Attempts |-> 4438]

\* No two attempts of one address share a port.
Apart == [a \in Attempts |-> IF a = "y" THEN 4436 ELSE 4433]

\* The same, in one file.
ApartInOneFile == [a \in Attempts |-> IF a = "y" THEN 4440 ELSE 4433]

\* Bound of the search: rows the attempts are given between them. One attempt
\* on its own makes four.
CONSTANT MaxRows
FewRows == Cardinality({given \in Attempts \X Kinds : given[2] \in own[given[1]]}) <= MaxRows
=============================================================================
