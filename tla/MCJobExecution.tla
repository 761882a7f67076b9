--------------------------- MODULE MCJobExecution ---------------------------
EXTENDS JobExecution, TLC

MCNodes == 1..4
MCRole == (1 :> "combine") @@ (2 :> "write") @@ (3 :> "read") @@ (4 :> "list")

(* A fan behind the reader, a combine fed by the file list alone, and a     *)
(* write with nothing read before it.                                       *)
MCRunGraphs == {
    {<<4, 3>>, <<3, 1>>, <<3, 2>>},
    {<<4, 3>>, <<3, 2>>, <<4, 1>>},
    {<<4, 2>>, <<2, 1>>, <<2, 3>>} }

MCExecutions == 1..2
=============================================================================
