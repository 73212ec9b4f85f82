--------------------------- MODULE MCExecutionGraph ---------------------------
(* All graphs over four jobs, numbered along their dependencies. *)
EXTENDS ExecutionGraph

MCGraphs == {<<{}, d2, d3, d4>> : d2 \in SUBSET {1}, d3 \in SUBSET {1, 2}, d4 \in SUBSET {1, 2, 3}}
MCHeapOrder == [j \in Job |-> Cardinality(Job) - j]
=============================================================================
