--------------------------- MODULE MCPantsServices ---------------------------
(* One request loops, the other gives up waiting for it. *)
EXTENDS PantsServices

MCService == <<"fs", "sched", "pailgun">>
MCLoopMax == [r \in Request |-> IF r = "loop" THEN 2 ELSE 1]
MCPollLimit == [r \in Request |-> IF r = "loop" THEN 0 ELSE 2]
=============================================================================
