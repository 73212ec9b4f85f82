--------------------------- MODULE MCDaemonLaunch ---------------------------
(* Two clients with different options. *)
EXTENDS DaemonLaunch

MCFingerprint == [c \in Client |-> IF c = "c1" THEN 1 ELSE 2]
=============================================================================
