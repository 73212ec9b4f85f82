---------------------------- MODULE MCJvmCompile ----------------------------
(* b depends on a; only the sources of a are edited. *)
EXTENDS JvmCompile

MCClosure == [t \in Target |-> IF t = "a" THEN {"a"} ELSE {"a", "b"}]
MCVersion == [t \in Target |-> IF t = "a" THEN {1, 2} ELSE {1}]
MCWorkflows == {w \in [Target -> {"zinc_only", "zinc_java", "rsc_and_zinc"}] :
                  <<w["a"], w["b"]>> \in {<<"rsc_and_zinc", "zinc_java">>, <<"zinc_only", "rsc_and_zinc">>}}
MCJob == {"double_check_cache", "rsc", "zinc", "write_to_cache"} \X Target

MCGraphs == {}
=============================================================================
