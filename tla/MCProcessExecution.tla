------------------------- MODULE MCProcessExecution -------------------------
(* Two requests with the same key and one permit for each runner; one of them only fits the *)
(* platform of this machine, the other is speculated in either order or runs remotely.      *)
EXTENDS ProcessExecution

MCKey == [r \in Request |-> "key"]
MCPermits == [k \in Runner |-> 1]
MCOrders ==
  {[r \in Request |-> IF r = "here" THEN <<"local">> ELSE o] :
     o \in {<<"local", "remote">>, <<"remote", "local">>, <<"remote">>}}
=============================================================================
