---------------------------- MODULE MCLocalStore ----------------------------
(***************************************************************************)
(* Files and a directory, of different sizes.                              *)
(***************************************************************************)
EXTENDS LocalStore

CONSTANTS f1, f2, d1

MCSize == [k \in Key |-> CASE k = f1 -> 3 [] k = d1 -> 2 [] k = f2 -> 1]

=============================================================================
