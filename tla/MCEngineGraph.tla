--------------------------- MODULE MCEngineGraph ---------------------------
(***************************************************************************)
(* Small instances of EngineGraph: one file f and two nodes m and t over   *)
(* it, wired in two ways.                                                  *)
(***************************************************************************)
EXTENDS EngineGraph, TLC

CONSTANTS f, m, t

(* How many events of each kind the environment has. *)
CONSTANTS Writes, Executes, Flushes, Drains, Laps

MCBudget ==
    [k \in Events |->
        CASE k = "write" -> Writes [] k = "request" -> Executes [] k = "flush" -> Flushes
          [] k = "drain" -> Drains [] k = "lap" -> Laps]

(* Clients differ in nothing but their name, and neither do the contents  *)
(* of the file other than 0.                                              *)
EditSymmetry == Permutations(Client) \cup Permutations(Value \ {0})

Val(g, n) == IF g[n] \in Value THEN g[n] ELSE 0

(* Chain: t reads m and then f; m only tells whether f is 0, and fails if *)
(* it is, so that an edit of f may leave m as it was.                     *)
ChainWanted(n, g) ==
    CASE n = m -> {f}
      [] n = t -> IF g[m] \in Value THEN {m, f} ELSE {m}
      [] OTHER -> {}

ChainCompute(n, g) ==
    CASE n = m -> IF g[f] = 0 THEN Throw ELSE 0
      [] n = t -> Val(g, f)
      [] OTHER -> 0

DiskOne == [x \in {f} |-> 1]
DiskZero == [x \in {f} |-> 0]

(* Swap: t depends on m or m on t, as the file says; never both.          *)
SwapWanted(n, g) ==
    CASE n = t -> IF g[f] = 0 THEN {f, m} ELSE {f}
      [] n = m -> IF g[f] = 1 THEN {f, t} ELSE {f}
      [] OTHER -> {}

SwapCompute(n, g) == Val(g, f)

-----------------------------------------------------------------------------
(* By the files, every node has exactly one value in these programs.      *)
ASSUME ProgramAssumption ==
    \A files \in [FsNode -> Value] :
        \E T \in Truths : {U \in Truths : \A n \in FsNode : U[n] = files[n]} = {T}

=============================================================================
