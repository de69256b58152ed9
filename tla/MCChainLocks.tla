---------------------------- MODULE MCChainLocks ----------------------------
(***************************************************************************)
(* A tree for TLC: genesis - a1 - a2 and genesis - b1, of which the first  *)
(* branch is locked.                                                       *)
(***************************************************************************)
EXTENDS ChainLocks

MCBlock == {"g", "a1", "a2", "b1"}

MCParent == [b \in MCBlock \ {"g"} |->
  CASE b \in {"a1", "b1"} -> "g"
    [] b = "a2" -> "a1"]

MCAncestry == [b \in MCBlock |->
  CASE b = "g" -> {"g"}
    [] b \in {"a1", "b1"} -> {"g", b}
    [] b = "a2" -> {"g", "a1", "a2"}]

MCHeight == [b \in MCBlock |-> Cardinality(MCAncestry[b]) - 1]
=============================================================================
