------------------------- MODULE MCChainLockSigner --------------------------
(***************************************************************************)
(* Two blocks of one height and one of the next.                           *)
(***************************************************************************)
EXTENDS ChainLockSigner

MCBlock == {"a1", "b1", "a2"}

MCHeight == [b \in MCBlock |-> IF b = "a2" THEN 2 ELSE 1]
=============================================================================
