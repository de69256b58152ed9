---------------------------- MODULE MCChainstate ----------------------------
(***************************************************************************)
(* Block trees for TLC.                                                    *)
(*                                                                         *)
(*   base - a1 - a2 - a3        a1 and b2 hold the same transaction at     *)
(*        \ b1 - b2             different heights, a3 reveals the nullifier*)
(*        \ c1                  of a2 again, b1 has no shielded output and *)
(*                              c1 fails a late check                      *)
(***************************************************************************)
EXTENDS Chainstate

tx(coinbase, ins, outs, spends, cmus) ==
  [coinbase |-> coinbase, ins |-> ins, outs |-> outs, spends |-> spends, cmus |-> cmus]

coinbase(outs) == tx(TRUE, <<>>, outs, {}, <<>>)

\* Shields the base output and pays change; spends nothing shielded.
shield == tx(FALSE, <<"p">>, {"q"}, {}, <<"m1">>)

\* Spends a note of the tree after shield, and the change of shield.
spendNote == tx(FALSE, <<"q">>, {"r"}, {[nf |-> "n1", anchor |-> <<"m1">>]}, <<"m2">>)

\* Reveals the same nullifier as spendNote.
spendAgain == tx(FALSE, <<>>, {}, {[nf |-> "n1", anchor |-> <<"m1">>]}, <<"m3">>)

MCBlock == {"base", "a1", "a2", "a3", "b1", "b2", "c1"}

MCParent == [b \in MCBlock \ {"base"} |->
  CASE b \in {"a1", "b1", "c1"} -> "base"
    [] b = "a2" -> "a1"
    [] b = "a3" -> "a2"
    [] b = "b2" -> "b1"]

MCTxs == [b \in MCBlock |->
  CASE b = "base" -> <<>>
    [] b = "a1" -> <<coinbase({"ca"}), shield>>
    [] b = "a2" -> <<coinbase({}), spendNote>>
    [] b = "a3" -> <<coinbase({}), spendAgain>>
    [] b = "b1" -> <<coinbase({"cb"}), tx(FALSE, <<"s">>, {"t"}, {}, <<>>)>>
    [] b = "b2" -> <<coinbase({}), shield, tx(FALSE, <<"cb">>, {}, {}, <<>>)>>
    [] b = "c1" -> <<coinbase({}), shield>>]

MCOutpoint == {"p", "q", "r", "s", "t", "ca", "cb"}

-----------------------------------------------------------------------------
(* A smaller tree for the runs with crashes.                               *)
(*                                                                         *)
(*   base - a1 - a2             a1 and b2 hold the same transaction at     *)
(*        \ b1 - b2             different heights; its output is spent in  *)
(*                              the next block on one branch and in the    *)
(*                              same block on the other                    *)

SmallBlock == {"base", "a1", "a2", "b1", "b2"}

SmallParent == [b \in SmallBlock \ {"base"} |->
  CASE b = "a2" -> "a1"
    [] b = "b2" -> "b1"
    [] OTHER -> "base"]

pay(ins, outs) == tx(FALSE, ins, outs, {}, <<>>)

SmallTxs == [b \in SmallBlock |->
  CASE b = "base" -> <<>>
    [] b = "a1" -> <<coinbase({"ca"}), pay(<<"p">>, {"q"})>>
    [] b = "a2" -> <<coinbase({}), pay(<<"q", "ca">>, {"r"})>>
    [] b = "b1" -> <<coinbase({})>>
    [] b = "b2" -> <<coinbase({}), pay(<<"p">>, {"q"}), pay(<<"q">>, {"r"})>>]

SmallOutpoint == {"p", "q", "r", "ca"}

-----------------------------------------------------------------------------
(* A tree in which every block has shielded outputs.                       *)
(*                                                                         *)
(*   base - a1 - a2 - a3        as above, but b1 has a shielded output, b2 *)
(*        |    \ d2             reveals the nullifier of a2 against a root *)
(*        |- b1 - b2            of the same block and spends the coinbase  *)
(*        |- c1                 of b1, and d2 refers to a root that only   *)
(*                              the other branch has                       *)

ReorgBlock == MCBlock \cup {"d2"}

ReorgParent == [b \in ReorgBlock \ {"base"} |-> IF b = "d2" THEN "a1" ELSE MCParent[b]]

private(nf, anchor, cmus) ==
  tx(FALSE, <<>>, {}, {[nf |-> nf, anchor |-> anchor]}, cmus)

ReorgTxs == [b \in ReorgBlock |->
  CASE b = "b1" -> <<coinbase({"cb"}), tx(FALSE, <<"s">>, {"t"}, {}, <<"m3">>)>>
    [] b = "b2" -> <<coinbase({}), shield, private("n1", <<"m3", "m1">>, <<"m2">>),
                     pay(<<"cb">>, {})>>
    [] b = "d2" -> <<coinbase({}), private("n2", <<"m3">>, <<"m4">>)>>
    [] OTHER -> MCTxs[b]]
=============================================================================
