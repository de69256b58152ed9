----------------------------- MODULE MCMempool ------------------------------
(***************************************************************************)
(* A block tree and transactions for TLC.                                  *)
(*                                                                         *)
(*   base - a1 - a2             a1 shields p and has a coinbase that can   *)
(*        \ b1 - b2 - b3        be spent two blocks later; b2 spends p in  *)
(*              \ c3            another way and b1 reveals nullifier n2;   *)
(*                              c3 is refused                              *)
(***************************************************************************)
EXTENDS Mempool

tx(coinbase, ins, outs, spends, cmus) ==
  [coinbase |-> coinbase, ins |-> ins, outs |-> outs, spends |-> spends, cmus |-> cmus]

coinbase(outs) == tx(TRUE, <<>>, outs, {}, <<>>)

pay(ins, outs) == tx(FALSE, ins, outs, {}, <<>>)

shield == tx(FALSE, <<"p">>, {"q"}, {}, <<"m1">>)

\* A child and a grandchild of shield.
child == pay(<<"q">>, {"r"})
grandchild == pay(<<"r", "s">>, {"t"})

\* Spends a note of shield, and one of the notes from before.
spendNew == tx(FALSE, <<>>, {}, {[nf |-> "n1", anchor |-> <<"m1">>]}, <<>>)
spendOld == tx(FALSE, <<>>, {"u"}, {[nf |-> "n2", anchor |-> <<>>]}, <<>>)

\* Conflicts with spendOld by its nullifier and with grandchild by an input.
rival == tx(FALSE, <<"s">>, {"v"}, {[nf |-> "n2", anchor |-> <<>>]}, <<>>)

\* Spends the coinbase of a1.
spendReward == pay(<<"ca">>, {})

\* Spends p like shield does, and what that pays.
otherwise == pay(<<"p">>, {"w"})
follow == pay(<<"w", "u">>, {})

MCTx == {shield, child, grandchild, spendNew, spendOld, rival, spendReward, otherwise, follow}

MCWaiting == {rival}

MCBlock == {"base", "a1", "a2", "b1", "b2", "b3", "c3"}

MCParent == [b \in MCBlock \ {"base"} |->
  CASE b \in {"a1", "b1"} -> "base"
    [] b = "a2" -> "a1"
    [] b = "b2" -> "b1"
    [] b \in {"b3", "c3"} -> "b2"]

MCTxs == [b \in MCBlock |->
  CASE b = "base" -> <<>>
    [] b = "a1" -> <<coinbase({"ca"}), shield>>
    [] b = "a2" -> <<coinbase({"cb"}), child>>
    [] b = "b1" -> <<coinbase({"cc"}), spendOld>>
    [] b = "b2" -> <<coinbase({"cd"}), otherwise>>
    [] b = "b3" -> <<coinbase({"ce"})>>
    [] b = "c3" -> <<coinbase({"cf"}), rival>>]

MCOutpoint == {"p", "q", "r", "s", "t", "u", "v", "w", "ca", "cb", "cc", "cd", "ce", "cf"}
=============================================================================
