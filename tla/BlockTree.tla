----------------------------- MODULE BlockTree ------------------------------
(***************************************************************************)
(* A tree of blocks and what a chain of it means, from its blocks alone:   *)
(* the coins, nullifiers and Sapling roots after a block.  A Sapling root  *)
(* is represented by the commitments it stands for, in order.              *)
(***************************************************************************)
EXTENDS Integers, Sequences, SequencesExt, FiniteSets

CONSTANTS
  Block,            \* a tree of blocks
  Base,             \* its root: a block that is flushed when the model starts
  Parent,           \* [Block \ {Base} -> Block], pprev
  Txs,              \* [Block -> Seq(transaction)], vtx
  Refused,          \* blocks that fail a later check of ConnectBlock
  Outpoint,
  Nullifier,
  BaseOutputs,      \* outpoints that are unspent at Base
  COINBASE_MATURITY,
  Spent             \* no unspent coin

EmptyRoot == <<>>

\* The blocks from Base (excluded) to b, in order.
Chain[b \in Block] == IF b = Base THEN <<>> ELSE Append(Chain[Parent[b]], b)

Ancestors(b) == {Base} \cup Range(Chain[b])

\* Coins at height 0 are special to ApplyTxInUndo; Base is well above it.
Height(b) == Len(Chain[b]) + 1

LastCommonAncestor(a, b) ==
  CHOOSE c \in Ancestors(a) \cap Ancestors(b) :
    \A d \in Ancestors(a) \cap Ancestors(b) : Height(d) <= Height(c)

BlocksAfter(fork, b) == SubSeq(Chain[b], Len(Chain[fork]) + 1, Len(Chain[b]))

\* The transactions that lead from Base to b.
TxsUpTo(b) == FlattenSeq([i \in 1 .. Len(Chain[b]) |-> Txs[Chain[b][i]]])

Commitments(txs) == FlattenSeq([i \in 1 .. Len(txs) |-> txs[i].cmus])

\* The note commitment tree after block b.
RebuildSaplingTreeToIndex(b) == Commitments(TxsUpTo(b))

Nullifiers(tx) == {s.nf : s \in tx.spends}

NewCoin(tx, height) == [height |-> height, coinbase |-> tx.coinbase]

-----------------------------------------------------------------------------
(* What a chain means.                                                     *)

Creators(b, o) ==
  {c \in Range(Chain[b]) : \E tx \in Range(Txs[c]) : o \in tx.outs}

ChainCoin(b, o) ==
  IF \E tx \in Range(TxsUpTo(b)) : o \in Range(tx.ins)
  THEN Spent
  ELSE IF o \in BaseOutputs
  THEN [height |-> Height(Base), coinbase |-> FALSE]
  ELSE IF Creators(b, o) = {}
  THEN Spent
  ELSE LET c == CHOOSE c \in Creators(b, o) : TRUE
       IN  NewCoin(CHOOSE tx \in Range(Txs[c]) : o \in tx.outs, Height(c))

ChainCoins(b) == [o \in Outpoint |-> ChainCoin(b, o)]

ChainNullifiers(b) == UNION {Nullifiers(tx) : tx \in Range(TxsUpTo(b))}

ChainAnchors(b) ==
  {Commitments(SubSeq(TxsUpTo(b), 1, i)) : i \in 0 .. Len(TxsUpTo(b))}
=============================================================================
