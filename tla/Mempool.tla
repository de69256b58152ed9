------------------------------ MODULE Mempool -------------------------------
(***************************************************************************)
(* CTxMemPool beside the active chain: transactions are accepted, blocks   *)
(* are connected and disconnected, the transactions of disconnected blocks *)
(* are put back, and what no longer fits is removed.  Every action runs    *)
(* under cs_main and the pool's lock, as in the code.                      *)
(*                                                                         *)
(* The coins, nullifiers and anchors of the tip are those of its chain     *)
(* (Chainstate.tla shows that the node keeps them so).  Fees, sizes, the   *)
(* limits on packages, time locks and provider transactions are left out:  *)
(* where one of them refuses or evicts a transaction, the model may do so. *)
(***************************************************************************)
EXTENDS BlockTree

CONSTANTS
  Tx,                            \* the transactions that may enter the pool
  Waiting,                       \* those whose InstantSend lock came first
  MAX_DISCONNECTED_TX_POOL_SIZE, \* entries of a disconnectpool
  NoTx

VARIABLES
  tip,      \* m_chain.Tip()
  failed,   \* blocks with BLOCK_FAILED_VALID
  pool      \* mapTx, mapNextTx, mapSaplingNullifiers, links (parent, child)

vars == <<tip, failed, pool>>

EmptyPool ==
  [mapTx |-> {}, mapNextTx |-> [o \in Outpoint |-> NoTx],
   mapSaplingNullifiers |-> [nf \in Nullifier |-> NoTx], links |-> {}]

Init == tip = Base /\ failed = {} /\ pool = EmptyPool

-----------------------------------------------------------------------------
(* Removal.                                                                *)

\* The pool's spenders of the outputs of tx.
Children(p, tx) == {p.mapNextTx[o] : o \in tx.outs} \ {NoTx}

\* S and what is reached from it along m_children.
CalculateDescendants(p, S) ==
  LET Within[n \in Nat] ==
        IF n = 0
        THEN S
        ELSE LET above == Within[n - 1]
             IN  above \cup {l[2] : l \in {l \in p.links : l[1] \in above}}
  IN  Within[Cardinality(p.mapTx)]

\* Faulty variant: the links of the removed entries stay.
RemoveStagedKeepsLinks(p, stage) ==
  LET ins == UNION {Range(tx.ins) : tx \in stage}
      nfs == UNION {Nullifiers(tx) : tx \in stage}
  IN  [p EXCEPT !.mapTx = @ \ stage,
                !.mapNextTx = [o \in Outpoint |-> IF o \in ins THEN NoTx ELSE @[o]],
                !.mapSaplingNullifiers =
                   [nf \in Nullifier |-> IF nf \in nfs THEN NoTx ELSE @[nf]]]

RemoveStaged(p, stage) ==
  LET ins == UNION {Range(tx.ins) : tx \in stage}
      nfs == UNION {Nullifiers(tx) : tx \in stage}
  IN  [mapTx |-> p.mapTx \ stage,
       mapNextTx |-> [o \in Outpoint |-> IF o \in ins THEN NoTx ELSE p.mapNextTx[o]],
       mapSaplingNullifiers |->
         [nf \in Nullifier |-> IF nf \in nfs THEN NoTx ELSE p.mapSaplingNullifiers[nf]],
       links |-> {l \in p.links : l[1] \notin stage /\ l[2] \notin stage}]

\* With its descendants; when tx is not in the pool, its children with theirs.
removeRecursive(p, tx) ==
  RemoveStaged(p, CalculateDescendants(p, IF tx \in p.mapTx THEN {tx} ELSE Children(p, tx)))

\* The pool's other spenders of what tx spends.
Conflicts(p, tx) ==
  ({p.mapNextTx[o] : o \in Range(tx.ins)}
     \cup {p.mapSaplingNullifiers[nf] : nf \in Nullifiers(tx)}) \ {NoTx, tx}

removeConflicts(p, tx) == RemoveStaged(p, CalculateDescendants(p, Conflicts(p, tx)))

removeForBlock(p, vtx) ==
  FoldLeft(LAMBDA q, tx : removeConflicts(RemoveStaged(q, {tx} \cap q.mapTx), tx), p, vtx)

-----------------------------------------------------------------------------
(* Acceptance on top of block b, with CoinsTip() at b.                     *)

CoinsAt == [b \in Block |-> ChainCoins(b)]

NullifiersAt == [b \in Block |-> ChainNullifiers(b)]

AnchorsAt == [b \in Block |-> ChainAnchors(b)]

Available(p, o, b) == CoinsAt[b][o] # Spent \/ \E tx \in p.mapTx : o \in tx.outs

HaveShieldedRequirements(tx, b) ==
  \A s \in tx.spends : s.nf \notin NullifiersAt[b] /\ s.anchor \in AnchorsAt[b]

\* An input that the pool creates has MEMPOOL_HEIGHT and is no coinbase.
Mature(p, o, b) ==
  LET coin == CoinsAt[b][o]
  IN  \/ \E tx \in p.mapTx : o \in tx.outs
      \/ coin = Spent
      \/ ~coin.coinbase
      \/ Height(b) + 1 - coin.height >= COINBASE_MATURITY

PreChecks(p, tx, b) ==
  /\ ~tx.coinbase
  /\ tx \notin p.mapTx
  /\ Conflicts(p, tx) = {}
  /\ \A o \in Range(tx.ins) : Available(p, o, b) /\ Mature(p, o, b)
  /\ HaveShieldedRequirements(tx, b)

\* The children that the pool already has are not linked here.
addUnchecked(p, tx) ==
  [mapTx |-> p.mapTx \cup {tx},
   mapNextTx |-> [o \in Outpoint |-> IF o \in Range(tx.ins) /\ p.mapNextTx[o] = NoTx
                                     THEN tx ELSE p.mapNextTx[o]],
   mapSaplingNullifiers |->
     [nf \in Nullifier |-> IF nf \in Nullifiers(tx) /\ p.mapSaplingNullifiers[nf] = NoTx
                           THEN tx ELSE p.mapSaplingNullifiers[nf]],
   links |-> p.links \cup {<<t, tx>> : t \in {t \in p.mapTx : t.outs \cap Range(tx.ins) # {}}}]

\* A transaction that InstantSend waits for removes its conflicts, also when
\* it is refused afterwards.
AfterConflicts(p, tx) ==
  IF tx \in Waiting /\ tx \notin p.mapTx THEN removeConflicts(p, tx) ELSE p

AcceptToMemoryPool(p, tx, b) ==
  LET q == AfterConflicts(p, tx)
  IN  IF PreChecks(q, tx, b) THEN addUnchecked(q, tx) ELSE q

\* Expire and TrimToSize.
LimitMempoolSize(p, evicted) == RemoveStaged(p, CalculateDescendants(p, evicted))

-----------------------------------------------------------------------------
(* Reorganisation.  A disconnectpool lists transactions, the last one of   *)
(* the last block first.                                                   *)

\* Queue the tip's transactions; beyond the limit drop the earliest entries
\* and their children.
DisconnectTip(s) ==
  LET queued  == s.disconnectpool \o Reverse(Txs[s.tip])
      excess  == Len(queued) - MAX_DISCONNECTED_TX_POOL_SIZE
      dropped == SubSeq(queued, 1, excess)
  IN  [tip |-> Parent[s.tip],
       pool |-> FoldLeft(removeRecursive, s.pool, dropped),
       disconnectpool |-> SubSeq(queued, Len(dropped) + 1, Len(queued))]

ConnectTip(s, b) ==
  [tip |-> b,
   pool |-> removeForBlock(s.pool, Txs[b]),
   disconnectpool |-> SelectSeq(s.disconnectpool, LAMBDA tx : tx \notin Range(Txs[b]))]

\* Faulty variant: the children of a transaction that is not put back stay.
ResurrectAlone(p, tx, b, refused) ==
  IF tx.coinbase \/ tx \in refused THEN p ELSE AcceptToMemoryPool(p, tx, b)

\* Put a transaction back, or remove it, if it is in the pool already, and what
\* depends on it.
Resurrect(p, tx, b, refused) ==
  LET q == AcceptToMemoryPool(p, tx, b)
  IN  IF tx.coinbase \/ tx \in refused
      THEN removeRecursive(p, tx)
      ELSE IF tx \in q.mapTx \ p.mapTx THEN q ELSE removeRecursive(q, tx)

\* Faulty variant: nothing is linked.
UpdateTransactionsFromBlockNot(p, added) == p

\* Link the transactions put back to the children the pool had before.
UpdateTransactionsFromBlock(p, added) ==
  [p EXCEPT !.links = @ \cup UNION {{<<tx, child>> : child \in Children(p, tx) \ added} :
                                      tx \in added \cap p.mapTx}]

removeForReorg(p, b) ==
  LET immature == {tx \in p.mapTx : \E o \in Range(tx.ins) : ~Mature(p, o, b)}
  IN  RemoveStaged(p, CalculateDescendants(p, immature))

\* `refused' are transactions that a check left out here refuses, all of them
\* when fAddToMempool is false.
MaybeUpdateMempoolForReorg(s, refused) ==
  LET back  == Reverse(s.disconnectpool)
      p     == FoldLeft(LAMBDA q, tx : Resurrect(q, tx, s.tip, refused), s.pool, back)
      added == {tx \in Range(back) : ~tx.coinbase /\ tx \in p.mapTx}
  IN  removeForReorg(UpdateTransactionsFromBlock(p, added), s.tip)

Start == [tip |-> tip, pool |-> pool, disconnectpool |-> <<>>]

-----------------------------------------------------------------------------
(* The actions.                                                            *)

Accept(tx) ==
  LET p == AcceptToMemoryPool(pool, tx, tip) IN
  /\ tx \notin pool.mapTx
  /\ \/ /\ tx \notin p.mapTx
        /\ pool' = p
     \/ /\ tx \in p.mapTx
        /\ \E evicted \in SUBSET p.mapTx : pool' = LimitMempoolSize(p, evicted)
  /\ UNCHANGED <<tip, failed>>

\* Move to the chain of b, which has more work, until the tip has more work
\* than before or a block is refused.
ActivateBestChainStep(b) ==
  LET fork  == LastCommonAncestor(tip, b)
      back  == BlocksAfter(fork, tip)
      ahead == SelectSeq(BlocksAfter(fork, b), LAMBDA c : Height(c) <= Height(tip) + 1)
      bad   == {i \in DOMAIN ahead : ahead[i] \in Refused}
      good  == IF bad = {} THEN ahead
               ELSE SubSeq(ahead, 1, (CHOOSE i \in bad : \A j \in bad : i <= j) - 1)
      low   == FoldLeft(LAMBDA s, c : DisconnectTip(s), Start, back)
      high  == FoldLeft(ConnectTip, low, good)
  IN
  /\ Height(b) > Height(tip)
  /\ Ancestors(b) \cap failed = {}
  /\ \/ /\ back = <<>>
        /\ pool' = high.pool
     \/ /\ back # <<>>
        /\ \E refused \in SUBSET Range(high.disconnectpool) :
             LET p == MaybeUpdateMempoolForReorg(high, refused) IN
             \E evicted \in SUBSET p.mapTx : pool' = LimitMempoolSize(p, evicted)
  /\ tip' = high.tip
  /\ failed' = failed \cup {ahead[i] : i \in bad}

\* One round of InvalidateBlock.  After ten rounds nothing is put back.
InvalidateBlock ==
  LET low == DisconnectTip(Start) IN
  /\ tip # Base
  /\ \E refused \in SUBSET Range(low.disconnectpool) :
       LET p == MaybeUpdateMempoolForReorg(low, refused) IN
       \E evicted \in SUBSET p.mapTx : pool' = LimitMempoolSize(p, evicted)
  /\ tip' = low.tip
  /\ failed' = failed \cup {tip}

Next ==
  \/ \E tx \in Tx : Accept(tx)
  \/ \E b \in Block : ActivateBestChainStep(b)
  \/ InvalidateBlock

Spec == Init /\ [][Next]_vars

-----------------------------------------------------------------------------
(* Properties.                                                             *)

\* The pool holds no coinbase transaction, and its maps and links refer to
\* transactions of the pool.
TypeOK ==
  /\ tip \in Block \ Refused
  /\ failed \subseteq Block
  /\ \A tx \in pool.mapTx : ~tx.coinbase
  /\ pool.mapNextTx \in [Outpoint -> pool.mapTx \cup {NoTx}]
  /\ pool.mapSaplingNullifiers \in [Nullifier -> pool.mapTx \cup {NoTx}]
  /\ pool.links \subseteq pool.mapTx \X pool.mapTx

\* What CTxMemPool::check asserts of the indexes: mapNextTx and
\* mapSaplingNullifiers hold exactly what the pool's transactions spend, so no
\* two of them conflict, and m_children are exactly the spenders in the pool,
\* also of transactions put back below children that were never removed.
IndexesExact ==
  /\ \A o \in Outpoint, tx \in pool.mapTx :
       pool.mapNextTx[o] = tx <=> o \in Range(tx.ins)
  /\ \A nf \in Nullifier, tx \in pool.mapTx :
       pool.mapSaplingNullifiers[nf] = tx <=> nf \in Nullifiers(tx)
  /\ pool.links = {<<t, u>> \in pool.mapTx \X pool.mapTx : t.outs \cap Range(u.ins) # {}}

\* The pool fits the chain it is on, after any reorganisation: each input of a
\* transaction is unspent on the chain or created in the pool, a coinbase it
\* spends is mature, its nullifiers are not revealed by the chain, and it is
\* not itself on the chain.
FitsChain ==
  \A tx \in pool.mapTx :
    /\ \A o \in Range(tx.ins) : Available(pool, o, tip) /\ Mature(pool, o, tip)
    /\ Nullifiers(tx) \cap NullifiersAt[tip] = {}
    /\ tx \notin Range(TxsUpTo(tip))

\* "Not used. CheckTxInputs() should always pass" (CTxMemPool::check): the
\* transactions of the pool pass CheckTxInputs, of which a known anchor for
\* every shielded spend is a part.
CheckTxInputsPasses ==
  \A tx \in pool.mapTx : HaveShieldedRequirements(tx, tip)
=============================================================================
