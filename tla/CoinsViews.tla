----------------------------- MODULE CoinsViews -----------------------------
(***************************************************************************)
(* The three levels of coins views of a running node: the database         *)
(* (CCoinsViewDB), the cache of the chain's tip (CChainState::CoinsTip)    *)
(* and, while a block is connected or disconnected, the block's own cache  *)
(* stacked on it (the local `view' of ConnectTip and DisconnectTip).       *)
(*                                                                         *)
(* Every operation the node applies to a level is an action.  cs_main is   *)
(* held for as long as a block's view exists, so the tip is used directly  *)
(* (by the mempool, by flushes) only while there is none.  The database's  *)
(* BatchWrite is one step here; Chainstate.tla splits it in its batches.   *)
(***************************************************************************)
EXTENDS CoinsViewOps

VARIABLES dbCoins,        \* contents of the database: coins
          dbNullifiers,   \* and nullifiers
          tipCoins,       \* CoinsTip().cacheCoins
          tipNullifiers,  \* CoinsTip().cacheSaplingNullifiers
          viewCoins,      \* view.cacheCoins
          viewNullifiers, \* view.cacheSaplingNullifiers
          open,           \* a block's view exists
          thrown          \* a std::logic_error ended the node

dbVars   == <<dbCoins, dbNullifiers>>
tipVars  == <<tipCoins, tipNullifiers>>
viewVars == <<viewCoins, viewNullifiers>>
vars     == <<dbVars, tipVars, viewVars, open, thrown>>

\* What the tip's cache and the block's view answer.
TipContents  == CoinsOf(tipCoins, dbCoins)
ViewContents == CoinsOf(viewCoins, TipContents)

TipSpentNullifiers  == NullifiersOf(tipNullifiers, dbNullifiers)
ViewSpentNullifiers == NullifiersOf(viewNullifiers, TipSpentNullifiers)

\* Every level has an entry of the right shape, or none, for every outpoint and
\* nullifier, whatever the operations of CCoinsViewCache did to its maps.
TypeOK ==
  /\ dbCoins \in Contents
  /\ dbNullifiers \in SUBSET Nullifier
  /\ tipCoins \in CacheCoins
  /\ tipNullifiers \in CacheNullifiers
  /\ viewCoins \in CacheCoins
  /\ viewNullifiers \in CacheNullifiers
  /\ open \in BOOLEAN
  /\ thrown \in BOOLEAN

\* A node that has just started: any contents on disk, nothing cached.
Init ==
  /\ dbCoins \in Contents
  /\ dbNullifiers \in SUBSET Nullifier
  /\ tipCoins = EmptyCoins
  /\ tipNullifiers = EmptyNullifiers
  /\ viewCoins = EmptyCoins
  /\ viewNullifiers = EmptyNullifiers
  /\ open = FALSE
  /\ thrown = FALSE

-----------------------------------------------------------------------------
(* The block's view.                                                       *)

OpenView ==
  /\ ~thrown /\ ~open
  /\ open' = TRUE
  /\ UNCHANGED <<dbVars, tipVars, viewVars, thrown>>

\* A lookup that the view cannot answer goes through the tip's cache, which
\* caches the coin as well.
TipAfterLookup(o) ==
  IF viewCoins[o] = NoEntry THEN FetchCoin(tipCoins, dbCoins, o) ELSE tipCoins

ViewAfterLookup(o) == FetchCoin(viewCoins, TipContents, o)

ViewHaveCoin(o) ==
  /\ ~thrown /\ open
  /\ tipCoins' = TipAfterLookup(o)
  /\ viewCoins' = ViewAfterLookup(o)
  /\ UNCHANGED <<dbVars, tipNullifiers, viewNullifiers, open, thrown>>

\* AddCoins for a coinbase: an overwrite is always allowed.
AddCoinbaseOutput(o, c) ==
  /\ ~thrown /\ open
  /\ viewCoins' = AddCoin(viewCoins, o, c, TRUE)
  /\ UNCHANGED <<dbVars, tipVars, viewNullifiers, open, thrown>>

\* AddCoins for any other transaction.  ConnectBlock has refused the block
\* (bad-txns-BIP30) if the view held an unspent coin for the output; past the
\* BIP34 block no transaction can repeat another one's id.
AddOutput(o, c) ==
  /\ ~thrown /\ open
  /\ ViewContents[o] = Spent
  /\ IF AddCoinThrows(viewCoins, o, FALSE)
     THEN /\ thrown' = TRUE
          /\ UNCHANGED viewCoins
     ELSE /\ viewCoins' = AddCoin(viewCoins, o, c, FALSE)
          /\ UNCHANGED thrown
  /\ UNCHANGED <<dbVars, tipVars, viewNullifiers, open>>

\* Faulty variant: the undone input is taken not to exist.
RestoreCoinAssumesClean(o, c) ==
  /\ ~thrown /\ open
  /\ tipCoins' = TipAfterLookup(o)
  /\ thrown' = AddCoinThrows(ViewAfterLookup(o), o, FALSE)
  /\ viewCoins' = IF thrown' THEN ViewAfterLookup(o)
                  ELSE AddCoin(ViewAfterLookup(o), o, c, FALSE)
  /\ UNCHANGED <<dbVars, tipNullifiers, viewNullifiers, open>>

\* ApplyTxInUndo, and AddCoins with check_for_overwrite: HaveCoin decides
\* whether the addition may overwrite.
RestoreCoin(o, c) ==
  LET have == ViewContents[o] # Spent IN
  /\ ~thrown /\ open
  /\ tipCoins' = TipAfterLookup(o)
  /\ IF AddCoinThrows(ViewAfterLookup(o), o, have)
     THEN /\ thrown' = TRUE
          /\ viewCoins' = ViewAfterLookup(o)
     ELSE /\ viewCoins' = AddCoin(ViewAfterLookup(o), o, c, have)
          /\ UNCHANGED thrown
  /\ UNCHANGED <<dbVars, tipNullifiers, viewNullifiers, open>>

\* UpdateCoins and DisconnectBlock spend an output.
ViewSpendCoin(o) ==
  /\ ~thrown /\ open
  /\ tipCoins' = TipAfterLookup(o)
  /\ viewCoins' = SpendCoin(viewCoins, TipContents, o)
  /\ UNCHANGED <<dbVars, tipNullifiers, viewNullifiers, open, thrown>>

\* HaveShieldedRequirements looks a nullifier up at every level.
ViewGetNullifier(n) ==
  /\ ~thrown /\ open
  /\ tipNullifiers' = IF viewNullifiers[n] = NoEntry
                      THEN FetchNullifier(tipNullifiers, dbNullifiers, n)
                      ELSE tipNullifiers
  /\ viewNullifiers' = FetchNullifier(viewNullifiers, TipSpentNullifiers, n)
  /\ UNCHANGED <<dbVars, tipCoins, viewCoins, open, thrown>>

ViewSetNullifier(n, spent) ==
  /\ ~thrown /\ open
  /\ viewNullifiers' = SetNullifier(viewNullifiers, n, spent)
  /\ UNCHANGED <<dbVars, tipVars, viewCoins, open, thrown>>

\* view.Flush(), after which the view goes out of scope.
FlushView ==
  /\ ~thrown /\ open
  /\ IF \E o \in Outpoint : FreshMisapplied(viewCoins[o], tipCoins[o])
     THEN /\ thrown' = TRUE
          /\ UNCHANGED <<tipVars, viewVars, open>>
     ELSE /\ tipCoins' = BatchWriteCoins(viewCoins, tipCoins)
          /\ tipNullifiers' = BatchWriteNullifiers(viewNullifiers, tipNullifiers)
          /\ viewCoins' = EmptyCoins
          /\ viewNullifiers' = EmptyNullifiers
          /\ open' = FALSE
          /\ UNCHANGED thrown
  /\ UNCHANGED dbVars

\* The block is refused: the view goes out of scope without a flush.
DropView ==
  /\ ~thrown /\ open
  /\ viewCoins' = EmptyCoins
  /\ viewNullifiers' = EmptyNullifiers
  /\ open' = FALSE
  /\ UNCHANGED <<dbVars, tipVars, thrown>>

-----------------------------------------------------------------------------
(* The tip's cache.                                                        *)

\* Mempool acceptance and RPCs look coins and nullifiers up, and a rejected
\* transaction's coins are uncached again.
TipHaveCoin(o) ==
  /\ ~thrown /\ ~open
  /\ tipCoins' = FetchCoin(tipCoins, dbCoins, o)
  /\ UNCHANGED <<dbVars, tipNullifiers, viewVars, open, thrown>>

TipUncache(o) ==
  /\ ~thrown /\ ~open
  /\ tipCoins' = Uncache(tipCoins, o)
  /\ UNCHANGED <<dbVars, tipNullifiers, viewVars, open, thrown>>

TipGetNullifier(n) ==
  /\ ~thrown /\ ~open
  /\ tipNullifiers' = FetchNullifier(tipNullifiers, dbNullifiers, n)
  /\ UNCHANGED <<dbVars, tipCoins, viewVars, open, thrown>>

\* FlushStateToDisk: CoinsTip().Flush().
FlushTip ==
  /\ ~thrown /\ ~open
  /\ dbCoins' = WriteCoins(tipCoins, dbCoins, Outpoint)
  /\ dbNullifiers' = WriteNullifiers(tipNullifiers, dbNullifiers)
  /\ tipCoins' = EmptyCoins
  /\ tipNullifiers' = EmptyNullifiers
  /\ UNCHANGED <<viewVars, open, thrown>>

\* CoinsTip().Sync(): the database empties the Sapling maps all the same.
SyncTip ==
  /\ ~thrown /\ ~open
  /\ dbCoins' = WriteCoins(tipCoins, dbCoins, Outpoint)
  /\ dbNullifiers' = WriteNullifiers(tipNullifiers, dbNullifiers)
  /\ tipCoins' = SyncedCoins(tipCoins)
  /\ tipNullifiers' = EmptyNullifiers
  /\ UNCHANGED <<viewVars, open, thrown>>

-----------------------------------------------------------------------------
ViewStep ==
  \/ OpenView
  \/ \E o \in Outpoint : ViewHaveCoin(o) \/ ViewSpendCoin(o)
  \/ \E o \in Outpoint, c \in Coin :
        AddCoinbaseOutput(o, c) \/ AddOutput(o, c) \/ RestoreCoin(o, c)
  \/ \E n \in Nullifier : ViewGetNullifier(n)
  \/ \E n \in Nullifier, spent \in BOOLEAN : ViewSetNullifier(n, spent)
  \/ FlushView
  \/ DropView

TipStep ==
  \/ \E o \in Outpoint : TipHaveCoin(o) \/ TipUncache(o)
  \/ \E n \in Nullifier : TipGetNullifier(n)
  \/ FlushTip
  \/ SyncTip

Next == ViewStep \/ TipStep

Spec == Init /\ [][Next]_vars

-----------------------------------------------------------------------------
(* Properties.                                                             *)

\* The combinations of flags and spentness that CCoinsViewCache::SanityCheck
\* asserts: not FRESH alone, not spent alone, not all three.
SaneEntry(e) ==
  e # NoEntry =>
    /\ ~(e.fresh /\ ~e.dirty /\ e.coin # Spent)
    /\ ~(e.coin = Spent /\ ~e.dirty /\ ~e.fresh)
    /\ ~(e.coin = Spent /\ e.dirty /\ e.fresh)

\* The meaning of the flags of an entry (comments of CCoinsCacheEntry): without
\* DIRTY it is the parent's version, with FRESH the parent has no unspent coin.
CoherentEntry(e, parent) ==
  e # NoEntry => /\ ~e.dirty => e.coin = parent
                 /\ e.fresh => parent = Spent

\* A cached nullifier that is not DIRTY has its parent's answer.
CoherentNullifier(e, parent) == e # NoEntry /\ ~e.dirty => e.entered = parent

\* Whatever sequence of lookups, additions, spends, restores, flushes, drops
\* and uncachings ran, the entries of both caches have one of the five
\* combinations of flags that SanityCheck asserts.
SanityCheck ==
  \A o \in Outpoint : SaneEntry(tipCoins[o]) /\ SaneEntry(viewCoins[o])

\* The flags of every entry of every level are true of the level below: a
\* clean entry can be dropped, and a FRESH one can be erased when it is spent,
\* without the level below ever giving a different answer.
FlagsCoherent ==
  /\ \A o \in Outpoint : /\ CoherentEntry(tipCoins[o], dbCoins[o])
                         /\ CoherentEntry(viewCoins[o], TipContents[o])
  /\ \A n \in Nullifier :
        /\ CoherentNullifier(tipNullifiers[n], n \in dbNullifiers)
        /\ CoherentNullifier(viewNullifiers[n], n \in TipSpentNullifiers)

\* Neither AddCoin nor BatchWrite ever throws its std::logic_error: no caller
\* overwrites an unspent coin by mistake, and no FRESH flag is misapplied to a
\* coin that the parent has.
NoLogicError == ~thrown

Ledger == INSTANCE UtxoLedger WITH
  pending   <- [coins |-> ViewContents, nfs |-> ViewSpentNullifiers],
  committed <- [coins |-> TipContents, nfs |-> TipSpentNullifiers],
  durable   <- [coins |-> dbCoins, nfs |-> dbNullifiers]

\* Seen through their answers, the three levels are the three versions of a
\* ledger: caching, fetching, uncaching and the DIRTY and FRESH short cuts of
\* BatchWrite and SpendCoin can never be observed, a block's view commits all
\* of its changes or none, and a flush makes exactly the tip's state durable.
ImplementsLedger == Ledger!Spec

=============================================================================
