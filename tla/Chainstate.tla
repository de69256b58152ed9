----------------------------- MODULE Chainstate -----------------------------
(***************************************************************************)
(* CChainState over a tree of blocks: blocks are connected to and          *)
(* disconnected from the tip, the tip's cache is flushed to the database   *)
(* in batches, EvoDB is committed after it, the node crashes anywhere, and *)
(* a restart replays the blocks of an interrupted flush.                   *)
(*                                                                         *)
(* The caches appear here by what they answer (CoinsViews.tla shows that   *)
(* their entries and flags cannot be observed), with one exception: the    *)
(* cached hash of the best Sapling anchor, hashSaplingAnchor, which may be *)
(* null at a level and is then asked from the level below.                 *)
(***************************************************************************)
EXTENDS BlockTree

CONSTANTS
  MaxCrashes,       \* bound on the number of crashes
  CrashPhases,      \* phases in which the model lets the node crash
  NoBlock,          \* a null block hash
  NoAnchor          \* a null Sapling root

ASSUME ParentAssumption ==
  /\ Base \in Block
  /\ NoBlock \notin Block
  /\ \A b \in Block \ {Base} : Parent[b] \in Block

ASSUME CrashAssumption ==
  CrashPhases \subseteq {"running", "flushing", "replaying", "committing"}

VARIABLES
  db,      \* the coins database: coins, nfs, anchors, hash, best, heads
  index,   \* the block index and undo files on disk: undo, failed
  evoDisk, \* EVODB_BEST_BLOCK on disk
  cache,   \* CoinsTip() (the replay's cache while it is flushed)
  undo,    \* undo data of the blocks connected so far
  failed,  \* m_failed_blocks
  evoRoot, \* EVODB_BEST_BLOCK in memory
  phase,   \* what the node is doing
  crashes, \* crashes so far
  torn     \* a crash fell between a coins flush and its EvoDB commit

memory == <<cache, undo, failed, evoRoot>>
disk   == <<db, index, evoDisk>>
vars   == <<disk, memory, phase, crashes, torn>>

\* Where the node is.  The last four are final: it has stopped for good.
Phases == {"running",      \* the tip may move
           "flushing",     \* inside CCoinsViewDB::BatchWrite, for CoinsTip()
           "replaying",    \* the same, for the cache of ReplayBlocks
           "committing",   \* the coins are flushed, EvoDB is not
           "down",         \* crashed or not yet started
           "evo_mismatch", \* AbortNode: Found EvoDB inconsistency
           "unclean",      \* AbortNode: Failed to disconnect block
           "replay_error", \* ReplayBlocks failed, the node does not start
           "assert"}       \* an assertion failed

-----------------------------------------------------------------------------
(* A block's view on the level below it.  It starts with that level's      *)
(* answers and no hash; `below' is the hash the level below has cached.    *)

NewView(level, below) ==
  [coins |-> level.coins, nfs |-> level.nfs, anchors |-> level.anchors,
   hash |-> NoAnchor, below |-> below, undo |-> <<>>, status |-> "ok"]

GetBestAnchor(v) ==
  LET base == IF v.below = NoAnchor THEN db.hash ELSE v.below
  IN  IF v.hash # NoAnchor THEN v ELSE [v EXCEPT !.hash = base, !.below = base]

\* Faulty variant: the new root is not entered in the map of anchors.
PushAnchorHashOnly(v, root) == [GetBestAnchor(v) EXCEPT !.hash = root]

PushAnchor(v, root) ==
  LET w == GetBestAnchor(v)
  IN  IF w.hash = root
      THEN w
      ELSE [w EXCEPT !.anchors = @ \cup {root}, !.hash = root]

\* Fails its assertion when the current root is not a known anchor.
PopAnchor(v, root) ==
  LET w == GetBestAnchor(v)
  IN  IF w.hash = root
      THEN w
      ELSE IF w.hash \notin w.anchors
      THEN [w EXCEPT !.status = "assert"]
      ELSE [w EXCEPT !.anchors = @ \ {w.hash}, !.hash = root]

HaveInputs(v, tx) == \A o \in Range(tx.ins) : v.coins[o] # Spent

\* Faulty variant: the nullifiers are not looked up.
HaveAnchorsOnly(v, tx) == \A s \in tx.spends : s.anchor \in v.anchors

HaveShieldedRequirements(v, tx) ==
  \A s \in tx.spends : s.nf \notin v.nfs /\ s.anchor \in v.anchors

CheckTxInputs(v, tx, height) ==
  /\ HaveInputs(v, tx)
  /\ HaveShieldedRequirements(v, tx)
  /\ \A o \in Range(tx.ins) :
        v.coins[o].coinbase => height - v.coins[o].height >= COINBASE_MATURITY

\* Faulty variant: the inputs stay unspent.
MoveCoinsKeepsInputs(coins, tx, height) ==
  [o \in Outpoint |-> IF o \in tx.outs THEN NewCoin(tx, height) ELSE coins[o]]

\* Spend the inputs, add the outputs.
MoveCoins(coins, tx, height) ==
  [o \in Outpoint |-> IF o \in tx.outs THEN NewCoin(tx, height)
                      ELSE IF o \in Range(tx.ins) THEN Spent
                      ELSE coins[o]]

\* The shielded outputs extend the tree of the view's best anchor, which the
\* code asserts to be a known one.
UpdateAnchors(v, tx) ==
  LET w == GetBestAnchor(v)
  IN  IF tx.cmus = <<>>
      THEN v
      ELSE IF w.hash \notin w.anchors
      THEN [w EXCEPT !.status = "assert"]
      ELSE PushAnchor(w, w.hash \o tx.cmus)

UpdateCoins(v, tx, height) ==
  UpdateAnchors(
    [v EXCEPT !.coins = MoveCoins(@, tx, height),
              !.nfs = @ \cup Nullifiers(tx),
              !.undo = Append(@, [i \in DOMAIN tx.ins |-> v.coins[tx.ins[i]]])],
    tx)

ConnectTx(v, tx, height) ==
  IF v.status # "ok"
  THEN v
  ELSE IF ~tx.coinbase /\ ~CheckTxInputs(v, tx, height)
  THEN [v EXCEPT !.status = "invalid"]
  ELSE UpdateCoins(v, tx, height)

\* Output of a block that would overwrite an unspent coin.
BIP30Violated(v, b) ==
  \E i \in DOMAIN Txs[b] : \E o \in Txs[b][i].outs : v.coins[o] # Spent

\* A block in Refused fails one of the checks that follow the transactions:
\* scripts, InstantSend conflicts, block value, payees.
ConnectBlock(v, b) ==
  LET w == FoldLeft(LAMBDA u, tx : ConnectTx(u, tx, Height(b)), v, Txs[b])
  IN  IF BIP30Violated(v, b)
      THEN [v EXCEPT !.status = "invalid"]
      ELSE IF w.status = "ok" /\ b \in Refused
      THEN [w EXCEPT !.status = "invalid"]
      ELSE w

\* Faulty variant: a restored input gets the height of the block undone.
DisconnectTxWrongHeight(v, tx, txundo, height) ==
  [v EXCEPT !.coins = [o \in Outpoint |->
                         IF o \in Range(tx.ins) THEN [height |-> height, coinbase |-> FALSE]
                         ELSE IF o \in tx.outs THEN Spent ELSE @[o]],
            !.nfs = @ \ Nullifiers(tx)]

\* Faulty variant: the nullifiers of the transaction stay spent.
DisconnectTxKeepsNullifiers(v, tx, txundo, height) ==
  [v EXCEPT !.coins = [o \in Outpoint |->
                         IF \E i \in DOMAIN tx.ins : tx.ins[i] = o
                         THEN txundo[CHOOSE i \in DOMAIN tx.ins : tx.ins[i] = o]
                         ELSE IF o \in tx.outs THEN Spent ELSE @[o]]]

\* Undo one transaction: its outputs must be there, its inputs must not.
DisconnectTx(v, tx, txundo, height) ==
  LET without == [o \in Outpoint |-> IF o \in tx.outs THEN Spent ELSE v.coins[o]]
      clean   == /\ \A o \in tx.outs : v.coins[o] = NewCoin(tx, height)
                 /\ \A o \in Range(tx.ins) : without[o] = Spent
      input(o) == CHOOSE i \in DOMAIN tx.ins : tx.ins[i] = o
  IN  [v EXCEPT !.coins = [o \in Outpoint |-> IF o \in Range(tx.ins)
                                              THEN txundo[input(o)]
                                              ELSE without[o]],
                !.nfs = @ \ Nullifiers(tx),
                !.status = IF clean \/ @ # "ok" THEN @ ELSE "unclean"]

\* The root of the tree before each transaction of block b.
SaplingRoots(b) ==
  [i \in DOMAIN Txs[b] |->
     RebuildSaplingTreeToIndex(Parent[b]) \o Commitments(SubSeq(Txs[b], 1, i - 1))]

\* Faulty variant: one anchor is popped for the whole block.
DisconnectBlockPopsOnce(v, b, blockundo) ==
  LET w == FoldLeft(LAMBDA u, i : DisconnectTx(u, Txs[b][i], blockundo.vtxundo[i], Height(b)),
                    v, Reverse([i \in DOMAIN Txs[b] |-> i]))
      popped == SelectSeq([i \in DOMAIN Txs[b] |-> i], LAMBDA i : Txs[b][i].cmus # <<>>)
  IN  IF popped = <<>> THEN w ELSE PopAnchor(w, SaplingRoots(b)[Last(popped)])

DisconnectBlock(v, b, blockundo) ==
  LET backwards == Reverse([i \in DOMAIN Txs[b] |-> i])
      w == FoldLeft(LAMBDA u, i : DisconnectTx(u, Txs[b][i], blockundo.vtxundo[i], Height(b)),
                    v, backwards)
      popped == SelectSeq(backwards, LAMBDA i : Txs[b][i].cmus # <<>>)
  IN  FoldLeft(LAMBDA u, i : PopAnchor(u, SaplingRoots(b)[i]), w, popped)

\* Re-apply a block's transactions to the coins.
RollforwardBlock(v, b) ==
  [v EXCEPT !.coins = FoldLeft(LAMBDA coins, tx : MoveCoins(coins, tx, Height(b)),
                               @, Txs[b])]

\* Faulty variant: the old branch is not rolled back.
ReplayBlocksForwardOnly(new, old) ==
  FoldLeft(RollforwardBlock, NewView(db, db.hash),
           BlocksAfter(LastCommonAncestor(old, new), new))

\* The cache of ReplayBlocks when it is flushed.
ReplayBlocks(new, old) ==
  LET fork == LastCommonAncestor(old, new)
      back == FoldLeft(LAMBDA u, b : DisconnectBlock(u, b, index.undo[b]),
                       NewView(db, db.hash), Reverse(BlocksAfter(fork, old)))
  IN  FoldLeft(RollforwardBlock, back, BlocksAfter(fork, new))

-----------------------------------------------------------------------------
(* The running node.                                                       *)

\* A cache's answers, once it holds what a view has.
Level(v, best) ==
  [coins |-> v.coins, nfs |-> v.nfs, anchors |-> v.anchors, hash |-> v.hash,
   best |-> best]

\* An empty CoinsTip() over the database d.
FreshCache(d) == Level([d EXCEPT !.hash = NoAnchor], d.best)

Lost == <<>>

\* Without BLOCK_HAVE_UNDO: a block that was never connected.
NoUndo == [have |-> FALSE, vtxundo |-> <<>>]

Init ==
  /\ db = [coins |-> [o \in Outpoint |-> IF o \in BaseOutputs
                                         THEN [height |-> Height(Base), coinbase |-> FALSE]
                                         ELSE Spent],
           nfs |-> {}, anchors |-> {EmptyRoot}, hash |-> EmptyRoot,
           best |-> Base, heads |-> <<>>]
  /\ index = [undo |-> [b \in Block |-> NoUndo], failed |-> {}]
  /\ evoDisk = Base
  /\ cache = FreshCache(db)
  /\ undo = index.undo
  /\ failed = {}
  /\ evoRoot = Base
  /\ phase = "running"
  /\ crashes = 0
  /\ torn = FALSE

Stop(reason) ==
  /\ phase' = reason
  /\ UNCHANGED memory

\* A block is connected in a view of its own and an EvoDB transaction, which
\* are both dropped when it is refused.  Whether the call of FlushStateToDisk
\* at the end flushes depends on the size of the cache: WriteBlockIndex may follow.
ConnectTip(b) ==
  LET v == ConnectBlock(NewView(cache, cache.hash), b) IN
  /\ phase = "running"
  /\ b \in Block \ (failed \cup {Base})
  /\ Parent[b] = cache.best
  /\ \/ evoRoot # Parent[b] /\ Stop("evo_mismatch")
     \/ evoRoot = Parent[b] /\ v.status = "assert" /\ Stop("assert")
     \/ /\ evoRoot = Parent[b] /\ v.status = "invalid"
        /\ failed' = failed \cup {b}
        /\ cache' = [cache EXCEPT !.hash = v.below]
        /\ UNCHANGED <<undo, evoRoot, phase>>
     \/ /\ evoRoot = Parent[b] /\ v.status = "ok"
        /\ cache' = Level(v, b)
        /\ undo' = IF undo[b].have THEN undo
                   ELSE [undo EXCEPT ![b] = [have |-> TRUE, vtxundo |-> v.undo]]
        /\ evoRoot' = b
        /\ UNCHANGED <<failed, phase>>
  /\ UNCHANGED <<disk, crashes, torn>>

\* Faulty variant: EvoDB's best block is not moved back.
DisconnectTipKeepsEvo ==
  LET b == cache.best
      v == DisconnectBlock(NewView(cache, cache.hash), b, undo[b])
  IN
  /\ phase = "running"
  /\ b # Base
  /\ v.status = "ok"
  /\ cache' = Level(v, Parent[b])
  /\ UNCHANGED <<disk, undo, failed, evoRoot, phase, crashes, torn>>

DisconnectTip ==
  LET b == cache.best
      v == DisconnectBlock(NewView(cache, cache.hash), b, undo[b])
  IN
  /\ phase = "running"
  /\ b # Base
  /\ \/ evoRoot # b /\ Stop("evo_mismatch")
     \/ evoRoot = b /\ v.status = "assert" /\ Stop("assert")
     \/ evoRoot = b /\ v.status = "unclean" /\ Stop("unclean")
     \/ /\ evoRoot = b /\ v.status = "ok"
        /\ cache' = Level(v, Parent[b])
        /\ evoRoot' = Parent[b]
        /\ UNCHANGED <<undo, failed, phase>>
  /\ UNCHANGED <<disk, crashes, torn>>

-----------------------------------------------------------------------------
(* FlushStateToDisk.                                                       *)

\* Faulty variant: the coins are flushed before the undo data.
WriteBlockIndexSkipped ==
  /\ phase = "running"
  /\ phase' = "flushing"
  /\ UNCHANGED <<disk, memory, crashes, torn>>

\* Faulty variant: EvoDB is committed before the coins.
WriteBlockIndexCommitsEvo ==
  /\ phase = "running"
  /\ index' = [undo |-> undo, failed |-> failed]
  /\ evoDisk' = evoRoot
  /\ phase' = "flushing"
  /\ UNCHANGED <<db, memory, crashes, torn>>

\* Undo data and block index go to disk, alone (fPeriodicWrite) or as the
\* first part of a full flush.
WriteBlockIndex ==
  /\ phase = "running"
  /\ index' = [undo |-> undo, failed |-> failed]
  /\ phase' \in {"running", "flushing"}
  /\ UNCHANGED <<db, evoDisk, memory, crashes, torn>>

\* A partial batch of CCoinsViewDB::BatchWrite: some of the coins that differ.
\* The first one erases the best block and records the transition.
WritePartialBatch ==
  LET oldTip == IF db.best # NoBlock THEN db.best ELSE db.heads[2] IN
  /\ phase \in {"flushing", "replaying"}
  /\ db.best = NoBlock => db.heads[1] = cache.best
  /\ \E os \in SUBSET {o \in Outpoint : db.coins[o] # cache.coins[o]} :
       db' = [db EXCEPT
                !.coins = [o \in Outpoint |-> IF o \in os THEN cache.coins[o] ELSE @[o]],
                !.best = NoBlock,
                !.heads = <<cache.best, oldTip>>]
  /\ UNCHANGED phase
  /\ UNCHANGED <<index, evoDisk, memory, crashes, torn>>

\* Faulty variant: DB_HEAD_BLOCKS is not erased.
WriteFinalBatchKeepsHeads ==
  /\ phase \in {"flushing", "replaying"}
  /\ db' = [db EXCEPT !.coins = cache.coins, !.nfs = cache.nfs, !.best = cache.best]
  /\ phase' = "committing"
  /\ UNCHANGED <<index, evoDisk, memory, crashes, torn>>

\* The last batch: the other coins, the Sapling state and the best block.  The
\* cache of ReplayBlocks is followed by an empty CoinsTip().
WriteFinalBatch ==
  /\ phase \in {"flushing", "replaying"}
  /\ db.best = NoBlock => db.heads[1] = cache.best
  /\ db' = [coins |-> cache.coins, nfs |-> cache.nfs,
            anchors |-> cache.anchors \cup {EmptyRoot},
            hash |-> IF cache.hash = NoAnchor THEN db.hash ELSE cache.hash,
            best |-> cache.best, heads |-> <<>>]
  /\ cache' = IF phase = "replaying" THEN FreshCache(db')
              ELSE [cache EXCEPT !.anchors = db'.anchors]
  /\ phase' = "committing"
  /\ UNCHANGED <<index, evoDisk, undo, failed, evoRoot, crashes, torn>>

CommitRootTransaction ==
  /\ phase = "committing"
  /\ evoDisk' = evoRoot
  /\ phase' = "running"
  /\ UNCHANGED <<db, index, memory, crashes, torn>>

-----------------------------------------------------------------------------
(* Crash and restart.                                                      *)

Crash ==
  /\ phase \in CrashPhases
  /\ crashes < MaxCrashes
  /\ crashes' = crashes + 1
  /\ torn' = (torn \/ (phase = "committing" /\ evoDisk # evoRoot))
  /\ cache' = Lost
  /\ undo' = index.undo
  /\ failed' = index.failed
  /\ evoRoot' = evoDisk
  /\ phase' = "down"
  /\ UNCHANGED disk

\* The blocks of an interrupted flush must be in the block index, and EvoDB
\* must be where the flush started.
ReplayPossible(new, old) ==
  /\ {new, old} \subseteq {Base} \cup {b \in Block : index.undo[b].have}
  /\ evoRoot = old

\* Faulty variant: the replayed cache is flushed as the old tip.
StartReplaysToOld ==
  /\ phase = "down"
  /\ db.heads # <<>>
  /\ cache' = Level(ReplayBlocks(db.heads[1], db.heads[2]), db.heads[2])
  /\ phase' = "replaying"
  /\ UNCHANGED <<disk, undo, failed, evoRoot, crashes, torn>>

\* Faulty variant: the node comes up only on a consistent database.
StartCleanOnly ==
  /\ phase = "down"
  /\ db.heads = <<>>
  /\ cache' = FreshCache(db)
  /\ phase' = "running"
  /\ UNCHANGED <<disk, undo, failed, evoRoot, crashes, torn>>

Start ==
  /\ phase = "down"
  /\ \/ /\ db.heads = <<>>
        /\ cache' = FreshCache(db)
        /\ phase' = "running"
        /\ UNCHANGED evoRoot
     \/ /\ db.heads # <<>>
        /\ LET new == db.heads[1]
               old == db.heads[2]
               v   == ReplayBlocks(new, old)
           IN \/ /\ ~ReplayPossible(new, old)
                 /\ phase' = "replay_error"
                 /\ UNCHANGED <<cache, evoRoot>>
              \/ /\ ReplayPossible(new, old)
                 /\ cache' = Level(v, new)
                 /\ evoRoot' = new
                 /\ phase' = IF v.status = "assert" THEN "assert" ELSE "replaying"
  /\ UNCHANGED <<disk, undo, failed, crashes, torn>>

Next ==
  \/ \E b \in Block : ConnectTip(b)
  \/ DisconnectTip
  \/ WriteBlockIndex
  \/ WritePartialBatch
  \/ WriteFinalBatch
  \/ CommitRootTransaction
  \/ Crash
  \/ Start

Spec == Init /\ [][Next]_vars

\* A flush that was begun and a start run to their end, unless the node
\* crashes again: both are straight-line code under cs_main.
FairSpec ==
  Spec /\ WF_vars(WriteFinalBatch) /\ WF_vars(CommitRootTransaction) /\ WF_vars(Start)

-----------------------------------------------------------------------------
(* Properties.                                                             *)

Coins == [height : Nat, coinbase : BOOLEAN] \cup {Spent}

\* The databases hold values of their types, and FlushStateToDisk leaves either
\* a best block or the two heads of an unfinished transition, never both.
TypeOK ==
  /\ db.coins \in [Outpoint -> Coins]
  /\ db.nfs \subseteq Nullifier
  /\ db.best \in Block \cup {NoBlock}
  /\ db.heads = <<>> \/ db.heads \in Block \X Block
  /\ (db.heads = <<>>) <=> (db.best # NoBlock)
  /\ index.failed \subseteq Block /\ failed \subseteq Block
  /\ evoDisk \in Block /\ evoRoot \in Block
  /\ phase \in Phases
  /\ cache = Lost => phase \in {"down", "replay_error"}
  /\ crashes \in 0 .. MaxCrashes
  /\ torn \in BOOLEAN

\* The unspent coins that the node works with are those of its active chain,
\* through any reorganisation, refused block, partial flush, crash and replay.
CoinsMatchChain ==
  cache # Lost => cache.coins = ChainCoins(cache.best)

\* The spent nullifiers are those that the active chain reveals.
NullifiersMatchChain ==
  cache # Lost => cache.nfs = ChainNullifiers(cache.best)

\* The anchors a shielded spend may refer to are the roots of the active
\* chain, and the best one, on which UpdateCoins builds, is its current root.
AnchorsMatchChain ==
  cache # Lost =>
    /\ cache.anchors = ChainAnchors(cache.best)
    /\ GetBestAnchor(NewView(cache, cache.hash)).hash
         = RebuildSaplingTreeToIndex(cache.best)

\* No two transactions of the active chain spend the same output or reveal the
\* same nullifier.
NoDoubleSpend ==
  cache # Lost =>
    LET txs == TxsUpTo(cache.best) IN
    \A i, j \in DOMAIN txs :
      i # j => /\ Range(txs[i].ins) \cap Range(txs[j].ins) = {}
               /\ Nullifiers(txs[i]) \cap Nullifiers(txs[j]) = {}

\* DisconnectTip always finds the outputs of the tip's block unspent and its
\* inputs spent: a reorganisation never aborts the node.
DisconnectsClean == phase # "unclean"

\* The assertions of UpdateCoins and PopAnchor hold: the view's best Sapling
\* anchor is always one it knows.
AnchorAssertionsHold == phase # "assert"

\* At every instant, also between two batches of a flush or of a replay, a
\* crash would leave a database from which ReplayBlocks restores the coins of
\* the flush's target, with the undo data it needs on disk.
CrashRecoverable ==
  /\ db.heads = <<>> => db.coins = ChainCoins(db.best)
  /\ db.heads # <<>> =>
       LET fork == LastCommonAncestor(db.heads[1], db.heads[2]) IN
       /\ \A b \in Range(BlocksAfter(fork, db.heads[2])) : index.undo[b].have
       /\ ReplayBlocks(db.heads[1], db.heads[2]).coins = ChainCoins(db.heads[1])

\* BatchWrite's assertion: a flush that finds the database in the middle of a
\* transition is the one that completes it.
FlushResumesTransition ==
  phase \in {"flushing", "replaying"} /\ db.best = NoBlock
    => db.heads[1] = cache.best

\* EvoDB on disk never runs ahead of the coins database: it is at the block
\* the database is at, or at the one an unfinished flush started from, and
\* only a crash between the two commits of one flush makes them differ.
EvoFollowsCoins ==
  \/ torn
  \/ phase = "committing"
  \/ evoDisk = IF db.heads = <<>> THEN db.best ELSE db.heads[2]

\* The node gives up on EvoDB (AbortNode, or an error of ReplayBlocks) only
\* after such a crash.
AbortsOnlyWhenTorn == phase \in {"evo_mismatch", "replay_error"} => torn

\* An interrupted flush is completed by a later start, unless the node stops
\* for good.
FlushCompletes ==
  db.heads # <<>> ~> (db.heads = <<>> \/ phase \in {"replay_error", "assert"})
=============================================================================
