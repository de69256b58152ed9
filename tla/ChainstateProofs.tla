-------------------------- MODULE ChainstateProofs --------------------------
(***************************************************************************)
(* The order in which FlushStateToDisk writes its three stores (undo data  *)
(* and block index, coins, EvoDB) is enough for a restart to find them in  *)
(* step, for every tree of blocks and any number of crashes, partial       *)
(* batches and replays.  What a block does to the coins plays no part, so  *)
(* ConnectBlock, DisconnectBlock and ReplayBlocks stay opaque.             *)
(***************************************************************************)
EXTENDS Chainstate, TLAPS

\* The phases in which there is a cache.
Up == {"running", "flushing", "replaying", "committing"}

\* Base, or a block whose undo data is in u.
Have(u, b) == b = Base \/ u[b].have

\* A best block, or the heads of an unfinished transition.
DbInv ==
  /\ db = [coins |-> db.coins, nfs |-> db.nfs, anchors |-> db.anchors, hash |-> db.hash,
           best |-> db.best, heads |-> db.heads]
  /\ \/ db.heads = <<>> /\ db.best \in Block
     \/ db.heads \in Block \X Block /\ db.best = NoBlock

\* Undo data goes to disk below the coins that need it.
UndoInv ==
  /\ undo = [b \in Block |-> undo[b]]
  /\ \A b \in Block : index.undo[b].have => undo[b].have
  /\ \A b \in Block \ {Base} : undo[b].have => Have(undo, Parent[b])
  /\ \A b \in Block \ {Base} : index.undo[b].have => Have(index.undo, Parent[b])
  /\ index.undo = [b \in Block |-> index.undo[b]]
  /\ db.heads = <<>> => Have(index.undo, db.best)
  /\ db.heads # <<>> => Have(index.undo, db.heads[1]) /\ Have(index.undo, db.heads[2])

\* The cache is at a block with undo data, which is on disk during a flush;
\* only a flush or a replay works on a database in transition, to its target.
CacheInv ==
  /\ phase \in Up =>
       /\ cache = [coins |-> cache.coins, nfs |-> cache.nfs, anchors |-> cache.anchors,
                   hash |-> cache.hash, best |-> cache.best]
       /\ cache.best \in Block
       /\ Have(undo, cache.best)
  /\ phase \in {"flushing", "replaying"} => Have(index.undo, cache.best)
  /\ phase \in {"running", "committing"} => db.heads = <<>>
  /\ phase \in {"flushing", "replaying"} /\ db.heads # <<>> => db.heads[1] = cache.best
  /\ phase = "committing" => db.best = cache.best
  /\ phase = "down" => undo = index.undo /\ evoRoot = evoDisk

\* EvoDB in memory is at the tip.
EvoInv ==
  /\ phase \in Phases
  /\ torn \in BOOLEAN
  /\ ~torn /\ phase \in Up => evoRoot = cache.best
  /\ EvoFollowsCoins
  /\ AbortsOnlyWhenTorn

IInv == DbInv /\ UndoInv /\ CacheInv /\ EvoInv

-----------------------------------------------------------------------------
(* The invariant.                                                          *)

\* The invariant holds when the node starts on its flushed root.
LEMMA InitInv == Init => IInv
<1> SUFFICES ASSUME Init PROVE IInv
  OBVIOUS
<1>1. DbInv
  BY ParentAssumption DEF Init, DbInv
<1>2. undo = [b \in Block |-> NoUndo] /\ index.undo = undo /\ ~NoUndo.have
  BY DEF Init, NoUndo
<1>3. db.heads = <<>> /\ db.best = Base
  BY DEF Init
<1>4. UndoInv
  BY <1>2, <1>3 DEF UndoInv, Have
<1>5. cache.best = Base /\ CacheInv
  <2>1. cache = FreshCache(db)
    BY DEF Init
  <2> QED
    BY <1>3, <2>1, ParentAssumption DEF Init, CacheInv, Have, FreshCache, Level
<1>6. EvoInv
  BY <1>3, <1>5 DEF Init, EvoInv, EvoFollowsCoins, AbortsOnlyWhenTorn, Phases
<1> QED
  BY <1>1, <1>4, <1>5, <1>6 DEF IInv

\* A node that stops for good leaves its stores as they are.
LEMMA StopInv ==
  ASSUME IInv, phase = "running", UNCHANGED <<disk, torn>>,
         NEW reason \in {"assert", "unclean", "evo_mismatch"}, Stop(reason),
         reason = "evo_mismatch" => torn
  PROVE  IInv'
<1>1. UNCHANGED <<db, index, evoDisk, cache, undo, evoRoot, torn>> /\ phase' = reason
  BY DEF Stop, disk, memory
<1>2. DbInv' /\ UndoInv'
  BY <1>1 DEF IInv, DbInv, UndoInv, Have
<1>3. CacheInv'
  BY <1>1 DEF CacheInv, Up
<1>4. EvoInv'
  BY <1>1 DEF IInv, EvoInv, EvoFollowsCoins, AbortsOnlyWhenTorn, Phases, Up
<1> QED
  BY <1>2, <1>3, <1>4 DEF IInv

\* The tip moves to a block b, with its undo data and EvoDB.
LEMMA MoveTipInv ==
  ASSUME IInv, phase = "running", UNCHANGED <<disk, torn, phase>>,
         NEW v, NEW b \in Block, cache' = Level(v, b), evoRoot' = b,
         undo' = [c \in Block |-> undo'[c]],
         \A c \in Block : undo[c].have => undo'[c].have,
         \A c \in Block \ {Base} : undo'[c].have => Have(undo', Parent[c]),
         Have(undo', b)
  PROVE  IInv'
<1>1. UNCHANGED <<db, index, evoDisk>>
  BY DEF disk
<1>2. DbInv'
  BY <1>1 DEF IInv, DbInv
<1>3. UndoInv'
  BY <1>1 DEF IInv, UndoInv, Have
<1>4. cache'.best = b /\ CacheInv'
  BY <1>1 DEF IInv, CacheInv, Up, Level
<1>5. EvoInv'
  BY <1>1, <1>4 DEF IInv, EvoInv, EvoFollowsCoins, AbortsOnlyWhenTorn
<1> QED
  BY <1>2, <1>3, <1>4, <1>5 DEF IInv

\* Connecting a block adds its undo data above that of its parent.
LEMMA ConnectTipInv ==
  ASSUME IInv, NEW b \in Block, ConnectTip(b)
  PROVE  IInv'
<1> DEFINE v == ConnectBlock(NewView(cache, cache.hash), b)
<1>1. /\ phase = "running" /\ b # Base /\ Parent[b] = cache.best
      /\ UNCHANGED <<disk, torn>>
  BY DEF ConnectTip
<1>2. cache.best \in Block /\ Have(undo, cache.best) /\ (~torn => evoRoot = cache.best)
  BY <1>1 DEF IInv, CacheInv, EvoInv, Up
<1>3. CASE Stop("evo_mismatch") /\ evoRoot # Parent[b]
  BY <1>1, <1>2, <1>3, StopInv DEF IInv, EvoInv
<1>4. CASE Stop("assert")
  BY <1>1, <1>4, StopInv
<1>5. CASE cache' = [cache EXCEPT !.hash = v.below] /\ UNCHANGED <<undo, evoRoot, phase>>
  <2> DEFINE h == v.below
  <2>1. cache' = [coins |-> cache.coins, nfs |-> cache.nfs, anchors |-> cache.anchors,
                  hash |-> h, best |-> cache.best]
    <3>1. cache = [coins |-> cache.coins, nfs |-> cache.nfs, anchors |-> cache.anchors,
                   hash |-> cache.hash, best |-> cache.best]
      BY <1>1 DEF IInv, CacheInv, Up
    <3>2. cache' = [cache EXCEPT !.hash = h]
      BY <1>5
    <3> HIDE DEF h
    <3> QED
      BY <3>1, <3>2
  <2> HIDE DEF h
  <2>2. UNCHANGED <<db, index, evoDisk>>
    BY <1>1 DEF disk
  <2>3. DbInv' /\ UndoInv'
    BY <1>5, <2>2 DEF IInv, DbInv, UndoInv, Have
  <2>4. CacheInv'
    BY <1>1, <1>2, <1>5, <2>1, <2>2 DEF IInv, CacheInv, Have, Up
  <2>5. EvoInv'
    BY <1>1, <1>5, <2>1, <2>2 DEF IInv, EvoInv, EvoFollowsCoins, AbortsOnlyWhenTorn
  <2> QED
    BY <2>3, <2>4, <2>5 DEF IInv
<1>6. CASE /\ cache' = Level(v, b) /\ evoRoot' = b /\ phase' = phase
           /\ undo' = IF undo[b].have THEN undo
                      ELSE [undo EXCEPT ![b] = [have |-> TRUE, vtxundo |-> v.undo]]
  <2> DEFINE new == [have |-> TRUE, vtxundo |-> v.undo]
  <2>1. undo = [c \in Block |-> undo[c]]
    BY DEF IInv, UndoInv
  <2>2. new.have
    OBVIOUS
  <2>3. undo' = IF undo[b].have THEN undo ELSE [undo EXCEPT ![b] = new]
    BY <1>6
  <2> HIDE DEF new, v
  <2>4. /\ undo' = [c \in Block |-> undo'[c]]
        /\ undo'[b].have
        /\ \A c \in Block \ {b} : undo'[c] = undo[c]
    BY <2>1, <2>2, <2>3
  <2>5. \A c \in Block : undo[c].have => undo'[c].have
    BY <2>4
  <2>6. ASSUME NEW c \in Block \ {Base}, undo'[c].have PROVE Have(undo', Parent[c])
    <3>1. Parent[c] \in Block
      BY ParentAssumption
    <3>2. Have(undo, Parent[c])
      BY <1>1, <1>2, <2>4, <2>6 DEF IInv, UndoInv
    <3> QED
      BY <2>5, <3>1, <3>2 DEF Have
  <2>7. Have(undo', b)
    BY <2>4 DEF Have
  <2> QED
    BY <1>1, <1>6, <2>4, <2>5, <2>6, <2>7, MoveTipInv
<1> QED
  BY <1>3, <1>4, <1>5, <1>6 DEF ConnectTip

\* The parent of a connected block has undo data too.
LEMMA DisconnectTipInv ==
  ASSUME IInv, DisconnectTip
  PROVE  IInv'
<1> DEFINE b == cache.best
           v == DisconnectBlock(NewView(cache, cache.hash), b, undo[b])
<1>1. phase = "running" /\ b # Base /\ UNCHANGED <<disk, torn>>
  BY DEF DisconnectTip
<1>2. b \in Block /\ Have(undo, b) /\ (~torn => evoRoot = b)
  BY <1>1 DEF IInv, CacheInv, EvoInv, Up
<1>3. CASE Stop("evo_mismatch") /\ evoRoot # b
  BY <1>1, <1>2, <1>3, StopInv DEF IInv, EvoInv
<1>4. CASE Stop("assert") \/ Stop("unclean")
  BY <1>1, <1>4, StopInv
<1>5. CASE cache' = Level(v, Parent[b]) /\ evoRoot' = Parent[b] /\ UNCHANGED <<undo, phase>>
  <2>1. Parent[b] \in Block /\ Have(undo, Parent[b])
    BY <1>1, <1>2, ParentAssumption DEF IInv, UndoInv, Have
  <2>2. undo' = [c \in Block |-> undo'[c]] /\ \A c \in Block : undo'[c] = undo[c]
    BY <1>5 DEF IInv, UndoInv
  <2>3. \A c \in Block \ {Base} : undo'[c].have => Have(undo', Parent[c])
    BY <1>5 DEF IInv, UndoInv, Have
  <2>4. Have(undo', Parent[b])
    BY <1>5, <2>1 DEF Have
  <2> HIDE DEF v
  <2> QED
    BY <1>1, <1>5, <2>1, <2>2, <2>3, <2>4, MoveTipInv
<1> QED
  BY <1>3, <1>4, <1>5 DEF DisconnectTip

\* The undo data is on disk before the first batch of coins.
LEMMA WriteBlockIndexInv ==
  ASSUME IInv, WriteBlockIndex
  PROVE  IInv'
<1>1. /\ phase = "running" /\ phase' \in {"running", "flushing"}
      /\ index'.undo = undo
      /\ UNCHANGED <<db, evoDisk, cache, undo, evoRoot, torn>>
  BY DEF WriteBlockIndex, memory
<1>2. DbInv'
  BY <1>1 DEF IInv, DbInv
<1>3. UndoInv'
  <2>1. db.heads = <<>> /\ db.best \in Block /\ Have(index.undo, db.best)
    BY <1>1 DEF IInv, CacheInv, UndoInv, DbInv
  <2>2. Have(undo, db.best)
    BY <2>1 DEF IInv, UndoInv, Have
  <2> QED
    BY <1>1, <2>1, <2>2 DEF IInv, UndoInv, Have
<1>4. CacheInv'
  BY <1>1 DEF IInv, CacheInv, Have, Up
<1>5. EvoInv'
  BY <1>1 DEF IInv, EvoInv, EvoFollowsCoins, AbortsOnlyWhenTorn, Phases, Up
<1> QED
  BY <1>2, <1>3, <1>4, <1>5 DEF IInv

\* A partial batch begins or continues the transition to the cache's block.
LEMMA WritePartialBatchInv ==
  ASSUME IInv, WritePartialBatch
  PROVE  IInv'
<1> DEFINE oldTip == IF db.best # NoBlock THEN db.best ELSE db.heads[2]
<1>1. /\ phase \in {"flushing", "replaying"} /\ phase' = phase
      /\ UNCHANGED <<index, evoDisk, cache, undo, evoRoot, torn>>
  BY DEF WritePartialBatch, memory
<1>2. PICK os \in SUBSET {o \in Outpoint : db.coins[o] # cache.coins[o]} :
        db' = [db EXCEPT
                 !.coins = [o \in Outpoint |-> IF o \in os THEN cache.coins[o] ELSE @[o]],
                 !.best = NoBlock,
                 !.heads = <<cache.best, oldTip>>]
  BY DEF WritePartialBatch
<1>3. /\ cache.best \in Block /\ oldTip \in Block
      /\ Have(index.undo, cache.best) /\ Have(index.undo, oldTip)
      /\ oldTip = IF db.heads = <<>> THEN db.best ELSE db.heads[2]
  BY <1>1, ParentAssumption DEF IInv, DbInv, UndoInv, CacheInv, Up
<1> HIDE DEF oldTip
<1>4. db' = [coins |-> db'.coins, nfs |-> db.nfs, anchors |-> db.anchors, hash |-> db.hash,
             best |-> NoBlock, heads |-> <<cache.best, oldTip>>]
  <2> DEFINE coins == [o \in Outpoint |-> IF o \in os THEN cache.coins[o] ELSE db.coins[o]]
  <2>1. db' = [db EXCEPT !.coins = coins, !.best = NoBlock, !.heads = <<cache.best, oldTip>>]
    BY <1>2
  <2>2. db = [coins |-> db.coins, nfs |-> db.nfs, anchors |-> db.anchors, hash |-> db.hash,
              best |-> db.best, heads |-> db.heads]
    BY DEF IInv, DbInv
  <2> HIDE DEF coins
  <2> QED
    BY <2>1, <2>2
<1>5. db'.heads = <<cache.best, oldTip>> /\ db'.heads # <<>> /\ db'.best = NoBlock
  BY <1>4
<1>6. DbInv'
  BY <1>3, <1>4, <1>5 DEF DbInv
<1>7. UndoInv'
  <2>1. db'.heads[1] = cache.best /\ db'.heads[2] = oldTip
    BY <1>5
  <2>2. Have(index.undo, db'.heads[1]) /\ Have(index.undo, db'.heads[2])
    BY <1>3, <2>1
  <2> QED
    BY <1>1, <1>5, <2>2 DEF IInv, UndoInv, Have
<1>8. CacheInv'
  BY <1>1, <1>5 DEF IInv, CacheInv, Have, Up
<1>9. EvoInv'
  BY <1>1, <1>3, <1>5 DEF IInv, EvoInv, EvoFollowsCoins, AbortsOnlyWhenTorn
<1> QED
  BY <1>6, <1>7, <1>8, <1>9 DEF IInv

\* The last batch moves the best block to that of the cache.
LEMMA WriteFinalBatchInv ==
  ASSUME IInv, WriteFinalBatch
  PROVE  IInv'
<1>1. /\ phase \in {"flushing", "replaying"} /\ phase' = "committing"
      /\ UNCHANGED <<index, evoDisk, undo, evoRoot, torn>>
  BY DEF WriteFinalBatch
<1>2. PICK h : db' = [coins |-> cache.coins, nfs |-> cache.nfs,
                      anchors |-> cache.anchors \cup {EmptyRoot}, hash |-> h,
                      best |-> cache.best, heads |-> <<>>]
  BY DEF WriteFinalBatch
<1>3. db'.best = cache.best /\ db'.heads = <<>>
  BY <1>2
<1>4. cache.best \in Block /\ Have(index.undo, cache.best)
  BY <1>1 DEF IInv, CacheInv, Up
<1>5. /\ cache' = [coins |-> cache'.coins, nfs |-> cache'.nfs, anchors |-> cache'.anchors,
                   hash |-> cache'.hash, best |-> cache'.best]
      /\ cache'.best = cache.best
  <2>1. CASE cache' = FreshCache(db')
    BY <1>3, <2>1 DEF FreshCache, Level
  <2>2. CASE cache' = [cache EXCEPT !.anchors = db'.anchors]
    <3>1. cache = [coins |-> cache.coins, nfs |-> cache.nfs, anchors |-> cache.anchors,
                   hash |-> cache.hash, best |-> cache.best]
      BY <1>1 DEF IInv, CacheInv, Up
    <3> QED
      BY <2>2, <3>1
  <2> QED
    BY <2>1, <2>2 DEF WriteFinalBatch
<1>6. DbInv'
  BY <1>2, <1>4 DEF DbInv
<1>7. UndoInv'
  BY <1>1, <1>3, <1>4 DEF IInv, UndoInv, Have
<1>8. CacheInv'
  BY <1>1, <1>3, <1>4, <1>5 DEF IInv, CacheInv, Have, Up
<1>9. EvoInv'
  BY <1>1, <1>5 DEF IInv, EvoInv, EvoFollowsCoins, AbortsOnlyWhenTorn, Phases, Up
<1> QED
  BY <1>6, <1>7, <1>8, <1>9 DEF IInv

\* EvoDB follows the coins that were flushed just before.
LEMMA CommitRootTransactionInv ==
  ASSUME IInv, CommitRootTransaction
  PROVE  IInv'
<1>1. /\ phase = "committing" /\ phase' = "running" /\ evoDisk' = evoRoot
      /\ UNCHANGED <<db, index, cache, undo, evoRoot, torn>>
  BY DEF CommitRootTransaction, memory
<1>2. DbInv' /\ UndoInv'
  BY <1>1 DEF IInv, DbInv, UndoInv, Have
<1>3. CacheInv'
  BY <1>1 DEF IInv, CacheInv, Have, Up
<1>4. EvoInv'
  BY <1>1 DEF IInv, CacheInv, EvoInv, EvoFollowsCoins, AbortsOnlyWhenTorn, Phases, Up
<1> QED
  BY <1>2, <1>3, <1>4 DEF IInv

\* A crash is torn when it leaves EvoDB behind the coins.
LEMMA CrashInv ==
  ASSUME IInv, Crash, phase \in Up
  PROVE  IInv'
<1>1. /\ phase' = "down" /\ undo' = index.undo /\ evoRoot' = evoDisk
      /\ torn' = (torn \/ (phase = "committing" /\ evoDisk # evoRoot))
      /\ UNCHANGED <<db, index, evoDisk>>
  BY DEF Crash, disk
<1>2. DbInv'
  BY <1>1 DEF IInv, DbInv
<1>3. UndoInv'
  BY <1>1 DEF IInv, UndoInv, Have
<1>4. CacheInv'
  BY <1>1 DEF CacheInv, Up
<1>5. EvoInv'
  BY <1>1 DEF IInv, CacheInv, EvoInv, EvoFollowsCoins, AbortsOnlyWhenTorn, Phases, Up
<1> QED
  BY <1>2, <1>3, <1>4, <1>5 DEF IInv

\* A start finds the blocks of an interrupted flush, and EvoDB where the flush
\* began, unless a crash was torn.
LEMMA StartInv ==
  ASSUME IInv, Start
  PROVE  IInv'
<1>1. phase = "down" /\ UNCHANGED <<db, index, evoDisk, undo, torn>>
  BY DEF Start, disk
<1>2. undo = index.undo /\ evoRoot = evoDisk
  BY <1>1 DEF IInv, CacheInv
<1>3. DbInv' /\ UndoInv'
  BY <1>1 DEF IInv, DbInv, UndoInv, Have
<1>4. CASE /\ db.heads = <<>> /\ cache' = FreshCache(db) /\ phase' = "running"
           /\ UNCHANGED evoRoot
  <2>1. /\ cache' = [coins |-> cache'.coins, nfs |-> cache'.nfs, anchors |-> cache'.anchors,
                     hash |-> cache'.hash, best |-> cache'.best]
        /\ cache'.best = db.best
    BY <1>4 DEF FreshCache, Level
  <2>2. db.best \in Block /\ Have(undo, db.best)
    BY <1>2, <1>4 DEF IInv, DbInv, UndoInv
  <2>3. CacheInv'
    BY <1>1, <1>4, <2>1, <2>2 DEF CacheInv, Have, Up
  <2>4. EvoInv'
    BY <1>1, <1>2, <1>4, <2>1 DEF IInv, EvoInv, EvoFollowsCoins, AbortsOnlyWhenTorn, Phases, Up
  <2> QED
    BY <1>3, <2>3, <2>4 DEF IInv
<1>5. CASE /\ db.heads # <<>> /\ ~ReplayPossible(db.heads[1], db.heads[2])
           /\ phase' = "replay_error" /\ UNCHANGED <<cache, evoRoot>>
  <2>1. torn
    <3>1. db.heads[1] \in Block /\ db.heads[2] \in Block
      BY <1>5 DEF IInv, DbInv
    <3>2. Have(index.undo, db.heads[1]) /\ Have(index.undo, db.heads[2])
      BY <1>5 DEF IInv, UndoInv
    <3>3. evoRoot # db.heads[2]
      BY <1>5, <3>1, <3>2 DEF ReplayPossible, Have
    <3> QED
      BY <1>1, <1>2, <1>5, <3>3 DEF IInv, EvoInv, EvoFollowsCoins
  <2>2. CacheInv'
    BY <1>5 DEF CacheInv, Up
  <2>3. EvoInv'
    BY <1>1, <1>5, <2>1 DEF IInv, EvoInv, EvoFollowsCoins, AbortsOnlyWhenTorn, Phases, Up
  <2> QED
    BY <1>3, <2>2, <2>3 DEF IInv
<1>6. ASSUME NEW v, db.heads # <<>>,
             cache' = Level(v, db.heads[1]), evoRoot' = db.heads[1],
             phase' \in {"assert", "replaying"}
      PROVE  IInv'
  <2>1. /\ cache' = [coins |-> cache'.coins, nfs |-> cache'.nfs, anchors |-> cache'.anchors,
                     hash |-> cache'.hash, best |-> cache'.best]
        /\ cache'.best = db.heads[1]
    BY <1>6 DEF Level
  <2>2. db.heads[1] \in Block /\ Have(index.undo, db.heads[1])
    BY <1>6 DEF IInv, DbInv, UndoInv
  <2>3. CacheInv'
    BY <1>1, <1>2, <1>6, <2>1, <2>2 DEF CacheInv, Have, Up
  <2>4. EvoInv'
    BY <1>1, <1>2, <1>6, <2>1 DEF IInv, EvoInv, EvoFollowsCoins, AbortsOnlyWhenTorn, Phases, Up
  <2> QED
    BY <1>3, <2>3, <2>4 DEF IInv
<1>7. ASSUME db.heads # <<>>,
             cache' = Level(ReplayBlocks(db.heads[1], db.heads[2]), db.heads[1]),
             evoRoot' = db.heads[1], phase' \in {"assert", "replaying"}
      PROVE  IInv'
  BY <1>6, <1>7
<1> QED
  BY <1>4, <1>5, <1>7 DEF Start

\* Every step preserves the invariant.
LEMMA NextInv == IInv /\ [Next]_vars => IInv'
<1> SUFFICES ASSUME IInv, [Next]_vars PROVE IInv'
  OBVIOUS
<1>1. CASE Crash
  BY <1>1, CrashInv, CrashAssumption DEF Crash, Up
<1>2. CASE UNCHANGED vars
  <2>1. UNCHANGED <<db, index, evoDisk, cache, undo, evoRoot, phase, torn>>
    BY <1>2 DEF vars, disk, memory
  <2>2. DbInv' /\ UndoInv'
    BY <2>1 DEF IInv, DbInv, UndoInv, Have
  <2>3. CacheInv' /\ EvoInv'
    BY <2>1 DEF IInv, CacheInv, EvoInv, EvoFollowsCoins, AbortsOnlyWhenTorn, Have
  <2> QED
    BY <2>2, <2>3 DEF IInv
<1> QED
  BY <1>1, <1>2, ConnectTipInv, DisconnectTipInv, WriteBlockIndexInv, WritePartialBatchInv,
     WriteFinalBatchInv, CommitRootTransactionInv, StartInv DEF Next

-----------------------------------------------------------------------------
(* The theorems.                                                           *)

\* BatchWrite's assertion never fails: the heads of a transition belong to the
\* cache that is being flushed, be it CoinsTip() or the replay's.
THEOREM FlushesResumeTransitions == Spec => []FlushResumesTransition
<1>1. IInv => FlushResumesTransition
  BY ParentAssumption DEF IInv, DbInv, CacheInv, FlushResumesTransition
<1> QED
  BY <1>1, InitInv, NextInv, PTL DEF Spec

\* FlushStateToDisk and CommitRootTransaction keep EvoDB on disk at the block
\* of the coins database or at the start of its transition.
THEOREM EvoDBFollowsCoins == Spec => []EvoFollowsCoins
<1>1. IInv => EvoFollowsCoins
  BY DEF IInv, EvoInv
<1> QED
  BY <1>1, InitInv, NextInv, PTL DEF Spec

\* ConnectBlock, DisconnectBlock and ReplayBlocks find EvoDB inconsistent, and
\* ReplayBlocks misses a block, only after a crash between the two commits.
THEOREM EvoDBAbortsOnlyWhenTorn == Spec => []AbortsOnlyWhenTorn
<1>1. IInv => AbortsOnlyWhenTorn
  BY DEF IInv, EvoInv
<1> QED
  BY <1>1, InitInv, NextInv, PTL DEF Spec
=============================================================================
