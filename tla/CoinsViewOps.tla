---------------------------- MODULE CoinsViewOps ----------------------------
(***************************************************************************)
(* One level of the coins view hierarchy (class CCoinsViewCache, with the  *)
(* database CCoinsViewDB at the bottom), as operators on its maps.         *)
(*                                                                         *)
(* A coins cache (cacheCoins) is a function from every outpoint to its     *)
(* cache entry or to NoEntry; a nullifier cache (cacheSaplingNullifiers)   *)
(* likewise.  What lies below a level is given by its contents: a base of  *)
(* coins maps every outpoint to the unspent coin it holds or to Spent, a   *)
(* base of nullifiers is the set of the nullifiers it holds.               *)
(***************************************************************************)
CONSTANTS Outpoint,   \* transaction outputs
          Coin,       \* values of an unspent output
          Nullifier,  \* Sapling nullifiers
          Spent,      \* a nulled out Coin (Coin::Clear)
          NoEntry     \* the absence of a cache entry

Contents == [Outpoint -> Coin \cup {Spent}]

Entry == [coin : Coin \cup {Spent}, dirty : BOOLEAN, fresh : BOOLEAN]

CacheCoins == [Outpoint -> Entry \cup {NoEntry}]

NfEntry == [entered : BOOLEAN, dirty : BOOLEAN]

CacheNullifiers == [Nullifier -> NfEntry \cup {NoEntry}]

ASSUME SentinelAssumption ==
  /\ Spent \notin Coin
  /\ NoEntry \notin Entry
  /\ NoEntry \notin NfEntry

EmptyCoins == [o \in Outpoint |-> NoEntry]

EmptyNullifiers == [n \in Nullifier |-> NoEntry]

-----------------------------------------------------------------------------
(* Coins.                                                                  *)

\* What the level answers for every outpoint (GetCoin and HaveCoin, the
\* entry they cache left aside).
CoinsOf(cache, base) ==
  [o \in Outpoint |-> IF cache[o] = NoEntry THEN base[o] ELSE cache[o].coin]

\* Looking an outpoint up caches the base's unspent coin, with no flags.
FetchCoin(cache, base, o) ==
  IF cache[o] = NoEntry /\ base[o] # Spent
  THEN [cache EXCEPT ![o] = [coin |-> base[o], dirty |-> FALSE, fresh |-> FALSE]]
  ELSE cache

\* The std::logic_error of AddCoin.
AddCoinThrows(cache, o, overwrite) ==
  ~overwrite /\ cache[o] # NoEntry /\ cache[o].coin # Spent

\* Faulty variant: FRESH is set even on an entry whose spentness is not flushed.
AddCoinAlwaysFresh(cache, o, coin, overwrite) ==
  [cache EXCEPT ![o] = [coin |-> coin, dirty |-> TRUE, fresh |-> ~overwrite]]

\* AddCoin never consults the base: the entry is emplaced when it is absent.
AddCoin(cache, o, coin, overwrite) ==
  LET old   == IF cache[o] = NoEntry
               THEN [coin |-> Spent, dirty |-> FALSE, fresh |-> FALSE]
               ELSE cache[o]
      fresh == ~overwrite /\ ~old.dirty
  IN  [cache EXCEPT ![o] = [coin |-> coin, dirty |-> TRUE, fresh |-> old.fresh \/ fresh]]

\* Faulty variant: a FRESH entry is kept, nulled out, when it is spent.
SpendCoinKeepsFresh(cache, base, o) ==
  LET fetched == FetchCoin(cache, base, o) IN
  IF fetched[o] = NoEntry
  THEN fetched
  ELSE [fetched EXCEPT ![o].coin = Spent, ![o].dirty = TRUE]

\* A FRESH entry is erased, any other one is kept as a DIRTY spent coin.
SpendCoin(cache, base, o) ==
  LET fetched == FetchCoin(cache, base, o) IN
  IF fetched[o] = NoEntry
  THEN fetched
  ELSE [fetched EXCEPT ![o] = IF fetched[o].fresh
                              THEN NoEntry
                              ELSE [coin |-> Spent, dirty |-> TRUE, fresh |-> FALSE]]

\* Uncache drops an entry that carries no flag.
Uncache(cache, o) ==
  IF cache[o] # NoEntry /\ ~cache[o].dirty /\ ~cache[o].fresh
  THEN [cache EXCEPT ![o] = NoEntry]
  ELSE cache

\* The std::logic_error of BatchWrite: FRESH in the child, unspent in the parent.
FreshMisapplied(child, parent) ==
  /\ child # NoEntry /\ child.dirty /\ child.fresh
  /\ parent # NoEntry /\ parent.coin # Spent

\* Faulty variant: FRESH also moves up to an entry that the parent has.
MergeEntryMarksFresh(child, parent) ==
  IF child = NoEntry \/ ~child.dirty
  THEN parent
  ELSE IF child.coin = Spent /\ (IF parent = NoEntry THEN child.fresh ELSE parent.fresh)
  THEN NoEntry
  ELSE [coin |-> child.coin, dirty |-> TRUE,
        fresh |-> child.fresh \/ (parent # NoEntry /\ parent.fresh)]

\* What BatchWrite makes of a parent's entry, given the child's one.
MergeEntry(child, parent) ==
  IF child = NoEntry \/ ~child.dirty
  THEN parent
  ELSE IF parent = NoEntry
       THEN IF child.fresh /\ child.coin = Spent
            THEN NoEntry
            ELSE [coin |-> child.coin, dirty |-> TRUE, fresh |-> child.fresh]
       ELSE IF parent.fresh /\ child.coin = Spent
            THEN NoEntry
            ELSE [coin |-> child.coin, dirty |-> TRUE, fresh |-> parent.fresh]

BatchWriteCoins(child, parent) ==
  [o \in Outpoint |-> MergeEntry(child[o], parent[o])]

\* CCoinsViewDB::BatchWrite stores or erases every DIRTY entry of the set os.
WriteCoins(cache, db, os) ==
  [o \in Outpoint |-> IF o \in os /\ cache[o] # NoEntry /\ cache[o].dirty
                      THEN cache[o].coin
                      ELSE db[o]]

\* Sync keeps the unspent entries, without their flags.
SyncedCoins(cache) ==
  [o \in Outpoint |-> IF cache[o] = NoEntry \/ cache[o].coin = Spent
                      THEN NoEntry
                      ELSE [coin |-> cache[o].coin, dirty |-> FALSE, fresh |-> FALSE]]

-----------------------------------------------------------------------------
(* Sapling nullifiers.                                                     *)

NullifiersOf(cache, base) ==
  {n \in Nullifier : IF cache[n] = NoEntry THEN n \in base ELSE cache[n].entered}

\* GetNullifier caches the base's answer, whichever it is.
FetchNullifier(cache, base, n) ==
  IF cache[n] = NoEntry
  THEN [cache EXCEPT ![n] = [entered |-> n \in base, dirty |-> FALSE]]
  ELSE cache

\* Faulty variant: the flags of the new entry are left uninitialised.
SetNullifierUnflagged(cache, n, spent) ==
  [cache EXCEPT ![n] = [entered |-> spent]]

SetNullifier(cache, n, spent) ==
  [cache EXCEPT ![n] = [entered |-> spent, dirty |-> TRUE]]

\* A parent entry that already agrees keeps its flags.
MergeNfEntry(child, parent) ==
  IF child = NoEntry \/ ~child.dirty
  THEN parent
  ELSE IF parent = NoEntry \/ parent.entered # child.entered
       THEN [entered |-> child.entered, dirty |-> TRUE]
       ELSE parent

BatchWriteNullifiers(child, parent) ==
  [n \in Nullifier |-> MergeNfEntry(child[n], parent[n])]

\* The database's BatchWriteNullifiers.
WriteNullifiers(cache, db) ==
  {n \in Nullifier : IF cache[n] # NoEntry /\ cache[n].dirty
                     THEN cache[n].entered
                     ELSE n \in db}
=============================================================================
