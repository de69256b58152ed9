-------------------------- MODULE CoinsViewsProofs --------------------------
(***************************************************************************)
(* The coins views are correct for any sets of outpoints, coins and        *)
(* nullifiers.  The lemmas say what each operation of a level does to what *)
(* the level answers (CoinsOf, NullifiersOf) and that it keeps the flags   *)
(* coherent; the theorems put the levels together.                         *)
(***************************************************************************)
EXTENDS CoinsViews, TLAPS

\* One level is in order: SanityCheck holds of its entries and their flags are
\* true of the base.
WellFlagged(cache, base) ==
  \A o \in Outpoint : SaneEntry(cache[o]) /\ CoherentEntry(cache[o], base[o])

WellFlaggedNullifiers(cache, base) ==
  \A n \in Nullifier : CoherentNullifier(cache[n], n \in base)

-----------------------------------------------------------------------------
(* One level of coins.                                                     *)

\* Any coin with any flags makes an entry, and the absence of one is none.
LEMMA EntryType ==
  ASSUME NEW c \in Coin \cup {Spent}, NEW d \in BOOLEAN, NEW f \in BOOLEAN
  PROVE  /\ [coin |-> c, dirty |-> d, fresh |-> f] \in Entry
         /\ [coin |-> c, dirty |-> d, fresh |-> f] # NoEntry
BY SentinelAssumption DEF Entry

\* f with another value at o.
Replaced(f, o, v) == [p \in Outpoint |-> IF p = o THEN v ELSE f[p]]

\* Replacing one entry changes one answer and one entry to be checked.
LEMMA ReplaceEntry ==
  ASSUME NEW cache \in CacheCoins, NEW base \in Contents, NEW o \in Outpoint,
         NEW e \in Entry \cup {NoEntry}, NEW answer,
         IF e = NoEntry THEN answer = base[o] ELSE answer = e.coin
  PROVE  /\ Replaced(cache, o, e) \in CacheCoins
         /\ CoinsOf(Replaced(cache, o, e), base)
              = Replaced(CoinsOf(cache, base), o, answer)
         /\ WellFlagged(cache, base) /\ SaneEntry(e) /\ CoherentEntry(e, base[o])
              => WellFlagged(Replaced(cache, o, e), base)
BY DEF CacheCoins, CoinsOf, WellFlagged, Replaced

\* GetCoin and HaveCoin answer with a coin or with Spent.
LEMMA CoinsOfType ==
  ASSUME NEW cache \in CacheCoins, NEW base \in Contents
  PROVE  CoinsOf(cache, base) \in Contents
BY DEF CoinsOf, CacheCoins, Contents, Entry

\* The cache entry that a lookup adds changes no answer, and its absent flags
\* are right.
LEMMA FetchCoinInvisible ==
  ASSUME NEW cache \in CacheCoins, NEW base \in Contents, NEW o \in Outpoint,
         WellFlagged(cache, base)
  PROVE  /\ FetchCoin(cache, base, o) \in CacheCoins
         /\ CoinsOf(FetchCoin(cache, base, o), base) = CoinsOf(cache, base)
         /\ WellFlagged(FetchCoin(cache, base, o), base)
BY SentinelAssumption
DEF FetchCoin, CacheCoins, Contents, Entry, CoinsOf, WellFlagged, SaneEntry,
    CoherentEntry

\* AddCoin replaces one coin, and may mark it FRESH when it is told that it
\* overwrites nothing, and that is so.
LEMMA AddCoinReplaces ==
  ASSUME NEW cache \in CacheCoins, NEW base \in Contents, NEW o \in Outpoint,
         NEW c \in Coin, NEW overwrite \in BOOLEAN,
         WellFlagged(cache, base),
         overwrite \/ CoinsOf(cache, base)[o] = Spent
  PROVE  /\ AddCoin(cache, o, c, overwrite) \in CacheCoins
         /\ CoinsOf(AddCoin(cache, o, c, overwrite), base)
              = Replaced(CoinsOf(cache, base), o, c)
         /\ WellFlagged(AddCoin(cache, o, c, overwrite), base)
         /\ ~AddCoinThrows(cache, o, overwrite)
<1> DEFINE old == IF cache[o] = NoEntry
                  THEN [coin |-> Spent, dirty |-> FALSE, fresh |-> FALSE]
                  ELSE cache[o]
           new == [coin |-> c, dirty |-> TRUE,
                   fresh |-> old.fresh \/ (~overwrite /\ ~old.dirty)]
<1>1. AddCoin(cache, o, c, overwrite) = Replaced(cache, o, new)
  BY DEF AddCoin, Replaced, CacheCoins
<1>2. new \in Entry /\ new # NoEntry /\ new.coin = c
  <2>1. (old.fresh \/ (~overwrite /\ ~old.dirty)) \in BOOLEAN
    OBVIOUS
  <2> QED
    BY <2>1, EntryType
<1>3. SaneEntry(new) /\ CoherentEntry(new, base[o])
  BY SentinelAssumption
  DEF CacheCoins, Entry, CoinsOf, WellFlagged, SaneEntry, CoherentEntry
<1>4. ~AddCoinThrows(cache, o, overwrite)
  BY DEF AddCoinThrows, CoinsOf
<1> HIDE DEF new
<1> QED
  BY <1>1, <1>2, <1>3, <1>4, ReplaceEntry

\* SpendCoin empties one outpoint: erasing a FRESH entry is enough, because
\* the base has no unspent coin behind it.
LEMMA SpendCoinEmpties ==
  ASSUME NEW cache \in CacheCoins, NEW base \in Contents, NEW o \in Outpoint,
         WellFlagged(cache, base)
  PROVE  /\ SpendCoin(cache, base, o) \in CacheCoins
         /\ CoinsOf(SpendCoin(cache, base, o), base)
              = Replaced(CoinsOf(cache, base), o, Spent)
         /\ WellFlagged(SpendCoin(cache, base, o), base)
<1> DEFINE f == FetchCoin(cache, base, o)
<1>1. /\ f \in CacheCoins
      /\ CoinsOf(f, base) = CoinsOf(cache, base)
      /\ WellFlagged(f, base)
  BY FetchCoinInvisible
<1>2. f[o] = NoEntry => base[o] = Spent
  BY EntryType DEF FetchCoin, CacheCoins, Contents
<1> HIDE DEF f
<1>3. CASE f[o] = NoEntry
  <2>1. SpendCoin(cache, base, o) = f
    BY <1>3 DEF SpendCoin, f
  <2>2. CoinsOf(f, base)[o] = Spent
    BY <1>2, <1>3 DEF CoinsOf
  <2> QED
    BY <1>1, <2>1, <2>2 DEF CoinsOf, Replaced
<1>4. CASE f[o] # NoEntry /\ f[o].fresh
  <2>1. SpendCoin(cache, base, o) = Replaced(f, o, NoEntry)
    BY <1>1, <1>4 DEF SpendCoin, f, Replaced, CacheCoins
  <2>2. base[o] = Spent
    BY <1>1, <1>4 DEF WellFlagged, CoherentEntry
  <2>3. SaneEntry(NoEntry) /\ CoherentEntry(NoEntry, base[o])
    BY DEF SaneEntry, CoherentEntry
  <2> QED
    BY <1>1, <2>1, <2>2, <2>3, ReplaceEntry
<1>5. CASE f[o] # NoEntry /\ ~f[o].fresh
  <2> DEFINE new == [coin |-> Spent, dirty |-> TRUE, fresh |-> FALSE]
  <2>1. SpendCoin(cache, base, o) = Replaced(f, o, new)
    BY <1>1, <1>5 DEF SpendCoin, f, Replaced, CacheCoins
  <2>2. new \in Entry /\ new # NoEntry /\ new.coin = Spent
    BY EntryType
  <2>3. SaneEntry(new) /\ CoherentEntry(new, base[o])
    BY DEF SaneEntry, CoherentEntry
  <2> HIDE DEF new
  <2> QED
    BY <1>1, <2>1, <2>2, <2>3, ReplaceEntry
<1> QED
  BY <1>3, <1>4, <1>5

\* Uncache forgets only what the base knows as well.
LEMMA UncacheInvisible ==
  ASSUME NEW cache \in CacheCoins, NEW base \in Contents, NEW o \in Outpoint,
         WellFlagged(cache, base)
  PROVE  /\ Uncache(cache, o) \in CacheCoins
         /\ CoinsOf(Uncache(cache, o), base) = CoinsOf(cache, base)
         /\ WellFlagged(Uncache(cache, o), base)
BY SentinelAssumption
DEF Uncache, CacheCoins, CoinsOf, WellFlagged, SaneEntry, CoherentEntry

-----------------------------------------------------------------------------
(* Flushing a level.                                                       *)

\* BatchWrite on one entry: the merged entry gives the child's answer, in
\* every combination of the two entries' flags, and does not throw.
LEMMA MergeEntryCorrect ==
  ASSUME NEW child \in Entry \cup {NoEntry}, NEW parent \in Entry \cup {NoEntry},
         NEW below \in Coin \cup {Spent}, NEW mid,
         mid = IF parent = NoEntry THEN below ELSE parent.coin,
         SaneEntry(child), CoherentEntry(child, mid),
         SaneEntry(parent), CoherentEntry(parent, below)
  PROVE  LET m == MergeEntry(child, parent) IN
         /\ m \in Entry \cup {NoEntry}
         /\ SaneEntry(m)
         /\ CoherentEntry(m, below)
         /\ (IF m = NoEntry THEN below ELSE m.coin)
              = (IF child = NoEntry THEN mid ELSE child.coin)
         /\ ~FreshMisapplied(child, parent)
<1> DEFINE m == MergeEntry(child, parent)
           answer == IF child = NoEntry THEN mid ELSE child.coin
<1>1. CASE child = NoEntry \/ ~child.dirty
  BY <1>1 DEF MergeEntry, FreshMisapplied, CoherentEntry
<1>2. CASE child # NoEntry /\ child.dirty /\ parent = NoEntry
  <2>1. child \in Entry /\ child.fresh \in BOOLEAN /\ child.coin \in Coin \cup {Spent}
    BY <1>2 DEF Entry
  <2>2. ~(child.fresh /\ child.coin = Spent)
    BY <1>2 DEF SaneEntry
  <2>3. m = [coin |-> child.coin, dirty |-> TRUE, fresh |-> child.fresh]
    BY <1>2, <2>2 DEF MergeEntry
  <2>4. m \in Entry /\ m # NoEntry
    BY <2>1, <2>3, EntryType
  <2>5. m.coin = child.coin /\ m.dirty /\ m.fresh = child.fresh
    BY <2>3
  <2> QED
    BY <1>2, <2>2, <2>4, <2>5 DEF SaneEntry, CoherentEntry, FreshMisapplied
<1>3. CASE child # NoEntry /\ child.dirty /\ parent # NoEntry
  <2>1. child \in Entry /\ parent \in Entry
    BY <1>3
  <2>2. ~FreshMisapplied(child, parent)
    BY <1>3 DEF FreshMisapplied, CoherentEntry
  <2>3. CASE parent.fresh /\ child.coin = Spent
    BY <1>3, <2>2, <2>3 DEF MergeEntry, SaneEntry, CoherentEntry
  <2>4. CASE ~(parent.fresh /\ child.coin = Spent)
    <3>1. m = [coin |-> child.coin, dirty |-> TRUE, fresh |-> parent.fresh]
      BY <1>3, <2>4 DEF MergeEntry
    <3>2. m \in Entry /\ m # NoEntry
      <4>1. parent.fresh \in BOOLEAN /\ child.coin \in Coin \cup {Spent}
        BY <2>1 DEF Entry
      <4> QED
        BY <3>1, <4>1, EntryType
    <3>3. m.coin = child.coin /\ m.dirty /\ m.fresh = parent.fresh
      BY <3>1
    <3> QED
      BY <1>3, <2>2, <2>4, <3>2, <3>3 DEF SaneEntry, CoherentEntry
  <2> QED
    BY <2>3, <2>4
<1> QED
  BY <1>1, <1>2, <1>3

\* view.Flush(): the parent answers what the child answered, stays in order,
\* and BatchWrite does not throw.
LEMMA BatchWriteCorrect ==
  ASSUME NEW child \in CacheCoins, NEW parent \in CacheCoins, NEW base \in Contents,
         WellFlagged(parent, base),
         WellFlagged(child, CoinsOf(parent, base))
  PROVE  /\ BatchWriteCoins(child, parent) \in CacheCoins
         /\ CoinsOf(BatchWriteCoins(child, parent), base)
              = CoinsOf(child, CoinsOf(parent, base))
         /\ WellFlagged(BatchWriteCoins(child, parent), base)
         /\ \A o \in Outpoint : ~FreshMisapplied(child[o], parent[o])
<1> DEFINE m(o) == MergeEntry(child[o], parent[o])
<1>1. ASSUME NEW o \in Outpoint
      PROVE  /\ m(o) \in Entry \cup {NoEntry}
             /\ SaneEntry(m(o)) /\ CoherentEntry(m(o), base[o])
             /\ (IF m(o) = NoEntry THEN base[o] ELSE m(o).coin)
                  = (IF child[o] = NoEntry
                     THEN CoinsOf(parent, base)[o] ELSE child[o].coin)
             /\ ~FreshMisapplied(child[o], parent[o])
  <2>1. /\ child[o] \in Entry \cup {NoEntry}
        /\ parent[o] \in Entry \cup {NoEntry}
        /\ base[o] \in Coin \cup {Spent}
        /\ CoinsOf(parent, base)[o]
             = IF parent[o] = NoEntry THEN base[o] ELSE parent[o].coin
    BY DEF CacheCoins, Contents, CoinsOf
  <2>2. /\ SaneEntry(child[o]) /\ CoherentEntry(child[o], CoinsOf(parent, base)[o])
        /\ SaneEntry(parent[o]) /\ CoherentEntry(parent[o], base[o])
    BY DEF WellFlagged
  <2> QED
    BY <2>1, <2>2, MergeEntryCorrect
<1>2. BatchWriteCoins(child, parent) = [o \in Outpoint |-> m(o)]
  BY DEF BatchWriteCoins
<1> HIDE DEF m
<1> QED
  BY <1>1, <1>2 DEF CacheCoins, CoinsOf, WellFlagged

\* CCoinsViewDB::BatchWrite: the database then holds what the cache answered.
LEMMA WriteCoinsCorrect ==
  ASSUME NEW cache \in CacheCoins, NEW db \in Contents, WellFlagged(cache, db)
  PROVE  WriteCoins(cache, db, Outpoint) = CoinsOf(cache, db)
BY DEF WriteCoins, CoinsOf, WellFlagged, CoherentEntry

\* An empty cache is in order and answers with its base.
LEMMA EmptyCoinsTransparent ==
  ASSUME NEW base \in Contents
  PROVE  /\ EmptyCoins \in CacheCoins
         /\ CoinsOf(EmptyCoins, base) = base
         /\ WellFlagged(EmptyCoins, base)
BY DEF EmptyCoins, CacheCoins, Contents, CoinsOf, WellFlagged, SaneEntry,
       CoherentEntry

\* Sync: the kept entries are those of the database just written.
LEMMA SyncedCoinsCorrect ==
  ASSUME NEW cache \in CacheCoins, NEW db \in Contents, WellFlagged(cache, db)
  PROVE  /\ SyncedCoins(cache) \in CacheCoins
         /\ CoinsOf(SyncedCoins(cache), CoinsOf(cache, db)) = CoinsOf(cache, db)
         /\ WellFlagged(SyncedCoins(cache), CoinsOf(cache, db))
<1> DEFINE e(o) == SyncedCoins(cache)[o]
           c(o) == CoinsOf(cache, db)[o]
<1>1. ASSUME NEW o \in Outpoint
      PROVE  /\ e(o) \in Entry \cup {NoEntry}
             /\ e(o) # NoEntry => e(o).coin = c(o) /\ ~e(o).dirty /\ ~e(o).fresh
                                  /\ e(o).coin # Spent
  BY EntryType DEF SyncedCoins, CoinsOf, CacheCoins, Entry
<1>2. SyncedCoins(cache) \in CacheCoins
  BY <1>1 DEF SyncedCoins, CacheCoins
<1>3. CoinsOf(SyncedCoins(cache), CoinsOf(cache, db)) = CoinsOf(cache, db)
  BY <1>1 DEF CoinsOf
<1>4. WellFlagged(SyncedCoins(cache), CoinsOf(cache, db))
  BY <1>1 DEF WellFlagged, SaneEntry, CoherentEntry
<1> QED
  BY <1>2, <1>3, <1>4

-----------------------------------------------------------------------------
(* One level of nullifiers.                                                *)

\* Any answer with any flag makes an entry.
LEMMA NfEntryType ==
  ASSUME NEW a \in BOOLEAN, NEW d \in BOOLEAN
  PROVE  /\ [entered |-> a, dirty |-> d] \in NfEntry
         /\ [entered |-> a, dirty |-> d] # NoEntry
BY SentinelAssumption DEF NfEntry

\* GetNullifier's cache entry changes no answer.
LEMMA FetchNullifierInvisible ==
  ASSUME NEW cache \in CacheNullifiers, NEW base \in SUBSET Nullifier,
         NEW n \in Nullifier, WellFlaggedNullifiers(cache, base)
  PROVE  /\ FetchNullifier(cache, base, n) \in CacheNullifiers
         /\ NullifiersOf(FetchNullifier(cache, base, n), base)
              = NullifiersOf(cache, base)
         /\ WellFlaggedNullifiers(FetchNullifier(cache, base, n), base)
<1> DEFINE e == [entered |-> n \in base, dirty |-> FALSE]
<1>1. e \in NfEntry /\ e # NoEntry
  <2> DEFINE a == n \in base
  <2>1. a \in BOOLEAN
    OBVIOUS
  <2>2. e = [entered |-> a, dirty |-> FALSE]
    OBVIOUS
  <2> HIDE DEF a, e
  <2> QED
    BY <2>1, <2>2, NfEntryType
<1>2. e.entered = (n \in base) /\ ~e.dirty
  OBVIOUS
<1>3. FetchNullifier(cache, base, n)
        = IF cache[n] = NoEntry THEN [cache EXCEPT ![n] = e] ELSE cache
  BY DEF FetchNullifier
<1> HIDE DEF e
<1> QED
  BY <1>1, <1>2, <1>3
  DEF CacheNullifiers, NullifiersOf, WellFlaggedNullifiers, CoherentNullifier

\* SetNullifiers changes one answer.
LEMMA SetNullifierReplaces ==
  ASSUME NEW cache \in CacheNullifiers, NEW base \in SUBSET Nullifier,
         NEW n \in Nullifier, NEW spent \in BOOLEAN,
         WellFlaggedNullifiers(cache, base)
  PROVE  /\ SetNullifier(cache, n, spent) \in CacheNullifiers
         /\ NullifiersOf(SetNullifier(cache, n, spent), base)
              = IF spent THEN NullifiersOf(cache, base) \cup {n}
                         ELSE NullifiersOf(cache, base) \ {n}
         /\ WellFlaggedNullifiers(SetNullifier(cache, n, spent), base)
<1> DEFINE e == [entered |-> spent, dirty |-> TRUE]
<1>1. e \in NfEntry /\ e # NoEntry
  BY NfEntryType
<1>2. e.entered = spent /\ e.dirty
  OBVIOUS
<1>3. SetNullifier(cache, n, spent) = [cache EXCEPT ![n] = e]
  BY DEF SetNullifier
<1> HIDE DEF e
<1> QED
  BY <1>1, <1>2, <1>3
  DEF CacheNullifiers, NullifiersOf, WellFlaggedNullifiers, CoherentNullifier

\* BatchWrite of nullifiers: an entry of the parent that agrees with a DIRTY
\* one of the child keeps its flags, and still loses nothing.
LEMMA BatchWriteNullifiersCorrect ==
  ASSUME NEW child \in CacheNullifiers, NEW parent \in CacheNullifiers,
         NEW base \in SUBSET Nullifier,
         WellFlaggedNullifiers(parent, base),
         WellFlaggedNullifiers(child, NullifiersOf(parent, base))
  PROVE  /\ BatchWriteNullifiers(child, parent) \in CacheNullifiers
         /\ NullifiersOf(BatchWriteNullifiers(child, parent), base)
              = NullifiersOf(child, NullifiersOf(parent, base))
         /\ WellFlaggedNullifiers(BatchWriteNullifiers(child, parent), base)
<1> DEFINE m(n) == MergeNfEntry(child[n], parent[n])
<1>1. ASSUME NEW n \in Nullifier
      PROVE  /\ m(n) \in NfEntry \cup {NoEntry}
             /\ CoherentNullifier(m(n), n \in base)
             /\ (IF m(n) = NoEntry THEN n \in base ELSE m(n).entered)
                  <=> (IF child[n] = NoEntry
                       THEN n \in NullifiersOf(parent, base)
                       ELSE child[n].entered)
  <2>1. child[n] \in NfEntry \cup {NoEntry} /\ parent[n] \in NfEntry \cup {NoEntry}
    BY DEF CacheNullifiers
  <2>2. /\ CoherentNullifier(parent[n], n \in base)
        /\ CoherentNullifier(child[n], n \in NullifiersOf(parent, base))
        /\ n \in NullifiersOf(parent, base)
             <=> IF parent[n] = NoEntry THEN n \in base ELSE parent[n].entered
    BY DEF WellFlaggedNullifiers, NullifiersOf
  <2>3. CASE child[n] = NoEntry \/ ~child[n].dirty
    BY <2>1, <2>2, <2>3 DEF MergeNfEntry, CoherentNullifier
  <2>4. CASE /\ child[n] # NoEntry /\ child[n].dirty
             /\ parent[n] = NoEntry \/ parent[n].entered # child[n].entered
    <3>1. m(n) = [entered |-> child[n].entered, dirty |-> TRUE]
      BY <2>4 DEF MergeNfEntry
    <3>2. child[n].entered \in BOOLEAN
      BY <2>1, <2>4 DEF NfEntry
    <3>3. m(n) \in NfEntry /\ m(n) # NoEntry
      BY <3>1, <3>2, NfEntryType
    <3>4. m(n).entered = child[n].entered /\ m(n).dirty
      BY <3>1
    <3> QED
      BY <2>4, <3>3, <3>4 DEF CoherentNullifier
  <2>5. CASE /\ child[n] # NoEntry /\ child[n].dirty
             /\ parent[n] # NoEntry /\ parent[n].entered = child[n].entered
    BY <2>1, <2>2, <2>5 DEF MergeNfEntry, CoherentNullifier
  <2> QED
    BY <2>3, <2>4, <2>5
<1>2. BatchWriteNullifiers(child, parent) = [n \in Nullifier |-> m(n)]
  BY DEF BatchWriteNullifiers
<1> HIDE DEF m
<1> QED
  BY <1>1, <1>2 DEF CacheNullifiers, NullifiersOf, WellFlaggedNullifiers

\* The database's BatchWriteNullifiers stores what the cache answered.
LEMMA WriteNullifiersCorrect ==
  ASSUME NEW cache \in CacheNullifiers, NEW db \in SUBSET Nullifier,
         WellFlaggedNullifiers(cache, db)
  PROVE  WriteNullifiers(cache, db) = NullifiersOf(cache, db)
BY DEF WriteNullifiers, NullifiersOf, WellFlaggedNullifiers, CoherentNullifier,
       CacheNullifiers, NfEntry

\* An empty cache of nullifiers answers with its base.
LEMMA EmptyNullifiersTransparent ==
  ASSUME NEW base \in SUBSET Nullifier
  PROVE  /\ EmptyNullifiers \in CacheNullifiers
         /\ NullifiersOf(EmptyNullifiers, base) = base
         /\ WellFlaggedNullifiers(EmptyNullifiers, base)
BY DEF EmptyNullifiers, CacheNullifiers, NullifiersOf, WellFlaggedNullifiers,
       CoherentNullifier

-----------------------------------------------------------------------------
(* The three levels together.                                              *)

\* The inductive invariant: every level is in order with respect to what the
\* level below answers, and nothing was thrown.
Inv ==
  /\ TypeOK
  /\ WellFlagged(tipCoins, dbCoins)
  /\ WellFlagged(viewCoins, TipContents)
  /\ WellFlaggedNullifiers(tipNullifiers, dbNullifiers)
  /\ WellFlaggedNullifiers(viewNullifiers, TipSpentNullifiers)
  /\ NoLogicError

\* The states of the ledger that the levels stand for.
pendingBar   == [coins |-> ViewContents, nfs |-> ViewSpentNullifiers]
committedBar == [coins |-> TipContents, nfs |-> TipSpentNullifiers]
durableBar   == [coins |-> dbCoins, nfs |-> dbNullifiers]

\* A started node satisfies the invariant, and stands for an initial ledger.
LEMMA InitCorrect == Init => Inv /\ Ledger!Init
<1> SUFFICES ASSUME Init
             PROVE  Inv /\ Ledger!Init
  OBVIOUS
<1>1. /\ TipContents = dbCoins /\ ViewContents = dbCoins
      /\ EmptyCoins \in CacheCoins /\ WellFlagged(EmptyCoins, dbCoins)
  BY EmptyCoinsTransparent DEF Init, TipContents, ViewContents
<1>2. /\ TipSpentNullifiers = dbNullifiers /\ ViewSpentNullifiers = dbNullifiers
      /\ EmptyNullifiers \in CacheNullifiers
      /\ WellFlaggedNullifiers(EmptyNullifiers, dbNullifiers)
  BY EmptyNullifiersTransparent DEF Init, TipSpentNullifiers, ViewSpentNullifiers
<1>3. Inv
  BY <1>1, <1>2 DEF Init, Inv, TypeOK, NoLogicError
<1>4. durableBar \in Ledger!States
  BY DEF Init, durableBar, Ledger!States, Contents
<1>5. committedBar = durableBar /\ pendingBar = durableBar
  BY <1>1, <1>2 DEF committedBar, pendingBar, durableBar
<1> QED
  BY <1>3, <1>4, <1>5 DEF Ledger!Init, committedBar, pendingBar, durableBar

\* A lookup through the view leaves the tip in order and its answers alone.
LEMMA LookupCorrect ==
  ASSUME Inv, NEW o \in Outpoint
  PROVE  /\ TipAfterLookup(o) \in CacheCoins
         /\ CoinsOf(TipAfterLookup(o), dbCoins) = TipContents
         /\ WellFlagged(TipAfterLookup(o), dbCoins)
         /\ ViewAfterLookup(o) \in CacheCoins
         /\ CoinsOf(ViewAfterLookup(o), TipContents) = ViewContents
         /\ WellFlagged(ViewAfterLookup(o), TipContents)
<1>1. TipContents \in Contents
  BY CoinsOfType DEF Inv, TypeOK, TipContents
<1>2. /\ ViewAfterLookup(o) \in CacheCoins
      /\ CoinsOf(ViewAfterLookup(o), TipContents) = ViewContents
      /\ WellFlagged(ViewAfterLookup(o), TipContents)
  BY <1>1, FetchCoinInvisible DEF Inv, TypeOK, ViewAfterLookup, ViewContents
<1>3. /\ FetchCoin(tipCoins, dbCoins, o) \in CacheCoins
      /\ CoinsOf(FetchCoin(tipCoins, dbCoins, o), dbCoins) = TipContents
      /\ WellFlagged(FetchCoin(tipCoins, dbCoins, o), dbCoins)
  BY FetchCoinInvisible DEF Inv, TypeOK, TipContents
<1> QED
  BY <1>2, <1>3 DEF Inv, TypeOK, TipAfterLookup, TipContents

\* Steps that only fetch or drop clean entries are stuttering steps of the
\* ledger: opening a view, lookups by the view and by the tip, uncaching.
LEMMA LookupSteps ==
  ASSUME Inv,
         \/ OpenView
         \/ \E o \in Outpoint : ViewHaveCoin(o) \/ TipHaveCoin(o) \/ TipUncache(o)
         \/ \E n \in Nullifier : ViewGetNullifier(n) \/ TipGetNullifier(n)
  PROVE  Inv' /\ UNCHANGED <<pendingBar, committedBar, durableBar>>
<1> USE DEF Inv, TypeOK, NoLogicError, TipContents, ViewContents,
            TipSpentNullifiers, ViewSpentNullifiers, pendingBar, committedBar,
            durableBar, dbVars, tipVars, viewVars
<1>1. TipContents \in Contents /\ TipSpentNullifiers \in SUBSET Nullifier
  BY CoinsOfType DEF NullifiersOf
<1>2. CASE OpenView
  BY <1>2 DEF OpenView
<1>3. ASSUME NEW o \in Outpoint, ViewHaveCoin(o)
      PROVE  Inv' /\ UNCHANGED <<pendingBar, committedBar, durableBar>>
  BY <1>3, LookupCorrect DEF ViewHaveCoin
<1>4. ASSUME NEW o \in Outpoint, TipHaveCoin(o)
      PROVE  Inv' /\ UNCHANGED <<pendingBar, committedBar, durableBar>>
  BY <1>4, FetchCoinInvisible DEF TipHaveCoin
<1>5. ASSUME NEW o \in Outpoint, TipUncache(o)
      PROVE  Inv' /\ UNCHANGED <<pendingBar, committedBar, durableBar>>
  BY <1>5, UncacheInvisible DEF TipUncache
<1>6. ASSUME NEW n \in Nullifier, ViewGetNullifier(n)
      PROVE  Inv' /\ UNCHANGED <<pendingBar, committedBar, durableBar>>
  <2>1. /\ tipNullifiers' \in CacheNullifiers
        /\ NullifiersOf(tipNullifiers', dbNullifiers) = TipSpentNullifiers
        /\ WellFlaggedNullifiers(tipNullifiers', dbNullifiers)
    BY <1>6, FetchNullifierInvisible DEF ViewGetNullifier
  <2>2. /\ viewNullifiers' \in CacheNullifiers
        /\ NullifiersOf(viewNullifiers', TipSpentNullifiers) = ViewSpentNullifiers
        /\ WellFlaggedNullifiers(viewNullifiers', TipSpentNullifiers)
    BY <1>1, <1>6, FetchNullifierInvisible DEF ViewGetNullifier
  <2> QED
    BY <1>6, <2>1, <2>2 DEF ViewGetNullifier
<1>7. ASSUME NEW n \in Nullifier, TipGetNullifier(n)
      PROVE  Inv' /\ UNCHANGED <<pendingBar, committedBar, durableBar>>
  BY <1>7, FetchNullifierInvisible DEF TipGetNullifier
<1> QED
  BY <1>2, <1>3, <1>4, <1>5, <1>6, <1>7

\* Steps of the view that change one coin are steps of the ledger: an output
\* added or restored is a Create, a spent one is a Spend.  None of them throws.
LEMMA CoinSteps ==
  ASSUME Inv, NEW o \in Outpoint, NEW v \in Coin \cup {Spent},
         \/ v \in Coin /\ (AddCoinbaseOutput(o, v) \/ AddOutput(o, v) \/ RestoreCoin(o, v))
         \/ v = Spent /\ ViewSpendCoin(o)
  PROVE  /\ Inv'
         /\ pendingBar' = [pendingBar EXCEPT !.coins[o] = v]
         /\ UNCHANGED <<committedBar, durableBar>>
<1> USE DEF Inv, TypeOK, NoLogicError, dbVars, tipVars, viewVars
<1> DEFINE Correct ==
      /\ tipCoins' \in CacheCoins
      /\ CoinsOf(tipCoins', dbCoins) = TipContents
      /\ WellFlagged(tipCoins', dbCoins)
      /\ viewCoins' \in CacheCoins
      /\ CoinsOf(viewCoins', TipContents) = Replaced(ViewContents, o, v)
      /\ WellFlagged(viewCoins', TipContents)
      /\ UNCHANGED <<dbVars, tipNullifiers, viewNullifiers, open, thrown>>
<1>1. TipContents \in Contents /\ ViewContents \in Contents
  BY CoinsOfType DEF TipContents, ViewContents
<1>2. ASSUME v \in Coin, AddCoinbaseOutput(o, v)
      PROVE  Correct
  <2>1. viewCoins' = AddCoin(viewCoins, o, v, TRUE)
    BY <1>2 DEF AddCoinbaseOutput
  <2>2. /\ viewCoins' \in CacheCoins
        /\ CoinsOf(viewCoins', TipContents) = Replaced(ViewContents, o, v)
        /\ WellFlagged(viewCoins', TipContents)
    BY <1>1, <1>2, <2>1, AddCoinReplaces DEF ViewContents
  <2> QED
    BY <1>2, <2>2 DEF AddCoinbaseOutput, TipContents
<1>3. ASSUME v \in Coin, AddOutput(o, v)
      PROVE  Correct
  <2>1. ~AddCoinThrows(viewCoins, o, FALSE)
    BY <1>1, <1>3, AddCoinReplaces DEF AddOutput, ViewContents
  <2>2. ViewContents[o] = Spent /\ viewCoins' = AddCoin(viewCoins, o, v, FALSE)
    BY <1>3, <2>1 DEF AddOutput
  <2>3. /\ viewCoins' \in CacheCoins
        /\ CoinsOf(viewCoins', TipContents) = Replaced(ViewContents, o, v)
        /\ WellFlagged(viewCoins', TipContents)
    BY <1>1, <1>3, <2>2, AddCoinReplaces DEF ViewContents
  <2> QED
    BY <1>3, <2>1, <2>3 DEF AddOutput, TipContents
<1>4. ASSUME v \in Coin, RestoreCoin(o, v)
      PROVE  Correct
  <2> DEFINE have == ViewContents[o] # Spent
             fetched == ViewAfterLookup(o)
  <2>1. /\ fetched \in CacheCoins /\ WellFlagged(fetched, TipContents)
        /\ CoinsOf(fetched, TipContents) = ViewContents
    BY LookupCorrect
  <2>2. have \in BOOLEAN /\ (have \/ CoinsOf(fetched, TipContents)[o] = Spent)
    BY <2>1
  <2>3. /\ ~AddCoinThrows(fetched, o, have)
        /\ AddCoin(fetched, o, v, have) \in CacheCoins
        /\ CoinsOf(AddCoin(fetched, o, v, have), TipContents)
             = Replaced(ViewContents, o, v)
        /\ WellFlagged(AddCoin(fetched, o, v, have), TipContents)
    <3> HIDE DEF have, fetched
    <3> QED
      BY <1>1, <1>4, <2>1, <2>2, AddCoinReplaces
  <2>4. viewCoins' = AddCoin(fetched, o, v, have) /\ tipCoins' = TipAfterLookup(o)
        /\ UNCHANGED <<dbVars, tipNullifiers, viewNullifiers, open, thrown>>
    BY <1>4, <2>3 DEF RestoreCoin
  <2> QED
    BY <2>3, <2>4, LookupCorrect
<1>5. ASSUME v = Spent, ViewSpendCoin(o)
      PROVE  Correct
  BY <1>1, <1>5, LookupCorrect, SpendCoinEmpties DEF ViewSpendCoin, ViewContents
<1>6. Correct
  BY <1>2, <1>3, <1>4, <1>5
<1>7. Replaced(ViewContents, o, v) = [ViewContents EXCEPT ![o] = v]
  BY <1>1 DEF Replaced, Contents
<1>8. /\ TipContents' = TipContents
      /\ ViewContents' = [ViewContents EXCEPT ![o] = v]
      /\ TipSpentNullifiers' = TipSpentNullifiers
      /\ ViewSpentNullifiers' = ViewSpentNullifiers
  <2>1. TipContents' = TipContents
    BY <1>6 DEF TipContents
  <2>2. ViewContents' = CoinsOf(viewCoins', TipContents)
    BY <2>1 DEF ViewContents
  <2>3. TipSpentNullifiers' = TipSpentNullifiers
        /\ ViewSpentNullifiers' = ViewSpentNullifiers
    BY <1>6 DEF TipSpentNullifiers, ViewSpentNullifiers
  <2> QED
    BY <1>6, <1>7, <2>1, <2>2, <2>3
<1>9. Inv'
  BY <1>6, <1>8
<1>10. pendingBar' = [pendingBar EXCEPT !.coins[o] = v]
  BY <1>8 DEF pendingBar
<1>11. UNCHANGED <<committedBar, durableBar>>
  BY <1>6, <1>8 DEF committedBar, durableBar
<1> QED
  BY <1>9, <1>10, <1>11

\* SetNullifiers on the view is a Reveal or a Conceal.
LEMMA NullifierSteps ==
  ASSUME Inv, NEW n \in Nullifier, NEW spent \in BOOLEAN,
         ViewSetNullifier(n, spent)
  PROVE  /\ Inv'
         /\ pendingBar' = [pendingBar EXCEPT !.nfs = IF spent THEN @ \cup {n}
                                                              ELSE @ \ {n}]
         /\ UNCHANGED <<committedBar, durableBar>>
<1> USE DEF Inv, TypeOK, NoLogicError, dbVars, tipVars, viewVars
<1>1. TipSpentNullifiers \in SUBSET Nullifier
  BY DEF TipSpentNullifiers, NullifiersOf
<1>2. UNCHANGED <<dbVars, tipVars, viewCoins, open, thrown>>
      /\ viewNullifiers' = SetNullifier(viewNullifiers, n, spent)
  BY DEF ViewSetNullifier
<1>3. /\ TipContents' = TipContents /\ ViewContents' = ViewContents
      /\ TipSpentNullifiers' = TipSpentNullifiers
  BY <1>2 DEF TipContents, ViewContents, TipSpentNullifiers
<1>4. /\ viewNullifiers' \in CacheNullifiers
      /\ NullifiersOf(viewNullifiers', TipSpentNullifiers)
           = IF spent THEN ViewSpentNullifiers \cup {n} ELSE ViewSpentNullifiers \ {n}
      /\ WellFlaggedNullifiers(viewNullifiers', TipSpentNullifiers)
  BY <1>1, <1>2, SetNullifierReplaces DEF ViewSpentNullifiers
<1>5. ViewSpentNullifiers' = NullifiersOf(viewNullifiers', TipSpentNullifiers)
  BY <1>3 DEF ViewSpentNullifiers
<1>6. Inv'
  BY <1>2, <1>3, <1>4
<1>7. UNCHANGED <<committedBar, durableBar>>
  BY <1>2, <1>3 DEF committedBar, durableBar
<1>8. pendingBar' = [pendingBar EXCEPT !.nfs = IF spent THEN @ \cup {n} ELSE @ \ {n}]
  BY <1>3, <1>4, <1>5 DEF pendingBar
<1> QED
  BY <1>6, <1>7, <1>8

\* view.Flush() commits the whole of the pending state and does not throw.
LEMMA FlushViewStep ==
  ASSUME Inv, FlushView
  PROVE  Inv' /\ committedBar' = pendingBar /\ UNCHANGED <<pendingBar, durableBar>>
<1> USE DEF Inv, TypeOK, NoLogicError, dbVars, tipVars, viewVars
<1>1. /\ BatchWriteCoins(viewCoins, tipCoins) \in CacheCoins
      /\ CoinsOf(BatchWriteCoins(viewCoins, tipCoins), dbCoins) = ViewContents
      /\ WellFlagged(BatchWriteCoins(viewCoins, tipCoins), dbCoins)
      /\ \A o \in Outpoint : ~FreshMisapplied(viewCoins[o], tipCoins[o])
  BY BatchWriteCorrect DEF TipContents, ViewContents
<1>2. /\ BatchWriteNullifiers(viewNullifiers, tipNullifiers) \in CacheNullifiers
      /\ NullifiersOf(BatchWriteNullifiers(viewNullifiers, tipNullifiers), dbNullifiers)
           = ViewSpentNullifiers
      /\ WellFlaggedNullifiers(BatchWriteNullifiers(viewNullifiers, tipNullifiers),
                               dbNullifiers)
  BY BatchWriteNullifiersCorrect DEF TipSpentNullifiers, ViewSpentNullifiers
<1>3. /\ tipCoins' = BatchWriteCoins(viewCoins, tipCoins)
      /\ tipNullifiers' = BatchWriteNullifiers(viewNullifiers, tipNullifiers)
      /\ viewCoins' = EmptyCoins /\ viewNullifiers' = EmptyNullifiers
      /\ open' = FALSE /\ UNCHANGED <<dbVars, thrown>>
  BY <1>1 DEF FlushView
<1>4. TipContents' = ViewContents /\ TipSpentNullifiers' = ViewSpentNullifiers
  BY <1>1, <1>2, <1>3 DEF TipContents, TipSpentNullifiers
<1>5. ViewContents \in Contents /\ ViewSpentNullifiers \in SUBSET Nullifier
  BY CoinsOfType DEF TipContents, ViewContents, ViewSpentNullifiers, NullifiersOf
<1>6. ViewContents' = ViewContents /\ ViewSpentNullifiers' = ViewSpentNullifiers
  BY <1>3, <1>4, <1>5, EmptyCoinsTransparent, EmptyNullifiersTransparent
  DEF ViewContents, ViewSpentNullifiers
<1>7. Inv'
  BY <1>1, <1>2, <1>3, <1>4, <1>5, EmptyCoinsTransparent, EmptyNullifiersTransparent
<1> QED
  BY <1>3, <1>4, <1>6, <1>7 DEF pendingBar, committedBar, durableBar

\* A view that goes out of scope abandons the pending state.
LEMMA DropViewStep ==
  ASSUME Inv, DropView
  PROVE  Inv' /\ pendingBar' = committedBar /\ UNCHANGED <<committedBar, durableBar>>
<1> USE DEF Inv, TypeOK, NoLogicError, dbVars, tipVars, viewVars
<1>1. /\ viewCoins' = EmptyCoins /\ viewNullifiers' = EmptyNullifiers
      /\ open' = FALSE /\ UNCHANGED <<dbVars, tipVars, thrown>>
  BY DEF DropView
<1>2. /\ TipContents' = TipContents /\ TipSpentNullifiers' = TipSpentNullifiers
      /\ TipContents \in Contents /\ TipSpentNullifiers \in SUBSET Nullifier
  BY <1>1, CoinsOfType DEF TipContents, TipSpentNullifiers, NullifiersOf
<1>3. ViewContents' = TipContents /\ ViewSpentNullifiers' = TipSpentNullifiers
  BY <1>1, <1>2, EmptyCoinsTransparent, EmptyNullifiersTransparent
  DEF ViewContents, ViewSpentNullifiers
<1>4. Inv'
  BY <1>1, <1>2, EmptyCoinsTransparent, EmptyNullifiersTransparent
<1> QED
  BY <1>1, <1>2, <1>3, <1>4 DEF pendingBar, committedBar, durableBar

\* Flush and Sync of the tip's cache make exactly the committed state durable.
LEMMA PersistSteps ==
  ASSUME Inv, FlushTip \/ SyncTip
  PROVE  Inv' /\ durableBar' = committedBar /\ UNCHANGED <<pendingBar, committedBar>>
<1> USE DEF Inv, TypeOK, NoLogicError, dbVars, tipVars, viewVars
<1>1. /\ dbCoins' = WriteCoins(tipCoins, dbCoins, Outpoint)
      /\ dbNullifiers' = WriteNullifiers(tipNullifiers, dbNullifiers)
      /\ tipCoins' = EmptyCoins \/ tipCoins' = SyncedCoins(tipCoins)
      /\ tipNullifiers' = EmptyNullifiers
      /\ UNCHANGED <<viewVars, open, thrown>>
  BY DEF FlushTip, SyncTip
<1>2. dbCoins' = TipContents /\ dbNullifiers' = TipSpentNullifiers
  BY <1>1, WriteCoinsCorrect, WriteNullifiersCorrect DEF TipContents, TipSpentNullifiers
<1>3. TipContents \in Contents /\ TipSpentNullifiers \in SUBSET Nullifier
  BY CoinsOfType DEF TipContents, TipSpentNullifiers, NullifiersOf
<1>4. /\ tipCoins' \in CacheCoins
      /\ CoinsOf(tipCoins', TipContents) = TipContents
      /\ WellFlagged(tipCoins', TipContents)
  <2>1. CASE tipCoins' = EmptyCoins
    BY <1>3, <2>1, EmptyCoinsTransparent
  <2>2. CASE tipCoins' = SyncedCoins(tipCoins)
    BY <2>2, SyncedCoinsCorrect DEF TipContents
  <2> QED
    BY <1>1, <2>1, <2>2
<1>5. /\ tipNullifiers' \in CacheNullifiers
      /\ NullifiersOf(tipNullifiers', TipSpentNullifiers) = TipSpentNullifiers
      /\ WellFlaggedNullifiers(tipNullifiers', TipSpentNullifiers)
  BY <1>1, <1>3, EmptyNullifiersTransparent
<1>6. TipContents' = TipContents /\ TipSpentNullifiers' = TipSpentNullifiers
  <2>1. TipContents' = CoinsOf(tipCoins', dbCoins')
        /\ TipSpentNullifiers' = NullifiersOf(tipNullifiers', dbNullifiers')
    BY DEF TipContents, TipSpentNullifiers
  <2> QED
    BY <1>2, <1>4, <1>5, <2>1
<1>7. ViewContents' = ViewContents /\ ViewSpentNullifiers' = ViewSpentNullifiers
  BY <1>1, <1>6 DEF ViewContents, ViewSpentNullifiers
<1>8. Inv'
  BY <1>1, <1>2, <1>3, <1>4, <1>5, <1>6
<1> QED
  BY <1>2, <1>6, <1>7, <1>8 DEF pendingBar, committedBar, durableBar

-----------------------------------------------------------------------------
(* The theorems.                                                           *)

\* Every step keeps the invariant and is a step of the ledger or a stutter.
LEMMA StepCorrect ==
  ASSUME Inv, [Next]_vars
  PROVE  Inv' /\ [Ledger!Next]_<<pendingBar, committedBar, durableBar>>
<1> DEFINE Goal == Inv' /\ [Ledger!Next]_<<pendingBar, committedBar, durableBar>>
<1>1. CASE UNCHANGED vars
  BY <1>1 DEF Inv, TypeOK, NoLogicError, vars, dbVars, tipVars, viewVars,
              TipContents, ViewContents, TipSpentNullifiers, ViewSpentNullifiers,
              pendingBar, committedBar, durableBar
<1>2. CASE \/ OpenView
           \/ \E o \in Outpoint : ViewHaveCoin(o) \/ TipHaveCoin(o) \/ TipUncache(o)
           \/ \E n \in Nullifier : ViewGetNullifier(n) \/ TipGetNullifier(n)
  BY <1>2, LookupSteps
<1>3. ASSUME NEW o \in Outpoint, NEW c \in Coin,
             AddCoinbaseOutput(o, c) \/ AddOutput(o, c) \/ RestoreCoin(o, c)
      PROVE  Goal
  <2>1. Inv' /\ pendingBar' = [pendingBar EXCEPT !.coins[o] = c]
        /\ UNCHANGED <<committedBar, durableBar>>
    BY <1>3, CoinSteps
  <2>2. Ledger!Create(o, c)
    BY <2>1 DEF Ledger!Create, pendingBar, committedBar, durableBar
  <2> QED
    BY <2>1, <2>2 DEF Ledger!Next
<1>4. ASSUME NEW o \in Outpoint, ViewSpendCoin(o)
      PROVE  Goal
  <2>1. Inv' /\ pendingBar' = [pendingBar EXCEPT !.coins[o] = Spent]
        /\ UNCHANGED <<committedBar, durableBar>>
    BY <1>4, CoinSteps
  <2>2. Ledger!Spend(o)
    BY <2>1 DEF Ledger!Spend, pendingBar, committedBar, durableBar
  <2> QED
    BY <2>1, <2>2 DEF Ledger!Next
<1>5. ASSUME NEW n \in Nullifier, NEW spent \in BOOLEAN, ViewSetNullifier(n, spent)
      PROVE  Goal
  <2>1. /\ Inv'
        /\ pendingBar' = [pendingBar EXCEPT !.nfs = IF spent THEN @ \cup {n} ELSE @ \ {n}]
        /\ UNCHANGED <<committedBar, durableBar>>
    BY <1>5, NullifierSteps
  <2>2. Ledger!Reveal(n) \/ Ledger!Conceal(n)
    BY <2>1 DEF Ledger!Reveal, Ledger!Conceal, pendingBar, committedBar, durableBar
  <2> QED
    BY <2>1, <2>2 DEF Ledger!Next
<1>6. CASE FlushView
  <2>1. Inv' /\ Ledger!Commit
    BY <1>6, FlushViewStep DEF Ledger!Commit, pendingBar, committedBar, durableBar
  <2> QED
    BY <2>1 DEF Ledger!Next
<1>7. CASE DropView
  <2>1. Inv' /\ Ledger!Abandon
    BY <1>7, DropViewStep DEF Ledger!Abandon, pendingBar, committedBar, durableBar
  <2> QED
    BY <2>1 DEF Ledger!Next
<1>8. CASE FlushTip \/ SyncTip
  <2>1. Inv' /\ Ledger!Persist
    BY <1>8, PersistSteps DEF Ledger!Persist, pendingBar, committedBar, durableBar
  <2> QED
    BY <2>1 DEF Ledger!Next
<1> QED
  BY <1>1, <1>2, <1>3, <1>4, <1>5, <1>6, <1>7, <1>8 DEF Next, ViewStep, TipStep

\* The inductive invariant holds in every reachable state.
THEOREM Invariance == Spec => []Inv
<1>1. Init => Inv
  BY InitCorrect
<1>2. Inv /\ [Next]_vars => Inv'
  BY StepCorrect
<1> QED
  BY <1>1, <1>2, PTL DEF Spec

\* The maps of all levels keep their types.
THEOREM TypeCorrect == Spec => []TypeOK
<1>1. Inv => TypeOK
  BY DEF Inv
<1> QED
  BY <1>1, Invariance, PTL

\* SanityCheck's assertion on the flags never fails, in either cache.
THEOREM SanityCheckHolds == Spec => []SanityCheck
<1>1. Inv => SanityCheck
  BY DEF Inv, SanityCheck, WellFlagged
<1> QED
  BY <1>1, Invariance, PTL

\* The DIRTY and FRESH flags of every level are true of the level below.
THEOREM FlagsAreCoherent == Spec => []FlagsCoherent
<1>1. Inv => FlagsCoherent
  BY DEF Inv, FlagsCoherent, WellFlagged, WellFlaggedNullifiers
<1> QED
  BY <1>1, Invariance, PTL

\* Neither std::logic_error of coins.cpp is ever thrown.
THEOREM NeverThrows == Spec => []NoLogicError
<1>1. Inv => NoLogicError
  BY DEF Inv
<1> QED
  BY <1>1, Invariance, PTL

\* The stack of caches implements the plain ledger.
THEOREM CachesImplementLedger == Spec => ImplementsLedger
<1>1. Init => Ledger!Init
  BY InitCorrect
<1>2. Inv /\ [Next]_vars => [Ledger!Next]_(Ledger!ledgerVars)
  BY StepCorrect DEF Ledger!ledgerVars, pendingBar, committedBar, durableBar
<1> QED
  BY <1>1, <1>2, Invariance, PTL DEF Spec, ImplementsLedger, Ledger!Spec

=============================================================================
