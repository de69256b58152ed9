-------------------------------- MODULE EvoDB -------------------------------
(***************************************************************************)
(* CEvoDB (evo/evodb.cpp, evo/evodb.h): the database of masternode,        *)
(* quorum and credit-pool state.  Two transaction layers lie over LevelDB: *)
(* the current one belongs to the block being connected or disconnected,   *)
(* the root one to everything since the last flush of the chainstate.      *)
(*                                                                         *)
(* CCreditPoolManager::AddToCache writes the snapshot of a block whose     *)
(* pool it computes, and CMNHFManager::AddToCache the signals of a block   *)
(* that it computes.  GetCreditPool and GetSignalsStage are also called    *)
(* where no transaction is open: SnapshotKey are the keys they may write.  *)
(* It only happens where DEPLOYMENT_V20 is active, which main never is:    *)
(* SnapshotKey = {} is main.                                               *)
(***************************************************************************)
EXTENDS CDBTransaction

CONSTANT SnapshotKey

ASSUME SnapshotAssumption == SnapshotKey \subseteq Key

VARIABLES db,      \* what LevelDB holds
          root,    \* rootDBTransaction
          cur,     \* curDBTransaction
          scope,   \* a CEvoDBScopedCommitter is alive (cs_main is held)
          aborted  \* an assertion has failed

vars == <<db, root, cur, scope, aborted>>

TypeOK ==
  /\ db \in Map
  /\ root \in Layer
  /\ cur \in Layer
  /\ scope \in BOOLEAN
  /\ aborted \in BOOLEAN

Init ==
  /\ db = [k \in Key |-> NoValue]
  /\ root = Clear
  /\ cur = Clear
  /\ scope = FALSE
  /\ aborted = FALSE

BeginTransaction ==
  /\ ~aborted /\ ~scope
  /\ scope' = TRUE
  /\ UNCHANGED <<db, root, cur, aborted>>

EvoWrite(k, v) ==
  /\ ~aborted /\ scope
  /\ cur' = Write(cur, k, v)
  /\ UNCHANGED <<db, root, scope, aborted>>

EvoErase(k) ==
  /\ ~aborted /\ scope
  /\ cur' = Erase(cur, k)
  /\ UNCHANGED <<db, root, scope, aborted>>

\* CEvoDBScopedCommitter::Commit
CommitCurTransaction ==
  /\ ~aborted /\ scope
  /\ root' = Commit(cur, root)
  /\ cur' = Clear
  /\ scope' = FALSE
  /\ UNCHANGED <<db, aborted>>

\* Faulty variant: the destructor of the scope does not roll back.
LeaveWithoutRollback ==
  /\ ~aborted /\ scope
  /\ scope' = FALSE
  /\ UNCHANGED <<db, root, cur, aborted>>

\* CEvoDBScopedCommitter::Rollback, or its destructor without a Commit.
RollbackCurTransaction ==
  /\ ~aborted /\ scope
  /\ cur' = Clear
  /\ scope' = FALSE
  /\ UNCHANGED <<db, root, aborted>>

CommitRootTransaction ==
  /\ ~aborted /\ ~scope
  /\ IF IsClean(cur)
     THEN /\ db' = CommitToBatch(root, db)
          /\ root' = Clear
          /\ UNCHANGED <<cur, scope, aborted>>
     ELSE /\ aborted' = TRUE
          /\ UNCHANGED <<db, root, cur, scope>>

\* The AddToCache of the credit pool or of the MnEHF signals outside any
\* transaction, when the block's snapshot is not stored yet.
AddToCache(k, v) ==
  /\ ~aborted /\ ~scope
  /\ Read(cur, Read(root, db))[k] = NoValue
  /\ cur' = Write(cur, k, v)
  /\ UNCHANGED <<db, root, scope, aborted>>

\* The process ends, at any point, and starts again.
Restart ==
  /\ root' = Clear
  /\ cur' = Clear
  /\ scope' = FALSE
  /\ aborted' = FALSE
  /\ UNCHANGED db

Next ==
  \/ BeginTransaction
  \/ \E k \in Key, v \in Value : EvoWrite(k, v)
  \/ \E k \in Key : EvoErase(k)
  \/ CommitCurTransaction
  \/ RollbackCurTransaction
  \/ CommitRootTransaction
  \/ \E k \in SnapshotKey, v \in Value : AddToCache(k, v)
  \/ Restart

Spec == Init /\ [][Next]_vars

(***************************************************************************)
(* Properties                                                              *)
(***************************************************************************)

\* The two layers behave as one map with commit, rollback and flush: what is
\* read through them, what a rollback goes back to and what LevelDB holds
\* change only as TransactionalStore lets them.
Store == INSTANCE TransactionalStore
           WITH disk <- db, committed <- Read(root, db),
                current <- Read(cur, Read(root, db))

ImplementsStore == Store!Spec

\* memoryUsage, which decides when the chainstate is flushed, is exactly
\* what the entries of the layer take, through overwrites, erasures and
\* commits of one layer into the other; so it is never the negative number
\* GetMemoryUsage is prepared for.
MemoryUsageExact ==
  \A t \in {root, cur} :
    t.memoryUsage = MapThenSumSet(LAMBDA k : WriteUsage(t, k) + DeleteUsage(t, k), Key)

\* An iterator of the current transaction, whose parent is an iterator of the
\* root one, whose parent is LevelDB's, goes from any key through exactly the
\* keys for which Exists holds, each once and in order.
IterationExact ==
  \A key \in Key :
    LET stored == Ascending({k \in Key : k >= key /\ db[k] # NoValue})
    IN Iterate(cur, Iterate(root, stored, key), key)
         = Ascending({k \in Key : k >= key /\ Exists(cur, Read(root, db), k)})

\* CommitRootTransaction asserts that the current transaction holds nothing.
\* When a flush stops the node there, what it found is a snapshot written
\* outside any transaction, and nothing else: no block leaves changes behind.
\* Where no such snapshot is ever written the assertion holds.
AbortsOnlyOnSnapshots ==
  aborted => Pending(cur) # {} /\ Pending(cur) \subseteq SnapshotKey
=============================================================================
