----------------------------- MODULE EvoDBProofs ----------------------------
(***************************************************************************)
(* The two transaction layers of CEvoDB implement TransactionalStore,      *)
(* whatever the keys, the values and their sizes.  What memoryUsage sums   *)
(* up to is not used, and not proved.                                      *)
(***************************************************************************)
EXTENDS EvoDB, TLAPS

\* A layer without what it says of its memory.
WellFormed(t) ==
  /\ t = [writes |-> t.writes, deletes |-> t.deletes, memoryUsage |-> t.memoryUsage]
  /\ t.writes \in Map
  /\ t.deletes \subseteq Key
  /\ Written(t) \cap t.deletes = {}

\* An empty layer is well formed and shows its parent as it is.
LEMMA ClearLayer ==
  /\ WellFormed(Clear)
  /\ IsClean(Clear)
  /\ \A p \in Map : Read(Clear, p) = p
<1>1. Written(Clear) = {} /\ Clear.deletes = {}
  BY DEF Written, Clear
<1>2. WellFormed(Clear)
  BY <1>1 DEF WellFormed, Clear, Map
<1>3. ASSUME NEW p \in Map PROVE Read(Clear, p) = p
  BY <1>1 DEF Read, Map
<1> QED BY <1>1, <1>2, <1>3 DEF IsClean, Pending

\* What is read through a layer is a map.
LEMMA ReadMap ==
  ASSUME NEW t, WellFormed(t), NEW p \in Map
  PROVE  Read(t, p) \in Map
BY DEF Read, WellFormed, Written, Map

\* After Write the key has the value and the others what they had.
LEMMA WriteLayer ==
  ASSUME NEW t, WellFormed(t), NEW k \in Key, NEW v \in Value, NEW p \in Map
  PROVE  /\ WellFormed(Write(t, k, v))
         /\ Read(Write(t, k, v), p) = [Read(t, p) EXCEPT ![k] = v]
<1> DEFINE u == Write(t, k, v)
<1>1. u = [writes |-> [t.writes EXCEPT ![k] = v], deletes |-> t.deletes \ {k},
           memoryUsage |-> u.memoryUsage]
  BY DEF Write
<1> HIDE DEF u
<1>2. Written(u) = Written(t) \cup {k}
  BY <1>1, KeyAssumption DEF Written, WellFormed, Map
<1>3. WellFormed(u)
  BY <1>1, <1>2 DEF WellFormed, Map
<1>4. Read(u, p) = [Read(t, p) EXCEPT ![k] = v]
  <2>1. Read(t, p) = [j \in Key |-> Read(t, p)[j]]
    BY DEF Read
  <2>2. ASSUME NEW j \in Key PROVE Read(u, p)[j] = IF j = k THEN v ELSE Read(t, p)[j]
    BY <1>1, <1>2 DEF Read, WellFormed, Map
  <2>3. Read(u, p) = [j \in Key |-> IF j = k THEN v ELSE Read(t, p)[j]]
    BY <2>2 DEF Read
  <2> QED BY <2>1, <2>3
<1> QED BY <1>3, <1>4 DEF u

\* After Erase the key has no value and the others what they had.
LEMMA EraseLayer ==
  ASSUME NEW t, WellFormed(t), NEW k \in Key, NEW p \in Map
  PROVE  /\ WellFormed(Erase(t, k))
         /\ Read(Erase(t, k), p) = [Read(t, p) EXCEPT ![k] = NoValue]
<1> DEFINE u == Erase(t, k)
<1>1. u = [writes |-> [t.writes EXCEPT ![k] = NoValue], deletes |-> t.deletes \cup {k},
           memoryUsage |-> u.memoryUsage]
  BY DEF Erase
<1> HIDE DEF u
<1>2. Written(u) = Written(t) \ {k}
  BY <1>1 DEF Written, WellFormed, Map
<1>3. WellFormed(u)
  BY <1>1, <1>2 DEF WellFormed, Map
<1>4. Read(u, p) = [Read(t, p) EXCEPT ![k] = NoValue]
  <2>1. Read(t, p) = [j \in Key |-> Read(t, p)[j]]
    BY DEF Read
  <2>2. ASSUME NEW j \in Key PROVE Read(u, p)[j] = IF j = k THEN NoValue ELSE Read(t, p)[j]
    BY <1>1, <1>2 DEF Read, WellFormed, Map
  <2>3. Read(u, p) = [j \in Key |-> IF j = k THEN NoValue ELSE Read(t, p)[j]]
    BY <2>2 DEF Read
  <2> QED BY <2>1, <2>3
<1> QED BY <1>3, <1>4 DEF u

\* Committing one layer into the one below leaves what is read through both.
LEMMA CommitLayer ==
  ASSUME NEW t, WellFormed(t), NEW below, WellFormed(below), NEW p \in Map
  PROVE  /\ WellFormed(Commit(t, below))
         /\ Read(Commit(t, below), p) = Read(t, Read(below, p))
<1> DEFINE e == EraseAll(below, t.deletes)
           u == Commit(t, below)
<1>1. /\ e.writes = [k \in Key |-> IF k \in t.deletes THEN NoValue ELSE below.writes[k]]
      /\ e.deletes = below.deletes \cup t.deletes
  BY DEF EraseAll
<1>2. u = [writes |-> [k \in Key |-> IF k \in Written(t) THEN t.writes[k] ELSE e.writes[k]],
           deletes |-> e.deletes \ Written(t), memoryUsage |-> u.memoryUsage]
  BY DEF Commit, WriteAll
<1> HIDE DEF e, u
<1>3. Written(u) = Written(t) \cup (Written(below) \ t.deletes)
  BY <1>1, <1>2 DEF Written, WellFormed, Map
<1>4. WellFormed(u)
  BY <1>1, <1>2, <1>3 DEF WellFormed, Written, Map
<1>5. Read(u, p) = Read(t, Read(below, p))
  BY <1>1, <1>2, <1>3 DEF Read, WellFormed, Written, Map
<1> QED BY <1>4, <1>5 DEF u

\* Committing a layer to the database leaves what is read through the layer.
LEMMA CommitToDb ==
  ASSUME NEW t, WellFormed(t), NEW p \in Map
  PROVE  CommitToBatch(t, p) = Read(t, p)
BY DEF CommitToBatch, Read, WellFormed, Written, Map

\* The inductive invariant.
IInv ==
  /\ db \in Map
  /\ WellFormed(root)
  /\ WellFormed(cur)

\* IInv holds from the start and every step keeps it.
THEOREM Invariance == Spec => []IInv
<1>1. Init => IInv
  BY ClearLayer DEF Init, IInv, Map
<1>2. IInv /\ [Next]_vars => IInv'
  <2> SUFFICES ASSUME IInv, [Next]_vars PROVE IInv'
    OBVIOUS
  <2> USE DEF IInv
  <2>1. CASE BeginTransaction BY <2>1 DEF BeginTransaction
  <2>2. ASSUME NEW k \in Key, NEW v \in Value, EvoWrite(k, v) PROVE IInv'
    BY <2>2, WriteLayer DEF EvoWrite
  <2>3. ASSUME NEW k \in Key, EvoErase(k) PROVE IInv'
    BY <2>3, EraseLayer DEF EvoErase
  <2>4. CASE CommitCurTransaction
    BY <2>4, CommitLayer, ClearLayer DEF CommitCurTransaction
  <2>5. CASE RollbackCurTransaction
    BY <2>5, ClearLayer DEF RollbackCurTransaction
  <2>6. CASE CommitRootTransaction
    BY <2>6, CommitToDb, ReadMap, ClearLayer DEF CommitRootTransaction
  <2>7. ASSUME NEW k \in SnapshotKey, NEW v \in Value, AddToCache(k, v) PROVE IInv'
    BY <2>7, WriteLayer, SnapshotAssumption DEF AddToCache
  <2>8. CASE Restart BY <2>8, ClearLayer DEF Restart
  <2>9. CASE UNCHANGED vars BY <2>9 DEF vars
  <2> QED BY <2>1, <2>2, <2>3, <2>4, <2>5, <2>6, <2>7, <2>8, <2>9 DEF Next
<1> QED BY <1>1, <1>2, PTL DEF Spec

\* CEvoDB implements the map with commit, rollback and flush: a step of the
\* layers is a step of the store or leaves it as it is, for any keys and
\* values, with restarts at any point and snapshots written outside a scope.
THEOREM EvoDBImplementsStore == Spec => ImplementsStore
<1> DEFINE c == Read(root, db)
           x == Read(cur, c)
<1>1. Init => Store!Init
  BY ClearLayer DEF Init, Store!Init, Map
<1>2. IInv /\ [Next]_vars => [Store!Next]_(Store!vars)
  <2> SUFFICES ASSUME IInv, [Next]_vars PROVE [Store!Next]_(Store!vars)
    OBVIOUS
  <2>0. db \in Map /\ c \in Map /\ x \in Map
    BY ReadMap DEF IInv
  <2>1. CASE BeginTransaction
    BY <2>1 DEF BeginTransaction, Store!vars
  <2>2. ASSUME NEW k \in Key, NEW v \in Value, EvoWrite(k, v) PROVE Store!Next
    <3>1. Store!Set(k, v)
      BY <2>0, <2>2, WriteLayer DEF EvoWrite, IInv, Store!Set
    <3> QED BY <3>1 DEF Store!Next
  <2>3. ASSUME NEW k \in Key, EvoErase(k) PROVE Store!Next
    <3>1. Store!Set(k, NoValue)
      BY <2>0, <2>3, EraseLayer DEF EvoErase, IInv, Store!Set
    <3> QED BY <3>1 DEF Store!Next
  <2>4. CASE CommitCurTransaction
    <3>1. c' = x /\ x' = c'
      <4>1. c' = x
        BY <2>4, CommitLayer DEF CommitCurTransaction, IInv
      <4>2. x' = c'
        BY <2>4, <2>0, <4>1, ClearLayer DEF CommitCurTransaction
      <4> QED BY <4>1, <4>2
    <3>2. Store!Commit
      BY <2>4, <3>1 DEF CommitCurTransaction, Store!Commit
    <3> QED BY <3>2 DEF Store!Next
  <2>5. CASE RollbackCurTransaction
    <3>1. Store!Rollback
      BY <2>5, <2>0, ClearLayer DEF RollbackCurTransaction, Store!Rollback
    <3> QED BY <3>1 DEF Store!Next
  <2>6. CASE CommitRootTransaction
    <3>1. CASE IsClean(cur)
      <4>1. db' = c
        BY <2>6, <3>1, CommitToDb DEF CommitRootTransaction, IInv
      <4>2. c' = c
        BY <2>6, <3>1, <2>0, <4>1, ClearLayer DEF CommitRootTransaction
      <4>3. x' = x
        BY <2>6, <3>1, <4>2 DEF CommitRootTransaction
      <4>4. Store!Flush
        BY <4>1, <4>2, <4>3 DEF Store!Flush
      <4> QED BY <4>4 DEF Store!Next
    <3>2. CASE ~IsClean(cur)
      BY <2>6, <3>2 DEF CommitRootTransaction, Store!vars
    <3> QED BY <3>1, <3>2
  <2>7. ASSUME NEW k \in SnapshotKey, NEW v \in Value, AddToCache(k, v) PROVE Store!Next
    <3>1. k \in Key
      BY SnapshotAssumption
    <3>2. Store!Set(k, v)
      BY <2>0, <2>7, <3>1, WriteLayer DEF AddToCache, IInv, Store!Set
    <3> QED BY <3>1, <3>2 DEF Store!Next
  <2>8. CASE Restart
    <3>1. Store!Restart
      BY <2>8, <2>0, ClearLayer DEF Restart, Store!Restart
    <3> QED BY <3>1 DEF Store!Next
  <2>9. CASE UNCHANGED vars
    BY <2>9 DEF vars, Store!vars
  <2> QED BY <2>1, <2>2, <2>3, <2>4, <2>5, <2>6, <2>7, <2>8, <2>9 DEF Next
<1> QED BY <1>1, <1>2, Invariance, PTL DEF Spec, ImplementsStore, Store!Spec

\* Between transactions the current layer holds snapshots at most, so these
\* are all that CommitRootTransaction's assertion can ever find.
THEOREM FlushesFindOnlySnapshots == Spec => []AbortsOnlyOnSnapshots
<1> DEFINE Inv == /\ ~scope => Pending(cur) \subseteq SnapshotKey
                  /\ aborted => ~scope /\ Pending(cur) # {}
<1>1. Pending(Clear) = {}
  BY ClearLayer DEF IsClean
<1>2. Init => Inv
  BY <1>1 DEF Init
<1>3. IInv /\ Inv /\ [Next]_vars => Inv'
  <2> SUFFICES ASSUME IInv, Inv, [Next]_vars PROVE Inv'
    OBVIOUS
  <2>1. CASE BeginTransaction BY <2>1 DEF BeginTransaction
  <2>2. ASSUME NEW k \in Key, NEW v \in Value, EvoWrite(k, v) PROVE Inv'
    BY <2>2 DEF EvoWrite
  <2>3. ASSUME NEW k \in Key, EvoErase(k) PROVE Inv'
    BY <2>3 DEF EvoErase
  <2>4. CASE CommitCurTransaction BY <2>4, <1>1 DEF CommitCurTransaction
  <2>5. CASE RollbackCurTransaction BY <2>5, <1>1 DEF RollbackCurTransaction
  <2>6. CASE CommitRootTransaction BY <2>6 DEF CommitRootTransaction, IsClean
  <2>7. ASSUME NEW k \in SnapshotKey, NEW v \in Value, AddToCache(k, v) PROVE Inv'
    <3>1. Pending(cur') \subseteq Pending(cur) \cup {k}
      BY <2>7 DEF AddToCache, Write, Pending, Written, IInv, WellFormed, Map
    <3> QED BY <2>7, <3>1 DEF AddToCache
  <2>8. CASE Restart BY <2>8, <1>1 DEF Restart
  <2>9. CASE UNCHANGED vars BY <2>9 DEF vars
  <2> QED BY <2>1, <2>2, <2>3, <2>4, <2>5, <2>6, <2>7, <2>8, <2>9 DEF Next
<1>4. Inv => AbortsOnlyOnSnapshots
  BY DEF AbortsOnlyOnSnapshots
<1> QED BY <1>2, <1>3, <1>4, Invariance, PTL DEF Spec

\* Where nothing is written outside a transaction, as on main, the assertion
\* of CommitRootTransaction never fails.
COROLLARY ScopedFlushesFindCurClean ==
  ASSUME SnapshotKey = {}
  PROVE  Spec => [](~aborted)
<1>1. AbortsOnlyOnSnapshots => ~aborted
  BY DEF AbortsOnlyOnSnapshots
<1> QED BY <1>1, FlushesFindOnlySnapshots, PTL
=============================================================================
