--------------------------- MODULE CDBTransaction ---------------------------
(***************************************************************************)
(* CDBTransaction and CDBTransactionIterator (dbwrapper.h): a layer of     *)
(* pending writes and deletes over a parent, read through, committed into  *)
(* a target, and iterated in key order together with its parent.  A key is *)
(* an integer, which stands for the order of the serialised keys.          *)
(***************************************************************************)
EXTENDS Integers, Sequences, FiniteSets, FiniteSetsExt, SequencesExt

CONSTANTS Key, Value,
          NoValue,  \* what a key without a value reads as
          KeySize,  \* the serialised size of a key
          ValueSize \* the serialised size of a value

ASSUME KeyAssumption ==
  /\ Key \subseteq Int
  /\ NoValue \notin Value

ASSUME SizeAssumption ==
  /\ KeySize \in [Key -> Nat]
  /\ ValueSize \in [Value -> Nat]

Map == [Key -> Value \cup {NoValue}]

\* writes[k] = NoValue says that the map `writes` has no entry for k.
Written(t) == {k \in Key : t.writes[k] # NoValue}

\* A key is never both written and deleted: Read looks at the deletes first
\* and Commit applies the writes last, so they would disagree about it.
Layer ==
  {t \in [writes : Map, deletes : SUBSET Key, memoryUsage : Int] :
     Written(t) \cap t.deletes = {}}

(***************************************************************************)
(* One layer.                                                              *)
(***************************************************************************)
Clear == [writes |-> [k \in Key |-> NoValue], deletes |-> {}, memoryUsage |-> 0]

Pending(t) == Written(t) \cup t.deletes

IsClean(t) == Pending(t) = {}

\* What the entries of key k in the two containers are charged.
WriteUsage(t, k) == IF k \in Written(t) THEN KeySize[k] + ValueSize[t.writes[k]] ELSE 0
DeleteUsage(t, k) == IF k \in t.deletes THEN KeySize[k] ELSE 0

\* Faulty variant: a deletion stays when the key is written again.
WriteOverDelete(t, k, v) ==
  [writes |-> [t.writes EXCEPT ![k] = v],
   deletes |-> t.deletes,
   memoryUsage |-> t.memoryUsage - WriteUsage(t, k) + KeySize[k] + ValueSize[v]]

\* Faulty variant: replacing a value does not give back what the old one was charged.
WriteChargesTwice(t, k, v) ==
  [writes |-> [t.writes EXCEPT ![k] = v],
   deletes |-> t.deletes \ {k},
   memoryUsage |-> t.memoryUsage - DeleteUsage(t, k) + KeySize[k] + ValueSize[v]]

Write(t, k, v) ==
  [writes |-> [t.writes EXCEPT ![k] = v],
   deletes |-> t.deletes \ {k},
   memoryUsage |-> t.memoryUsage - DeleteUsage(t, k) - WriteUsage(t, k)
                     + KeySize[k] + ValueSize[v]]

Erase(t, k) ==
  [writes |-> [t.writes EXCEPT ![k] = NoValue],
   deletes |-> t.deletes \cup {k},
   memoryUsage |-> t.memoryUsage - WriteUsage(t, k) + (KeySize[k] - DeleteUsage(t, k))]

\* Read, for every key at once: the map seen through t over the map `parent`.
Read(t, parent) ==
  [k \in Key |-> IF k \in t.deletes THEN NoValue
                 ELSE IF k \in Written(t) THEN t.writes[k]
                 ELSE parent[k]]

Exists(t, parent, k) ==
  k \notin t.deletes /\ (k \in Written(t) \/ parent[k] # NoValue)

(***************************************************************************)
(* Commit erases every deleted key of the target and then writes every     *)
(* written one; keys are distinct, so each is charged on its own.          *)
(***************************************************************************)
EraseAll(t, ks) ==
  [writes |-> [k \in Key |-> IF k \in ks THEN NoValue ELSE t.writes[k]],
   deletes |-> t.deletes \cup ks,
   memoryUsage |-> t.memoryUsage
     + MapThenSumSet(LAMBDA k : KeySize[k] - DeleteUsage(t, k) - WriteUsage(t, k), ks)]

WriteAll(t, ks, w) ==
  [writes |-> [k \in Key |-> IF k \in ks THEN w[k] ELSE t.writes[k]],
   deletes |-> t.deletes \ ks,
   memoryUsage |-> t.memoryUsage
     + MapThenSumSet(LAMBDA k : KeySize[k] + ValueSize[w[k]]
                                  - DeleteUsage(t, k) - WriteUsage(t, k), ks)]

\* Faulty variant: only the writes are carried over.
CommitWritesOnly(t, target) == WriteAll(target, Written(t), t.writes)

\* Commit into another layer.
Commit(t, target) == WriteAll(EraseAll(target, t.deletes), Written(t), t.writes)

\* Commit into a batch that is then written to the database as a whole.
CommitToBatch(t, db) ==
  [k \in Key |-> IF k \in Written(t) THEN t.writes[k]
                 ELSE IF k \in t.deletes THEN NoValue
                 ELSE db[k]]

(***************************************************************************)
(* Iteration.  An iterator is known by the sequence of keys it goes        *)
(* through.  The one of a layer holds a position i among the written keys  *)
(* and a position j in its parent's sequence.                              *)
(***************************************************************************)
Ascending(ks) == SetToSortSeq(ks, <)

\* Faulty variant: a deleted key of the parent is not skipped.
SkipOverwritten(t, p, j) ==
  Min({n \in j..Len(p) : p[n] \notin Written(t)} \cup {Len(p) + 1})

\* The first position of p at or after j whose key the layer does not hide.
SkipDeletedAndOverwritten(t, p, j) ==
  Min({n \in j..Len(p) : p[n] \notin t.deletes \cup Written(t)} \cup {Len(p) + 1})

curIsParent(w, i, p, j) == j <= Len(p) /\ (i > Len(w) \/ ~(w[i] < p[j]))

\* Seek(key) and then Next until the iterator is no longer Valid; p is what
\* the parent's iterator goes through after its own Seek(key).
Iterate(t, p, key) ==
  LET w == Ascending({k \in Written(t) : k >= key})
      from[i \in 1..(Len(w) + 1), j \in 1..(Len(p) + 1)] ==
        IF i > Len(w) /\ j > Len(p) THEN <<>>
        ELSE IF curIsParent(w, i, p, j)
             THEN <<p[j]>> \o from[i, SkipDeletedAndOverwritten(t, p, j + 1)]
             ELSE <<w[i]>> \o from[i + 1, j]
  IN from[1, SkipDeletedAndOverwritten(t, p, 1)]
=============================================================================
