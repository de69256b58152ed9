------------------------- MODULE TransactionalStore -------------------------
(***************************************************************************)
(* What CEvoDB promises its users: a map they change, whose changes since  *)
(* the last commit can be kept or dropped as a whole, and which survives a *)
(* restart as it was when it was last flushed.                             *)
(***************************************************************************)
CONSTANTS Key, Value,
          NoValue \* what a key without a value reads as

VARIABLES disk,      \* what survives a restart
          committed, \* what a rollback goes back to
          current    \* what readers see

vars == <<disk, committed, current>>

Map == [Key -> Value \cup {NoValue}]

Init ==
  /\ disk = [k \in Key |-> NoValue]
  /\ committed = disk
  /\ current = disk

Set(k, v) ==
  /\ current' = [current EXCEPT ![k] = v]
  /\ UNCHANGED <<disk, committed>>

Commit ==
  /\ committed' = current
  /\ UNCHANGED <<disk, current>>

Rollback ==
  /\ current' = committed
  /\ UNCHANGED <<disk, committed>>

Flush ==
  /\ disk' = committed
  /\ UNCHANGED <<committed, current>>

Restart ==
  /\ committed' = disk
  /\ current' = disk
  /\ UNCHANGED disk

Next ==
  \/ \E k \in Key, v \in Value \cup {NoValue} : Set(k, v)
  \/ Commit
  \/ Rollback
  \/ Flush
  \/ Restart

Spec == Init /\ [][Next]_vars
=============================================================================
