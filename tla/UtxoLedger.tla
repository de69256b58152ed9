----------------------------- MODULE UtxoLedger -----------------------------
(***************************************************************************)
(* What the coins view hierarchy promises, with no cache in sight: three   *)
(* versions of the ledger's state (unspent coins and spent nullifiers).    *)
(* The pending one is the state a block being connected or disconnected    *)
(* has built so far, the committed one is that of the node, the durable    *)
(* one is what the database holds.  A block either commits as a whole or   *)
(* leaves no trace.                                                        *)
(***************************************************************************)
CONSTANTS Outpoint, Coin, Nullifier, Spent

VARIABLES pending,   \* [coins, nfs]: seen by the block being processed
          committed, \* [coins, nfs]: seen by the rest of the node
          durable    \* [coins, nfs]: found after a restart

ledgerVars == <<pending, committed, durable>>

States == [coins : [Outpoint -> Coin \cup {Spent}], nfs : SUBSET Nullifier]

Init ==
  /\ durable \in States
  /\ committed = durable
  /\ pending = durable

\* A block creates an output, or restores an input it had spent.
Create(o, c) ==
  /\ pending' = [pending EXCEPT !.coins[o] = c]
  /\ UNCHANGED <<committed, durable>>

Spend(o) ==
  /\ pending' = [pending EXCEPT !.coins[o] = Spent]
  /\ UNCHANGED <<committed, durable>>

Reveal(n) ==
  /\ pending' = [pending EXCEPT !.nfs = @ \cup {n}]
  /\ UNCHANGED <<committed, durable>>

Conceal(n) ==
  /\ pending' = [pending EXCEPT !.nfs = @ \ {n}]
  /\ UNCHANGED <<committed, durable>>

Commit ==
  /\ committed' = pending
  /\ UNCHANGED <<pending, durable>>

Abandon ==
  /\ pending' = committed
  /\ UNCHANGED <<committed, durable>>

Persist ==
  /\ durable' = committed
  /\ UNCHANGED <<pending, committed>>

Next ==
  \/ \E o \in Outpoint, c \in Coin : Create(o, c)
  \/ \E o \in Outpoint : Spend(o)
  \/ \E n \in Nullifier : Reveal(n) \/ Conceal(n)
  \/ Commit
  \/ Abandon
  \/ Persist

Spec == Init /\ [][Next]_ledgerVars
=============================================================================
