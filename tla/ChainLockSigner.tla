-------------------------- MODULE ChainLockSigner ---------------------------
(***************************************************************************)
(* How a masternode takes part in the ChainLock of a block.  TrySignChain- *)
(* Tip runs on two threads: the signer's own scheduler calls it every five *)
(* seconds, and the thread of the validation callbacks calls it from       *)
(* UpdatedBlockTip.  AsyncSignIfMember consults and records the vote for   *)
(* the height in the database of recovered signatures, which survives a    *)
(* restart.                                                                *)
(*                                                                         *)
(* The tip and the best ChainLock are the environment's; whether the       *)
(* block's transactions are safe, spork 19 and the membership of the       *)
(* quorum may end a call early.  Old votes are not cleaned up.             *)
(***************************************************************************)
EXTENDS Integers

CONSTANTS
  Block,
  Height,   \* [Block -> Nat]
  Signer,   \* the threads that call TrySignChainTip
  NoBlock

VARIABLES
  tip,        \* m_chain.Tip()
  best,       \* the block of the best ChainLock
  lastSigned, \* lastSignedHeight, lastSignedRequestId, lastSignedMsgHash
  votes,      \* rs_v: the message voted for, by request id, that is by height
  recovered,  \* rs_r: the recovered signatures
  signed,     \* the blocks that a share was made for
  pc,         \* where each thread is
  pindex      \* the tip it read

threads == <<pc, pindex>>
vars    == <<tip, best, lastSigned, votes, recovered, signed, threads>>

Heights == {Height[b] : b \in Block}

HeightOf(b) == IF b = NoBlock THEN -1 ELSE Height[b]

Init ==
  /\ tip \in Block
  /\ best = NoBlock
  /\ lastSigned = NoBlock
  /\ votes = [h \in Heights |-> NoBlock]
  /\ recovered = {}
  /\ signed = {}
  /\ pc = [s \in Signer |-> "idle"]
  /\ pindex = [s \in Signer |-> NoBlock]

-----------------------------------------------------------------------------
(* TrySignChainTip.                                                        *)

ReadTip(s) ==
  /\ pc[s] = "idle"
  /\ pc' = [pc EXCEPT ![s] = "read"]
  /\ pindex' = [pindex EXCEPT ![s] = tip]
  /\ UNCHANGED <<tip, best, lastSigned, votes, recovered, signed>>

\* A call may end early at each of its tests, the last of which are those of
\* AsyncSignIfMember.
Return(s) ==
  /\ pc[s] \notin {"idle", "voting"}
  /\ pc' = [pc EXCEPT ![s] = "idle"]
  /\ UNCHANGED <<tip, best, lastSigned, votes, recovered, signed, pindex>>

CheckLastSigned(s) ==
  /\ pc[s] = "read"
  /\ Height[pindex[s]] # HeightOf(lastSigned)
  /\ pc' = [pc EXCEPT ![s] = "unsigned"]
  /\ UNCHANGED <<tip, best, lastSigned, votes, recovered, signed, pindex>>

\* The test of the best ChainLock is repeated after those of the transactions.
CheckBestChainLock(s) ==
  /\ pc[s] = "unsigned"
  /\ HeightOf(best) < Height[pindex[s]]
  /\ pc' = [pc EXCEPT ![s] = "unlocked"]
  /\ UNCHANGED <<tip, best, lastSigned, votes, recovered, signed, pindex>>

\* Under cs_signer, which the thread did not hold since CheckLastSigned.
Register(s) ==
  /\ pc[s] = "unlocked"
  /\ lastSigned' = pindex[s]
  /\ pc' = [pc EXCEPT ![s] = "registered"]
  /\ UNCHANGED <<tip, best, votes, recovered, signed, pindex>>

-----------------------------------------------------------------------------
(* AsyncSignIfMember.                                                      *)

\* Neither a vote, for this message or another, nor a recovered signature.
HasNotVoted(s) ==
  /\ pc[s] = "registered"
  /\ votes[Height[pindex[s]]] = NoBlock
  /\ \A b \in recovered : Height[b] # Height[pindex[s]]
  /\ pc' = [pc EXCEPT ![s] = "voting"]
  /\ UNCHANGED <<tip, best, lastSigned, votes, recovered, signed, pindex>>

\* WriteVoteForId and AsyncSign.
Vote(s) ==
  /\ pc[s] = "voting"
  /\ votes' = [votes EXCEPT ![Height[pindex[s]]] = pindex[s]]
  /\ signed' = signed \cup {pindex[s]}
  /\ pc' = [pc EXCEPT ![s] = "idle"]
  /\ UNCHANGED <<tip, best, lastSigned, recovered, pindex>>

-----------------------------------------------------------------------------
(* The rest of the node.                                                   *)

\* Also between blocks of one height, when InstantSend invalidates the tip.
MoveTip ==
  /\ tip' \in Block
  /\ UNCHANGED <<best, lastSigned, votes, recovered, signed, threads>>

\* A CLSIG from the network.
UpdateBestChainlock(b) ==
  /\ Height[b] > HeightOf(best)
  /\ best' = b
  /\ UNCHANGED <<tip, lastSigned, votes, recovered, signed, threads>>

\* ProcessRecoveredSig and the signer's HandleNewRecoveredSig.
HandleNewRecoveredSig(b) ==
  /\ \A c \in recovered : Height[c] # Height[b]
  /\ recovered' = recovered \cup {b}
  /\ best' = IF b = lastSigned /\ HeightOf(best) < Height[b] THEN b ELSE best
  /\ UNCHANGED <<tip, lastSigned, votes, signed, threads>>

Restart ==
  /\ best' = NoBlock
  /\ lastSigned' = NoBlock
  /\ pc' = [s \in Signer |-> "idle"]
  /\ pindex' = [s \in Signer |-> NoBlock]
  /\ UNCHANGED <<tip, votes, recovered, signed>>

Sign(s) ==
  \/ ReadTip(s)
  \/ CheckLastSigned(s)
  \/ CheckBestChainLock(s)
  \/ Register(s)
  \/ HasNotVoted(s)
  \/ Vote(s)
  \/ Return(s)

Next ==
  \/ \E s \in Signer : Sign(s)
  \/ MoveTip
  \/ \E b \in Block : UpdateBestChainlock(b) \/ HandleNewRecoveredSig(b)
  \/ Restart

Spec == Init /\ [][Next]_vars

-----------------------------------------------------------------------------
(* Properties.                                                             *)

\* "each masternode is participating in only one vote" (ProcessRecoveredSig):
\* a masternode makes shares for at most one block of a height, whatever the
\* tip does and whenever it restarts.
OneVotePerHeight ==
  \A b, c \in signed : Height[b] = Height[c] => b = c
=============================================================================
