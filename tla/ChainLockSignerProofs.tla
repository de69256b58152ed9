----------------------- MODULE ChainLockSignerProofs ------------------------
(***************************************************************************)
(* How far the votes of a masternode can conflict.  The run double_vote    *)
(* shows that two threads can sign two blocks of one height; this is the   *)
(* worst that happens, over any number of tips, CLSIGs and restarts: a     *)
(* thread signs at most one block of a height, and none once another has   *)
(* voted before it looked.                                                 *)
(***************************************************************************)
EXTENDS ChainLockSigner, FiniteSets, FiniteSetTheorems, TLAPS

\* The blocks of a height that the masternode signed.
SignedAt(h) == {b \in signed : Height[b] = h}

\* The threads that found no vote for a height and are about to write theirs.
VotingAt(h) == {s \in Signer : pc[s] = "voting" /\ Height[pindex[s]] = h}

\* Each block signed is paid for by a thread that passed the test for a vote.
PaidFor(h) ==
  /\ IsFiniteSet(SignedAt(h))
  /\ Cardinality(SignedAt(h)) + Cardinality(VotingAt(h)) <= Cardinality(Signer)

\* A masternode signs no more blocks of a height than it has signing threads.
OneVotePerThread ==
  \A h \in Heights : Cardinality(SignedAt(h)) <= Cardinality(Signer)

TypeInv ==
  /\ tip \in Block
  /\ signed \subseteq Block
  /\ votes \in [Heights -> Block \cup {NoBlock}]
  /\ pc \in [Signer -> {"idle", "read", "unsigned", "unlocked", "registered", "voting"}]
  /\ pindex \in [Signer -> Block \cup {NoBlock}]
  /\ \A s \in Signer : pc[s] # "idle" => pindex[s] \in Block

\* Every share left a vote for its height on disk.
VotesKept == \A b \in signed : votes[Height[b]] # NoBlock

Inv == TypeInv /\ VotesKept /\ \A h \in Heights : PaidFor(h)

\* The invariant holds at the start.
LEMMA InitInv ==
  ASSUME IsFiniteSet(Signer), Init
  PROVE  Inv
<1>1. TypeInv /\ VotesKept
  BY DEF Init, TypeInv, VotesKept, Heights
<1>2. ASSUME NEW h \in Heights PROVE PaidFor(h)
  <2>1. SignedAt(h) = {} /\ VotingAt(h) = {}
    BY DEF Init, SignedAt, VotingAt
  <2> QED
    BY <2>1, FS_EmptySet, FS_CardinalityType DEF PaidFor
<1> QED
  BY <1>1, <1>2 DEF Inv

\* A step that signs nothing, and after which no more threads are about to vote.
LEMMA StillPaidFor ==
  ASSUME IsFiniteSet(Signer), NEW h \in Heights, PaidFor(h),
         SignedAt(h)' = SignedAt(h), VotingAt(h)' \subseteq VotingAt(h)
  PROVE  PaidFor(h)'
<1>1. IsFiniteSet(VotingAt(h))
  BY FS_Subset DEF VotingAt
<1>2. /\ Cardinality(VotingAt(h)') <= Cardinality(VotingAt(h))
      /\ Cardinality(VotingAt(h)') \in Nat /\ Cardinality(VotingAt(h)) \in Nat
  BY <1>1, FS_Subset, FS_CardinalityType
<1>3. Cardinality(SignedAt(h)) \in Nat /\ Cardinality(Signer) \in Nat
  BY FS_CardinalityType DEF PaidFor
<1>4. IsFiniteSet(SignedAt(h)') /\ Cardinality(SignedAt(h)') = Cardinality(SignedAt(h))
  BY DEF PaidFor
<1>5. Cardinality(SignedAt(h)') + Cardinality(VotingAt(h)') <= Cardinality(Signer)
  BY <1>2, <1>3, <1>4 DEF PaidFor
<1> QED
  BY <1>4, <1>5 DEF PaidFor

\* Every step preserves the invariant.  A thread passes the test only while
\* nothing of the height is signed, and a vote takes a thread for the block it
\* signs.
LEMMA NextInv ==
  ASSUME IsFiniteSet(Signer), NoBlock \notin Block, Inv, [Next]_vars
  PROVE  Inv'
<1>0. TypeInv /\ VotesKept /\ \A h \in Heights : PaidFor(h)
  BY DEF Inv
<1>a. ASSUME TypeInv', UNCHANGED <<votes, signed>>,
             \A h \in Heights : VotingAt(h)' \subseteq VotingAt(h)
      PROVE  Inv'
  <2>1. VotesKept'
    BY <1>0, <1>a DEF VotesKept
  <2>2. ASSUME NEW h \in Heights PROVE PaidFor(h)'
    <3>1. SignedAt(h)' = SignedAt(h)
      BY <1>a DEF SignedAt
    <3> QED
      BY <1>0, <1>a, <3>1, StillPaidFor
  <2> QED
    BY <1>a, <2>1, <2>2 DEF Inv
<1>1. ASSUME NEW s \in Signer, ReadTip(s) PROVE Inv'
  BY <1>0, <1>1, <1>a DEF ReadTip, TypeInv, VotingAt
<1>2. ASSUME NEW s \in Signer, CheckLastSigned(s) PROVE Inv'
  BY <1>0, <1>2, <1>a DEF CheckLastSigned, TypeInv, VotingAt
<1>3. ASSUME NEW s \in Signer, CheckBestChainLock(s) PROVE Inv'
  BY <1>0, <1>3, <1>a DEF CheckBestChainLock, TypeInv, VotingAt
<1>4. ASSUME NEW s \in Signer, Register(s) PROVE Inv'
  BY <1>0, <1>4, <1>a DEF Register, TypeInv, VotingAt
<1>5. ASSUME NEW s \in Signer, HasNotVoted(s) PROVE Inv'
  <2>1. TypeInv' /\ VotesKept'
    BY <1>0, <1>5 DEF HasNotVoted, TypeInv, VotesKept
  <2>2. ASSUME NEW h \in Heights PROVE PaidFor(h)'
    <3>1. SignedAt(h)' = SignedAt(h)
      BY <1>5 DEF HasNotVoted, SignedAt
    <3>2. CASE h = Height[pindex[s]]
      <4>1. SignedAt(h) = {}
        BY <1>0, <1>5, <3>2 DEF HasNotVoted, SignedAt, VotesKept
      <4>2. VotingAt(h)' \subseteq Signer
        BY DEF VotingAt
      <4>3. /\ Cardinality(VotingAt(h)') \in Nat /\ Cardinality(Signer) \in Nat
            /\ Cardinality(VotingAt(h)') <= Cardinality(Signer)
        BY <4>2, FS_Subset, FS_CardinalityType
      <4>4. IsFiniteSet(SignedAt(h)') /\ Cardinality(SignedAt(h)') = 0
        BY <3>1, <4>1, FS_EmptySet
      <4>5. Cardinality(SignedAt(h)') + Cardinality(VotingAt(h)') <= Cardinality(Signer)
        BY <4>3, <4>4
      <4> QED
        BY <4>4, <4>5 DEF PaidFor
    <3>3. CASE h # Height[pindex[s]]
      <4>1. VotingAt(h)' \subseteq VotingAt(h)
        BY <1>0, <1>5, <3>3 DEF HasNotVoted, VotingAt, TypeInv
      <4> QED
        BY <1>0, <3>1, <4>1, StillPaidFor
    <3> QED
      BY <3>2, <3>3
  <2> QED
    BY <2>1, <2>2 DEF Inv
<1>6. ASSUME NEW s \in Signer, Vote(s) PROVE Inv'
  <2>1. pindex[s] \in Block /\ Height[pindex[s]] \in Heights
    BY <1>0, <1>6 DEF Vote, TypeInv, Heights
  <2>2. TypeInv'
    BY <1>0, <1>6, <2>1 DEF Vote, TypeInv
  <2>3. VotesKept'
    <3>1. \A b \in signed : Height[b] \in Heights
      BY <1>0 DEF TypeInv, Heights
    <3> QED
      BY <1>0, <1>6, <2>1, <3>1 DEF Vote, VotesKept, TypeInv
  <2>4. ASSUME NEW h \in Heights PROVE PaidFor(h)'
    <3>1. CASE h = Height[pindex[s]]
      <4>1. SignedAt(h)' = SignedAt(h) \cup {pindex[s]}
        BY <1>6, <3>1 DEF Vote, SignedAt
      <4>2. s \in VotingAt(h) /\ VotingAt(h)' = VotingAt(h) \ {s}
        BY <1>0, <1>6, <3>1 DEF Vote, VotingAt, TypeInv
      <4>3. IsFiniteSet(VotingAt(h)) /\ IsFiniteSet(SignedAt(h))
        BY <1>0, FS_Subset DEF VotingAt, PaidFor
      <4>4. /\ Cardinality(VotingAt(h)') = Cardinality(VotingAt(h)) - 1
            /\ Cardinality(VotingAt(h)) \in Nat
        BY <4>2, <4>3, FS_RemoveElement, FS_CardinalityType
      <4>5. IsFiniteSet(SignedAt(h)') /\ Cardinality(SignedAt(h)) \in Nat
            /\ Cardinality(SignedAt(h)') <= Cardinality(SignedAt(h)) + 1
            /\ Cardinality(SignedAt(h)') \in Nat
        <5>1. /\ IsFiniteSet(SignedAt(h) \cup {pindex[s]})
              /\ Cardinality(SignedAt(h) \cup {pindex[s]})
                   = IF pindex[s] \in SignedAt(h) THEN Cardinality(SignedAt(h))
                                                  ELSE Cardinality(SignedAt(h)) + 1
          BY <4>3, FS_AddElement
        <5>2. Cardinality(SignedAt(h)) \in Nat
          BY <4>3, FS_CardinalityType
        <5> HIDE DEF SignedAt
        <5> QED
          BY <4>1, <5>1, <5>2
      <4>6. Cardinality(SignedAt(h)) + Cardinality(VotingAt(h)) <= Cardinality(Signer)
            /\ Cardinality(Signer) \in Nat
        BY <1>0, FS_CardinalityType DEF PaidFor
      <4>7. Cardinality(SignedAt(h)') + Cardinality(VotingAt(h)') <= Cardinality(Signer)
        BY <4>4, <4>5, <4>6
      <4> QED
        BY <4>5, <4>7 DEF PaidFor
    <3>2. CASE h # Height[pindex[s]]
      <4>1. SignedAt(h)' = SignedAt(h) /\ VotingAt(h)' \subseteq VotingAt(h)
        BY <1>0, <1>6, <3>2 DEF Vote, SignedAt, VotingAt, TypeInv
      <4> QED
        BY <1>0, <4>1, StillPaidFor
    <3> QED
      BY <3>1, <3>2
  <2> QED
    BY <2>2, <2>3, <2>4 DEF Inv
<1>7. ASSUME NEW s \in Signer, Return(s) PROVE Inv'
  BY <1>0, <1>7, <1>a DEF Return, TypeInv, VotingAt
<1>8. ASSUME MoveTip PROVE Inv'
  BY <1>0, <1>8, <1>a DEF MoveTip, threads, TypeInv, VotingAt
<1>9. ASSUME NEW b \in Block, UpdateBestChainlock(b) PROVE Inv'
  BY <1>0, <1>9, <1>a DEF UpdateBestChainlock, threads, TypeInv, VotingAt
<1>10. ASSUME NEW b \in Block, HandleNewRecoveredSig(b) PROVE Inv'
  BY <1>0, <1>10, <1>a DEF HandleNewRecoveredSig, threads, TypeInv, VotingAt
<1>11. ASSUME Restart PROVE Inv'
  BY <1>0, <1>11, <1>a DEF Restart, TypeInv, VotingAt
<1>12. ASSUME UNCHANGED vars PROVE Inv'
  BY <1>0, <1>12, <1>a DEF vars, threads, TypeInv, VotingAt
<1> QED
  BY <1>1, <1>2, <1>3, <1>4, <1>5, <1>6, <1>7, <1>8, <1>9, <1>10, <1>11, <1>12 DEF Next, Sign

\* AsyncSignIfMember's test and vote, without a lock across both, still bound the
\* shares of a masternode for a height by the threads that can be between the
\* two, over any number of tips, CLSIGs and restarts: two in this program.
THEOREM VotesBoundedByThreads ==
  ASSUME IsFiniteSet(Signer), NoBlock \notin Block
  PROVE  Spec => []OneVotePerThread
<1>1. Inv => OneVotePerThread
  <2> SUFFICES ASSUME Inv, NEW h \in Heights
               PROVE  Cardinality(SignedAt(h)) <= Cardinality(Signer)
    BY DEF OneVotePerThread
  <2>1. PaidFor(h)
    BY DEF Inv
  <2>2. IsFiniteSet(VotingAt(h))
    BY FS_Subset DEF VotingAt
  <2>3. /\ Cardinality(SignedAt(h)) \in Nat /\ Cardinality(VotingAt(h)) \in Nat
        /\ Cardinality(Signer) \in Nat
    BY <2>1, <2>2, FS_CardinalityType DEF PaidFor
  <2> QED
    BY <2>1, <2>3 DEF PaidFor
<1>2. Init => Inv
  BY InitInv
<1>3. Inv /\ [Next]_vars => Inv'
  BY NextInv
<1> QED
  BY <1>1, <1>2, <1>3, PTL DEF Spec
=============================================================================
