-------------------------- MODULE ChainLocksProofs --------------------------
(***************************************************************************)
(* The safety properties of ChainLocks, for every tree of blocks, set of   *)
(* CLSIGs on one branch and set of threads.                                *)
(***************************************************************************)
EXTENDS ChainLocks, TLAPS

\* The active chain is stored, and nothing marks it or a locked chain.
ChainInv ==
  /\ index \subseteq Block /\ data \subseteq index
  /\ failed \subseteq index /\ conflict \subseteq index
  /\ tip \in data
  /\ Ancestry[tip] \subseteq data
  /\ LockedChainUnmarked

LockInv ==
  /\ best \in ClSig \cup {NoBlock}
  /\ known \in (ClSig \cap index) \cup {NoBlock}
  /\ known # NoBlock => best # NoBlock /\ known \in Ancestry[best]
  /\ seen \subseteq ClSig
  /\ spork \in BOOLEAN /\ isEnabled \in BOOLEAN /\ events \in 0 .. MaxEvents

\* A thread carries the block of a CLSIG, and has looked up that block.
ThreadInv ==
  /\ msg \in [Handler -> Call]
  /\ \A h \in Handler :
       /\ msg[h].pc \in {"verified", "found"} => msg[h].block \in ClSig
       /\ msg[h].pc = "found" => msg[h].pindex \in {NoBlock} \cup ({msg[h].block} \cap index)
  /\ enforce \in Call
  /\ enforce.pc # "idle" => enforce.pindex \in ClSig
  /\ resetting \subseteq Thread
  /\ islock \in [Conflicted -> {"none", "pending", "live", "pruned"}]
  /\ mined \subseteq Conflicted \cap index
  /\ resolve \in Resolver
  /\ resolve.pc # "idle" => resolve.pindex \in Conflicted \cap index

IInv == ChainInv /\ LockInv /\ ThreadInv

-----------------------------------------------------------------------------
(* Trees.                                                                  *)

\* On one chain a height belongs to one block.
LEMMA SameHeight ==
  ASSUME NEW b \in Block, NEW c \in Ancestry[b], NEW d \in Ancestry[b],
         Height[c] = Height[d]
  PROVE  c = d
<1>1. c \in Block /\ d \in Block /\ Height[c] \in Nat
  BY TreeAssumption
<1>2. c \in Ancestry[d] /\ d \in Ancestry[c]
  BY <1>1, TreeAssumption
<1>3. CASE c = Genesis
  BY <1>2, <1>3, TreeAssumption
<1>4. CASE c # Genesis /\ d # c
  <2>1. d \in Ancestry[Parent[c]] /\ Parent[c] \in Block
    BY <1>1, <1>2, <1>4, TreeAssumption
  <2>2. Parent[c] \in Ancestry[Parent[c]]
    BY <2>1, TreeAssumption
  <2>3. Height[d] <= Height[Parent[c]]
    <3>1. d \in Ancestry[d] /\ Ancestry[d] \subseteq Ancestry[Parent[c]]
      BY <1>1, <2>1, TreeAssumption
    <3> QED
      BY <2>1, <2>2, <3>1, TreeAssumption
  <2>4. Height[c] = Height[Parent[c]] + 1 /\ Height[Parent[c]] \in Nat
    BY <1>1, <1>4, <2>1, TreeAssumption
  <2> QED
    BY <1>1, <2>3, <2>4
<1> QED
  BY <1>3, <1>4

\* On one chain the lower block is an ancestor of the higher one.
LEMMA OnOneChain ==
  ASSUME NEW b \in Block, NEW c \in Ancestry[b], NEW d \in Ancestry[b]
  PROVE  /\ Height[c] <= Height[d] => c \in Ancestry[d]
         /\ c \notin Ancestry[d] => d \in Ancestry[c]
<1>1. Height[c] \in Nat /\ Height[d] \in Nat
  BY TreeAssumption
<1>2. (Height[c] <= Height[d] <=> c \in Ancestry[d]) /\ (Height[d] <= Height[c] <=> d \in Ancestry[c])
  BY TreeAssumption
<1> QED
  BY <1>1, <1>2

\* Ancestry is transitive.
LEMMA Transitive ==
  ASSUME NEW b \in Block, NEW c \in Ancestry[b]
  PROVE  c \in Block /\ Ancestry[c] \subseteq Ancestry[b] /\ c \in Ancestry[c]
BY TreeAssumption

\* The parent of a block is an ancestor of it.
LEMMA ParentIsAncestor ==
  ASSUME NEW b \in Block \ {Genesis}
  PROVE  Parent[b] \in Ancestry[b] /\ Parent[b] \in Block
BY TreeAssumption

\* A set of blocks of one chain has a highest and a lowest one.
LEMMA Extremes ==
  ASSUME NEW b \in Block, NEW S \in SUBSET Ancestry[b], S # {}
  PROVE  Highest(S) \in S /\ Lowest(S) \in S
<1>2. \E c \in S : \A d \in S : Height[d] <= Height[c]
  BY ChainAssumption, Zenon
<1>3. \E c \in S : \A d \in S : Height[c] <= Height[d]
  BY ChainAssumption, Zenon
<1> QED
  BY <1>2, <1>3 DEF Highest, Lowest

\* A block and its sibling are not on one chain.
LEMMA SiblingsApart ==
  ASSUME NEW b \in Block, NEW w \in Ancestry[b], NEW c \in Block,
         w # Genesis, c # Genesis, c # w, Parent[c] = Parent[w]
  PROVE  c \notin Ancestry[b]
<1>1. w \in Block
  BY Transitive
<1>2. Height[c] = Height[w]
  BY <1>1, TreeAssumption
<1> QED
  BY <1>2, SameHeight

\* A block that conflicts with one CLSIG is on the chain of none.
LEMMA ConflictsWithAll ==
  ASSUME NEW c \in ClSig, NEW d \in ClSig, NEW b \in Block,
         Height[b] <= Height[c], b \notin Ancestry[c]
  PROVE  b \notin Ancestry[d]
<1>1. c \in Block /\ d \in Block /\ c \in Ancestry[c]
  BY ClSigAssumption, TreeAssumption
<1>2. CASE d \in Ancestry[c]
  BY <1>1, <1>2, Transitive
<1>3. CASE c \in Ancestry[d]
  BY <1>1, <1>3, OnOneChain
<1> QED
  BY <1>2, <1>3, ClSigAssumption

-----------------------------------------------------------------------------
(* The two operations that move the tip and mark blocks.                   *)

\* EnforceBlock steps back to an ancestor of the tip and marks no block of a
\* locked chain.
LEMMA EnforceBlockInv ==
  ASSUME ChainInv, NEW b \in ClSig, EnforceBlock(b), UNCHANGED <<index, data>>
  PROVE  ChainInv'
<1> DEFINE walk     == Ancestry[b] \ Ancestry[tip]
           siblings == {c \in index \ (walk \cup {Genesis}) :
                          \E w \in walk : Parent[c] = Parent[w]}
           active   == siblings \cap Ancestry[tip]
           back     == Ancestry[tip] \ Ancestry[b]
<1>1. b \in Block /\ tip \in Block /\ Ancestry[tip] \subseteq data
  BY ClSigAssumption DEF ChainInv
<1>2. /\ conflict' = conflict \cup siblings \cup (IF active = {} THEN {} ELSE back)
      /\ tip' = IF active = {} THEN tip ELSE Highest(Ancestry[tip] \cap Ancestry[b])
      /\ failed' = IF b \in data \ failed THEN failed ELSE ResetBlockFailureFlags(failed, b)
  BY DEF EnforceBlock
<1>3. tip' \in Ancestry[tip] /\ (active # {} => tip' \in Ancestry[b])
  <2>1. CASE active = {}
    BY <1>1, <1>2, <2>1, TreeAssumption
  <2>2. CASE active # {}
    <3>1. Ancestry[tip] \cap Ancestry[b] # {}
      BY <1>1, TreeAssumption
    <3>2. Highest(Ancestry[tip] \cap Ancestry[b]) \in Ancestry[tip] \cap Ancestry[b]
      BY <1>1, <3>1, Extremes
    <3> QED
      BY <1>2, <2>2, <3>2
  <2> QED
    BY <2>1, <2>2
<1>4. Ancestry[tip'] \subseteq Ancestry[tip] /\ (active # {} => Ancestry[tip'] \subseteq Ancestry[b])
  BY <1>1, <1>3, Transitive
<1>5. \A c \in siblings : c \in Block /\ c # Genesis /\ c \notin walk
                          /\ \E w \in walk : w # Genesis /\ Parent[c] = Parent[w]
  BY <1>1, TreeAssumption DEF ChainInv
\* No sibling is an ancestor of the locked block.
<1>6. siblings \cap Ancestry[b] = {}
  <2> SUFFICES ASSUME NEW c \in siblings, c \in Ancestry[b] PROVE FALSE
    OBVIOUS
  <2>1. PICK w \in walk : w # Genesis /\ Parent[c] = Parent[w]
    BY <1>5
  <2> QED
    BY <1>1, <1>5, <2>1, SiblingsApart
<1>7. \A d \in ClSig : siblings \cap Ancestry[d] = {}
  <2> SUFFICES ASSUME NEW d \in ClSig, NEW c \in siblings, c \in Ancestry[d] PROVE FALSE
    OBVIOUS
  <2>1. d \in Block
    BY ClSigAssumption
  <2>2. CASE d \in Ancestry[b]
    BY <1>1, <1>6, <2>2, Transitive
  <2>3. CASE b \in Ancestry[d]
    <3>1. PICK w \in walk : w # Genesis /\ Parent[c] = Parent[w]
      BY <1>5
    <3>2. w \in Ancestry[d]
      BY <2>1, <2>3, <3>1, Transitive
    <3> QED
      BY <1>5, <2>1, <3>1, <3>2, SiblingsApart
  <2> QED
    BY <2>2, <2>3, ClSigAssumption
\* The blocks that are disconnected are on no locked chain: a lock above one
\* of them would be above b, and b would be active.
<1>8. ASSUME active # {}, NEW d \in ClSig PROVE back \cap Ancestry[d] = {}
  <2> SUFFICES ASSUME NEW x \in back, x \in Ancestry[d] PROVE FALSE
    OBVIOUS
  <2>1. d \in Block /\ walk # {}
    BY <1>8, ClSigAssumption
  <2>2. CASE d \in Ancestry[b]
    BY <1>1, <2>2, Transitive
  <2>3. CASE b \in Ancestry[d]
    <3>1. b \in Ancestry[x]
      BY <2>1, <2>3, OnOneChain
    <3>2. b \in Ancestry[tip]
      BY <1>1, <3>1, Transitive
    <3>3. walk = {}
      BY <1>1, <3>2, Transitive
    <3> QED
      BY <2>1, <3>3
  <2> QED
    BY <2>2, <2>3, ClSigAssumption
<1>9. LockedChainUnmarked'
  <2>1. conflict' \cap Ancestry[tip'] = {}
    <3>1. CASE active = {}
      <4>1. tip' = tip /\ conflict' = conflict \cup siblings
        BY <1>2, <3>1
      <4>2. conflict \cap Ancestry[tip] = {}
        BY DEF ChainInv, LockedChainUnmarked
      <4> QED
        BY <3>1, <4>1, <4>2
    <3>2. CASE active # {}
      <4>1. conflict' = conflict \cup siblings \cup back
        BY <1>2, <3>2
      <4>2. conflict \cap Ancestry[tip] = {}
        BY DEF ChainInv, LockedChainUnmarked
      <4>3. Ancestry[tip'] \subseteq Ancestry[tip] /\ Ancestry[tip'] \subseteq Ancestry[b]
        BY <1>4, <3>2
      <4> HIDE DEF siblings, active
      <4> QED
        BY <1>6, <4>1, <4>2, <4>3
    <3> QED
      BY <3>1, <3>2
  <2>2. ASSUME NEW d \in ClSig PROVE conflict' \cap Ancestry[d] = {}
    <3>1. conflict \cap Ancestry[d] = {}
      BY DEF ChainInv, LockedChainUnmarked
    <3>2. siblings \cap Ancestry[d] = {}
      BY <1>7
    <3>3. active = {} \/ back \cap Ancestry[d] = {}
      BY <1>8
    <3> HIDE DEF siblings, active, back
    <3> QED
      BY <1>2, <3>1, <3>2, <3>3
  <2> QED
    BY <2>1, <2>2 DEF LockedChainUnmarked
<1>10. /\ conflict' \subseteq index /\ failed' \subseteq index
       /\ tip' \in data /\ Ancestry[tip'] \subseteq data
  <2>1. siblings \subseteq index /\ back \subseteq index
    BY <1>1 DEF ChainInv
  <2>2. conflict' \subseteq index
    <3> HIDE DEF siblings, active, back
    <3> QED
      BY <1>2, <2>1 DEF ChainInv
  <2>3. failed' \subseteq index
    BY <1>2 DEF ChainInv, ResetBlockFailureFlags
  <2> QED
    BY <1>1, <1>3, <1>4, <2>2, <2>3
<1> QED
  BY <1>9, <1>10 DEF ChainInv

\* What FindMostWorkChain flags lies above a flagged block of its own chain.
LEMMA DroppedAboveFlag ==
  ASSUME ChainInv, NEW flag, NEW x \in DroppedBy(flag)
  PROVE  x \in data /\ \E f \in flag \cap Flagged : f \in Ancestry[x]
<1>1. PICK b \in Dropped : Highest(Ancestry[b] \cap Flagged) \in flag /\ x \in AboveFlag(b)
  BY DEF DroppedBy
<1> DEFINE f == Highest(Ancestry[b] \cap Flagged)
<1>2. b \in data /\ b \in Block /\ Ancestry[b] \cap Flagged # {} /\ Ancestry[b] \subseteq data
  BY DEF Dropped, Usable, Candidates, HaveTxsDownloaded, ChainInv
<1>3. f \in Ancestry[b] \cap Flagged
  BY <1>2, Extremes
<1>4. x \in Ancestry[b] \ Ancestry[f]
  BY <1>1 DEF AboveFlag
<1>5. f \in Ancestry[x]
  BY <1>2, <1>3, <1>4, OnOneChain
<1> QED
  BY <1>1, <1>2, <1>3, <1>4, <1>5

\* ActivateBestChainStep moves the tip to a stored block of a chain without a
\* flag, and passes BLOCK_CONFLICT_CHAINLOCK on to descendants only.
LEMMA ActivateBestChainStepInv ==
  ASSUME ChainInv, islock \in [Conflicted -> {"none", "pending", "live", "pruned"}],
         mined \subseteq Conflicted \cap index, ActivateBestChainStep
  PROVE  /\ ChainInv'
         /\ islock' \in [Conflicted -> {"none", "pending", "live", "pruned"}]
         /\ mined' \subseteq Conflicted \cap index
<1>1. tip \in Block /\ Ancestry[tip] \subseteq data /\ index' = index /\ data' = data
  BY DEF ChainInv, ActivateBestChainStep
<1>2. DroppedBy(failed) \subseteq data
  BY DroppedAboveFlag
<1>3. conflict' = conflict \cup DroppedBy(conflict \ failed)
  BY DEF ActivateBestChainStep
<1>4. ASSUME NEW d \in Block, conflict \cap Ancestry[d] = {}
      PROVE  conflict' \cap Ancestry[d] = {}
  <2> SUFFICES ASSUME NEW x \in DroppedBy(conflict \ failed), x \in Ancestry[d] PROVE FALSE
    BY <1>3, <1>4
  <2>1. PICK f \in (conflict \ failed) \cap Flagged : f \in Ancestry[x]
    BY DroppedAboveFlag
  <2>2. f \in Ancestry[d]
    BY <2>1, Transitive
  <2> QED
    BY <1>4, <2>1, <2>2
<1>5. conflict \cap Ancestry[tip] = {} /\ \A c \in ClSig : conflict \cap Ancestry[c] = {}
  BY DEF ChainInv, LockedChainUnmarked
<1>6. conflict' \subseteq index
  <2>1. DroppedBy(conflict \ failed) \subseteq data
    BY DroppedAboveFlag
  <2> QED
    BY <1>3, <2>1 DEF ChainInv
<1>7. /\ tip' \in data /\ Ancestry[tip'] \subseteq data /\ failed' \subseteq index
      /\ conflict \cap Ancestry[tip'] = {}
      /\ islock' \in [Conflicted -> {"none", "pending", "live", "pruned"}]
      /\ mined' \subseteq Conflicted \cap index
  <2>1. CASE failed' = failed \cup DroppedBy(failed) /\ UNCHANGED <<tip, islock, mined>>
    BY <1>2, <1>5, <2>1 DEF ChainInv
  <2>2. ASSUME NEW m \in FindMostWorkChain,
               LET ahead  == {b \in Ancestry[m] \ Ancestry[tip] : Height[b] <= Height[tip] + 1}
                   bad    == {b \in ahead : Rejects(b)}
                   good   == IF bad = {} THEN ahead ELSE ahead \cap Ancestry[Parent[Lowest(bad)]]
               IN  /\ tip' = Highest((Ancestry[m] \cap Ancestry[tip]) \cup good)
                   /\ failed' = failed \cup DroppedBy(failed)
                                       \cup (IF bad = {} THEN {} ELSE {Lowest(bad)})
                   /\ islock' = [b \in Conflicted |-> IF b \in good /\ islock[b] = "live"
                                                      THEN "pruned" ELSE islock[b]]
                   /\ mined' = mined \cup (good \cap Conflicted)
        PROVE  /\ tip' \in data /\ Ancestry[tip'] \subseteq data /\ failed' \subseteq index
               /\ conflict \cap Ancestry[tip'] = {}
               /\ islock' \in [Conflicted -> {"none", "pending", "live", "pruned"}]
               /\ mined' \subseteq Conflicted \cap index
    <3> DEFINE ahead == {b \in Ancestry[m] \ Ancestry[tip] : Height[b] <= Height[tip] + 1}
               bad   == {b \in ahead : Rejects(b)}
               good  == IF bad = {} THEN ahead ELSE ahead \cap Ancestry[Parent[Lowest(bad)]]
               fork  == Ancestry[m] \cap Ancestry[tip]
    <3>1. m \in Block /\ Ancestry[m] \subseteq data /\ Ancestry[m] \cap Flagged = {}
      BY DEF FindMostWorkChain, Usable, Candidates, HaveTxsDownloaded, ChainInv
    <3>2. good \subseteq Ancestry[m] /\ bad \subseteq Ancestry[m]
      OBVIOUS
    <3>3. bad # {} => Lowest(bad) \in Ancestry[m]
      BY <3>1, <3>2, Extremes
    <3>4. fork # {}
      BY <1>1, <3>1, TreeAssumption
    <3>5. /\ tip' = Highest(fork \cup good)
          /\ failed' = failed \cup DroppedBy(failed) \cup (IF bad = {} THEN {} ELSE {Lowest(bad)})
          /\ islock' = [b \in Conflicted |-> IF b \in good /\ islock[b] = "live"
                                             THEN "pruned" ELSE islock[b]]
          /\ mined' = mined \cup (good \cap Conflicted)
      BY <2>2
    <3>6. tip' \in Ancestry[m]
      <4>1. fork \cup good \in SUBSET Ancestry[m] /\ fork \cup good # {}
        BY <3>2, <3>4
      <4> HIDE DEF fork, good
      <4> QED
        BY <3>1, <3>5, <4>1, Extremes
    <3>7. conflict \cap Ancestry[tip'] = {} /\ Ancestry[tip'] \subseteq data
      BY <3>1, <3>6, Transitive DEF Flagged
    <3>8. failed' \subseteq index
      <4> HIDE DEF bad
      <4> QED
        BY <1>2, <3>1, <3>3, <3>5 DEF ChainInv
    <3>9. islock' \in [Conflicted -> {"none", "pending", "live", "pruned"}] /\ mined' \subseteq Conflicted \cap index
      <4> HIDE DEF good
      <4> QED
        BY <3>1, <3>2, <3>5 DEF ChainInv
    <3> QED
      BY <3>1, <3>6, <3>7, <3>8, <3>9
  <2> QED
    BY <2>1, <2>2 DEF ActivateBestChainStep
<1>8. LockedChainUnmarked'
  <2>1. tip' \in Block
    BY <1>7 DEF ChainInv
  <2>2. conflict' \cap Ancestry[tip'] = {}
    BY <1>4, <1>7, <2>1
  <2>3. \A c \in ClSig : conflict' \cap Ancestry[c] = {}
    BY <1>4, <1>5, ClSigAssumption
  <2> QED
    BY <2>2, <2>3 DEF LockedChainUnmarked
<1> QED
  BY <1>1, <1>6, <1>7, <1>8 DEF ChainInv

-----------------------------------------------------------------------------
(* The invariant.                                                          *)

\* The invariant holds when the node starts.
LEMMA InitInv == Init => IInv
<1> SUFFICES ASSUME Init PROVE IInv
  OBVIOUS
<1>1. tip \in Block /\ Stored = Ancestry[tip]
  BY StoredAssumption DEF Init
<1>2. ChainInv
  BY <1>1, StoredAssumption DEF Init, ChainInv, LockedChainUnmarked
<1>3. LockInv
  <2>1. events \in 0 .. MaxEvents
    BY MaxEventsAssumption DEF Init
  <2> QED
    BY <2>1, Zenon DEF Init, LockInv
<1>4. Idle \in Call /\ Idle \in Resolver /\ Idle.pc = "idle"
  BY DEF Idle, Call, Resolver
<1>5. ThreadInv
  BY <1>4 DEF Init, ThreadInv
<1> QED
  BY <1>2, <1>3, <1>5 DEF IInv

\* CheckActiveState forgets the lock altogether or not at all.
LEMMA CheckActiveStateInv ==
  ASSUME LockInv, NEW t, CheckActiveState(t), UNCHANGED <<index, spork, events>>,
         seen' \subseteq ClSig, resetting \subseteq Thread
  PROVE  LockInv' /\ resetting' \subseteq Thread
BY DEF LockInv, CheckActiveState, ResetChainlock

\* Every step preserves the invariant.
LEMMA NextInv == IInv /\ [Next]_vars => IInv'
<1> SUFFICES ASSUME IInv, [Next]_vars PROVE IInv'
  OBVIOUS
<1>0. ChainInv /\ LockInv /\ ThreadInv
  BY DEF IInv
<1>a. Idle \in Call /\ Idle \in Resolver /\ Idle.pc = "idle"
  BY DEF Idle, Call, Resolver
<1>b. ASSUME UNCHANGED chain PROVE ChainInv' /\ index' = index
  BY <1>0, <1>b DEF chain, ChainInv, LockedChainUnmarked
<1>c. ASSUME UNCHANGED <<index, locks>> PROVE LockInv'
  BY <1>0, <1>c DEF locks, LockInv
<1>d. ASSUME UNCHANGED <<resetting, msg, enforce, isend>>, index \subseteq index' PROVE ThreadInv'
  BY <1>0, <1>d DEF isend, ThreadInv
<1>e. ASSUME NEW t \in Thread, SeeActivation(t) PROVE IInv'
  <2>1. ChainInv' /\ index' = index
    BY <1>b, <1>e DEF SeeActivation
  <2>2. LockInv'
    BY <1>0, <1>e, <2>1 DEF LockInv, SeeActivation
  <2>3. ThreadInv'
    BY <1>0, <1>e, <2>1 DEF ThreadInv, SeeActivation, isend
  <2> QED
    BY <2>1, <2>2, <2>3 DEF IInv
<1>1. ASSUME NEW h \in Handler, NEW c \in ClSig, ProcessNewChainLock(h, c) PROVE IInv'
  <2>1. ChainInv' /\ index' = index
    BY <1>1, <1>b DEF ProcessNewChainLock
  <2>2. LockInv' /\ resetting' \subseteq Thread
    <3>1. seen' \subseteq ClSig
      BY <1>0, <1>1 DEF ProcessNewChainLock, LockInv
    <3> QED
      BY <1>0, <1>1, <2>1, <3>1, CheckActiveStateInv DEF ProcessNewChainLock, ThreadInv
  <2>3. ThreadInv'
    <3> DEFINE new == [pc |-> "verified", block |-> c, pindex |-> NoBlock]
    <3>1. new \in Call /\ new.pc = "verified" /\ new.block \in ClSig
      BY DEF Call
    <3>2. PICK t \in {Idle, new} : msg' = [msg EXCEPT ![h] = t]
      BY <1>1 DEF ProcessNewChainLock
    <3> HIDE DEF new
    <3>3. t \in Call /\ t.pc # "found" /\ (t.pc = "verified" => t.block \in ClSig)
      BY <1>a, <3>1, <3>2
    <3> QED
      BY <1>0, <1>1, <2>1, <2>2, <3>2, <3>3 DEF ThreadInv, ProcessNewChainLock, isend
  <2> QED
    BY <2>1, <2>2, <2>3 DEF IInv
<1>2. ASSUME NEW h \in Handler, LookupBlockIndex(h) PROVE IInv'
  <2>1. ChainInv' /\ LockInv' /\ index' = index
    BY <1>2, <1>b, <1>c DEF LookupBlockIndex
  <2>2. ThreadInv'
    <3>1. msg[h] \in Call /\ msg[h].block \in ClSig
      BY <1>0, <1>2 DEF ThreadInv, LookupBlockIndex
    <3> DEFINE found == [pc |-> "found", block |-> msg[h].block,
                         pindex |-> IF msg[h].block \in index THEN msg[h].block ELSE NoBlock]
    <3>2. msg' = [msg EXCEPT ![h] = found]
      BY <1>2 DEF LookupBlockIndex
    <3>3. /\ found \in Call /\ found.pc = "found" /\ found.block \in ClSig
          /\ found.pindex \in {NoBlock} \cup ({found.block} \cap index)
      BY <3>1 DEF Call
    <3> HIDE DEF found
    <3> QED
      BY <1>0, <1>2, <2>1, <3>2, <3>3 DEF ThreadInv, LookupBlockIndex, isend
  <2> QED
    BY <2>1, <2>2 DEF IInv
<1>3. ASSUME NEW h \in Handler, FinishChainLock(h) PROVE IInv'
  <2>1. ChainInv' /\ index' = index
    BY <1>3, <1>b DEF FinishChainLock
  <2>2. ThreadInv'
    BY <1>0, <1>3, <1>a, <2>1 DEF ThreadInv, FinishChainLock, isend
  <2>3. LockInv'
    <3> DEFINE c == msg[h].block
               p == msg[h].pindex
    <3>1. c \in ClSig /\ p \in {NoBlock} \cup ({c} \cap index)
      BY <1>0, <1>3 DEF ThreadInv, FinishChainLock
    <3>2. /\ best' = IF Height[c] > HeightOf(best) THEN c ELSE best
          /\ known' = IF Height[c] > HeightOf(best) /\ p # NoBlock THEN p ELSE known
      BY <1>3 DEF FinishChainLock, UpdateBestChainlock
    <3> HIDE DEF c, p
    <3>3. NoBlock \notin ClSig /\ c \in Block /\ c \in Ancestry[c]
      BY <3>1, ClSigAssumption, TreeAssumption
    <3>4. ASSUME Height[c] > HeightOf(best), known # NoBlock PROVE known \in Ancestry[c]
      <4>1. best \in ClSig /\ best \in Block /\ known \in Ancestry[best] /\ best \in Ancestry[best]
        BY <1>0, <3>4, ClSigAssumption, TreeAssumption DEF LockInv
      <4>2. best \in Ancestry[c]
        <5>1. CASE c \in Ancestry[best]
          <6>1. Height[c] <= Height[best]
            BY <3>3, <4>1, <5>1, TreeAssumption
          <6> QED
            BY <3>3, <3>4, <4>1, <6>1, TreeAssumption DEF HeightOf
        <5> QED
          BY <3>1, <4>1, <5>1, ClSigAssumption
      <4> QED
        BY <3>3, <4>1, <4>2, Transitive
    <3>5. best' \in ClSig \cup {NoBlock} /\ known' \in (ClSig \cap index') \cup {NoBlock}
      BY <1>0, <2>1, <3>1, <3>2 DEF LockInv
    <3>6. known' # NoBlock => best' # NoBlock /\ known' \in Ancestry[best']
      BY <1>0, <3>1, <3>2, <3>3, <3>4 DEF LockInv
    <3> QED
      BY <1>0, <1>3, <3>5, <3>6 DEF LockInv, FinishChainLock
  <2> QED
    BY <2>1, <2>2, <2>3 DEF IInv
<1>4. ASSUME NEW b \in Block, AcceptBlockHeader(b) PROVE IInv'
  <2>1. index' = index \cup {b} /\ b \notin index
    BY <1>4 DEF AcceptBlockHeader
  <2>2. ThreadInv'
    BY <1>4, <1>d, <2>1 DEF AcceptBlockHeader
  <2>3. LockInv'
    <3>1. best # NoBlock => best \in Ancestry[best]
      BY <1>0, ClSigAssumption, TreeAssumption DEF LockInv
    <3> QED
      BY <1>0, <1>4, <2>1, <3>1 DEF LockInv, AcceptBlockHeader
  <2>4. conflict' \subseteq conflict \cup {b}
    BY <1>4 DEF AcceptBlockHeader
  <2>5. \A d \in ClSig : conflict' \cap Ancestry[d] = {}
    <3>1. \A d \in ClSig : conflict \cap Ancestry[d] = {}
      BY <1>0 DEF ChainInv, LockedChainUnmarked
    <3>2. CASE HasConflictingChainLock(b)
      <4>1. known \in ClSig /\ Height[b] <= Height[known] /\ b \notin Ancestry[known]
        BY <1>0, <3>2 DEF LockInv, HasConflictingChainLock
      <4> QED
        BY <2>4, <3>1, <4>1, ConflictsWithAll
    <3>3. CASE ~HasConflictingChainLock(b)
      BY <1>4, <3>1, <3>3 DEF AcceptBlockHeader
    <3> QED
      BY <3>2, <3>3
  <2>6. tip' = tip /\ conflict' \cap Ancestry[tip] = {}
    BY <1>0, <1>4, <2>1, <2>4 DEF ChainInv, LockedChainUnmarked, AcceptBlockHeader
  <2>7. ChainInv'
    BY <1>0, <1>4, <2>1, <2>4, <2>5, <2>6 DEF ChainInv, LockedChainUnmarked, AcceptBlockHeader
  <2> QED
    BY <2>2, <2>3, <2>7 DEF IInv
<1>5. ASSUME NEW b \in Block, AcceptBlock(b) PROVE IInv'
  <2>1. LockInv' /\ ThreadInv'
    BY <1>5, <1>c, <1>d DEF AcceptBlock
  <2>2. ChainInv'
    BY <1>0, <1>5 DEF ChainInv, LockedChainUnmarked, AcceptBlock
  <2> QED
    BY <2>1, <2>2 DEF IInv
<1>6. ASSUME ActivateBestChainStep, UNCHANGED enforce PROVE IInv'
  <2>1. index' = index /\ UNCHANGED <<locks, resetting, msg, enforce, resolve>>
    BY <1>6 DEF ActivateBestChainStep
  <2>2. /\ ChainInv'
        /\ islock' \in [Conflicted -> {"none", "pending", "live", "pruned"}]
        /\ mined' \subseteq Conflicted \cap index
    BY <1>0, <1>6, ActivateBestChainStepInv DEF ThreadInv
  <2>3. LockInv'
    BY <1>c, <2>1
  <2>4. ThreadInv'
    BY <1>0, <2>1, <2>2 DEF ThreadInv
  <2> QED
    BY <2>2, <2>3, <2>4 DEF IInv
<1>7. ASSUME Enforce PROVE IInv'
  <2>1. ChainInv' /\ index' = index
    BY <1>7, <1>b DEF Enforce
  <2>2. LockInv' /\ resetting' \subseteq Thread
    <3>1. seen' \subseteq ClSig
      BY <1>0, <1>7 DEF Enforce, Cleanup, LockInv
    <3> QED
      BY <1>0, <1>7, <2>1, <3>1, CheckActiveStateInv DEF Enforce, ThreadInv
  <2>3. enforce' \in Call /\ (enforce'.pc # "idle" => enforce'.pindex \in ClSig)
    <3>1. CASE enforce' = enforce
      BY <1>0, <3>1 DEF ThreadInv
    <3>2. CASE known' # NoBlock /\ enforce' = [pc |-> "enforce", block |-> NoBlock, pindex |-> known']
      <4>1. known' \in ClSig
        BY <2>2, <3>2 DEF LockInv
      <4> QED
        BY <3>2, <4>1 DEF Call
    <3> QED
      BY <1>7, <3>1, <3>2 DEF Enforce
  <2>4. ThreadInv'
    BY <1>0, <1>7, <2>1, <2>2, <2>3 DEF ThreadInv, Enforce, isend
  <2> QED
    BY <2>1, <2>2, <2>4 DEF IInv
<1>8. ASSUME EnforceStep PROVE IInv'
  <2>1. enforce \in Call /\ enforce.pindex \in ClSig /\ index' = index
    BY <1>0, <1>8 DEF ThreadInv, EnforceStep
  <2>2. ChainInv'
    BY <1>0, <1>8, <2>1, EnforceBlockInv DEF EnforceStep
  <2>3. LockInv'
    BY <1>8, <1>c DEF EnforceStep
  <2>4. enforce' \in Call /\ enforce'.pindex \in ClSig
    BY <1>8, <2>1 DEF EnforceStep, Call
  <2>5. ThreadInv'
    BY <1>0, <1>8, <2>4 DEF ThreadInv, EnforceStep, isend
  <2> QED
    BY <2>2, <2>3, <2>5 DEF IInv
<1>9. ASSUME EnforceDone PROVE IInv'
  <2>1. ChainInv' /\ index' = index
    BY <1>9, <1>b DEF EnforceDone
  <2>2. LockInv'
    BY <1>0, <1>9, <2>1 DEF LockInv, EnforceDone, Cleanup
  <2>3. ThreadInv'
    BY <1>0, <1>9, <1>a, <2>1 DEF ThreadInv, EnforceDone, isend
  <2> QED
    BY <2>1, <2>2, <2>3 DEF IInv
<1>10. ASSUME NEW b \in Conflicted, ReceiveInstantSendLock(b) PROVE IInv'
  <2>1. ChainInv' /\ index' = index
    BY <1>10, <1>b DEF ReceiveInstantSendLock
  <2>2. LockInv'
    BY <1>0, <1>10, <2>1, MaxEventsAssumption DEF LockInv, ReceiveInstantSendLock
  <2>3. islock' \in [Conflicted -> {"none", "pending", "live", "pruned"}]
    BY <1>0, <1>10 DEF ThreadInv, ReceiveInstantSendLock, ResolveBlockConflicts
  <2>4. resolve' \in Resolver /\ (resolve'.pc # "idle" => resolve'.pindex \in Conflicted \cap index)
    <3>1. CASE resolve' = resolve
      BY <1>0, <3>1 DEF ThreadInv
    <3>2. CASE b \in mined /\ resolve' = [pc |-> "invalidate", block |-> NoBlock, pindex |-> b]
      <4>1. b \in index
        BY <1>0, <3>2 DEF ThreadInv
      <4> QED
        BY <3>2, <4>1 DEF Resolver
    <3> QED
      BY <1>10, <3>1, <3>2 DEF ReceiveInstantSendLock, ResolveBlockConflicts
  <2>5. ThreadInv'
    BY <1>0, <1>10, <2>1, <2>3, <2>4 DEF ThreadInv, ReceiveInstantSendLock
  <2> QED
    BY <2>1, <2>2, <2>5 DEF IInv
<1>11. ASSUME InvalidateBlock PROVE IInv'
  <2> DEFINE b == resolve.pindex
  <2>1. /\ resolve \in Resolver /\ b \in Conflicted \cap index
        /\ index' = index /\ data' = data /\ conflict' = conflict
    BY <1>0, <1>11 DEF ThreadInv, InvalidateBlock
  <2>2. LockInv'
    BY <1>11, <1>c DEF InvalidateBlock
  <2>3. resolve' \in Resolver /\ (resolve'.pc # "idle" => resolve'.pindex \in Conflicted \cap index)
    <3>1. CASE resolve' = Idle
      BY <1>a, <3>1
    <3>2. CASE resolve' = [resolve EXCEPT !.pc = "reset"]
      BY <2>1, <3>2 DEF Resolver
    <3> QED
      BY <1>11, <3>1, <3>2 DEF InvalidateBlock
  <2>4. ThreadInv'
    BY <1>0, <1>11, <2>1, <2>3 DEF ThreadInv, InvalidateBlock
  <2>5. tip \in Block /\ Ancestry[tip] \subseteq data /\ b \in Block \ {Genesis}
    BY <1>0, <2>1, ConflictedAssumption DEF ChainInv
  <2>6. tip' \in Ancestry[tip]
    <3>1. CASE b \in Ancestry[tip]
      <4>1. tip' = Parent[b]
        BY <1>11, <3>1 DEF InvalidateBlock
      <4>2. Parent[b] \in Ancestry[b]
        BY <2>5, ParentIsAncestor
      <4> QED
        BY <2>5, <3>1, <4>1, <4>2, Transitive
    <3>2. CASE b \notin Ancestry[tip]
      BY <1>11, <2>5, <3>2, TreeAssumption DEF InvalidateBlock
    <3> QED
      BY <3>1, <3>2
  <2>7. Ancestry[tip'] \subseteq Ancestry[tip]
    BY <2>5, <2>6, Transitive
  <2>8. failed' \subseteq index
    BY <1>0, <1>11, <2>1, <2>5 DEF InvalidateBlock, ChainInv
  <2>9. ChainInv'
    BY <1>0, <2>1, <2>5, <2>6, <2>7, <2>8 DEF ChainInv, LockedChainUnmarked
  <2> QED
    BY <2>2, <2>4, <2>9 DEF IInv
<1>12. ASSUME ResetInvalidated PROVE IInv'
  <2>1. index' = index /\ LockInv'
    BY <1>12, <1>c DEF ResetInvalidated
  <2>2. ThreadInv'
    BY <1>0, <1>12, <1>a, <2>1 DEF ThreadInv, ResetInvalidated
  <2>3. failed' \subseteq index
    BY <1>0, <1>12 DEF ResetInvalidated, ResetBlockFailureFlags, ChainInv
  <2>4. ChainInv'
    BY <1>0, <1>12, <2>3 DEF ChainInv, LockedChainUnmarked, ResetInvalidated
  <2> QED
    BY <2>1, <2>2, <2>4 DEF IInv
<1>13. ASSUME FlipSpork PROVE IInv'
  <2>1. ChainInv' /\ index' = index
    BY <1>13, <1>b DEF FlipSpork
  <2>2. ThreadInv'
    BY <1>13, <1>d, <2>1 DEF FlipSpork
  <2>3. LockInv'
    BY <1>0, <1>13, <2>1, MaxEventsAssumption DEF LockInv, FlipSpork
  <2> QED
    BY <2>1, <2>2, <2>3 DEF IInv
<1>14. ASSUME UNCHANGED vars PROVE IInv'
  BY <1>14, <1>b, <1>c, <1>d DEF vars, IInv
<1> QED
  BY <1>e, <1>1, <1>2, <1>3, <1>4, <1>5, <1>6, <1>7, <1>8, <1>9, <1>10, <1>11, <1>12, <1>13, <1>14
  DEF Next, Thread, HandlerStep, ActivateBestChain, SchedulerStep, EnforceActivate, ResolveStep

-----------------------------------------------------------------------------
(* The theorems.                                                           *)

\* The conjunction of what follows is an invariant of every behaviour.
THEOREM Invariance == Spec => []IInv
BY InitInv, NextInv, PTL DEF Spec

\* The active chain is stored, and the known lock is the best one or an
\* ancestor of it, on a known header.
THEOREM TypeCorrect == Spec => []TypeOK
<1>1. IInv => TypeOK
  BY DEF IInv, ChainInv, LockInv, ThreadInv, TypeOK
<1> QED
  BY <1>1, Invariance, PTL

\* EnforceBlock, FindMostWorkChain and AcceptBlockHeader never set
\* BLOCK_CONFLICT_CHAINLOCK on the active chain or on the chain of a CLSIG.
THEOREM LockedChainStaysUnmarked == Spec => []LockedChainUnmarked
<1>1. IInv => LockedChainUnmarked
  BY DEF IInv, ChainInv
<1> QED
  BY <1>1, Invariance, PTL

\* A step of the handlers moves the known lock up its own chain, or is the reset
\* of a thread that found that ChainLocks got activated.
THEOREM ChainLocksStay == Spec => LocksStay
<1> DEFINE Kept == \A b \in Block :
                     HasChainLock(b) =>
                       HasChainLock(b)' \/ ~spork' \/ \E t \in resetting : t \notin resetting'
<1>1. IInv /\ IInv' /\ [Next]_vars => [Kept]_vars
  <2> SUFFICES ASSUME IInv, IInv', Next, NEW b \in Block,
                      HasChainLock(b), spork', resetting \subseteq resetting'
               PROVE  HasChainLock(b)'
    BY DEF Kept
  <2>1. LockInv /\ LockInv' /\ ThreadInv
    BY DEF IInv
  <2>2. known \in ClSig /\ known \in Block /\ b \in Ancestry[known] /\ known # NoBlock
        /\ best \in ClSig /\ best \in Block /\ known \in Ancestry[best]
    BY <2>1, ClSigAssumption, TreeAssumption DEF LockInv, HasChainLock
  <2> SUFFICES known' # NoBlock /\ b \in Ancestry[known']
    BY DEF HasChainLock
  <2>3. CASE known' = known
    BY <2>2, <2>3
  <2>4. ASSUME known' \in ClSig, known \in Ancestry[known']
        PROVE  known' # NoBlock /\ b \in Ancestry[known']
    BY <2>2, <2>4, Transitive, ClSigAssumption, TreeAssumption
  <2>5. ASSUME NEW t, CheckActiveState(t) PROVE known' # NoBlock /\ b \in Ancestry[known']
    BY <2>3, <2>5 DEF CheckActiveState
  <2>6. ASSUME NEW h \in Handler, FinishChainLock(h) PROVE known' # NoBlock /\ b \in Ancestry[known']
    <3> DEFINE c == msg[h].block
    <3>1. c \in ClSig /\ msg[h].pindex \in {NoBlock, c}
      BY <2>1, <2>6 DEF ThreadInv, FinishChainLock
    <3>2. \/ known' = known
          \/ known' = c /\ best' = c /\ Height[c] > HeightOf(best)
      BY <2>6, <3>1 DEF FinishChainLock, UpdateBestChainlock
    <3>3. CASE known' = c /\ best' = c /\ Height[c] > HeightOf(best)
      <4> HIDE DEF c
      <4>1. c \in Block /\ best # NoBlock /\ best \in Ancestry[best]
        BY <2>2, <3>1, ClSigAssumption, TreeAssumption
      <4>2. c \notin Ancestry[best]
        <5> SUFFICES ASSUME c \in Ancestry[best] PROVE FALSE
          OBVIOUS
        <5>1. Height[c] <= Height[best] /\ Height[c] \in Nat /\ Height[best] \in Nat
          BY <2>2, <4>1, TreeAssumption
        <5> QED
          BY <3>3, <4>1, <5>1 DEF HeightOf
      <4>3. best \in Ancestry[c]
        BY <2>2, <3>1, <4>2, ClSigAssumption
      <4>4. known \in Ancestry[c]
        BY <2>2, <4>1, <4>3, Transitive
      <4> QED
        BY <2>4, <3>1, <3>3, <4>4
    <3> QED
      BY <2>3, <3>2, <3>3
  <2>7. ASSUME NEW d \in Block, AcceptBlockHeader(d) PROVE known' # NoBlock /\ b \in Ancestry[known']
    <3>1. known' = known \/ known' = best
      BY <2>7 DEF AcceptBlockHeader
    <3> QED
      BY <2>2, <2>3, <2>4, <3>1
  <2> QED
    BY <2>3, <2>5, <2>6, <2>7
    DEF Next, HandlerStep, SchedulerStep, ResolveStep, SeeActivation, ProcessNewChainLock, LookupBlockIndex, AcceptBlock,
        ActivateBestChain, ActivateBestChainStep, Enforce, EnforceStep, EnforceActivate,
        EnforceDone, ReceiveInstantSendLock, InvalidateBlock, ResetInvalidated, FlipSpork, locks
<1> QED
  BY <1>1, Invariance, PTL DEF Spec, LocksStay
=============================================================================
