----------------------------- MODULE ChainLocks -----------------------------
(***************************************************************************)
(* ChainLocks at one node: signatures that lock a block (CLSIGs) are       *)
(* processed by several threads, headers and blocks arrive before or after *)
(* them, InstantSend invalidates blocks that conflict with its locks, and  *)
(* a scheduler thread enforces the best lock every five seconds, which     *)
(* makes the locked chain the active one.                                  *)
(*                                                                         *)
(* CLSIGs that fail verification, notifications and relay are left out.    *)
(* ChainLockSigner.tla models the signing of the tip.                      *)
(***************************************************************************)
EXTENDS Integers, FiniteSets

CONSTANTS
  Block,       \* a tree of blocks
  Genesis,
  Parent,      \* [Block \ {Genesis} -> Block], pprev
  Ancestry,    \* [Block -> SUBSET Block], a block and its ancestors
  Height,      \* [Block -> Nat], nHeight
  Stored,      \* a chain of blocks that the node has when the model starts
  ClSig,       \* the blocks for which a quorum made a CLSIG
  Conflicted,  \* blocks with a transaction that an InstantSend lock excludes
  Handler,     \* threads that process CLSIGs: messages, recovered
               \* signatures, the submitchainlock call
  Scheduler,   \* the handler's own thread, cl-schdlr
  MaxEvents,   \* bound on changes of spork 19 and InstantSend locks together
  NoBlock

\* Ancestry and Height are those of a tree.
ASSUME TreeAssumption ==
  /\ Genesis \in Block
  /\ NoBlock \notin Block
  /\ Ancestry \in [Block -> SUBSET Block]
  /\ Height \in [Block -> Nat]
  /\ \A b \in Block : b \in Ancestry[b] /\ Genesis \in Ancestry[b]
  /\ \A b \in Block : \A c \in Ancestry[b] : Ancestry[c] \subseteq Ancestry[b]
  /\ \A b \in Block : \A c, d \in Ancestry[b] : Height[c] <= Height[d] <=> c \in Ancestry[d]
  /\ \A b \in Block \ {Genesis} :
       /\ Parent[b] \in Block
       /\ Ancestry[b] = Ancestry[Parent[b]] \cup {b}
       /\ Height[b] = Height[Parent[b]] + 1
  /\ Ancestry[Genesis] = {Genesis}

\* Chains are finite.
ASSUME ChainAssumption ==
  \A b \in Block : \A S \in SUBSET Ancestry[b] : S # {} =>
    /\ \E c \in S : \A d \in S : Height[d] <= Height[c]
    /\ \E c \in S : \A d \in S : Height[c] <= Height[d]

ASSUME StoredAssumption == Stored \subseteq Block /\ \E b \in Block : Stored = Ancestry[b]

\* A quorum never locks two branches, and never the genesis block.
ASSUME ClSigAssumption ==
  /\ ClSig \subseteq Block \ {Genesis}
  /\ \A c, d \in ClSig : c \in Ancestry[d] \/ d \in Ancestry[c]

\* The genesis block has no transaction that another could exclude.
ASSUME ConflictedAssumption == Conflicted \subseteq Block \ {Genesis}

ASSUME ThreadAssumption == Scheduler \notin Handler

ASSUME MaxEventsAssumption == MaxEvents \in Nat

VARIABLES
  index,     \* m_block_index: the headers that are known
  data,      \* blocks with BLOCK_HAVE_DATA
  failed,    \* blocks with a flag of BLOCK_FAILED_MASK
  conflict,  \* blocks with BLOCK_CONFLICT_CHAINLOCK
  tip,       \* m_chain.Tip()
  best,      \* bestChainLock
  known,     \* bestChainLockBlockIndex, bestChainLockWithKnownBlock
  seen,      \* seenChainLocks
  spork,     \* spork 19
  isEnabled, \* the handler's copy of it
  events,    \* changes of spork 19 and InstantSend locks so far
  resetting, \* threads that are about to reset the lock in CheckActiveState
  msg,       \* the rest of ProcessNewChainLock of each handler thread
  enforce,   \* EnforceBestChainLock and Cleanup of the scheduler thread
  islock,    \* InstantSend's lock against each block of Conflicted: not
             \* received, pending without its transaction, in the database,
             \* or removed from it
  mined,     \* blocks of Conflicted that nonLockedTxs may name as pindexMined
  resolve    \* ResolveBlockConflicts of InstantSend's thread

chain == <<index, data, failed, conflict, tip>>
locks == <<best, known, seen, spork, isEnabled, events>>
isend == <<islock, mined, resolve>>
vars  == <<chain, locks, resetting, msg, enforce, isend>>

Thread == Handler \cup {Scheduler}

Idle == [pc |-> "idle", block |-> NoBlock, pindex |-> NoBlock]

Init ==
  /\ index = Stored /\ data = Stored /\ failed = {} /\ conflict = {}
  /\ tip \in Stored /\ Stored = Ancestry[tip]
  /\ best = NoBlock /\ known = NoBlock /\ seen = {}
  /\ spork = TRUE /\ isEnabled = FALSE /\ events = 0
  /\ resetting = {}
  /\ msg = [h \in Handler |-> Idle]
  /\ enforce = Idle
  /\ islock = [b \in Conflicted |-> "none"]
  /\ mined = Conflicted \cap Stored
  /\ resolve = Idle

-----------------------------------------------------------------------------
(* The best ChainLock.                                                     *)

HeightOf(c) == IF c = NoBlock THEN -1 ELSE Height[c]

HasChainLock(b) == spork /\ known # NoBlock /\ b \in Ancestry[known]

HasConflictingChainLock(b) ==
  spork /\ known # NoBlock /\ Height[b] <= Height[known] /\ b \notin Ancestry[known]

\* Faulty variant: the height is not checked again.
UpdateBestChainlockAnyway(clsig, pindex) ==
  /\ best' = clsig
  /\ known' = IF pindex # NoBlock THEN pindex ELSE known

UpdateBestChainlock(clsig, pindex) ==
  LET newer == Height[clsig] > HeightOf(best) IN
  /\ best' = IF newer THEN clsig ELSE best
  /\ known' = IF newer /\ pindex # NoBlock THEN pindex ELSE known

-----------------------------------------------------------------------------
(* CheckActiveState.  isEnabled is atomic and written without the lock,    *)
(* which is taken for the reset alone: a thread that found that ChainLocks *)
(* got activated may reset the lock when others have gone on.  The reads   *)
(* and the write of isEnabled are one step.                                *)

GotActivated == ~isEnabled /\ spork

Free(t) == t \notin resetting /\ IF t = Scheduler THEN enforce.pc = "idle" ELSE msg[t].pc = "idle"

SeeActivation(t) ==
  /\ Free(t)
  /\ GotActivated
  /\ isEnabled' = TRUE
  /\ resetting' = resetting \cup {t}
  /\ UNCHANGED <<chain, best, known, seen, spork, events, msg, enforce, isend>>

\* Faulty variant: the block of the stale lock is kept.
ResetChainlockKeepsKnown ==
  /\ best' = NoBlock
  /\ known' = known

ResetChainlock ==
  /\ best' = NoBlock
  /\ known' = NoBlock

\* To the end of the call, and on to the next block under the lock.
CheckActiveState(t) ==
  \/ /\ Free(t)
     /\ ~GotActivated
     /\ isEnabled' = spork
     /\ UNCHANGED <<best, known, resetting>>
  \/ /\ t \in resetting
     /\ ResetChainlock
     /\ resetting' = resetting \ {t}
     /\ UNCHANGED isEnabled

-----------------------------------------------------------------------------
(* ProcessNewChainLock.                                                    *)

\* The handler does not hold its lock while it verifies the signature and
\* looks up the block.
ProcessNewChainLock(h, c) ==
  /\ CheckActiveState(h)
  /\ seen' = seen \cup {c}
  /\ msg' = [msg EXCEPT ![h] = IF c \in seen \/ Height[c] <= HeightOf(best')
                               THEN Idle
                               ELSE [pc |-> "verified", block |-> c, pindex |-> NoBlock]]
  /\ UNCHANGED <<chain, spork, events, enforce, isend>>

LookupBlockIndex(h) ==
  /\ msg[h].pc = "verified"
  /\ msg' = [msg EXCEPT ![h] =
                [pc |-> "found", block |-> msg[h].block,
                 pindex |-> IF msg[h].block \in index THEN msg[h].block ELSE NoBlock]]
  /\ UNCHANGED <<chain, locks, resetting, enforce, isend>>

FinishChainLock(h) ==
  /\ msg[h].pc = "found"
  /\ UpdateBestChainlock(msg[h].block, msg[h].pindex)
  /\ msg' = [msg EXCEPT ![h] = Idle]
  /\ UNCHANGED <<chain, seen, spork, isEnabled, events, resetting, enforce, isend>>

FlipSpork ==
  /\ events < MaxEvents
  /\ events' = events + 1
  /\ spork' = ~spork
  /\ UNCHANGED <<chain, best, known, seen, isEnabled, resetting, msg, enforce, isend>>

-----------------------------------------------------------------------------
(* Headers and blocks.                                                     *)

\* A header that conflicts with the lock is kept with a flag; one that came
\* after its CLSIG completes the lock (AcceptedBlockHeader).
AcceptBlockHeader(b) ==
  /\ b \in Block \ index
  /\ Parent[b] \in index \ conflict
  /\ Ancestry[b] \cap failed = {}
  /\ index' = index \cup {b}
  /\ conflict' = IF HasConflictingChainLock(b) THEN conflict \cup {b} ELSE conflict
  /\ known' = IF b = best /\ ~HasConflictingChainLock(b) THEN b ELSE known
  /\ UNCHANGED <<data, failed, tip, best, seen, spork, isEnabled, events,
                 resetting, msg, enforce, isend>>

\* In any order: a block may be stored before its parent.
AcceptBlock(b) ==
  /\ b \in index \ (data \cup failed \cup conflict)
  /\ data' = data \cup {b}
  /\ UNCHANGED <<index, failed, conflict, tip, locks, resetting, msg, enforce, isend>>

Highest(S) == CHOOSE b \in S : \A c \in S : Height[c] <= Height[b]

Lowest(S) == CHOOSE b \in S : \A c \in S : Height[b] <= Height[c]

Flagged == failed \cup conflict

\* HaveTxsDownloaded: the blocks that are stored with all their ancestors.
HaveTxsDownloaded == {b \in data : Ancestry[b] \subseteq data}

\* setBlockIndexCandidates without the tip.
Candidates == {b \in HaveTxsDownloaded \ Flagged : Height[b] > Height[tip]}

Usable == {b \in Candidates : Ancestry[b] \cap Flagged = {}}

\* Candidates that FindMostWorkChain tries and drops.
Dropped == {b \in Candidates \ Usable : \A u \in Usable : Height[b] > Height[u]}

\* The blocks of b's chain above its highest flagged ancestor.
AboveFlag(b) == Ancestry[b] \ Ancestry[Highest(Ancestry[b] \cap Flagged)]

DroppedBy(flag) ==
  UNION {AboveFlag(b) : b \in {b \in Dropped : Highest(Ancestry[b] \cap Flagged) \in flag}}

FindMostWorkChain == {b \in Usable : \A u \in Usable : Height[u] <= Height[b]}

\* InstantSend has its lock in the database, and rejects conflicts (Should-
\* InstantSendRejectConflicts: the node is synchronised and spork 3 is on).  A
\* ChainLock overrides it.
ConflictingISLock(b) == b \in Conflicted /\ islock[b] = "live" /\ ~HasChainLock(b)

\* ConnectBlock refuses the block.
Rejects(b) == HasConflictingChainLock(b) \/ ConflictingISLock(b)

\* One ActivateBestChainStep towards the chain with the most work.
ActivateBestChainStep ==
  /\ FindMostWorkChain # {} \/ Dropped # {}
  /\ \/ /\ FindMostWorkChain = {}
        /\ failed' = failed \cup DroppedBy(failed)
        /\ UNCHANGED <<tip, islock, mined>>
     \/ \E m \in FindMostWorkChain :
          LET ahead  == {b \in Ancestry[m] \ Ancestry[tip] : Height[b] <= Height[tip] + 1}
              bad    == {b \in ahead : Rejects(b)}
              good   == IF bad = {} THEN ahead ELSE ahead \cap Ancestry[Parent[Lowest(bad)]]
          IN  /\ tip' = Highest((Ancestry[m] \cap Ancestry[tip]) \cup good)
              /\ failed' = failed \cup DroppedBy(failed)
                                  \cup (IF bad = {} THEN {} ELSE {Lowest(bad)})
              /\ islock' = [b \in Conflicted |-> IF b \in good /\ islock[b] = "live"
                                                 THEN "pruned" ELSE islock[b]]
              /\ mined' = mined \cup (good \cap Conflicted)
  /\ conflict' = conflict \cup DroppedBy(conflict \ failed)
  /\ UNCHANGED <<index, data, locks, resetting, msg, resolve>>

\* After a new block.
ActivateBestChain == ActivateBestChainStep /\ UNCHANGED enforce

\* The failure flags go from b, its ancestors and its descendants.
ResetBlockFailureFlags(flags, b) ==
  {c \in flags : c \notin Ancestry[b] /\ b \notin Ancestry[c]}

-----------------------------------------------------------------------------
(* The handler's scheduler thread: EnforceBestChainLock and Cleanup.       *)

\* Old entries of seenChainLocks, if it is time and the node is synchronised.
Cleanup == \E old \in SUBSET seen : seen' = seen \ old

Enforce ==
  /\ CheckActiveState(Scheduler)
  /\ \/ /\ isEnabled' /\ known' # NoBlock
        /\ enforce' = [pc |-> "enforce", block |-> NoBlock, pindex |-> known']
        /\ UNCHANGED seen
     \/ /\ ~isEnabled' \/ known' = NoBlock
        /\ Cleanup
        /\ UNCHANGED enforce
  /\ UNCHANGED <<chain, spork, events, msg, isend>>

\* Faulty variant: the flags of the locked chain are not reset.
EnforceBlockKeepsFlags(b) ==
  LET walk     == Ancestry[b] \ Ancestry[tip]
      siblings == {c \in index \ (walk \cup {Genesis}) : \E w \in walk : Parent[c] = Parent[w]}
      active   == siblings \cap Ancestry[tip]
  IN
  /\ conflict' = conflict \cup siblings
                          \cup (IF active = {} THEN {} ELSE Ancestry[tip] \ Ancestry[b])
  /\ tip' = IF active = {} THEN tip ELSE Highest(Ancestry[tip] \cap Ancestry[b])
  /\ failed' = failed

\* Faulty variant: the children of the locked block are marked too.
EnforceBlockMarksChildren(b) ==
  LET walk     == Ancestry[b] \ Ancestry[tip]
      siblings == {c \in index \ (walk \cup {Genesis}) :
                     \E w \in walk : Parent[c] = Parent[w] \/ Parent[c] = w}
      active   == siblings \cap Ancestry[tip]
  IN
  /\ conflict' = conflict \cup siblings
                          \cup (IF active = {} THEN {} ELSE Ancestry[tip] \ Ancestry[b])
  /\ tip' = IF active = {} THEN tip ELSE Highest(Ancestry[tip] \cap Ancestry[b])
  /\ failed' = IF b \in data \ failed THEN failed ELSE ResetBlockFailureFlags(failed, b)

\* Mark every block that branches off below b as conflicting, disconnect the
\* active ones of them, and reconsider b.
EnforceBlock(b) ==
  LET walk     == Ancestry[b] \ Ancestry[tip]
      siblings == {c \in index \ (walk \cup {Genesis}) : \E w \in walk : Parent[c] = Parent[w]}
      active   == siblings \cap Ancestry[tip]
  IN
  /\ conflict' = conflict \cup siblings
                          \cup (IF active = {} THEN {} ELSE Ancestry[tip] \ Ancestry[b])
  /\ tip' = IF active = {} THEN tip ELSE Highest(Ancestry[tip] \cap Ancestry[b])
  /\ failed' = IF b \in data \ failed THEN failed ELSE ResetBlockFailureFlags(failed, b)

EnforceStep ==
  /\ enforce.pc = "enforce"
  /\ EnforceBlock(enforce.pindex)
  /\ enforce' = [enforce EXCEPT !.pc = "activate"]
  /\ UNCHANGED <<index, data, locks, resetting, msg, isend>>

\* ActivateBestChain, when the locked block is not active, to its end.
EnforceActivate ==
  /\ enforce.pc = "activate"
  /\ enforce.pindex \notin Ancestry[tip]
  /\ ActivateBestChainStep
  /\ UNCHANGED enforce

EnforceDone ==
  /\ enforce.pc = "activate"
  /\ enforce.pindex \in Ancestry[tip] \/ (FindMostWorkChain = {} /\ Dropped = {})
  /\ enforce' = Idle
  /\ Cleanup
  /\ UNCHANGED <<chain, best, known, spork, isEnabled, events, resetting, msg, isend>>

-----------------------------------------------------------------------------
(* InstantSend: a lock arrives that excludes a transaction of a block.     *)

\* Finds the block, active or not, in nonLockedTxs, unless InstantSend has not
\* been told yet that it was connected, or not since the node started, or has
\* been told of a ChainLock above it.  A conflict that has a ChainLock removes
\* the lock from the database.
ResolveBlockConflicts(b, status) ==
  \/ /\ islock' = [islock EXCEPT ![b] = status]
     /\ UNCHANGED resolve
  \/ /\ b \in mined /\ HasChainLock(b)
     /\ islock' = [islock EXCEPT ![b] = IF status = "live" THEN "pruned" ELSE status]
     /\ UNCHANGED resolve
  \/ /\ b \in mined /\ ~HasChainLock(b)
     /\ islock' = [islock EXCEPT ![b] = status]
     /\ resolve' = [pc |-> "invalidate", block |-> NoBlock, pindex |-> b]

\* ProcessInstantSendLock writes the lock to the database if it knows the
\* locked transaction, and otherwise sets it aside until that arrives.
ReceiveInstantSendLock(b) ==
  /\ events < MaxEvents
  /\ events' = events + 1
  /\ resolve.pc = "idle"
  /\ \E status \in {"pending", "live"} :
       /\ islock[b] = "none" \/ (islock[b] = "pending" /\ status = "live")
       /\ ResolveBlockConflicts(b, status)
  /\ UNCHANGED <<chain, best, known, seen, spork, isEnabled, resetting, msg, enforce, mined>>

\* RemoveConflictedTx and InvalidateBlock: the block may have got a ChainLock
\* since the test.  A lock may have been pending then, or its transaction may
\* have come.
InvalidateBlock ==
  LET b     == resolve.pindex
      above == IF b \in Ancestry[tip] THEN Ancestry[tip] \ Ancestry[Parent[b]] ELSE {}
  IN
  /\ resolve.pc = "invalidate"
  /\ tip' = IF b \in Ancestry[tip] THEN Parent[b] ELSE tip
  /\ failed' = failed \cup {b} \cup above
  /\ mined' = mined \ {b}
  /\ \/ resolve' = Idle
     \/ islock[b] = "pending" /\ resolve' = [resolve EXCEPT !.pc = "reset"]
  /\ UNCHANGED <<index, data, conflict, locks, resetting, msg, enforce, islock>>

\* When the transaction of the InstantSend lock is not known.
ResetInvalidated ==
  /\ resolve.pc = "reset"
  /\ failed' = ResetBlockFailureFlags(failed, resolve.pindex)
  /\ resolve' = Idle
  /\ UNCHANGED <<index, data, conflict, tip, locks, resetting, msg, enforce, islock, mined>>

-----------------------------------------------------------------------------

HandlerStep(h) ==
  \/ SeeActivation(h)
  \/ \E c \in ClSig : ProcessNewChainLock(h, c)
  \/ LookupBlockIndex(h)
  \/ FinishChainLock(h)

SchedulerStep ==
  \/ SeeActivation(Scheduler)
  \/ Enforce
  \/ EnforceStep
  \/ EnforceActivate
  \/ EnforceDone

ResolveStep == InvalidateBlock \/ ResetInvalidated

Next ==
  \/ \E h \in Handler : HandlerStep(h)
  \/ \E b \in Block : AcceptBlockHeader(b) \/ AcceptBlock(b)
  \/ ActivateBestChain
  \/ SchedulerStep
  \/ \E b \in Conflicted : ReceiveInstantSendLock(b)
  \/ ResolveStep
  \/ FlipSpork

Spec == Init /\ [][Next]_vars

\* The scheduler thread enforces the lock every five seconds, and InstantSend
\* completes what it began.
FairSpec == Spec /\ WF_vars(SchedulerStep) /\ WF_vars(ResolveStep)

-----------------------------------------------------------------------------
(* Properties.                                                             *)

Call == [pc : {"idle", "verified", "found", "enforce", "activate"},
         block : ClSig \cup {NoBlock}, pindex : ClSig \cup {NoBlock}]

Resolver == [pc : {"idle", "invalidate", "reset"},
             block : {NoBlock}, pindex : Conflicted \cup {NoBlock}]

\* The active chain is stored, and the known lock is the best one or an older
\* one, on a header that is known.
TypeOK ==
  /\ index \subseteq Block /\ data \subseteq index
  /\ failed \subseteq index /\ conflict \subseteq index
  /\ tip \in data /\ Ancestry[tip] \subseteq data
  /\ best \in ClSig \cup {NoBlock}
  /\ known \in (ClSig \cap index) \cup {NoBlock}
  /\ known # NoBlock => best # NoBlock /\ known \in Ancestry[best]
  /\ seen \subseteq ClSig
  /\ spork \in BOOLEAN /\ isEnabled \in BOOLEAN /\ events \in 0 .. MaxEvents
  /\ resetting \subseteq Thread
  /\ msg \in [Handler -> Call] /\ enforce \in Call
  /\ islock \in [Conflicted -> {"none", "pending", "live", "pruned"}]
  /\ mined \subseteq Conflicted \cap index
  /\ resolve \in Resolver

\* A block that has a ChainLock keeps it, whatever order CLSIGs, headers and
\* threads come in, until spork 19 is switched off, or a thread that found that
\* ChainLocks got activated resets the lock.
LocksStay ==
  [][\A b \in Block :
       HasChainLock(b) =>
         HasChainLock(b)' \/ ~spork' \/ \E t \in resetting : t \notin resetting']_vars

\* BLOCK_CONFLICT_CHAINLOCK, which nothing ever takes back here, is never set on
\* the active chain nor on the chain of a lock, also when the scheduler
\* enforces a lock that is no longer the best one.
LockedChainUnmarked ==
  /\ conflict \cap Ancestry[tip] = {}
  /\ \A c \in ClSig : conflict \cap Ancestry[c] = {}

\* A locked block whose chain the node has becomes active, also when InstantSend
\* invalidates it after it was locked: EnforceBlock reconsiders it.
LockEnforced ==
  \A c \in ClSig :
    (known = c /\ Ancestry[c] \subseteq data)
      ~> (c \in Ancestry[tip] \/ ~spork \/ known = NoBlock)
=============================================================================
