--------------------------- MODULE SerialExecutor ---------------------------
(***************************************************************************)
(* What a SingleThreadedSchedulerClient promises: "callbacks can behave as *)
(* if they are executed in order by a single thread".  A callback is known *)
(* by who added it.                                                        *)
(***************************************************************************)
EXTENDS Sequences

CONSTANTS Caller, \* who adds callbacks
          Nobody  \* not a caller

VARIABLES waiting,  \* callbacks in the order they were added
          executing \* the callback that runs now, or Nobody

vars == <<waiting, executing>>

Init == waiting = <<>> /\ executing = Nobody

Add(c) ==
  /\ waiting' = Append(waiting, c)
  /\ UNCHANGED executing

Begin ==
  /\ executing = Nobody
  /\ waiting # <<>>
  /\ executing' = Head(waiting)
  /\ waiting' = Tail(waiting)

End ==
  /\ executing # Nobody
  /\ executing' = Nobody
  /\ UNCHANGED waiting

Next == (\E c \in Caller : Add(c)) \/ Begin \/ End

Spec == Init /\ [][Next]_vars

\* The single thread keeps running.
FairSpec == Spec /\ WF_vars(Begin \/ End)
=============================================================================
