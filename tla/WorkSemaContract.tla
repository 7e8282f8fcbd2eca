-------------------------- MODULE WorkSemaContract --------------------------
(***************************************************************************)
(* What Threading::WorkSema promises the threads that use it, without the  *)
(* word, the kernel semaphores and the spinning: notifies are remembered   *)
(* until the worker takes them, all at once; a caller of WaitForEmpty is   *)
(* let go when the worker finds nothing new, or dies; an idle worker or a  *)
(* dead one keeps nobody waiting.  WorkSema implements it, and MTVURing,   *)
(* GifPath1 and GSJobQueue use it.                                         *)
(***************************************************************************)
VARIABLES sem,      \* "idle"; "run0": awake, nothing new; "runN": notified; "dead"
          waiting,  \* WAITING_EMPTY
          caller    \* of WaitForEmpty: "out", "asleep" or "returned"

vars == <<sem, waiting, caller>>

Init == sem = "run0" /\ waiting = FALSE /\ caller = "out"

NotifyOfWork == /\ sem # "dead"
                /\ sem' = "runN"
                /\ UNCHANGED <<waiting, caller>>

\* WaitForWork, WaitForWorkTimed and CheckForWork find new work.
TakeWork == /\ sem = "runN"
            /\ sem' = "run0"
            /\ UNCHANGED <<waiting, caller>>

\* WaitForWork and WaitForWorkTimed find none, ...
GoIdle == /\ sem = "run0"
          /\ sem' = "idle" /\ waiting' = FALSE
          /\ UNCHANGED caller

\* ... and WaitForWorkTimed gives up waiting for it.
TimeOut == /\ sem = "idle"
           /\ sem' = "run0"
           /\ UNCHANGED <<waiting, caller>>

\* CheckForWork finds none.
CheckForWork == /\ sem = "run0"
                /\ waiting' = FALSE
                /\ UNCHANGED <<sem, caller>>

Kill == /\ sem \in {"run0", "runN"}
        /\ sem' = "dead" /\ waiting' = FALSE
        /\ UNCHANGED caller

Reset == /\ sem = "dead" /\ caller = "out"
         /\ sem' = "run0"
         /\ UNCHANGED <<waiting, caller>>

\* Out of WaitForEmpty; the caller may go on in the same step.
Back == {"returned", "out"}

WaitForEmpty == /\ caller = "out"
                /\ IF sem \in {"idle", "dead"}
                     THEN caller' \in Back /\ UNCHANGED waiting
                     ELSE caller' = "asleep" /\ waiting' = TRUE
                /\ UNCHANGED sem

Return == /\ caller = "asleep" /\ ~waiting
          /\ caller' \in Back
          /\ UNCHANGED <<sem, waiting>>

Continue == /\ caller = "returned"
            /\ caller' = "out"
            /\ UNCHANGED <<sem, waiting>>

Next == \/ NotifyOfWork \/ TakeWork \/ GoIdle \/ TimeOut \/ CheckForWork \/ Kill \/ Reset
        \/ WaitForEmpty \/ Return \/ Continue

Spec == Init /\ [][Next]_vars

SemStates == {"idle", "run0", "runN", "dead"}

\* A thread that sleeps in WaitForEmpty and has not been let go sleeps behind a
\* worker that is awake or notified, and so looks at the word again.
NobodyStranded == waiting => caller = "asleep" /\ sem \in {"run0", "runN"}
=============================================================================
