------------------------------ MODULE JobQueue ------------------------------
(***************************************************************************)
(* What a rasterizer's job queue promises the renderer: at most capacity   *)
(* jobs are pending, they are run in the order of Push, each to its end    *)
(* before the next, and a renderer that has synchronised finds them done.  *)
(***************************************************************************)
EXTENDS Integers, Sequences

CONSTANT capacity
VARIABLES pending,  \* jobs pushed and not done, in order
          pushed,   \* number of jobs pushed; job n is the n-th
          synced    \* 1: the renderer has been told that nothing is pending

abstract == <<pending, pushed, synced>>

Init == pending = <<>> /\ pushed = 0 /\ synced = 0

Push == /\ Len(pending) < capacity
        /\ pushed' = pushed + 1
        /\ pending' = Append(pending, pushed + 1)
        /\ synced' = 0

Done == /\ pending # <<>>
        /\ pending' = Tail(pending)
        /\ UNCHANGED <<pushed, synced>>

Synced == /\ pending = <<>>
          /\ synced' = 1
          /\ UNCHANGED <<pending, pushed>>

Next == Push \/ Done \/ Synced
Spec == Init /\ [][Next]_abstract
=============================================================================
