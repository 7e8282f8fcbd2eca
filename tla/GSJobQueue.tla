----------------------------- MODULE GSJobQueue -----------------------------
(***************************************************************************)
(* A job queue of the software renderer: the renderer pushes draws into a  *)
(* single-producer single-consumer ring (ringbuffer_base), a worker runs   *)
(* them, and a WorkSema puts the worker to sleep and the renderer to wait. *)
(* Both sides of the ring are split at the accesses to the two indices and *)
(* to the cells.  The WorkSema has the states of its contract.             *)
(***************************************************************************)
EXTENDS Integers, Sequences

CONSTANTS max_size,  \* cells of the ring
          MaxJobs    \* bound: jobs of a run

ASSUME GSJobQueueAssumption == max_size \in Nat \ {0, 1} /\ MaxJobs \in Nat

VARIABLES write_index, read_index, buffer,  \* the ring; a job is its number, 0 a destroyed one
          m_sema, waiting,                  \* "idle", "run0" or "runN"; 1: the renderer sleeps in WaitForEmpty
          m_exit,                           \* 1: the worker is to end
          rpc, item, synced,                \* renderer; item: the last job it pushed or is pushing
          wpc, job, done                    \* worker: the job in hand, jobs done

ring == <<write_index, read_index, buffer>>
renderer == <<rpc, item, synced>>
worker == <<wpc, job, done>>
vars == <<ring, m_sema, waiting, m_exit, renderer, worker>>

RendererPcs == {"idle", "push", "copy", "publish", "notify", "sync", "asleep", "exiting", "join", "gone"}
WorkerPcs == {"wait", "parked", "check", "loop", "run", "destroy", "advance", "exited"}

Init == /\ write_index = 0 /\ read_index = 0 /\ buffer = [i \in 0..(max_size - 1) |-> 0]
        /\ m_sema = "run0" /\ waiting = 0 /\ m_exit = 0
        /\ rpc = "idle" /\ item = 0 /\ synced = 0
        /\ wpc = "wait" /\ job = 0 /\ done = 0

-----------------------------------------------------------------------------
\* ringbuffer_base

next_index(arg) == (arg + 1) % max_size
empty == write_index = read_index

\* Mutant: every cell is used, so that full looks like empty.
fullLast == FALSE

\* One cell stays free, so that full and empty differ.
full == next_index(write_index) = read_index

-----------------------------------------------------------------------------
\* Renderer

\* Queue: the next draw.
Push == /\ rpc = "idle" /\ item < MaxJobs
        /\ item' = item + 1 /\ rpc' = "push"
        /\ UNCHANGED <<ring, m_sema, waiting, m_exit, synced, worker>>

\* push: look for room (and try again after a Timeslice), ...
PushRoom == /\ rpc = "push" /\ ~full
            /\ rpc' = "copy"
            /\ UNCHANGED <<ring, m_sema, waiting, m_exit, item, synced, worker>>

\* Mutant: the index is published before the cell is written.
PushCopyLate == /\ rpc = "copy"
                /\ write_index' = next_index(write_index)
                /\ rpc' = "notify" /\ synced' = 0
                /\ UNCHANGED <<read_index, buffer, m_sema, waiting, m_exit, item, worker>>

\* ... copy the job into its cell ...
PushCopy == /\ rpc = "copy"
            /\ buffer' = [buffer EXCEPT ![write_index] = item]
            /\ rpc' = "publish"
            /\ UNCHANGED <<write_index, read_index, m_sema, waiting, m_exit, item, synced, worker>>

\* ... and publish it.
PushPublish == /\ rpc = "publish"
               /\ write_index' = next_index(write_index)
               /\ rpc' = "notify" /\ synced' = 0
               /\ UNCHANGED <<read_index, buffer, m_sema, waiting, m_exit, item, worker>>

\* Mutant: notify only a worker that is parked.
NotifyParked == /\ rpc = "notify"
                /\ m_sema' = IF m_sema = "idle" THEN "runN" ELSE m_sema
                /\ rpc' = "idle"
                /\ UNCHANGED <<ring, waiting, m_exit, item, synced, worker>>

NotifyOfWork == /\ rpc = "notify"
                /\ m_sema' = "runN"
                /\ rpc' = "idle"
                /\ UNCHANGED <<ring, waiting, m_exit, item, synced, worker>>

\* IsSynced, when it answers true.
IsEmpty == /\ rpc = "idle" /\ empty
           /\ synced' = 1
           /\ UNCHANGED <<ring, m_sema, waiting, m_exit, rpc, item, worker>>

\* Sync: when IsSynced answers false, ...
Sync == /\ rpc = "idle" /\ ~empty
        /\ rpc' = "sync"
        /\ UNCHANGED <<ring, m_sema, waiting, m_exit, item, synced, worker>>

\* ... Wait.
Wait == /\ rpc = "sync"
        /\ IF m_sema = "idle" THEN synced' = 1 /\ rpc' = "idle" /\ waiting' = waiting
                              ELSE waiting' = 1 /\ rpc' = "asleep" /\ synced' = synced
        /\ UNCHANGED <<ring, m_sema, m_exit, item, worker>>

WaitReturn == /\ rpc = "asleep" /\ waiting = 0
              /\ synced' = 1 /\ rpc' = "idle"
              /\ UNCHANGED <<ring, m_sema, waiting, m_exit, item, worker>>

\* The destructor: raise m_exit, notify, join.
Destroy == /\ rpc = "idle"
           /\ m_exit' = 1 /\ rpc' = "exiting"
           /\ UNCHANGED <<ring, m_sema, waiting, item, synced, worker>>

DestroyNotify == /\ rpc = "exiting"
                 /\ m_sema' = "runN"
                 /\ rpc' = "join"
                 /\ UNCHANGED <<ring, waiting, m_exit, item, synced, worker>>

Join == /\ rpc = "join" /\ wpc = "exited"
        /\ rpc' = "gone"
        /\ UNCHANGED <<ring, m_sema, waiting, m_exit, item, synced, worker>>

Renderer == \/ Push \/ PushRoom \/ PushCopy \/ PushPublish \/ NotifyOfWork \/ IsEmpty \/ Sync \/ Wait \/ WaitReturn
            \/ Destroy \/ DestroyNotify \/ Join

-----------------------------------------------------------------------------
\* Worker

\* WaitForWork: take the work, or release the waiter and park.
WaitForWork == /\ wpc = "wait"
               /\ IF m_sema = "runN"
                  THEN m_sema' = "run0" /\ wpc' = "check" /\ waiting' = waiting
                  ELSE m_sema' = "idle" /\ wpc' = "parked" /\ waiting' = 0
               /\ UNCHANGED <<ring, m_exit, renderer, job, done>>

Wake == /\ wpc = "parked" /\ m_sema = "runN"
        /\ m_sema' = "run0" /\ wpc' = "check"
        /\ UNCHANGED <<ring, waiting, m_exit, renderer, job, done>>

CheckExit == /\ wpc = "check"
             /\ wpc' = IF m_exit = 1 THEN "exited" ELSE "loop"
             /\ UNCHANGED <<ring, m_sema, waiting, m_exit, renderer, job, done>>

\* Mutant: one job per wake-up.
ConsumeOnce == /\ wpc = "loop"
               /\ IF empty \/ job # 0 THEN wpc' = "wait" /\ job' = 0 ELSE wpc' = "run" /\ job' = buffer[read_index]
               /\ UNCHANGED <<ring, m_sema, waiting, m_exit, renderer, done>>

\* consume_one: leave the loop when the ring is empty, else run the job in its cell,
consume_one == /\ wpc = "loop"
               /\ IF empty THEN wpc' = "wait" /\ job' = 0 ELSE wpc' = "run" /\ job' = buffer[read_index]
               /\ UNCHANGED <<ring, m_sema, waiting, m_exit, renderer, done>>

\* (the job ends)
RunJob == /\ wpc = "run"
          /\ done' = done + 1
          /\ wpc' = "destroy"
          /\ UNCHANGED <<ring, m_sema, waiting, m_exit, renderer, job>>

\* destroy it
DestroyJob == /\ wpc = "destroy"
              /\ buffer' = [buffer EXCEPT ![read_index] = 0]
              /\ wpc' = "advance"
              /\ UNCHANGED <<write_index, read_index, m_sema, waiting, m_exit, renderer, job, done>>

\* and give the cell back.
AdvanceRead == /\ wpc = "advance"
               /\ read_index' = next_index(read_index)
               /\ wpc' = "loop"
               /\ UNCHANGED <<write_index, buffer, m_sema, waiting, m_exit, renderer, job, done>>

Worker == \/ WaitForWork \/ Wake \/ CheckExit \/ consume_one \/ RunJob \/ DestroyJob \/ AdvanceRead

\* The queue is gone.
Gone == rpc = "gone" /\ UNCHANGED vars

Next == Renderer \/ Worker \/ Gone
Spec == Init /\ [][Next]_vars

\* The worker runs, and the renderer finishes the calls it has begun.
FairSpec == /\ Spec /\ WF_vars(Worker)
            /\ WF_vars(PushRoom \/ PushCopy \/ PushPublish \/ NotifyOfWork \/ Wait \/ WaitReturn \/ DestroyNotify \/ Join)

-----------------------------------------------------------------------------
\* Properties

TypeOK == /\ write_index \in 0..(max_size - 1) /\ read_index \in 0..(max_size - 1)
          /\ buffer \in [0..(max_size - 1) -> 0..MaxJobs]
          /\ m_sema \in {"idle", "run0", "runN"} /\ waiting \in {0, 1} /\ m_exit \in {0, 1}
          /\ rpc \in RendererPcs /\ item \in 0..MaxJobs /\ synced \in {0, 1}
          /\ wpc \in WorkerPcs /\ job \in 0..MaxJobs /\ done \in 0..MaxJobs

Published == IF rpc \in {"push", "copy", "publish"} THEN item - 1 ELSE item
Distance(w, r) == (w + max_size - r) % max_size
Cell(r, k) == (r + k - 1) % max_size
size == Distance(write_index, read_index)

\* The cells between the indices; of the first one the worker may have destroyed
\* the job, which then is the one it has in hand.
Pending == [k \in 1..size |-> IF k = 1 /\ wpc = "advance" THEN job ELSE buffer[Cell(read_index, k)]]

Contract == INSTANCE JobQueue WITH capacity <- max_size - 1, pending <- Pending, pushed <- Published

\* Jobs the worker has given back.
Retired == IF wpc \in {"destroy", "advance"} THEN done - 1 ELSE done

\* The ring holds exactly the jobs published and not given back, in order.  The
\* renderer's room does not go away, and the worker has the oldest job in hand.
RingInv == /\ Retired >= 0 /\ size = Published - Retired
           /\ \A k \in 1..size : (k = 1 /\ wpc = "advance") \/ buffer[Cell(read_index, k)] = Retired + k
           /\ wpc \in {"run", "destroy", "advance"} => size > 0 /\ job = Retired + 1
           /\ rpc \in {"push", "copy", "publish"} => item > 0
           /\ rpc \in {"copy", "publish"} => size < max_size - 1
           /\ rpc = "publish" => buffer[write_index] = item

\* A job in the ring has somebody who knows of it: the worker is awake, or is
\* notified, or is about to be; so that a renderer released by a parking worker, or
\* let through by an idle semaphore, finds the ring empty.
WakeInv == /\ size > 0 => m_sema = "runN" \/ wpc \notin {"wait", "parked"} \/ rpc = "notify"
           /\ m_sema = "idle" => wpc = "parked"
           /\ waiting = 1 => rpc = "asleep"
           /\ rpc = "asleep" /\ waiting = 0 => size = 0
           /\ wpc = "exited" => m_exit = 1
           /\ m_exit = 1 => rpc \in {"exiting", "join", "gone"}

\* Ring, semaphore, Push, IsSynced and Sync together keep the promise of JobQueue:
\* jobs leave in the order of Push, and IsSynced and Sync, whichever way they
\* return, find nothing pending.
KeepsContract == Contract!Spec

\* A job has run, from its first to its last step, when it leaves the queue, and
\* runs once: the worker destroys the n-th job after n runs.
RunsEachOnce == wpc \in {"destroy", "advance"} => job = done

\* Jobs that are pushed are run, unless the queue is destroyed.
JobsRun == (done < Published) ~> (done = Published \/ m_exit = 1)
=============================================================================
