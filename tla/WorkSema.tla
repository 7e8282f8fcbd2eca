------------------------------ MODULE WorkSema ------------------------------
(***************************************************************************)
(* Threading::WorkSema: one worker thread, several producers.  A queue of  *)
(* work (kept elsewhere in the code) is abstracted to the number of items  *)
(* pending in it.  A load/compare-and-swap retry loop is one step: a       *)
(* failed CAS changes nothing and the loop reloads, so the value tested is *)
(* the value swapped.  Each kernel-semaphore operation is a step of its    *)
(* own.                                                                    *)
(***************************************************************************)
EXTENDS WorkSemaWord

CONSTANTS Producers,   \* threads that add work and call NotifyOfWork
          Waiter,      \* the one of them that also calls WaitForEmpty
          WorkerOps,   \* which of the three wait methods this worker uses
          Spin,        \* Threading::SpinBudget() # 0 (a multi-core host)
          MaxQueue,    \* bound: items pending in the queue
          MaxStray     \* bound: counts left on the semaphores by timeouts

ASSUME WorkSemaAssumption == /\ Waiter \in Producers
                             /\ WorkerOps # {}
                             /\ WorkerOps \subseteq {"WaitForWork", "WaitForWorkTimed", "CheckForWork"}
                             /\ Spin \in BOOLEAN
                             /\ MaxQueue \in Nat /\ MaxStray \in Nat

VARIABLES m_state,      \* the state word
          m_sema,       \* count of the semaphore the worker sleeps on
          m_empty_sema, \* count of the semaphore WaitForEmpty sleeps on
          wpc,          \* where the worker is
          ppc,          \* where each producer is
          exit,         \* the owner's shutdown flag
          queue,        \* items published and not yet processed
          covered,      \* how many of them some NotifyOfWork followed
          owed,         \* how many of them the WaitForEmpty call must see done
          stray         \* history: 1 once a notify has overtaken a timeout

vars == <<m_state, m_sema, m_empty_sema, wpc, ppc, exit, queue, covered, owed, stray>>
semas == <<m_sema, m_empty_sema>>
work == <<queue, covered, owed>>

IdleState == IF Spin THEN STATE_SPINNING ELSE STATE_SLEEPING

WorkerPcs == {"idle", "wakeEmpty", "wakeEmptyTimed", "checkEmpty", "spin", "park", "parkTimed",
              "timedOut", "ack", "woken", "drain", "killPost", "dead"}
ProducerPcs == {"idle", "notify", "post", "emptyWait", "emptyRet", "emptyTrue", "emptyFalse"}

Init == /\ m_state = STATE_RUNNING_0
        /\ m_sema = 0 /\ m_empty_sema = 0
        /\ wpc = "idle"
        /\ ppc = [p \in Producers |-> "idle"]
        /\ exit = 0
        /\ queue = 0 /\ covered = 0 /\ owed = 0 /\ stray = 0

-----------------------------------------------------------------------------
\* Producers

\* Add an item to the queue; NotifyOfWork is the next thing the thread does.
Publish(p) == /\ ppc[p] = "idle"
              /\ queue < MaxQueue
              /\ queue' = queue + 1
              /\ ppc' = [ppc EXCEPT ![p] = "notify"]
              /\ UNCHANGED <<m_state, semas, wpc, exit, covered, owed, stray>>

\* A NotifyOfWork with nothing new behind it (WaitGS, KickStart issue them).
NotifyAgain(p) == /\ ppc[p] = "idle"
                  /\ ppc' = [ppc EXCEPT ![p] = "notify"]
                  /\ UNCHANGED <<m_state, semas, wpc, exit, work, stray>>

\* The fetch_add of NotifyOfWork.
NotifyOfWork(p) == /\ ppc[p] = "notify"
                   /\ NotifyRoom(m_state)
                   /\ m_state' = AfterNotify(m_state)
                   /\ covered' = queue
                   /\ ppc' = [ppc EXCEPT ![p] = IF m_state = STATE_SLEEPING THEN "post" ELSE "idle"]
                   /\ UNCHANGED <<semas, wpc, exit, queue, owed, stray>>

\* m_sema.Post() of NotifyOfWork.
NotifyPost(p) == /\ ppc[p] = "post"
                 /\ m_sema' = m_sema + 1
                 /\ ppc' = [ppc EXCEPT ![p] = "idle"]
                 /\ UNCHANGED <<m_state, m_empty_sema, wpc, exit, work, stray>>

\* What WaitForEmpty returns for the word it loaded last.
EmptyResult(v) == IF IsDead(v) THEN "emptyFalse" ELSE "emptyTrue"

\* Mutant: takes RUNNING_0 for an empty queue.
WaitForEmptyAtOnceOff == /\ ppc[Waiter] = "idle"
                         /\ m_state <= 0
                         /\ owed' = covered
                         /\ ppc' = [ppc EXCEPT ![Waiter] = EmptyResult(m_state)]
                         /\ UNCHANGED <<m_state, semas, wpc, exit, queue, covered, stray>>

\* WaitForEmpty on a negative word returns without waiting.
WaitForEmptyAtOnce == /\ ppc[Waiter] = "idle"
                      /\ m_state < 0
                      /\ owed' = covered
                      /\ ppc' = [ppc EXCEPT ![Waiter] = EmptyResult(m_state)]
                      /\ UNCHANGED <<m_state, semas, wpc, exit, queue, covered, stray>>

\* WaitForEmpty on a running word raises the flag and goes to sleep.
WaitForEmpty == /\ ppc[Waiter] = "idle"
                /\ m_state >= 0
                /\ owed' = covered
                /\ m_state' = SetFlag(m_state)
                /\ ppc' = [ppc EXCEPT ![Waiter] = "emptyWait"]
                /\ UNCHANGED <<semas, wpc, exit, queue, covered, stray>>

\* m_empty_sema.Wait()
EmptyWake == /\ ppc[Waiter] = "emptyWait"
             /\ m_empty_sema > 0
             /\ m_empty_sema' = m_empty_sema - 1
             /\ ppc' = [ppc EXCEPT ![Waiter] = "emptyRet"]
             /\ UNCHANGED <<m_state, m_sema, wpc, exit, work, stray>>

\* The final load that decides the return value.
EmptyReturn == /\ ppc[Waiter] = "emptyRet"
               /\ ppc' = [ppc EXCEPT ![Waiter] = EmptyResult(m_state)]
               /\ UNCHANGED <<m_state, semas, wpc, exit, work, stray>>

\* The caller of WaitForEmpty goes on.
EmptyDone == /\ ppc[Waiter] \in {"emptyTrue", "emptyFalse"}
             /\ ppc' = [ppc EXCEPT ![Waiter] = "idle"]
             /\ owed' = 0
             /\ UNCHANGED <<m_state, semas, wpc, exit, queue, covered, stray>>

\* The owner asks the worker to stop: store the flag, then NotifyOfWork.
Close == /\ ppc[Waiter] = "idle"
         /\ exit = 0
         /\ exit' = 1
         /\ ppc' = [ppc EXCEPT ![Waiter] = "notify"]
         /\ UNCHANGED <<m_state, semas, wpc, work, stray>>

\* Reset() before a new worker starts; the owner joined the old one, so it is
\* gone, and the queue restarts empty.  The semaphore counts are not touched.
Reset == /\ wpc = "dead"
         /\ ppc[Waiter] = "idle"
         /\ m_state' = STATE_RUNNING_0
         /\ exit' = 0
         /\ wpc' = "idle"
         /\ queue' = 0 /\ covered' = 0 /\ owed' = 0
         /\ UNCHANGED <<semas, ppc, stray>>

Producer(p) == Publish(p) \/ NotifyAgain(p) \/ NotifyOfWork(p) \/ NotifyPost(p)
Owner == WaitForEmptyAtOnce \/ WaitForEmpty \/ EmptyWake \/ EmptyReturn \/ EmptyDone \/ Close \/ Reset

-----------------------------------------------------------------------------
\* Worker

\* The CAS of WaitForWork.  A call on a killed semaphore returns at once.
WaitForWork == /\ wpc \in {"idle", "dead"} /\ "WaitForWork" \in WorkerOps
               /\ ~IsDead(m_state)
               /\ m_state' = AfterWaitCas(m_state, IdleState)
               /\ wpc' = CASE ~NoNewWork(m_state) -> "woken"
                           [] NoNewWork(m_state) /\ HasFlag(m_state) -> "wakeEmpty"
                           [] OTHER -> IF Spin THEN "spin" ELSE "park"
               /\ UNCHANGED <<semas, ppc, exit, work, stray>>

\* m_empty_sema.Post() before idling.
WakeEmpty == /\ wpc = "wakeEmpty"
             /\ m_empty_sema' = m_empty_sema + 1
             /\ wpc' = IF Spin THEN "spin" ELSE "park"
             /\ UNCHANGED <<m_state, m_sema, ppc, exit, work, stray>>

\* The read-only spin saw the word move.
SpinSawWork == /\ wpc = "spin"
               /\ m_state # STATE_SPINNING
               /\ wpc' = "ack"
               /\ UNCHANGED <<m_state, semas, ppc, exit, work, stray>>

\* Mutant: a plain store instead of the CAS.
SpinExhaustedStore == /\ wpc = "spin"
                      /\ m_state' = STATE_SLEEPING /\ wpc' = "park"
                      /\ UNCHANGED <<semas, ppc, exit, work, stray>>

\* The budget ran out: demote to SLEEPING, unless a notify wins the CAS.
SpinExhausted == /\ wpc = "spin"
                 /\ IF m_state = STATE_SPINNING
                      THEN m_state' = STATE_SLEEPING /\ wpc' = "park"
                      ELSE wpc' = "ack" /\ UNCHANGED m_state
                 /\ UNCHANGED <<semas, ppc, exit, work, stray>>

\* m_sema.Wait()
Park == /\ wpc \in {"park", "parkTimed"}
        /\ m_sema > 0
        /\ m_sema' = m_sema - 1
        /\ wpc' = "ack"
        /\ UNCHANGED <<m_state, m_empty_sema, ppc, exit, work, stray>>

\* The CAS of WaitForWorkTimed.  A RUNNING_N word goes to the acknowledge too.
WaitForWorkTimed == /\ wpc \in {"idle", "dead"} /\ "WaitForWorkTimed" \in WorkerOps
                    /\ ~IsDead(m_state)
                    /\ m_state' = AfterWaitCas(m_state, STATE_SLEEPING)
                    /\ wpc' = CASE ~NoNewWork(m_state) -> "ack"
                                [] NoNewWork(m_state) /\ HasFlag(m_state) -> "wakeEmptyTimed"
                                [] OTHER -> "parkTimed"
                    /\ UNCHANGED <<semas, ppc, exit, work, stray>>

WakeEmptyTimed == /\ wpc = "wakeEmptyTimed"
                  /\ m_empty_sema' = m_empty_sema + 1
                  /\ wpc' = "parkTimed"
                  /\ UNCHANGED <<m_state, m_sema, ppc, exit, work, stray>>

\* m_sema.WaitFor(timeout_ms) gives up.
TimeOut == /\ wpc = "parkTimed"
           /\ m_sema = 0
           /\ m_empty_sema <= MaxStray
           /\ wpc' = "timedOut"
           /\ UNCHANGED <<m_state, semas, ppc, exit, work, stray>>

\* CAS SLEEPING -> RUNNING_0; when a notify won it, treat it as a wake: the
\* notify's post stays on m_sema for a later sleep.
TimeOutCas == /\ wpc = "timedOut"
              /\ IF m_state = STATE_SLEEPING
                   THEN m_state' = STATE_RUNNING_0 /\ wpc' = "idle" /\ UNCHANGED stray
                   ELSE wpc' = "ack" /\ stray' = 1 /\ UNCHANGED m_state
              /\ UNCHANGED <<semas, ppc, exit, work>>

\* fetch_and(&m_state, STATE_FLAG_WAITING_EMPTY)
Acknowledge == /\ wpc = "ack"
               /\ m_state' = KeepFlag(m_state)
               /\ wpc' = "woken"
               /\ UNCHANGED <<semas, ppc, exit, work, stray>>

\* CheckForWork: never sleeps, posts the empty semaphore when it finds nothing.
CheckForWork == /\ wpc \in {"idle", "dead"} /\ "CheckForWork" \in WorkerOps
                /\ ~IsDead(m_state)
                /\ m_state' = AfterCheckCas(m_state)
                /\ wpc' = CASE ~NoNewWork(m_state) -> "woken"
                            [] NoNewWork(m_state) /\ HasFlag(m_state) -> "checkEmpty"
                            [] OTHER -> "idle"
                /\ UNCHANGED <<semas, ppc, exit, work, stray>>

CheckEmpty == /\ wpc = "checkEmpty"
              /\ m_empty_sema' = m_empty_sema + 1
              /\ wpc' = "idle"
              /\ UNCHANGED <<m_state, m_sema, ppc, exit, work, stray>>

\* After a wait method returns, the owner's loop tests its shutdown flag once.
Enter == /\ wpc = "woken" /\ exit = 0
         /\ wpc' = "drain"
         /\ UNCHANGED <<m_state, semas, ppc, exit, work, stray>>

\* The worker's own loop: process one item, or find the queue empty.
Process == /\ wpc = "drain"
           /\ queue > 0
           /\ queue' = queue - 1
           /\ covered' = IF covered > 0 THEN covered - 1 ELSE 0
           /\ owed' = IF owed > 0 THEN owed - 1 ELSE 0
           /\ UNCHANGED <<m_state, semas, wpc, ppc, exit, stray>>

Drained == /\ wpc = "drain"
           /\ queue = 0
           /\ wpc' = "idle"
           /\ UNCHANGED <<m_state, semas, ppc, exit, work, stray>>

\* Mutant of Kill: the worker leaves its loop without having been asked to.
KillUnasked == /\ wpc = "woken"
               /\ m_state' = STATE_DEAD
               /\ wpc' = IF HasFlag(m_state) THEN "killPost" ELSE "dead"
               /\ UNCHANGED <<semas, ppc, exit, work, stray>>

\* Kill(): the exchange, then the post if a waiter had raised the flag.
Kill == /\ wpc = "woken" /\ exit = 1
        /\ m_state' = STATE_DEAD
        /\ wpc' = IF HasFlag(m_state) THEN "killPost" ELSE "dead"
        /\ UNCHANGED <<semas, ppc, exit, work, stray>>

KillPost == /\ wpc = "killPost"
            /\ m_empty_sema' = m_empty_sema + 1
            /\ wpc' = "dead"
            /\ UNCHANGED <<m_state, m_sema, ppc, exit, work, stray>>

Worker == \/ WaitForWork \/ WakeEmpty \/ SpinSawWork \/ SpinExhausted \/ Park
          \/ WaitForWorkTimed \/ WakeEmptyTimed \/ TimeOut \/ TimeOutCas \/ Acknowledge
          \/ CheckForWork \/ CheckEmpty \/ Enter \/ Process \/ Drained \/ Kill \/ KillPost

Next == Worker \/ Owner \/ \E p \in Producers : Producer(p)

\* The operating system keeps running a thread that can run: the worker, and a
\* producer inside NotifyOfWork or WaitForEmpty.  Nobody is obliged to add work,
\* to wait or to close.
Fairness == /\ WF_vars(Worker)
            /\ \A p \in Producers : WF_vars(NotifyOfWork(p) \/ NotifyPost(p))
            /\ WF_vars(EmptyWake \/ EmptyReturn \/ EmptyDone)

Spec == Init /\ [][Next]_vars
FairSpec == Spec /\ Fairness

-----------------------------------------------------------------------------
TypeOK == /\ m_state \in Word
          /\ m_sema \in Nat /\ m_empty_sema \in Nat
          /\ wpc \in WorkerPcs
          /\ ppc \in [Producers -> ProducerPcs]
          /\ exit \in {0, 1} /\ stray \in {0, 1}
          /\ queue \in 0..MaxQueue /\ covered \in 0..queue /\ owed \in 0..covered

\* WaitForEmpty returned true: every item that had been notified when the call
\* began has been processed ("Wait for the worker thread to finish processing
\* all entries in the queue or die").
EmptyMeansDrained == ppc[Waiter] = "emptyTrue" => owed = 0

\* As long as no timeout of WaitForWorkTimed has lost against a notify,
\* WaitForEmpty keeps that promise, for every mix of the wait methods.
DrainBarrier == stray = 0 => EmptyMeansDrained

\* A word that records the worker as spinning or sleeping promises an empty
\* queue: WaitForEmpty returns on it without waiting, and only a notify that
\* sees it wakes the worker.
IdleMeansDrained == stray = 0 /\ m_state \in {STATE_SPINNING, STATE_SLEEPING} => covered = 0

\* The post that wakes a sleeping worker is there exactly when a notify moved
\* the word off SLEEPING, and no count is left over for a later sleep.
NoStrayWake ==
  stray = 0 /\ m_sema > 0
    => wpc \in {"wakeEmpty", "wakeEmptyTimed", "park", "parkTimed", "timedOut"} /\ m_sema = 1 /\ m_state >= 0

\* The steps of the worker at which a post of m_empty_sema is still to come.
WakesEmpty == {"wakeEmpty", "wakeEmptyTimed", "checkEmpty", "killPost"}

\* The steps at which the word may be SLEEPING, or be moved off it by a notify.
Sleeps == {"park", "wakeEmptyTimed", "parkTimed", "timedOut"}

\* How the word, the two semaphores and the places of the threads fit together
\* while no notify has overtaken a timeout: the word tells where the worker is;
\* a wake-up is owed only to a worker that went to sleep, and at most one; the
\* WAITING_EMPTY flag, a pending post and the count of m_empty_sema are one
\* token, held only while WaitForEmpty sleeps; and the worker goes idle only
\* past an empty queue.
Synced ==
  /\ wpc \in {"idle", "checkEmpty", "ack", "woken", "drain"} => m_state >= 0
  /\ wpc \in {"killPost", "dead"} <=> IsDead(m_state)
  /\ wpc \in Sleeps => m_state # STATE_SPINNING
  /\ wpc = "spin" => m_state # STATE_SLEEPING
  /\ wpc = "wakeEmpty" => m_state >= 0 \/ m_state = IdleState
  /\ wpc = "spin" => Spin
  /\ m_sema > 0 => m_sema = 1 /\ \A p \in Producers : ppc[p] # "post"
  /\ \A p, q \in Producers : ppc[p] = "post" /\ ppc[q] = "post" => p = q
  /\ (m_sema > 0 \/ \E p \in Producers : ppc[p] = "post")
       => m_state >= 0 /\ (wpc \in Sleeps \/ (wpc = "wakeEmpty" /\ ~Spin))
  /\ m_state >= FLAG \/ wpc \in WakesEmpty \/ m_empty_sema > 0 => ppc[Waiter] = "emptyWait"
  /\ m_state >= FLAG => wpc \notin WakesEmpty /\ m_empty_sema = 0
  /\ wpc \in WakesEmpty => m_empty_sema = 0
  /\ m_empty_sema <= 1
  /\ m_state < 0 => IsDead(m_state) \/ covered = 0
  /\ wpc \in {"idle", "checkEmpty"} /\ NoNewWork(m_state) => covered = 0
  /\ wpc \in {"wakeEmpty", "wakeEmptyTimed", "checkEmpty"} => owed = 0
  /\ m_empty_sema > 0 \/ ppc[Waiter] = "emptyRet" => owed = 0 \/ IsDead(m_state)
  /\ ppc[Waiter] = "emptyTrue" => owed = 0
SyncInv == stray = 0 => Synced

\* What the contract sees: the steps of the worker at which it has gone idle and
\* not yet acknowledged; the state of the semaphore; the caller of WaitForEmpty.
Resting == {"wakeEmpty", "wakeEmptyTimed", "spin", "park", "parkTimed", "timedOut", "ack"}
Sem == CASE IsDead(m_state) -> "dead"
         [] m_state \in {STATE_SPINNING, STATE_SLEEPING} -> "idle"
         [] m_state >= 0 /\ (wpc \in Resting \/ ~NoNewWork(m_state)) -> "runN"
         [] OTHER -> "run0"
Caller == CASE ppc[Waiter] = "emptyWait" -> "asleep"
            [] ppc[Waiter] \in {"emptyRet", "emptyTrue", "emptyFalse"} -> "returned"
            [] OTHER -> "out"
Contract == INSTANCE WorkSemaContract WITH sem <- Sem, waiting <- (m_state >= FLAG), caller <- Caller

\* Word, semaphores, spinning and parking together keep the contract, for every
\* mix of the wait methods, until a notify overtakes a timeout: no notify is lost
\* between two looks of the worker, and WaitForEmpty is let go only by a worker
\* that finds nothing new, or dies.
ImplementsContract == Contract!Init /\ [][stray' = 0 => Contract!Next \/ UNCHANGED Contract!vars]_vars

\* Dead semaphores stay dead until Reset: no notify, wait or check turns the
\* word of a killed worker back into a live one.
DeadStaysDead == [][IsDead(m_state) /\ ~IsDead(m_state') => exit = 1 /\ exit' = 0]_vars

\* A WaitForEmpty sleeper is always woken: by the worker going idle, by its
\* CheckForWork finding nothing, or by its death; unless the other threads
\* notify for ever, when the worker never finds the word without new work.
WaiterReleased ==
  <>[](\A p \in Producers \ {Waiter} : ppc[p] # "notify")
    => ((ppc[Waiter] = "emptyWait") ~> (ppc[Waiter] # "emptyWait"))

\* Notified work is processed unless the worker is asked to stop.
WorkProcessed == (covered > 0) ~> (covered = 0 \/ exit = 1)
=============================================================================
