-------------------------- MODULE ThreadingProofs ---------------------------
(***************************************************************************)
(* Proofs about the threads: WorkSema (its drain barrier, and the contract *)
(* that the modules using it rely on), for every set of producers, every   *)
(* word size FLAG >= 4 and every queue bound; and the two threads that run *)
(* a machine (VMThreads), for every number of loads and banked posts.      *)
(***************************************************************************)
EXTENDS WorkSema, VMThreads, TLAPS

\* The bit operations stay inside the word, and the notify count of a
\* non-negative word is what the flag leaves.
LEMMA WordOps ==
  ASSUME NEW v \in Word
  PROVE  /\ KeepFlag(v) \in {0, FLAG}
         /\ KeepFlag(v) \in Word
         /\ v >= 0 => SetFlag(v) \in Word /\ SetFlag(v) >= FLAG
         /\ NotifyRoom(v) => AfterNotify(v) \in Word
         /\ STATE_DEAD \in Word
         /\ {STATE_SPINNING, STATE_SLEEPING, STATE_RUNNING_0} \subseteq Word
         /\ AfterWaitCas(v, IdleState) \in Word
         /\ AfterWaitCas(v, STATE_SLEEPING) \in Word
         /\ AfterCheckCas(v) \in Word
  BY FlagAssumption
  DEF Word, KeepFlag, HasFlag, SetFlag, NotifyRoom, AfterNotify, ClearFlag, IsDead, STATE_DEAD,
      STATE_SPINNING, STATE_SLEEPING, STATE_RUNNING_0, AfterWaitCas, AfterCheckCas, NoNewWork, IdleState

\* Every variable keeps its type, whatever wait methods the worker uses.
THEOREM TypeCorrect == Spec => []TypeOK
<1>1. Init => TypeOK
  BY WordOps, FlagAssumption, WorkSemaAssumption
  DEF Init, TypeOK, Word, STATE_RUNNING_0, WorkerPcs, ProducerPcs
<1>2. TypeOK /\ [Next]_vars => TypeOK'
  <2> SUFFICES ASSUME TypeOK, [Next]_vars PROVE TypeOK'
    OBVIOUS
  <2> USE WorkSemaAssumption DEF TypeOK, WorkerPcs, ProducerPcs, semas, work
  <2>1. ASSUME NEW p \in Producers, Producer(p) PROVE TypeOK'
    <3>1. CASE Publish(p)      BY <3>1 DEF Publish
    <3>2. CASE NotifyAgain(p)  BY <3>2 DEF NotifyAgain
    <3>3. CASE NotifyOfWork(p) BY <3>3, WordOps DEF NotifyOfWork
    <3>4. CASE NotifyPost(p)   BY <3>4 DEF NotifyPost
    <3> QED BY <2>1, <3>1, <3>2, <3>3, <3>4 DEF Producer
  <2>2. ASSUME Owner PROVE TypeOK'
    <3>0. CASE WaitForEmptyAtOnce BY <3>0 DEF WaitForEmptyAtOnce, EmptyResult
    <3>1. CASE WaitForEmpty BY <3>1, WordOps DEF WaitForEmpty
    <3>2. CASE EmptyWake    BY <3>2 DEF EmptyWake
    <3>3. CASE EmptyReturn  BY <3>3 DEF EmptyReturn, EmptyResult
    <3>4. CASE EmptyDone    BY <3>4 DEF EmptyDone
    <3>5. CASE Close        BY <3>5 DEF Close
    <3>6. CASE Reset        BY <3>6, WordOps DEF Reset
    <3> QED BY <2>2, <3>0, <3>1, <3>2, <3>3, <3>4, <3>5, <3>6 DEF Owner
  <2>3. ASSUME Worker PROVE TypeOK'
    <3>1. CASE WaitForWork      BY <3>1, WordOps DEF WaitForWork
    <3>2. CASE WakeEmpty        BY <3>2 DEF WakeEmpty
    <3>3. CASE SpinSawWork      BY <3>3 DEF SpinSawWork
    <3>4. CASE SpinExhausted    BY <3>4, WordOps DEF SpinExhausted
    <3>5. CASE Park             BY <3>5 DEF Park
    <3>6. CASE WaitForWorkTimed BY <3>6, WordOps DEF WaitForWorkTimed
    <3>7. CASE WakeEmptyTimed   BY <3>7 DEF WakeEmptyTimed
    <3>8. CASE TimeOut          BY <3>8 DEF TimeOut
    <3>9. CASE TimeOutCas       BY <3>9, WordOps DEF TimeOutCas
    <3>10. CASE Acknowledge     BY <3>10, WordOps DEF Acknowledge
    <3>11. CASE CheckForWork    BY <3>11, WordOps DEF CheckForWork
    <3>12. CASE CheckEmpty      BY <3>12 DEF CheckEmpty
    <3>13. CASE Enter           BY <3>13 DEF Enter
    <3>14. CASE Process         BY <3>14 DEF Process
    <3>15. CASE Drained         BY <3>15 DEF Drained
    <3>16. CASE Kill            BY <3>16, WordOps DEF Kill
    <3>17. CASE KillPost        BY <3>17 DEF KillPost
    <3> QED BY <2>3, <3>1, <3>2, <3>3, <3>4, <3>5, <3>6, <3>7, <3>8, <3>9, <3>10, <3>11, <3>12, <3>13,
               <3>14, <3>15, <3>16, <3>17 DEF Worker
  <2>4. CASE UNCHANGED vars BY <2>4 DEF vars
  <2> QED BY <2>1, <2>2, <2>3, <2>4 DEF Next
<1> QED BY <1>1, <1>2, PTL DEF Spec

-----------------------------------------------------------------------------
\* The word tests used below, for a word in range.
LEMMA WordFacts ==
  ASSUME NEW v \in Word
  PROVE  /\ v >= 0 => (HasFlag(v) <=> v >= FLAG)
         /\ v >= 0 /\ NotifyRoom(v) => ~NoNewWork(AfterNotify(v)) /\ (AfterNotify(v) >= FLAG <=> v >= FLAG)
         /\ v >= 0 => (NoNewWork(SetFlag(v)) <=> NoNewWork(v))
         /\ v >= 0 /\ ~NoNewWork(v) => v # 0 /\ v # FLAG
  BY FlagAssumption
  DEF Word, HasFlag, SetFlag, NotifyRoom, AfterNotify, ClearFlag, IsDead, NoNewWork,
      STATE_SPINNING, STATE_RUNNING_0

\* Once a notify has overtaken a timeout, the history says so for ever.
LEMMA StrayStays ==
  ASSUME TypeOK, [Next]_vars
  PROVE  stray' = 0 => stray = 0
<1>1. ASSUME Worker PROVE stray' = 0 => stray = 0
  BY <1>1 DEF Worker, TypeOK, WaitForWork, WakeEmpty, SpinSawWork, SpinExhausted, Park, WaitForWorkTimed,
      WakeEmptyTimed, TimeOut, TimeOutCas, Acknowledge, CheckForWork, CheckEmpty, Enter, Process, Drained,
      Kill, KillPost
<1>2. ASSUME Owner PROVE stray' = stray
  BY <1>2 DEF Owner, WaitForEmptyAtOnce, WaitForEmpty, EmptyWake, EmptyReturn, EmptyDone, Close, Reset
<1>3. ASSUME NEW p \in Producers, Producer(p) PROVE stray' = stray
  BY <1>3 DEF Producer, Publish, NotifyAgain, NotifyOfWork, NotifyPost
<1> QED BY <1>1, <1>2, <1>3 DEF Next, vars

\* Synced is kept by every step but a timeout that loses against a notify.
LEMMA SyncStep ==
  ASSUME TypeOK, Synced, stray' = 0, [Next]_vars
  PROVE  Synced'
<1> USE WorkSemaAssumption, FlagAssumption
    DEF TypeOK, Synced, semas, work, WakesEmpty, Sleeps, IdleState, IsDead,
        STATE_SPINNING, STATE_SLEEPING, STATE_RUNNING_0
<1>1. ASSUME NEW p \in Producers, Producer(p) PROVE Synced'
  <2>1. CASE Publish(p)       BY <2>1 DEF Publish
  <2>2. CASE NotifyAgain(p)   BY <2>2 DEF NotifyAgain
  <2>3. CASE NotifyOfWork(p)
    <3> USE <2>3 DEF NotifyOfWork
    <3>1. CASE IsDead(m_state)
      BY <3>1 DEF AfterNotify
    <3>2. CASE m_state = STATE_SPINNING
      BY <3>2 DEF AfterNotify, NoNewWork, ClearFlag
    <3>3. CASE m_state = STATE_SLEEPING
      <4>1. /\ m_state' = 1 /\ ppc'[p] = "post" /\ wpc' = wpc
            /\ \A q \in Producers : q # p => ppc'[q] = ppc[q] /\ ppc[q] # "post"
            /\ m_sema' = 0 /\ m_empty_sema' = m_empty_sema /\ owed' = owed
            /\ wpc \in Sleeps \/ (wpc = "wakeEmpty" /\ ~Spin)
        BY <3>3 DEF AfterNotify, WorkerPcs
      <4>2. p = Waiter => ppc[Waiter] # "emptyWait"
        OBVIOUS
      <4> QED BY <3>3, <4>1, <4>2
    <3>4. CASE m_state >= 0
      <4>1. AfterNotify(m_state) = m_state + 2 BY <3>4 DEF AfterNotify, Word
      <4> QED BY <3>4, <4>1, WordFacts DEF Word
    <3> QED BY <3>1, <3>2, <3>3, <3>4 DEF Word
  <2>4. CASE NotifyPost(p)    BY <2>4 DEF NotifyPost
  <2> QED BY <1>1, <2>1, <2>2, <2>3, <2>4 DEF Producer
<1>2. ASSUME Owner PROVE Synced'
  <2>1. CASE WaitForEmptyAtOnce  BY <2>1 DEF WaitForEmptyAtOnce, EmptyResult
  <2>2. CASE WaitForEmpty
    <3>1. m_state' = SetFlag(m_state) /\ m_state' >= FLAG /\ m_state' \in Int
      BY <2>2, WordOps DEF WaitForEmpty, Word
    <3>2. NoNewWork(m_state') <=> NoNewWork(m_state)
      BY <2>2, <3>1, WordFacts DEF WaitForEmpty
    <3>3. wpc \notin WakesEmpty /\ m_empty_sema = 0 /\ ~IsDead(m_state)
      BY <2>2 DEF WaitForEmpty, Word
    <3>4. \A p \in Producers : p # Waiter => ppc'[p] = ppc[p]
      BY <2>2 DEF WaitForEmpty
    <3>5. ppc[Waiter] = "idle" /\ ppc'[Waiter] = "emptyWait"
      BY <2>2 DEF WaitForEmpty
    <3>6. wpc' = wpc /\ m_sema' = m_sema /\ m_empty_sema' = m_empty_sema /\ covered' = covered
      BY <2>2 DEF WaitForEmpty
    <3>7. wpc \notin {"killPost", "dead"} /\ m_state >= 0
      BY <2>2 DEF WaitForEmpty, Word
    <3> QED BY <3>1, <3>2, <3>3, <3>4, <3>5, <3>6, <3>7
  <2>3. CASE EmptyWake           BY <2>3 DEF EmptyWake
  <2>4. CASE EmptyReturn         BY <2>4 DEF EmptyReturn, EmptyResult
  <2>5. CASE EmptyDone           BY <2>5 DEF EmptyDone
  <2>6. CASE Close               BY <2>6 DEF Close
  <2>7. CASE Reset               BY <2>7 DEF Reset
  <2> QED BY <1>2, <2>1, <2>2, <2>3, <2>4, <2>5, <2>6, <2>7 DEF Owner
<1>3. ASSUME Worker PROVE Synced'
  <2>1. CASE WaitForWork       BY <2>1, WordOps, WordFacts DEF WaitForWork, AfterWaitCas, KeepFlag
  <2>2. CASE WakeEmpty         BY <2>2 DEF WakeEmpty
  <2>3. CASE SpinSawWork       BY <2>3 DEF SpinSawWork, Word
  <2>4. CASE SpinExhausted     BY <2>4 DEF SpinExhausted, Word
  <2>5. CASE Park              BY <2>5 DEF Park
  <2>6. CASE WaitForWorkTimed  BY <2>6, WordOps, WordFacts DEF WaitForWorkTimed, AfterWaitCas, KeepFlag
  <2>7. CASE WakeEmptyTimed    BY <2>7 DEF WakeEmptyTimed
  <2>8. CASE TimeOut           BY <2>8 DEF TimeOut
  <2>9. CASE TimeOutCas        BY <2>9 DEF TimeOutCas, Word
  <2>10. CASE Acknowledge      BY <2>10, WordOps, WordFacts DEF Acknowledge, KeepFlag
  <2>11. CASE CheckForWork     BY <2>11, WordOps, WordFacts DEF CheckForWork, AfterCheckCas, KeepFlag
  <2>12. CASE CheckEmpty       BY <2>12 DEF CheckEmpty
  <2>13. CASE Enter            BY <2>13 DEF Enter
  <2>14. CASE Process          BY <2>14 DEF Process
  <2>15. CASE Drained          BY <2>15 DEF Drained
  <2>16. CASE Kill             BY <2>16, WordOps, WordFacts DEF Kill, STATE_DEAD
  <2>17. CASE KillPost         BY <2>17 DEF KillPost
  <2> QED BY <1>3, <2>1, <2>2, <2>3, <2>4, <2>5, <2>6, <2>7, <2>8, <2>9, <2>10, <2>11, <2>12, <2>13, <2>14, <2>15, <2>16, <2>17, Zenon DEF Worker
<1>4. CASE UNCHANGED vars BY <1>4, Zenon DEF vars, NoNewWork, ClearFlag
<1> QED BY <1>1, <1>2, <1>3, <1>4 DEF Next

\* SyncInv holds in every reachable state, for every mix of the wait methods.
THEOREM Synchronised == Spec => []SyncInv
<1>1. Init => SyncInv
  BY WorkSemaAssumption, FlagAssumption
  DEF Init, SyncInv, Synced, WakesEmpty, Sleeps, IsDead, STATE_RUNNING_0, STATE_SPINNING, STATE_SLEEPING
<1>2. TypeOK /\ SyncInv /\ [Next]_vars => SyncInv'
  BY StrayStays, SyncStep DEF SyncInv
<1> QED BY <1>1, <1>2, TypeCorrect, PTL DEF Spec

\* WaitForEmpty never returns true early: for every set of producers, the items
\* notified before the call have been processed when it returns, until the first
\* timeout that loses against a notify.
THEOREM DrainedOnReturn == Spec => []DrainBarrier
<1>1. SyncInv => DrainBarrier
  BY DEF SyncInv, Synced, DrainBarrier, EmptyMeansDrained
<1> QED BY <1>1, Synchronised, PTL

\* No timeout happens to a worker that never calls WaitForWorkTimed.
NoTimedWait == wpc \notin {"wakeEmptyTimed", "parkTimed", "timedOut"} /\ stray = 0

LEMMA NeverTimed == "WaitForWorkTimed" \notin WorkerOps /\ Spec => []NoTimedWait
<1> SUFFICES ASSUME "WaitForWorkTimed" \notin WorkerOps PROVE Spec => []NoTimedWait
  OBVIOUS
<1>1. Init => NoTimedWait
  BY DEF Init, NoTimedWait
<1>2. NoTimedWait /\ [Next]_vars => NoTimedWait'
  <2> SUFFICES ASSUME NoTimedWait, [Next]_vars PROVE NoTimedWait'
    OBVIOUS
  <2> USE DEF NoTimedWait
  <2>1. ASSUME Worker PROVE NoTimedWait'
    BY <2>1 DEF Worker, WaitForWork, WakeEmpty, SpinSawWork, SpinExhausted, Park, WaitForWorkTimed,
        WakeEmptyTimed, TimeOut, TimeOutCas, Acknowledge, CheckForWork, CheckEmpty, Enter, Process, Drained,
        Kill, KillPost
  <2>2. ASSUME Owner PROVE NoTimedWait'
    BY <2>2 DEF Owner, WaitForEmptyAtOnce, WaitForEmpty, EmptyWake, EmptyReturn, EmptyDone, Close, Reset
  <2>3. ASSUME NEW p \in Producers, Producer(p) PROVE NoTimedWait'
    BY <2>3 DEF Producer, Publish, NotifyAgain, NotifyOfWork, NotifyPost
  <2> QED BY <2>1, <2>2, <2>3 DEF Next, vars
<1> QED BY <1>1, <1>2, PTL DEF Spec

\* A worker that waits without a timeout (the MTVU thread, the rasterizer
\* threads) keeps WaitForEmpty's promise in every reachable state.
THEOREM UntimedDrained == "WaitForWorkTimed" \notin WorkerOps /\ Spec => []EmptyMeansDrained
<1>1. NoTimedWait /\ DrainBarrier => EmptyMeansDrained
  BY DEF NoTimedWait, DrainBarrier
<1> QED BY <1>1, NeverTimed, DrainedOnReturn, PTL

\* A worker recorded as spinning or sleeping leaves no notified work behind.
THEOREM IdleDrained == Spec => []IdleMeansDrained
<1>1. SyncInv => IdleMeansDrained
  BY DEF SyncInv, Synced, IdleMeansDrained, IsDead, STATE_SPINNING, STATE_SLEEPING
<1> QED BY <1>1, Synchronised, PTL

\* No kernel wake-up is ever left over for a later sleep of the worker.
THEOREM NoStray == Spec => []NoStrayWake
<1>1. SyncInv => NoStrayWake
  BY DEF SyncInv, Synced, Sleeps, NoStrayWake
<1> QED BY <1>1, Synchronised, PTL

\* A dead word belongs to a worker that was asked to exit and has left.
DeadInv == /\ IsDead(m_state) <=> wpc \in {"killPost", "dead"}
           /\ wpc \in {"killPost", "dead"} => exit = 1

\* A step keeps DeadInv and revives a dead word only by clearing the exit flag.
LEMMA DeadStep ==
  ASSUME TypeOK, DeadInv, [Next]_vars
  PROVE  DeadInv' /\ (IsDead(m_state) /\ ~IsDead(m_state') => exit = 1 /\ exit' = 0)
<1> USE FlagAssumption, WordOps
    DEF TypeOK, DeadInv, semas, work, IsDead, Word, STATE_SPINNING, STATE_SLEEPING, STATE_RUNNING_0
<1>1. ASSUME NEW p \in Producers, Producer(p) PROVE DeadInv' /\ (IsDead(m_state) => IsDead(m_state'))
  BY <1>1 DEF Producer, Publish, NotifyAgain, NotifyOfWork, NotifyPost, AfterNotify
<1>2. ASSUME Owner PROVE DeadInv' /\ (IsDead(m_state) /\ ~IsDead(m_state') => exit = 1 /\ exit' = 0)
  BY <1>2 DEF Owner, WaitForEmptyAtOnce, WaitForEmpty, EmptyWake, EmptyReturn, EmptyDone, Close, Reset
<1>3. ASSUME Worker PROVE DeadInv' /\ (IsDead(m_state) => IsDead(m_state'))
  <2>1. CASE WaitForWork       BY <2>1 DEF WaitForWork, AfterWaitCas, IdleState
  <2>2. CASE WakeEmpty         BY <2>2 DEF WakeEmpty
  <2>3. CASE SpinSawWork       BY <2>3 DEF SpinSawWork
  <2>4. CASE SpinExhausted     BY <2>4 DEF SpinExhausted
  <2>5. CASE Park              BY <2>5 DEF Park
  <2>6. CASE WaitForWorkTimed  BY <2>6 DEF WaitForWorkTimed, AfterWaitCas
  <2>7. CASE WakeEmptyTimed    BY <2>7 DEF WakeEmptyTimed
  <2>8. CASE TimeOut           BY <2>8 DEF TimeOut
  <2>9. CASE TimeOutCas        BY <2>9 DEF TimeOutCas
  <2>10. CASE Acknowledge      BY <2>10 DEF Acknowledge, KeepFlag
  <2>11. CASE CheckForWork     BY <2>11 DEF CheckForWork, AfterCheckCas
  <2>12. CASE CheckEmpty       BY <2>12 DEF CheckEmpty
  <2>13. CASE Enter            BY <2>13 DEF Enter
  <2>14. CASE Process          BY <2>14 DEF Process
  <2>15. CASE Drained          BY <2>15 DEF Drained
  <2>16. CASE Kill             BY <2>16 DEF Kill, STATE_DEAD
  <2>17. CASE KillPost         BY <2>17 DEF KillPost
  <2> QED BY <1>3, <2>1, <2>2, <2>3, <2>4, <2>5, <2>6, <2>7, <2>8, <2>9, <2>10, <2>11, <2>12, <2>13, <2>14, <2>15, <2>16, <2>17 DEF Worker
<1>4. CASE UNCHANGED vars
  BY <1>4 DEF vars
<1> QED BY <1>1, <1>2, <1>3, <1>4 DEF Next

\* Only Reset revives a killed semaphore, whichever wait methods are used.
THEOREM DeadIsFinal == Spec => DeadStaysDead
<1>1. Init => DeadInv
  BY DEF Init, DeadInv, IsDead, STATE_RUNNING_0, STATE_SPINNING
<1>2. TypeOK /\ DeadInv /\ [Next]_vars
        => DeadInv' /\ [IsDead(m_state) /\ ~IsDead(m_state') => exit = 1 /\ exit' = 0]_vars
  BY DeadStep
<1> QED BY <1>1, <1>2, TypeCorrect, PTL DEF Spec, DeadStaysDead

-----------------------------------------------------------------------------
(* The contract *)

\* What the contract sees of a word in range.
LEMMA SemOf ==
  ASSUME m_state \in Word
  PROVE  /\ IsDead(m_state) => Sem = "dead"
         /\ m_state \in {STATE_SPINNING, STATE_SLEEPING} => Sem = "idle"
         /\ m_state >= 0 /\ wpc \in Resting => Sem = "runN"
         /\ m_state >= 0 /\ ~NoNewWork(m_state) => Sem = "runN"
         /\ m_state >= 0 /\ NoNewWork(m_state) /\ wpc \notin Resting => Sem = "run0"
         /\ IsDead(m_state) \/ m_state \in {STATE_SPINNING, STATE_SLEEPING} \/ m_state >= 0
         /\ m_state >= 0 => ~IsDead(m_state)
         /\ m_state < 0 => ~(m_state >= FLAG)
BY FlagAssumption DEF Sem, Word, IsDead, STATE_SPINNING, STATE_SLEEPING

\* A step that changes neither the word nor its place in or out of a rest, nor
\* the caller, is not seen.
LEMMA Unseen ==
  ASSUME m_state' = m_state, wpc' \in Resting <=> wpc \in Resting, Caller' = Caller
  PROVE  UNCHANGED Contract!vars
BY DEF Contract!vars, Sem

LEMMA CallerSame ==
  ASSUME TypeOK, ppc' = ppc \/ (\E p \in Producers, v \in {"idle", "notify", "post"} :
           ppc[p] \in {"idle", "notify", "post"} /\ ppc' = [ppc EXCEPT ![p] = v])
  PROVE  Caller' = Caller
BY WorkSemaAssumption DEF Caller, TypeOK

\* Producers: a notify is remembered, everything else is not seen.
LEMMA ProducerContract ==
  ASSUME TypeOK, Synced, NEW p \in Producers, Producer(p)
  PROVE  Contract!NotifyOfWork \/ UNCHANGED Contract!vars
<1>1. CASE Publish(p) \/ NotifyAgain(p) \/ NotifyPost(p)
  <2>1. m_state' = m_state /\ wpc' = wpc
    BY <1>1 DEF Publish, NotifyAgain, NotifyPost
  <2>2. Caller' = Caller
    BY <1>1, CallerSame DEF Publish, NotifyAgain, NotifyPost
  <2> QED BY <2>1, <2>2, Unseen
<1>2. CASE NotifyOfWork(p)
  <2>1. Caller' = Caller
    BY <1>2, CallerSame DEF NotifyOfWork
  <2>2. m_state \in Word /\ NotifyRoom(m_state) /\ m_state' = AfterNotify(m_state) /\ wpc' = wpc
    BY <1>2 DEF NotifyOfWork, TypeOK
  <2>3. m_state' \in Word
    BY <2>2, WordOps
  <2>4. CASE IsDead(m_state)
    BY <2>1, <2>2, <2>4, Unseen DEF AfterNotify
  <2>5. CASE ~IsDead(m_state)
    <3>1. Sem # "dead" /\ m_state' >= 0 /\ (m_state' >= FLAG <=> m_state >= FLAG)
      BY <2>2, <2>5, SemOf, WordFacts, FlagAssumption
      DEF AfterNotify, IsDead, STATE_SPINNING, STATE_SLEEPING, Word
    <3>2. wpc' \in Resting \/ ~NoNewWork(m_state')
      <4>1. CASE m_state >= 0
        BY <2>2, <4>1, WordFacts
      <4>2. CASE m_state < 0
        BY <2>2, <2>5, <4>2, FlagAssumption DEF Synced, TypeOK, WorkerPcs, Resting, Word
      <4> QED BY <2>2, <4>1, <4>2 DEF Word
    <3>3. Sem' = "runN"
      BY <2>3, <3>1, <3>2, SemOf, FlagAssumption DEF Sem, IsDead, STATE_SPINNING, STATE_SLEEPING, Word
    <3> QED BY <2>1, <3>1, <3>3 DEF Contract!NotifyOfWork
  <2> QED BY <2>4, <2>5
<1> QED BY <1>1, <1>2 DEF Producer

\* The next value of what the contract sees, from the next word.
LEMMA SemNext ==
  ASSUME m_state' \in Word
  PROVE  /\ IsDead(m_state') => Sem' = "dead"
         /\ m_state' \in {STATE_SPINNING, STATE_SLEEPING} => Sem' = "idle"
         /\ m_state' >= 0 /\ wpc' \in Resting => Sem' = "runN"
         /\ m_state' >= 0 /\ ~NoNewWork(m_state') => Sem' = "runN"
         /\ m_state' >= 0 /\ NoNewWork(m_state') /\ wpc' \notin Resting => Sem' = "run0"
BY FlagAssumption DEF Sem, Word, IsDead, STATE_SPINNING, STATE_SLEEPING

\* The owner: WaitForEmpty, and Reset.
LEMMA OwnerContract ==
  ASSUME TypeOK, TypeOK', Synced, Owner
  PROVE  Contract!Next \/ UNCHANGED Contract!vars
<1> USE WorkSemaAssumption DEF semas, work
<1>0. m_state \in Word /\ m_state' \in Word /\ ppc \in [Producers -> ProducerPcs]
  BY DEF TypeOK
<1>1. CASE WaitForEmptyAtOnce
  <2>1. Caller = "out" /\ Caller' = "returned" /\ m_state < 0 /\ m_state' = m_state /\ wpc' = wpc
    BY <1>0, <1>1 DEF WaitForEmptyAtOnce, EmptyResult, Caller
  <2>2. Sem \in {"idle", "dead"} /\ Sem' = Sem
    BY <1>0, <2>1, SemOf DEF Sem, Word
  <2> QED BY <2>1, <2>2 DEF Contract!Next, Contract!WaitForEmpty, Contract!Back
<1>2. CASE WaitForEmpty
  <2>1. Caller = "out" /\ Caller' = "asleep" /\ m_state >= 0 /\ m_state' = SetFlag(m_state) /\ wpc' = wpc
    BY <1>0, <1>2 DEF WaitForEmpty, Caller
  <2>2. m_state' >= FLAG /\ m_state' >= 0 /\ (NoNewWork(m_state') <=> NoNewWork(m_state))
    BY <1>0, <2>1, WordOps, WordFacts, FlagAssumption DEF Word
  <2>3. Sem \notin {"idle", "dead"} /\ Sem' = Sem
    BY <1>0, <2>1, <2>2, SemOf, SemNext
  <2> QED BY <2>1, <2>2, <2>3 DEF Contract!Next, Contract!WaitForEmpty
<1>3. CASE EmptyWake
  <2>1. Caller = "asleep" /\ Caller' = "returned" /\ m_state' = m_state /\ wpc' = wpc /\ m_empty_sema > 0
    BY <1>0, <1>3 DEF EmptyWake, Caller
  <2>2. ~(m_state >= FLAG) /\ Sem' = Sem
    BY <2>1 DEF Synced, Sem, TypeOK
  <2> QED BY <2>1, <2>2 DEF Contract!Next, Contract!Return, Contract!Back
<1>4. CASE EmptyReturn
  <2>1. Caller' = Caller /\ m_state' = m_state /\ wpc' = wpc
    BY <1>0, <1>4 DEF EmptyReturn, EmptyResult, Caller
  <2> QED BY <2>1, Unseen
<1>5. CASE EmptyDone
  <2>1. Caller = "returned" /\ Caller' = "out" /\ m_state' = m_state /\ wpc' = wpc
    BY <1>0, <1>5 DEF EmptyDone, Caller
  <2>2. Sem' = Sem
    BY <2>1 DEF Sem
  <2> QED BY <2>1, <2>2 DEF Contract!Next, Contract!Continue
<1>6. CASE Close
  <2>1. Caller' = Caller /\ m_state' = m_state /\ wpc' = wpc
    BY <1>0, <1>6 DEF Close, Caller
  <2> QED BY <2>1, Unseen
<1>7. CASE Reset
  <2>1. Caller = "out" /\ Caller' = Caller /\ m_state' = STATE_RUNNING_0 /\ wpc' = "idle" /\ wpc = "dead"
    BY <1>0, <1>7 DEF Reset, Caller
  <2>2. IsDead(m_state) /\ ~(m_state >= FLAG) /\ ~(m_state' >= FLAG) /\ m_state' >= 0 /\ NoNewWork(m_state')
    BY <1>0, <2>1, FlagAssumption DEF Synced, IsDead, Word, STATE_RUNNING_0, STATE_SPINNING, NoNewWork, ClearFlag
  <2>3. Sem = "dead" /\ Sem' = "run0"
    BY <1>0, <2>1, <2>2, SemOf, SemNext DEF Resting
  <2> QED BY <2>1, <2>2, <2>3 DEF Contract!Next, Contract!Reset
<1> QED BY <1>1, <1>2, <1>3, <1>4, <1>5, <1>6, <1>7 DEF Owner

\* The CAS by which the worker looks for work: it takes what is there, or goes
\* idle and lets the caller go.
LEMMA LookContract ==
  ASSUME TypeOK, TypeOK', Synced, NEW idle \in {STATE_SPINNING, STATE_SLEEPING},
         wpc \in {"idle", "dead"}, ~IsDead(m_state), ppc' = ppc,
         m_state' = AfterWaitCas(m_state, idle),
         ~NoNewWork(m_state) => wpc' \in {"woken", "ack"},
         NoNewWork(m_state) => wpc' \in Resting
  PROVE  Contract!Next \/ UNCHANGED Contract!vars
<1>1. m_state \in Word /\ m_state' \in Word /\ m_state >= 0 /\ wpc = "idle" /\ Caller' = Caller
  BY DEF TypeOK, Synced, Caller, Word
<1>2. CASE NoNewWork(m_state)
  <2>1. m_state' = idle /\ ~(m_state' >= FLAG)
    BY <1>2, FlagAssumption DEF AfterWaitCas, STATE_SPINNING, STATE_SLEEPING
  <2>2. Sem = "run0" /\ Sem' = "idle"
    BY <1>1, <1>2, <2>1, SemOf, SemNext DEF Resting
  <2> QED BY <1>1, <2>1, <2>2 DEF Contract!Next, Contract!GoIdle
<1>3. CASE ~NoNewWork(m_state)
  <2>1. m_state' = KeepFlag(m_state) /\ m_state' >= 0 /\ (m_state' >= FLAG <=> m_state >= FLAG) /\ NoNewWork(m_state')
    BY <1>1, <1>3, FlagAssumption
    DEF AfterWaitCas, KeepFlag, HasFlag, NoNewWork, ClearFlag, STATE_RUNNING_0, Word
  <2>2. Sem = "runN"
    BY <1>1, <1>3, SemOf
  <2>3. CASE wpc' = "ack"
    BY <1>1, <2>1, <2>2, <2>3, SemNext DEF Resting, Contract!vars
  <2>4. CASE wpc' = "woken"
    <3>1. Sem' = "run0"
      BY <1>1, <2>1, <2>4, SemNext DEF Resting
    <3> QED BY <1>1, <2>1, <2>2, <3>1 DEF Contract!Next, Contract!TakeWork
  <2> QED BY <1>3, <2>3, <2>4
<1> QED BY <1>2, <1>3

\* The worker: only its looks, the acknowledge, the timeout and Kill are seen.
LEMMA WorkerContract ==
  ASSUME TypeOK, TypeOK', Synced, stray' = 0, Worker
  PROVE  Contract!Next \/ UNCHANGED Contract!vars
<1> USE DEF semas, work
<1>0. m_state \in Word /\ m_state' \in Word
  BY DEF TypeOK
<1>1. ppc' = ppc /\ Caller' = Caller
  BY DEF Worker, WaitForWork, WakeEmpty, SpinSawWork, SpinExhausted, Park, WaitForWorkTimed, WakeEmptyTimed,
      TimeOut, TimeOutCas, Acknowledge, CheckForWork, CheckEmpty, Enter, Process, Drained, Kill, KillPost, Caller
<1>2. CASE WaitForWork
  <2>1. /\ wpc \in {"idle", "dead"} /\ ~IsDead(m_state) /\ m_state' = AfterWaitCas(m_state, IdleState)
        /\ ~NoNewWork(m_state) => wpc' \in {"woken", "ack"}
        /\ NoNewWork(m_state) => wpc' \in Resting
    BY <1>2 DEF WaitForWork, Resting
  <2>2. IdleState \in {STATE_SPINNING, STATE_SLEEPING}
    BY DEF IdleState
  <2> QED BY <1>1, <2>1, <2>2, LookContract
<1>3. CASE WaitForWorkTimed
  <2>1. /\ wpc \in {"idle", "dead"} /\ ~IsDead(m_state) /\ m_state' = AfterWaitCas(m_state, STATE_SLEEPING)
        /\ ~NoNewWork(m_state) => wpc' \in {"woken", "ack"}
        /\ NoNewWork(m_state) => wpc' \in Resting
    BY <1>3 DEF WaitForWorkTimed, Resting
  <2> QED BY <1>1, <2>1, LookContract
<1>4. CASE CheckForWork
  <2>1. wpc = "idle" /\ m_state >= 0 /\ wpc' \notin Resting
    BY <1>0, <1>4 DEF CheckForWork, Synced, Resting, Word
  <2>2. CASE NoNewWork(m_state)
    <3>0. m_state' = 0
      BY <1>4, <2>2 DEF CheckForWork, AfterCheckCas, STATE_RUNNING_0
    <3>1. m_state' >= 0 /\ ~(m_state' >= FLAG) /\ NoNewWork(m_state')
      BY <3>0, FlagAssumption DEF STATE_RUNNING_0, NoNewWork, ClearFlag
    <3>2. Sem = "run0" /\ Sem' = "run0"
      BY <1>0, <2>1, <2>2, <3>1, SemOf, SemNext DEF Resting
    <3> QED BY <1>1, <3>1, <3>2 DEF Contract!Next, Contract!CheckForWork
  <2>3. CASE ~NoNewWork(m_state)
    <3>1. m_state' >= 0 /\ (m_state' >= FLAG <=> m_state >= FLAG) /\ NoNewWork(m_state')
      BY <1>0, <1>4, <2>1, <2>3, FlagAssumption
      DEF CheckForWork, AfterCheckCas, KeepFlag, HasFlag, NoNewWork, ClearFlag, STATE_RUNNING_0, Word
    <3>2. Sem = "runN" /\ Sem' = "run0"
      BY <1>0, <2>1, <2>3, <3>1, SemOf, SemNext
    <3> QED BY <1>1, <3>1, <3>2 DEF Contract!Next, Contract!TakeWork
  <2> QED BY <2>2, <2>3
<1>5. CASE Acknowledge
  <2>1. m_state >= 0 /\ wpc = "ack" /\ wpc' = "woken" /\ m_state' = KeepFlag(m_state)
    BY <1>5 DEF Acknowledge, Synced
  <2>2. m_state' >= 0 /\ (m_state' >= FLAG <=> m_state >= FLAG) /\ NoNewWork(m_state')
    BY <1>0, <2>1, FlagAssumption DEF KeepFlag, HasFlag, NoNewWork, ClearFlag, STATE_RUNNING_0, Word
  <2>3. Sem = "runN" /\ Sem' = "run0"
    BY <1>0, <2>1, <2>2, SemOf, SemNext DEF Resting
  <2> QED BY <1>1, <2>2, <2>3 DEF Contract!Next, Contract!TakeWork
<1>6. CASE SpinExhausted \/ TimeOutCas
  <2>1. CASE m_state = STATE_SPINNING /\ m_state' = STATE_SLEEPING
    <3>1. Sem = "idle" /\ Sem' = "idle" /\ ~(m_state >= FLAG) /\ ~(m_state' >= FLAG)
      BY <1>0, <2>1, SemOf, SemNext, FlagAssumption DEF STATE_SPINNING, STATE_SLEEPING
    <3> QED BY <1>1, <3>1 DEF Contract!vars
  <2>2. CASE m_state = STATE_SLEEPING /\ m_state' = STATE_RUNNING_0 /\ wpc' = "idle"
    <3>1. m_state' >= 0 /\ NoNewWork(m_state') /\ ~(m_state >= FLAG) /\ ~(m_state' >= FLAG)
      BY <2>2, FlagAssumption DEF STATE_SLEEPING, STATE_RUNNING_0, NoNewWork, ClearFlag
    <3>2. Sem = "idle" /\ Sem' = "run0"
      BY <1>0, <2>2, <3>1, SemOf, SemNext DEF Resting
    <3> QED BY <1>1, <3>1, <3>2 DEF Contract!Next, Contract!TimeOut
  <2>3. CASE m_state' = m_state /\ wpc = "spin" /\ wpc' = "ack"
    BY <1>1, <2>3, Unseen DEF Resting
  <2> QED BY <1>6, <2>1, <2>2, <2>3 DEF SpinExhausted, TimeOutCas
<1>7. CASE WakeEmpty \/ SpinSawWork \/ Park \/ WakeEmptyTimed \/ TimeOut
  <2>1. m_state' = m_state /\ wpc \in Resting /\ wpc' \in Resting
    BY <1>7 DEF WakeEmpty, SpinSawWork, Park, WakeEmptyTimed, TimeOut, Resting
  <2> QED BY <1>1, <2>1, Unseen
<1>8. CASE CheckEmpty \/ Enter \/ Process \/ Drained \/ KillPost
  <2>1. m_state' = m_state /\ wpc \notin Resting /\ wpc' \notin Resting
    BY <1>8 DEF CheckEmpty, Enter, Process, Drained, KillPost, Resting
  <2> QED BY <1>1, <2>1, Unseen
<1>9. CASE Kill
  <2>1. m_state >= 0 /\ wpc = "woken" /\ IsDead(m_state') /\ ~(m_state' >= FLAG)
    BY <1>9, FlagAssumption DEF Kill, Synced, STATE_DEAD, IsDead, STATE_SPINNING
  <2>2. Sem \in {"run0", "runN"} /\ Sem' = "dead"
    BY <1>0, <2>1, SemOf, SemNext DEF Resting
  <2> QED BY <1>1, <2>1, <2>2 DEF Contract!Next, Contract!Kill
<1> QED BY <1>2, <1>3, <1>4, <1>5, <1>6, <1>7, <1>8, <1>9 DEF Worker

\* WorkSema keeps its contract: for every word size, every set of producers and
\* every mix of the wait methods, each step is a step of WorkSemaContract or not
\* seen by it, until a notify overtakes a timeout of WaitForWorkTimed.
THEOREM ContractKept == Spec => ImplementsContract
<1>1. Init => Contract!Init
  BY FlagAssumption, WorkSemaAssumption
  DEF Init, Contract!Init, Sem, Caller, IsDead, NoNewWork, ClearFlag, STATE_RUNNING_0, STATE_SPINNING,
      STATE_SLEEPING, Resting
<1>2. TypeOK /\ TypeOK' /\ SyncInv /\ [Next]_vars
        => [stray' = 0 => Contract!Next \/ UNCHANGED Contract!vars]_vars
  <2> SUFFICES ASSUME TypeOK, TypeOK', SyncInv, Next, stray' = 0
               PROVE  Contract!Next \/ UNCHANGED Contract!vars
    OBVIOUS
  <2>1. Synced
    BY StrayStays DEF SyncInv
  <2>2. ASSUME NEW p \in Producers, Producer(p) PROVE Contract!Next \/ UNCHANGED Contract!vars
    BY <2>1, <2>2, ProducerContract DEF Contract!Next
  <2> QED BY <2>1, <2>2, OwnerContract, WorkerContract DEF Next
<1> QED BY <1>1, <1>2, TypeCorrect, Synchronised, PTL DEF Spec, ImplementsContract

\* A worker that waits without a timeout implements the contract outright.
THEOREM UntimedContract == "WaitForWorkTimed" \notin WorkerOps /\ Spec => Contract!Spec
<1> SUFFICES ASSUME "WaitForWorkTimed" \notin WorkerOps PROVE Spec => Contract!Spec
  OBVIOUS
<1>1. NoTimedWait' /\ [stray' = 0 => Contract!Next \/ UNCHANGED Contract!vars]_vars
        => [Contract!Next]_Contract!vars
  <2>1. UNCHANGED vars => UNCHANGED Contract!vars
    BY DEF vars, Contract!vars, Sem, Caller
  <2> QED BY <2>1 DEF NoTimedWait
<1> QED BY <1>1, NeverTimed, ContractKept, PTL DEF ImplementsContract, Contract!Spec

\* Such a worker strands nobody: as long as the WAITING_EMPTY of a thread asleep in
\* WaitForEmpty is set, the worker is awake or has been notified, and so it will
\* look at the word again.
THEOREM UntimedNotStranded ==
  "WaitForWorkTimed" \notin WorkerOps /\ Spec => []Contract!NobodyStranded
<1> DEFINE Inv == Sem \in Contract!SemStates /\ Contract!NobodyStranded
<1>1. Contract!Init => Inv
  BY Zenon DEF Contract!Init, Contract!NobodyStranded, Contract!SemStates
<1>2. Inv /\ [Contract!Next]_Contract!vars => Inv'
  <2> SUFFICES ASSUME Inv, [Contract!Next]_Contract!vars PROVE Inv'
    OBVIOUS
  <2> USE DEF Contract!NobodyStranded, Contract!SemStates
  <2>1. CASE Contract!NotifyOfWork \/ Contract!TakeWork \/ Contract!TimeOut \/ Contract!Reset
    BY <2>1, Zenon DEF Contract!NotifyOfWork, Contract!TakeWork, Contract!TimeOut, Contract!Reset
  <2>2. CASE Contract!GoIdle \/ Contract!CheckForWork \/ Contract!Kill
    BY <2>2, Zenon DEF Contract!GoIdle, Contract!CheckForWork, Contract!Kill
  <2>3. CASE Contract!WaitForEmpty
    BY <2>3, Zenon DEF Contract!WaitForEmpty
  <2>4. CASE Contract!Return \/ Contract!Continue \/ UNCHANGED Contract!vars
    BY <2>4, Zenon DEF Contract!Return, Contract!Continue, Contract!vars
  <2> QED BY <2>1, <2>2, <2>3, <2>4, Zenon DEF Contract!Next
<1> QED BY <1>1, <1>2, UntimedContract, PTL DEF Contract!Spec
-----------------------------------------------------------------------------
(* The frontend thread and cpu_thread *)

\* The instructions other than the two of retro_load_game, and what the entry
\* points consist of.
Plain == {"open", "ifPaused", "resumeCheck", "resumeStore", "post", "mainLoop", "pauseCheck",
          "pauseStore", "await", "work", "sync", "ifVM", "close", "ifOpen", "stopping",
          "shutdown", "join"}
EntryPoints == {"run", "variables", "serialize", "eject", "reinit", "unload"}
Programs == EntryPoints \cup {"ejectNoVM"}

\* Where cpu_thread has published nothing of a running machine, retro_load_game
\* finds no thread before it starts one, and the other entry points find content.
ReloadInv ==
  /\ fop \in Programs \cup {"none", "load"}
  /\ fop # "none" => fi \in 1..Len(Program[fop])
  /\ cpc \in {"none", "boot", "init", "failed", "failResult", "booted", "outer", "done"}
       => cpu_thread_state \in {"Shutdown", "Stopping"}
  /\ (fop = "none" /\ ~loaded) \/ (fop = "load" /\ fi = 1) => cpc \in {"none", "done"}
  /\ fop \in Programs => loaded
  /\ fop = "load" => ~loaded

\* Only retro_load_game starts cpu_thread.
LEMMA PlainPrograms ==
  /\ Program["load"] = <<"start", "bootWait">>
  /\ \A op \in Programs : Program[op] \in Seq(Plain)
<1>1. \A u, v \in Seq(Plain) : u \o v \in Seq(Plain)
  OBVIOUS
<1>a. /\ \A x \in Plain : <<x>> \in Seq(Plain)
      /\ \A x, y \in Plain : <<x, y>> \in Seq(Plain)
      /\ \A x, y, z \in Plain : <<x, y, z>> \in Seq(Plain)
  OBVIOUS
<1>2. PauseSteps \in Seq(Plain) /\ ResumeSteps \in Seq(Plain)
  BY <1>a DEF PauseSteps, ResumeSteps, Plain
<1>3. /\ <<"open", "ifPaused">> \in Seq(Plain) /\ <<"mainLoop">> \in Seq(Plain)
      /\ <<"work">> \in Seq(Plain) /\ <<"sync", "work">> \in Seq(Plain) /\ <<"ifVM">> \in Seq(Plain)
      /\ <<"work", "close", "open">> \in Seq(Plain) /\ <<"ifOpen">> \in Seq(Plain)
      /\ <<"close", "stopping", "sync", "work", "shutdown", "post", "join">> \in Seq(Plain)
  BY <1>a DEF Plain
<1>4. RunSteps \in Seq(Plain)
  BY <1>1, <1>2, <1>3, Zenon DEF RunSteps
<1>5. Program["run"] \in Seq(Plain)
  BY <1>4 DEF Program
<1>6. Program["variables"] \in Seq(Plain)
  BY <1>1, <1>2, <1>3, <1>4 DEF Program
<1>7. Program["serialize"] \in Seq(Plain)
  BY <1>1, <1>2, <1>3 DEF Program
<1>8. Program["eject"] \in Seq(Plain)
  BY <1>1, <1>2, <1>3 DEF Program
<1>9. Program["reinit"] \in Seq(Plain)
  BY <1>1, <1>2, <1>3 DEF Program
<1>10. Program["unload"] \in Seq(Plain)
  BY <1>1, <1>2, <1>3 DEF Program
<1>11. Program["ejectNoVM"] \in Seq(Plain)
  <2>1. Program["ejectNoVM"] = <<"work">>
    BY DEF Program
  <2> QED BY <1>3, <2>1, Zenon
<1>12. Program["load"] = <<"start", "bootWait">>
  BY DEF Program
<1> QED BY <1>5, <1>6, <1>7, <1>8, <1>9, <1>10, <1>11, <1>12 DEF Programs, EntryPoints

\* No entry point is empty.
LEMMA LongEnough == \A op \in Programs : 1 \in 1..Len(Program[op])
<1>1. \A u, v \in Seq(Plain) : Len(u) >= 1 => u \o v \in Seq(Plain) /\ Len(u \o v) >= 1
  OBVIOUS
<1>2. SUFFICES \A op \in Programs : Len(Program[op]) >= 1
  BY PlainPrograms
<1> QED BY DEF Program, RunSteps, PauseSteps, ResumeSteps, Programs, EntryPoints

LEMMA WhoStarts ==
  ASSUME ReloadInv
  PROVE  /\ Instr = "start" => fop = "load" /\ fi = 1
         /\ Instr = "bootWait" => fop = "load"
         /\ Instr \notin {"start", "bootWait", "none"} => fop \in Programs
<1>1. CASE fop = "none"
  BY <1>1 DEF Instr
<1>2. CASE fop = "load"
  <2>1. fi \in {1, 2}
    BY <1>2, PlainPrograms DEF ReloadInv
  <2> QED BY <1>2, <2>1, PlainPrograms DEF Instr
<1>3. CASE fop \in Programs
  <2>1. fop # "none" /\ Program[fop] \in Seq(Plain) /\ fi \in 1..Len(Program[fop])
    BY <1>3, PlainPrograms DEF ReloadInv, Programs, EntryPoints
  <2>2. Instr \in Plain
    BY <2>1 DEF Instr
  <2> QED BY <1>3, <2>2 DEF Plain
<1> QED BY <1>1, <1>2, <1>3 DEF ReloadInv

\* An instruction of an entry point leads to a later one or out of it.
LEMMA Advanced ==
  ASSUME ReloadInv, fop \in Programs, NEW n \in Nat, Advance(n), cpc' = cpc,
         cpu_thread_state' = cpu_thread_state
  PROVE  ReloadInv'
<1>1. Program[fop] \in Seq(Plain) /\ fi \in 1..Len(Program[fop]) /\ fop # "none" /\ fop # "load" /\ loaded
  BY PlainPrograms DEF ReloadInv, Programs, EntryPoints
<1>2. PICK l \in Nat, i \in Nat : l = Len(Program[fop]) /\ i = fi /\ i >= 1
  BY <1>1
<1>3. loaded' = loaded
  BY DEF Advance
<1>4. CASE i + n > l
  <2>1. fop' = "none"
    BY <1>2, <1>4 DEF Advance
  <2> QED BY <1>1, <1>3, <2>1 DEF ReloadInv, Programs, EntryPoints
<1>5. CASE i + n <= l
  <2>1. fop' = fop /\ fi' = i + n
    BY <1>2, <1>5 DEF Advance
  <2>2. i + n \in 1..l
    BY <1>2, <1>5
  <2> QED BY <1>1, <1>2, <1>3, <2>1, <2>2 DEF ReloadInv
<1> QED BY <1>2, <1>4, <1>5

\* Calls, and the instructions of retro_load_game.
LEMMA LoadKeeps ==
  ASSUME ReloadInv, Load \/ (\E op \in Ops : Call(op)) \/ StartThread \/ BootWait
  PROVE  ReloadInv'
<1>1. CASE Load
  <2>1. fop = "none" /\ fop' = "load" /\ fi' = 1 /\ ~loaded /\ UNCHANGED <<cpc, cpu_thread_state, loaded>>
    BY <1>1 DEF Load, EnterOp, vmvars, cpuvars
  <2>2. 1 \in 1..Len(Program["load"])
    BY PlainPrograms
  <2> QED BY <2>1, <2>2 DEF ReloadInv, Programs, EntryPoints
<1>2. CASE \E op \in Ops : Call(op)
  <2>1. PICK op \in Programs : Call(op)
    BY <1>2, VMThreadsAssumption DEF Programs, EntryPoints
  <2>2. fop' = op /\ fi' = 1 /\ loaded /\ UNCHANGED <<cpc, cpu_thread_state, loaded>>
    BY <2>1 DEF Call, EnterOp, vmvars, cpuvars
  <2>3. 1 \in 1..Len(Program[op])
    BY LongEnough
  <2> QED BY <2>2, <2>3 DEF ReloadInv, Programs, EntryPoints
<1>3. CASE StartThread
  <2>1. fop = "load" /\ fi = 1
    BY <1>3, WhoStarts DEF StartThread
  <2>2. fop' = fop /\ fi' = 2 /\ cpc' = "boot" /\ UNCHANGED <<cpu_thread_state, loaded>>
    BY <1>3 DEF StartThread
  <2>3. 2 \in 1..Len(Program["load"])
    BY PlainPrograms
  <2> QED BY <2>1, <2>2, <2>3 DEF ReloadInv, Programs, EntryPoints
<1>4. CASE BootWait
  <2>1. fop' = "none" /\ (~loaded' => cpc = "done") /\ UNCHANGED <<cpc, cpu_thread_state>>
    BY <1>4, ZenonT(30) DEF BootWait, vmvars, cpuvars
  <2> QED BY <2>1 DEF ReloadInv, Programs, EntryPoints
<1> QED BY <1>1, <1>2, <1>3, <1>4

\* The other instructions of the frontend.
LEMMA FrontendKeeps ==
  ASSUME ReloadInv, Frontend, ~StartThread, ~BootWait
  PROVE  ReloadInv'
<1>1. Instr \in Plain
  BY ZenonT(30) DEF Frontend, IfVM, IfOpen, PauseCheck, PauseStore, AwaitPaused, Work,
         ResumeCheck, ResumeStore, PostResume, IfPaused, OpenGS, CloseGS,
         MainLoop, Stopping, Sync, ShutdownVM, Join, Plain
<1>2. fop \in Programs
  BY <1>1, WhoStarts DEF Plain
<1>3. UNCHANGED <<cpc, cpu_thread_state>>
  BY DEF Frontend, IfVM, IfOpen, PauseCheck, PauseStore, AwaitPaused, Work,
         ResumeCheck, ResumeStore, PostResume, IfPaused, OpenGS, CloseGS,
         MainLoop, Stopping, Sync, ShutdownVM, Join, vmvars, cpuvars
<1>4. CASE \E n \in Nat : Advance(n)
  BY <1>2, <1>3, <1>4, Advanced
<1>5. CASE UNCHANGED frontvars
  BY <1>3, <1>5 DEF ReloadInv, frontvars, Program, RunSteps, PauseSteps, ResumeSteps
<1>6. CASE Join
  <2>1. fop' = "none" /\ cpc = "done"
    BY <1>6 DEF Join
  <2> QED BY <1>3, <2>1 DEF ReloadInv, Programs, EntryPoints
<1>7. CASE fop' = "ejectNoVM" /\ fi' = 1 /\ UNCHANGED <<loaded, loads>>
  <2>1. 1 \in 1..Len(Program["ejectNoVM"])
    BY LongEnough DEF Programs
  <2> QED BY <1>2, <1>3, <1>7, <2>1 DEF ReloadInv, Programs, EntryPoints
<1>8. \/ \E n \in Nat : Advance(n)
      \/ UNCHANGED frontvars
      \/ Join
      \/ fop' = "ejectNoVM" /\ fi' = 1 /\ UNCHANGED <<loaded, loads>>
  <2>1. 1 \in Nat /\ 2 \in Nat /\ 4 \in Nat /\ 5 \in Nat
    OBVIOUS
  <2>2. CASE IfVM
    BY <2>1, <2>2 DEF IfVM
  <2>3. CASE AwaitPaused \/ MainLoop
    BY <2>1, <2>3 DEF AwaitPaused, MainLoop
  <2>4. CASE IfOpen \/ PauseCheck \/ ResumeCheck \/ IfPaused
    BY <2>1, <2>4 DEF IfOpen, PauseCheck, ResumeCheck, IfPaused
  <2>5. CASE \/ PauseStore \/ Work \/ ResumeStore \/ PostResume \/ OpenGS \/ CloseGS
             \/ Stopping \/ Sync \/ ShutdownVM
    <3>1. Advance(1)
      BY <2>5, ZenonT(30) DEF PauseStore, Work, ResumeStore, PostResume, OpenGS, CloseGS,
                  Stopping, Sync, ShutdownVM
    <3> QED BY <2>1, <3>1
  <2> QED BY <2>2, <2>3, <2>4, <2>5 DEF Frontend
<1> QED BY <1>4, <1>5, <1>6, <1>7, <1>8

\* The steps of cpu_thread, which returns only after it has published that the
\* machine stops, or has run none.
LEMMA CpuKeeps ==
  ASSUME ReloadInv, CpuThread \/ Draw \/ PowerOff
  PROVE  ReloadInv'
<1> USE DEF vmvars, cpuvars, frontvars
<1>1. UNCHANGED <<fop, fi, loaded>>
  BY ZenonT(30) DEF CpuThread, Draw, PowerOff, Boot, InitDone, InitFailed, FailState,
         FailResult, BootResult, Outer, LoadState, StoreState, Vsync,
         WaitGSReturn, Interrupted, PausedCheck, PausedWake
<1>2. cpc \notin {"none", "done"}
  BY DEF CpuThread, Draw, PowerOff, Boot, InitDone, InitFailed, FailState,
         FailResult, BootResult, Outer, LoadState, StoreState, Vsync,
         WaitGSReturn, Interrupted, PausedCheck, PausedWake
<1>3. cpc' \in {"none", "boot", "init", "failed", "failResult", "booted", "outer", "done"}
        => cpu_thread_state' \in {"Shutdown", "Stopping"}
  <2>1. CASE StoreState
    <3>1. cpu_thread_state' = st /\ cpc' = Dispatch(st)
      BY <2>1 DEF StoreState
    <3>2. st \in {"Shutdown", "Stopping"} \/ Dispatch(st) \in {"exec", "pausedCheck", "load"}
      BY DEF Dispatch
    <3> QED BY <3>1, <3>2
  <2>2. CASE CpuThread /\ ~StoreState
    BY <2>2, ZenonT(30) DEF ReloadInv, CpuThread, Boot, InitDone, InitFailed, FailState,
         FailResult, BootResult, Outer, LoadState, Vsync,
         WaitGSReturn, Interrupted, PausedCheck, PausedWake
  <2>3. CASE Draw \/ PowerOff
    BY <2>3 DEF Draw, PowerOff
  <2> QED BY <2>1, <2>2, <2>3
<1>4. Program' = Program
  BY DEF Program, RunSteps, PauseSteps, ResumeSteps
<1> QED BY <1>1, <1>2, <1>3, <1>4, ZenonT(30) DEF ReloadInv

\* However often content is loaded and unloaded, and whatever state the machine
\* was in before, cpu_thread starts with nothing of a running machine published.
THEOREM ReloadsClean == VMSpec => []ReloadClean
<1>1. VMInit => ReloadInv
  BY DEF VMInit, ReloadInv, Programs, EntryPoints
<1>2. ReloadInv /\ [VMNext]_allvars => ReloadInv'
  <2> SUFFICES ASSUME ReloadInv, [VMNext]_allvars PROVE ReloadInv'
    OBVIOUS
  <2>1. CASE UNCHANGED allvars
    BY <2>1 DEF allvars, vmvars, cpuvars, frontvars, ReloadInv, Program, RunSteps,
                PauseSteps, ResumeSteps
  <2> QED BY <2>1, LoadKeeps, FrontendKeeps, CpuKeeps DEF VMNext
<1>3. ReloadInv => ReloadClean
  BY DEF ReloadInv, ReloadClean
<1> QED BY <1>1, <1>2, <1>3, PTL DEF VMSpec
=============================================================================
