--------------------------------- MODULE GSProofs ---------------------------------
(***************************************************************************)
(* Proofs about the GS side of the threads.                                *)
(*                                                                         *)
(* The job queue of the rasterizer (GSJobQueue) keeps its contract, for    *)
(* every size of the ring and every number of jobs.  The argument: TypeOK, *)
(* RingInv and WakeInv together are inductive; the ring then holds a run   *)
(* of consecutive job numbers, which Push extends on the right and         *)
(* AdvanceRead shortens on the left.                                       *)
(*                                                                         *)
(* The mailbox of GS events between the VU thread and the EE thread        *)
(* (GSEvents), for every set of signals and labels and every bound on the  *)
(* spin.  MailFlagged is inductive only together with what the EE          *)
(* remembers of the flags it saw (SeenInv); NoMissedIrq only together with *)
(* the fact that a FINISH that waits has not interrupted yet (part of      *)
(* RegistersOK).                                                           *)
(***************************************************************************)
EXTENDS GSJobQueue, GSEvents, TLAPS

Index == 0..(max_size - 1)

-----------------------------------------------------------------------------
\* Arithmetic of the indices

LEMMA NextIndex == ASSUME NEW i \in Index
                   PROVE  /\ next_index(i) \in Index
                          /\ next_index(i) = IF i + 1 = max_size THEN 0 ELSE i + 1
  BY GSJobQueueAssumption DEF next_index, Index

\* Distances and cells without the remainder.
LEMMA DistanceValue == ASSUME NEW w \in Index, NEW r \in Index
                       PROVE  /\ Distance(w, r) \in Index
                              /\ Distance(w, r) = IF w >= r THEN w - r ELSE w + max_size - r
  BY GSJobQueueAssumption DEF Distance, Index

LEMMA CellValue == ASSUME NEW r \in Index, NEW k \in 1..max_size
                   PROVE  /\ Cell(r, k) \in Index
                          /\ Cell(r, k) = IF r + k - 1 >= max_size THEN r + k - 1 - max_size ELSE r + k - 1
  BY GSJobQueueAssumption DEF Index, Cell

\* empty and full in terms of the distance.
LEMMA EmptyFull == ASSUME NEW w \in Index, NEW r \in Index
                   PROVE  /\ w = r <=> Distance(w, r) = 0
                          /\ next_index(w) = r <=> Distance(w, r) = max_size - 1
<1>1. Distance(w, r) = IF w >= r THEN w - r ELSE w + max_size - r
  BY DistanceValue
<1>2. next_index(w) = IF w + 1 = max_size THEN 0 ELSE w + 1
  BY NextIndex
<1>3. w = r <=> Distance(w, r) = 0
  BY <1>1, GSJobQueueAssumption DEF Index
<1>4. next_index(w) = r <=> Distance(w, r) = max_size - 1
  BY <1>1, <1>2, GSJobQueueAssumption DEF Index
<1> QED BY <1>3, <1>4

\* What publishing does to the distance, and where the published job is.
LEMMA WriteMoves == ASSUME NEW w \in Index, NEW r \in Index, Distance(w, r) < max_size - 1
                    PROVE  /\ Distance(next_index(w), r) = Distance(w, r) + 1
                           /\ Cell(r, Distance(w, r) + 1) = w
                           /\ \A k \in 1..Distance(w, r) : Cell(r, k) # w
<1>1. Distance(w, r) \in Index /\ Distance(w, r) = IF w >= r THEN w - r ELSE w + max_size - r
  BY DistanceValue
<1>2. next_index(w) \in Index /\ next_index(w) = IF w + 1 = max_size THEN 0 ELSE w + 1
  BY NextIndex
<1>3. Distance(next_index(w), r) = IF next_index(w) >= r THEN next_index(w) - r ELSE next_index(w) + max_size - r
  BY <1>2, DistanceValue
<1>4. Distance(next_index(w), r) = Distance(w, r) + 1
  BY <1>1, <1>2, <1>3, GSJobQueueAssumption DEF Index
<1>5. Cell(r, Distance(w, r) + 1) = w
  <2> DEFINE k == Distance(w, r) + 1
  <2>1. k \in 1..max_size
    BY <1>1, GSJobQueueAssumption DEF Index
  <2>2. Cell(r, k) = IF r + k - 1 >= max_size THEN r + k - 1 - max_size ELSE r + k - 1
    BY <2>1, CellValue
  <2> QED BY <1>1, <2>2, GSJobQueueAssumption DEF Index
<1>6. ASSUME NEW k \in 1..Distance(w, r) PROVE Cell(r, k) # w
  <2>1. k \in 1..max_size
    BY <1>1, GSJobQueueAssumption DEF Index
  <2>2. Cell(r, k) = IF r + k - 1 >= max_size THEN r + k - 1 - max_size ELSE r + k - 1
    BY <2>1, CellValue
  <2> QED BY <1>1, <2>1, <2>2, GSJobQueueAssumption DEF Index
<1> QED BY <1>4, <1>5, <1>6

\* What giving a cell back does to the distance and to the cells that remain.
LEMMA ReadMoves == ASSUME NEW w \in Index, NEW r \in Index, Distance(w, r) > 0
                   PROVE  /\ Distance(w, next_index(r)) = Distance(w, r) - 1
                          /\ Cell(r, 1) = r
                          /\ \A k \in 2..Distance(w, r) : Cell(r, k) # r
                          /\ \A k \in 1..(Distance(w, r) - 1) : Cell(next_index(r), k) = Cell(r, k + 1)
<1>1. Distance(w, r) \in Index /\ Distance(w, r) = IF w >= r THEN w - r ELSE w + max_size - r
  BY DistanceValue
<1>2. next_index(r) \in Index /\ next_index(r) = IF r + 1 = max_size THEN 0 ELSE r + 1
  BY NextIndex
<1>3. Distance(w, next_index(r)) = IF w >= next_index(r) THEN w - next_index(r) ELSE w + max_size - next_index(r)
  BY <1>2, DistanceValue
<1>4. Distance(w, next_index(r)) = Distance(w, r) - 1
  BY <1>1, <1>2, <1>3, GSJobQueueAssumption DEF Index
<1>5. \A k \in 1..max_size : Cell(r, k) = IF r + k - 1 >= max_size THEN r + k - 1 - max_size ELSE r + k - 1
  BY CellValue
<1>6. Cell(r, 1) = r
  BY <1>5, GSJobQueueAssumption DEF Index
<1>7. ASSUME NEW k \in 2..Distance(w, r) PROVE Cell(r, k) # r
  <2>1. k \in 1..max_size
    BY <1>1, GSJobQueueAssumption DEF Index
  <2> QED BY <1>1, <1>5, <2>1, GSJobQueueAssumption DEF Index
<1>8. ASSUME NEW k \in 1..(Distance(w, r) - 1) PROVE Cell(next_index(r), k) = Cell(r, k + 1)
  <2> DEFINE n == next_index(r)
  <2>1. k \in 1..max_size /\ k + 1 \in 1..max_size
    BY <1>1, GSJobQueueAssumption DEF Index
  <2>2. Cell(n, k) = IF n + k - 1 >= max_size THEN n + k - 1 - max_size ELSE n + k - 1
    BY <1>2, <2>1, CellValue
  <2>3. Cell(r, k + 1) = IF r + (k + 1) - 1 >= max_size THEN r + (k + 1) - 1 - max_size ELSE r + (k + 1) - 1
    BY <1>5, <2>1
  <2> QED BY <1>1, <1>2, <2>1, <2>2, <2>3, GSJobQueueAssumption DEF Index
<1> QED BY <1>4, <1>6, <1>7, <1>8

-----------------------------------------------------------------------------
\* The inductive invariant

IInv == TypeOK /\ RingInv /\ WakeInv

LEMMA SizeType == TypeOK => size \in Index
  BY DistanceValue DEF TypeOK, size, Index

LEMMA InitIInv == Init => IInv
<1> SUFFICES ASSUME Init PROVE IInv
  OBVIOUS
<1>1. TypeOK
  BY GSJobQueueAssumption DEF Init, TypeOK, RendererPcs, WorkerPcs
<1>2. size = 0
  BY <1>1, EmptyFull DEF Init, TypeOK, size, Index
<1> QED BY <1>1, <1>2 DEF Init, IInv, RingInv, WakeInv, Retired, Published

LEMMA StepIInv == IInv /\ [Next]_vars => IInv'
<1> SUFFICES ASSUME IInv, [Next]_vars PROVE IInv'
  OBVIOUS
<1> USE DEF ring, renderer, worker, vars
<1>0. size \in Index
  BY SizeType DEF IInv
<1>1. CASE Push
  <2>1. TypeOK'
    BY <1>1, GSJobQueueAssumption DEF Push, IInv, TypeOK, RendererPcs, WorkerPcs
  <2>2. RingInv'
    BY <1>0, <1>1 DEF Push, IInv, TypeOK, RingInv, Retired, Published, size, Index
  <2>3. WakeInv'
    BY <1>0, <1>1 DEF Push, IInv, TypeOK, WakeInv, size, Index
  <2> QED BY <2>1, <2>2, <2>3 DEF IInv
<1>2. CASE PushRoom
  <2>1. TypeOK'
    BY <1>2, GSJobQueueAssumption DEF PushRoom, IInv, TypeOK, RendererPcs, WorkerPcs
  <2>2. RingInv'
    <3>1. size < max_size - 1
      BY <1>0, <1>2, EmptyFull, GSJobQueueAssumption DEF PushRoom, full, IInv, TypeOK, size, Index
    <3> QED BY <1>0, <1>2, <3>1 DEF PushRoom, IInv, TypeOK, RingInv, Retired, Published, size
  <2>3. WakeInv'
    BY <1>0, <1>2 DEF PushRoom, IInv, TypeOK, WakeInv, size, Index
  <2> QED BY <2>1, <2>2, <2>3 DEF IInv
<1>3. CASE PushCopy
  <2>1. TypeOK'
    BY <1>3, GSJobQueueAssumption DEF PushCopy, IInv, TypeOK, RendererPcs, WorkerPcs
  <2>2. RingInv'
    <3>1. write_index \in Index /\ read_index \in Index /\ size < max_size - 1
      BY <1>3 DEF PushCopy, IInv, TypeOK, RingInv, Index
    <3>2. \A k \in 1..size : Cell(read_index, k) # write_index
      BY <3>1, WriteMoves DEF size
    <3>3. \A k \in 1..size : Cell(read_index, k) \in Index
      BY <1>0, <3>1, CellValue, GSJobQueueAssumption DEF Index
    <3>4. \A k \in 1..size : buffer'[Cell(read_index, k)] = buffer[Cell(read_index, k)]
      BY <1>3, <3>2, <3>3 DEF PushCopy, IInv, TypeOK, Index
    <3>5. buffer'[write_index] = item
      BY <1>3, <3>1 DEF PushCopy, IInv, TypeOK, Index
    <3> QED BY <1>0, <1>3, <3>1, <3>4, <3>5 DEF PushCopy, IInv, TypeOK, RingInv, Retired, Published, size
  <2>3. WakeInv'
    BY <1>0, <1>3 DEF PushCopy, IInv, TypeOK, WakeInv, size, Index
  <2> QED BY <2>1, <2>2, <2>3 DEF IInv
<1>4. CASE PushPublish
  <2>1. TypeOK'
    BY <1>4, NextIndex DEF PushPublish, IInv, TypeOK, RendererPcs, Index
  <2>2. RingInv'
    <3>1. write_index \in Index /\ read_index \in Index /\ size < max_size - 1
      BY <1>4 DEF PushPublish, IInv, TypeOK, RingInv, Index
    <3>2. size' = size + 1 /\ Cell(read_index, size + 1) = write_index
      BY <1>4, <3>1, WriteMoves DEF PushPublish, size
    <3>3. Published = item - 1 /\ Published' = item /\ Retired' = Retired
      BY <1>4 DEF PushPublish, Published, Retired
    <3>4. buffer[Cell(read_index, size + 1)] = Retired + (size + 1)
      BY <1>0, <1>4, <3>2, <3>3 DEF PushPublish, IInv, TypeOK, RingInv, Retired, Index
    <3>5. ASSUME NEW k \in 1..size'
          PROVE  ((k = 1 /\ wpc = "advance") \/ buffer[Cell(read_index, k)] = Retired + k)'
      <4>1. k \in 1..size \/ k = size + 1
        BY <1>0, <3>2 DEF Index
      <4>2. (k = 1 /\ wpc = "advance") \/ buffer[Cell(read_index, k)] = Retired + k
        BY <3>4, <4>1 DEF IInv, RingInv
      <4> QED BY <1>4, <3>3, <4>2 DEF PushPublish
    <3>6. (Retired >= 0 /\ size = Published - Retired)'
      BY <1>0, <1>4, <3>2, <3>3 DEF PushPublish, IInv, TypeOK, RingInv, Retired, Index
    <3>7. (wpc \in {"run", "destroy", "advance"} => size > 0 /\ job = Retired + 1)'
      BY <1>0, <1>4, <3>2, <3>3 DEF PushPublish, IInv, RingInv, Index
    <3> QED BY <1>4, <3>5, <3>6, <3>7 DEF PushPublish, RingInv
  <2>3. WakeInv'
    BY <1>0, <1>4 DEF PushPublish, IInv, TypeOK, WakeInv, size, Index
  <2> QED BY <2>1, <2>2, <2>3 DEF IInv
<1>5. CASE NotifyOfWork
  <2>1. TypeOK'
    BY <1>5, GSJobQueueAssumption DEF NotifyOfWork, IInv, TypeOK, RendererPcs, WorkerPcs
  <2>2. RingInv'
    BY <1>0, <1>5 DEF NotifyOfWork, IInv, TypeOK, RingInv, Retired, Published, size, Index
  <2>3. WakeInv'
    BY <1>0, <1>5 DEF NotifyOfWork, IInv, TypeOK, WakeInv, size, Index
  <2> QED BY <2>1, <2>2, <2>3 DEF IInv
<1>6. CASE IsEmpty
  <2>1. TypeOK'
    BY <1>6, GSJobQueueAssumption DEF IsEmpty, IInv, TypeOK, RendererPcs, WorkerPcs
  <2>2. RingInv'
    BY <1>0, <1>6 DEF IsEmpty, IInv, TypeOK, RingInv, Retired, Published, size, Index
  <2>3. WakeInv'
    BY <1>0, <1>6 DEF IsEmpty, IInv, TypeOK, WakeInv, size, Index
  <2> QED BY <2>1, <2>2, <2>3 DEF IInv
<1>7. CASE Sync
  <2>1. TypeOK'
    BY <1>7, GSJobQueueAssumption DEF Sync, IInv, TypeOK, RendererPcs, WorkerPcs
  <2>2. RingInv'
    BY <1>0, <1>7 DEF Sync, IInv, TypeOK, RingInv, Retired, Published, size, Index
  <2>3. WakeInv'
    BY <1>0, <1>7 DEF Sync, IInv, TypeOK, WakeInv, size, Index
  <2> QED BY <2>1, <2>2, <2>3 DEF IInv
<1>8. CASE Wait
  <2>1. TypeOK'
    BY <1>8, GSJobQueueAssumption DEF Wait, IInv, TypeOK, RendererPcs, WorkerPcs
  <2>2. RingInv'
    BY <1>0, <1>8 DEF Wait, IInv, TypeOK, RingInv, Retired, Published, size, Index
  <2>3. WakeInv'
    BY <1>0, <1>8 DEF Wait, IInv, TypeOK, WakeInv, size, Index
  <2> QED BY <2>1, <2>2, <2>3 DEF IInv
<1>9. CASE WaitReturn
  <2>1. TypeOK'
    BY <1>9, GSJobQueueAssumption DEF WaitReturn, IInv, TypeOK, RendererPcs, WorkerPcs
  <2>2. RingInv'
    BY <1>0, <1>9 DEF WaitReturn, IInv, TypeOK, RingInv, Retired, Published, size, Index
  <2>3. WakeInv'
    BY <1>0, <1>9 DEF WaitReturn, IInv, TypeOK, WakeInv, size, Index
  <2> QED BY <2>1, <2>2, <2>3 DEF IInv
<1>10. CASE Destroy
  <2>1. TypeOK'
    BY <1>10, GSJobQueueAssumption DEF Destroy, IInv, TypeOK, RendererPcs, WorkerPcs
  <2>2. RingInv'
    BY <1>0, <1>10 DEF Destroy, IInv, TypeOK, RingInv, Retired, Published, size, Index
  <2>3. WakeInv'
    BY <1>0, <1>10 DEF Destroy, IInv, TypeOK, WakeInv, size, Index
  <2> QED BY <2>1, <2>2, <2>3 DEF IInv
<1>11. CASE DestroyNotify
  <2>1. TypeOK'
    BY <1>11, GSJobQueueAssumption DEF DestroyNotify, IInv, TypeOK, RendererPcs, WorkerPcs
  <2>2. RingInv'
    BY <1>0, <1>11 DEF DestroyNotify, IInv, TypeOK, RingInv, Retired, Published, size, Index
  <2>3. WakeInv'
    BY <1>0, <1>11 DEF DestroyNotify, IInv, TypeOK, WakeInv, size, Index
  <2> QED BY <2>1, <2>2, <2>3 DEF IInv
<1>12. CASE Join
  <2>1. TypeOK'
    BY <1>12, GSJobQueueAssumption DEF Join, IInv, TypeOK, RendererPcs, WorkerPcs
  <2>2. RingInv'
    BY <1>0, <1>12 DEF Join, IInv, TypeOK, RingInv, Retired, Published, size, Index
  <2>3. WakeInv'
    BY <1>0, <1>12 DEF Join, IInv, TypeOK, WakeInv, size, Index
  <2> QED BY <2>1, <2>2, <2>3 DEF IInv
<1>13. CASE WaitForWork
  <2>1. TypeOK'
    BY <1>13, GSJobQueueAssumption DEF WaitForWork, IInv, TypeOK, RendererPcs, WorkerPcs
  <2>2. RingInv'
    BY <1>0, <1>13 DEF WaitForWork, IInv, TypeOK, RingInv, Retired, Published, size, Index
  <2>3. WakeInv'
    BY <1>0, <1>13 DEF WaitForWork, IInv, TypeOK, WakeInv, size, Index
  <2> QED BY <2>1, <2>2, <2>3 DEF IInv
<1>14. CASE Wake
  <2>1. TypeOK'
    BY <1>14, GSJobQueueAssumption DEF Wake, IInv, TypeOK, RendererPcs, WorkerPcs
  <2>2. RingInv'
    BY <1>0, <1>14 DEF Wake, IInv, TypeOK, RingInv, Retired, Published, size, Index
  <2>3. WakeInv'
    BY <1>0, <1>14 DEF Wake, IInv, TypeOK, WakeInv, size, Index
  <2> QED BY <2>1, <2>2, <2>3 DEF IInv
<1>15. CASE CheckExit
  <2>1. TypeOK'
    BY <1>15, GSJobQueueAssumption DEF CheckExit, IInv, TypeOK, RendererPcs, WorkerPcs
  <2>2. RingInv'
    BY <1>0, <1>15 DEF CheckExit, IInv, TypeOK, RingInv, Retired, Published, size, Index
  <2>3. WakeInv'
    BY <1>0, <1>15 DEF CheckExit, IInv, TypeOK, WakeInv, size, Index
  <2> QED BY <2>1, <2>2, <2>3 DEF IInv
<1>16. CASE consume_one
  <2>0. /\ read_index \in Index /\ write_index \in Index
        /\ empty <=> size = 0
        /\ Cell(read_index, 1) = IF size > 0 THEN read_index ELSE Cell(read_index, 1)
    BY <1>0, EmptyFull, ReadMoves DEF IInv, TypeOK, empty, size, Index
  <2>1. TypeOK'
    BY <1>16, GSJobQueueAssumption DEF consume_one, IInv, TypeOK, RendererPcs, WorkerPcs
  <2>2. RingInv'
    BY <1>0, <2>0, <1>16 DEF consume_one, IInv, TypeOK, RingInv, Retired, Published, size, Index
  <2>3. WakeInv'
    BY <1>0, <2>0, <1>16 DEF consume_one, IInv, TypeOK, WakeInv, size, Index
  <2> QED BY <2>1, <2>2, <2>3 DEF IInv
<1>17. CASE RunJob
  <2>1. TypeOK'
    <3>1. done < MaxJobs
      BY <1>0, <1>17, GSJobQueueAssumption DEF RunJob, IInv, TypeOK, RingInv, Retired, Published, Index
    <3> QED BY <1>17, <3>1, GSJobQueueAssumption DEF RunJob, IInv, TypeOK, WorkerPcs
  <2>2. RingInv'
    BY <1>0, <1>17 DEF RunJob, IInv, TypeOK, RingInv, Retired, Published, size, Index
  <2>3. WakeInv'
    BY <1>0, <1>17 DEF RunJob, IInv, TypeOK, WakeInv, size, Index
  <2> QED BY <2>1, <2>2, <2>3 DEF IInv
<1>18. CASE DestroyJob
  <2>1. TypeOK'
    BY <1>18, GSJobQueueAssumption DEF DestroyJob, IInv, TypeOK, RendererPcs, WorkerPcs
  <2>2. RingInv'
    <3>1. write_index \in Index /\ read_index \in Index /\ size > 0
      BY <1>18 DEF DestroyJob, IInv, TypeOK, RingInv, Index
    <3>2. \A k \in 2..size : Cell(read_index, k) # read_index /\ Cell(read_index, k) \in Index
      BY <1>0, <3>1, ReadMoves, CellValue, GSJobQueueAssumption DEF size, Index
    <3>3. \A k \in 2..size : buffer'[Cell(read_index, k)] = buffer[Cell(read_index, k)]
      BY <1>18, <3>2 DEF DestroyJob, IInv, TypeOK, Index
    <3>4. write_index # read_index
      BY <1>0, <3>1, EmptyFull DEF size, Index
    <3>5. buffer'[write_index] = buffer[write_index]
      BY <1>18, <3>1, <3>4 DEF DestroyJob, IInv, TypeOK, Index
    <3> QED BY <1>0, <1>18, <3>1, <3>3, <3>5 DEF DestroyJob, IInv, TypeOK, RingInv, Retired, Published, size, Index
  <2>3. WakeInv'
    BY <1>0, <1>18 DEF DestroyJob, IInv, TypeOK, WakeInv, size, Index
  <2> QED BY <2>1, <2>2, <2>3 DEF IInv
<1>19. CASE AdvanceRead
  <2>0. /\ write_index \in Index /\ read_index \in Index /\ size > 0
        /\ size' = size - 1
        /\ \A k \in 1..(size - 1) : Cell(next_index(read_index), k) = Cell(read_index, k + 1)
    <3>1. write_index \in Index /\ read_index \in Index /\ size > 0
      BY <1>19 DEF AdvanceRead, IInv, TypeOK, RingInv, Index
    <3> QED BY <1>19, <3>1, ReadMoves DEF AdvanceRead, size
  <2>1. TypeOK'
    BY <1>19, NextIndex DEF AdvanceRead, IInv, TypeOK, WorkerPcs, Index
  <2>2. RingInv'
    <3>1. Retired' = Retired + 1 /\ Published' = Published
      BY <1>19 DEF AdvanceRead, IInv, TypeOK, Retired, Published
    <3>2. (Retired >= 0 /\ size = Published - Retired)'
      BY <1>0, <1>19, <2>0, <3>1 DEF IInv, TypeOK, RingInv, Retired, Published, Index
    <3>3. ASSUME NEW k \in 1..size'
          PROVE  (buffer[Cell(read_index, k)] = Retired + k)'
      <4>1. k + 1 \in 1..size /\ k + 1 # 1 /\ k \in 1..(size - 1)
        BY <1>0, <2>0 DEF Index
      <4>2. buffer[Cell(read_index, k + 1)] = Retired + (k + 1)
        BY <4>1 DEF IInv, RingInv
      <4> QED BY <1>0, <1>19, <2>0, <3>1, <4>1, <4>2 DEF AdvanceRead, IInv, TypeOK, Retired
    <3>4. (rpc \in {"copy", "publish"} => size < max_size - 1)'
      BY <1>0, <1>19, <2>0, GSJobQueueAssumption DEF AdvanceRead, IInv, RingInv, Index
    <3> QED BY <1>19, <3>2, <3>3, <3>4 DEF AdvanceRead, IInv, RingInv
  <2>3. WakeInv'
    BY <1>0, <1>19, <2>0 DEF AdvanceRead, IInv, WakeInv, Index
  <2> QED BY <2>1, <2>2, <2>3 DEF IInv
<1>20. CASE UNCHANGED vars
  BY <1>20 DEF IInv, TypeOK, RingInv, WakeInv, Retired, Published, size
<1> QED BY <1>1, <1>2, <1>3, <1>4, <1>5, <1>6, <1>7, <1>8, <1>9, <1>10,
           <1>11, <1>12, <1>13, <1>14, <1>15, <1>16, <1>17, <1>18, <1>19, <1>20 DEF Next, Renderer, Worker, Gone

\* Every reachable state has its types.
THEOREM TypeCorrect == Spec => []TypeOK
<1> QED BY InitIInv, StepIInv, PTL DEF Spec, IInv

\* The ring holds exactly the jobs published and not given back, in order, and the
\* room a push has found stays.
THEOREM RingCorrect == Spec => []RingInv
<1> QED BY InitIInv, StepIInv, PTL DEF Spec, IInv

\* No job is in the ring of a worker that is, or will be, asleep without a notify to
\* come; a renderer that Wait lets go finds the ring empty.
THEOREM WakeCorrect == Spec => []WakeInv
<1> QED BY InitIInv, StepIInv, PTL DEF Spec, IInv

\* The worker destroys the n-th job after n runs.
THEOREM EachRunsOnce == Spec => []RunsEachOnce
<1>1. IInv => RunsEachOnce
  BY DEF IInv, TypeOK, RingInv, Retired, RunsEachOnce
<1> QED BY <1>1, InitIInv, StepIInv, PTL DEF Spec

-----------------------------------------------------------------------------
\* Refinement of JobQueue

\* The jobs after the a-th, n of them.
Run(a, n) == [k \in 1..n |-> a + k]

LEMMA RunSeq == ASSUME NEW a \in Nat, NEW n \in Nat
                PROVE  Run(a, n) \in Seq(Nat) /\ Len(Run(a, n)) = n
  BY DEF Run

LEMMA RunEmpty == ASSUME NEW a \in Nat
                  PROVE  Run(a, 0) = <<>>
  BY DEF Run

LEMMA RunAppend == ASSUME NEW a \in Nat, NEW n \in Nat
                   PROVE  Append(Run(a, n), a + n + 1) = Run(a, n + 1)
  BY RunSeq DEF Run

LEMMA RunTail == ASSUME NEW a \in Nat, NEW n \in Nat, n > 0
                 PROVE  Run(a, n) # <<>> /\ Tail(Run(a, n)) = Run(a + 1, n - 1)
  BY RunSeq DEF Run

PendingInv == /\ Pending = Run(Retired, size)
              /\ Retired \in Nat /\ size \in Nat /\ Published \in Nat
              /\ size = Published - Retired

LEMMA PendingIsRun == IInv => PendingInv
<1> SUFFICES ASSUME IInv PROVE PendingInv
  OBVIOUS
<1>1. Retired \in Nat /\ size \in Nat /\ Published \in Nat
  BY SizeType DEF IInv, TypeOK, RingInv, Retired, Published, Index
<1>2. ASSUME NEW k \in 1..size
      PROVE  (IF k = 1 /\ wpc = "advance" THEN job ELSE buffer[Cell(read_index, k)]) = Retired + k
  BY <1>1, <1>2 DEF IInv, RingInv
<1> QED BY <1>1, <1>2 DEF IInv, RingInv, Pending, Run, PendingInv

LEMMA PendingStaysRun == IInv /\ [Next]_vars => PendingInv'
<1>1. IInv' => PendingInv'
  BY PendingIsRun, PTL
<1> QED BY <1>1, StepIInv

\* A step that moves no index and tells the renderer nothing is a stutter.
LEMMA Stutter == ASSUME PendingInv, PendingInv', UNCHANGED <<size, Retired, Published, synced>>
                 PROVE  UNCHANGED Contract!abstract
  BY DEF Contract!abstract, PendingInv, Run

LEMMA InitContract == Init => Contract!Init
<1> SUFFICES ASSUME Init PROVE Contract!Init
  OBVIOUS
<1>1. PendingInv
  BY InitIInv, PendingIsRun
<1>2. Retired = 0 /\ Published = 0
  BY DEF Init, Retired, Published
<1>3. Pending = <<>>
  BY <1>1, <1>2, RunEmpty DEF PendingInv
<1> QED BY <1>2, <1>3 DEF Init, Contract!Init

LEMMA StepContract == IInv /\ [Next]_vars => [Contract!Next]_(Contract!abstract)
<1> SUFFICES ASSUME IInv, [Next]_vars PROVE [Contract!Next]_(Contract!abstract)
  OBVIOUS
<1> USE DEF ring, renderer, worker, vars
<1>0. PendingInv /\ PendingInv'
  BY PendingIsRun, PendingStaysRun
<1>a. ASSUME UNCHANGED <<size, Retired, Published>>, size = 0, synced' = 1 PROVE Contract!Synced
  <2>1. Pending = <<>> /\ Pending' = <<>>
    BY <1>0, <1>a, RunEmpty DEF PendingInv
  <2> QED BY <1>a, <2>1 DEF Contract!Synced
<1>1. CASE Push
  BY <1>1, <1>0, Stutter DEF Push, size, Retired, Published, IInv, TypeOK
<1>2. CASE PushRoom
  BY <1>2, <1>0, Stutter DEF PushRoom, size, Retired, Published
<1>3. CASE PushCopy
  BY <1>3, <1>0, Stutter DEF PushCopy, size, Retired, Published
<1>4. CASE NotifyOfWork
  BY <1>4, <1>0, Stutter DEF NotifyOfWork, size, Retired, Published
<1>5. CASE Sync
  BY <1>5, <1>0, Stutter DEF Sync, size, Retired, Published
<1>6. CASE Destroy
  BY <1>6, <1>0, Stutter DEF Destroy, size, Retired, Published
<1>7. CASE DestroyNotify
  BY <1>7, <1>0, Stutter DEF DestroyNotify, size, Retired, Published
<1>8. CASE Join
  BY <1>8, <1>0, Stutter DEF Join, size, Retired, Published
<1>9. CASE WaitForWork
  BY <1>9, <1>0, Stutter DEF WaitForWork, size, Retired, Published
<1>10. CASE Wake
  BY <1>10, <1>0, Stutter DEF Wake, size, Retired, Published
<1>11. CASE CheckExit
  BY <1>11, <1>0, Stutter DEF CheckExit, size, Retired, Published
<1>12. CASE consume_one
  BY <1>12, <1>0, Stutter DEF consume_one, size, Retired, Published
<1>13. CASE RunJob
  BY <1>13, <1>0, Stutter DEF RunJob, size, Retired, Published, IInv, TypeOK
<1>14. CASE DestroyJob
  BY <1>14, <1>0, Stutter DEF DestroyJob, size, Retired, Published
<1>15. CASE PushPublish
  <2>1. size < max_size - 1 /\ size' = size + 1
    BY <1>15, WriteMoves DEF PushPublish, IInv, TypeOK, RingInv, size, Index
  <2>2. Retired' = Retired /\ Published' = Published + 1 /\ synced' = 0
    BY <1>15 DEF PushPublish, IInv, TypeOK, Retired, Published
  <2>3. Len(Pending) < max_size - 1
    BY <1>0, <2>1, RunSeq DEF PendingInv
  <2>4. Pending' = Append(Pending, Published + 1)
    <3>1. Published + 1 = Retired + size + 1
      BY <1>0 DEF PendingInv
    <3> QED BY <1>0, <2>1, <2>2, <3>1, RunAppend DEF PendingInv
  <2> QED BY <2>2, <2>3, <2>4 DEF Contract!Next, Contract!Push
<1>16. CASE AdvanceRead
  <2>1. size > 0 /\ size' = size - 1
    BY <1>16, ReadMoves DEF AdvanceRead, IInv, TypeOK, RingInv, size, Index
  <2>2. Retired' = Retired + 1 /\ Published' = Published /\ synced' = synced
    BY <1>16 DEF AdvanceRead, IInv, TypeOK, Retired, Published
  <2>3. Pending # <<>> /\ Pending' = Tail(Pending)
    <3>1. Run(Retired, size) # <<>> /\ Tail(Run(Retired, size)) = Run(Retired + 1, size - 1)
      BY <1>0, <2>1, RunTail DEF PendingInv
    <3>2. Pending = Run(Retired, size) /\ Pending' = Run(Retired + 1, size - 1)
      BY <1>0, <2>1, <2>2 DEF PendingInv
    <3> QED BY <3>1, <3>2
  <2> QED BY <2>2, <2>3 DEF Contract!Next, Contract!Done
<1>17. CASE IsEmpty
  <2>1. size = 0
    BY <1>17, EmptyFull DEF IsEmpty, empty, IInv, TypeOK, size, Index
  <2> QED BY <1>17, <1>a, <2>1 DEF IsEmpty, size, Retired, Published, Contract!Next
<1>18. CASE Wait
  <2>1. CASE m_sema = "idle"
    <3>1. size = 0
      BY <1>18, <2>1, <1>0 DEF Wait, IInv, WakeInv, PendingInv
    <3> QED BY <1>18, <2>1, <3>1, <1>a DEF Wait, size, Retired, Published, Contract!Next
  <2>2. CASE m_sema # "idle"
    BY <1>18, <2>2, <1>0, Stutter DEF Wait, size, Retired, Published
  <2> QED BY <2>1, <2>2
<1>19. CASE WaitReturn
  <2>1. size = 0
    BY <1>19 DEF WaitReturn, IInv, WakeInv
  <2> QED BY <1>19, <1>a, <2>1 DEF WaitReturn, size, Retired, Published, Contract!Next
<1>20. CASE UNCHANGED vars
  BY <1>20, <1>0, Stutter DEF size, Retired, Published
<1> QED BY <1>1, <1>2, <1>3, <1>4, <1>5, <1>6, <1>7, <1>8, <1>9, <1>10,
           <1>11, <1>12, <1>13, <1>14, <1>15, <1>16, <1>17, <1>18, <1>19, <1>20 DEF Next, Renderer, Worker, Gone

\* Ring, semaphore, renderer and worker implement JobQueue, for every size of the
\* ring: jobs leave in the order of Push, and IsSynced and Sync tell the renderer
\* that all is done only when nothing is pending.
THEOREM Implements == Spec => KeepsContract
<1> QED BY InitIInv, StepIInv, InitContract, StepContract, PTL DEF Spec, KeepsContract, Contract!Spec

\* m_sema as the contract of WorkSema has it; Wait goes on in the step it returns.
Sema == INSTANCE WorkSemaContract
          WITH sem <- m_sema, waiting <- (waiting = 1), caller <- IF rpc = "asleep" THEN "asleep" ELSE "out"

\* A step of the queue is one of the semaphore's contract, or leaves it alone.
LEMMA SemaContractStep == IInv /\ [Next]_vars => [Sema!Next]_(Sema!vars)
<1> SUFFICES ASSUME TypeOK, WakeInv, [Next]_vars PROVE [Sema!Next]_(Sema!vars)
  BY DEF IInv
<1> USE DEF Sema!vars, ring, renderer, worker, vars
<1>1. ASSUME UNCHANGED <<m_sema, waiting>>, rpc' = "asleep" <=> rpc = "asleep" PROVE [Sema!Next]_(Sema!vars)
  BY <1>1
<1>2. CASE Renderer
  <2>1. CASE NotifyOfWork \/ DestroyNotify
    BY <2>1 DEF NotifyOfWork, DestroyNotify, TypeOK, Sema!Next, Sema!NotifyOfWork
  <2>2. CASE Wait
    BY <2>2 DEF Wait, TypeOK, Sema!Next, Sema!WaitForEmpty, Sema!Back
  <2>3. CASE WaitReturn
    BY <2>3 DEF WaitReturn, Sema!Next, Sema!Return, Sema!Back
  <2>4. CASE Push \/ PushRoom \/ PushCopy \/ PushPublish \/ IsEmpty \/ Sync \/ Destroy \/ Join
    BY <1>1, <2>4 DEF Push, PushRoom, PushCopy, PushPublish, IsEmpty, Sync, Destroy, Join
  <2> QED BY <1>2, <2>1, <2>2, <2>3, <2>4 DEF Renderer
<1>3. CASE Worker
  <2>1. CASE WaitForWork
    BY <2>1 DEF WaitForWork, TypeOK, WakeInv, Sema!Next, Sema!TakeWork, Sema!GoIdle
  <2>2. CASE Wake
    BY <2>2 DEF Wake, Sema!Next, Sema!TakeWork
  <2>3. CASE CheckExit \/ consume_one \/ RunJob \/ DestroyJob \/ AdvanceRead
    BY <1>1, <2>3 DEF CheckExit, consume_one, RunJob, DestroyJob, AdvanceRead
  <2> QED BY <1>3, <2>1, <2>2, <2>3 DEF Worker
<1> QED BY <1>1, <1>2, <1>3 DEF Next, Gone

\* The queue asks of m_sema, and expects from it, what WorkSema provides.
THEOREM KeepsToContract == Spec => Sema!Spec
<1>1. Init => Sema!Init
  BY DEF Init, Sema!Init
<1> QED BY <1>1, InitIInv, StepIInv, SemaContractStep, PTL DEF Spec, Sema!Spec

\* While Sync sleeps and has not been let go, the worker is awake or notified.
THEOREM SyncNotStranded == Spec => []Sema!NobodyStranded
<1> DEFINE Inv == m_sema \in Sema!SemStates /\ Sema!NobodyStranded
<1>1. Sema!Init => Inv
  BY Zenon DEF Sema!Init, Sema!NobodyStranded, Sema!SemStates
<1>2. Inv /\ [Sema!Next]_(Sema!vars) => Inv'
  <2> SUFFICES ASSUME Inv, [Sema!Next]_(Sema!vars) PROVE Inv'
    OBVIOUS
  <2> USE DEF Sema!NobodyStranded, Sema!SemStates
  <2>1. CASE Sema!NotifyOfWork \/ Sema!TakeWork \/ Sema!TimeOut \/ Sema!Reset
    BY <2>1, Zenon DEF Sema!NotifyOfWork, Sema!TakeWork, Sema!TimeOut, Sema!Reset
  <2>2. CASE Sema!GoIdle \/ Sema!CheckForWork \/ Sema!Kill
    BY <2>2, Zenon DEF Sema!GoIdle, Sema!CheckForWork, Sema!Kill
  <2>3. CASE Sema!WaitForEmpty
    BY <2>3, Zenon DEF Sema!WaitForEmpty
  <2>4. CASE Sema!Return \/ Sema!Continue \/ UNCHANGED Sema!vars
    BY <2>4, Zenon DEF Sema!Return, Sema!Continue, Sema!vars
  <2> QED BY <2>1, <2>2, <2>3, <2>4, Zenon DEF Sema!Next
<1> QED BY <1>1, <1>2, KeepsToContract, PTL DEF Sema!Spec
-----------------------------------------------------------------------------
(* The mailbox of GS events *)

PartialLabels == UNION {[S -> {0, 1}] : S \in SUBSET Bits}

RegistersType == [CSR : SUBSET Events, IMR : SUBSET Events, SIGID : Nat, LBLID : [Bits -> {0, 1}], queued : BOOLEAN,
                  data : Nat, fired : BOOLEAN, pending : BOOLEAN, irq : SUBSET Events]

\* The GS registers: typed, no unmasked event that has not interrupted, and a
\* FINISH that waits will interrupt when it is set.
RegistersOK(g) == /\ g \in RegistersType
                  /\ g.CSR \ g.IMR \subseteq g.irq
                  /\ g.pending => ~g.fired

Typed == /\ mtvuInterrupts \subseteq Flags /\ interrupts \subseteq Flags
         /\ gsSignal \in Signals \cup {0} /\ sig \in Signals \cup {0}
         /\ gsLabel \in PartialLabels /\ label \in PartialLabels /\ existing \in PartialLabels
         /\ vpc \in {"run", "spin", "store", "flag", "load", "cas", "labelFlag"}
         /\ spin \in 0..SpinBound /\ epc \in 0..7

\* The EE is at a step whose flag it saw; the first step's flag is still set.
SeenInv == /\ epc > 0 => Steps[epc][1] \in interrupts
           /\ epc = 1 => "Signal" \in mtvuInterrupts

\* The VU thread has found the mailbox free, or has stopped waiting, or the EE
\* is in the window between clearing the flag and taking the signal.
StoreInv == vpc = "store" /\ gsSignal # 0 => spin = SpinBound \/ epc = 2 \/ "Signal" \in orphan

EventsInv == Typed /\ RegistersOK(gs) /\ SeenInv /\ StoreInv /\ MailFlagged /\ LabelsMerged

-----------------------------------------------------------------------------
\* Get_MTVUChanges goes through the steps in order and skips no flag it saw.

LEMMA StepsValue == /\ Len(Steps) = 7 /\ DOMAIN Steps = 1..7
                    /\ Steps[1] = <<"Signal", "clear">> /\ Steps[2] = <<"Signal", "take">> /\ Steps[3] = <<"Finish", "clear">>
                    /\ Steps[4] = <<"Label", "clear">> /\ Steps[5] = <<"Label", "take">>
                    /\ Steps[6] = <<"VUEBit", "clear">> /\ Steps[7] = <<"VUTBit", "clear">>
  BY DEF Steps

LEMMA Least == ASSUME NEW S \in SUBSET (1..7), S # {}
               PROVE  \E j \in S : \A k \in S : j <= k
<1>1. CASE 1 \in S
  BY <1>1
<1>2. CASE 1 \notin S /\ 2 \in S
  BY <1>2
<1>3. CASE 1 \notin S /\ 2 \notin S /\ 3 \in S
  BY <1>3
<1>4. CASE 1 \notin S /\ 2 \notin S /\ 3 \notin S /\ 4 \in S
  BY <1>4
<1>5. CASE 1 \notin S /\ 2 \notin S /\ 3 \notin S /\ 4 \notin S /\ 5 \in S
  BY <1>5
<1>6. CASE 1 \notin S /\ 2 \notin S /\ 3 \notin S /\ 4 \notin S /\ 5 \notin S /\ 6 \in S
  BY <1>6
<1>7. CASE 1 \notin S /\ 2 \notin S /\ 3 \notin S /\ 4 \notin S /\ 5 \notin S /\ 6 \notin S /\ 7 \in S
  BY <1>7
<1>8. 1 \in S \/ 2 \in S \/ 3 \in S \/ 4 \in S \/ 5 \in S \/ 6 \in S \/ 7 \in S
  <2>1. PICK j \in S : j \in 1..7
    BY ZenonT(30)
  <2>2. j = 1 \/ j = 2 \/ j = 3 \/ j = 4 \/ j = 5 \/ j = 6 \/ j = 7
    BY <2>1
  <2> QED BY <2>1, <2>2
<1> QED BY <1>1, <1>2, <1>3, <1>4, <1>5, <1>6, <1>7, <1>8

LEMMA StepAfterValue == ASSUME NEW i \in 0..7, NEW seen
                        PROVE  /\ StepAfter(i, seen) \in 0..7
                               /\ StepAfter(i, seen) # 0 => /\ StepAfter(i, seen) > i
                                                            /\ Steps[StepAfter(i, seen)][1] \in seen
                               /\ \A j \in (i + 1)..7 : Steps[j][1] \in seen => StepAfter(i, seen) \in 1..j
<1> DEFINE S == {j \in (i + 1)..7 : Steps[j][1] \in seen}
<1>1. StepAfter(i, seen) = IF S = {} THEN 0 ELSE CHOOSE j \in S : \A k \in S : j <= k
  BY StepsValue DEF StepAfter
<1>2. S \in SUBSET (1..7)
  OBVIOUS
<1>3. CASE S = {}
  BY <1>1, <1>3
<1>4. CASE S # {}
  <2>1. \E j \in S : \A k \in S : j <= k
    BY <1>2, <1>4, Least
  <2>2. StepAfter(i, seen) \in S /\ \A k \in S : StepAfter(i, seen) <= k
    <3> HIDE DEF S
    <3> QED BY <1>1, <1>4, <2>1
  <2>3. StepAfter(i, seen) \in (i + 1)..7 /\ Steps[StepAfter(i, seen)][1] \in seen
    BY <2>2
  <2> QED BY <2>2, <2>3
<1> QED BY <1>3, <1>4

-----------------------------------------------------------------------------
\* Labels

LEMMA MergeType ==
  /\ \A f \in [Bits -> {0, 1}], g \in PartialLabels : MergeLabel(f, g) \in [Bits -> {0, 1}]
  /\ \A f, g \in PartialLabels : MergeLabel(f, g) \in PartialLabels
  /\ NoLabel \in PartialLabels /\ Labels \subseteq PartialLabels
<1>1. ASSUME NEW f \in [Bits -> {0, 1}], NEW g \in PartialLabels
      PROVE  MergeLabel(f, g) \in [Bits -> {0, 1}]
  <2>1. PICK S \in SUBSET Bits : g \in [S -> {0, 1}]
    BY DEF PartialLabels
  <2> QED BY <2>1 DEF MergeLabel
<1>2. ASSUME NEW f \in PartialLabels, NEW g \in PartialLabels
      PROVE  MergeLabel(f, g) \in PartialLabels
  <2>1. PICK S \in SUBSET Bits : g \in [S -> {0, 1}]
    BY DEF PartialLabels
  <2>2. PICK T \in SUBSET Bits : f \in [T -> {0, 1}]
    BY DEF PartialLabels
  <2>3. S \cup T \in SUBSET Bits /\ MergeLabel(f, g) \in [S \cup T -> {0, 1}]
    BY <2>1, <2>2 DEF MergeLabel
  <2> QED BY <2>3 DEF PartialLabels
<1>3. NoLabel \in PartialLabels
  <2>1. {} \in SUBSET Bits /\ NoLabel \in [{} -> {0, 1}]
    BY DEF NoLabel
  <2> QED BY <2>1 DEF PartialLabels
<1>4. Labels \subseteq PartialLabels
  <2>1. Masks \subseteq SUBSET Bits
    BY GSEventsAssumption, ZenonT(30)
  <2> QED BY <2>1, ZenonT(30) DEF Labels, PartialLabels
<1> QED BY <1>1, <1>2, <1>3, <1>4

\* Coalescing two labels in the mailbox is applying one after the other.
LEMMA MergeAssociative == ASSUME NEW f, NEW g, NEW h
                          PROVE  MergeLabel(f, MergeLabel(g, h)) = MergeLabel(MergeLabel(f, g), h)
<1>1. /\ DOMAIN MergeLabel(g, h) = DOMAIN g \cup DOMAIN h
      /\ DOMAIN MergeLabel(f, g) = DOMAIN f \cup DOMAIN g
  BY DEF MergeLabel
<1>2. DOMAIN MergeLabel(f, MergeLabel(g, h)) = DOMAIN MergeLabel(MergeLabel(f, g), h)
  BY DEF MergeLabel
<1> QED BY <1>1, <1>2 DEF MergeLabel

LEMMA MergeNothing == ASSUME NEW f \in [Bits -> {0, 1}]
                      PROVE  MergeLabel(f, NoLabel) = f
  BY DEF MergeLabel, NoLabel

-----------------------------------------------------------------------------
\* Every operation on the registers keeps RegistersOK.

\* Firing a signal needs less: SIGNAL itself may be without its interrupt.
LEMMA FireSignalOK == ASSUME NEW g \in RegistersType, g.CSR \ g.IMR \subseteq g.irq \cup {"SIGNAL"}, g.pending => ~g.fired,
                             NEW s \in Nat
                      PROVE  RegistersOK(FireSignal(g, s))
<1>1. FireSignal(g, s) \in RegistersType
  BY ZenonT(30) DEF FireSignal, Irq, RegistersType, MergeSignal, Events
<1>2. FireSignal(g, s).CSR \ FireSignal(g, s).IMR \subseteq FireSignal(g, s).irq
  BY DEF FireSignal, Irq, RegistersType
<1>3. FireSignal(g, s).pending => ~FireSignal(g, s).fired
  BY DEF FireSignal, Irq, RegistersType
<1> QED BY <1>1, <1>2, <1>3 DEF RegistersOK

LEMMA FinishOK == ASSUME NEW g, RegistersOK(g)
                  PROVE  RegistersOK(Gif_FinishIRQ(g)) /\ RegistersOK(RequestFinish(g)) /\ RegistersOK(GifExecute(g))
<1>1. RegistersOK(Gif_FinishIRQ(g))
  <2> DEFINE h == IF g.pending THEN [g EXCEPT !.CSR = @ \cup {"FINISH"}, !.pending = FALSE] ELSE g
  <2>1. h \in RegistersType /\ ~h.pending /\ h.CSR \ h.IMR \subseteq h.irq \cup {"FINISH"}
    BY Zenon DEF RegistersOK, RegistersType, Events
  <2>2. h.fired => h.CSR \ h.IMR \subseteq h.irq
    BY DEF RegistersOK, RegistersType
  <2>3. Gif_FinishIRQ(g) = IF "FINISH" \in h.CSR \ h.IMR /\ ~h.fired THEN [Irq(h, "FINISH") EXCEPT !.fired = TRUE] ELSE h
    BY DEF Gif_FinishIRQ
  <2> HIDE DEF h
  <2>4. CASE "FINISH" \in h.CSR \ h.IMR /\ ~h.fired
    <3>1. Gif_FinishIRQ(g) = [h EXCEPT !.irq = h.CSR \cup {"FINISH"}, !.fired = TRUE]
      BY <2>1, <2>3, <2>4 DEF RegistersType, Irq
    <3>2. Gif_FinishIRQ(g) \in RegistersType
      BY <2>1, <3>1, Zenon DEF RegistersType, Events
    <3> QED BY <2>1, <3>1, <3>2 DEF RegistersOK, RegistersType
  <2>5. CASE ~("FINISH" \in h.CSR \ h.IMR /\ ~h.fired)
    BY <2>1, <2>2, <2>3, <2>5 DEF RegistersOK, RegistersType
  <2> QED BY <2>4, <2>5
<1>2. RegistersOK(RequestFinish(g))
  BY ZenonT(30) DEF RegistersOK, RegistersType, RequestFinish
<1>3. RegistersOK(GifExecute(g))
  BY <1>1 DEF GifExecute
<1> QED BY <1>1, <1>2, <1>3

LEMMA SignalOK == ASSUME NEW g, RegistersOK(g), NEW s \in Nat
                  PROVE  RegistersOK(QueueSignal(g, s)) /\ RegistersOK(SignalAD(g, s))
<1>1. RegistersOK(QueueSignal(g, s))
  BY ZenonT(30) DEF RegistersOK, RegistersType, QueueSignal
<1>2. RegistersOK(FireSignal(g, s))
  BY FireSignalOK DEF RegistersOK
<1> QED BY <1>1, <1>2 DEF SignalAD

LEMMA Registers0OK == ASSUME NEW p \in BOOLEAN PROVE RegistersOK([Registers0 EXCEPT !.pending = p])
  BY ZenonT(30) DEF Registers0, RegistersOK, RegistersType

LEMMA CsrOK == ASSUME NEW g, RegistersOK(g), NEW csr
               PROVE  RegistersOK(gsCSRwrite(g, csr))
<1>1. RegistersOK(CsrReset(g))
  <2>1. CsrReset(g) \in RegistersType
    BY ZenonT(30) DEF CsrReset, Registers0, RegistersOK, RegistersType, Events
  <2> QED BY <2>1 DEF CsrReset, RegistersOK, RegistersType
<1>2. ASSUME NEW r, RegistersOK(r) PROVE RegistersOK(CsrSignal(r))
  <2> DEFINE h == [r EXCEPT !.irq = @ \ {"SIGNAL"}, !.queued = FALSE]
  <2>1. /\ h \in RegistersType /\ h.CSR \ h.IMR \subseteq h.irq \cup {"SIGNAL"} /\ (h.pending => ~h.fired)
        /\ RegistersOK([h EXCEPT !.CSR = @ \ {"SIGNAL"}]) /\ r.data \in Nat
    BY <1>2, ZenonT(30) DEF RegistersOK, RegistersType, Events
  <2>2. RegistersOK(FireSignal(h, r.data))
    <3> HIDE DEF h
    <3> QED BY <2>1, FireSignalOK
  <2>3. CsrSignal(r) = GifExecute(IF r.queued THEN FireSignal(h, r.data) ELSE [h EXCEPT !.CSR = @ \ {"SIGNAL"}])
    BY DEF CsrSignal
  <2> HIDE DEF h
  <2> QED BY <2>1, <2>2, <2>3, FinishOK
<1>3. ASSUME NEW r, RegistersOK(r) PROVE RegistersOK(CsrFinish(r))
  BY <1>3, ZenonT(30) DEF CsrFinish, RegistersOK, RegistersType
<1> QED BY <1>1, <1>2, <1>3 DEF gsCSRwrite

LEMMA IMROK == ASSUME NEW g, RegistersOK(g), NEW masked \in SUBSET Events
               PROVE  RegistersOK(IMRwrite(g, masked))
<1>1. IMRwrite(g, masked) \in RegistersType
  BY Zenon DEF IMRwrite, RegistersOK, RegistersType
<1>2. IMRwrite(g, masked).CSR \ IMRwrite(g, masked).IMR \subseteq IMRwrite(g, masked).irq
  BY DEF IMRwrite, RegistersOK, RegistersType
<1> QED BY <1>1, <1>2, ZenonT(30) DEF IMRwrite, RegistersOK, RegistersType

-----------------------------------------------------------------------------
\* The inductive invariant

\* MailFlagged's third alternative: the EE has yet to do step 2, or step 5.
LEMMA TakeWindow == ASSUME NEW e \in 0..7, NEW seen
                    PROVE  /\ (\E i \in DOMAIN Steps : e \in 1..i /\ "Signal" \in seen /\ Steps[i] = <<"Signal", "take">>)
                                <=> e \in 1..2 /\ "Signal" \in seen
                           /\ (\E i \in DOMAIN Steps : e \in 1..i /\ "Label" \in seen /\ Steps[i] = <<"Label", "take">>)
                                <=> e \in 1..5 /\ "Label" \in seen
<1>1. ASSUME NEW i \in DOMAIN Steps
      PROVE  (Steps[i] = <<"Signal", "take">> <=> i = 2) /\ (Steps[i] = <<"Label", "take">> <=> i = 5)
  <2>1. i = 1 \/ i = 2 \/ i = 3 \/ i = 4 \/ i = 5 \/ i = 6 \/ i = 7
    BY StepsValue
  <2> QED BY <2>1, StepsValue
<1>2. 2 \in DOMAIN Steps /\ 5 \in DOMAIN Steps
  BY StepsValue
<1> QED BY <1>1, <1>2

\* MailFlagged with the steps that take mail spelled out.
Flagged == /\ gsSignal # 0 => \/ "Signal" \in orphan \cup mtvuInterrupts \/ vpc = "flag"
                              \/ epc \in 1..2 /\ "Signal" \in interrupts
           /\ gsLabel # NoLabel => \/ "Label" \in orphan \cup mtvuInterrupts \/ vpc = "labelFlag"
                                   \/ epc \in 1..5 /\ "Label" \in interrupts

LEMMA MailFlaggedValue == Typed => (MailFlagged <=> Flagged)
  BY TakeWindow DEF MailFlagged, Flagged, Typed

LEMMA AtValue == ASSUME Typed
                 PROVE  /\ At("Signal", "clear") <=> epc = 1
                        /\ At("Signal", "take") <=> epc = 2
                        /\ At("Finish", "clear") <=> epc = 3
                        /\ At("Label", "clear") <=> epc = 4
                        /\ At("Label", "take") <=> epc = 5
                        /\ At("VUEBit", "clear") <=> epc = 6
                        /\ At("VUTBit", "clear") <=> epc = 7
<1>1. epc = 0 \/ epc = 1 \/ epc = 2 \/ epc = 3 \/ epc = 4 \/ epc = 5 \/ epc = 6 \/ epc = 7
  BY DEF Typed
<1> QED BY <1>1, StepsValue DEF At

\* A step of the EE goes on to the next flag it saw and never past one.
LEMMA AdvanceStep == ASSUME Typed, Advance, epc \in 1..7
                     PROVE  /\ epc' \in 0..7 /\ epc' # 1 /\ interrupts' \subseteq Flags
                            /\ epc' > 0 => Steps[epc'][1] \in interrupts'
                            /\ epc = 1 /\ "Signal" \in interrupts => epc' \in 1..2 /\ interrupts' = interrupts
                            /\ epc \in 1..4 /\ "Label" \in interrupts => epc' \in 1..5 /\ interrupts' = interrupts
<1>1. epc \in 0..7 /\ epc' = StepAfter(epc, interrupts) /\ interrupts' = IF epc' = 0 THEN {} ELSE interrupts
  BY DEF Typed, Advance
<1>2. /\ epc' \in 0..7 /\ (epc' # 0 => epc' > epc /\ Steps[epc'][1] \in interrupts)
      /\ \A j \in (epc + 1)..7 : Steps[j][1] \in interrupts => epc' \in 1..j
  BY <1>1, StepAfterValue
<1>3. epc = 1 /\ "Signal" \in interrupts => epc' \in 1..2
  BY <1>2, StepsValue
<1>4. epc \in 1..4 /\ "Label" \in interrupts => epc' \in 1..5
  BY <1>2, StepsValue
<1> QED BY <1>1, <1>2, <1>3, <1>4 DEF Typed

LEMMA InitEventsInv == EventsInit => EventsInv
<1> SUFFICES ASSUME EventsInit PROVE EventsInv
  OBVIOUS
<1>1. Typed
  <2>1. /\ mtvuInterrupts \subseteq Flags /\ interrupts \subseteq Flags
        /\ gsSignal \in Signals \cup {0} /\ sig \in Signals \cup {0}
        /\ gsLabel \in PartialLabels /\ label \in PartialLabels /\ existing \in PartialLabels
        /\ vpc = "run"
    BY MergeType, ZenonT(30) DEF EventsInit
  <2>2. spin \in 0..SpinBound /\ epc \in 0..7
    BY GSEventsAssumption DEF EventsInit
  <2> QED BY <2>1, <2>2, ZenonT(30) DEF Typed
<1>2. RegistersOK(gs)
  BY DEF EventsInit, Registers0, RegistersOK, RegistersType
<1>3. LabelsMerged
  BY MergeNothing DEF EventsInit, LabelsMerged, Registers0
<1> QED BY <1>1, <1>2, <1>3 DEF EventsInit, EventsInv, SeenInv, StoreInv, MailFlagged

\* Whatever the EE does to its registers between two Get_MTVUChanges.
LEMMA RegistersStep == ASSUME EventsInv, NEW g, RegistersOK(g), Registers(g)
                       PROVE  EventsInv'
<1> USE DEF vu
<1>1. Typed' /\ SeenInv' /\ StoreInv' /\ MailFlagged'
  BY DEF EventsInv, Registers, Typed, SeenInv, StoreInv, MailFlagged
<1>2. RegistersOK(gs')
  BY DEF Registers
<1>3. LabelsMerged'
  <2>1. labelled' = MergeLabel(gs'.LBLID, gsLabel)
    BY DEF EventsInv, Registers, LabelsMerged
  <2> QED BY <2>1 DEF Registers, LabelsMerged
<1> QED BY <1>1, <1>2, <1>3 DEF EventsInv

LEMMA StepEventsInv == EventsInv /\ [EventsNext]_eventVars => EventsInv'
<1> SUFFICES ASSUME EventsInv, [EventsNext]_eventVars PROVE EventsInv'
  OBVIOUS
<1> USE DEF vu, ee, history, mail, eventVars
<1>0. /\ Typed /\ RegistersOK(gs) /\ SeenInv /\ StoreInv /\ LabelsMerged /\ Flagged
      /\ Steps' = Steps /\ NoLabel' = NoLabel
  BY MailFlaggedValue DEF EventsInv, Steps, NoLabel
<1> DEFINE Core == Typed /\ SeenInv /\ StoreInv /\ Flagged
<1>c. Core' /\ RegistersOK(gs') /\ LabelsMerged' => EventsInv'
  <2>1. Core' => MailFlagged'
    BY <1>0, TakeWindow DEF MailFlagged, Flagged, Typed
  <2> QED BY <2>1 DEF EventsInv
<1>1. CASE RaiseFlag
  <2>1. Core'
    BY <1>0, <1>1 DEF RaiseFlag, Typed, SeenInv, StoreInv, Flagged, Flags
  <2>2. RegistersOK(gs')
    BY <1>0, <1>1 DEF RaiseFlag
  <2>3. LabelsMerged'
    BY <1>0, <1>1 DEF RaiseFlag, LabelsMerged
  <2> QED BY <1>c, <2>1, <2>2, <2>3
<1>2. CASE Signal
  <2>1. Core'
    BY <1>0, <1>2, GSEventsAssumption DEF Signal, Typed, SeenInv, StoreInv, Flagged, Flags
  <2>2. RegistersOK(gs')
    BY <1>0, <1>2 DEF Signal
  <2>3. LabelsMerged'
    BY <1>0, <1>2 DEF Signal, LabelsMerged
  <2> QED BY <1>c, <2>1, <2>2, <2>3
<1>3. CASE SignalSpin
  <2>1. Core'
    BY <1>0, <1>3, GSEventsAssumption DEF SignalSpin, Typed, SeenInv, StoreInv, Flagged, Flags
  <2>2. RegistersOK(gs')
    BY <1>0, <1>3 DEF SignalSpin
  <2>3. LabelsMerged'
    BY <1>0, <1>3 DEF SignalSpin, LabelsMerged
  <2> QED BY <1>c, <2>1, <2>2, <2>3
<1>4. CASE SignalStore
  <2>1. Core'
    BY <1>0, <1>4 DEF SignalStore, Typed, SeenInv, StoreInv, Flagged, Flags
  <2>2. RegistersOK(gs')
    BY <1>0, <1>4 DEF SignalStore
  <2>3. LabelsMerged'
    BY <1>0, <1>4 DEF SignalStore, LabelsMerged
  <2> QED BY <1>c, <2>1, <2>2, <2>3
<1>5. CASE SignalFlag
  <2>1. Core'
    BY <1>0, <1>5, GSEventsAssumption DEF SignalFlag, Typed, SeenInv, StoreInv, Flagged, Flags
  <2>2. RegistersOK(gs')
    BY <1>0, <1>5 DEF SignalFlag
  <2>3. LabelsMerged'
    BY <1>0, <1>5 DEF SignalFlag, LabelsMerged
  <2> QED BY <1>c, <2>1, <2>2, <2>3
<1>6. CASE Label
  <2>1. Core'
    BY <1>0, <1>6, MergeType DEF Label, Typed, SeenInv, StoreInv, Flagged, Flags
  <2>2. RegistersOK(gs')
    BY <1>0, <1>6 DEF Label
  <2>3. LabelsMerged'
    BY <1>0, <1>6 DEF Label, LabelsMerged
  <2> QED BY <1>c, <2>1, <2>2, <2>3
<1>7. CASE LabelLoad
  <2>1. Core'
    BY <1>0, <1>7 DEF LabelLoad, Typed, SeenInv, StoreInv, Flagged, Flags
  <2>2. RegistersOK(gs')
    BY <1>0, <1>7 DEF LabelLoad
  <2>3. LabelsMerged'
    BY <1>0, <1>7 DEF LabelLoad, LabelsMerged
  <2> QED BY <1>c, <2>1, <2>2, <2>3
<1>8. CASE LabelCas
  <2>1. Core'
    BY <1>0, <1>8, MergeType DEF LabelCas, Typed, SeenInv, StoreInv, Flagged, Flags
  <2>2. RegistersOK(gs')
    BY <1>0, <1>8 DEF LabelCas
  <2>3. LabelsMerged'
    <3>1. CASE gsLabel = existing
      <4>1. MergeLabel(gs.LBLID, MergeLabel(gsLabel, label)) = MergeLabel(labelled, label)
        BY <1>0, MergeAssociative DEF LabelsMerged
      <4> QED BY <1>8, <3>1, <4>1 DEF LabelCas, LabelsMerged
    <3> QED BY <1>0, <1>8, <3>1 DEF LabelCas, LabelsMerged
  <2> QED BY <1>c, <2>1, <2>2, <2>3
<1>9. CASE LabelFlag
  <2>1. Core'
    BY <1>0, <1>9, MergeType DEF LabelFlag, Typed, SeenInv, StoreInv, Flagged, Flags
  <2>2. RegistersOK(gs')
    BY <1>0, <1>9 DEF LabelFlag
  <2>3. LabelsMerged'
    BY <1>0, <1>9 DEF LabelFlag, LabelsMerged
  <2> QED BY <1>c, <2>1, <2>2, <2>3
<1>10. CASE Get_MTVUChanges
  <2>1. Core'
    <3>1. /\ epc' \in 0..7 /\ (epc' # 0 => Steps[epc'][1] \in mtvuInterrupts)
          /\ (Steps[2][1] \in mtvuInterrupts => epc' \in 1..2) /\ (Steps[5][1] \in mtvuInterrupts => epc' \in 1..5)
      BY <1>10, StepAfterValue DEF Get_MTVUChanges
    <3>2. epc' = 1 => "Signal" \in mtvuInterrupts
      BY <3>1, StepsValue
    <3>3. /\ "Signal" \in mtvuInterrupts => epc' \in 1..2
          /\ "Label" \in mtvuInterrupts => epc' \in 1..5
          /\ epc' > 0 => Steps[epc'][1] \in mtvuInterrupts
      BY <3>1, StepsValue, SMTT(30)
    <3>4. Typed'
      BY <1>0, <1>10, <3>1 DEF Get_MTVUChanges, Typed
    <3>5. SeenInv' /\ StoreInv'
      BY <1>0, <1>10, <3>2, <3>3 DEF Get_MTVUChanges, SeenInv, StoreInv
    <3>6. Flagged'
      BY <1>0, <1>10, <3>3 DEF Get_MTVUChanges, Flagged
    <3> QED BY <3>4, <3>5, <3>6
  <2>2. RegistersOK(gs')
    BY <1>0, <1>10 DEF Get_MTVUChanges
  <2>3. LabelsMerged'
    BY <1>0, <1>10, ZenonT(30) DEF Get_MTVUChanges, LabelsMerged, mail, history
  <2> QED BY <1>c, <2>1, <2>2, <2>3
<1>11. CASE ExecuteVU
  <2>1. Core'
    BY <1>0, <1>11 DEF ExecuteVU, Typed, SeenInv, StoreInv, Flagged, Flags
  <2>2. RegistersOK(gs')
    BY <1>0, <1>11 DEF ExecuteVU
  <2>3. LabelsMerged'
    BY <1>0, <1>11 DEF ExecuteVU, LabelsMerged
  <2> QED BY <1>c, <2>1, <2>2, <2>3
<1>12. CASE ResetVM
  <2>1. Core'
    BY <1>0, <1>12 DEF ResetVM, Typed, SeenInv, StoreInv, Flagged, Flags
  <2>2. RegistersOK(gs')
    <3>1. gs.pending \in BOOLEAN
      BY <1>0 DEF RegistersOK, RegistersType
    <3>2. RegistersOK([Registers0 EXCEPT !.pending = gs.pending])
      BY <3>1, Registers0OK
    <3> QED BY <1>12, <3>2, Zenon DEF ResetVM
  <2>3. LabelsMerged'
    BY <1>12 DEF ResetVM, LabelsMerged, Registers0
  <2> QED BY <1>c, <2>1, <2>2, <2>3
<1>13. CASE ClearSignal
  <2>1. Core'
    <3>1. epc = 1 /\ Advance
      BY <1>0, <1>13, AtValue DEF ClearSignal
    <3>2. epc \in 1..7
      BY <3>1
    <3> QED BY <1>0, <1>13, <3>1, <3>2, AdvanceStep, StepsValue DEF ClearSignal, Typed, SeenInv, StoreInv, Flagged
  <2>2. RegistersOK(gs')
    BY <1>0, <1>13 DEF ClearSignal
  <2>3. LabelsMerged'
    BY <1>0, <1>13 DEF ClearSignal, LabelsMerged
  <2> QED BY <1>c, <2>1, <2>2, <2>3
<1>14. CASE TakeSignal
  <2>1. Core'
    <3>1. epc = 2 /\ Advance
      BY <1>0, <1>14, AtValue DEF TakeSignal
    <3>2. epc \in 1..7
      BY <3>1
    <3>3. /\ epc' \in 0..7 /\ epc' # 1 /\ interrupts' \subseteq Flags
          /\ epc' > 0 => Steps[epc'][1] \in interrupts'
          /\ "Label" \in interrupts => epc' \in 1..5 /\ interrupts' = interrupts
      BY <1>0, <3>1, <3>2, AdvanceStep
    <3>4. Typed'
      BY <1>0, <1>14, <3>3 DEF TakeSignal, Typed
    <3>5. SeenInv' /\ StoreInv'
      BY <1>0, <1>14, <3>3 DEF TakeSignal, SeenInv, StoreInv
    <3>6. Flagged'
      BY <1>0, <1>14, <3>1, <3>3 DEF TakeSignal, Flagged
    <3> QED BY <3>4, <3>5, <3>6
  <2>2. RegistersOK(gs')
    <3>1. gsSignal \in Nat
      BY <1>0, GSEventsAssumption DEF Typed
    <3>2. RegistersOK(QueueSignal(gs, gsSignal))
      BY <1>0, <3>1, SignalOK
    <3>3. RegistersOK(FireSignal(gs, gsSignal))
      BY <1>0, <3>1, FireSignalOK DEF RegistersOK
    <3> QED BY <1>0, <1>14, <3>2, <3>3 DEF TakeSignal
  <2>3. LabelsMerged'
    <3>1. gs'.LBLID = gs.LBLID
      <4>1. gs' \in {gs, QueueSignal(gs, gsSignal), FireSignal(gs, gsSignal)}
        BY <1>14 DEF TakeSignal
      <4>2. QueueSignal(gs, gsSignal).LBLID = gs.LBLID
        BY <1>0 DEF QueueSignal, RegistersOK, RegistersType
      <4>3. FireSignal(gs, gsSignal).LBLID = gs.LBLID
        BY <1>0 DEF FireSignal, Irq, RegistersOK, RegistersType
      <4> QED BY <4>1, <4>2, <4>3
    <3> QED BY <1>0, <1>14, <3>1 DEF TakeSignal, LabelsMerged
  <2> QED BY <1>c, <2>1, <2>2, <2>3
<1>15. CASE ClearFinish
  <2>1. Core'
    <3>1. epc = 3 /\ Advance
      BY <1>0, <1>15, AtValue DEF ClearFinish
    <3>2. epc \in 1..7
      BY <3>1
    <3> QED BY <1>0, <1>15, <3>1, <3>2, AdvanceStep, StepsValue DEF ClearFinish, Typed, SeenInv, StoreInv, Flagged
  <2>2. RegistersOK(gs')
    BY <1>0, <1>15, FinishOK DEF ClearFinish
  <2>3. LabelsMerged'
    <3>1. gs'.LBLID = gs.LBLID
      BY <1>0, <1>15, Zenon DEF ClearFinish, RequestFinish, Gif_FinishIRQ, Irq, RegistersOK, RegistersType
    <3> QED BY <1>0, <1>15, <3>1 DEF ClearFinish, LabelsMerged
  <2> QED BY <1>c, <2>1, <2>2, <2>3
<1>16. CASE ClearLabel
  <2>1. Core'
    <3>1. epc = 4 /\ Advance
      BY <1>0, <1>16, AtValue DEF ClearLabel
    <3>2. epc \in 1..7
      BY <3>1
    <3> QED BY <1>0, <1>16, <3>1, <3>2, AdvanceStep, StepsValue DEF ClearLabel, Typed, SeenInv, StoreInv, Flagged
  <2>2. RegistersOK(gs')
    BY <1>0, <1>16 DEF ClearLabel
  <2>3. LabelsMerged'
    BY <1>0, <1>16 DEF ClearLabel, LabelsMerged
  <2> QED BY <1>c, <2>1, <2>2, <2>3
<1>17. CASE TakeLabel
  <2>1. Core'
    <3>1. epc = 5 /\ Advance
      BY <1>0, <1>17, AtValue DEF TakeLabel
    <3>2. epc \in 1..7
      BY <3>1
    <3> QED BY <1>0, <1>17, <3>1, <3>2, AdvanceStep, StepsValue, MergeType DEF TakeLabel, Typed, SeenInv, StoreInv, Flagged
  <2>2. RegistersOK(gs')
    <3>1. MergeLabel(gs.LBLID, gsLabel) \in [Bits -> {0, 1}]
      BY <1>0, MergeType DEF Typed, RegistersOK, RegistersType
    <3> QED BY <1>0, <1>17, <3>1 DEF TakeLabel, RegistersOK, RegistersType
  <2>3. LabelsMerged'
    <3>1. MergeLabel(gs.LBLID, gsLabel) \in [Bits -> {0, 1}]
      BY <1>0, MergeType DEF Typed, RegistersOK, RegistersType
    <3>2. gs'.LBLID = labelled /\ MergeLabel(labelled, NoLabel) = labelled
      BY <1>0, <1>17, <3>1, MergeNothing, SMTT(30) DEF TakeLabel, LabelsMerged, RegistersOK, RegistersType
    <3> QED BY <1>17, <3>2 DEF TakeLabel, LabelsMerged
  <2> QED BY <1>c, <2>1, <2>2, <2>3
<1>18. CASE ClearVUEBit
  <2>1. Core'
    <3>1. epc = 6 /\ Advance
      BY <1>0, <1>18, AtValue DEF ClearVUEBit
    <3>2. epc \in 1..7
      BY <3>1
    <3> QED BY <1>0, <1>18, <3>1, <3>2, AdvanceStep, StepsValue DEF ClearVUEBit, Typed, SeenInv, StoreInv, Flagged
  <2>2. RegistersOK(gs')
    BY <1>0, <1>18 DEF ClearVUEBit
  <2>3. LabelsMerged'
    BY <1>0, <1>18, ZenonT(30) DEF ClearVUEBit, LabelsMerged, history
  <2> QED BY <1>c, <2>1, <2>2, <2>3
<1>19. CASE ClearVUTBit
  <2>1. Core'
    <3>1. epc = 7 /\ Advance
      BY <1>0, <1>19, AtValue DEF ClearVUTBit
    <3>2. epc \in 1..7
      BY <3>1
    <3> QED BY <1>0, <1>19, <3>1, <3>2, AdvanceStep, StepsValue DEF ClearVUTBit, Typed, SeenInv, StoreInv, Flagged
  <2>2. RegistersOK(gs')
    BY <1>0, <1>19 DEF ClearVUTBit
  <2>3. LabelsMerged'
    BY <1>0, <1>19 DEF ClearVUTBit, LabelsMerged
  <2> QED BY <1>c, <2>1, <2>2, <2>3
<1>20. CASE PathSignal
  <2>1. \A s \in Signals \cup {0} : RegistersOK(SignalAD(gs, s))
    BY <1>0, SignalOK, GSEventsAssumption
  <2> QED BY <1>20, <2>1, RegistersStep DEF PathSignal
<1>21. CASE PathFinish
  BY <1>0, <1>21, FinishOK, RegistersStep DEF PathFinish
<1>22. CASE PathLabel
  <2>1. ASSUME NEW l \in Labels PROVE RegistersOK([gs EXCEPT !.LBLID = MergeLabel(@, l)])
    <3>1. MergeLabel(gs.LBLID, l) \in [Bits -> {0, 1}]
      BY <1>0, MergeType DEF RegistersOK, RegistersType
    <3> QED BY <1>0, <3>1 DEF RegistersOK, RegistersType
  <2> QED BY <1>22, <2>1, RegistersStep, Zenon DEF PathLabel
<1>23. CASE PathsDone
  BY <1>0, <1>23, FinishOK, RegistersStep DEF PathsDone
<1>24. CASE GifReset
  <2>1. RegistersOK([gs EXCEPT !.queued = FALSE, !.data = 0, !.fired = FALSE])
    BY <1>0, ZenonT(30) DEF RegistersOK, RegistersType
  <2> QED BY <1>24, <2>1, RegistersStep DEF GifReset
<1>25. CASE WriteCSR
  BY <1>0, <1>25, CsrOK, RegistersStep DEF WriteCSR
<1>26. CASE WriteIMR
  BY <1>0, <1>26, IMROK, RegistersStep DEF WriteIMR
<1>27. CASE UNCHANGED eventVars
  <2>1. Core'
    BY <1>0, <1>27 DEF Typed, SeenInv, StoreInv, Flagged
  <2>2. RegistersOK(gs') /\ LabelsMerged'
    BY <1>0, <1>27 DEF LabelsMerged
  <2> QED BY <1>c, <2>1, <2>2
<1> QED BY <1>1, <1>2, <1>3, <1>4, <1>5, <1>6, <1>7, <1>8, <1>9, <1>10, <1>11, <1>12, <1>13, <1>14, <1>15, <1>16, <1>17, <1>18, <1>19, <1>20, <1>21, <1>22, <1>23, <1>24, <1>25, <1>26, <1>27 DEF EventsNext, VU, EE

LEMMA EventsInvariance == EventsSpec => []EventsInv
  BY InitEventsInv, StepEventsInv, PTL DEF EventsSpec

-----------------------------------------------------------------------------
\* Results

\* Mail in the mailbox always has its flag set, about to be set, or about to be
\* collected (Gif_HandlerAD_MTVU against Get_MTVUChanges), whatever the order in
\* which the two threads touch the mailbox.
THEOREM MailIsFlagged == EventsSpec => []MailFlagged
  BY EventsInvariance, PTL DEF EventsInv

\* Coalescing labels in the mailbox loses and reorders no bit of LBLID.
THEOREM LabelsAreMerged == EventsSpec => []LabelsMerged
  BY EventsInvariance, PTL DEF EventsInv

\* An unmasked SIGNAL or FINISH in CSR has interrupted the guest.
THEOREM NoIrqMissed == EventsSpec => []NoMissedIrq
<1>1. EventsInv => NoMissedIrq
  BY DEF EventsInv, RegistersOK, NoMissedIrq
<1> QED BY <1>1, EventsInvariance, PTL

\* The VU thread overwrites a signal that was not collected only after its spin
\* ran out, in the EE's window between flag and mail, or after a reset.
THEOREM OverwritesOnlyInRace == EventsSpec => OverwriteOnlyInRace
<1> DEFINE A == gsSignal # 0 /\ vpc = "store" /\ vpc' = "flag" => spin = SpinBound \/ At("Signal", "take")
                                                                  \/ "Signal" \in orphan
<1>1. EventsInv /\ [EventsNext]_eventVars => [A]_eventVars
  <2> SUFFICES ASSUME EventsInv PROVE A
    OBVIOUS
  <2>1. At("Signal", "take") <=> epc = 2
    BY AtValue DEF EventsInv
  <2> QED BY <2>1 DEF EventsInv, StoreInv
<1> QED BY <1>1, EventsInvariance, PTL DEF EventsSpec, OverwriteOnlyInRace
===================================================================================
