------------------------------ MODULE GifPath1 ------------------------------
(***************************************************************************)
(* GIF path 1 with a threaded VU1.  Three threads meet here.  The EE       *)
(* starts a VU1 program and queues one MTVU_GSPACKET item for it in the    *)
(* MTGS ring.  The VU thread runs the program and copies what it XGKICKs   *)
(* into the path buffer, handing it over in one or more GS packets.  The   *)
(* GS thread serves the ring: for a program's item it takes packets off    *)
(* gsPackQueue until the final one.                                        *)
(*                                                                         *)
(* Buffer contents are abstracted to the ranges of cells in use.  The two  *)
(* UserspaceSemaphores are counters, the WorkSema of MTGS has the states   *)
(* of its contract, gsPackQueue is a bounded sequence.                     *)
(***************************************************************************)
EXTENDS Integers, Sequences, FiniteSets

CONSTANTS buffSize, buffLimit,  \* the path buffer and where it wraps, in cells
          Sizes,                \* sizes of an XGKICK
          QueueSize,            \* capacity of gsPackQueue
          MaxPrograms,          \* bound: programs the EE starts
          MaxKicks              \* bound: XGKICKs of a program

ASSUME GifPath1Assumption == /\ buffSize \in Nat /\ buffLimit \in 1..buffSize
                             /\ \A s \in Sizes : s \in Nat \ {0} /\ 2 * s <= buffSize - buffLimit
                             /\ QueueSize \in Nat \ {0}
                             /\ MaxPrograms \in Nat /\ MaxKicks \in Nat

VARIABLES m_Ring,             \* MTGS ring from s_ReadPos to s_WritePos
          s_sem_event,        \* "idle", "run0" or "runN"
          waiting,            \* the EE sleeps in WaitForEmpty
          epc, fakePackets,   \* EE
          programs, issued,   \* programs not finished by the VU; started in all
          vpc, size, ret, final, startP1Packs, kicks,  \* VU thread
          readAmount, curSize, curOffset, gsPack,      \* the path
          gsPackQueue, semaXGkick, semaP1Progress,
          gpc, batch, pack    \* GS thread: items left of its snapshot, packet in hand

mtgs == <<m_Ring, s_sem_event, waiting>>
ee == <<epc, fakePackets, issued>>
vu == <<vpc, size, ret, final, startP1Packs, kicks>>
path == <<curSize, curOffset, gsPack>>
gs == <<gpc, batch, pack>>
vars == <<mtgs, ee, programs, vu, readAmount, path, gsPackQueue, semaXGkick, semaP1Progress, gs>>

GS_Packet(o, s, r, more) == [offset |-> o, size |-> s, readAmount |-> r, more |-> more]
Empty == GS_Packet(0, 0, 0, FALSE)

EePcs == {"run", "exec", "send", "sent", "notify", "wait", "asleep", "waited", "waitVU"}
VuPcs == {"idle", "run", "copy", "full", "execute", "consume", "realign", "add", "push", "post",
          "notify", "count", "drain", "recheck", "sleep"}
GsPcs == {"out", "wait", "parked", "snapshot", "batch", "kick", "got", "pop", "progress", "advance", "vsync"}

Init == /\ m_Ring = <<>> /\ s_sem_event = "run0" /\ waiting = FALSE
        /\ epc = "run" /\ fakePackets = 0 /\ programs = 0 /\ issued = 0
        /\ vpc = "idle" /\ size = 0 /\ ret = <<>> /\ final = FALSE /\ startP1Packs = 0 /\ kicks = 0
        /\ readAmount = 0 /\ curSize = 0 /\ curOffset = 0 /\ gsPack = Empty
        /\ gsPackQueue = <<>> /\ semaXGkick = 0 /\ semaP1Progress = 0
        /\ gpc = "out" /\ batch = 0 /\ pack = Empty

-----------------------------------------------------------------------------
\* EE thread

\* ExecuteVU: the program is published to the VU thread ...
ExecuteVU == /\ epc = "run" /\ issued < MaxPrograms
             /\ programs' = programs + 1 /\ issued' = issued + 1
             /\ epc' = "exec"
             /\ UNCHANGED <<mtgs, fakePackets, vu, readAmount, path, gsPackQueue, semaXGkick, semaP1Progress, gs>>

\* ... then TransferGSPacketData(GIF_TRANS_MTVU): its fake packet goes to MTGS at
\* once, or is held back while another path has the GIF or the GIF is paused.
TransferMTVU == /\ epc = "exec"
                /\ fakePackets' = fakePackets + 1
                /\ epc' \in {"send", "run"}
                /\ UNCHANGED <<mtgs, issued, programs, vu, readAmount, path, gsPackQueue, semaXGkick, semaP1Progress, gs>>

\* The GIF is free again: Execute.
Execute == /\ epc = "run" /\ fakePackets > 0
           /\ epc' = "send"
           /\ UNCHANGED <<mtgs, fakePackets, issued, programs, vu, readAmount, path, gsPackQueue, semaXGkick, semaP1Progress, gs>>

\* ExecuteGSPacket takes a fake packet, Gif_AddCompletedGSPacket queues it ...
AddCompletedGSPacket == /\ epc = "send"
                        /\ fakePackets' = fakePackets - 1
                        /\ m_Ring' = Append(m_Ring, "vu")
                        /\ epc' = "sent"
                        /\ UNCHANGED <<s_sem_event, waiting, issued, programs, vu, readAmount, path, gsPackQueue,
                                       semaXGkick, semaP1Progress, gs>>

\* ... and notifies MTGS.
AddCompletedNotify == /\ epc = "sent"
                      /\ s_sem_event' = "runN"
                      /\ epc' = IF fakePackets > 0 THEN "send" ELSE "run"
                      /\ UNCHANGED <<m_Ring, waiting, fakePackets, issued, programs, vu, readAmount, path, gsPackQueue,
                                     semaXGkick, semaP1Progress, gs>>

\* PostVsyncStart queues the vsync ...
PostVsyncStart == /\ epc = "run"
                  /\ m_Ring' = Append(m_Ring, "vsync")
                  /\ epc' = "notify"
                  /\ UNCHANGED <<s_sem_event, waiting, fakePackets, issued, programs, vu, readAmount, path,
                                 gsPackQueue, semaXGkick, semaP1Progress, gs>>

\* Mutant: wait without a notify, as a frame with no GIF packet would need one.
WaitGSQuiet == /\ epc = "notify"
               /\ epc' = "wait"
               /\ UNCHANGED <<mtgs, fakePackets, issued, programs, vu, readAmount, path,
                              gsPackQueue, semaXGkick, semaP1Progress, gs>>

\* ... and WaitGS(false) notifies and waits for the ring to drain.
WaitGSNotify == /\ epc = "notify"
                /\ s_sem_event' = "runN"
                /\ epc' = "wait"
                /\ UNCHANGED <<m_Ring, waiting, fakePackets, issued, programs, vu, readAmount, path,
                               gsPackQueue, semaXGkick, semaP1Progress, gs>>

WaitForEmpty == /\ epc = "wait"
                /\ epc' = IF s_sem_event = "idle" THEN "waited" ELSE "asleep"
                /\ waiting' = (s_sem_event # "idle")
                /\ UNCHANGED <<m_Ring, s_sem_event, fakePackets, issued, programs, vu, readAmount, path,
                               gsPackQueue, semaXGkick, semaP1Progress, gs>>

WaitForEmptyWoken == /\ epc = "asleep" /\ ~waiting
                     /\ epc' = "waited"
                     /\ UNCHANGED <<mtgs, fakePackets, issued, programs, vu, readAmount, path,
                                    gsPackQueue, semaXGkick, semaP1Progress, gs>>

\* The EE goes on with the next frame.
NextFrame == /\ epc = "waited"
             /\ epc' = "run"
             /\ UNCHANGED <<mtgs, fakePackets, issued, programs, vu, readAmount, path,
                            gsPackQueue, semaXGkick, semaP1Progress, gs>>

\* VU_Thread::WaitVU, here only with no fake packet held back.
WaitVU == /\ epc = "run" /\ fakePackets = 0
          /\ epc' = "waitVU"
          /\ UNCHANGED <<mtgs, fakePackets, issued, programs, vu, readAmount, path,
                         gsPackQueue, semaXGkick, semaP1Progress, gs>>

WaitVUDone == /\ epc = "waitVU" /\ programs = 0
              /\ epc' = "run"
              /\ UNCHANGED <<mtgs, fakePackets, issued, programs, vu, readAmount, path,
                             gsPackQueue, semaXGkick, semaP1Progress, gs>>

EE == \/ ExecuteVU \/ TransferMTVU \/ Execute \/ AddCompletedGSPacket \/ AddCompletedNotify
      \/ PostVsyncStart \/ WaitGSNotify \/ WaitForEmpty \/ WaitForEmptyWoken \/ NextFrame
      \/ WaitVU \/ WaitVUDone

-----------------------------------------------------------------------------
\* VU thread

\* Where the packet being built starts, and what MTGS has not read before it.
Offset == curOffset - gsPack.size
getReadAmount == readAmount + gsPack.readAmount

\* Back to the caller.
Return == vpc' = Head(ret) /\ ret' = Tail(ret)

\* MTVU_VU_EXECUTE.
StartProgram == /\ vpc = "idle" /\ programs > 0
                /\ vpc' = "run" /\ kicks' = 0
                /\ UNCHANGED <<mtgs, ee, programs, size, ret, final, startP1Packs, readAmount, path,
                               gsPackQueue, semaXGkick, semaP1Progress, gs>>

\* An XGKICK of n cells enters CopyGSPacketData.
XGkick(n) == /\ vpc = "run" /\ kicks < MaxKicks
             /\ size' = n /\ kicks' = kicks + 1
             /\ IF curSize + n > buffSize THEN vpc' = "realign" /\ ret' = <<"copy">>
                                          ELSE vpc' = "copy" /\ ret' = ret
             /\ UNCHANGED <<mtgs, ee, programs, final, startP1Packs, readAmount, path,
                            gsPackQueue, semaXGkick, semaP1Progress, gs>>

\* The program ends.
ProgramEnd == /\ vpc = "run"
              /\ final' = TRUE /\ vpc' = "add"
              /\ UNCHANGED <<mtgs, ee, programs, size, ret, startP1Packs, kicks, readAmount, path,
                             gsPackQueue, semaXGkick, semaP1Progress, gs>>

\* Mutant: the front of the buffer counts as free whatever MTGS still has to read.
CopyRoomFront == LET readPos == Offset - getReadAmount IN
                   readPos >= 0 \/ buffLimit > curSize + size

\* CopyGSPacketData: MTGS reads behind the packet, or far enough ahead of it.
CopyRoom == LET readPos == Offset - getReadAmount IN
              readPos >= 0 \/ buffLimit + readPos > curSize + size

\* CopyGSPacketData: copy if there is room.
CopyGSPacketData == /\ vpc = "copy"
                    /\ curSize' = IF CopyRoom THEN curSize + size ELSE curSize
                    /\ vpc' = IF CopyRoom THEN "execute" ELSE "full"
                    /\ UNCHANGED <<mtgs, ee, programs, size, ret, final, startP1Packs, kicks, readAmount, curOffset,
                                   gsPack, gsPackQueue, semaXGkick, semaP1Progress, gs>>

\* Mutant: no partial packets.
CopyFullWait == /\ vpc = "full"
                /\ vpc' = "notify" /\ ret' = <<"copy">>
                /\ UNCHANGED <<mtgs, ee, programs, size, final, startP1Packs, kicks, readAmount, path, gsPackQueue,
                               semaXGkick, semaP1Progress, gs>>

\* No room: hand over a partial packet if MTGS has nothing to pop, else WaitGS.
CopyFull == /\ vpc = "full"
            /\ IF gsPackQueue = <<>> /\ gsPack.size > 0
               THEN vpc' = "add" /\ final' = FALSE /\ ret' = ret
               ELSE vpc' = "notify" /\ ret' = <<"copy">> /\ final' = final
            /\ UNCHANGED <<mtgs, ee, programs, size, startP1Packs, kicks, readAmount, path, gsPackQueue,
                           semaXGkick, semaP1Progress, gs>>

\* ExecuteGSPacketMTVU: realign past the limit ...
ExecuteGSPacketMTVU == /\ vpc = "execute"
                       /\ IF curOffset > buffLimit THEN vpc' = "realign" /\ ret' = <<"consume">>
                                                   ELSE vpc' = "consume" /\ ret' = ret
                       /\ UNCHANGED <<mtgs, ee, programs, size, final, startP1Packs, kicks, readAmount, path, gsPackQueue,
                                      semaXGkick, semaP1Progress, gs>>

\* ... and add the kick to the packet.
Consume == /\ vpc = "consume"
           /\ gsPack' = [gsPack EXCEPT !.size = @ + size]
           /\ curOffset' = curOffset + size
           /\ vpc' = "run" /\ size' = 0
           /\ UNCHANGED <<mtgs, ee, programs, ret, final, startP1Packs, kicks, readAmount, curSize, gsPackQueue,
                          semaXGkick, semaP1Progress, gs>>

\* Move the packet being built to the start of the buffer; what is skipped up to
\* the limit counts as read by MTGS with this packet.
MoveToFront == /\ gsPack' = [gsPack EXCEPT !.offset = 0,
                                           !.readAmount = IF Offset < buffLimit THEN @ + buffLimit - Offset ELSE @]
               /\ curSize' = curSize - Offset
               /\ curOffset' = gsPack.size

\* Mutant: realigning waits for nobody.
RealignPacketNow == /\ vpc = "realign"
                    /\ MoveToFront
                    /\ Return
                    /\ UNCHANGED <<mtgs, ee, programs, size, final, startP1Packs, kicks, readAmount, gsPackQueue,
                                   semaXGkick, semaP1Progress, gs>>

\* RealignPacket: wait until the front of the buffer can take it, then move it.
RealignPacket == /\ vpc = "realign"
                 /\ LET toAdd == curSize - Offset
                        intersect == IF toAdd > Offset THEN toAdd - Offset ELSE 0 IN
                      IF Offset - getReadAmount >= toAdd - intersect
                      THEN MoveToFront /\ Return
                      ELSE vpc' = "notify" /\ ret' = <<"realign">> \o ret /\ UNCHANGED path
                 /\ UNCHANGED <<mtgs, ee, programs, size, final, startP1Packs, kicks, readAmount, gsPackQueue,
                                semaXGkick, semaP1Progress, gs>>

\* FinishGSPacketMTVU: account for the packet, push it, start the next one.
FinishAdd == /\ vpc = "add"
             /\ readAmount' = readAmount + gsPack.size + gsPack.readAmount
             /\ vpc' = "push"
             /\ UNCHANGED <<mtgs, ee, programs, size, ret, final, startP1Packs, kicks, path, gsPackQueue,
                            semaXGkick, semaP1Progress, gs>>

\* Mutant: every packet says it is the last one of its program.
FinishPushLast == /\ vpc = "push"
                  /\ Len(gsPackQueue) < QueueSize
                  /\ gsPackQueue' = Append(gsPackQueue, [gsPack EXCEPT !.more = FALSE])
                  /\ gsPack' = GS_Packet(curOffset, 0, 0, FALSE)
                  /\ vpc' = "post"
                  /\ UNCHANGED <<mtgs, ee, programs, size, ret, final, startP1Packs, kicks, readAmount, curSize,
                                 curOffset, semaXGkick, semaP1Progress, gs>>

\* Mutant: a full queue drops the packet.
FinishPushDrop == /\ vpc = "push"
                  /\ gsPackQueue' = IF Len(gsPackQueue) < QueueSize
                                    THEN Append(gsPackQueue, [gsPack EXCEPT !.more = ~final]) ELSE gsPackQueue
                  /\ gsPack' = GS_Packet(curOffset, 0, 0, FALSE)
                  /\ vpc' = "post"
                  /\ UNCHANGED <<mtgs, ee, programs, size, ret, final, startP1Packs, kicks, readAmount, curSize,
                                 curOffset, semaXGkick, semaP1Progress, gs>>

FinishPush == /\ vpc = "push"
              /\ Len(gsPackQueue) < QueueSize
              /\ gsPackQueue' = Append(gsPackQueue, [gsPack EXCEPT !.more = ~final])
              /\ gsPack' = GS_Packet(curOffset, 0, 0, FALSE)
              /\ vpc' = "post"
              /\ UNCHANGED <<mtgs, ee, programs, size, ret, final, startP1Packs, kicks, readAmount, curSize,
                             curOffset, semaXGkick, semaP1Progress, gs>>

\* semaXGkick.Post; after a final packet the command is done.
PostXGkick == /\ vpc = "post"
              /\ semaXGkick' = semaXGkick + 1
              /\ vpc' = IF final THEN "idle" ELSE "copy"
              /\ programs' = IF final THEN programs - 1 ELSE programs
              /\ kicks' = IF final THEN 0 ELSE kicks
              /\ UNCHANGED <<mtgs, ee, size, ret, final, startP1Packs, readAmount, path, gsPackQueue,
                             semaP1Progress, gs>>

\* WaitGS(true): notify MTGS ...
WaitGSMTVU == /\ vpc = "notify"
              /\ s_sem_event' = "runN"
              /\ vpc' = "count"
              /\ UNCHANGED <<m_Ring, waiting, ee, programs, size, ret, final, startP1Packs, kicks, readAmount, path,
                             gsPackQueue, semaXGkick, semaP1Progress, gs>>

\* ... note the packets pending; with none there is nothing to wait for ...
CountP1Packs == /\ vpc = "count"
                /\ startP1Packs' = Len(gsPackQueue)
                /\ IF gsPackQueue = <<>> THEN Return ELSE vpc' = "drain" /\ ret' = ret
                /\ UNCHANGED <<mtgs, ee, programs, size, final, kicks, readAmount, path, gsPackQueue,
                               semaXGkick, semaP1Progress, gs>>

\* ... drain stale credit ...
DrainCredit == /\ vpc = "drain"
               /\ semaP1Progress' = 0
               /\ vpc' = "recheck"
               /\ UNCHANGED <<mtgs, ee, programs, size, ret, final, startP1Packs, kicks, readAmount, path, gsPackQueue,
                              semaXGkick, gs>>

\* ... and sleep until the number has changed.
Recheck == /\ vpc = "recheck"
           /\ IF Len(gsPackQueue) # startP1Packs THEN Return /\ startP1Packs' = 0
                                                 ELSE vpc' = "sleep" /\ ret' = ret /\ startP1Packs' = startP1Packs
           /\ UNCHANGED <<mtgs, ee, programs, size, final, kicks, readAmount, path, gsPackQueue,
                          semaXGkick, semaP1Progress, gs>>

SleepP1 == /\ vpc = "sleep" /\ semaP1Progress > 0
           /\ semaP1Progress' = semaP1Progress - 1
           /\ vpc' = "recheck"
           /\ UNCHANGED <<mtgs, ee, programs, size, ret, final, startP1Packs, kicks, readAmount, path, gsPackQueue,
                          semaXGkick, gs>>

VU == \/ StartProgram \/ (\E n \in Sizes : XGkick(n)) \/ ProgramEnd \/ CopyGSPacketData \/ CopyFull
      \/ ExecuteGSPacketMTVU \/ Consume \/ RealignPacket \/ FinishAdd \/ FinishPush \/ PostXGkick
      \/ WaitGSMTVU \/ CountP1Packs \/ DrainCredit \/ Recheck \/ SleepP1

-----------------------------------------------------------------------------
\* GS thread: the frontend inside and outside MTGS::MainLoop(false)

unserved == <<ee, programs, vu, path, gsPackQueue>>

\* retro_run calls MainLoop.
EnterMainLoop == /\ gpc = "out"
                 /\ gpc' = "wait"
                 /\ UNCHANGED <<mtgs, unserved, readAmount, semaXGkick, semaP1Progress, batch, pack>>

\* Mutant: park without releasing the waiter.
WaitForWorkTimedQuiet == /\ gpc = "wait"
                         /\ IF s_sem_event = "runN"
                            THEN s_sem_event' = "run0" /\ gpc' = "snapshot"
                            ELSE s_sem_event' = "idle" /\ gpc' = "parked"
                         /\ UNCHANGED <<m_Ring, waiting, unserved, readAmount, semaXGkick, semaP1Progress, batch, pack>>

\* WaitForWorkTimed: take the work, or release the waiter and park.
WaitForWorkTimed == /\ gpc = "wait"
                    /\ IF s_sem_event = "runN"
                       THEN s_sem_event' = "run0" /\ gpc' = "snapshot" /\ waiting' = waiting
                       ELSE s_sem_event' = "idle" /\ gpc' = "parked" /\ waiting' = FALSE
                    /\ UNCHANGED <<m_Ring, unserved, readAmount, semaXGkick, semaP1Progress, batch, pack>>

Wake == /\ gpc = "parked" /\ s_sem_event = "runN"
        /\ s_sem_event' = "run0"
        /\ gpc' = "snapshot"
        /\ UNCHANGED <<m_Ring, waiting, unserved, readAmount, semaXGkick, semaP1Progress, batch, pack>>

\* 100 ms without work: MainLoop returns false.
TimeOut == /\ gpc = "parked" /\ s_sem_event = "idle"
           /\ s_sem_event' = "run0"
           /\ gpc' = "out"
           /\ UNCHANGED <<m_Ring, waiting, unserved, readAmount, semaXGkick, semaP1Progress, batch, pack>>

\* snapshot_WritePos
Snapshot == /\ gpc = "snapshot"
            /\ batch' = Len(m_Ring)
            /\ gpc' = "batch"
            /\ UNCHANGED <<mtgs, unserved, readAmount, semaXGkick, semaP1Progress, pack>>

\* Dispatch the next item of the batch.
NextItem == /\ gpc = "batch"
            /\ gpc' = IF batch = 0 THEN "wait" ELSE IF Head(m_Ring) = "vu" THEN "kick" ELSE "advance"
            /\ UNCHANGED <<mtgs, unserved, readAmount, semaXGkick, semaP1Progress, batch, pack>>

\* semaXGkick: TryWait, then Wait.
WaitXGkick == /\ gpc = "kick" /\ semaXGkick > 0
              /\ semaXGkick' = semaXGkick - 1
              /\ gpc' = "got"
              /\ UNCHANGED <<mtgs, unserved, readAmount, semaP1Progress, batch, pack>>

\* GetGSPacketMTVU, the transfer, and its bytes off readAmount.
GetGSPacketMTVU == /\ gpc = "got"
                   /\ pack' = IF gsPackQueue = <<>> THEN Empty ELSE Head(gsPackQueue)
                   /\ readAmount' = readAmount - pack'.size - pack'.readAmount
                   /\ gpc' = "pop"
                   /\ UNCHANGED <<mtgs, unserved, semaXGkick, semaP1Progress, batch>>

PopGSPacketMTVU == /\ gpc = "pop"
                   /\ gsPackQueue' = IF gsPackQueue = <<>> THEN <<>> ELSE Tail(gsPackQueue)
                   /\ gpc' = "progress"
                   /\ UNCHANGED <<mtgs, ee, programs, vu, path, readAmount, semaXGkick, semaP1Progress, batch, pack>>

\* semaP1Progress.Post; the final packet ends the item.
PostP1Progress == /\ gpc = "progress"
                  /\ semaP1Progress' = semaP1Progress + 1
                  /\ gpc' = IF pack.more THEN "kick" ELSE "advance"
                  /\ pack' = Empty
                  /\ UNCHANGED <<mtgs, unserved, readAmount, semaXGkick, batch>>

\* s_ReadPos moves on.
AdvanceReadPos == /\ gpc = "advance"
                  /\ m_Ring' = Tail(m_Ring)
                  /\ batch' = IF Head(m_Ring) = "vsync" THEN 0 ELSE batch - 1
                  /\ gpc' = IF Head(m_Ring) = "vsync" THEN "vsync" ELSE "batch"
                  /\ UNCHANGED <<s_sem_event, waiting, unserved, readAmount, semaXGkick, semaP1Progress, pack>>

\* MainLoop(false) returns at a vsync, and re-arms the semaphore if items remain.
LeaveAtVsync == /\ gpc = "vsync"
                /\ s_sem_event' = IF m_Ring # <<>> THEN "runN" ELSE s_sem_event
                /\ gpc' = "out"
                /\ UNCHANGED <<m_Ring, waiting, unserved, readAmount, semaXGkick, semaP1Progress, batch, pack>>

GS == \/ EnterMainLoop \/ WaitForWorkTimed \/ Wake \/ TimeOut \/ Snapshot \/ NextItem
      \/ WaitXGkick \/ GetGSPacketMTVU \/ PopGSPacketMTVU \/ PostP1Progress \/ AdvanceReadPos \/ LeaveAtVsync

Next == EE \/ VU \/ GS

Spec == Init /\ [][Next]_vars

\* The VU thread and the frontend run, and the EE finishes what it has begun.  The
\* path that holds a fake packet back ends some time: strong fairness, as the EE
\* may do vsyncs in between.
FairSpec == /\ Spec
            /\ WF_vars(VU) /\ WF_vars(GS) /\ SF_vars(Execute)
            /\ WF_vars(TransferMTVU \/ AddCompletedGSPacket \/ AddCompletedNotify
                       \/ WaitGSNotify \/ WaitForEmpty \/ WaitForEmptyWoken \/ NextFrame \/ WaitVUDone)

-----------------------------------------------------------------------------
\* Properties

TypeOK == /\ curSize \in 0..buffSize /\ curOffset \in 0..curSize
          /\ readAmount \in Nat
          /\ gsPack.offset = Offset
          /\ Len(gsPackQueue) <= QueueSize
          /\ semaXGkick \in Nat /\ semaP1Progress \in Nat
          /\ epc \in EePcs /\ vpc \in VuPcs /\ gpc \in GsPcs
          /\ s_sem_event \in {"idle", "run0", "runN"} /\ waiting \in BOOLEAN

Cells(p) == p.offset..(p.offset + p.size - 1)

\* Packets MTGS has not transferred yet; the one it is about to pop it has.
Unread == {i \in DOMAIN gsPackQueue : ~(i = 1 /\ gpc = "pop")}

\* Nothing handed to MTGS is written over before MTGS has transferred it: neither
\* by a later packet nor by the data being copied for the next one.
HandedOverIntact ==
   /\ \A i, j \in Unread : i # j => Cells(gsPackQueue[i]) \cap Cells(gsPackQueue[j]) = {}
   /\ \A i \in Unread : Cells(gsPackQueue[i]) \cap Offset..(curSize - 1) = {}

\* "each semaXGkick post pairs with exactly one queue push": MTGS never gets past
\* semaXGkick to an empty queue.
KickHasPacket == gpc \in {"got", "pop"} => gsPackQueue # <<>>

\* Programs' items in a ring, and final packets in a queue.
VuItems(ring) == Cardinality({i \in DOMAIN ring : ring[i] = "vu"})
FinalPackets(queue) == Cardinality({i \in DOMAIN queue : ~queue[i].more})

\* One ring item is one VU1 program, however many packets that delivers: items
\* queued or held back match the programs MTGS has not finished.
OneItemPerProgram ==
   VuItems(m_Ring) + fakePackets + (IF epc = "exec" THEN 1 ELSE 0)
      = programs - (IF vpc = "post" /\ final THEN 1 ELSE 0) + FinalPackets(gsPackQueue)
          + (IF (gpc = "progress" /\ ~pack.more) \/ (gpc = "advance" /\ Head(m_Ring) = "vu") THEN 1 ELSE 0)

\* WaitGS(false) returns when the ring is drained, also when the frontend left
\* MainLoop at an earlier vsync.
WaitGSDrains == epc = "waited" => m_Ring = <<>>

\* The EE gets past its vsync and its WaitVU: no circle of the EE waiting for the
\* GS, the GS for a program's packet, and the program for the GS.
EeReturns == (epc # "run") ~> (epc = "run")

\* Every program ends.
ProgramsEnd == (programs > 0) ~> (programs = 0)
=============================================================================
