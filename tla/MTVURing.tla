------------------------------ MODULE MTVURing ------------------------------
(***************************************************************************)
(* VU_Thread: the command ring through which the EE drives the VU1 worker. *)
(* Packets have different sizes, are contiguous, and a NULL packet sends   *)
(* the reader back to the start.  A packet's payload is abstracted to its  *)
(* serial number, written into each of its cells, so that an overwritten   *)
(* or skipped packet shows.  The worker's WorkSema is used through the     *)
(* states of its contract (WorkSemaContract, which WorkSema implements).   *)
(***************************************************************************)
EXTENDS Integers

CONSTANTS buffer_size,  \* cells of the ring
          Sizes,        \* packet sizes in cells, header included
          Net,          \* the _4kb safety net of WaitOnSize, in cells
          MaxSent       \* bound: packets published between two resets

ASSUME MTVURingAssumption == /\ buffer_size \in Nat \ {0} /\ Net \in Nat /\ MaxSent \in Nat
                             /\ Sizes \subseteq 1..(buffer_size - 1)

VARIABLES buffer,           \* the cells
          m_write_pos, m_ato_write_pos, m_read_pos, m_ato_read_pos,
          s_kickPending,    \* an unpack was published and not notified
          semaEvent,        \* "idle", "woken", "run0", "runN" or "dead"
          waiting,          \* WAITING_EMPTY
          m_shutdown_flag,
          epc, size, kind,  \* EE: where it is, the packet it is writing
          wpc, packet,      \* worker: where it is, the packet it is executing
          sent, done,       \* packets published; serial of the last one executed
          lapped            \* history: the writer has caught up with the reader

ring == <<buffer, m_write_pos, m_ato_write_pos, m_read_pos, m_ato_read_pos>>
sema == <<semaEvent, waiting>>
ee == <<epc, size, kind>>
count == <<sent, done, lapped>>
worker == <<wpc, packet>>
vars == <<ring, s_kickPending, sema, m_shutdown_flag, ee, worker, count>>

\* A cell holds part n of packet p of a given size; serial 0 is MTVU_NULL_PACKET.
Cell(p, n, s) == [serial |-> p, part |-> n, size |-> s]
Unwritten == Cell(-1, 0, 0)
MTVU_NULL_PACKET == Cell(0, 0, 1)

\* What differs between the commands for the ring: VifUnpack defers its notify.
Kinds == {"kick", "unpack"}

EePcs == {"idle", "reserve", "reserveNull", "null", "wrap", "write", "publish", "notify",
          "waitVU", "waitEmpty", "waited", "close", "join"}
WorkerPcs == {"wait", "parked", "check", "loop", "execute", "store", "dead"}

\* VU_Thread::Reset: positions, and with them the count of packets.  The cells
\* keep garbage, which is what Unwritten stands for.
Reset == /\ m_write_pos' = 0 /\ m_ato_write_pos' = 0
         /\ m_read_pos' = 0 /\ m_ato_read_pos' = 0
         /\ buffer' = [c \in 0..(buffer_size - 1) |-> Unwritten]
         /\ s_kickPending' = FALSE
         /\ sent' = 0 /\ done' = 0 /\ lapped' = 0

Init == /\ buffer = [c \in 0..(buffer_size - 1) |-> Unwritten]
        /\ m_write_pos = 0 /\ m_ato_write_pos = 0 /\ m_read_pos = 0 /\ m_ato_read_pos = 0
        /\ s_kickPending = FALSE
        /\ semaEvent = "run0" /\ waiting = FALSE
        /\ m_shutdown_flag = FALSE
        /\ epc = "idle" /\ size = 0 /\ kind = "kick"
        /\ wpc = "wait" /\ packet = MTVU_NULL_PACKET
        /\ sent = 0 /\ done = 0 /\ lapped = 0

\* WorkSema::NotifyOfWork
NotifyOfWork == semaEvent' = CASE semaEvent = "idle" -> "woken"
                               [] semaEvent = "run0" -> "runN"
                               [] OTHER -> semaEvent

\* KickStart
KickStart == s_kickPending' = FALSE /\ NotifyOfWork /\ waiting' = waiting

-----------------------------------------------------------------------------
\* EE thread

\* A command that needs s cells enters ReserveSpace.
Command(s, k) == /\ epc = "idle"
                 /\ sent < MaxSent
                 /\ size' = s /\ kind' = k
                 /\ epc' = IF m_write_pos + s > buffer_size - 1 THEN "reserveNull" ELSE "reserve"
                 /\ UNCHANGED <<ring, s_kickPending, sema, m_shutdown_flag, worker, count>>

\* Mutant: the packet may end right where the reader is.
RoomForExact(n) == m_ato_read_pos <= m_write_pos \/ m_ato_read_pos >= m_write_pos + n

\* WaitOnSize(n) ends: the worker reads behind the writer, or far enough ahead.
RoomFor(n) == m_ato_read_pos <= m_write_pos \/ m_ato_read_pos > m_write_pos + n + Net

\* Mutant: WaitOnSize only yields.
WaitOnSizeNoKick == /\ \/ epc = "reserve" /\ ~RoomFor(size)
                       \/ epc = "reserveNull" /\ ~RoomFor(1)
                    /\ UNCHANGED vars

\* WaitOnSize goes round: KickStart and yield.
WaitOnSize == /\ \/ epc = "reserve" /\ ~RoomFor(size)
                 \/ epc = "reserveNull" /\ ~RoomFor(1)
              /\ KickStart
              /\ UNCHANGED <<ring, m_shutdown_flag, ee, worker, count>>

\* Mutant: the NULL packet is left out.
WriteNullMissing == /\ epc = "reserveNull"
                    /\ RoomFor(1)
                    /\ epc' = "wrap"
                    /\ UNCHANGED <<ring, s_kickPending, sema, m_shutdown_flag, size, kind, worker, count>>

\* ReserveSpace: room for the NULL packet; it is written at the write position.
WriteNull == /\ epc = "reserveNull"
             /\ RoomFor(1)
             /\ buffer' = [buffer EXCEPT ![m_write_pos] = MTVU_NULL_PACKET]
             /\ epc' = "wrap"
             /\ UNCHANGED <<m_write_pos, m_ato_write_pos, m_read_pos, m_ato_read_pos, s_kickPending, sema,
                            m_shutdown_flag, size, kind, worker, count>>

\* ReserveSpace: back to the start, published.  Nothing looks at the reader here:
\* when it has not left the start, the full ring becomes one that looks empty;
\* when it is still ahead, by more than the NULL packet needs but not by the packet
\* that does not fit before the end, a whole round is dropped.
Wrap == /\ epc = "wrap"
        /\ m_write_pos' = 0 /\ m_ato_write_pos' = 0
        /\ epc' = "reserve"
        /\ lapped' = IF m_ato_read_pos \in 1..m_write_pos THEN lapped ELSE 1
        /\ UNCHANGED <<buffer, m_read_pos, m_ato_read_pos, s_kickPending, sema, m_shutdown_flag,
                       size, kind, worker, sent, done>>

\* The command's Write calls.
Write == /\ epc = "reserve"
         /\ RoomFor(size)
         /\ buffer' = [c \in DOMAIN buffer |-> IF c \in m_write_pos..(m_write_pos + size - 1)
                                                THEN Cell(sent + 1, c - m_write_pos, size) ELSE buffer[c]]
         /\ m_write_pos' = m_write_pos + size
         /\ epc' = "publish"
         /\ UNCHANGED <<m_ato_write_pos, m_read_pos, m_ato_read_pos, s_kickPending, sema, m_shutdown_flag,
                        size, kind, worker, count>>

\* The release store of the write position; an unpack only notes the kick.
Publish == /\ epc = "publish"
           /\ m_ato_write_pos' = m_write_pos
           /\ sent' = sent + 1
           /\ s_kickPending' = (kind = "unpack" \/ s_kickPending)
           /\ epc' = IF kind = "unpack" THEN "idle" ELSE "notify"
           /\ size' = 0 /\ kind' = "kick"
           /\ UNCHANGED <<buffer, m_write_pos, m_read_pos, m_ato_read_pos, sema, m_shutdown_flag,
                          worker, done, lapped>>

\* The KickStart of every other command.
Kick == /\ epc = "notify"
        /\ KickStart
        /\ epc' = "idle"
        /\ UNCHANGED <<ring, m_shutdown_flag, size, kind, worker, count>>

\* KickPending at the end of a VIF1 transfer.
KickPending == /\ epc = "idle" /\ s_kickPending
               /\ KickStart
               /\ UNCHANGED <<ring, m_shutdown_flag, ee, worker, count>>

\* Mutant: WaitVU does not flush the deferred notify.
WaitVUNoKick == /\ epc = "idle"
                /\ epc' = "waitVU"
                /\ UNCHANGED <<ring, s_kickPending, sema, m_shutdown_flag, size, kind, worker, count>>

\* WaitVU: KickPending ...
WaitVU == /\ epc = "idle"
          /\ IF s_kickPending THEN KickStart ELSE UNCHANGED <<s_kickPending, sema>>
          /\ epc' = "waitVU"
          /\ UNCHANGED <<ring, m_shutdown_flag, size, kind, worker, count>>

\* ... then WaitForEmpty.
WaitForEmpty == /\ epc = "waitVU"
                /\ epc' = IF semaEvent = "idle" THEN "waited" ELSE "waitEmpty"
                /\ waiting' = (semaEvent # "idle")
                /\ UNCHANGED <<ring, s_kickPending, semaEvent, m_shutdown_flag, size, kind, worker, count>>

WaitForEmptyDone == /\ epc = "waitEmpty" /\ ~waiting
                    /\ epc' = "waited"
                    /\ UNCHANGED <<ring, s_kickPending, sema, m_shutdown_flag, size, kind, worker, count>>

\* The EE goes on after WaitVU ...
Continue == /\ epc = "waited"
            /\ epc' = "idle"
            /\ UNCHANGED <<ring, s_kickPending, sema, m_shutdown_flag, size, kind, worker, count>>

\* ... or resets the ring (VMManager::Reset, mtvuFreeze on load).
ResetRing == /\ epc = "waited"
             /\ Reset
             /\ epc' = "idle"
             /\ UNCHANGED <<sema, m_shutdown_flag, size, kind, worker>>

\* Close: the flag, then a full KickStart, then Join.
CloseFlag == /\ epc = "idle"
             /\ m_shutdown_flag' = TRUE
             /\ epc' = "close"
             /\ UNCHANGED <<ring, s_kickPending, sema, size, kind, worker, count>>

CloseKick == /\ epc = "close"
             /\ KickStart
             /\ epc' = "join"
             /\ UNCHANGED <<ring, m_shutdown_flag, size, kind, worker, count>>

\* Join, and the next Open: Reset, semaEvent.Reset, a new thread.
Open == /\ epc = "join" /\ wpc = "dead"
        /\ Reset
        /\ semaEvent' = "run0" /\ waiting' = waiting
        /\ m_shutdown_flag' = FALSE
        /\ epc' = "idle" /\ wpc' = "wait"
        /\ UNCHANGED <<size, kind, packet>>

EE == \/ \E s \in Sizes, k \in Kinds : Command(s, k)
      \/ WaitOnSize \/ WriteNull \/ Wrap \/ Write \/ Publish \/ Kick \/ KickPending
      \/ WaitVU \/ WaitForEmpty \/ WaitForEmptyDone \/ Continue \/ ResetRing
      \/ CloseFlag \/ CloseKick \/ Open

-----------------------------------------------------------------------------
\* Worker thread (ExecuteRingBuffer)

\* WaitForWork: take the new work, or go idle and release the waiter.
WaitForWork == /\ wpc = "wait"
               /\ IF semaEvent = "runN"
                  THEN semaEvent' = "run0" /\ wpc' = "check" /\ waiting' = waiting
                  ELSE semaEvent' = "idle" /\ wpc' = "parked" /\ waiting' = FALSE
               /\ UNCHANGED <<ring, s_kickPending, m_shutdown_flag, ee, packet, count>>

\* A notify wakes it; the acknowledge absorbs the notifies up to here.
Wake == /\ wpc = "parked" /\ semaEvent = "woken"
        /\ semaEvent' = "run0"
        /\ wpc' = "check"
        /\ UNCHANGED <<ring, s_kickPending, waiting, m_shutdown_flag, ee, packet, count>>

\* Shutdown is looked at once per wake-up.
CheckShutdown == /\ wpc = "check"
                 /\ wpc' = IF m_shutdown_flag THEN "dead" ELSE "loop"
                 /\ semaEvent' = IF m_shutdown_flag THEN "dead" ELSE semaEvent
                 /\ waiting' = (waiting /\ ~m_shutdown_flag)
                 /\ UNCHANGED <<ring, s_kickPending, m_shutdown_flag, ee, packet, count>>

\* The ring is empty when the two positions are equal.
LoopEnd == /\ wpc = "loop"
           /\ m_ato_read_pos = m_ato_write_pos
           /\ wpc' = "wait"
           /\ UNCHANGED <<ring, s_kickPending, sema, m_shutdown_flag, ee, packet, count>>

\* Mutant: the space is released before the payload has been read.
ReadTagEarly == /\ wpc = "loop"
                /\ m_ato_read_pos # m_ato_write_pos
                /\ packet' = buffer[m_read_pos]
                /\ m_ato_read_pos' = IF packet'.serial = 0 THEN 0 ELSE m_read_pos + packet'.size
                /\ wpc' = "execute"
                /\ UNCHANGED <<buffer, m_write_pos, m_ato_write_pos, m_read_pos, s_kickPending, sema,
                               m_shutdown_flag, ee, count>>

\* Read the tag.
ReadTag == /\ wpc = "loop"
           /\ m_ato_read_pos # m_ato_write_pos
           /\ packet' = buffer[m_read_pos]
           /\ wpc' = "execute"
           /\ UNCHANGED <<ring, s_kickPending, sema, m_shutdown_flag, ee, count>>

\* Read the payload and carry the command out; a NULL packet goes to the start.
Execute == /\ wpc = "execute"
           /\ m_read_pos' = IF packet.serial = 0 THEN 0 ELSE m_read_pos + packet.size
           /\ done' = IF packet.serial = 0 THEN done ELSE packet.serial
           /\ wpc' = "store"
           /\ UNCHANGED <<buffer, m_write_pos, m_ato_write_pos, m_ato_read_pos, s_kickPending, sema,
                          m_shutdown_flag, ee, packet, sent, lapped>>

\* Release the space.
StoreReadPos == /\ wpc = "store"
                /\ m_ato_read_pos' = m_read_pos
                /\ wpc' = "loop" /\ packet' = MTVU_NULL_PACKET
                /\ UNCHANGED <<buffer, m_write_pos, m_ato_write_pos, m_read_pos, s_kickPending, sema,
                               m_shutdown_flag, ee, count>>

Worker == \/ WaitForWork \/ Wake \/ CheckShutdown \/ LoopEnd \/ ReadTag \/ Execute \/ StoreReadPos

Next == EE \/ Worker

Spec == Init /\ [][Next]_vars

\* Both threads run.  Of the EE's steps only those inside a call are fair: which
\* command comes next is the guest's business.
FairSpec == /\ Spec
            /\ WF_vars(Worker)
            /\ WF_vars(WaitOnSize \/ WriteNull \/ Wrap \/ Write \/ Publish \/ Kick
                       \/ WaitForEmpty \/ WaitForEmptyDone \/ CloseKick \/ Open)

-----------------------------------------------------------------------------
\* Properties

Positions == 0..(buffer_size - 1)

TypeOK == /\ {m_write_pos, m_ato_write_pos, m_read_pos, m_ato_read_pos} \subseteq Positions
          /\ semaEvent \in {"idle", "woken", "run0", "runN", "dead"}
          /\ epc \in EePcs /\ wpc \in WorkerPcs
          /\ sent \in 0..MaxSent /\ done \in Int /\ lapped \in {0, 1}
          /\ m_shutdown_flag \in BOOLEAN /\ waiting \in BOOLEAN /\ s_kickPending \in BOOLEAN

\* Until the writer laps the reader, the packet the worker executes is whole:
\* neither the writer's next packet nor its NULL packet has been written into it.
PacketIntact == lapped = 0 /\ wpc = "execute" /\ packet.serial > 0
                   => /\ packet.part = 0
                      /\ \A n \in 0..(packet.size - 1) :
                            buffer[m_read_pos + n] = Cell(packet.serial, n, packet.size)

\* Until then, WaitVU returns only when everything the EE has published is
\* executed, the unpacks whose notify was deferred included.
WaitVUDrains == lapped = 0 /\ epc = "waited" => done = sent

\* Until then, packets are executed in the order they were published, each once,
\* and the worker leaves its loop (the positions are equal) with none pending.
InOrder == [][lapped = 0 => /\ done' # done => done' \in {0, done + 1}
                            /\ wpc = "loop" /\ wpc' = "wait" => done = sent]_vars

\* ReserveSpace, WaitVU and Close come to an end.
EeReturns == (epc \notin {"idle", "waited"}) ~> (epc \in {"idle", "waited"})
=============================================================================
