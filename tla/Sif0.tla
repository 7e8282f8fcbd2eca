---------------------------------- MODULE Sif0 ----------------------------------
(***************************************************************************)
(* SIF0, the DMA channel from the IOP to the EE (pcsx2/Sif0.cpp, Sif.h,    *)
(* psxDma9 in IopDma.cpp, the channel's part of DmaExec in Dmac.cpp).      *)
(* The IOP's side fills a ring of FIFO_SIF_W words, the EE's side empties  *)
(* it in quadwords.  Everything runs on the EE thread: SIF0Dma loops until *)
(* neither side can go on, and the guest acts between two calls.           *)
(*                                                                         *)
(* A word is <<p, k>>: word k of packet p, the four words -4..-1 being the *)
(* quadword that carries the packet's EE tag.  The EE's tag asks for as    *)
(* many quadwords as the packet needs.  Addresses are valid, and the SBUS  *)
(* flags and the cycle counts are left out.                                *)
(***************************************************************************)
EXTENDS Integers, Sequences

CONSTANTS FIFO_SIF_W,   \* words in the ring
          Words,        \* the lengths of packets, in words
          MaxPackets    \* bound: IOP tags read since the last reset

ASSUME FifoAssumption == FIFO_SIF_W \in Nat /\ FIFO_SIF_W >= 8 /\ FIFO_SIF_W % 4 = 0
ASSUME WordsAssumption == Words \subseteq Nat /\ MaxPackets \in Nat

VARIABLES
    pc,         \* "idle": the guest runs; "junk", "iop", "ee": parts of the loop
    busyCheck,  \* BusyCheck > 0
    data, readPos, writePos, size,   \* sif0.fifo
    ibusy, iend,                     \* sif0.iop.busy, .end
    counter, writeJunk,              \* sif0.iop.counter, .writeJunk
    tr,                              \* start bit of the IOP channel (HW_DMA9_CHCR)
    ebusy, eend,                     \* sif0.ee.busy, .end
    str, mod, qwc,                   \* sif0ch.chcr.STR, .MOD, sif0ch.qwc
    intr,                            \* interrupts scheduled: subset of {"IOP", "EE"}
    packets,    \* history: packets whose tag the IOP's side has read, with the
                \* number of words sent before each
    out,        \* history: words taken by the EE, in order
    tags,       \* history: first words of the quadwords taken as tags
    normal      \* history: a transfer in normal mode was started

fifoVars == <<data, readPos, writePos, size>>
iopVars == <<ibusy, iend, counter, writeJunk, tr, packets>>
eeVars == <<ebusy, eend, str, mod, qwc, out, tags, normal>>
vars == <<pc, busyCheck, fifoVars, iopVars, eeVars, intr>>

None == <<0, 0>>
Quads(n) == (n + 3) \div 4
\* The words sent up to the end of packet p, its tag and its padding included
EndOf(p) == IF p = 0 THEN 0 ELSE packets[p].start + 4 + 4 * Quads(packets[p].words)
MaxWords == CHOOSE n \in Words : \A m \in Words : m <= n

Init ==
    /\ pc = "idle" /\ busyCheck = FALSE
    /\ data = [i \in 0..FIFO_SIF_W - 1 |-> None]
    /\ readPos = 0 /\ writePos = 0 /\ size = 0
    /\ ibusy = FALSE /\ iend = FALSE /\ counter = 0 /\ writeJunk = 0 /\ tr = FALSE
    /\ ebusy = FALSE /\ eend = FALSE /\ str = FALSE /\ mod = "chain" /\ qwc = 0
    /\ intr = {} /\ packets = <<>> /\ out = <<>> /\ tags = <<>> /\ normal = FALSE
---------------------------------------------------------------------------
(* The ring *)

Free == FIFO_SIF_W - size
At(i) == i % FIFO_SIF_W

\* sifFifo::write: the words ws go to the ring.
FifoWrite(ws) ==
    /\ data' = [i \in DOMAIN data |->
                  LET k == At(i - writePos) + 1 IN IF k <= Len(ws) THEN ws[k] ELSE data[i]]
    /\ writePos' = At(writePos + Len(ws))
    /\ size' = size + Len(ws)
    /\ UNCHANGED readPos

\* Mutant of FifoWriteJunk: the quadword before is taken to start at writePos - 4
FifoWriteJunkHere(n) ==
    FifoWrite([k \in 1..n |-> data[At(writePos - n + k - 1)]])

\* sifFifo::writeJunk: the missing words come from the quadword before the
\* unfinished one.  The code copies the part before the end of the ring from
\* the end of that quadword, and the rest from position wP0.
FifoWriteJunk(n) ==
    LET prevQWPos == At(writePos - (4 + (4 - n)))
        junk(k) == data[At(prevQWPos + k)]
        wP0 == IF FIFO_SIF_W - writePos < n THEN FIFO_SIF_W - writePos ELSE n
    IN FifoWrite([k \in 1..n |-> IF k <= wP0 THEN junk(4 - wP0 + k - 1) ELSE junk(k - 1)])

\* sifFifo::read
FifoWords(n) == [k \in 1..n |-> data[At(readPos + k - 1)]]
FifoRead(n) ==
    /\ readPos' = At(readPos + n)
    /\ size' = size - n
    /\ out' = out \o FifoWords(n)
    /\ UNCHANGED <<data, writePos>>
---------------------------------------------------------------------------
(* The loop of SIF0Dma *)

Min2(a, b) == IF a < b THEN a ELSE b

\* Mutant of WriteJunk: the padding waits for the next packet's tag
WriteJunkLate ==
    /\ pc = "junk" /\ pc' = "iop" /\ busyCheck' = FALSE
    /\ IF counter = 0 /\ writeJunk > 0 /\ Free >= writeJunk /\ ~ibusy
       THEN FifoWriteJunk(writeJunk) /\ writeJunk' = 0
       ELSE UNCHANGED <<fifoVars, writeJunk>>
    /\ UNCHANGED <<ibusy, iend, counter, tr, packets, eeVars, intr>>

\* The start of an iteration: pad a finished packet to a whole quadword.
WriteJunk ==
    /\ pc = "junk" /\ pc' = "iop" /\ busyCheck' = FALSE
    /\ IF counter = 0 /\ writeJunk > 0 /\ Free >= writeJunk
       THEN FifoWriteJunk(writeJunk) /\ writeJunk' = 0
       ELSE UNCHANGED <<fifoVars, writeJunk>>
    /\ UNCHANGED <<ibusy, iend, counter, tr, packets, eeVars, intr>>

\* EndIOP
EndIOP ==
    /\ iend' = FALSE /\ ibusy' = FALSE
    /\ intr' = intr \cup {"IOP"}
    /\ UNCHANGED <<fifoVars, counter, writeJunk, packets>>

\* ProcessIOPTag: the tag found at tadr announces n words; stop is its IRQ or
\* end bit, end the END id or the enabled interrupt of the EE tag it carries.
ProcessIOPTag ==
    \E n \in Words, stop, end \in BOOLEAN :
        LET p == Len(packets) + 1 IN
        /\ p <= MaxPackets /\ (p = MaxPackets => stop)
        /\ packets' = Append(packets, [words |-> n, end |-> end, start |-> EndOf(p - 1)])
        /\ FifoWrite([k \in 1..4 |-> <<p, k - 5>>])
        /\ counter' = n
        /\ writeJunk' = IF n % 4 # 0 THEN (4 - n) % 4 ELSE 0
        /\ iend' = (iend \/ stop)
        /\ UNCHANGED <<ibusy, intr>>

\* WriteIOPtoFifo
WriteIOPtoFifo ==
    LET p == Len(packets)
        sent == packets[p].words - counter
        writeSize == Min2(counter, Free)
    IN /\ FifoWrite([k \in 1..writeSize |-> <<p, sent + k - 1>>])
       /\ counter' = counter - writeSize
       /\ UNCHANGED <<ibusy, iend, writeJunk, packets, intr>>

\* HandleIOPTransfer
HandleIOPTransfer ==
    \/ counter <= 0 /\ iend /\ EndIOP
    \/ counter <= 0 /\ ~iend /\ ProcessIOPTag
    \/ counter > 0 /\ Free > 0 /\ WriteIOPtoFifo

\* Mutant of IopTurn: being busy counts as doing something
IopTurnBusy ==
    /\ pc = "iop" /\ pc' = "ee"
    /\ busyCheck' = ibusy
    /\ IF ibusy /\ (Free > 0 \/ (iend /\ counter = 0))
       THEN HandleIOPTransfer
       ELSE UNCHANGED <<fifoVars, ibusy, iend, counter, writeJunk, packets, intr>>
    /\ UNCHANGED <<tr, eeVars>>

\* The IOP's turn
IopTurn ==
    /\ pc = "iop" /\ pc' = "ee"
    /\ IF ibusy /\ (Free > 0 \/ (iend /\ counter = 0))
       THEN busyCheck' = TRUE /\ HandleIOPTransfer
       ELSE UNCHANGED <<busyCheck, fifoVars, ibusy, iend, counter, writeJunk, packets, intr>>
    /\ UNCHANGED <<tr, eeVars>>
---------------------------------------------------------------------------
(* The EE's turn.  A call may end the transfer, or take a tag and then as   *)
(* much of the packet as the ring holds.                                    *)

\* EndEE
EndEE ==
    /\ eend' = FALSE /\ ebusy' = FALSE
    /\ intr' = intr \cup {"EE"}
    /\ UNCHANGED <<fifoVars, qwc, out, tags>>

\* WriteFifoToEE, when `skip` words of the ring are taken already and q
\* quadwords are wanted
WriteFifoToEE(skip, q) ==
    LET readSize == Min2(q, (size - skip) \div 4) IN
    /\ FifoRead(skip + 4 * readSize)
    /\ qwc' = q - readSize

\* ProcessEETag and the transfer that may follow it.  A quadword that is no tag
\* reads as any tag.
ProcessEETag ==
    LET tag == data[readPos] IN
    \E q \in 0..Quads(MaxWords), end \in BOOLEAN :
       /\ tag[2] = -4 => /\ q = Quads(packets[tag[1]].words)
                        /\ end = packets[tag[1]].end
       /\ tags' = Append(tags, tag)
       /\ eend' = (eend \/ end)
       /\ IF q > 0 /\ size - 4 >= 4
          THEN WriteFifoToEE(4, q)
          ELSE FifoRead(4) /\ qwc' = q

\* HandleEETransfer
HandleEETransfer ==
    \/ /\ ~str
       /\ eend' = FALSE /\ ebusy' = FALSE
       /\ UNCHANGED <<fifoVars, qwc, out, tags, intr>>
    \/ str /\ qwc = 0 /\ (mod = "normal" \/ eend) /\ EndEE
    \/ /\ str /\ qwc = 0 /\ mod = "chain" /\ ~eend /\ size >= 4
       /\ ProcessEETag
       /\ UNCHANGED <<ebusy, intr>>
    \/ /\ str /\ qwc > 0 /\ size >= 4
       /\ WriteFifoToEE(0, qwc)
       /\ UNCHANGED <<ebusy, eend, tags, intr>>

\* The EE's turn; the loop goes on while a side has done something.
EeTurn ==
    /\ pc = "ee"
    /\ IF ebusy /\ (size >= 4 \/ (eend /\ qwc = 0))
       THEN pc' = "junk" /\ HandleEETransfer
       ELSE /\ pc' = IF busyCheck THEN "junk" ELSE "idle"
            /\ UNCHANGED <<fifoVars, ebusy, eend, qwc, out, tags, intr>>
    /\ UNCHANGED <<busyCheck, iopVars, str, mod, normal>>
---------------------------------------------------------------------------
(* The guest and its interrupts, between two calls *)

\* psxDma9: the IOP starts its side.
PsxDma9 ==
    /\ pc = "idle" /\ ~tr /\ Len(packets) < MaxPackets
    /\ tr' = TRUE /\ ibusy' = TRUE /\ iend' = FALSE
    /\ pc' = "junk"
    /\ UNCHANGED <<busyCheck, fifoVars, counter, writeJunk, packets, eeVars, intr>>

\* sif0Interrupt
Sif0Interrupt ==
    /\ pc = "idle" /\ "IOP" \in intr
    /\ intr' = intr \ {"IOP"} /\ tr' = FALSE
    /\ UNCHANGED <<pc, busyCheck, fifoVars, ibusy, iend, counter, writeJunk, packets, eeVars>>

\* DmaExec and dmaSIF0: the EE starts its side.  In chain mode the quadwords
\* left of a stopped transfer are still in qwc.
DmaSIF0 ==
    /\ pc = "idle" /\ ~str
    /\ str' = TRUE /\ ebusy' = TRUE /\ eend' = FALSE
    /\ \/ mod' = "chain" /\ UNCHANGED <<qwc, normal>>
       \/ /\ qwc = 0 /\ mod' = "normal" /\ normal' = TRUE
          /\ qwc' \in 1..2
    /\ pc' = "junk"
    /\ UNCHANGED <<busyCheck, fifoVars, iopVars, out, tags, intr>>

\* DmaExec: the EE writes 0 to STR of a running channel.
StopEE ==
    /\ pc = "idle" /\ str
    /\ str' = FALSE /\ intr' = intr \ {"EE"}
    /\ UNCHANGED <<pc, busyCheck, fifoVars, iopVars, ebusy, eend, mod, qwc, out, tags, normal>>

\* EEsif0Interrupt
EEsif0Interrupt ==
    /\ pc = "idle" /\ "EE" \in intr
    /\ intr' = intr \ {"EE"} /\ str' = FALSE
    /\ UNCHANGED <<pc, busyCheck, fifoVars, iopVars, ebusy, eend, mod, qwc, out, tags, normal>>

\* sifReset, with the registers of both processors
SifReset ==
    /\ pc = "idle"
    /\ data' = [i \in 0..FIFO_SIF_W - 1 |-> None]
    /\ readPos' = 0 /\ writePos' = 0 /\ size' = 0
    /\ ibusy' = FALSE /\ iend' = FALSE /\ counter' = 0 /\ writeJunk' = 0 /\ tr' = FALSE
    /\ ebusy' = FALSE /\ eend' = FALSE /\ str' = FALSE /\ mod' = "chain" /\ qwc' = 0
    /\ intr' = {} /\ packets' = <<>> /\ out' = <<>> /\ tags' = <<>> /\ normal' = FALSE
    /\ UNCHANGED <<pc, busyCheck>>

Loop == WriteJunk \/ IopTurn \/ EeTurn
Guest == PsxDma9 \/ Sif0Interrupt \/ DmaSIF0 \/ StopEE \/ EEsif0Interrupt \/ SifReset
Next == Loop \/ Guest

\* A call of SIF0Dma runs to its end: fairness for the loop, none for the guest.
Spec == Init /\ [][Next]_vars /\ WF_vars(Loop)
---------------------------------------------------------------------------
(* Properties *)

\* The ring of SIF0 never holds more than it has room for, its positions
\* agree with its size, the EE's side reads whole quadwords, and a packet that
\* has been written but not padded is padded before the IOP's side reads the
\* next tag: SIF0Dma tests the room for the padding and, were it missing,
\* ProcessIOPTag would overwrite writeJunk.  So the four words of a tag always
\* fit, and the padding never wraps, where the copy in writeJunk is wrong.
FifoInv ==
    /\ size \in 0..FIFO_SIF_W
    /\ readPos \in 0..FIFO_SIF_W - 1 /\ readPos % 4 = 0
    /\ writePos = At(readPos + size)
    /\ counter \in Nat /\ writeJunk \in 0..3
    /\ (writePos + counter + writeJunk) % 4 = 0
    /\ pc \in {"iop", "idle"} /\ counter = 0 => writeJunk = 0

\* What the EE receives is what Sif.h describes ("Junk data writing"): the
\* packets in order, each padded with the end of the quadword before the last
\* one, which for a packet of less than a quadword is the one with its tag.
\* In chain mode a tag is only ever taken from where a packet starts.
Intact ==
    /\ Len(out) <= EndOf(Len(packets))
    /\ \A p \in DOMAIN packets : \A k \in -4..4 * Quads(packets[p].words) - 1 :
          LET i == packets[p].start + 4 + k + 1 IN
          i <= Len(out) => out[i] = IF k < packets[p].words THEN <<p, k>> ELSE <<p, k - 4>>
    /\ ~normal => \A i \in DOMAIN tags : tags[i] = <<i, -4>>

\* When SIF0Dma returns, at most one side still waits: the IOP for room or the
\* EE for data, never each for the other.
Rendezvous == pc = "idle" => ~(ibusy /\ ebusy)

\* Every call of SIF0Dma returns.
CallsReturn == pc # "idle" ~> pc = "idle"
=============================================================================
