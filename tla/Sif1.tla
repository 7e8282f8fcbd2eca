---------------------------------- MODULE Sif1 ----------------------------------
(***************************************************************************)
(* SIF1, the DMA channel from the EE to the IOP (pcsx2/Sif1.cpp, Sif.h,    *)
(* psxDma10 in IopDma.cpp, the channel's part of DmaExec in Dmac.cpp), with *)
(* the stall control that holds the EE back at the address in STADR.       *)
(*                                                                         *)
(* TTE is clear, so every operation moves whole quadwords and the unit of  *)
(* the model is the quadword: <<p, 0>> is the one with the IOP's tag of    *)
(* packet p, <<p, k>> the k-th one of its data.  One EE tag sends one      *)
(* packet.  The packets lie one after the other in the EE's memory, so     *)
(* that madr counts the quadwords sent; addresses are valid.  The SBUS     *)
(* flags and the cycle counts are left out.                                *)
(***************************************************************************)
EXTENDS Integers, Sequences

CONSTANTS FifoQW,       \* FIFO_SIF_W in quadwords
          Lengths,      \* quadwords of data in a packet
          MaxPackets    \* bound: packets sent since the last reset

VARIABLES
    pc,                     \* "idle": the guest runs; "ee", "iop": parts of the loop
    busyCheck,              \* BusyCheck > 0
    fifo,                   \* sif1.fifo
    ebusy, eend,            \* sif1.ee.busy, .end
    str, mod, tag, qwc,     \* sif1ch.chcr.STR, .MOD, the tag in it, sif1ch.qwc
    madr,                   \* sif1ch.madr, in quadwords
    tie, vifTie,            \* chcr.TIE of SIF1 and of VIF1
    std, stadr,             \* dmacRegs.ctrl.STD = STD_SIF1, dmacRegs.stadr
    stall,                  \* sif1_dma_stall
    ibusy, iend, counter,   \* sif1.iop.busy, .end, .counter
    tr,                     \* start bit of the IOP channel
    intr,                   \* interrupts scheduled: subset of {"IOP", "EE"}
    packets,                \* history: packets the EE's side has begun, with the
                            \* number of quadwords sent before each
    out, tags               \* history: quadwords taken by the IOP; those taken as tags

eeVars == <<ebusy, eend, str, mod, tag, qwc, madr, packets>>
iopVars == <<ibusy, iend, counter, tr, out, tags>>
ctrlVars == <<tie, vifTie, std>>
vars == <<pc, busyCheck, fifo, eeVars, ctrlVars, stadr, stall, iopVars, intr>>

MaxLength == CHOOSE n \in Lengths : \A m \in Lengths : m <= n
Tags == [id : {"REF", "REFS", "REFE"}, irq : BOOLEAN]
NoTag == [id |-> "REF", irq |-> FALSE]

Init ==
    /\ pc = "idle" /\ busyCheck = FALSE /\ fifo = <<>>
    /\ ebusy = FALSE /\ eend = FALSE /\ str = FALSE /\ mod = "chain" /\ tag = NoTag
    /\ qwc = 0 /\ madr = 0 /\ stadr = 0 /\ stall = FALSE
    /\ tie \in BOOLEAN /\ vifTie \in BOOLEAN /\ std \in BOOLEAN
    /\ ibusy = FALSE /\ iend = FALSE /\ counter = 0 /\ tr = FALSE
    /\ intr = {} /\ packets = <<>> /\ out = <<>> /\ tags = <<>>
---------------------------------------------------------------------------
Min2(a, b) == IF a < b THEN a ELSE b
Free == FifoQW - Len(fifo)

\* How many quadwords WriteEEtoFifo would send
WriteSize == Min2(qwc, Free)
\* The drain test of stall control
Beyond == madr + WriteSize > stadr
\* The quadwords sent up to the end of packet p, its tag included
EndOf(p) == IF p = 0 THEN 0 ELSE packets[p].start + 1 + packets[p].len
Ends(t) == t.id = "REFE" \/ (tie /\ t.irq)

\* A packet of n quadwords of data behind its IOP tag, with tag t of the EE;
\* stop is the IRQ or end bit of the IOP's tag.
Begin(n, t, stop) ==
    /\ Len(packets) < MaxPackets
    /\ packets' = Append(packets, [len |-> n, stop |-> stop, start |-> EndOf(Len(packets))])
    /\ qwc' = n + 1
    /\ tag' = t
---------------------------------------------------------------------------
(* The loop of SIF1Dma *)

\* EndEE
EndEE ==
    /\ eend' = FALSE /\ ebusy' = FALSE /\ intr' = intr \cup {"EE"}
    /\ UNCHANGED <<fifo, tag, qwc, madr, packets, stall>>

\* ProcessEETag and hwDmacSrcChain
ProcessEETag ==
    \E n \in Lengths, t \in Tags, stop \in BOOLEAN :
        /\ Len(packets) + 1 = MaxPackets => t.id = "REFE"
        /\ Begin(n, t, stop)
        /\ eend' = Ends(t)
        /\ UNCHANGED <<fifo, madr, ebusy, stall, intr>>

\* WriteEEtoFifo
WriteEEtoFifo ==
    LET p == Len(packets)
        sent == packets[p].len + 1 - qwc
    IN /\ fifo' = fifo \o [k \in 1..WriteSize |-> <<p, sent + k - 1>>]
       /\ madr' = madr + WriteSize
       /\ qwc' = qwc - WriteSize
       /\ UNCHANGED <<ebusy, eend, tag, packets, stall, intr>>

\* HandleEETransfer
HandleEETransfer ==
    LET controlled == std /\ (mod = "normal" \/ tag.id = "REFS") IN
    \/ /\ ~str
       /\ eend' = FALSE /\ ebusy' = FALSE
       /\ UNCHANGED <<fifo, tag, qwc, madr, packets, stall, intr>>
    \/ str /\ qwc = 0 /\ (mod = "normal" \/ eend) /\ EndEE
    \/ str /\ qwc = 0 /\ mod = "chain" /\ ~eend /\ ProcessEETag
    \/ /\ str /\ qwc > 0 /\ controlled /\ Beyond
       /\ stall' = TRUE
       /\ UNCHANGED <<fifo, ebusy, eend, tag, qwc, madr, packets, intr>>
    \/ /\ str /\ qwc > 0 /\ ~(controlled /\ Beyond)
       /\ IF Free > 0 THEN WriteEEtoFifo
                      ELSE UNCHANGED <<fifo, ebusy, eend, tag, qwc, madr, packets, stall, intr>>

\* The EE's turn
EeTurn ==
    /\ pc = "ee" /\ pc' = "iop"
    /\ IF ebusy /\ ~stall /\ (Free > 0 \/ (eend /\ qwc = 0))
       THEN busyCheck' = TRUE /\ HandleEETransfer
       ELSE /\ busyCheck' = FALSE
            /\ UNCHANGED <<fifo, ebusy, eend, tag, qwc, madr, packets, stall, intr>>
    /\ UNCHANGED <<str, mod, ctrlVars, stadr, iopVars>>

\* EndIOP, when the words before it have been taken
EndIOP ==
    /\ iend' = FALSE /\ ibusy' = FALSE /\ intr' = intr \cup {"IOP"}
    /\ counter' = 0 /\ UNCHANGED tags

\* SIFIOPReadTag at the head of what WriteFifoToIOP has left
SIFIOPReadTag(t) ==
    \E n \in Lengths, stop \in BOOLEAN :
        /\ t[2] = 0 => n = packets[t[1]].len /\ stop = packets[t[1]].stop
        /\ counter' = n /\ iend' = (iend \/ stop)
        /\ tags' = Append(tags, t)
        /\ UNCHANGED <<ibusy, intr>>

\* WriteFifoToIOP takes `taken` quadwords; then HandleIOPTransfer ends the
\* transfer or reads a tag, if there is nothing more to take.
HandleIOPTransfer ==
    LET taken == Min2(counter, Len(fifo))
        rest == SubSeq(fifo, taken + 1, Len(fifo))
        readTag == counter = taken /\ ~iend /\ rest # <<>>
        gone == IF readTag THEN taken + 1 ELSE taken
    IN /\ fifo' = SubSeq(fifo, gone + 1, Len(fifo))
       /\ out' = out \o SubSeq(fifo, 1, gone)
       /\ \/ counter = taken /\ iend /\ EndIOP
          \/ readTag /\ SIFIOPReadTag(Head(rest))
          \/ /\ ~readTag /\ ~(counter = taken /\ iend)
             /\ counter' = counter - taken
             /\ UNCHANGED <<ibusy, iend, tags, intr>>

\* Mutant of IopTurn: the loop stops when the IOP's side has done nothing
IopTurnLast ==
    /\ pc = "iop"
    /\ IF ibusy /\ (fifo # <<>> \/ (iend /\ counter = 0))
       THEN pc' = "ee" /\ HandleIOPTransfer
       ELSE /\ pc' = "idle"
            /\ UNCHANGED <<fifo, ibusy, iend, counter, out, tags, intr>>
    /\ UNCHANGED <<busyCheck, eeVars, ctrlVars, stadr, stall, tr>>

\* The IOP's turn; the loop goes on while a side has done something.
IopTurn ==
    /\ pc = "iop"
    /\ IF ibusy /\ (fifo # <<>> \/ (iend /\ counter = 0))
       THEN pc' = "ee" /\ HandleIOPTransfer
       ELSE /\ pc' = IF busyCheck THEN "ee" ELSE "idle"
            /\ UNCHANGED <<fifo, ibusy, iend, counter, out, tags, intr>>
    /\ UNCHANGED <<busyCheck, eeVars, ctrlVars, stadr, stall, tr>>

\* The start of SIF1Dma: nothing happens while the stalled transfer still
\* would go beyond STADR; q and m are qwc and madr.
SIF1Dma(q, m) ==
    IF stall /\ m + Min2(q, Free) > stadr
    THEN UNCHANGED <<pc, stall>>
    ELSE pc' = "ee" /\ stall' = FALSE
---------------------------------------------------------------------------
(* The guest and its interrupts, between two calls *)

\* Mutant of DmaSIF1Chain: the end is forgotten, as dmaSIF0 does
DmaSIF1ChainForgets ==
    /\ pc = "idle" /\ ~str
    /\ IF qwc > 0 THEN mod = "chain" ELSE Len(packets) < MaxPackets
    /\ str' = TRUE /\ mod' = "chain" /\ ebusy' = TRUE /\ eend' = FALSE
    /\ SIF1Dma(qwc, madr)
    /\ UNCHANGED <<busyCheck, fifo, tag, qwc, madr, packets, ctrlVars, stadr, iopVars, intr>>

\* dmaSIF1: the EE starts the channel, or resumes one it has stopped.  The end
\* of an interrupted chain is found again in the tag kept in chcr.
DmaSIF1Chain ==
    /\ pc = "idle" /\ ~str
    /\ IF qwc > 0 THEN mod = "chain" ELSE Len(packets) < MaxPackets
    /\ str' = TRUE /\ mod' = "chain" /\ ebusy' = TRUE
    /\ eend' = (qwc > 0 /\ (tag.id = "REFE" \/ (tag.irq /\ vifTie)))
    /\ SIF1Dma(qwc, madr)
    /\ UNCHANGED <<busyCheck, fifo, tag, qwc, madr, packets, ctrlVars, stadr, iopVars, intr>>

\* dmaSIF1 in normal mode: one packet without a tag for the EE, or the rest of it.
DmaSIF1Normal ==
    /\ pc = "idle" /\ ~str
    /\ str' = TRUE /\ mod' = "normal" /\ ebusy' = TRUE /\ eend' = FALSE
    /\ \/ qwc = 0 /\ \E n \in Lengths, stop \in BOOLEAN : Begin(n, NoTag, stop)
       \/ qwc > 0 /\ mod = "normal" /\ UNCHANGED <<qwc, tag, packets>>
    /\ SIF1Dma(qwc', madr)
    /\ UNCHANGED <<busyCheck, fifo, madr, ctrlVars, stadr, iopVars, intr>>

\* DmaExec: the EE writes 0 to STR of a running channel.
StopEE ==
    /\ pc = "idle" /\ str
    /\ str' = FALSE /\ intr' = intr \ {"EE"}
    /\ UNCHANGED <<pc, busyCheck, fifo, ebusy, eend, mod, tag, qwc, madr, packets,
                   ctrlVars, stadr, stall, iopVars>>

\* EEsif1Interrupt
EEsif1Interrupt ==
    /\ pc = "idle" /\ "EE" \in intr
    /\ intr' = intr \ {"EE"} /\ str' = FALSE
    /\ UNCHANGED <<pc, busyCheck, fifo, ebusy, eend, mod, tag, qwc, madr, packets,
                   ctrlVars, stadr, stall, iopVars>>

\* psxDma10: the IOP starts its side.
PsxDma10 ==
    /\ pc = "idle" /\ ~tr
    /\ tr' = TRUE /\ ibusy' = TRUE /\ iend' = FALSE
    /\ SIF1Dma(qwc, madr)
    /\ UNCHANGED <<busyCheck, fifo, eeVars, ctrlVars, stadr, counter, out, tags, intr>>

\* sif1Interrupt
Sif1Interrupt ==
    /\ pc = "idle" /\ "IOP" \in intr
    /\ intr' = intr \ {"IOP"} /\ tr' = FALSE
    /\ UNCHANGED <<pc, busyCheck, fifo, eeVars, ctrlVars, stadr, stall, ibusy, iend,
                   counter, out, tags>>

\* The source channel moves STADR on.
AdvanceStadr ==
    /\ pc = "idle" /\ std
    /\ stadr < MaxPackets * (MaxLength + 1)
    /\ stadr' = stadr + 1
    /\ UNCHANGED <<pc, busyCheck, fifo, eeVars, ctrlVars, stall, iopVars, intr>>

\* sifReset, with the registers of both processors; sif1_dma_stall is static
\* and not among the fields it clears.
SifReset ==
    /\ pc = "idle"
    /\ fifo' = <<>>
    /\ ebusy' = FALSE /\ eend' = FALSE /\ str' = FALSE /\ mod' = "chain" /\ tag' = NoTag
    /\ qwc' = 0 /\ madr' = 0 /\ stadr' = 0
    /\ ibusy' = FALSE /\ iend' = FALSE /\ counter' = 0 /\ tr' = FALSE
    /\ intr' = {} /\ packets' = <<>> /\ out' = <<>> /\ tags' = <<>>
    /\ UNCHANGED <<pc, busyCheck, ctrlVars, stall>>

Loop == EeTurn \/ IopTurn
Guest == DmaSIF1Chain \/ DmaSIF1Normal \/ StopEE \/ EEsif1Interrupt \/ PsxDma10
         \/ Sif1Interrupt \/ AdvanceStadr \/ SifReset
Next == Loop \/ Guest

\* A call of SIF1Dma runs to its end: fairness for the loop, none for the guest.
Spec == Init /\ [][Next]_vars /\ WF_vars(Loop)
---------------------------------------------------------------------------
(* Properties *)

\* The ring holds no more than it has room for, and the IOP receives the
\* packets in order, whole, each tag from where its packet starts.
Intact ==
    /\ Len(fifo) <= FifoQW
    /\ Len(out) <= EndOf(Len(packets))
    /\ \A p \in DOMAIN packets : \A k \in 0..packets[p].len :
          LET i == packets[p].start + k + 1 IN i <= Len(out) => out[i] = <<p, k>>
    /\ \A i \in DOMAIN tags : tags[i] = <<i, 0>>

\* When SIF1Dma returns, the two sides do not wait for each other, unless the
\* EE's side is held back by stall control.
Rendezvous == pc = "idle" /\ ~stall => ~(ibusy /\ ebusy)

\* A chain knows whether the packet it is sending is its last one, also after
\* the EE has stopped and resumed it in the middle: dmaSIF1 finds the end again
\* in chcr.  For an interrupt tag it looks at TIE of VIF1, not of SIF1, so there
\* the two must agree.
EndRemembered ==
    pc = "idle" /\ str /\ ebusy /\ mod = "chain" /\ qwc > 0 /\ (tag.irq => tie = vifTie)
        => (eend <=> Ends(tag))

\* Every call of SIF1Dma returns.
CallsReturn == pc # "idle" ~> pc = "idle"
=============================================================================
