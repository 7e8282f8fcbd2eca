---------------------------------- MODULE MCSif ----------------------------------
(***************************************************************************)
(* Both SIF channels.  They share no state, so a behaviour exercises one   *)
(* of them, chosen at the start.                                           *)
(***************************************************************************)
EXTENDS Sif0

CONSTANTS FifoQW, Lengths, MaxPackets1

ASSUME Fifo1Assumption == FifoQW \in Nat \ {0}
ASSUME LengthsAssumption == Lengths \subseteq Nat

VARIABLES channel,
          pc1, busyCheck1, fifo, ebusy1, eend1, str1, mod1, tag, qwc1, madr, tie, vifTie,
          std, stadr, stall, ibusy1, iend1, counter1, tr1, intr1, packets1, out1, tags1

S1 == INSTANCE Sif1 WITH MaxPackets <- MaxPackets1,
        pc <- pc1, busyCheck <- busyCheck1, ebusy <- ebusy1, eend <- eend1, str <- str1,
        mod <- mod1, qwc <- qwc1, ibusy <- ibusy1, iend <- iend1, counter <- counter1,
        tr <- tr1, intr <- intr1, packets <- packets1, out <- out1, tags <- tags1

vars1 == <<pc1, busyCheck1, fifo, ebusy1, eend1, str1, mod1, tag, qwc1, madr, packets1,
           tie, vifTie, std, stadr, stall, ibusy1, iend1, counter1, tr1, out1, tags1, intr1>>
MCvars == <<channel, vars, vars1>>

MCInit ==
    /\ channel \in {0, 1} /\ Init /\ S1!Init
    /\ channel = 0 => ~tie /\ ~vifTie /\ ~std

Step0 == channel = 0 /\ Next /\ UNCHANGED <<channel, vars1>>
Step1 == channel = 1 /\ S1!Next /\ UNCHANGED <<channel, vars>>
MCNext == Step0 \/ Step1

Loop0 == channel = 0 /\ Loop /\ UNCHANGED <<channel, vars1>>
Loop1 == channel = 1 /\ S1!Loop /\ UNCHANGED <<channel, vars>>
MCSpec == MCInit /\ [][MCNext]_MCvars /\ WF_MCvars(Loop0) /\ WF_MCvars(Loop1)

\* What either processor receives is what the other one sent, in order, whole
\* and padded as Sif.h describes, and nothing else (sifFifo, SIF0Dma, SIF1Dma).
SifIntact == Intact /\ S1!Intact

\* When SIF0Dma or SIF1Dma returns, its two sides do not wait for each other,
\* unless stall control holds SIF1 back.
SifRendezvous == Rendezvous /\ S1!Rendezvous

\* A chain on SIF1 that the EE stops and resumes still knows its last packet.
EndRemembered == S1!EndRemembered

\* Every call of SIF0Dma and SIF1Dma returns.
SifCallsReturn == CallsReturn /\ S1!CallsReturn
=============================================================================
