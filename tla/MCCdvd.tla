---------------------------------- MODULE MCCdvd ----------------------------------
(***************************************************************************)
(* The drive with a CD and a smaller DVD.                                  *)
(***************************************************************************)
EXTENDS Cdvd

CONSTANTS CD, DVD

MCSize == [d \in {CD, DVD} |-> IF d = CD THEN 2 ELSE 1]
MCDVDs == {DVD}

\* Once the tray was opened under a working drive only SwapDetected is claimed, and
\* CdvdProofs covers it there; disc and tray are moved while channel 3 is off and
\* no read was retried.
Bound ==
    /\ ~clash
    /\ moves > 0 => dma = -1 /\ cdvd.CurrentRetryCnt = 0 /\ cdvd.SectorCnt = 0
=============================================================================
