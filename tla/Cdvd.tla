---------------------------------- MODULE Cdvd ----------------------------------
(***************************************************************************)
(* The disc drive as the IOP sees it (pcsx2/CDVD/CDVD.cpp): the N-commands *)
(* of register 04, BREAK, the three events a command runs on, DMA channel  *)
(* 3 (psxDma3 in Ps1CD.cpp), the tray, disc changes by the frontend        *)
(* (set_eject_state in libretro/main.cpp, ChangeDisc in VMManager.cpp),    *)
(* reset and savestates.  Everything runs on the EE thread, or while it is *)
(* parked; an action is a whole handler.                                   *)
(*                                                                         *)
(* Times are left out: a scheduled event may fire at any moment.  Whether  *)
(* a game has been started, which decides how the tray closes, is left     *)
(* open.  A sector's contents are <<disc, number>>.  cdvd.Error, the error *)
(* bit of cdvd.Ready, StatusSticky and IntrStat are only read by the guest; *)
(* what they tell of a read is in the history variable done.  The guest's  *)
(* parameter bytes are left out: a command is refused or not.              *)
(***************************************************************************)
EXTENDS Integers, Sequences

CONSTANTS Size,          \* number of sectors of each disc
          DVDs,          \* those of them that are DVDs
          NoDisc,        \* the empty drive
          Buffer,        \* sectors the drive reads ahead (16)
          Contiguous,    \* tbl_ContigiousSeekDelta (8 or 16)
          RetryCntMax,   \* attempts after the first
          Stage,         \* seconds a stage of the tray takes (3 or 2)
          MaxCnt,        \* bound: sectors asked for by one command
          MaxMoves       \* bound: moves of disc and tray before the drive is ready again

Discs == DOMAIN Size

ASSUME CdvdAssumption ==
    /\ NoDisc \notin Discs /\ RetryCntMax \in Nat
    /\ Buffer \in Nat \ {0} /\ Stage \in Nat \ {0}

Largest == CHOOSE n \in {Size[d] : d \in Discs} : \A d \in Discs : Size[d] <= n
Lsns == 0..Largest

VARIABLES
    cdvd,       \* the struct of that name
    events,     \* the CDVD events pending in psxRegs.interrupt
    dma,        \* channel 3: whole blocks it still asks for, -1 when off
    source,     \* the disc behind CDVDapi
    track,      \* the sector asked of it by DoCDVDreadTrack, -1: none
    transfer,   \* cdr.Transfer: the sector to deliver
    cmd,        \* history: the read command being run
    got,        \* history: the sectors delivered for it
    done,       \* history: how the last one ended, "no" while it has not
    missing,    \* history: the sectors it did not deliver
    owed,       \* history: commands accepted and neither completed nor given up
    clash,      \* history: the tray was opened while the drive was working
    moves       \* history: of disc and tray, since the drive was last ready

discVars == <<source, track, transfer>>
history == <<cmd, got, done, missing, owed>>
vars == <<cdvd, events, dma, discVars, history, clash, moves>>
---------------------------------------------------------------------------
(* The parts the handlers are made of *)

Abs(n) == IF n < 0 THEN -n ELSE n

\* cdvdSetIrq: also drops a BREAK
SetIrq(c) == [c EXCEPT !.AbortRequested = FALSE]

Schedule(evs, from) == events' = from \cup evs

\* DoCDVDreadTrack
ReadErr == IF source = NoDisc THEN -1 ELSE 0

\* cdvdDetectDisk
DetectDisk(c, src) ==
    IF src = NoDisc THEN [c EXCEPT !.DiscType = NoDisc]
    ELSE [c EXCEPT !.DiscType = src, !.MaxSector = Size[src]]

\* cdvdStartSeek; clv is transition_to_CLV, change whether that costs time.
StartSeek(c, lsn, clv, change) ==
    LET slow == c.Spinning /\ clv
        delta == Abs(lsn - c.CurrentSector)
        near == c.Spinning /\ delta < Contiguous
        seek == c.Action = "Seek"
        here == near /\ ~change /\ ~seek /\ delta = 0
        kept == IF slow THEN 0 ELSE c.nextSectorsBuffered
        buffered == IF ~near THEN 0
                    ELSE IF change \/ seek THEN kept
                    ELSE IF delta >= kept THEN 0 ELSE kept - delta
        others == events \ {"SectorReady"}
    IN [cdvd |-> [c EXCEPT !.Ready = "busy", !.Status = IF here THEN "READ" ELSE "SEEK",
                           !.SeekToSector = lsn, !.Reading = TRUE, !.SeekCompleted = here,
                           !.CurrentRetryCnt = IF here THEN 0 ELSE @,
                           !.Spinning = TRUE,
                           !.nextSectorsBuffered = IF here THEN kept ELSE buffered],
        events |-> IF here /\ kept > 0 THEN events
                   ELSE IF seek /\ buffered = 0 /\ (near \/ ~c.Spinning) THEN others
                   ELSE others \cup {"SectorReady"}]

\* The speeds a command may ask for: whether it goes from CAV to CLV, and
\* whether the rotation changes with that.
Speeds == {s \in [clv : BOOLEAN, change : BOOLEAN] : s.change => s.clv /\ cdvd.Spinning}

\* cdvdCtrlTrayOpen
TrayOpen(c, src) ==
    IF c.Status = "TRAY_OPEN" THEN c
    ELSE SetIrq([DetectDisk(c, src) EXCEPT !.Status = "TRAY_OPEN", !.Ready = "none",
                                           !.Spinning = FALSE])

\* cdvdCtrlTrayClose; skip is !g_GameStarted && g_SkipBiosHack
TrayClose(c, src, skip) ==
    IF c.Status # "TRAY_OPEN" THEN c
    ELSE IF skip
    THEN [DetectDisk(c, src) EXCEPT !.Ready = "ready", !.Status = "PAUSE", !.Spinning = TRUE,
                                    !.trayState = "ENGAGED", !.seconds = 0]
    ELSE [DetectDisk(c, src) EXCEPT !.Ready = "busy", !.Status = "STOP", !.Spinning = FALSE,
                                    !.trayState = "DETECTING", !.seconds = Stage]

\* cdvdReset, before it closes the tray
Zero ==
    [Ready |-> "ready", Status |-> "TRAY_OPEN", Action |-> "None", Reading |-> FALSE,
     SeekCompleted |-> FALSE, WaitingDMA |-> FALSE, AbortRequested |-> FALSE,
     Spinning |-> FALSE, CurrentSector |-> 0, SeekToSector |-> 0, SectorCnt |-> 0,
     MaxSector |-> 0, nextSectorsBuffered |-> 0, CurrentRetryCnt |-> 0, ReadErr |-> 0,
     DiscType |-> NoDisc, trayState |-> "ENGAGED", seconds |-> 0]

None == <<NoDisc, 0>>
NoCmd == [disc |-> NoDisc, lsn |-> 0, cnt |-> 0]

Init ==
    /\ source \in Discs
    /\ \E skip \in BOOLEAN : cdvd = TrayClose(Zero, source, skip)
    /\ events = {} /\ dma = -1 /\ track = -1 /\ transfer = None
    /\ cmd = NoCmd /\ got = <<>> /\ done = "ok" /\ missing = 0 /\ owed = 0 /\ clash = FALSE /\ moves = 0
---------------------------------------------------------------------------
(* The events *)

\* cdvdActionInterrupt: the end of a seek, a standby, a stop or a refused read
ActionInterrupt ==
    /\ "Cdvd" \in events
    /\ LET abort == cdvd.AbortRequested
           c == IF abort
                THEN [cdvd EXCEPT !.WaitingDMA = FALSE, !.nextSectorsBuffered = 0]
                ELSE cdvd
           rest == IF abort THEN events \ {"Cdvd", "SectorReady"} ELSE events \ {"Cdvd"}
           moved == cdvd.Action \in {"Seek", "Standby"}
       IN /\ cdvd' = SetIrq(
               [c EXCEPT !.Ready = "ready", !.Action = "None",
                         !.Status = IF cdvd.Action = "Stop" THEN "STOP" ELSE "PAUSE",
                         !.Spinning = IF moved THEN TRUE ELSE @ /\ cdvd.Action # "Stop",
                         !.CurrentSector = IF moved THEN cdvd.SeekToSector
                                           ELSE IF cdvd.Action = "Stop" THEN 0 ELSE @,
                         !.nextSectorsBuffered = IF cdvd.Action = "Standby" THEN 0 ELSE @])
          /\ Schedule(IF moved THEN {"SectorReady"} ELSE {}, rest)
    /\ owed' = owed - 1
    /\ UNCHANGED <<dma, discVars, cmd, got, done, missing, clash, moves>>

\* cdvdSectorReady: one more sector is buffered
SectorReady ==
    /\ "SectorReady" \in events
    /\ LET n == IF cdvd.nextSectorsBuffered < Buffer THEN cdvd.nextSectorsBuffered + 1 ELSE Buffer
       IN /\ cdvd' = [cdvd EXCEPT !.nextSectorsBuffered = n,
                        !.Status = IF n = Buffer /\ ~cdvd.Reading THEN "PAUSE" ELSE @]
          /\ Schedule(IF n < Buffer THEN {"SectorReady"} ELSE {}, events \ {"SectorReady"})
    /\ UNCHANGED <<dma, discVars, history, clash, moves>>

\* A read ends: c is cdvd afterwards, how tells the guest why.
EndRead(c, how, rest) ==
    /\ cdvd' = SetIrq(c) /\ events' = rest
    /\ done' = how /\ owed' = owed - 1 /\ missing' = cmd.cnt - Len(got)
    /\ cmd' = NoCmd /\ got' = <<>>
    /\ UNCHANGED dma

\* Mutant of WaitForDma: the sector is tried again later
PollDma(c, t, rest) ==
    /\ dma' = -1 /\ events' = rest \cup {"CdvdRead"}
    /\ cdvd' = [c EXCEPT !.Status = "PAUSE"]
    /\ transfer' = t /\ track' = -1 /\ UNCHANGED got

\* cdvdReadSector without a channel to put the sector t in
WaitForDma(c, t, rest) ==
    /\ dma' = -1 /\ events' = rest
    /\ cdvd' = [c EXCEPT !.Status = "PAUSE", !.WaitingDMA = TRUE]
    /\ transfer' = t /\ track' = -1 /\ UNCHANGED got

\* The rest of cdvdReadInterrupt, when the sector t is in cdr.Transfer:
\* cdvdReadSector, and what follows it.
Deliver(c, t, rest) ==
    /\ c.SectorCnt > 0 /\ c.nextSectorsBuffered > 0
    /\ UNCHANGED <<cmd, done, missing, owed>>
    /\ \/ dma <= 0 /\ WaitForDma(c, t, rest)
       \/ /\ dma > 0
          /\ dma' = IF dma = 1 THEN -1 ELSE dma - 1
          /\ got' = Append(got, t) /\ transfer' = None
          /\ Schedule({"SectorReady", "CdvdRead"}, rest)
          /\ LET moved == [c EXCEPT !.nextSectorsBuffered = @ - 1, !.CurrentSector = @ + 1,
                                    !.SeekToSector = @ + 1, !.SectorCnt = @ - 1]
             IN IF c.SectorCnt = 1
                THEN cdvd' = moved /\ track' = -1
                ELSE /\ cdvd' = [moved EXCEPT !.CurrentRetryCnt = 0, !.Reading = TRUE,
                                              !.ReadErr = ReadErr]
                     /\ track' = c.CurrentSector + 1

\* No sector to deliver: the command is complete, or the buffer is empty.
NoDelivery(c, t, rest) ==
    /\ track' = -1 /\ transfer' = t
    /\ \/ /\ c.SectorCnt <= 0
          /\ EndRead([c EXCEPT !.Ready = "ready", !.Status = "PAUSE"], "ok", rest)
       \/ /\ c.SectorCnt > 0 /\ c.nextSectorsBuffered = 0
          /\ cdvd' = c /\ Schedule({"CdvdRead"}, rest) /\ UNCHANGED <<dma, history>>

\* Mutant of Retry: one attempt too few
RetryOneLess(c, rest) ==
    LET n == c.CurrentRetryCnt + 1 IN
    /\ IF n < RetryCntMax
       THEN /\ cdvd' = [c EXCEPT !.CurrentRetryCnt = n, !.ReadErr = ReadErr]
            /\ track' = c.CurrentSector /\ Schedule({"CdvdRead"}, rest)
       ELSE /\ cdvd' = [c EXCEPT !.CurrentRetryCnt = n, !.ReadErr = -1]
            /\ events' = rest /\ UNCHANGED track
    /\ owed' = IF n <= RetryCntMax THEN owed ELSE owed - 1
    /\ UNCHANGED <<dma, transfer, cmd, got, done, missing>>

\* DoCDVDgetBuffer failed, or the sector could not be asked for.
Retry(c, rest) ==
    LET n == c.CurrentRetryCnt + 1 IN
    /\ IF n <= RetryCntMax
       THEN /\ cdvd' = [c EXCEPT !.CurrentRetryCnt = n, !.ReadErr = ReadErr]
            /\ track' = c.CurrentSector /\ Schedule({"CdvdRead"}, rest)
       ELSE /\ cdvd' = [c EXCEPT !.CurrentRetryCnt = n, !.ReadErr = -1]
            /\ events' = rest /\ UNCHANGED track
    /\ owed' = IF n <= RetryCntMax THEN owed ELSE owed - 1
    /\ UNCHANGED <<dma, transfer, cmd, got, done, missing>>

\* cdvdReadInterrupt
ReadInterrupt ==
    /\ "CdvdRead" \in events
    /\ LET rest == events \ {"CdvdRead"}
           owes == cdvd.Reading /\ cdvd.SectorCnt <= 0
           busy == [cdvd EXCEPT !.Ready = "busy", !.Status = "READ", !.WaitingDMA = FALSE]
           c == IF cdvd.SeekCompleted THEN busy
                ELSE [busy EXCEPT !.Spinning = TRUE, !.CurrentRetryCnt = 0, !.Reading = TRUE,
                                  !.SeekCompleted = TRUE, !.CurrentSector = cdvd.SeekToSector]
           reads == ~owes /\ ~c.AbortRequested /\ c.CurrentSector < c.MaxSector
           buffer == [c EXCEPT !.Reading = FALSE, !.ReadErr = 0]
           sector == <<source, track>>
       IN \/ /\ owes
             /\ EndRead([cdvd EXCEPT !.Reading = FALSE, !.Ready = "ready",
                           !.Status = IF cdvd.nextSectorsBuffered < Buffer THEN "READ" ELSE "PAUSE"],
                        "ok", rest)
             /\ UNCHANGED <<track, transfer>>
          \/ /\ ~owes /\ c.AbortRequested
             /\ EndRead([c EXCEPT !.Ready = "ready", !.Status = "PAUSE", !.nextSectorsBuffered = 0],
                        "abort", rest \ {"SectorReady"})
             /\ UNCHANGED <<track, transfer>>
          \/ /\ ~owes /\ ~c.AbortRequested /\ c.CurrentSector >= c.MaxSector
             /\ EndRead([c EXCEPT !.Ready = "ready", !.Status = "PAUSE"], "end", rest)
             /\ UNCHANGED <<track, transfer>>
          \/ reads /\ c.Reading /\ Retry(c, rest)
          \/ /\ reads /\ c.Reading /\ c.ReadErr = 0 /\ source # NoDisc
             /\ Deliver(buffer, sector, rest) \/ NoDelivery(buffer, sector, rest)
          \/ /\ reads /\ ~c.Reading
             /\ Deliver(c, transfer, rest) \/ NoDelivery(c, transfer, rest)
    /\ UNCHANGED <<source, clash, moves>>
---------------------------------------------------------------------------
(* The guest: register 04 (cdvdWrite04), BREAK and channel 3 *)

\* The checks of cdvdWrite04 and cdvdCommandErrorHandler
Accepts == cdvd.Ready = "ready"
HasDisc == cdvd.Status # "TRAY_OPEN" /\ cdvd.DiscType # NoDisc

\* No read is run any more.
NoRead == cmd' = NoCmd /\ got' = <<>> /\ done' = "ok" /\ missing' = 0

\* A command refused by those checks, in whatever state the drive is, or a read
\* the disc in the drive does not allow
Refused ==
    /\ cdvd' = SetIrq(cdvd)
    /\ UNCHANGED <<events, dma, discVars, history, clash, moves>>

\* N_CD_RESET, and N_CD_NOP which leaves the drive alone
ResetOrNop ==
    /\ Accepts
    /\ \/ cdvd' = SetIrq(cdvd)
       \/ HasDisc /\ cdvd' = SetIrq([cdvd EXCEPT !.Status = "STOP", !.Spinning = FALSE])
    /\ UNCHANGED <<events, dma, discVars, history, clash, moves>>

\* N_CD_PAUSE, N_CD_READ_KEY and N_CD_GET_TOC, which ends channel 3; all start
\* to buffer anew.
PauseKeyToc ==
    /\ Accepts /\ HasDisc
    /\ cdvd' = SetIrq([cdvd EXCEPT !.Status = "PAUSE", !.nextSectorsBuffered = 0])
    /\ \/ Schedule({"SectorReady"}, events \ {"Cdvd"}) /\ UNCHANGED dma
       \/ Schedule({"SectorReady"}, events) /\ dma' \in {-1, dma}
    /\ NoRead /\ UNCHANGED <<discVars, owed, clash, moves>>

\* A command that runs until an event: c is cdvd, evs the events afterwards.
Run(c, evs) ==
    /\ cdvd' = [c EXCEPT !.AbortRequested = FALSE]
    /\ events' = evs
    /\ owed' = owed + 1
    /\ UNCHANGED <<dma, source, transfer, clash, moves>>

\* N_CD_STANDBY and N_CD_SEEK.  Seek sets the action before it starts to move.
StandbySeek ==
    /\ Accepts /\ HasDisc
    /\ \E lsn \in Lsns, action \in {"Standby", "Seek"} :
          LET c == IF action = "Seek" THEN [cdvd EXCEPT !.Action = "Seek"] ELSE cdvd
              s == StartSeek(c, lsn, FALSE, FALSE)
          IN /\ action = "Standby" => lsn = 0
             /\ Run([s.cdvd EXCEPT !.Status = "SEEK", !.Action = action], s.events \cup {"Cdvd"})
    /\ NoRead /\ UNCHANGED track

\* Mutant of Stop: the drive stays ready
StopStaysReady ==
    /\ Accepts /\ HasDisc
    /\ Run([cdvd EXCEPT !.Status = "SPIN", !.nextSectorsBuffered = 0,
                        !.Action = "Stop"],
           (events \ {"SectorReady"}) \cup {"Cdvd"})
    /\ NoRead /\ UNCHANGED track

\* N_CD_STOP
Stop ==
    /\ Accepts /\ HasDisc
    /\ Run([cdvd EXCEPT !.Ready = "busy", !.Status = "SPIN", !.nextSectorsBuffered = 0,
                        !.Action = "Stop"],
           (events \ {"SectorReady"}) \cup {"Cdvd"})
    /\ NoRead /\ UNCHANGED track

\* The read commands.  N_CD_READ and N_DVD_READ refuse a read with a bad
\* parameter, of no sectors, or that begins beyond the disc (checked is
\* cdvdReadErrorHandler); the CD audio ones look at the parameters only.
Read ==
    /\ Accepts /\ HasDisc
    /\ \E lsn \in Lsns, cnt \in 0..MaxCnt, s \in Speeds, param, checked \in BOOLEAN :
          LET c == [cdvd EXCEPT !.SeekToSector = lsn, !.SectorCnt = cnt]
              bad == param \/ (checked /\ (cnt <= 0 \/ lsn >= cdvd.MaxSector))
              start == StartSeek(c, lsn, s.clv, s.change)
          IN /\ ~checked => cdvd.DiscType \notin DVDs
             /\ bad => ~s.clv
             /\ param => checked
             /\ IF bad
                THEN /\ Run([c EXCEPT !.Ready = "busy", !.Status = "SEEK", !.Action = "Error"],
                            events \cup {"Cdvd"})
                     /\ NoRead /\ UNCHANGED track
                ELSE /\ Run([start.cdvd EXCEPT !.ReadErr = ReadErr, !.Reading = TRUE],
                            start.events \cup {"CdvdRead"})
                     /\ track' = lsn /\ done' = "no" /\ got' = <<>>
                     /\ cmd' = [disc |-> source, lsn |-> lsn, cnt |-> cnt]
                     /\ UNCHANGED missing

\* cdvdWrite07
Break ==
    /\ cdvd.Ready = "busy" /\ ~cdvd.AbortRequested
    /\ cdvd' = [cdvd EXCEPT !.AbortRequested = TRUE]
    /\ UNCHANGED <<events, dma, discVars, history, clash, moves>>

\* psxDma3: the channel is started for n whole blocks; for none when it asks
\* for less than one.
PsxDma3 ==
    /\ dma = -1
    /\ \E n \in 0..MaxCnt : dma' = n
    /\ IF cdvd.WaitingDMA
       THEN events' = events \cup {"CdvdRead"}
       ELSE UNCHANGED events
    /\ UNCHANGED <<cdvd, discVars, history, clash, moves>>
---------------------------------------------------------------------------
(* The tray, the frontend, resets and savestates *)

Working == events # {} \/ cdvd.WaitingDMA

\* Moving disc or tray ends what is said of the last read.
Move ==
    /\ moves' = IF cdvd'.Ready = "ready" THEN 0 ELSE moves + 1
    /\ moves < MaxMoves /\ NoRead

\* The S-command CdTrayCtrl
TrayCtrl ==
    /\ \/ /\ cdvd' = TrayOpen(cdvd, source)
          /\ clash' = (clash \/ (Working /\ cdvd.Status # "TRAY_OPEN"))
       \/ /\ \E skip \in BOOLEAN : cdvd' = TrayClose(cdvd, source, skip)
          /\ UNCHANGED clash
    /\ cdvd' # cdvd /\ Move
    /\ UNCHANGED <<events, dma, discVars, owed>>

\* set_eject_state and ChangeDisc: the disc is taken out ...
Eject ==
    /\ source # NoDisc /\ source' = NoDisc
    /\ cdvd' = [TrayOpen(cdvd, source) EXCEPT !.trayState = "OPEN", !.seconds = 1]
    /\ clash' = (clash \/ Working) /\ Move
    /\ UNCHANGED <<events, dma, track, transfer, owed>>

\* Mutant of Insert: the tray's clock is not started
InsertQuietly ==
    /\ source = NoDisc /\ source' \in Discs
    /\ \E skip \in BOOLEAN : cdvd' = TrayClose(cdvd, source', skip)
    /\ Move /\ UNCHANGED <<events, dma, track, transfer, owed, clash>>

\* ... and one is put in.
Insert ==
    /\ source = NoDisc /\ source' \in Discs
    /\ \E skip \in BOOLEAN :
         cdvd' = TrayClose([cdvd EXCEPT !.trayState = "OPEN", !.seconds = 1], source', skip)
    /\ Move /\ UNCHANGED <<events, dma, track, transfer, owed, clash>>

\* cdvdUpdateTrayState, once a second
Tick ==
    /\ cdvd.seconds > 0
    /\ LET c == [cdvd EXCEPT !.seconds = @ - 1]
           opened == TrayOpen(c, source)
       IN \/ c.seconds > 0 /\ cdvd' = c
          \/ /\ c.seconds = 0 /\ c.trayState = "OPEN"
             /\ cdvd' = IF opened.DiscType # NoDisc \/ source = NoDisc
                        THEN [opened EXCEPT !.seconds = Stage, !.trayState = "EJECT"] ELSE opened
          \/ /\ c.seconds = 0 /\ c.trayState = "EJECT"
             /\ \E skip \in BOOLEAN : cdvd' = TrayClose(c, source, skip)
          \/ /\ c.seconds = 0 /\ c.trayState = "DETECTING"
             /\ cdvd' = [c EXCEPT !.trayState = "SEEKING", !.Status = "SEEK", !.seconds = Stage]
          \/ /\ c.seconds = 0 /\ c.trayState = "SEEKING"
             /\ cdvd' = [c EXCEPT !.Spinning = TRUE, !.trayState = "ENGAGED",
                                  !.Ready = "ready", !.Status = "PAUSE"]
    /\ clash' = (clash \/ (Working /\ cdvd.Status # "TRAY_OPEN" /\ cdvd'.Status = "TRAY_OPEN"))
    /\ moves' = IF cdvd'.Ready = "ready" THEN 0 ELSE moves
    /\ UNCHANGED <<events, dma, discVars, history>>

\* cdvdReset, with the registers of the IOP
Reset ==
    /\ \E skip \in BOOLEAN : cdvd' = TrayClose(Zero, source, skip)
    /\ events' = {} /\ dma' = -1 /\ transfer' = None /\ owed' = 0 /\ clash' = FALSE
    /\ Move /\ UNCHANGED <<source, track>>

\* Mutant of Load: the sector of an unfinished seek is not looked at
LoadCurrent ==
    /\ IF cdvd.Reading
       THEN /\ track' = cdvd.CurrentSector
            /\ cdvd' = [cdvd EXCEPT !.ReadErr = ReadErr]
       ELSE track' = -1 /\ UNCHANGED cdvd
    /\ UNCHANGED <<events, dma, source, transfer, history, clash, moves>>

\* cdvdFreeze: a savestate brings back cdvd, the events and cdr, but not what
\* the disc layer was asked for.
Load ==
    /\ IF cdvd.Reading
       THEN /\ track' = IF cdvd.SeekCompleted THEN cdvd.CurrentSector ELSE cdvd.SeekToSector
            /\ cdvd' = [cdvd EXCEPT !.ReadErr = ReadErr]
       ELSE track' = -1 /\ UNCHANGED cdvd
    /\ UNCHANGED <<events, dma, source, transfer, history, clash, moves>>

Guest == Refused \/ ResetOrNop \/ PauseKeyToc \/ StandbySeek \/ Stop
         \/ Read \/ Break \/ PsxDma3 \/ TrayCtrl
Event == ActionInterrupt \/ SectorReady \/ ReadInterrupt \/ Tick
Host == Eject \/ Insert \/ Reset \/ Load
Next == Event \/ Guest \/ Host

\* A scheduled event fires and the seconds pass; the guest owes nothing.
Spec ==
    /\ Init /\ [][Next]_vars
    /\ WF_vars(ActionInterrupt) /\ WF_vars(SectorReady) /\ WF_vars(ReadInterrupt) /\ WF_vars(Tick)
---------------------------------------------------------------------------
(* Properties *)

\* What a read puts into the guest's memory (cdvdReadInterrupt, cdvdReadSector)
\* are the sectors it asked for, in order, from the disc it was given for, also
\* over waits for the DMA channel, retries and a savestate; a read that ends
\* without an error has delivered all of them.  Not claimed when the tray was
\* opened while the drive was working.
ReadDelivers ==
    ~clash =>
       /\ Len(got) <= cmd.cnt
       /\ \A i \in DOMAIN got : got[i] = <<cmd.disc, cmd.lsn + i - 1>>
       /\ done = "ok" => missing = 0

\* The retries have run out: cdvdReadInterrupt returns without another event.
GaveUp == cdvd.Reading /\ cdvd.CurrentRetryCnt > RetryCntMax

\* The drive that says it is busy has an event coming, or waits for the guest
\* to start the DMA channel, or has given up; and a read waiting for a sector
\* to be buffered has one coming, otherwise its event would be repeated for
\* ever.  StartSeek, PAUSE, STOP and the aborts cancel events in between.
WorkGoesOn ==
    ~clash =>
       /\ cdvd.Ready = "busy" =>
             \/ {"CdvdRead", "Cdvd"} \cap events # {}
             \/ cdvd.WaitingDMA \/ GaveUp \/ cdvd.seconds > 0
       /\ "CdvdRead" \in events /\ cdvd.SectorCnt > 0 /\ cdvd.nextSectorsBuffered = 0
             => "SectorReady" \in events

\* Every command accepted raises one completion interrupt, before the drive is
\* ready for the next one; only a read that has given up raises none.
OneIrq == ~clash => owed \in 0..1 /\ (cdvd.Ready = "ready" => owed = 0)

\* Once the tray has settled, what the drive knows of the disc is true of the
\* disc that is in it: no exchange goes unnoticed (cdvdUpdateTrayState,
\* ChangeDisc), whatever the drive was doing.
SwapDetected ==
    cdvd.trayState = "ENGAGED" =>
       /\ cdvd.DiscType = source
       /\ source # NoDisc => cdvd.MaxSector = Size[source]

\* The drive becomes ready again and again, as long as it does not wait for the
\* guest (for DMA, or with a tray the guest has opened) and has not given up.
ReadyAgain ==
    []<>(\/ cdvd.Ready = "ready" \/ cdvd.WaitingDMA \/ GaveUp \/ clash
         \/ cdvd.Status = "TRAY_OPEN" /\ cdvd.seconds = 0)

\* "A read command whose last sector has already been transferred only owes the
\* guest its completion interrupt" (cdvdReadInterrupt): it does not end with an
\* error, unless the guest breaks it off.
LastSectorOwesIrq == done = "end" => missing > 0
=============================================================================
