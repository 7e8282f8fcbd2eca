-------------------------------- MODULE CdvdProofs --------------------------------
(***************************************************************************)
(* Proofs about the disc drive: what a read delivers, that a busy drive    *)
(* has an event coming, one completion per command, and that no exchange   *)
(* of the disc goes unnoticed.                                             *)
(***************************************************************************)
EXTENDS Cdvd, SequenceTheorems, TLAPS

\* cdvd is a record of these fields.
Fields == {"Ready", "Status", "Action", "Reading", "SeekCompleted", "WaitingDMA",
           "AbortRequested", "Spinning", "CurrentSector", "SeekToSector", "SectorCnt",
           "MaxSector", "nextSectorsBuffered", "CurrentRetryCnt", "ReadErr", "DiscType",
           "trayState", "seconds"}
IsRec(c) == c = [f \in Fields |-> c[f]]

\* d is c but for the fields S.
Keeps(c, d, S) == IsRec(d) /\ \A f \in Fields \ S : d[f] = c[f]

Numbers(c) ==
    /\ c.CurrentSector \in Int /\ c.SeekToSector \in Int /\ c.SectorCnt \in Nat
    /\ c.nextSectorsBuffered \in Nat /\ c.CurrentRetryCnt \in Nat /\ c.seconds \in Nat
Sectors == (Discs \cup {NoDisc}) \X Int
Typed ==
    /\ IsRec(cdvd) /\ Numbers(cdvd)
    /\ source \in Discs \cup {NoDisc} /\ track \in Int /\ transfer \in Sectors
    /\ got \in Seq(Sectors) /\ cmd.cnt \in Nat /\ cmd.lsn \in Int

(* From the moment the tray has detected the disc until it is opened for   *)
(* another, the drive knows the disc that is in it.                         *)
Known ==
    cdvd.trayState \in {"ENGAGED", "DETECTING", "SEEKING"} =>
       /\ cdvd.DiscType = source
       /\ source # NoDisc => cdvd.MaxSector = Size[source]

\* A read is under way; a command is.
Reads == "CdvdRead" \in events \/ cdvd.WaitingDMA
Pending == "Cdvd" \in events \/ Reads

(* Each command under way owes one interrupt, the drive is busy with it,   *)
(* and there is one at a time.                                             *)
OneCommand ==
    /\ owed = IF Pending THEN 1 ELSE 0
    /\ Pending => cdvd.Ready = "busy"
    /\ "Cdvd" \in events => ~Reads
    /\ cdvd.Action # "None" => "Cdvd" \in events

(* While the tray is open or about to detect, and while there is no disc,  *)
(* the drive does not work.                                                *)
TrayQuiet ==
    /\ cdvd.Status = "TRAY_OPEN" => ~Working /\ cdvd.Ready = "none"
    /\ cdvd.trayState \in {"DETECTING", "SEEKING"} => ~Working /\ cdvd.Ready # "ready"
    /\ cdvd.trayState = "EJECT" => cdvd.Status = "TRAY_OPEN"
    /\ cdvd.Status # "TRAY_OPEN" => cdvd.DiscType \in {source, NoDisc}
    /\ source = NoDisc => ~Working

\* The sector the drive is at, or on its way to.
Here == IF cdvd.SeekCompleted THEN cdvd.CurrentSector ELSE cdvd.SeekToSector

(* A read under way is at the sector after those it has delivered: that    *)
(* sector has been asked of the disc, or is in cdr.Transfer.               *)
ReadPosition ==
    /\ cdvd.WaitingDMA => ~cdvd.Reading /\ cdvd.nextSectorsBuffered > 0
    /\ Reads =>
         /\ done = "no" /\ source = cmd.disc /\ source \in Discs
         /\ cmd.cnt = Len(got) + cdvd.SectorCnt
         /\ Here = cmd.lsn + Len(got)
         /\ cdvd.Reading => track = Here
         /\ ~cdvd.Reading => cdvd.SeekCompleted
         /\ ~cdvd.Reading /\ cdvd.SectorCnt > 0 => transfer = <<source, Here>>

Delivered ==
    /\ Len(got) <= cmd.cnt
    /\ \A i \in DOMAIN got : got[i] = <<cmd.disc, cmd.lsn + i - 1>>
    /\ done = "ok" => missing = 0
GoesOn ==
    /\ cdvd.Ready = "busy" => Pending \/ GaveUp \/ cdvd.seconds > 0
    /\ "CdvdRead" \in events /\ cdvd.SectorCnt > 0 /\ cdvd.nextSectorsBuffered = 0
          => "SectorReady" \in events

IInv == /\ Typed /\ Known
        /\ ~clash => OneCommand /\ TrayQuiet /\ ReadPosition /\ Delivered /\ GoesOn
---------------------------------------------------------------------------
(* What the parts of the handlers do to the fields *)

LEMMA DetectDiskFacts ==
    ASSUME NEW c, IsRec(c), NEW src, NEW d, d = DetectDisk(c, src)
    PROVE  /\ Keeps(c, d, {"DiscType", "MaxSector"})
           /\ d.DiscType = src /\ (src # NoDisc => d.MaxSector = Size[src])
<1>1. IsRec(d)
    BY Zenon DEF DetectDisk, IsRec, Fields
<1>2. d.DiscType = src /\ (src # NoDisc => d.MaxSector = Size[src])
    BY DEF DetectDisk, IsRec, Fields
<1>3. \A f \in Fields \ {"DiscType", "MaxSector"} : d[f] = c[f]
    BY ZenonT(30) DEF DetectDisk, IsRec, Fields
<1> QED
    BY <1>1, <1>2, <1>3 DEF Keeps

\* d is what cdvdCtrlTrayOpen makes of c, when the tray is not open.
Opened(c, src, d) ==
    /\ Keeps(c, d, {"DiscType", "MaxSector", "Status", "Ready", "Spinning", "AbortRequested"})
    /\ d.DiscType = src /\ (src # NoDisc => d.MaxSector = Size[src])
    /\ d.Status = "TRAY_OPEN" /\ d.Ready = "none"

LEMMA TrayOpenFacts ==
    ASSUME NEW c, IsRec(c), NEW src, c.Status # "TRAY_OPEN"
    PROVE  Opened(c, src, TrayOpen(c, src))
<1> DEFINE e == DetectDisk(c, src)
           d == TrayOpen(c, src)
<1>1. /\ IsRec(e) /\ e.DiscType = src /\ (src # NoDisc => e.MaxSector = Size[src])
      /\ \A f \in Fields \ {"DiscType", "MaxSector"} : e[f] = c[f]
    BY DetectDiskFacts DEF Keeps
<1>2. d = SetIrq([e EXCEPT !.Status = "TRAY_OPEN", !.Ready = "none", !.Spinning = FALSE])
    BY DEF TrayOpen
<1> HIDE DEF e, d
<1>3. IsRec(d)
    BY <1>1, <1>2, Zenon DEF SetIrq, IsRec, Fields
<1>4. /\ d.DiscType = e.DiscType /\ d.MaxSector = e.MaxSector
      /\ d.Status = "TRAY_OPEN" /\ d.Ready = "none"
    BY <1>1, <1>2 DEF SetIrq, IsRec, Fields
<1>5. \A f \in Fields \ {"Status", "Ready", "Spinning", "AbortRequested"} : d[f] = e[f]
    BY <1>1, <1>2, ZenonT(30) DEF SetIrq, IsRec, Fields
<1>6. \A f \in Fields \ {"DiscType", "MaxSector", "Status", "Ready", "Spinning", "AbortRequested"} :
         d[f] = c[f]
    BY <1>1, <1>5
<1> QED
    BY <1>1, <1>3, <1>4, <1>6 DEF Keeps, Opened, d

\* d is what cdvdCtrlTrayClose makes of c, when the tray is open.
Closed(c, src, d) ==
   
    /\ Keeps(c, d, {"DiscType", "MaxSector", "Ready", "Status", "Spinning", "trayState", "seconds"})
    /\ d.DiscType = src /\ (src # NoDisc => d.MaxSector = Size[src])
    /\ \/ d.Ready = "ready" /\ d.Status = "PAUSE" /\ d.trayState = "ENGAGED" /\ d.seconds = 0
       \/ d.Ready = "busy" /\ d.Status = "STOP" /\ d.trayState = "DETECTING" /\ d.seconds = Stage

LEMMA TrayCloseFacts ==
    ASSUME NEW c, IsRec(c), NEW src, NEW skip, c.Status = "TRAY_OPEN"
    PROVE  Closed(c, src, TrayClose(c, src, skip))
<1> DEFINE e == DetectDisk(c, src)
           d == TrayClose(c, src, skip)
<1>1. /\ IsRec(e) /\ e.DiscType = src /\ (src # NoDisc => e.MaxSector = Size[src])
      /\ \A f \in Fields \ {"DiscType", "MaxSector"} : e[f] = c[f]
    BY DetectDiskFacts DEF Keeps
<1>2. \/ d = [e EXCEPT !.Ready = "ready", !.Status = "PAUSE", !.Spinning = TRUE,
                       !.trayState = "ENGAGED", !.seconds = 0]
      \/ d = [e EXCEPT !.Ready = "busy", !.Status = "STOP", !.Spinning = FALSE,
                       !.trayState = "DETECTING", !.seconds = Stage]
    BY DEF TrayClose
<1> HIDE DEF e, d
<1>3. IsRec(d)
    BY <1>1, <1>2, ZenonT(30) DEF IsRec, Fields
<1>4. /\ d.DiscType = e.DiscType /\ d.MaxSector = e.MaxSector
      /\ \/ d.Ready = "ready" /\ d.Status = "PAUSE" /\ d.trayState = "ENGAGED" /\ d.seconds = 0
         \/ d.Ready = "busy" /\ d.Status = "STOP" /\ d.trayState = "DETECTING" /\ d.seconds = Stage
    BY <1>1, <1>2, ZenonT(30) DEF IsRec, Fields
<1>5. \A f \in Fields \ {"Ready", "Status", "Spinning", "trayState", "seconds"} : d[f] = e[f]
    BY <1>1, <1>2, Zenon DEF IsRec, Fields
<1>6. \A f \in Fields \ {"DiscType", "MaxSector", "Ready", "Status", "Spinning", "trayState",
                         "seconds"} : d[f] = c[f]
    BY <1>1, <1>5
<1> QED
    BY <1>1, <1>3, <1>4, <1>6 DEF Keeps, Closed, d

\* s is what cdvdStartSeek makes of c.
Sought(c, lsn, s) ==
    /\ Keeps(c, s.cdvd, {"Ready", "Status", "SeekToSector", "Reading", "SeekCompleted",
                         "CurrentRetryCnt", "Spinning", "nextSectorsBuffered"})
    /\ s.cdvd.Ready = "busy" /\ s.cdvd.Status \in {"READ", "SEEK"}
    /\ s.cdvd.SeekToSector = lsn
    /\ s.cdvd.SeekCompleted => c.CurrentSector = lsn
    /\ s.cdvd.CurrentRetryCnt \in Nat /\ s.cdvd.nextSectorsBuffered \in Nat
    /\ s.events \ {"SectorReady"} = events \ {"SectorReady"}
    /\ c.Action # "Seek" /\ s.cdvd.nextSectorsBuffered = 0 => "SectorReady" \in s.events

LEMMA StartSeekFacts ==
    ASSUME NEW c, IsRec(c), Numbers(c), NEW lsn \in Int, NEW clv, NEW change
    PROVE  Sought(c, lsn, StartSeek(c, lsn, clv, change))
<1> DEFINE slow == c.Spinning /\ clv
           delta == Abs(lsn - c.CurrentSector)
           near == c.Spinning /\ delta < Contiguous
           seek == c.Action = "Seek"
           here == near /\ ~change /\ ~seek /\ delta = 0
           kept == IF slow THEN 0 ELSE c.nextSectorsBuffered
           buffered == IF ~near THEN 0
                       ELSE IF change \/ seek THEN kept
                       ELSE IF delta >= kept THEN 0 ELSE kept - delta
           others == events \ {"SectorReady"}
           n == IF here THEN kept ELSE buffered
           s == StartSeek(c, lsn, clv, change)
           d == s.cdvd
<1>1. /\ d = [c EXCEPT !.Ready = "busy", !.Status = IF here THEN "READ" ELSE "SEEK",
                       !.SeekToSector = lsn, !.Reading = TRUE, !.SeekCompleted = here,
                       !.CurrentRetryCnt = IF here THEN 0 ELSE @,
                       !.Spinning = TRUE, !.nextSectorsBuffered = n]
      /\ s.events = IF here /\ kept > 0 THEN events
                    ELSE IF seek /\ buffered = 0 /\ (near \/ ~c.Spinning) THEN others
                    ELSE others \cup {"SectorReady"}
    BY DEF StartSeek
<1>2. delta \in Nat /\ (delta = 0 => c.CurrentSector = lsn)
    BY DEF Numbers, Abs
<1>3. kept \in Nat
    BY DEF Numbers
<1>4. buffered \in Nat
  <2> HIDE DEF delta, near, seek, kept
  <2> QED
      BY <1>2, <1>3
<1>5. n \in Nat
    BY <1>3, <1>4
<1>6. here => ~seek /\ c.CurrentSector = lsn /\ n = kept
    BY <1>2
<1> HIDE DEF slow, delta, near, seek, here, kept, buffered, others, n, s, d
<1>7. IsRec(d)
    BY <1>1, Zenon DEF IsRec, Fields
<1>8. /\ d.Ready = "busy" /\ d.Status \in {"READ", "SEEK"} /\ d.SeekToSector = lsn
      /\ d.nextSectorsBuffered = n
      /\ d.CurrentRetryCnt = IF here THEN 0 ELSE c.CurrentRetryCnt
    BY <1>1 DEF IsRec, Fields
<1>9. d.SeekCompleted = here
    BY <1>1 DEF IsRec, Fields
<1>10. \A f \in Fields \ {"Ready", "Status", "SeekToSector", "Reading", "SeekCompleted",
                          "CurrentRetryCnt", "Spinning", "nextSectorsBuffered"} : d[f] = c[f]
    BY <1>1, ZenonT(30) DEF IsRec, Fields
<1>11. Keeps(c, d, {"Ready", "Status", "SeekToSector", "Reading", "SeekCompleted",
                    "CurrentRetryCnt", "Spinning", "nextSectorsBuffered"})
    BY <1>7, <1>10 DEF Keeps
<1>12. d.SeekCompleted => c.CurrentSector = lsn
    BY <1>6, <1>9
<1>13. d.CurrentRetryCnt \in Nat /\ d.nextSectorsBuffered \in Nat
    BY <1>5, <1>8 DEF Numbers
<1>14. s.events \ {"SectorReady"} = events \ {"SectorReady"}
    BY <1>1 DEF others
<1>15. c.Action # "Seek" /\ d.nextSectorsBuffered = 0 => "SectorReady" \in s.events
    BY <1>1, <1>3, <1>6, <1>8 DEF seek
<1> QED
    BY <1>8, <1>11, <1>12, <1>13, <1>14, <1>15 DEF Sought, s, d
---------------------------------------------------------------------------
(* Every step keeps the invariant *)

\* A step that changes nothing the invariant speaks of.
LEMMA Untouched ==
    ASSUME IInv, Keeps(cdvd, cdvd', {"AbortRequested", "Spinning", "ReadErr", "Status"}),
           \/ cdvd'.Status = cdvd.Status
           \/ cdvd'.Status # "TRAY_OPEN" /\ cdvd.Status # "TRAY_OPEN",
           UNCHANGED <<events, discVars, history, clash>>
    PROVE  IInv'
<1>1. /\ cdvd'.Status = "TRAY_OPEN" <=> cdvd.Status = "TRAY_OPEN"
      /\ Keeps(cdvd, cdvd', {"AbortRequested", "Spinning", "ReadErr", "Status"})
    OBVIOUS
<1>2. Typed'
    BY <1>1 DEF IInv, Typed, Numbers, Keeps, Fields, discVars, history
<1>3. Known'
    BY <1>1 DEF IInv, Known, Keeps, Fields, discVars
<1>4. ASSUME ~clash'
      PROVE  (OneCommand /\ TrayQuiet /\ ReadPosition /\ Delivered /\ GoesOn)'
  <2>1. OneCommand /\ TrayQuiet /\ ReadPosition /\ Delivered /\ GoesOn
      BY <1>1, <1>4 DEF IInv
  <2>2. OneCommand'
      BY <1>1, <2>1 DEF OneCommand, Pending, Reads, Keeps, Fields, history
  <2>3. TrayQuiet'
      BY <1>1, <2>1 DEF TrayQuiet, Working, Keeps, Fields, discVars
  <2>4. ReadPosition'
      BY <1>1, <2>1 DEF ReadPosition, Reads, Here, Keeps, Fields, discVars, history
  <2>5. Delivered'
      BY <1>1, <2>1 DEF Delivered, Keeps, Fields, history
  <2>6. GoesOn'
      BY <1>1, <2>1 DEF GoesOn, Pending, Reads, GaveUp, Keeps, Fields
  <2> QED
      BY <2>2, <2>3, <2>4, <2>5, <2>6
<1> QED
    BY <1>2, <1>3, <1>4 DEF IInv

LEMMA RefusedStep ==
    ASSUME IInv, Refused
    PROVE  IInv'
<1>1. Keeps(cdvd, cdvd', {"AbortRequested"})
    BY ZenonT(30) DEF IInv, Typed, Refused, SetIrq, Keeps, IsRec, Fields
<1> QED
    BY <1>1, Untouched DEF Refused, Keeps, Fields

LEMMA ResetOrNopStep ==
    ASSUME IInv, ResetOrNop
    PROVE  IInv'
<1>1. Keeps(cdvd, cdvd', {"AbortRequested", "Spinning", "Status"})
    BY ZenonT(30) DEF IInv, Typed, ResetOrNop, SetIrq, Keeps, IsRec, Fields
<1>2. \/ cdvd'.Status = cdvd.Status
      \/ cdvd'.Status # "TRAY_OPEN" /\ cdvd.Status # "TRAY_OPEN"
    BY Zenon DEF IInv, Typed, ResetOrNop, HasDisc, SetIrq, IsRec, Fields
<1> QED
    BY <1>1, <1>2, Untouched DEF ResetOrNop, Keeps, Fields

LEMMA BreakStep ==
    ASSUME IInv, Break
    PROVE  IInv'
<1>1. Keeps(cdvd, cdvd', {"AbortRequested"})
    BY ZenonT(30) DEF IInv, Typed, Break, Keeps, IsRec, Fields
<1> QED
    BY <1>1, Untouched, ZenonT(30) DEF Break, Keeps, Fields

LEMMA StutterStep ==
    ASSUME IInv, UNCHANGED vars
    PROVE  IInv'
<1>1. Keeps(cdvd, cdvd', {})
    BY DEF IInv, Typed, vars, Keeps
<1> QED
    BY <1>1, Untouched DEF vars, Keeps, Fields

LEMMA PsxDma3Step ==
    ASSUME IInv, PsxDma3
    PROVE  IInv'
<1>1. /\ Keeps(cdvd, cdvd', {}) /\ cdvd' = cdvd
      /\ events' = IF cdvd.WaitingDMA THEN events \cup {"CdvdRead"} ELSE events
    BY DEF IInv, Typed, PsxDma3, Keeps
<1>2. Typed'
    BY <1>1 DEF IInv, Typed, Numbers, Keeps, Fields, PsxDma3, discVars, history
<1>3. Known'
    BY <1>1 DEF IInv, Known, Keeps, Fields, PsxDma3, discVars
<1>4. ASSUME ~clash'
      PROVE  (OneCommand /\ TrayQuiet /\ ReadPosition /\ Delivered /\ GoesOn)'
  <2>1. OneCommand /\ TrayQuiet /\ ReadPosition /\ Delivered /\ GoesOn
      BY <1>1, <1>4 DEF IInv, PsxDma3
  <2>2. OneCommand'
      BY <1>1, <2>1 DEF OneCommand, Pending, Reads, Keeps, Fields, PsxDma3, history
  <2>3. TrayQuiet'
      BY <1>1, <2>1 DEF TrayQuiet, Working, Keeps, Fields, PsxDma3, discVars
  <2>4. ReadPosition'
      BY <1>1, <2>1 DEF ReadPosition, Reads, Here, Keeps, Fields, PsxDma3, discVars, history
  <2>5. Delivered'
      BY <1>1, <2>1 DEF Delivered, Keeps, Fields, PsxDma3, history
  <2>6. GoesOn'
      BY <1>1, <2>1 DEF GoesOn, Pending, Reads, GaveUp, Keeps, Fields, PsxDma3, ReadPosition
  <2> QED
      BY <2>2, <2>3, <2>4, <2>5, <2>6
<1> QED
    BY <1>2, <1>3, <1>4 DEF IInv

LEMMA LoadStep ==
    ASSUME IInv, Load
    PROVE  IInv'
<1>1. /\ Keeps(cdvd, cdvd', {"ReadErr"})
      /\ cdvd.Reading => track' = Here
      /\ track' \in Int
  <2>1. Keeps(cdvd, cdvd', {"ReadErr"})
      BY Zenon DEF IInv, Typed, Load, Keeps, IsRec, Fields
  <2>2. cdvd.Reading => track' = Here
      BY Zenon DEF Load, Here
  <2>3. track' \in Int
      BY DEF IInv, Typed, Numbers, Load
  <2> QED
      BY <2>1, <2>2, <2>3
<1>2. Typed'
    BY <1>1, ZenonT(30) DEF IInv, Typed, Numbers, Keeps, Fields, Load, discVars, history
<1>3. Known'
    BY <1>1 DEF IInv, Known, Keeps, Fields, Load, discVars
<1>4. ASSUME ~clash'
      PROVE  (OneCommand /\ TrayQuiet /\ ReadPosition /\ Delivered /\ GoesOn)'
  <2>1. OneCommand /\ TrayQuiet /\ ReadPosition /\ Delivered /\ GoesOn
      BY <1>1, <1>4 DEF IInv, Load
  <2>2. OneCommand'
      BY <1>1, <2>1 DEF OneCommand, Pending, Reads, Keeps, Fields, Load, history
  <2>3. TrayQuiet'
      BY <1>1, <2>1 DEF TrayQuiet, Working, Keeps, Fields, Load, discVars
  <2>4. ReadPosition'
      BY <1>1, <2>1 DEF ReadPosition, Reads, Here, Keeps, Fields, Load, discVars, history
  <2>5. Delivered'
      BY <1>1, <2>1 DEF Delivered, Keeps, Fields, Load, history
  <2>6. GoesOn'
      BY <1>1, <2>1 DEF GoesOn, Pending, Reads, GaveUp, Keeps, Fields, Load
  <2> QED
      BY <2>2, <2>3, <2>4, <2>5, <2>6
<1> QED
    BY <1>2, <1>3, <1>4 DEF IInv

LEMMA SectorReadyStep ==
    ASSUME IInv, SectorReady
    PROVE  IInv'
<1>1. /\ Keeps(cdvd, cdvd', {"nextSectorsBuffered", "Status"})
      /\ cdvd'.Status \in {cdvd.Status, "PAUSE"}
    BY ZenonT(30) DEF IInv, Typed, SectorReady, Keeps, IsRec, Fields
<1>2. cdvd'.nextSectorsBuffered \in Nat \ {0}
  <2>1. cdvd'.nextSectorsBuffered = IF cdvd.nextSectorsBuffered < Buffer
                                    THEN cdvd.nextSectorsBuffered + 1 ELSE Buffer
      BY DEF IInv, Typed, SectorReady, IsRec, Fields
  <2> QED
      BY <2>1, CdvdAssumption DEF IInv, Typed, Numbers
<1>3. /\ "SectorReady" \in events
      /\ \A e \in {"Cdvd", "CdvdRead"} : e \in events' <=> e \in events
    BY DEF SectorReady, Schedule
<1>4. Typed'
    BY <1>1, <1>2, <1>3 DEF IInv, Typed, Numbers, Keeps, Fields, SectorReady, discVars, history
<1>5. Known'
    BY <1>1, <1>2, <1>3 DEF IInv, Known, Keeps, Fields, SectorReady, discVars
<1>6. ASSUME ~clash'
      PROVE  (OneCommand /\ TrayQuiet /\ ReadPosition /\ Delivered /\ GoesOn)'
  <2>1. OneCommand /\ TrayQuiet /\ ReadPosition /\ Delivered /\ GoesOn
      BY <1>1, <1>2, <1>3, <1>6 DEF IInv, SectorReady
  <2>2. OneCommand'
      BY <1>1, <1>2, <1>3, <2>1
      DEF OneCommand, Pending, Reads, Keeps, Fields, SectorReady, history
  <2>3. TrayQuiet'
      BY <1>1, <1>2, <1>3, <2>1 DEF TrayQuiet, Working, Keeps, Fields, SectorReady, discVars
  <2>4. ReadPosition'
      BY <1>1, <1>2, <1>3, <2>1
      DEF ReadPosition, Reads, Here, Keeps, Fields, SectorReady, discVars, history
  <2>5. Delivered'
      BY <1>1, <1>2, <1>3, <2>1 DEF Delivered, Keeps, Fields, SectorReady, history
  <2>6. GoesOn'
      BY <1>1, <1>2, <1>3, <2>1 DEF GoesOn, Pending, Reads, GaveUp, Keeps, Fields, SectorReady
  <2> QED
      BY <2>2, <2>3, <2>4, <2>5, <2>6
<1> QED
    BY <1>4, <1>5, <1>6 DEF IInv

LEMMA ActionInterruptStep ==
    ASSUME IInv, ActionInterrupt
    PROVE  IInv'
<1>1. Keeps(cdvd, cdvd', {"WaitingDMA", "nextSectorsBuffered", "Ready", "Action", "Status",
                          "Spinning", "CurrentSector", "AbortRequested"})
    BY ZenonT(30) DEF IInv, Typed, ActionInterrupt, SetIrq, Keeps, IsRec, Fields
<1>2. /\ cdvd'.Ready = "ready" /\ cdvd'.Action = "None" /\ cdvd'.Status \in {"STOP", "PAUSE"}
      /\ cdvd'.CurrentSector \in {cdvd.CurrentSector, cdvd.SeekToSector, 0}
      /\ cdvd'.nextSectorsBuffered \in {cdvd.nextSectorsBuffered, 0}
    BY DEF IInv, Typed, ActionInterrupt, SetIrq, IsRec, Fields
<1>3. cdvd'.WaitingDMA => cdvd.WaitingDMA
    BY DEF IInv, Typed, ActionInterrupt, SetIrq, IsRec, Fields
<1>4. /\ "Cdvd" \in events /\ "Cdvd" \notin events'
      /\ "CdvdRead" \in events' => "CdvdRead" \in events
    BY DEF ActionInterrupt, Schedule
<1>5. UNCHANGED <<discVars, cmd, got, done, missing, clash>> /\ owed' = owed - 1
    BY DEF ActionInterrupt
<1>6. Typed'
    BY <1>1, <1>2, <1>3, <1>4, <1>5, SMTT(30) DEF IInv, Typed, Numbers, Keeps, Fields, discVars
<1>7. Known'
    BY <1>1, <1>2, <1>3, <1>4, <1>5 DEF IInv, Known, Keeps, Fields, discVars
<1>8. ASSUME ~clash'
      PROVE  (OneCommand /\ TrayQuiet /\ ReadPosition /\ Delivered /\ GoesOn)'
  <2>1. OneCommand /\ TrayQuiet /\ ReadPosition /\ Delivered /\ GoesOn
      BY <1>1, <1>2, <1>3, <1>4, <1>5, <1>8 DEF IInv
  <2>2. ~Reads
      BY <2>1, <1>4 DEF OneCommand
  <2>3. OneCommand'
      BY <1>1, <1>2, <1>3, <1>4, <1>5, <2>1, <2>2 DEF OneCommand, Pending, Reads, Keeps, Fields
  <2>4. TrayQuiet'
      BY <1>1, <1>2, <1>3, <1>4, <1>5, <2>1, <2>2 DEF TrayQuiet, Working, Keeps, Fields, discVars
  <2>5. ReadPosition'
      BY <1>1, <1>2, <1>3, <1>4, <1>5, <2>1, <2>2
      DEF ReadPosition, Reads, Here, Keeps, Fields, discVars
  <2>6. Delivered'
      BY <1>1, <1>2, <1>3, <1>4, <1>5, <2>1, <2>2 DEF Delivered, Keeps, Fields
  <2>7. GoesOn'
      BY <1>1, <1>2, <1>3, <1>4, <1>5, <2>1, <2>2
      DEF GoesOn, Pending, Reads, GaveUp, Keeps, Fields
  <2> QED
      BY <2>3, <2>4, <2>5, <2>6, <2>7
<1> QED
    BY <1>6, <1>7, <1>8 DEF IInv

\* The drive that accepts a command does nothing, and has a disc in it.
LEMMA CommandFacts ==
    ASSUME IInv, ~clash, Accepts, HasDisc
    PROVE  /\ ~Pending /\ ~Reads /\ owed = 0 /\ cdvd.Action = "None" /\ cdvd.Status # "TRAY_OPEN"
           /\ cdvd.DiscType = source /\ source \in Discs
           /\ cdvd.trayState \notin {"DETECTING", "SEEKING", "EJECT"}
<1>1. OneCommand /\ TrayQuiet /\ Typed /\ cdvd.Ready = "ready" /\ HasDisc
    BY DEF IInv, Accepts
<1>2. ~Pending /\ owed = 0 /\ cdvd.Action = "None"
    BY <1>1 DEF OneCommand, Pending
<1>3. ~Reads
    BY <1>2 DEF Pending
<1>4. /\ cdvd.Status # "TRAY_OPEN" /\ cdvd.DiscType = source /\ source \in Discs
      /\ cdvd.trayState \notin {"DETECTING", "SEEKING", "EJECT"}
    BY <1>1, SMTT(30) DEF TrayQuiet, HasDisc, Typed
<1> QED
    BY <1>2, <1>3, <1>4

LEMMA PauseKeyTocStep ==
    ASSUME IInv, PauseKeyToc
    PROVE  IInv'
<1>1. Keeps(cdvd, cdvd', {"Status", "nextSectorsBuffered", "AbortRequested"})
    BY Zenon DEF IInv, Typed, PauseKeyToc, SetIrq, Keeps, IsRec, Fields
<1>2. cdvd'.Status = "PAUSE" /\ cdvd'.nextSectorsBuffered = 0
    BY DEF IInv, Typed, PauseKeyToc, SetIrq, IsRec, Fields
<1>3. \A e \in {"Cdvd", "CdvdRead"} : e \in events' => e \in events
    BY DEF PauseKeyToc, Schedule
<1>4. NoRead /\ UNCHANGED <<discVars, owed, clash>> /\ Accepts /\ HasDisc /\ cdvd.Status # "TRAY_OPEN"
    BY DEF PauseKeyToc, HasDisc
<1>5. Typed'
    BY <1>1, <1>2, <1>3, <1>4 DEF IInv, Typed, Numbers, Keeps, Fields, NoRead, NoCmd, discVars
<1>6. Known'
    BY <1>1, <1>2, <1>3, <1>4 DEF IInv, Known, Keeps, Fields, NoCmd, discVars
<1>7. ASSUME ~clash'
      PROVE  (OneCommand /\ TrayQuiet /\ ReadPosition /\ Delivered /\ GoesOn)'
  <2>1. OneCommand /\ TrayQuiet /\ ReadPosition /\ Delivered /\ GoesOn
      BY <1>1, <1>2, <1>3, <1>4, <1>7 DEF IInv, NoCmd
  <2>2. /\ ~Pending /\ ~Reads /\ owed = 0 /\ cdvd.Action = "None" /\ source \in Discs
        /\ cdvd.trayState \notin {"DETECTING", "SEEKING", "EJECT"}
      BY <1>4, <1>7, CommandFacts
  <2>3. OneCommand'
      BY <1>1, <1>2, <1>3, <1>4, <2>1, <2>2 DEF OneCommand, Pending, Reads, Keeps, Fields, NoCmd
  <2>4. TrayQuiet'
      BY <1>1, <1>2, <1>3, <1>4, <2>1, <2>2, CdvdAssumption
      DEF TrayQuiet, Working, Keeps, Fields, NoCmd, discVars
  <2>5. ReadPosition'
      BY <1>1, <1>2, <1>3, <1>4, <2>1, <2>2
      DEF ReadPosition, Reads, Here, Keeps, Fields, NoRead, NoCmd, discVars
  <2>6. Delivered'
      BY <1>1, <1>2, <1>3, <1>4, <2>1, <2>2 DEF Delivered, Keeps, Fields, NoRead, NoCmd
  <2>7. GoesOn'
      BY <1>1, <1>2, <1>3, <1>4, <2>1, <2>2
      DEF GoesOn, Pending, Reads, GaveUp, Keeps, Fields, NoCmd, Accepts
  <2> QED
      BY <2>3, <2>4, <2>5, <2>6, <2>7
<1> QED
    BY <1>5, <1>6, <1>7 DEF IInv

\* A command that ends with cdvdActionInterrupt: a seek, a standby, a stop, a
\* refused read.
LEMMA ActionStarts ==
    ASSUME IInv, Accepts, HasDisc,
           Keeps(cdvd, cdvd', {"Ready", "Status", "Action", "SeekToSector", "SectorCnt", "Reading",
                               "SeekCompleted", "CurrentRetryCnt", "Spinning",
                               "nextSectorsBuffered", "AbortRequested"}),
           Numbers(cdvd'), cdvd'.Ready = "busy", cdvd'.Status # "TRAY_OPEN",
           "Cdvd" \in events', "CdvdRead" \in events' => "CdvdRead" \in events,
           NoRead, owed' = owed + 1, UNCHANGED <<discVars, clash>>
    PROVE  IInv'
<1>1. /\ Keeps(cdvd, cdvd', {"Ready", "Status", "Action", "SeekToSector", "SectorCnt", "Reading",
                             "SeekCompleted", "CurrentRetryCnt", "Spinning",
                             "nextSectorsBuffered", "AbortRequested"})
      /\ cdvd'.Ready = "busy" /\ cdvd'.Status # "TRAY_OPEN"
      /\ "Cdvd" \in events' /\ ("CdvdRead" \in events' => "CdvdRead" \in events)
      /\ owed' = owed + 1 /\ NoRead /\ UNCHANGED <<discVars, clash>>
    OBVIOUS
<1>2. Typed'
    BY <1>1 DEF IInv, Typed, Numbers, Keeps, Fields, NoRead, NoCmd, discVars
<1>3. Known'
    BY <1>1 DEF IInv, Known, Keeps, Fields, NoCmd, discVars
<1>4. ASSUME ~clash'
      PROVE  (OneCommand /\ TrayQuiet /\ ReadPosition /\ Delivered /\ GoesOn)'
  <2>1. OneCommand /\ TrayQuiet /\ ReadPosition /\ Delivered /\ GoesOn
      BY <1>1, <1>4 DEF IInv, NoCmd
  <2>2. /\ ~Pending /\ ~Reads /\ owed = 0 /\ cdvd.Status # "TRAY_OPEN" /\ source \in Discs
        /\ cdvd.trayState \notin {"DETECTING", "SEEKING", "EJECT"}
      BY <1>1, <1>4, CommandFacts
  <2>3. OneCommand'
      BY <1>1, <2>1, <2>2 DEF OneCommand, Pending, Reads, Keeps, Fields, NoCmd
  <2>4. TrayQuiet'
      BY <1>1, <2>1, <2>2, CdvdAssumption DEF TrayQuiet, Working, Keeps, Fields, NoCmd, discVars
  <2>5. ReadPosition'
      BY <1>1, <2>1, <2>2 DEF ReadPosition, Reads, Here, Keeps, Fields, NoRead, NoCmd, discVars
  <2>6. Delivered'
      BY <1>1, <2>1, <2>2 DEF Delivered, Keeps, Fields, NoRead, NoCmd
  <2>7. GoesOn'
      BY <1>1, <2>1, <2>2 DEF GoesOn, Pending, Reads, GaveUp, Keeps, Fields, NoCmd
  <2> QED
      BY <2>3, <2>4, <2>5, <2>6, <2>7
<1> QED
    BY <1>2, <1>3, <1>4 DEF IInv

LEMMA StopStep ==
    ASSUME IInv, Stop
    PROVE  IInv'
<1>1. Keeps(cdvd, cdvd', {"Ready", "Status", "nextSectorsBuffered", "Action", "AbortRequested"})
    BY Zenon DEF IInv, Typed, Stop, Run, Keeps, IsRec, Fields
<1>2. /\ cdvd'.Ready = "busy" /\ cdvd'.Status = "SPIN" /\ cdvd'.nextSectorsBuffered = 0
    BY DEF IInv, Typed, Stop, Run, IsRec, Fields
<1>3. Numbers(cdvd')
    BY <1>1, <1>2 DEF IInv, Typed, Numbers, Keeps, Fields
<1>4. /\ "Cdvd" \in events' /\ ("CdvdRead" \in events' => "CdvdRead" \in events)
      /\ owed' = owed + 1 /\ NoRead /\ Accepts /\ HasDisc /\ UNCHANGED <<discVars, clash>>
    BY DEF Stop, Run, discVars
<1>5. Keeps(cdvd, cdvd', {"Ready", "Status", "Action", "SeekToSector", "SectorCnt", "Reading",
                          "SeekCompleted", "CurrentRetryCnt", "Spinning",
                          "nextSectorsBuffered", "AbortRequested"})
    BY <1>1 DEF Keeps
<1> QED
    BY <1>2, <1>3, <1>4, <1>5, ActionStarts, SMTT(30)

LEMMA StandbySeekStep ==
    ASSUME IInv, StandbySeek
    PROVE  IInv'
<1>1. PICK lsn \in Lsns, action \in {"Standby", "Seek"} :
         LET c == IF action = "Seek" THEN [cdvd EXCEPT !.Action = "Seek"] ELSE cdvd
             s == StartSeek(c, lsn, FALSE, FALSE)
         IN Run([s.cdvd EXCEPT !.Status = "SEEK", !.Action = action], s.events \cup {"Cdvd"})
    BY Zenon DEF StandbySeek
<1> DEFINE c == IF action = "Seek" THEN [cdvd EXCEPT !.Action = "Seek"] ELSE cdvd
           s == StartSeek(c, lsn, FALSE, FALSE)
           d == s.cdvd
<1>2. Keeps(cdvd, c, {"Action"})
    BY DEF IInv, Typed, Keeps, IsRec, Fields
<1>3. Run([d EXCEPT !.Status = "SEEK", !.Action = action], s.events \cup {"Cdvd"})
    BY <1>1
<1> HIDE DEF c
<1>4. IsRec(c) /\ Numbers(c) /\ lsn \in Int
    BY <1>2 DEF IInv, Typed, Numbers, Keeps, Fields, Lsns
<1>5. /\ Keeps(c, d, {"Ready", "Status", "SeekToSector", "Reading", "SeekCompleted",
                      "CurrentRetryCnt", "Spinning", "nextSectorsBuffered"})
      /\ d.Ready = "busy" /\ d.SeekToSector = lsn
      /\ d.CurrentRetryCnt \in Nat /\ d.nextSectorsBuffered \in Nat
      /\ s.events \ {"SectorReady"} = events \ {"SectorReady"}
  <2>1. Sought(c, lsn, s)
      BY <1>4, StartSeekFacts, ZenonT(30)
  <2> HIDE DEF s
  <2> QED
      BY <2>1 DEF Sought
<1> HIDE DEF s, d
<1>6. Keeps(d, cdvd', {"Status", "Action", "AbortRequested"})
    BY <1>3, <1>5, Zenon DEF Run, Keeps, IsRec, Fields
<1>7. cdvd'.Status = "SEEK" /\ cdvd'.Ready = "busy"
    BY <1>3, <1>5 DEF Run, Keeps, IsRec, Fields
<1>8. Keeps(cdvd, cdvd', {"Ready", "Status", "Action", "SeekToSector", "SectorCnt", "Reading",
                          "SeekCompleted", "CurrentRetryCnt", "Spinning",
                          "nextSectorsBuffered", "AbortRequested"})
    BY <1>2, <1>5, <1>6 DEF Keeps
<1>9. Numbers(cdvd')
    BY <1>4, <1>5, <1>6 DEF Numbers, Keeps, Fields
<1>10. "Cdvd" \in events' /\ ("CdvdRead" \in events' => "CdvdRead" \in events)
    BY <1>3, <1>5 DEF Run
<1>11. /\ owed' = owed + 1 /\ NoRead /\ Accepts /\ HasDisc /\ UNCHANGED <<discVars, clash>>
    BY <1>3 DEF StandbySeek, Run, discVars
<1> QED
    BY <1>7, <1>8, <1>9, <1>10, <1>11, ActionStarts, SMTT(30)

LEMMA ReadStep ==
    ASSUME IInv, Read
    PROVE  IInv'
<1>1. PICK lsn \in Lsns, cnt \in 0..MaxCnt, sp \in Speeds, param, checked \in BOOLEAN :
         LET c == [cdvd EXCEPT !.SeekToSector = lsn, !.SectorCnt = cnt]
             bad == param \/ (checked /\ (cnt <= 0 \/ lsn >= cdvd.MaxSector))
             start == StartSeek(c, lsn, sp.clv, sp.change)
         IN /\ ~checked => cdvd.DiscType \notin DVDs
            /\ bad => ~sp.clv
            /\ param => checked
            /\ IF bad
               THEN /\ Run([c EXCEPT !.Ready = "busy", !.Status = "SEEK", !.Action = "Error"],
                           events \cup {"Cdvd"})
                    /\ NoRead /\ UNCHANGED track
               ELSE /\ Run([start.cdvd EXCEPT !.ReadErr = ReadErr, !.Reading = TRUE],
                           start.events \cup {"CdvdRead"})
                    /\ track' = lsn /\ done' = "no" /\ got' = <<>>
                    /\ cmd' = [disc |-> source, lsn |-> lsn, cnt |-> cnt]
                    /\ UNCHANGED missing
    BY ZenonT(30) DEF Read
<1> DEFINE c == [cdvd EXCEPT !.SeekToSector = lsn, !.SectorCnt = cnt]
           bad == param \/ (checked /\ (cnt <= 0 \/ lsn >= cdvd.MaxSector))
           s == StartSeek(c, lsn, sp.clv, sp.change)
           d == s.cdvd
<1>2. Keeps(cdvd, c, {"SeekToSector", "SectorCnt"}) /\ c.SeekToSector = lsn /\ c.SectorCnt = cnt
    BY Zenon DEF IInv, Typed, Keeps, IsRec, Fields
<1>3. IsRec(c) /\ Numbers(c) /\ lsn \in Int /\ cnt \in Nat
  <2>1. lsn \in Int /\ cnt \in Nat
      BY DEF Lsns
  <2> QED
      BY <1>2, <2>1 DEF IInv, Typed, Numbers, Keeps, Fields
<1>4. Accepts /\ HasDisc
    BY DEF Read
<1>5. CASE bad
  <2>1. /\ Run([c EXCEPT !.Ready = "busy", !.Status = "SEEK", !.Action = "Error"],
               events \cup {"Cdvd"})
        /\ NoRead /\ UNCHANGED track
      BY <1>1, <1>5, SMTT(30)
  <2> HIDE DEF c
  <2>2. Keeps(c, cdvd', {"Ready", "Status", "Action", "AbortRequested"})
      BY <1>3, <2>1, Zenon DEF Run, Keeps, IsRec, Fields
  <2>3. cdvd'.Ready = "busy" /\ cdvd'.Status = "SEEK"
      BY <1>3, <2>1 DEF Run, IsRec, Fields
  <2>4. Keeps(cdvd, cdvd', {"Ready", "Status", "Action", "SeekToSector", "SectorCnt", "Reading",
                            "SeekCompleted", "CurrentRetryCnt", "Spinning",
                            "nextSectorsBuffered", "AbortRequested"})
      BY <1>2, <2>2 DEF Keeps
  <2>5. Numbers(cdvd')
      BY <1>3, <2>2 DEF Numbers, Keeps, Fields
  <2>6. /\ "Cdvd" \in events' /\ ("CdvdRead" \in events' => "CdvdRead" \in events)
        /\ owed' = owed + 1 /\ NoRead /\ UNCHANGED <<discVars, clash>>
      BY <2>1 DEF Run, discVars
  <2> QED
      BY <1>4, <2>3, <2>4, <2>5, <2>6, ActionStarts
<1>6. CASE ~bad
  <2>1. /\ Run([d EXCEPT !.ReadErr = ReadErr, !.Reading = TRUE], s.events \cup {"CdvdRead"})
        /\ track' = lsn /\ done' = "no" /\ got' = <<>>
        /\ cmd' = [disc |-> source, lsn |-> lsn, cnt |-> cnt]
        /\ UNCHANGED missing
      BY <1>1, <1>6
  <2> HIDE DEF c
  <2>2. /\ Keeps(c, d, {"Ready", "Status", "SeekToSector", "Reading", "SeekCompleted",
                        "CurrentRetryCnt", "Spinning", "nextSectorsBuffered"})
        /\ d.Ready = "busy" /\ d.Status \in {"READ", "SEEK"}
        /\ d.SeekToSector = lsn /\ (d.SeekCompleted => c.CurrentSector = lsn)
        /\ d.CurrentRetryCnt \in Nat /\ d.nextSectorsBuffered \in Nat
        /\ s.events \ {"SectorReady"} = events \ {"SectorReady"}
        /\ c.Action # "Seek" /\ d.nextSectorsBuffered = 0 => "SectorReady" \in s.events
    <3>1. Sought(c, lsn, s)
        BY <1>3, StartSeekFacts, SMTT(30)
    <3> HIDE DEF s
    <3> QED
        BY <3>1 DEF Sought
  <2> HIDE DEF s, d
  <2>3. Keeps(d, cdvd', {"ReadErr", "Reading", "AbortRequested"}) /\ cdvd'.Reading = TRUE
      BY <2>1, <2>2, Zenon DEF Run, Keeps, IsRec, Fields
  <2>4. /\ Keeps(cdvd, cdvd', {"Ready", "Status", "SeekToSector", "SectorCnt", "Reading",
                               "SeekCompleted", "CurrentRetryCnt", "Spinning", "ReadErr",
                               "nextSectorsBuffered", "AbortRequested"})
      BY <1>2, <2>2, <2>3 DEF Keeps
  <2>5. /\ cdvd'.Ready = "busy" /\ cdvd'.Status \in {"READ", "SEEK"} /\ cdvd'.Reading
        /\ cdvd'.SeekToSector = lsn /\ (cdvd'.SeekCompleted => cdvd'.CurrentSector = lsn)
        /\ cdvd'.SectorCnt = cnt /\ cdvd'.CurrentRetryCnt \in Nat
        /\ cdvd'.nextSectorsBuffered \in Nat
        /\ cdvd.Action # "Seek" /\ cdvd'.nextSectorsBuffered = 0 => "SectorReady" \in s.events
      BY <1>2, <2>2, <2>3 DEF Keeps, Fields
  <2>6. /\ \A e \in {"Cdvd"} : e \in events' => e \in events
        /\ "CdvdRead" \in events' /\ s.events \subseteq events'
      BY <2>1, <2>2 DEF Run
  <2>7. /\ owed' = owed + 1 /\ UNCHANGED <<source, transfer, clash>>
        /\ cmd'.disc = source /\ cmd'.lsn = lsn /\ cmd'.cnt = cnt /\ lsn \in Int /\ cnt \in Nat
        /\ track' = lsn /\ done' = "no" /\ got' = <<>>
      BY <1>3, <2>1 DEF Run
  <2>8. Typed'
      BY <2>4, <2>5, <2>6, <2>7, SMTT(30) DEF IInv, Typed, Numbers, Keeps, Fields
  <2>9. Known'
      BY <2>4, <2>5, <2>6, <2>7 DEF IInv, Known, Keeps, Fields
  <2>10. ASSUME ~clash'
        PROVE  (OneCommand /\ TrayQuiet /\ ReadPosition /\ Delivered /\ GoesOn)'
    <3>1. OneCommand /\ TrayQuiet /\ ReadPosition /\ Delivered /\ GoesOn
        BY <2>4, <2>5, <2>6, <2>7, <2>10 DEF IInv
    <3>2. /\ ~Pending /\ ~Reads /\ owed = 0 /\ cdvd.Action = "None" /\ cdvd.Status # "TRAY_OPEN"
          /\ source \in Discs
        /\ cdvd.trayState \notin {"DETECTING", "SEEKING", "EJECT"}
        BY <1>4, <2>7, <2>10, CommandFacts
    <3>3. OneCommand'
        BY <2>4, <2>5, <2>6, <2>7, <3>1, <3>2 DEF OneCommand, Pending, Reads, Keeps, Fields
    <3>4. TrayQuiet'
        BY <2>4, <2>5, <2>6, <2>7, <3>1, <3>2, CdvdAssumption
        DEF TrayQuiet, Working, Keeps, Fields
    <3>5. ReadPosition'
        BY <2>4, <2>5, <2>6, <2>7, <3>1, <3>2 DEF ReadPosition, Reads, Here, Keeps, Fields
    <3>6. Delivered'
        BY <2>4, <2>5, <2>6, <2>7, <3>1, <3>2 DEF Delivered, Keeps, Fields
    <3>7. GoesOn'
        BY <2>4, <2>5, <2>6, <2>7, <3>1, <3>2 DEF GoesOn, Pending, Reads, GaveUp, Keeps, Fields
    <3> QED
        BY <3>3, <3>4, <3>5, <3>6, <3>7
  <2> QED
      BY <2>8, <2>9, <2>10 DEF IInv
<1> QED
    BY <1>5, <1>6

\* Between commands, the tray moving or not.
AtRest ==
    /\ events = {} /\ ~cdvd.WaitingDMA /\ owed = 0 /\ cdvd.Action = "None"
    /\ cdvd.Status = "TRAY_OPEN" => cdvd.Ready = "none"
    /\ cdvd.Status # "TRAY_OPEN" =>
          cdvd.trayState # "EJECT" /\ cdvd.DiscType \in {source, NoDisc}
    /\ cdvd.trayState \in {"DETECTING", "SEEKING"} => cdvd.Ready # "ready"
    /\ cdvd.Ready = "busy" => GaveUp \/ cdvd.seconds > 0
    /\ Delivered

LEMMA ComesToRest ==
    ASSUME AtRest'
    PROVE  (OneCommand /\ TrayQuiet /\ ReadPosition /\ Delivered /\ GoesOn)'
BY DEF AtRest, OneCommand, TrayQuiet, ReadPosition, GoesOn, Pending, Reads, Working

LEMMA NotWorking ==
    ASSUME IInv, ~clash, ~Working
    PROVE  /\ ~Pending /\ ~Reads /\ events = {} /\ ~cdvd.WaitingDMA
           /\ owed = 0 /\ cdvd.Action = "None"
BY DEF IInv, OneCommand, Pending, Reads, Working

LEMMA MovedFacts ==
    ASSUME Move
    PROVE  Delivered' /\ got' \in Seq(Sectors) /\ cmd'.cnt \in Nat /\ cmd'.lsn \in Int
BY DEF Move, NoRead, NoCmd, Delivered

LEMMA TrayCtrlStep ==
    ASSUME IInv, TrayCtrl
    PROVE  IInv'
<1>1. /\ Move /\ UNCHANGED <<events, discVars, owed>> /\ cdvd' # cdvd
      /\ ~clash' => ~clash /\ (cdvd.Status # "TRAY_OPEN" => ~Working)
      /\ \/ cdvd' = TrayOpen(cdvd, source)
         \/ \E skip \in BOOLEAN : cdvd' = TrayClose(cdvd, source, skip)
  <2>1. /\ Move /\ UNCHANGED <<events, discVars, owed>> /\ cdvd' # cdvd
      BY DEF TrayCtrl
  <2>2. CASE /\ cdvd' = TrayOpen(cdvd, source)
             /\ clash' = (clash \/ (Working /\ cdvd.Status # "TRAY_OPEN"))
      BY <2>1, <2>2, Zenon
  <2>3. CASE /\ \E skip \in BOOLEAN : cdvd' = TrayClose(cdvd, source, skip)
             /\ UNCHANGED clash
    <3>1. cdvd.Status = "TRAY_OPEN"
        BY <2>1, <2>3 DEF TrayClose
    <3> QED
        BY <2>1, <2>3, <3>1
  <2> QED
      BY <2>2, <2>3 DEF TrayCtrl
<1>2. \/ cdvd.Status # "TRAY_OPEN" /\ Opened(cdvd, source, cdvd')
      \/ cdvd.Status = "TRAY_OPEN" /\ Closed(cdvd, source, cdvd')
  <2>1. IsRec(cdvd)
      BY DEF IInv, Typed
  <2>2. CASE cdvd.Status = "TRAY_OPEN"
    <3>1. TrayOpen(cdvd, source) = cdvd
        BY <2>2 DEF TrayOpen
    <3>2. PICK skip \in BOOLEAN : cdvd' = TrayClose(cdvd, source, skip)
        BY <1>1, <3>1
    <3> QED
        BY <2>1, <2>2, <3>2, TrayCloseFacts
  <2>3. CASE cdvd.Status # "TRAY_OPEN"
    <3>1. \A skip \in BOOLEAN : TrayClose(cdvd, source, skip) = cdvd
        BY <2>3 DEF TrayClose
    <3>2. cdvd' = TrayOpen(cdvd, source)
        BY <1>1, <3>1
    <3> QED
        BY <2>1, <2>3, <3>2, TrayOpenFacts
  <2> QED
      BY <2>2, <2>3
<1>3. Keeps(cdvd, cdvd', {"DiscType", "MaxSector", "Ready", "Status", "Spinning", "trayState",
                          "seconds", "AbortRequested"})
    BY <1>2 DEF Opened, Closed, Keeps
<1>4. /\ cdvd'.DiscType = source /\ (source # NoDisc => cdvd'.MaxSector = Size[source])
      /\ \/ cdvd'.Status = "TRAY_OPEN" /\ cdvd'.Ready = "none" /\ cdvd'.seconds = cdvd.seconds
         \/ /\ cdvd'.Ready = "ready" /\ cdvd'.Status = "PAUSE" /\ cdvd'.trayState = "ENGAGED"
            /\ cdvd'.seconds = 0
         \/ /\ cdvd'.Ready = "busy" /\ cdvd'.Status = "STOP" /\ cdvd'.trayState = "DETECTING"
            /\ cdvd'.seconds = Stage
    BY <1>2 DEF Opened, Closed, Keeps, Fields
<1>5. Typed'
  <2>1. cdvd'.seconds \in Nat
      BY <1>4, CdvdAssumption DEF IInv, Typed, Numbers
  <2>2. IsRec(cdvd') /\ Numbers(cdvd')
      BY <1>3, <2>1 DEF IInv, Typed, Numbers, Keeps, Fields
  <2> QED
      BY <1>1, <2>2, MovedFacts DEF IInv, Typed, discVars
<1>6. Known'
    BY <1>1, <1>4 DEF Known, discVars
<1>7. ASSUME ~clash'
      PROVE  AtRest'
  <2>1. ~clash /\ ~Working
      BY <1>1, <1>7 DEF IInv, TrayQuiet
  <2>2. events = {} /\ ~cdvd.WaitingDMA /\ owed = 0 /\ cdvd.Action = "None"
      BY <2>1, NotWorking
  <2> QED
      BY <1>1, <1>3, <1>4, <2>2, MovedFacts, CdvdAssumption DEF AtRest, Keeps, Fields, discVars
<1> QED
    BY <1>5, <1>6, <1>7, ComesToRest DEF IInv

LEMMA EjectStep ==
    ASSUME IInv, Eject
    PROVE  IInv'
<1> DEFINE o == TrayOpen(cdvd, source)
<1>1. /\ cdvd' = [o EXCEPT !.trayState = "OPEN", !.seconds = 1]
      /\ Move /\ UNCHANGED <<events, track, transfer, owed>> /\ source' = NoDisc
      /\ ~clash' => ~clash /\ ~Working
    BY Zenon DEF Eject
<1>2. \/ cdvd.Status # "TRAY_OPEN" /\ Opened(cdvd, source, o)
      \/ cdvd.Status = "TRAY_OPEN" /\ o = cdvd
    BY TrayOpenFacts, ZenonT(30) DEF IInv, Typed, TrayOpen
<1> HIDE DEF o
<1>3.
      /\ Keeps(cdvd, o, {"DiscType", "MaxSector", "Ready", "Status", "Spinning", "AbortRequested"})
      /\ o.Status = "TRAY_OPEN" /\ o.Ready \in {"none", cdvd.Ready}
      /\ cdvd.Status # "TRAY_OPEN" => o.Ready = "none"
    BY <1>2, SMTT(30) DEF IInv, Typed, Opened, Keeps
<1>4. /\ Keeps(o, cdvd', {"trayState", "seconds"})
      /\ cdvd'.trayState = "OPEN" /\ cdvd'.seconds = 1
    BY <1>1, <1>3, Zenon DEF Keeps, IsRec, Fields
<1>5. Keeps(cdvd, cdvd', {"DiscType", "MaxSector", "Ready", "Status", "Spinning", "trayState",
                          "seconds", "AbortRequested"})
    BY <1>3, <1>4 DEF Keeps
<1>6. cdvd'.Status = "TRAY_OPEN" /\ cdvd'.Ready = o.Ready
    BY <1>3, <1>4 DEF Keeps, Fields
<1>7. Typed'
  <2>1. IsRec(cdvd') /\ Numbers(cdvd')
      BY <1>4, <1>5 DEF IInv, Typed, Numbers, Keeps, Fields
  <2> QED
      BY <1>1, <2>1, MovedFacts DEF IInv, Typed
<1>8. Known'
    BY <1>4 DEF Known
<1>9. ASSUME ~clash'
      PROVE  AtRest'
  <2>1. /\ events = {} /\ ~cdvd.WaitingDMA /\ owed = 0 /\ cdvd.Action = "None"
      BY <1>1, <1>9, NotWorking
  <2>2. cdvd'.Ready = "none"
      BY <1>1, <1>3, <1>6, <1>9 DEF IInv, TrayQuiet
  <2> QED
      BY <1>1, <1>4, <1>5, <1>6, <2>1, <2>2, MovedFacts DEF AtRest, Keeps, Fields
<1> QED
    BY <1>7, <1>8, <1>9, ComesToRest DEF IInv

LEMMA InsertStep ==
    ASSUME IInv, Insert
    PROVE  IInv'
<1> DEFINE c == [cdvd EXCEPT !.trayState = "OPEN", !.seconds = 1]
<1>1. PICK skip \in BOOLEAN : cdvd' = TrayClose(c, source', skip)
    BY DEF Insert
<1>2. /\ Move /\ UNCHANGED <<events, track, transfer, owed, clash>>
      /\ source = NoDisc /\ source' \in Discs
    BY SMTT(30) DEF Insert
<1>3. /\ Keeps(cdvd, c, {"trayState", "seconds"})
      /\ c.trayState = "OPEN" /\ c.seconds = 1
    BY ZenonT(30) DEF IInv, Typed, Keeps, IsRec, Fields
<1> HIDE DEF c
<1>4. IsRec(c) /\ c.Status = cdvd.Status
    BY <1>3 DEF Keeps, Fields
<1>5. \/ cdvd.Status = "TRAY_OPEN" /\ Closed(c, source', cdvd')
      \/ cdvd.Status # "TRAY_OPEN" /\ cdvd' = c
    BY <1>1, <1>4, TrayCloseFacts, Zenon DEF TrayClose
<1>6. Keeps(cdvd, cdvd', {"DiscType", "MaxSector", "Ready", "Status", "Spinning", "trayState",
                          "seconds"})
    BY <1>3, <1>5 DEF Closed, Keeps
<1>7. \/ /\ cdvd'.DiscType = source' /\ cdvd'.MaxSector = Size[source']
         /\ \/ /\ cdvd'.Ready = "ready" /\ cdvd'.Status = "PAUSE" /\ cdvd'.trayState = "ENGAGED"
               /\ cdvd'.seconds = 0
            \/ /\ cdvd'.Ready = "busy" /\ cdvd'.Status = "STOP" /\ cdvd'.trayState = "DETECTING"
               /\ cdvd'.seconds = Stage
      \/ /\ cdvd'.DiscType = cdvd.DiscType /\ cdvd.Status # "TRAY_OPEN"
         /\ cdvd'.Status = cdvd.Status
         /\ cdvd'.trayState = "OPEN" /\ cdvd'.seconds = 1
    BY <1>2, <1>3, <1>5, CdvdAssumption DEF Closed, Keeps, Fields
<1>8. Typed'
  <2>1. cdvd'.seconds \in Nat
      BY <1>7, CdvdAssumption
  <2> QED
      BY <1>2, <1>6, <2>1, MovedFacts, SMTT(30) DEF IInv, Typed, Numbers, Keeps, Fields
<1>9. Known'
    BY <1>7 DEF Known
<1>10. ASSUME ~clash'
       PROVE  AtRest'
  <2>1. ~clash /\ ~Working /\ (cdvd.Status # "TRAY_OPEN" => cdvd.DiscType = NoDisc)
      BY <1>2, <1>10 DEF IInv, TrayQuiet
  <2>2. events = {} /\ ~cdvd.WaitingDMA /\ owed = 0 /\ cdvd.Action = "None"
      BY <2>1, NotWorking
  <2> QED
      BY <1>2, <1>6, <1>7, <2>1, <2>2, MovedFacts, CdvdAssumption DEF AtRest, Keeps, Fields
<1> QED
    BY <1>8, <1>9, <1>10, ComesToRest DEF IInv

LEMMA TickStep ==
    ASSUME IInv, Tick
    PROVE  IInv'
<1> DEFINE c == [cdvd EXCEPT !.seconds = @ - 1]
           opened == TrayOpen(c, source)
<1>1. /\ cdvd.seconds > 0
      /\ UNCHANGED <<events, discVars, history>> /\ (~clash' => ~clash)
      /\ ~clash' /\ cdvd.Status # "TRAY_OPEN" /\ cdvd'.Status = "TRAY_OPEN" => ~Working
    BY ZenonT(30) DEF Tick
<1>2. \/ c.seconds > 0 /\ cdvd' = c
      \/ /\ c.seconds = 0 /\ c.trayState = "OPEN"
         /\ \/ cdvd' = opened
            \/ cdvd' = [opened EXCEPT !.seconds = Stage, !.trayState = "EJECT"]
      \/ /\ c.seconds = 0 /\ c.trayState = "EJECT"
         /\ \E skip \in BOOLEAN : cdvd' = TrayClose(c, source, skip)
      \/ /\ c.seconds = 0 /\ c.trayState = "DETECTING"
         /\ cdvd' = [c EXCEPT !.trayState = "SEEKING", !.Status = "SEEK", !.seconds = Stage]
      \/ /\ c.seconds = 0 /\ c.trayState = "SEEKING"
         /\ cdvd' = [c EXCEPT !.Spinning = TRUE, !.trayState = "ENGAGED",
                              !.Ready = "ready", !.Status = "PAUSE"]
    BY DEF Tick
<1>3. Keeps(cdvd, c, {"seconds"}) /\ c.seconds \in Nat
  <2>1. Keeps(cdvd, c, {"seconds"}) /\ c.seconds = cdvd.seconds - 1
      BY DEF IInv, Typed, Keeps, IsRec, Fields
  <2> QED
      BY <1>1, <2>1 DEF IInv, Typed, Numbers
<1> HIDE DEF c
<1>4. IsRec(c) /\ Numbers(c)
    BY <1>3 DEF IInv, Typed, Numbers, Keeps, Fields
<1>5. /\ c.Status = cdvd.Status /\ c.Ready = cdvd.Ready /\ c.DiscType = cdvd.DiscType
      /\ c.trayState = cdvd.trayState /\ c.MaxSector = cdvd.MaxSector
    BY <1>3 DEF Keeps, Fields
<1>6. CASE c.seconds > 0 /\ cdvd' = c
  <2>1. Keeps(cdvd, cdvd', {"seconds"}) /\ cdvd'.seconds \in Nat /\ cdvd'.seconds > 0
      BY <1>3, <1>6
  <2>2. Typed'
      BY <1>1, <2>1 DEF IInv, Typed, Numbers, Keeps, Fields, discVars, history
  <2>3. Known'
      BY <1>1, <2>1 DEF IInv, Known, Keeps, Fields, discVars
  <2>4. ASSUME ~clash'
        PROVE  (OneCommand /\ TrayQuiet /\ ReadPosition /\ Delivered /\ GoesOn)'
    <3>1. OneCommand /\ TrayQuiet /\ ReadPosition /\ Delivered /\ GoesOn
        BY <1>1, <2>1, <2>4 DEF IInv
    <3>2. OneCommand'
        BY <1>1, <2>1, <3>1 DEF OneCommand, Pending, Reads, Keeps, Fields, history
    <3>3. TrayQuiet'
        BY <1>1, <2>1, <3>1 DEF TrayQuiet, Working, Keeps, Fields, discVars
    <3>4. ReadPosition'
        BY <1>1, <2>1, <3>1 DEF ReadPosition, Reads, Here, Keeps, Fields, discVars, history
    <3>5. Delivered'
        BY <1>1, <2>1, <3>1 DEF Delivered, Keeps, Fields, history
    <3>6. GoesOn'
        BY <1>1, <2>1, <3>1 DEF GoesOn, Pending, Reads, GaveUp, Keeps, Fields
    <3> QED
        BY <3>2, <3>3, <3>4, <3>5, <3>6
  <2> QED
      BY <2>2, <2>3, <2>4 DEF IInv
<1>7. ASSUME IsRec(cdvd'), Numbers(cdvd'), cdvd'.WaitingDMA = cdvd.WaitingDMA,
             cdvd'.Action = cdvd.Action, Known',
             ~clash' => /\ ~Working
                        /\ cdvd'.Status = "TRAY_OPEN" => cdvd'.Ready = "none"
                        /\ cdvd'.Status # "TRAY_OPEN" =>
                              cdvd'.trayState # "EJECT" /\ cdvd'.DiscType \in {source, NoDisc}
                        /\ cdvd'.trayState \in {"DETECTING", "SEEKING"} => cdvd'.Ready # "ready"
                        /\ cdvd'.Ready = "busy" => cdvd'.seconds > 0
      PROVE  IInv'
  <2>1. Typed'
      BY <1>1, <1>7 DEF IInv, Typed, history, discVars
  <2>2. ASSUME ~clash'
        PROVE  AtRest'
    <3>1. events = {} /\ ~cdvd.WaitingDMA /\ owed = 0 /\ cdvd.Action = "None"
        BY <1>1, <1>7, <2>2, NotWorking
    <3>2. Delivered'
        BY <1>1, <2>2 DEF IInv, Delivered, history
    <3> QED
        BY <1>1, <1>7, <2>2, <3>1, <3>2 DEF AtRest, history, discVars
  <2> QED
      BY <1>7, <2>1, <2>2, ComesToRest DEF IInv
<1>8. CASE /\ c.seconds = 0 /\ c.trayState = "OPEN"
           /\ \/ cdvd' = opened
              \/ cdvd' = [opened EXCEPT !.seconds = Stage, !.trayState = "EJECT"]
  <2>1. \/ c.Status # "TRAY_OPEN" /\ Opened(c, source, opened)
        \/ c.Status = "TRAY_OPEN" /\ opened = c
      BY <1>4, TrayOpenFacts, Zenon DEF TrayOpen
  <2> HIDE DEF opened
  <2>2. /\ Keeps(c, opened, {"DiscType", "MaxSector", "Ready", "Status", "Spinning",
                             "AbortRequested"})
        /\ opened.Status = "TRAY_OPEN" /\ (c.Status # "TRAY_OPEN" => opened.Ready = "none")
        /\ c.Status = "TRAY_OPEN" => opened.Ready = c.Ready
      BY <1>4, <2>1 DEF Opened, Keeps
  <2>3. Keeps(opened, cdvd', {"seconds", "trayState"})
      BY <1>8, <2>2, Zenon DEF Keeps, IsRec, Fields
  <2>4. cdvd'.trayState \in {"OPEN", "EJECT"} /\ cdvd'.seconds \in {0, Stage}
    <3>1. opened.trayState = "OPEN" /\ opened.seconds = 0
        BY <1>8, <2>2 DEF Keeps, Fields
    <3> QED
        BY <1>8, <2>2, <3>1, Zenon DEF Keeps, IsRec, Fields
  <2>5. cdvd'.Status = "TRAY_OPEN" /\ cdvd'.Ready = opened.Ready
      BY <2>2, <2>3 DEF Keeps, Fields
  <2>6. Keeps(cdvd, cdvd', {"DiscType", "MaxSector", "Ready", "Status", "Spinning",
                            "AbortRequested", "seconds", "trayState"})
      BY <1>3, <2>2, <2>3 DEF Keeps
  <2>7. IsRec(cdvd') /\ Numbers(cdvd')
    <3>1. cdvd'.seconds \in Nat
        BY <2>4, CdvdAssumption
    <3> QED
        BY <2>6, <3>1 DEF IInv, Typed, Numbers, Keeps, Fields
  <2>8. cdvd'.WaitingDMA = cdvd.WaitingDMA /\ cdvd'.Action = cdvd.Action
      BY <2>6 DEF Keeps, Fields
  <2>9. Known'
      BY <2>4 DEF Known
  <2>10. ASSUME ~clash'
         PROVE  ~Working /\ cdvd'.Ready = "none"
      BY <1>1, <1>5, <2>2, <2>5, <2>10 DEF IInv, TrayQuiet
  <2> QED
      BY <1>7, <2>4, <2>5, <2>7, <2>8, <2>9, <2>10, SMTT(30)
<1>9. CASE /\ c.seconds = 0 /\ c.trayState = "EJECT"
           /\ \E skip \in BOOLEAN : cdvd' = TrayClose(c, source, skip)
  <2>1. PICK skip \in BOOLEAN : cdvd' = TrayClose(c, source, skip)
      BY <1>9, SMTT(30)
  <2>2. \/ c.Status = "TRAY_OPEN" /\ Closed(c, source, cdvd')
        \/ c.Status # "TRAY_OPEN" /\ cdvd' = c
      BY <1>4, <2>1, TrayCloseFacts, Zenon DEF TrayClose
  <2>3. Keeps(cdvd, cdvd', {"DiscType", "MaxSector", "Ready", "Status", "Spinning", "trayState",
                            "seconds"})
      BY <1>3, <2>2 DEF Closed, Keeps
  <2>4. \/ c.Status # "TRAY_OPEN" /\ cdvd' = c
        \/ /\ cdvd'.DiscType = source /\ (source # NoDisc => cdvd'.MaxSector = Size[source])
           /\ \/ /\ cdvd'.Ready = "ready" /\ cdvd'.Status = "PAUSE"
                 /\ cdvd'.trayState = "ENGAGED" /\ cdvd'.seconds = 0
              \/ /\ cdvd'.Ready = "busy" /\ cdvd'.Status = "STOP"
                 /\ cdvd'.trayState = "DETECTING" /\ cdvd'.seconds = Stage
      BY <2>2 DEF Closed
  <2>5. IsRec(cdvd') /\ Numbers(cdvd')
    <3>1. cdvd'.seconds \in Nat
        BY <1>3, <2>4, CdvdAssumption
    <3> QED
        BY <2>3, <3>1 DEF IInv, Typed, Numbers, Keeps, Fields
  <2>6. cdvd'.WaitingDMA = cdvd.WaitingDMA /\ cdvd'.Action = cdvd.Action
      BY <2>3 DEF Keeps, Fields
  <2>7. Known'
      BY <1>1, <1>9, <2>4 DEF Known, discVars
  <2>8. ASSUME ~clash'
        PROVE  ~Working /\ c.Status = "TRAY_OPEN"
      BY <1>1, <1>5, <1>9, <2>8 DEF IInv, TrayQuiet
  <2> QED
      BY <1>7, <2>4, <2>5, <2>6, <2>7, <2>8, CdvdAssumption
<1>10. CASE /\ c.seconds = 0 /\ c.trayState \in {"DETECTING", "SEEKING"}
            /\ \/ /\ c.trayState = "DETECTING"
                  /\ cdvd' = [c EXCEPT !.trayState = "SEEKING", !.Status = "SEEK",
                                       !.seconds = Stage]
               \/ cdvd' = [c EXCEPT !.Spinning = TRUE, !.trayState = "ENGAGED",
                                    !.Ready = "ready", !.Status = "PAUSE"]
  <2>1. Keeps(c, cdvd', {"Ready", "Status", "Spinning", "trayState", "seconds"})
      BY <1>4, <1>10, Zenon DEF Keeps, IsRec, Fields
  <2>2. \/ /\ cdvd'.trayState = "SEEKING" /\ cdvd'.Status = "SEEK" /\ cdvd'.seconds = Stage
           /\ cdvd'.Ready = c.Ready
        \/ /\ cdvd'.trayState = "ENGAGED" /\ cdvd'.Status = "PAUSE" /\ cdvd'.seconds = 0
           /\ cdvd'.Ready = "ready"
      BY <1>4, <1>10, ZenonT(30) DEF IsRec, Fields
  <2>3. IsRec(cdvd') /\ Numbers(cdvd')
    <3>1. cdvd'.seconds \in Nat
        BY <2>2, CdvdAssumption
    <3> QED
        BY <1>4, <2>1, <3>1 DEF Numbers, Keeps, Fields
  <2>4. /\ cdvd'.WaitingDMA = cdvd.WaitingDMA /\ cdvd'.Action = cdvd.Action
        /\ cdvd'.DiscType = cdvd.DiscType /\ cdvd'.MaxSector = cdvd.MaxSector
      BY <1>3, <2>1 DEF Keeps, Fields
  <2>5. /\ cdvd.DiscType = source /\ (source # NoDisc => cdvd.MaxSector = Size[source])
      BY <1>5, <1>10 DEF IInv, Known
  <2>6. Known'
      BY <1>1, <2>4, <2>5 DEF Known, discVars
  <2>7. ASSUME ~clash'
        PROVE  ~Working /\ c.Ready # "ready"
      BY <1>1, <1>5, <1>10, <2>7 DEF IInv, TrayQuiet
  <2> QED
      BY <1>7, <2>2, <2>3, <2>4, <2>5, <2>6, <2>7, CdvdAssumption
<1> QED
    BY <1>2, <1>6, <1>8, <1>9, <1>10

LEMMA ResetStep ==
    ASSUME IInv, Reset
    PROVE  IInv'
<1>1. PICK skip \in BOOLEAN : cdvd' = TrayClose(Zero, source, skip)
    BY DEF Reset
<1>2. Closed(Zero, source, cdvd')
  <2>1. IsRec(Zero) /\ Zero.Status = "TRAY_OPEN"
      BY DEF Zero, IsRec, Fields
  <2> QED
      BY <1>1, <2>1, TrayCloseFacts
<1>3. /\ Move /\ events' = {} /\ transfer' = None /\ owed' = 0 /\ UNCHANGED <<source, track>>
    BY DEF Reset
<1>4. Typed'
  <2>1. cdvd'.seconds \in Nat /\ Numbers(Zero)
    <3>1. cdvd'.seconds \in {0, Stage}
        BY <1>2 DEF Closed
    <3>2. Numbers(Zero)
        BY DEF Zero, Numbers
    <3> QED
        BY <3>1, <3>2, CdvdAssumption
  <2>2. IsRec(cdvd') /\ Numbers(cdvd')
      BY <1>2, <2>1 DEF Closed, Numbers, Keeps, Fields
  <2>3. None \in Sectors
      BY DEF None, Sectors
  <2> QED
      BY <1>3, <2>2, <2>3, MovedFacts DEF IInv, Typed
<1>5. Known'
    BY <1>2, <1>3, SMTT(30) DEF Known, Closed
<1>6. AtRest'
  <2>1. ~Zero.WaitingDMA /\ Zero.Action = "None"
      BY DEF Zero
  <2>2. ~cdvd'.WaitingDMA /\ cdvd'.Action = "None"
      BY <1>2, <2>1 DEF Closed, Keeps, Fields
  <2> QED
      BY <1>2, <1>3, <2>2, MovedFacts, CdvdAssumption DEF AtRest, Closed
<1> QED
    BY <1>4, <1>5, <1>6, ComesToRest DEF IInv

LEMMA InitHolds ==
    ASSUME Init
    PROVE  IInv
<1>1. PICK skip \in BOOLEAN : cdvd = TrayClose(Zero, source, skip)
    BY DEF Init
<1>2. Closed(Zero, source, cdvd)
  <2>1. IsRec(Zero) /\ Zero.Status = "TRAY_OPEN"
      BY DEF Zero, IsRec, Fields
  <2> QED
      BY <1>1, <2>1, TrayCloseFacts, SMTT(30)
<1>3. Typed
  <2>1. cdvd.seconds \in Nat /\ Numbers(Zero)
    <3>1. cdvd.seconds \in {0, Stage}
        BY <1>2 DEF Closed
    <3>2. Numbers(Zero)
        BY DEF Zero, Numbers
    <3> QED
        BY <3>1, <3>2, CdvdAssumption
  <2>2. IsRec(cdvd) /\ Numbers(cdvd)
      BY <1>2, <2>1 DEF Closed, Numbers, Keeps, Fields
  <2>3. None \in Sectors
      BY DEF None, Sectors
  <2> QED
      BY <2>2, <2>3, SMTT(30) DEF Init, Typed, NoCmd
<1>4. Known
    BY <1>2 DEF Known, Closed
<1>5. AtRest
  <2>1. ~Zero.WaitingDMA /\ Zero.Action = "None"
      BY DEF Zero
  <2>2. ~cdvd.WaitingDMA /\ cdvd.Action = "None"
      BY <1>2, <2>1 DEF Closed, Keeps, Fields
  <2>3. Delivered
      BY DEF Init, Delivered, NoCmd
  <2> QED
      BY <1>2, <2>2, <2>3, CdvdAssumption DEF Init, AtRest, Closed
<1>6. OneCommand /\ TrayQuiet /\ ReadPosition /\ Delivered /\ GoesOn
    BY <1>5 DEF AtRest, OneCommand, TrayQuiet, ReadPosition, GoesOn, Pending, Reads, Working
<1> QED
    BY <1>3, <1>4, <1>6 DEF IInv

---------------------------------------------------------------------------
(* cdvdReadInterrupt.  c is what it has made of cdvd so far: the drive is  *)
(* still running the read, and stands at the sector it is to deliver next. *)

Under(c) ==
    /\ IsRec(c) /\ Numbers(c)
    /\ c.DiscType = cdvd.DiscType /\ c.MaxSector = cdvd.MaxSector /\ c.trayState = cdvd.trayState
    /\ ~clash =>
         /\ ~c.WaitingDMA /\ c.Action = "None" /\ c.Status # "TRAY_OPEN"
         /\ c.trayState \notin {"DETECTING", "SEEKING", "EJECT"}
         /\ c.DiscType \in {source, NoDisc} /\ source \in Discs
         /\ owed = 1 /\ "Cdvd" \notin events
         /\ source = cmd.disc /\ done = "no" /\ cmd.cnt = Len(got) + c.SectorCnt

Stands(c) ==
    ~clash => /\ c.Ready = "busy" /\ c.SeekCompleted
              /\ c.CurrentSector = cmd.lsn + Len(got)
              /\ c.SectorCnt > 0 /\ c.nextSectorsBuffered = 0 => "SectorReady" \in events

LEMMA ReadEnds ==
    ASSUME IInv, NEW c, Under(c), c.Ready = "ready", NEW rest, rest \subseteq events \ {"CdvdRead"},
           NEW how, how = "ok" => c.SectorCnt = 0, EndRead(c, how, rest),
           track' \in Int, transfer' \in Sectors, UNCHANGED <<source, clash>>
    PROVE  IInv'
<1>1. Keeps(c, cdvd', {"AbortRequested"})
    BY Zenon DEF EndRead, SetIrq, Under, Keeps, IsRec, Fields
<1>2. /\ events' = rest /\ done' = how /\ owed' = owed - 1 /\ missing' = cmd.cnt - Len(got)
      /\ cmd' = NoCmd /\ got' = <<>>
    BY DEF EndRead
<1>3. Typed'
  <2>1. IsRec(cdvd') /\ Numbers(cdvd')
      BY <1>1 DEF Under, Keeps, Numbers, Fields
  <2> QED
      BY <1>2, <2>1 DEF IInv, Typed, NoCmd
<1>4. Known'
    BY <1>1 DEF IInv, Known, Under, Keeps, Fields
<1>5. ASSUME ~clash'
      PROVE  (OneCommand /\ TrayQuiet /\ ReadPosition /\ Delivered /\ GoesOn)'
  <2>1. /\ ~c.WaitingDMA /\ c.Action = "None" /\ c.Status # "TRAY_OPEN"
        /\ c.trayState \notin {"DETECTING", "SEEKING", "EJECT"}
        /\ c.DiscType \in {source, NoDisc} /\ source \in Discs
        /\ owed = 1 /\ "Cdvd" \notin events /\ cmd.cnt = Len(got) + c.SectorCnt
      BY <1>5 DEF Under
  <2>2. /\ ~cdvd'.WaitingDMA /\ cdvd'.Action = "None" /\ cdvd'.Status # "TRAY_OPEN"
        /\ cdvd'.trayState \notin {"DETECTING", "SEEKING", "EJECT"}
        /\ cdvd'.DiscType \in {source, NoDisc} /\ cdvd'.Ready = "ready"
      BY <1>1, <2>1 DEF Keeps, Fields
  <2>3. "Cdvd" \notin events' /\ "CdvdRead" \notin events'
      BY <1>2, <2>1
  <2>4. OneCommand'
      BY <1>2, <2>1, <2>2, <2>3 DEF OneCommand, Pending, Reads
  <2>5. TrayQuiet'
      BY <2>1, <2>2, CdvdAssumption DEF TrayQuiet
  <2>6. ReadPosition'
      BY <2>2, <2>3 DEF ReadPosition, Reads
  <2>7. Delivered'
    <3>1. how = "ok" => missing' = 0
        BY <1>2, <2>1 DEF IInv, Typed
    <3> QED
        BY <1>2, <3>1 DEF Delivered, NoCmd
  <2>8. GoesOn'
      BY <2>2, <2>3 DEF GoesOn
  <2> QED
      BY <2>4, <2>5, <2>6, <2>7, <2>8
<1> QED
    BY <1>3, <1>4, <1>5 DEF IInv

LEMMA ReadRetried ==
    ASSUME IInv, NEW c, Under(c), Stands(c), c.Reading, "CdvdRead" \in events,
           Retry(c, events \ {"CdvdRead"}), UNCHANGED <<source, clash>>
    PROVE  IInv'
<1> DEFINE n == c.CurrentRetryCnt + 1
<1>1. /\ Keeps(c, cdvd', {"CurrentRetryCnt", "ReadErr"})
      /\ cdvd'.CurrentRetryCnt = n
    BY Zenon DEF Retry, Under, Keeps, IsRec, Fields
<1>2. n \in Nat
    BY DEF Under, Numbers
<1>3. /\ UNCHANGED <<transfer, cmd, got, done, missing>>
      /\ \/ n <= RetryCntMax /\ events' = events /\ track' = c.CurrentSector /\ owed' = owed
         \/ /\ ~(n <= RetryCntMax) /\ events' = events \ {"CdvdRead"} /\ owed' = owed - 1
            /\ UNCHANGED track
    BY DEF Retry, Schedule
<1> HIDE DEF n
<1>4. n <= RetryCntMax \/ n > RetryCntMax
    BY <1>2, CdvdAssumption
<1>5. Typed'
  <2>1. IsRec(cdvd') /\ Numbers(cdvd')
      BY <1>1, <1>2 DEF Under, Keeps, Numbers, Fields
  <2>2. track' \in Int
      BY <1>3 DEF IInv, Typed, Under, Numbers
  <2> QED
      BY <1>3, <2>1, <2>2 DEF IInv, Typed
<1>6. Known'
    BY <1>1 DEF IInv, Known, Under, Keeps, Fields
<1>7. ASSUME ~clash'
      PROVE  (OneCommand /\ TrayQuiet /\ ReadPosition /\ Delivered /\ GoesOn)'
  <2>1. /\ ~c.WaitingDMA /\ c.Action = "None" /\ c.Status # "TRAY_OPEN"
        /\ c.trayState \notin {"DETECTING", "SEEKING", "EJECT"}
        /\ c.DiscType \in {source, NoDisc} /\ source \in Discs
        /\ owed = 1 /\ "Cdvd" \notin events
        /\ source = cmd.disc /\ done = "no" /\ cmd.cnt = Len(got) + c.SectorCnt
        /\ c.Ready = "busy" /\ c.SeekCompleted
        /\ c.CurrentSector = cmd.lsn + Len(got)
        /\ c.SectorCnt > 0 /\ c.nextSectorsBuffered = 0 => "SectorReady" \in events
      BY <1>7 DEF Under, Stands
  <2>2. /\ ~cdvd'.WaitingDMA /\ cdvd'.Action = "None" /\ cdvd'.Status # "TRAY_OPEN"
        /\ cdvd'.trayState \notin {"DETECTING", "SEEKING", "EJECT"}
        /\ cdvd'.DiscType \in {source, NoDisc} /\ cdvd'.Ready = "busy" /\ cdvd'.SeekCompleted
        /\ cdvd'.Reading /\ cdvd'.CurrentSector = c.CurrentSector
        /\ cdvd'.SectorCnt = c.SectorCnt
        /\ cdvd'.nextSectorsBuffered = c.nextSectorsBuffered
      BY <1>1, <2>1 DEF Keeps, Fields
  <2>3. OneCommand'
      BY <1>3, <2>1, <2>2 DEF OneCommand, Pending, Reads
  <2>4. TrayQuiet'
      BY <2>1, <2>2, CdvdAssumption, SMTT(30) DEF TrayQuiet
  <2>5. ReadPosition'
      BY <1>3, <2>1, <2>2 DEF ReadPosition, Reads, Here
  <2>6. Delivered'
      BY <1>3, <1>7, SMTT(30) DEF IInv, Delivered
  <2>7. GoesOn'
      BY <1>1, <1>3, <1>4, <2>1, <2>2 DEF GoesOn, GaveUp, Pending, Reads
  <2> QED
      BY <2>3, <2>4, <2>5, <2>6, <2>7
<1> QED
    BY <1>5, <1>6, <1>7 DEF IInv

LEMMA SectorWaits ==
    ASSUME IInv, NEW c, Under(c), Stands(c), ~c.Reading, c.SectorCnt > 0,
           NEW t \in Sectors, ~clash => t = <<source, c.CurrentSector>>,
           \/ /\ c.nextSectorsBuffered = 0 /\ cdvd' = c
              /\ "CdvdRead" \in events' /\ events \subseteq events'
           \/ /\ c.nextSectorsBuffered > 0
              /\ cdvd' = [c EXCEPT !.Status = "PAUSE", !.WaitingDMA = TRUE]
              /\ "CdvdRead" \notin events',
           "Cdvd" \in events' => "Cdvd" \in events,
           transfer' = t, track' = -1, UNCHANGED <<source, history, clash>>
    PROVE  IInv'
<1>1. /\ Keeps(c, cdvd', {"Status", "WaitingDMA"})
      /\ \/ cdvd' = c
         \/ cdvd'.Status = "PAUSE" /\ cdvd'.WaitingDMA = TRUE
    BY ZenonT(30) DEF Under, Keeps, IsRec, Fields
<1>2. Typed'
  <2>1. IsRec(cdvd') /\ Numbers(cdvd')
      BY <1>1 DEF Under, Keeps, Numbers, Fields
  <2> QED
      BY <2>1 DEF IInv, Typed, history
<1>3. Known'
    BY <1>1 DEF IInv, Known, Under, Keeps, Fields
<1>4. ASSUME ~clash'
      PROVE  (OneCommand /\ TrayQuiet /\ ReadPosition /\ Delivered /\ GoesOn)'
  <2>1. /\ ~c.WaitingDMA /\ c.Action = "None" /\ c.Status # "TRAY_OPEN"
        /\ c.trayState \notin {"DETECTING", "SEEKING", "EJECT"}
        /\ c.DiscType \in {source, NoDisc} /\ source \in Discs
        /\ owed = 1 /\ "Cdvd" \notin events
        /\ source = cmd.disc /\ done = "no" /\ cmd.cnt = Len(got) + c.SectorCnt
        /\ c.Ready = "busy" /\ c.SeekCompleted
        /\ c.CurrentSector = cmd.lsn + Len(got)
        /\ c.SectorCnt > 0 /\ c.nextSectorsBuffered = 0 => "SectorReady" \in events
        /\ t = <<source, c.CurrentSector>>
      BY <1>4 DEF Under, Stands
  <2>2. /\ cdvd'.Action = "None" /\ cdvd'.Status # "TRAY_OPEN"
        /\ cdvd'.trayState \notin {"DETECTING", "SEEKING", "EJECT"}
        /\ cdvd'.DiscType \in {source, NoDisc} /\ cdvd'.Ready = "busy" /\ cdvd'.SeekCompleted
        /\ ~cdvd'.Reading /\ cdvd'.CurrentSector = c.CurrentSector
        /\ cdvd'.SectorCnt = c.SectorCnt
        /\ cdvd'.nextSectorsBuffered = c.nextSectorsBuffered
      BY <1>1, <2>1 DEF Keeps, Fields
  <2>3. \/ ~cdvd'.WaitingDMA /\ "CdvdRead" \in events'
           /\ (c.nextSectorsBuffered = 0 => "SectorReady" \in events')
        \/ cdvd'.WaitingDMA /\ "CdvdRead" \notin events' /\ c.nextSectorsBuffered > 0
      BY <2>1, ZenonT(30) DEF Under, IsRec, Fields
  <2>4. OneCommand'
      BY <2>1, <2>2, <2>3 DEF OneCommand, Pending, Reads, history
  <2>5. TrayQuiet'
      BY <2>1, <2>2, CdvdAssumption DEF TrayQuiet
  <2>6. ReadPosition'
      BY <2>1, <2>2, <2>3 DEF ReadPosition, Reads, Here, history
  <2>7. Delivered'
      BY <1>4 DEF IInv, Delivered, history
  <2>8. GoesOn'
      BY <2>2, <2>3 DEF GoesOn, Pending, Reads
  <2> QED
      BY <2>4, <2>5, <2>6, <2>7, <2>8
<1> QED
    BY <1>2, <1>3, <1>4 DEF IInv

LEMMA SectorDelivered ==
    ASSUME IInv, NEW c, Under(c), Stands(c), ~c.Reading, c.SectorCnt > 0,
           c.nextSectorsBuffered > 0,
           NEW t \in Sectors, ~clash => t = <<source, c.CurrentSector>>,
           got' = Append(got, t), transfer' = None,
           {"SectorReady", "CdvdRead"} \subseteq events', "Cdvd" \in events' => "Cdvd" \in events,
           NEW moved, moved = [c EXCEPT !.nextSectorsBuffered = @ - 1, !.CurrentSector = @ + 1,
                                        !.SeekToSector = @ + 1, !.SectorCnt = @ - 1],
           \/ c.SectorCnt = 1 /\ cdvd' = moved /\ track' = -1
           \/ /\ c.SectorCnt # 1 /\ track' = c.CurrentSector + 1
             
              /\ cdvd' = [moved EXCEPT !.CurrentRetryCnt = 0, !.Reading = TRUE, !.ReadErr = ReadErr],
           UNCHANGED <<source, cmd, done, missing, owed, clash>>
    PROVE  IInv'
<1>1. /\ Keeps(c, moved, {"nextSectorsBuffered", "CurrentSector", "SeekToSector", "SectorCnt"})
      /\ moved.nextSectorsBuffered = c.nextSectorsBuffered - 1
      /\ moved.CurrentSector = c.CurrentSector + 1
      /\ moved.SeekToSector = c.SeekToSector + 1 /\ moved.SectorCnt = c.SectorCnt - 1
    BY ZenonT(30) DEF Under, Keeps, IsRec, Fields
<1>2. IsRec(moved) /\ Numbers(moved)
  <2>1. c.nextSectorsBuffered - 1 \in Nat /\ c.SectorCnt - 1 \in Nat
        /\ c.CurrentSector + 1 \in Int /\ c.SeekToSector + 1 \in Int
      BY SMTT(30) DEF Under, Numbers
  <2> QED
      BY <1>1, <2>1 DEF Under, Keeps, Numbers, Fields
<1>3. /\ Keeps(moved, cdvd', {"CurrentRetryCnt", "Reading", "ReadErr"})
      /\ cdvd'.CurrentRetryCnt \in {0, moved.CurrentRetryCnt}
      /\ \/ c.SectorCnt = 1 /\ cdvd'.Reading = moved.Reading /\ track' = -1
         \/ c.SectorCnt # 1 /\ cdvd'.Reading = TRUE /\ track' = c.CurrentSector + 1
    BY <1>2, ZenonT(30) DEF Keeps, IsRec, Fields
<1>4. IsRec(cdvd') /\ Numbers(cdvd')
  <2>1. /\ cdvd'.CurrentSector = moved.CurrentSector /\ cdvd'.SeekToSector = moved.SeekToSector
        /\ cdvd'.SectorCnt = moved.SectorCnt /\ cdvd'.seconds = moved.seconds
        /\ cdvd'.nextSectorsBuffered = moved.nextSectorsBuffered
      BY <1>3, Zenon DEF Keeps, Fields
  <2>2. cdvd'.CurrentRetryCnt \in Nat
      BY <1>2, <1>3 DEF Numbers
  <2>3. IsRec(cdvd')
      BY <1>3 DEF Keeps
  <2> QED
      BY <1>2, <2>1, <2>2, <2>3, Zenon DEF Numbers
<1>5. /\ got \in Seq(Sectors) /\ got' \in Seq(Sectors) /\ Len(got') = Len(got) + 1
      /\ \A i \in 1..Len(got) : got'[i] = got[i]
      /\ got'[Len(got) + 1] = t
    BY AppendProperties DEF IInv, Typed
<1>6. Typed'
  <2>1. track' \in Int /\ None \in Sectors
      BY <1>3 DEF Under, Numbers, None, Sectors
  <2> QED
      BY <1>4, <1>5, <2>1 DEF IInv, Typed
<1>7. Known'
    BY <1>1, <1>3 DEF IInv, Known, Under, Keeps, Fields
<1>8. ASSUME ~clash'
      PROVE  (OneCommand /\ TrayQuiet /\ ReadPosition /\ Delivered /\ GoesOn)'
  <2>1. /\ ~c.WaitingDMA /\ c.Action = "None" /\ c.Status # "TRAY_OPEN"
        /\ c.trayState \notin {"DETECTING", "SEEKING", "EJECT"}
        /\ c.DiscType \in {source, NoDisc} /\ source \in Discs
        /\ owed = 1 /\ "Cdvd" \notin events
        /\ source = cmd.disc /\ done = "no" /\ cmd.cnt = Len(got) + c.SectorCnt
        /\ c.Ready = "busy" /\ c.SeekCompleted
        /\ c.CurrentSector = cmd.lsn + Len(got)
        /\ c.SectorCnt > 0 /\ c.nextSectorsBuffered = 0 => "SectorReady" \in events
        /\ t = <<source, c.CurrentSector>>
      BY <1>8 DEF Under, Stands
  <2>2. /\ ~cdvd'.WaitingDMA /\ cdvd'.Action = "None" /\ cdvd'.Status # "TRAY_OPEN"
        /\ cdvd'.trayState \notin {"DETECTING", "SEEKING", "EJECT"}
        /\ cdvd'.DiscType \in {source, NoDisc} /\ cdvd'.Ready = "busy" /\ cdvd'.SeekCompleted
        /\ cdvd'.CurrentSector = c.CurrentSector + 1
        /\ cdvd'.SectorCnt = c.SectorCnt - 1
    <3>1. \A f \in Fields \ {"CurrentRetryCnt", "Reading", "ReadErr", "nextSectorsBuffered",
                            "CurrentSector", "SeekToSector", "SectorCnt"} : cdvd'[f] = c[f]
        BY <1>1, <1>3, Zenon DEF Keeps
    <3>2. cdvd'.CurrentSector = moved.CurrentSector /\ cdvd'.SectorCnt = moved.SectorCnt
        BY <1>3, Zenon DEF Keeps, Fields
    <3>3. /\ cdvd'.WaitingDMA = c.WaitingDMA /\ cdvd'.Action = c.Action /\ cdvd'.Status = c.Status
          /\ cdvd'.trayState = c.trayState /\ cdvd'.DiscType = c.DiscType
          /\ cdvd'.Ready = c.Ready /\ cdvd'.SeekCompleted = c.SeekCompleted
        BY <3>1, Zenon DEF Fields
    <3> QED
        BY <1>1, <2>1, <3>2, <3>3, Zenon
  <2>3. /\ Len(got) \in Nat /\ cmd.lsn \in Int /\ c.SectorCnt \in Nat /\ c.SectorCnt > 0
      BY <1>5 DEF IInv, Typed, Under, Numbers
  <2>4. /\ cmd.cnt = Len(got') + cdvd'.SectorCnt
        /\ cdvd'.CurrentSector = cmd.lsn + Len(got')
        /\ Len(got') <= cmd.cnt
    <3>1. ASSUME NEW l \in Nat, NEW n \in Nat, n > 0, NEW x \in Int
          PROVE  /\ l + n = (l + 1) + (n - 1) /\ (x + l) + 1 = x + (l + 1)
                 /\ l + 1 <= l + n
        BY <3>1
    <3>2. /\ Len(got) + c.SectorCnt = (Len(got) + 1) + (c.SectorCnt - 1)
          /\ (cmd.lsn + Len(got)) + 1 = cmd.lsn + (Len(got) + 1)
          /\ Len(got) + 1 <= Len(got) + c.SectorCnt
        BY <2>3, <3>1, Zenon
    <3>3. /\ Len(got') = Len(got) + 1 /\ cmd.cnt = Len(got) + c.SectorCnt
          /\ cdvd'.SectorCnt = c.SectorCnt - 1 /\ cdvd'.CurrentSector = (cmd.lsn + Len(got)) + 1
        BY <1>5, <2>1, <2>2, Zenon
    <3> QED
        BY <3>2, <3>3, Zenon
  <2>5. \/ cdvd'.SectorCnt = 0 /\ ~cdvd'.Reading
        \/ cdvd'.Reading /\ track' = cdvd'.CurrentSector
      BY <1>1, <1>3, <2>2, <2>3 DEF Keeps, Fields
  <2>6. OneCommand'
      BY <2>1, <2>2 DEF OneCommand, Pending, Reads
  <2>7. TrayQuiet'
      BY <2>1, <2>2, CdvdAssumption DEF TrayQuiet
  <2>8. ReadPosition'
      BY <2>1, <2>2, <2>4, <2>5 DEF ReadPosition, Reads, Here
  <2>9. Delivered'
    <3>1. \A i \in DOMAIN got : got[i] = <<cmd.disc, cmd.lsn + i - 1>>
        BY <1>8 DEF IInv, Delivered
    <3>2. ASSUME NEW i \in DOMAIN got'
          PROVE  got'[i] = <<cmd.disc, cmd.lsn + i - 1>>
      <4>1. i \in 1..Len(got) \/ i = Len(got) + 1
          BY <1>5, <2>3, <3>2
      <4>2. CASE i \in 1..Len(got)
          BY <1>5, <3>1, <4>2
      <4>3. CASE i = Len(got) + 1
        <5>1. cmd.lsn + i - 1 = c.CurrentSector
            BY <2>1, <2>3, <4>3
        <5> QED
            BY <1>5, <2>1, <4>3, <5>1
      <4> QED
          BY <4>1, <4>2, <4>3
    <3> QED
        BY <2>1, <2>4, <3>2 DEF Delivered
  <2>10. GoesOn'
      BY <2>2 DEF GoesOn, Pending, Reads
  <2> QED
      BY <2>6, <2>7, <2>8, <2>9, <2>10
<1> QED
    BY <1>6, <1>7, <1>8 DEF IInv

LEMMA SectorInTransfer ==
    ASSUME IInv, NEW c, Under(c), Stands(c), ~c.Reading, "CdvdRead" \in events,
           NEW t \in Sectors, ~clash /\ c.SectorCnt > 0 => t = <<source, c.CurrentSector>>,
           NEW rest, rest = events \ {"CdvdRead"},
           Deliver(c, t, rest) \/ NoDelivery(c, t, rest), UNCHANGED <<source, clash>>
    PROVE  IInv'
<1> DEFINE moved == [c EXCEPT !.nextSectorsBuffered = @ - 1, !.CurrentSector = @ + 1,
                              !.SeekToSector = @ + 1, !.SectorCnt = @ - 1]
           ended == [c EXCEPT !.Ready = "ready", !.Status = "PAUSE"]
<1>1. CASE Deliver(c, t, rest) /\ dma <= 0 /\ WaitForDma(c, t, rest)
    BY <1>1, SectorWaits, ZenonT(30) DEF Deliver, WaitForDma, history
<1>2. CASE Deliver(c, t, rest) /\ dma > 0 /\ ~(dma <= 0 /\ WaitForDma(c, t, rest))
  <2>1. /\ c.SectorCnt > 0 /\ c.nextSectorsBuffered > 0
        /\ UNCHANGED <<cmd, done, missing, owed>>
        /\ got' = Append(got, t) /\ transfer' = None
        /\ events' = rest \cup {"SectorReady", "CdvdRead"}
        /\ IF c.SectorCnt = 1
           THEN cdvd' = moved /\ track' = -1
           ELSE /\ cdvd' = [moved EXCEPT !.CurrentRetryCnt = 0, !.Reading = TRUE,
                                         !.ReadErr = ReadErr]
                /\ track' = c.CurrentSector + 1
      BY <1>2, Zenon DEF Deliver, Schedule
  <2>2. {"SectorReady", "CdvdRead"} \subseteq events' /\ ("Cdvd" \in events' => "Cdvd" \in events)
      BY <2>1
  <2> QED
      BY <2>1, <2>2, SectorDelivered, Zenon
<1>3. CASE NoDelivery(c, t, rest) /\ c.SectorCnt <= 0 /\ EndRead(ended, "ok", rest)
  <2>1. /\ Keeps(c, ended, {"Ready", "Status"}) /\ ended.Ready = "ready"
        /\ ended.Status = "PAUSE"
      BY ZenonT(30) DEF Under, Keeps, IsRec, Fields
  <2>2. track' = -1 /\ transfer' = t /\ EndRead(ended, "ok", rest)
      BY <1>3 DEF NoDelivery
  <2> HIDE DEF ended
  <2>3. Under(ended)
      BY <2>1, SMTT(30) DEF Under, Keeps, Numbers, Fields
  <2>4. ended.SectorCnt = 0
      BY <1>3, <2>1 DEF Under, Numbers, Keeps, Fields
  <2> QED
      BY <2>1, <2>2, <2>3, <2>4, ReadEnds, SMTT(30)
<1>4. CASE /\ NoDelivery(c, t, rest) /\ c.SectorCnt > 0 /\ c.nextSectorsBuffered = 0
           /\ cdvd' = c /\ Schedule({"CdvdRead"}, rest) /\ UNCHANGED <<dma, history>>
  <2>1. track' = -1 /\ transfer' = t
      BY <1>4 DEF NoDelivery
  <2> QED
      BY <1>4, <2>1, SectorWaits DEF Schedule
<1> QED
    BY <1>1, <1>2, <1>3, <1>4, SMTT(30) DEF Deliver, NoDelivery

LEMMA ReadInterruptStep ==
    ASSUME IInv, ReadInterrupt
    PROVE  IInv'
<1> DEFINE rest == events \ {"CdvdRead"}
           owes == cdvd.Reading /\ cdvd.SectorCnt <= 0
           busy == [cdvd EXCEPT !.Ready = "busy", !.Status = "READ", !.WaitingDMA = FALSE]
           c == IF cdvd.SeekCompleted THEN busy
                ELSE [busy EXCEPT !.Spinning = TRUE, !.CurrentRetryCnt = 0, !.Reading = TRUE,
                                  !.SeekCompleted = TRUE, !.CurrentSector = cdvd.SeekToSector]
           reads == ~owes /\ ~c.AbortRequested /\ c.CurrentSector < c.MaxSector
           buffer == [c EXCEPT !.Reading = FALSE, !.ReadErr = 0]
           sector == <<source, track>>
           owing == [cdvd EXCEPT !.Reading = FALSE, !.Ready = "ready",
                       !.Status = IF cdvd.nextSectorsBuffered < Buffer THEN "READ" ELSE "PAUSE"]
           aborted == [c EXCEPT !.Ready = "ready", !.Status = "PAUSE", !.nextSectorsBuffered = 0]
           ended == [c EXCEPT !.Ready = "ready", !.Status = "PAUSE"]
<1>1. /\ "CdvdRead" \in events /\ UNCHANGED <<source, clash>>
      /\ \/ owes /\ EndRead(owing, "ok", rest) /\ UNCHANGED <<track, transfer>>
         \/ EndRead(aborted, "abort", rest \ {"SectorReady"}) /\ UNCHANGED <<track, transfer>>
         \/ EndRead(ended, "end", rest) /\ UNCHANGED <<track, transfer>>
         \/ c.Reading /\ Retry(c, rest)
         \/ /\ c.Reading
            /\ Deliver(buffer, sector, rest) \/ NoDelivery(buffer, sector, rest)
         \/ /\ ~c.Reading
            /\ Deliver(c, transfer, rest) \/ NoDelivery(c, transfer, rest)
    BY Zenon DEF ReadInterrupt
<1>2. /\ IsRec(cdvd) /\ Numbers(cdvd) /\ track \in Int /\ transfer \in Sectors
      /\ source \in Discs \cup {NoDisc}
    BY DEF IInv, Typed
<1>3.
      /\ Keeps(cdvd, c, {"Ready", "Status", "WaitingDMA", "Spinning", "CurrentRetryCnt", "Reading",
                         "SeekCompleted", "CurrentSector"})
      /\ c.Ready = "busy" /\ c.Status = "READ" /\ c.WaitingDMA = FALSE
      /\ c.CurrentRetryCnt \in {0, cdvd.CurrentRetryCnt}
    BY <1>2, ZenonT(30) DEF Keeps, IsRec, Fields
<1>4. c.SeekCompleted /\ c.CurrentSector = Here
    BY <1>2 DEF IsRec, Fields, Here
<1>5. /\ cdvd.SeekCompleted => c.Reading = cdvd.Reading
      /\ ~cdvd.SeekCompleted => c.Reading
    BY <1>2, Zenon DEF IsRec, Fields
<1>6. ASSUME ~clash
      PROVE  /\ cdvd.Action = "None" /\ cdvd.Status # "TRAY_OPEN"
             /\ cdvd.trayState \notin {"DETECTING", "SEEKING", "EJECT"}
             /\ cdvd.DiscType \in {source, NoDisc} /\ source \in Discs
             /\ owed = 1 /\ "Cdvd" \notin events
             /\ source = cmd.disc /\ done = "no" /\ cmd.cnt = Len(got) + cdvd.SectorCnt
             /\ Here = cmd.lsn + Len(got)
             /\ cdvd.SectorCnt > 0 /\ cdvd.nextSectorsBuffered = 0 => "SectorReady" \in events
             /\ c.Reading => track = Here
             /\ ~c.Reading /\ cdvd.SectorCnt > 0 => transfer = <<source, Here>>
             /\ cdvd.WaitingDMA => ~cdvd.Reading
  <2>1. OneCommand /\ TrayQuiet /\ ReadPosition /\ GoesOn /\ Reads /\ Pending /\ Working
      BY <1>1, <1>6 DEF IInv, Reads, Pending, Working
  <2>2. cdvd.Action = "None" /\ owed = 1 /\ "Cdvd" \notin events
      BY <2>1 DEF OneCommand
  <2>3. /\ cdvd.Status # "TRAY_OPEN" /\ cdvd.trayState \notin {"DETECTING", "SEEKING", "EJECT"}
        /\ cdvd.DiscType \in {source, NoDisc}
      BY <2>1 DEF TrayQuiet
  <2>4. /\ source \in Discs /\ source = cmd.disc /\ done = "no"
        /\ cmd.cnt = Len(got) + cdvd.SectorCnt /\ Here = cmd.lsn + Len(got)
        /\ cdvd.Reading => track = Here
        /\ ~cdvd.Reading => cdvd.SeekCompleted
        /\ ~cdvd.Reading /\ cdvd.SectorCnt > 0 => transfer = <<source, Here>>
        /\ cdvd.WaitingDMA => ~cdvd.Reading
      BY <2>1 DEF ReadPosition
  <2>5. /\ c.Reading => track = Here
        /\ ~c.Reading /\ cdvd.SectorCnt > 0 => transfer = <<source, Here>>
      BY <1>5, <2>4
  <2>6. cdvd.SectorCnt > 0 /\ cdvd.nextSectorsBuffered = 0 => "SectorReady" \in events
      BY <1>1, <2>1 DEF GoesOn
  <2> QED
      BY <2>2, <2>3, <2>4, <2>5, <2>6
<1> HIDE DEF c
<1>7. Numbers(c)
  <2>1. c.CurrentSector \in Int
      BY <1>2, <1>4 DEF Here, Numbers
  <2> QED
      BY <1>2, <1>3, <2>1 DEF Numbers, Keeps, Fields
<1>8. Under(c) /\ Stands(c) /\ c.SectorCnt = cdvd.SectorCnt
  <2>1. /\ IsRec(c) /\ c.DiscType = cdvd.DiscType /\ c.MaxSector = cdvd.MaxSector
        /\ c.trayState = cdvd.trayState /\ c.Action = cdvd.Action /\ c.SectorCnt = cdvd.SectorCnt
        /\ c.nextSectorsBuffered = cdvd.nextSectorsBuffered
      BY <1>3, SMTT(30) DEF Keeps, Fields
  <2>2. Under(c)
      BY <1>3, <1>6, <1>7, <2>1, SMTT(30) DEF Under
  <2>3. Stands(c)
      BY <1>3, <1>4, <1>6, <2>1 DEF Stands
  <2> QED
      BY <2>1, <2>2, <2>3
<1>9. CASE owes /\ EndRead(owing, "ok", rest) /\ UNCHANGED <<track, transfer>>
  <2>1. /\ Keeps(cdvd, owing, {"Reading", "Ready", "Status"})
        /\ owing.Ready = "ready" /\ owing.Status \in {"READ", "PAUSE"}
      BY <1>2, Zenon DEF Keeps, IsRec, Fields
  <2> HIDE DEF owing
  <2>2. owing.SectorCnt = 0
      BY <1>2, <1>9, <2>1, SMTT(30) DEF Numbers, Keeps, Fields
  <2>3. Under(owing)
    <3>1. /\ IsRec(owing) /\ owing.DiscType = cdvd.DiscType /\ owing.MaxSector = cdvd.MaxSector
          /\ owing.trayState = cdvd.trayState /\ owing.Action = cdvd.Action
          /\ owing.SectorCnt = cdvd.SectorCnt /\ owing.WaitingDMA = cdvd.WaitingDMA
        BY <2>1 DEF Keeps, Fields
    <3>2. Numbers(owing)
        BY <1>2, <2>1 DEF Numbers, Keeps, Fields
    <3>3. ~clash => ~owing.WaitingDMA
        BY <1>6, <1>9, <3>1
    <3> QED
        BY <1>6, <2>1, <3>1, <3>2, <3>3 DEF Under
  <2> QED
      BY <1>1, <1>2, <1>9, <2>1, <2>2, <2>3, ReadEnds, SMTT(30)
<1>10. CASE /\ \/ EndRead(aborted, "abort", rest \ {"SectorReady"})
               \/ EndRead(ended, "end", rest)
            /\ UNCHANGED <<track, transfer>>
  <2>1. ASSUME NEW e, Keeps(c, e, {"Ready", "Status", "nextSectorsBuffered"}),
               e.Ready = "ready", e.Status = "PAUSE", e.nextSectorsBuffered \in Nat
        PROVE  Under(e)
      BY <1>8, <2>1, SMTT(30) DEF Under, Numbers, Keeps, Fields
  <2>2. /\ Keeps(c, aborted, {"Ready", "Status", "nextSectorsBuffered"})
        /\ aborted.Ready = "ready" /\ aborted.Status = "PAUSE" /\ aborted.nextSectorsBuffered = 0
      BY <1>8, ZenonT(30) DEF Under, Keeps, IsRec, Fields
  <2>3. /\ Keeps(c, ended, {"Ready", "Status", "nextSectorsBuffered"})
        /\ ended.Ready = "ready" /\ ended.Status = "PAUSE"
        /\ ended.nextSectorsBuffered = c.nextSectorsBuffered
      BY <1>8, Zenon DEF Under, Keeps, IsRec, Fields
  <2> HIDE DEF aborted, ended
  <2>4. Under(aborted) /\ Under(ended)
      BY <1>7, <2>1, <2>2, <2>3 DEF Numbers
  <2>5. CASE EndRead(aborted, "abort", rest \ {"SectorReady"})
      BY <1>1, <1>2, <1>10, <2>2, <2>4, <2>5, ReadEnds
  <2>6. CASE EndRead(ended, "end", rest)
      BY <1>1, <1>2, <1>10, <2>3, <2>4, <2>6, ReadEnds
  <2> QED
      BY <1>10, <2>5, <2>6, SMTT(30)
<1>11. CASE c.Reading /\ Retry(c, rest)
    BY <1>1, <1>8, <1>11, ReadRetried
<1>12. CASE c.Reading /\ (Deliver(buffer, sector, rest) \/ NoDelivery(buffer, sector, rest))
  <2>1. Keeps(c, buffer, {"Reading", "ReadErr"}) /\ buffer.Reading = FALSE
      BY <1>8, Zenon DEF Under, Keeps, IsRec, Fields
  <2> HIDE DEF buffer
  <2>2. /\ buffer.Ready = c.Ready /\ buffer.SeekCompleted = c.SeekCompleted
        /\ buffer.CurrentSector = c.CurrentSector /\ buffer.SectorCnt = c.SectorCnt
        /\ buffer.nextSectorsBuffered = c.nextSectorsBuffered
      BY <2>1 DEF Keeps, Fields
  <2>3. Under(buffer)
      BY <1>8, <2>1 DEF Under, Numbers, Keeps, Fields
  <2>4. Stands(buffer)
      BY <1>8, <2>2 DEF Stands
  <2>5. sector \in Sectors
      BY <1>2, SMTT(30) DEF Sectors
  <2>6. ~clash => sector = <<source, buffer.CurrentSector>>
      BY <1>4, <1>6, <1>12, <2>2
  <2> HIDE DEF sector
  <2> QED
      BY <1>1, <1>12, <2>1, <2>3, <2>4, <2>5, <2>6, SectorInTransfer, SMTT(30)
<1>13. CASE ~c.Reading /\ (Deliver(c, transfer, rest) \/ NoDelivery(c, transfer, rest))
  <2>1. ~clash /\ c.SectorCnt > 0 => transfer = <<source, c.CurrentSector>>
      BY <1>4, <1>6, <1>8, <1>13
  <2> QED
      BY <1>1, <1>2, <1>8, <1>13, <2>1, SectorInTransfer, SMTT(30)
<1> QED
    BY <1>1, <1>9, <1>10, <1>11, <1>12, <1>13
---------------------------------------------------------------------------
(* The theorems *)

\* The invariant holds throughout: the drive's commands, events, tray and
\* savestates keep it (cdvdWrite04 to cdvdUpdateTrayState in CDVD.cpp).
THEOREM Invariance == Spec => []IInv
<1>1. Init => IInv
    BY InitHolds
<1>2. IInv /\ [Next]_vars => IInv'
  <2> SUFFICES ASSUME IInv, [Next]_vars PROVE IInv'
      OBVIOUS
  <2>1. CASE Event
      BY <2>1, ActionInterruptStep, SectorReadyStep, ReadInterruptStep, TickStep DEF Event
  <2>2. CASE Guest
      BY <2>2, RefusedStep, ResetOrNopStep, PauseKeyTocStep, StandbySeekStep, StopStep,
         ReadStep, BreakStep, PsxDma3Step, TrayCtrlStep DEF Guest
  <2>3. CASE Host
      BY <2>3, EjectStep, InsertStep, ResetStep, LoadStep DEF Host
  <2>4. CASE UNCHANGED vars
      BY <2>4, StutterStep
  <2> QED
      BY <2>1, <2>2, <2>3, <2>4 DEF Next
<1> QED
    BY <1>1, <1>2, PTL DEF Spec

\* What a read puts into the guest's memory are the sectors it asked for, in
\* order, from the disc it was given for, over waits for the channel, retries
\* and savestates, and one that ends without an error has delivered them all
\* (cdvdReadInterrupt, cdvdReadSector): for discs, reads, buffers and retry
\* limits of any size.
THEOREM ReadsAreDelivered == Spec => []ReadDelivers
<1>1. IInv => ReadDelivers
    BY DEF IInv, Delivered, ReadDelivers
<1> QED
    BY <1>1, Invariance, PTL

\* A busy drive has an event coming, waits for the DMA channel or has given up,
\* and a read that waits for the buffer has a sector on its way to it, whichever
\* events cdvdStartSeek, the commands and the aborts have cancelled.
THEOREM DriveNeverStalls == Spec => []WorkGoesOn
<1>1. IInv => WorkGoesOn
    BY DEF IInv, GoesOn, WorkGoesOn, Pending, Reads
<1> QED
    BY <1>1, Invariance, PTL

\* Every command accepted by cdvdWrite04 raises one completion interrupt before
\* the drive is ready for the next, unless its read has given up.
THEOREM OneIrqPerCommand == Spec => []OneIrq
<1>1. IInv => OneIrq
    BY DEF IInv, OneCommand, OneIrq
<1> QED
    BY <1>1, Invariance, PTL

\* Once the tray has settled the drive knows the disc that is in it
\* (cdvdUpdateTrayState, ChangeDisc), in whatever order guest, frontend, clock
\* and reset have moved disc and tray.
THEOREM SwapsAreDetected == Spec => []SwapDetected
<1>1. IInv => SwapDetected
    BY DEF IInv, Known, SwapDetected
<1> QED
    BY <1>1, Invariance, PTL
=============================================================================
