------------------------------ MODULE GSEvents ------------------------------
(***************************************************************************)
(* SIGNAL, FINISH and LABEL.  A VU1 program on the VU thread leaves them   *)
(* in a mailbox (Gif_HandlerAD_MTVU); the EE thread collects them          *)
(* (Get_MTVUChanges) into the GS registers that the guest polls and        *)
(* acknowledges, and raises the interrupt.  Paths 2 and 3 raise the same   *)
(* events on the EE thread itself (Gif_HandlerAD).                         *)
(*                                                                         *)
(* The VU thread is split at each access to the mailbox, the EE thread     *)
(* too; what the EE does to its own registers in between is one step.      *)
(* A signal is a number whose bits are all unmasked (0: no bits), a label  *)
(* a function on the bits its mask selects.                                *)
(***************************************************************************)
EXTENDS Integers, Sequences

CONSTANTS Signals,    \* signal values, without 0
          Bits,       \* bits of LBLID
          Masks,      \* masks of a LABEL
          SpinBound,  \* how often the VU thread looks for a free mailbox
          MaxEvents   \* bound: events of VU1 programs

ASSUME GSEventsAssumption == /\ Signals \subseteq Nat \ {0} /\ Masks \subseteq (SUBSET Bits) \ {{}}
                             /\ SpinBound \in Nat /\ MaxEvents \in Nat

VARIABLES mtvuInterrupts,           \* set of flags
          gsSignal, gsLabel,        \* the mailbox; 0 and the empty function when taken
          vpc, sig, label, existing, spin, events,  \* VU thread
          epc, interrupts,          \* EE thread in Get_MTVUChanges: step, flags it saw
          gs,                       \* GS registers and gifUnit.gsSIGNAL, gsFINISH
          vpu,                      \* VU1 in VPU_STAT: "idle", "busy" or "tbit"
          labelled,                 \* history: LBLID with every label applied in order
          orphan                    \* history: mail whose flag a reset of the machine cleared

vu == <<vpc, sig, label, existing, spin, events>>
ee == <<epc, interrupts, gs, vpu>>
history == <<labelled, orphan>>
eventVars == <<mtvuInterrupts, gsSignal, gsLabel, vu, ee, history>>

NoLabel == [b \in {} |-> 0]
Labels == UNION {[S -> {0, 1}] : S \in Masks}
Flags == {"Signal", "Finish", "Label", "VUEBit", "VUTBit"}
Events == {"SIGNAL", "FINISH"}

\* irq is a history variable: the events of CSR that the guest's handler has been
\* called for since they were set.
Registers0 == [CSR |-> {}, IMR |-> {}, SIGID |-> 0, LBLID |-> [b \in Bits |-> 0], queued |-> FALSE, data |-> 0,
               fired |-> FALSE, pending |-> FALSE, irq |-> {}]

EventsInit == /\ mtvuInterrupts = {} /\ gsSignal = 0 /\ gsLabel = NoLabel
              /\ vpc = "run" /\ sig = 0 /\ label = NoLabel /\ existing = NoLabel /\ spin = 0 /\ events = 0
              /\ epc = 0 /\ interrupts = {} /\ gs = Registers0 /\ vpu = "idle"
              /\ labelled = Registers0.LBLID /\ orphan = {}

-----------------------------------------------------------------------------
\* GS registers, on the EE thread

\* (old & ~mask) | (new & mask)
MergeSignal(old, s) == IF s = 0 THEN old ELSE s
MergeLabel(old, l) == [b \in DOMAIN old \cup DOMAIN l |-> IF b \in DOMAIN l THEN l[b] ELSE old[b]]

\* hwIntcIrq(INTC_GS) unless e is masked: the guest finds all of CSR and e.
Irq(g, e) == IF e \in g.IMR THEN g ELSE [g EXCEPT !.irq = g.CSR \cup {e}]

\* CSR.SIGNAL is free: the signal becomes visible.
FireSignal(g, s) == [Irq(g, "SIGNAL") EXCEPT !.SIGID = MergeSignal(g.SIGID, s), !.CSR = g.CSR \cup {"SIGNAL"}]

\* The signal before is not acknowledged: this one waits and stalls the GIF.
QueueSignal(g, s) == [g EXCEPT !.queued = TRUE, !.data = s]

RequestFinish(g) == [g EXCEPT !.fired = FALSE, !.pending = TRUE]

Gif_FinishIRQ(g) ==
   LET h == IF g.pending THEN [g EXCEPT !.CSR = @ \cup {"FINISH"}, !.pending = FALSE] ELSE g
   IN IF "FINISH" \in h.CSR \ h.IMR /\ ~h.fired THEN [Irq(h, "FINISH") EXCEPT !.fired = TRUE] ELSE h

CsrReset(g) == [g EXCEPT !.queued = FALSE, !.fired = TRUE, !.pending = FALSE, !.CSR = {}, !.IMR = Events, !.SIGID = 0,
                         !.LBLID = Registers0.LBLID, !.irq = {}]

\* gifUnit.Execute, as far as events go: nothing while the GIF is stalled.
GifExecute(g) == IF g.queued THEN g ELSE Gif_FinishIRQ(g)

\* Mutant: the signal that waited fires without an interrupt.
CsrSignalQuiet(g) == LET h == [g EXCEPT !.irq = @ \ {"SIGNAL"}] IN
   GifExecute(IF g.queued THEN [h EXCEPT !.SIGID = MergeSignal(@, g.data), !.queued = FALSE]
              ELSE [h EXCEPT !.CSR = @ \ {"SIGNAL"}])

\* Acknowledging SIGNAL fires the one that waits, if any, and resumes the GIF.
CsrSignal(g) == LET h == [g EXCEPT !.irq = @ \ {"SIGNAL"}, !.queued = FALSE] IN
   GifExecute(IF g.queued THEN FireSignal(h, g.data) ELSE [h EXCEPT !.CSR = @ \ {"SIGNAL"}])

CsrFinish(g) == [g EXCEPT !.CSR = @ \ {"FINISH"}, !.irq = @ \ {"FINISH"}, !.fired = FALSE, !.pending = FALSE]

gsCSRwrite(g, csr) ==
   LET r == IF "RESET" \in csr THEN CsrReset(g) ELSE g
       s == IF "SIGNAL" \in csr THEN CsrSignal(r) ELSE r
   IN IF "FINISH" \in csr THEN CsrFinish(s) ELSE s

IMRwrite(g, masked) ==
   [g EXCEPT !.IMR = masked, !.irq = IF g.CSR \cap (g.IMR \ masked) # {} THEN g.CSR ELSE @]

\* Gif_HandlerAD: SIGNAL of path 2 or 3.
SignalAD(g, s) == IF "SIGNAL" \notin g.CSR THEN FireSignal(g, s)
                  ELSE IF ~g.queued THEN QueueSignal(g, s) ELSE g

\* Registers are written, and paths 2 and 3 run, between two Get_MTVUChanges.  A
\* LABEL of theirs, and a reset, overtake the labels in the mailbox.
Registers(g) == /\ epc = 0 /\ gs' = g
                /\ labelled' = IF g.LBLID = gs.LBLID THEN labelled ELSE MergeLabel(g.LBLID, gsLabel)
                /\ UNCHANGED <<mtvuInterrupts, gsSignal, gsLabel, vu, epc, interrupts, vpu, orphan>>

PathSignal == \E s \in Signals \cup {0} : ~gs.queued /\ Registers(SignalAD(gs, s))
PathFinish == ~gs.queued /\ Registers(RequestFinish(gs))
PathLabel == \E l \in Labels : ~gs.queued /\ Registers([gs EXCEPT !.LBLID = MergeLabel(@, l)])
PathsDone == Registers(GifExecute(gs))
WriteCSR == \E csr \in SUBSET {"RESET", "SIGNAL", "FINISH"} : Registers(gsCSRwrite(gs, csr))
GifReset == Registers([gs EXCEPT !.queued = FALSE, !.data = 0, !.fired = FALSE])
WriteIMR == \E masked \in SUBSET Events : Registers(IMRwrite(gs, masked))

-----------------------------------------------------------------------------
\* VU thread: Gif_HandlerAD_MTVU, mVUEBit, mVUTBit

mail == <<mtvuInterrupts, gsSignal, gsLabel>>

\* FINISH, the E bit and the T bit are flags and nothing more.
RaiseFlag == /\ vpc = "run" /\ events < MaxEvents
             /\ \E f \in {"Finish", "VUEBit", "VUTBit"} : mtvuInterrupts' = mtvuInterrupts \cup {f}
             /\ events' = events + 1
             /\ UNCHANGED <<gsSignal, gsLabel, vpc, sig, label, existing, spin, ee, history>>

Signal == /\ vpc = "run" /\ events < MaxEvents
          /\ sig' \in Signals \cup {0}
          /\ vpc' = "spin" /\ spin' = 0 /\ events' = events + 1
          /\ UNCHANGED <<mail, label, existing, ee, history>>

\* Mutant: the mailbox is not looked at.
SignalSpinNone == /\ vpc = "spin"
                  /\ vpc' = "store" /\ spin' = spin
                  /\ UNCHANGED <<mail, sig, label, existing, events, ee, history>>

\* Wait for the EE to clear the flag, a bounded number of times.
SignalSpin == /\ vpc = "spin"
              /\ IF spin < SpinBound /\ "Signal" \in mtvuInterrupts
                 THEN spin' = spin + 1 /\ vpc' = vpc
                 ELSE vpc' = "store" /\ spin' = spin
              /\ UNCHANGED <<mail, sig, label, existing, events, ee, history>>

SignalStore == /\ vpc = "store"
               /\ gsSignal' = sig
               /\ vpc' = "flag" /\ orphan' = orphan \ {"Signal"}
               /\ UNCHANGED <<mtvuInterrupts, gsLabel, sig, label, existing, spin, events, ee, labelled>>

SignalFlag == /\ vpc = "flag"
              /\ mtvuInterrupts' = mtvuInterrupts \cup {"Signal"}
              /\ vpc' = "run" /\ sig' = 0 /\ spin' = 0
              /\ UNCHANGED <<gsSignal, gsLabel, label, existing, events, ee, history>>

Label == /\ vpc = "run" /\ events < MaxEvents
         /\ label' \in Labels
         /\ vpc' = "load" /\ events' = events + 1
         /\ UNCHANGED <<mail, sig, existing, spin, ee, history>>

LabelLoad == /\ vpc = "load"
             /\ existing' = gsLabel
             /\ vpc' = "cas"
             /\ UNCHANGED <<mail, sig, label, spin, events, ee, history>>

\* Mutant: the new label replaces the ones not taken yet.
LabelReplace == /\ vpc = "cas"
                /\ gsLabel' = label /\ labelled' = MergeLabel(labelled, label)
                /\ vpc' = "labelFlag"
                /\ UNCHANGED <<mtvuInterrupts, gsSignal, sig, label, existing, spin, events, ee, orphan>>

\* Merge into the mailbox, or try again when the EE has emptied it.
LabelCas == /\ vpc = "cas"
            /\ IF gsLabel = existing
               THEN /\ gsLabel' = MergeLabel(existing, label) /\ labelled' = MergeLabel(labelled, label)
                    /\ vpc' = "labelFlag" /\ orphan' = orphan \ {"Label"}
               ELSE UNCHANGED <<gsLabel, history>> /\ vpc' = "load"
            /\ UNCHANGED <<mtvuInterrupts, gsSignal, sig, label, existing, spin, events, ee>>

LabelFlag == /\ vpc = "labelFlag"
             /\ mtvuInterrupts' = mtvuInterrupts \cup {"Label"}
             /\ vpc' = "run" /\ label' = NoLabel /\ existing' = NoLabel
             /\ UNCHANGED <<gsSignal, gsLabel, sig, spin, events, ee, history>>

VU == \/ RaiseFlag \/ Signal \/ SignalSpin \/ SignalStore \/ SignalFlag
      \/ Label \/ LabelLoad \/ LabelCas \/ LabelFlag

-----------------------------------------------------------------------------
\* EE thread: Get_MTVUChanges

\* Mutant: the mail is taken first, its flag cleared afterwards.
StepsTakeFirst == << <<"Signal", "take">>, <<"Signal", "clear">>, <<"Finish", "clear">>,
                     <<"Label", "take">>, <<"Label", "clear">>, <<"VUEBit", "clear">>, <<"VUTBit", "clear">> >>

\* The accesses to the mailbox in order, each made when its flag was seen.
Steps == << <<"Signal", "clear">>, <<"Signal", "take">>, <<"Finish", "clear">>,
            <<"Label", "clear">>, <<"Label", "take">>, <<"VUEBit", "clear">>, <<"VUTBit", "clear">> >>

\* The next step after i for the flags seen, 0 when there is none.
StepAfter(i, seen) == LET S == {j \in (i + 1)..Len(Steps) : Steps[j][1] \in seen}
                      IN IF S = {} THEN 0 ELSE CHOOSE j \in S : \A k \in S : j <= k

Advance == /\ epc' = StepAfter(epc, interrupts)
           /\ interrupts' = IF epc' = 0 THEN {} ELSE interrupts
At(flag, what) == epc > 0 /\ Steps[epc] = <<flag, what>>

\* ExecuteVU, vu1Finish, vucpu_execute_block and the VIF poll.
Get_MTVUChanges == /\ epc = 0 /\ mtvuInterrupts # {}
                   /\ epc' = StepAfter(0, mtvuInterrupts) /\ interrupts' = mtvuInterrupts
                   /\ UNCHANGED <<mail, vu, gs, vpu, history>>

\* A new VU1 program.
ExecuteVU == /\ epc = 0
             /\ vpu' = "busy"
             /\ UNCHANGED <<mail, vu, epc, interrupts, gs, history>>

ClearSignal == /\ At("Signal", "clear")
               /\ mtvuInterrupts' = mtvuInterrupts \ {"Signal"}
               /\ Advance
               /\ UNCHANGED <<gsSignal, gsLabel, vu, gs, vpu, history>>

\* A signal of 0 is no signal.
TakeSignal == /\ At("Signal", "take")
              /\ gsSignal' = 0 /\ orphan' = orphan \ {"Signal"}
              /\ gs' = IF gsSignal = 0 THEN gs
                       ELSE IF "SIGNAL" \in gs.CSR THEN QueueSignal(gs, gsSignal) ELSE FireSignal(gs, gsSignal)
              /\ Advance
              /\ UNCHANGED <<mtvuInterrupts, gsLabel, vu, vpu, labelled>>

\* The interrupt comes now, or when the other paths are done.
ClearFinish == /\ At("Finish", "clear")
               /\ mtvuInterrupts' = mtvuInterrupts \ {"Finish"}
               /\ \/ gs' = RequestFinish(gs)
                  \/ gs' = Gif_FinishIRQ(RequestFinish(gs))
               /\ Advance
               /\ UNCHANGED <<gsSignal, gsLabel, vu, vpu, history>>

ClearLabel == /\ At("Label", "clear")
              /\ mtvuInterrupts' = mtvuInterrupts \ {"Label"}
              /\ Advance
              /\ UNCHANGED <<gsSignal, gsLabel, vu, gs, vpu, history>>

TakeLabel == /\ At("Label", "take")
             /\ gsLabel' = NoLabel /\ orphan' = orphan \ {"Label"}
             /\ gs' = [gs EXCEPT !.LBLID = MergeLabel(@, gsLabel)]
             /\ Advance
             /\ UNCHANGED <<mtvuInterrupts, gsSignal, vu, vpu, labelled>>

\* The E bit ends the program only with INSTANT_VU1; else a timer does.
ClearVUEBit == /\ At("VUEBit", "clear")
               /\ mtvuInterrupts' = mtvuInterrupts \ {"VUEBit"}
               /\ vpu' \in {vpu, "idle"}
               /\ Advance
               /\ UNCHANGED <<gsSignal, gsLabel, vu, gs, history>>

ClearVUTBit == /\ At("VUTBit", "clear")
               /\ mtvuInterrupts' = mtvuInterrupts \ {"VUTBit"}
               /\ vpu' = "tbit"
               /\ Advance
               /\ UNCHANGED <<gsSignal, gsLabel, vu, gs, history>>

\* VMManager::Reset: WaitVU, VU_Thread::Reset, which clears the flags and leaves
\* the mail, then cpuReset and hwReset: registers and GIF but for gsFINISHPending.
ResetVM == /\ epc = 0 /\ vpc = "run"
           /\ mtvuInterrupts' = {}
           /\ gs' = [Registers0 EXCEPT !.pending = gs.pending]
           /\ vpu' = "idle"
           /\ labelled' = MergeLabel(Registers0.LBLID, gsLabel)
           /\ orphan' = {f \in {"Signal", "Label"} : IF f = "Signal" THEN gsSignal # 0 ELSE gsLabel # NoLabel}
           /\ UNCHANGED <<gsSignal, gsLabel, vu, epc, interrupts>>

EE == \/ Get_MTVUChanges \/ ExecuteVU \/ ResetVM
      \/ ClearSignal \/ TakeSignal \/ ClearFinish \/ ClearLabel \/ TakeLabel \/ ClearVUEBit \/ ClearVUTBit
      \/ PathSignal \/ PathFinish \/ PathLabel \/ PathsDone \/ GifReset \/ WriteCSR \/ WriteIMR

EventsNext == VU \/ EE
EventsSpec == EventsInit /\ [][EventsNext]_eventVars

-----------------------------------------------------------------------------
\* Properties

EventsTypeOK == /\ mtvuInterrupts \subseteq Flags /\ interrupts \subseteq Flags
                /\ gsSignal \in Signals \cup {0} /\ DOMAIN gsLabel \subseteq Bits
                /\ spin \in 0..SpinBound /\ epc \in 0..Len(Steps)
                /\ gs.CSR \subseteq Events /\ gs.irq \subseteq gs.CSR
                /\ gs.LBLID \in [Bits -> {0, 1}]

\* Mail in the mailbox is never left without a flag: its flag is set, or the VU
\* thread is about to set it, or the EE is about to take the mail.  The exception
\* is mail that a reset of the machine left behind, until it is taken or replaced.
MailFlagged ==
   /\ gsSignal # 0 => \/ "Signal" \in orphan \cup mtvuInterrupts \/ vpc = "flag"
                      \/ \E i \in DOMAIN Steps : epc \in 1..i /\ "Signal" \in interrupts /\ Steps[i] = <<"Signal", "take">>
   /\ gsLabel # NoLabel => \/ "Label" \in orphan \cup mtvuInterrupts \/ vpc = "labelFlag"
                           \/ \E i \in DOMAIN Steps : epc \in 1..i /\ "Label" \in interrupts /\ Steps[i] = <<"Label", "take">>

\* "It's okay to coalesce label updates": LBLID with the mailbox merged in is LBLID
\* with every label applied in order.
LabelsMerged == MergeLabel(gs.LBLID, gsLabel) = labelled

\* A signal is written over another only when the spin ran out, in the window
\* between the EE's clearing the flag and its taking the signal, or when a reset
\* has left the other behind.
OverwriteOnlyInRace ==
   [][gsSignal # 0 /\ vpc = "store" /\ vpc' = "flag" => spin = SpinBound \/ At("Signal", "take")
                                                        \/ "Signal" \in orphan]_eventVars

\* An unmasked event in CSR has interrupted the guest since it was set: also a
\* signal that waited, and an event that was masked when it was set.
NoMissedIrq == gs.CSR \ gs.IMR \subseteq gs.irq

=============================================================================
