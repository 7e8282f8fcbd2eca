------------------------------ MODULE VMThreads ------------------------------
(***************************************************************************)
(* The two threads that run a machine: the frontend thread, on which every *)
(* libretro entry point and the GS execute, and cpu_thread, on which the   *)
(* EE executes.  They meet through VMManager's s_state, the copy of it     *)
(* that cpu_thread publishes in cpu_thread_state, the resume semaphore and *)
(* the vsync rendezvous of the GS ring.  The ring is abstracted to empty,  *)
(* holding notified packets, or holding a vsync as well.                   *)
(*                                                                         *)
(* A libretro entry point is a straight-line program of the instructions   *)
(* defined under "Frontend", one per shared access, so that cpu_thread may *)
(* move between any two of them.                                           *)
(***************************************************************************)
EXTENDS Naturals, Sequences

CONSTANTS Ops,        \* entry points the frontend uses
          MayPowerOff,\* the guest may issue sceCdPowerOff
          MaxLoads,   \* bound: retro_load_game calls
          MaxPosts    \* bound: banked resume posts when an entry point starts

ASSUME VMThreadsAssumption == /\ Ops \subseteq {"run", "variables", "serialize", "eject", "reinit",
                                                "unload"}
                              /\ MayPowerOff \in BOOLEAN
                              /\ MaxLoads \in Nat /\ MaxPosts \in Nat

VARIABLES s_state,                \* VMManager::s_state
          cpu_thread_state,       \* what cpu_thread last published
          cpu_thread_boot_result,
          cpu_thread_resume_sema, \* posts banked
          s_open_flag,            \* the GS is open
          sem_dead,               \* the GS work semaphore has been killed
          s_thread,               \* TryOpenGS has registered the frontend thread
          ring,                   \* "empty", "work" (notified packets) or "vsync"
          cpc, st,               \* cpu_thread: where it is, the state it loaded
          fop, fi,                \* frontend: entry point in flight, instruction
          loaded, loads           \* content loaded; load calls so far

vmvars == <<s_state, cpu_thread_state, cpu_thread_boot_result, cpu_thread_resume_sema>>
gsvars == <<s_open_flag, s_thread, sem_dead, ring>>
cpuvars == <<cpc, st>>
frontvars == <<fop, fi, loaded, loads>>
allvars == <<vmvars, gsvars, cpuvars, frontvars>>

VMState == {"Shutdown", "Initializing", "Running", "Paused", "Resetting", "Stopping"}

\* VMManager::HasValidVM
HasValidVM == s_state \in {"Running", "Paused", "Resetting"}

CpuPcs == {"none", "boot", "init", "failed", "failResult", "booted", "outer", "load", "store",
           "exec", "waitGS", "vsyncDone", "pausedCheck", "pausedWait", "done"}
Executing == cpc \in {"exec", "waitGS", "vsyncDone"}

-----------------------------------------------------------------------------
\* Frontend

PauseSteps  == <<"pauseCheck", "pauseStore", "await">>
ResumeSteps == <<"resumeCheck", "resumeStore", "post">>

RunSteps    == <<"open", "ifPaused">> \o ResumeSteps \o <<"mainLoop">>

\* The entry points.  "serialize" stands for retro_serialize, retro_unserialize
\* and retro_reset: pause, quiesce, work on the machine, resume.  "reinit" is the
\* context_destroy / context_reset pair of a video driver rebuild.
Program == [load         |-> <<"start", "bootWait">>,
            run          |-> RunSteps,
            variables    |-> PauseSteps \o <<"work">> \o RunSteps,
            serialize    |-> PauseSteps \o <<"sync", "work">> \o ResumeSteps,
            eject        |-> <<"ifVM">> \o PauseSteps \o <<"work">> \o ResumeSteps,
            ejectNoVM    |-> <<"work">>,
            reinit       |-> PauseSteps \o <<"work", "close", "open">> \o ResumeSteps,
            unload       |-> <<"ifOpen">> \o PauseSteps \o <<"close", "stopping", "sync", "work",
                               "shutdown", "post", "join">>]

Instr == IF fop = "none" THEN "none" ELSE Program[fop][fi]

\* MTGS::MainLoop(true): CheckForWork finds work only in a live semaphore that was
\* notified; a closed GS then drops the ring and kills the semaphore.
Flush(notified) == /\ ring' = IF ~sem_dead /\ notified THEN "empty" ELSE ring
                   /\ sem_dead' = (sem_dead \/ (notified /\ ~s_open_flag))
                   /\ UNCHANGED <<s_open_flag, s_thread>>

\* Continue n instructions further on, or leave the entry point.
Advance(n) == /\ fop' = IF fi + n > Len(Program[fop]) THEN "none" ELSE fop
              /\ fi' = IF fi + n > Len(Program[fop]) THEN 0 ELSE fi + n
              /\ UNCHANGED <<loaded, loads>>

VMInit == /\ s_state = "Shutdown" /\ cpu_thread_state = "Shutdown"
          /\ cpu_thread_boot_result = 0 /\ cpu_thread_resume_sema = 0
          /\ s_open_flag = FALSE /\ s_thread = FALSE /\ sem_dead = FALSE /\ ring = "empty"
          /\ cpc = "none" /\ st = "Shutdown"
          /\ fop = "none" /\ fi = 0 /\ loaded = FALSE /\ loads = 0

\* The frontend calls an entry point.
EnterOp(op) == /\ fop = "none"
               /\ fop' = op /\ fi' = 1
               /\ UNCHANGED <<vmvars, gsvars, cpuvars, loaded, loads>>

Load == ~loaded /\ loads < MaxLoads /\ EnterOp("load")

Call(op) == loaded /\ (op # "unload" => cpu_thread_resume_sema < MaxPosts) /\ EnterOp(op)

\* retro_load_game: reset the handshake and start cpu_thread.
StartThread == /\ Instr = "start"
               /\ cpu_thread_boot_result' = 0
               /\ cpc' = "boot"
               /\ fop' = fop /\ fi' = 2 /\ loads' = loads + 1 /\ loaded' = loaded
               /\ UNCHANGED <<s_state, cpu_thread_state, cpu_thread_resume_sema, gsvars, st>>

\* retro_load_game: wait until Initialize() has succeeded or failed (then join).
BootWait == /\ Instr = "bootWait"
            /\ \/ cpu_thread_boot_result = 1
               \/ cpu_thread_boot_result = 2 /\ cpc = "done"
            /\ loaded' = (cpu_thread_boot_result = 1)
            /\ fop' = "none" /\ fi' = 0 /\ loads' = loads
            /\ UNCHANGED <<vmvars, gsvars, cpuvars>>

\* set_eject_state pauses only a live VM.
IfVM == /\ Instr = "ifVM"
        /\ IF HasValidVM THEN Advance(1) ELSE /\ fop' = "ejectNoVM" /\ fi' = 1
                                              /\ UNCHANGED <<loaded, loads>>
        /\ UNCHANGED <<vmvars, gsvars, cpuvars>>

\* retro_unload_game pauses only when the GS is open.
IfOpen == /\ Instr = "ifOpen"
          /\ Advance(IF s_open_flag THEN 1 ELSE 5)
          /\ UNCHANGED <<vmvars, gsvars, cpuvars>>

\* SetPaused(true): the HasValidVM test, then the store of SetState.
PauseCheck == /\ Instr = "pauseCheck"
              /\ Advance(IF HasValidVM THEN 1 ELSE 2)
              /\ UNCHANGED <<vmvars, gsvars, cpuvars>>

PauseStore == /\ Instr = "pauseStore"
              /\ s_state' = "Paused"
              /\ Advance(1)
              /\ UNCHANGED <<cpu_thread_state, cpu_thread_boot_result, cpu_thread_resume_sema, gsvars, cpuvars>>

\* Mutant: a pause that waits without serving the GS ring.
AwaitPausedIdle == /\ Instr = "await"
                   /\ cpu_thread_state = "Paused"
                   /\ Advance(1)
                   /\ UNCHANGED <<vmvars, gsvars, cpuvars>>

\* cpu_thread_pause: MainLoop(true) until cpu_thread has published Paused.
\* Serving the ring is what lets an EE blocked at vsync go on and park.
AwaitPaused == /\ Instr = "await"
               /\ IF cpu_thread_state = "Paused" THEN Advance(1) /\ UNCHANGED gsvars
                                                 ELSE Flush(ring # "empty") /\ UNCHANGED frontvars
               /\ UNCHANGED <<vmvars, cpuvars>>

\* Whatever the entry point does to the paused machine.
Work == /\ Instr = "work"
        /\ Advance(1)
        /\ UNCHANGED <<vmvars, gsvars, cpuvars>>

\* SetPaused(false).
ResumeCheck == /\ Instr = "resumeCheck"
               /\ Advance(IF HasValidVM THEN 1 ELSE 2)
               /\ UNCHANGED <<vmvars, gsvars, cpuvars>>

ResumeStore == /\ Instr = "resumeStore"
               /\ s_state' = "Running"
               /\ Advance(1)
               /\ UNCHANGED <<cpu_thread_state, cpu_thread_boot_result, cpu_thread_resume_sema, gsvars, cpuvars>>

\* Mutant: the post is forgotten.
PostResumeLost == Instr = "post" /\ Advance(1) /\ UNCHANGED <<vmvars, gsvars, cpuvars>>

\* cpu_thread_resume_sema.Post()
PostResume == /\ Instr = "post"
              /\ cpu_thread_resume_sema' = cpu_thread_resume_sema + 1
              /\ Advance(1)
              /\ UNCHANGED <<s_state, cpu_thread_state, cpu_thread_boot_result, gsvars, cpuvars>>

\* retro_run resumes a machine that cpu_thread reports paused.
IfPaused == /\ Instr = "ifPaused"
            /\ Advance(IF cpu_thread_state = "Paused" THEN 1 ELSE 4)
            /\ UNCHANGED <<vmvars, gsvars, cpuvars>>

\* MTGS::TryOpenGS when the GS is not open.
OpenGS == /\ Instr = "open"
          /\ s_open_flag' = TRUE /\ s_thread' = TRUE
          /\ Advance(1)
          /\ UNCHANGED <<vmvars, sem_dead, ring, cpuvars>>

\* MTGS::CloseGS
CloseGS == /\ Instr = "close"
           /\ s_open_flag' = FALSE
           /\ Advance(1)
           /\ UNCHANGED <<vmvars, s_thread, sem_dead, ring, cpuvars>>

\* MTGS::MainLoop(false): serves the ring until a vsync.  The 100 ms timeout
\* ends it too, unless the semaphore is dead: then WaitForWorkTimed returns
\* true at once and the loop turns until a vsync arrives.
MainLoop == /\ Instr = "mainLoop"
            /\ ring' = "empty"
            /\ IF ring = "vsync" \/ ~sem_dead THEN Advance(1) ELSE UNCHANGED frontvars
            /\ UNCHANGED <<vmvars, s_open_flag, s_thread, sem_dead, cpuvars>>

\* MTGS::WaitGS(false) on the frontend thread: notify, then MainLoop(true).
Sync == /\ Instr = "sync"
        /\ IF s_thread THEN Flush(TRUE) ELSE UNCHANGED gsvars
        /\ Advance(1)
        /\ UNCHANGED <<vmvars, cpuvars>>

\* VMManager::Shutdown: Stopping, WaitGS, the teardown ("work"), Shutdown.
Stopping == /\ Instr = "stopping"
            /\ s_state' = "Stopping"
            /\ Advance(1)
            /\ UNCHANGED <<cpu_thread_state, cpu_thread_boot_result, cpu_thread_resume_sema, gsvars, cpuvars>>

ShutdownVM == /\ Instr = "shutdown"
              /\ s_state' = "Shutdown"
              /\ s_thread' = FALSE
              /\ Advance(1)
              /\ UNCHANGED <<cpu_thread_state, cpu_thread_boot_result, cpu_thread_resume_sema,
                             s_open_flag, sem_dead, ring, cpuvars>>

\* cpu_thread.Join()
Join == /\ Instr = "join"
        /\ cpc = "done"
        /\ fop' = "none" /\ fi' = 0 /\ loaded' = FALSE /\ loads' = loads
        /\ UNCHANGED <<vmvars, gsvars, cpuvars>>

Frontend == \/ StartThread \/ BootWait \/ IfVM \/ IfOpen \/ PauseCheck \/ PauseStore \/ AwaitPaused
            \/ Work \/ ResumeCheck \/ ResumeStore \/ PostResume \/ IfPaused \/ OpenGS \/ CloseGS
            \/ MainLoop \/ Stopping \/ Sync \/ ShutdownVM \/ Join

-----------------------------------------------------------------------------
\* cpu_thread

\* VMManager::Initialize starts.
Boot == /\ cpc = "boot"
        /\ s_state' = "Initializing"
        /\ cpc' = "init"
        /\ UNCHANGED <<cpu_thread_state, cpu_thread_boot_result, cpu_thread_resume_sema, gsvars, st, frontvars>>

\* Initialize succeeds: hwReset has emptied the ring and queued a GS reset, and
\* the machine is left paused.
InitDone == /\ cpc = "init"
            /\ s_state' = "Paused" /\ ring' = "work"
            /\ cpc' = "booted"
            /\ UNCHANGED <<cpu_thread_state, cpu_thread_boot_result, cpu_thread_resume_sema,
                           s_open_flag, s_thread, sem_dead, st, frontvars>>

\* Initialize fails on any of its early returns.
InitFailed == /\ cpc = "init"
              /\ s_state' = "Shutdown"
              /\ cpc' = "failed"
              /\ UNCHANGED <<cpu_thread_state, cpu_thread_boot_result, cpu_thread_resume_sema, gsvars, st, frontvars>>

FailState == /\ cpc = "failed"
             /\ cpu_thread_state' = "Shutdown"
             /\ cpc' = "failResult"
             /\ UNCHANGED <<s_state, cpu_thread_boot_result, cpu_thread_resume_sema, gsvars, st, frontvars>>

\* cpu_thread_boot_result = -1 (2 here).
FailResult == /\ cpc = "failResult"
              /\ cpu_thread_boot_result' = 2
              /\ cpc' = "done"
              /\ UNCHANGED <<s_state, cpu_thread_state, cpu_thread_resume_sema, gsvars, st, frontvars>>

BootResult == /\ cpc = "booted"
              /\ cpu_thread_boot_result' = 1
              /\ cpc' = "outer"
              /\ UNCHANGED <<s_state, cpu_thread_state, cpu_thread_resume_sema, gsvars, st, frontvars>>

\* The outer loop: leave on Shutdown, turn until there is a valid VM.
Outer == /\ cpc = "outer"
         /\ s_state = "Shutdown" \/ HasValidVM
         /\ cpc' = IF HasValidVM THEN "load" ELSE "done"
         /\ UNCHANGED <<vmvars, gsvars, st, frontvars>>

\* _st = GetState()
LoadState == /\ cpc = "load"
             /\ st' = s_state
             /\ cpc' = "store"
             /\ UNCHANGED <<vmvars, gsvars, frontvars>>

\* Where the switch goes.  (Nothing leaves Resetting or Initializing for this
\* thread to find: retro_reset pauses before it calls VMManager::Reset.)
Dispatch(s) == CASE s = "Running" -> "exec"
                 [] s = "Paused" -> "pausedCheck"
                 [] s \in {"Stopping", "Shutdown"} -> "done"
                 [] OTHER -> "load"

\* Mutant: Shutdown and Stopping leave without publishing.
StoreStateQuiet == /\ cpc = "store"
                   /\ cpu_thread_state' = IF Dispatch(st) = "done" THEN cpu_thread_state ELSE st
                   /\ cpc' = Dispatch(st)
                   /\ UNCHANGED <<s_state, cpu_thread_boot_result, cpu_thread_resume_sema, gsvars, st, frontvars>>

\* Publish the state loaded, then act on it.
StoreState == /\ cpc = "store"
              /\ cpu_thread_state' = st
              /\ cpc' = Dispatch(st)
              /\ UNCHANGED <<s_state, cpu_thread_boot_result, cpu_thread_resume_sema, gsvars, st, frontvars>>

\* The EE draws: a GIF packet and its notify.
Draw == /\ cpc = "exec" /\ ring = "empty"
        /\ ring' = "work"
        /\ UNCHANGED <<vmvars, s_open_flag, s_thread, sem_dead, cpuvars, frontvars>>

\* VSyncStart -> PostVsyncStart: queue the vsync; WaitGS returns if closed.
Vsync == /\ cpc = "exec"
         /\ ring' = "vsync"
         /\ cpc' = IF s_open_flag THEN "waitGS" ELSE "vsyncDone"
         /\ UNCHANGED <<vmvars, s_open_flag, s_thread, sem_dead, st, frontvars>>

\* WaitForEmpty returns when the ring is drained or the semaphore dead.
WaitGSReturn == /\ cpc = "waitGS"
                /\ ring # "vsync" \/ sem_dead
                /\ cpc' = "vsyncDone"
                /\ UNCHANGED <<vmvars, gsvars, st, frontvars>>

\* IsExecutionInterrupted is looked at once per vsync.
Interrupted == /\ cpc = "vsyncDone"
               /\ cpc' = IF s_state # "Running" THEN "load" ELSE "exec"
               /\ UNCHANGED <<vmvars, gsvars, st, frontvars>>

\* The guest powers the console off: SetState(Stopping) on cpu_thread.
PowerOff == /\ MayPowerOff
            /\ cpc = "exec"
            /\ s_state' = "Stopping"
            /\ cpc' = IF s_state = "Running" THEN "load" ELSE "exec"
            /\ UNCHANGED <<cpu_thread_state, cpu_thread_boot_result, cpu_thread_resume_sema, gsvars, st, frontvars>>

\* case Paused: sleep while the state is Paused.
PausedCheck == /\ cpc = "pausedCheck"
               /\ cpc' = IF s_state = "Paused" THEN "pausedWait" ELSE "load"
               /\ UNCHANGED <<vmvars, gsvars, st, frontvars>>

PausedWake == /\ cpc = "pausedWait"
              /\ cpu_thread_resume_sema > 0
              /\ cpu_thread_resume_sema' = cpu_thread_resume_sema - 1
              /\ cpc' = "pausedCheck"
              /\ UNCHANGED <<s_state, cpu_thread_state, cpu_thread_boot_result, gsvars, st, frontvars>>

CpuThread == \/ Boot \/ InitDone \/ InitFailed \/ FailState \/ FailResult \/ BootResult \/ Outer
             \/ LoadState \/ StoreState \/ Vsync \/ WaitGSReturn \/ Interrupted
             \/ PausedCheck \/ PausedWake

VMNext == Load \/ (\E op \in Ops : Call(op)) \/ Frontend \/ CpuThread \/ Draw \/ PowerOff

VMSpec == VMInit /\ [][VMNext]_allvars

\* Both threads keep running; which entry points the frontend calls, and
\* whether the guest draws or powers off, is not scheduled by anyone.
VMFairSpec == VMSpec /\ WF_allvars(Frontend) /\ WF_allvars(CpuThread)

-----------------------------------------------------------------------------
\* Properties

VMTypeOK == /\ s_state \in VMState /\ cpu_thread_state \in VMState /\ st \in VMState
            /\ cpu_thread_boot_result \in 0..2
            /\ cpu_thread_resume_sema \in 0..(MaxPosts + 2)
            /\ s_open_flag \in BOOLEAN /\ s_thread \in BOOLEAN /\ sem_dead \in BOOLEAN
            /\ ring \in {"empty", "work", "vsync"}
            /\ cpc \in CpuPcs
            /\ fop \in DOMAIN Program \cup {"none"}
            /\ fop # "none" => fi \in DOMAIN Program[fop]
            /\ loaded \in BOOLEAN /\ loads \in 0..MaxLoads

\* What every entry point that pauses relies on: while the frontend works on the
\* machine (savestate, disc swap, settings, teardown) the EE is not executing.
WorkAlone == Instr \in {"work", "close"} => ~Executing

\* No state published by an earlier machine survives into the next boot, where
\* a stale Paused would let cpu_thread_pause return before cpu_thread parked.
ReloadClean == cpc \in {"boot", "init"} => cpu_thread_state \in {"Shutdown", "Stopping"}

\* The frontend gets its thread back from every entry point, unless the EE thread
\* has ended under it or the GS semaphore has been killed: pause and unload do not
\* hang on an EE blocked at vsync, nor retro_run on an EE that delivers none.
FrontendReturns == (fop # "none") ~> (fop = "none" \/ cpc = "done" \/ sem_dead)

\* A resume is not lost: a machine left Running is picked up by cpu_thread,
\* unless that has ended (a power-off that the resume's store overwrote).
ResumeSeen == (s_state = "Running" /\ fop = "none")
                 ~> (cpu_thread_state = "Running" \/ fop # "none" \/ s_state # "Running" \/ cpc = "done")

==============================================================================
