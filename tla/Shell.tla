-------------------------------- MODULE Shell --------------------------------
(***************************************************************************)
(* The console thread (main, the screens and their commands) and the clock *)
(* thread (CPUTicker::Run) over the generator, the registry and the table  *)
(* of screens they share.  The user may type any command at any time.      *)
(*                                                                         *)
(* The clock is not guarded against the console: scheduler-stop may fall   *)
(* between the test of `generating` and the making of a process, vmstat    *)
(* between any two of its three reads.                                     *)
(***************************************************************************)
EXTENDS Generator

CONSTANTS
    MaxTicks,       \* the clock stops ticking there: a bound of the model
    BatchFreq,      \* batch-process-freq
    UserNames,      \* names typed after screen -s and screen -c, "" included
    Uninitialised   \* what memory may hold where the constructor sets nothing

ASSUME ShellAssumption ==
    /\ MaxTicks \in Nat
    /\ MaxProcesses \in Nat
    /\ BatchFreq \in Nat \ {0}
    /\ Uninitialised \subseteq Nat /\ Uninitialised # {}

VARIABLES
    cpc,                \* where the console thread is
    target,             \* index of the process screen -r has found
    shown,              \* what vmstat has read so far
    initialized,        \* SystemState::initialized
    ticking,            \* CPUTicker::running
    generating,         \* CPUTicker::generating
    tpc,                \* where the clock thread is
    currentTick, idleTickTime, activeTickTime,
    garbage,            \* history: the sum the two counters started from
    overlapped,         \* history: both threads have been creating at once
    afterStop           \* history: processes begun by the clock since the last stop

clockVars == <<ticking, generating, tpc, currentTick, idleTickTime, activeTickTime,
               garbage, overlapped, afterStop>>
consoleVars == <<cpc, target, shown, initialized>>
vars == <<screenVars, genVars, clockVars, consoleVars>>

NotShown == [idle |-> 0, active |-> 0, total |-> 0]

Init ==
    /\ InitConsoles
    /\ InitGenerator
    /\ cpc = "preboot"
    /\ target = 0
    /\ shown = NotShown
    /\ initialized = FALSE
    /\ ticking = FALSE
    /\ generating = FALSE
    /\ tpc = "off"
    /\ currentTick = 0
    /\ idleTickTime \in Uninitialised
    /\ activeTickTime \in Uninitialised
    /\ garbage = idleTickTime + activeTickTime
    /\ overlapped = FALSE
    /\ afterStop = 0

-----------------------------------------------------------------------------
(***************************************************************************)
(* The clock thread.                                                       *)
(***************************************************************************)
Tick ==
    /\ tpc = "loop"
    /\ currentTick < MaxTicks
    /\ IF ticking
       THEN /\ currentTick' = currentTick + 1
            /\ tpc' = "count"
       ELSE /\ tpc' = "stopped"
            /\ UNCHANGED currentTick
    /\ UNCHANGED <<screenVars, genVars, consoleVars, ticking, generating,
                   idleTickTime, activeTickTime, garbage, overlapped, afterStop>>

\* At its bound the clock goes on without being counted, and sees that it is to stop.
TickBound ==
    /\ tpc = "loop"
    /\ currentTick = MaxTicks
    /\ tpc' = IF ticking THEN "loop" ELSE "stopped"
    /\ UNCHANGED <<screenVars, genVars, consoleVars, ticking, generating, currentTick,
                   idleTickTime, activeTickTime, garbage, overlapped, afterStop>>

\* Fault: an active tick is counted as idle too.
CountTickBoth ==
    /\ tpc = "count"
    /\ idleTickTime' = idleTickTime + 1
    /\ activeTickTime' = IF RunningCount > 0 THEN activeTickTime + 1 ELSE activeTickTime
    /\ tpc' = "on_tick"
    /\ UNCHANGED <<screenVars, genVars, consoleVars, ticking, generating, currentTick,
                   garbage, overlapped, afterStop>>

\* A second access: vmstat reads the counters without tickMutex.
CountTick ==
    /\ tpc = "count"
    /\ IF RunningCount > 0
       THEN activeTickTime' = activeTickTime + 1 /\ UNCHANGED idleTickTime
       ELSE idleTickTime' = idleTickTime + 1 /\ UNCHANGED activeTickTime
    /\ tpc' = "on_tick"
    /\ UNCHANGED <<screenVars, genVars, consoleVars, ticking, generating, currentTick,
                   garbage, overlapped, afterStop>>

\* Fault: the switch is not looked at.
TestGeneratingSkipped ==
    /\ tpc = "on_tick"
    /\ tpc' = IF currentTick % BatchFreq = 0 THEN "generate" ELSE "loop"
    /\ UNCHANGED <<screenVars, genVars, consoleVars, ticking, generating, currentTick,
                   idleTickTime, activeTickTime, garbage, overlapped, afterStop>>

TestGenerating ==
    /\ tpc = "on_tick"
    /\ tpc' = IF generating /\ currentTick % BatchFreq = 0 THEN "generate" ELSE "loop"
    /\ UNCHANGED <<screenVars, genVars, consoleVars, ticking, generating, currentTick,
                   idleTickTime, activeTickTime, garbage, overlapped, afterStop>>

OnTickGenerates ==
    /\ tpc = "generate"
    /\ BeginGenerate("clock", "")
    /\ tpc' = "generated"
    /\ afterStop' = IF generating THEN afterStop ELSE afterStop + 1
    /\ overlapped' = (overlapped \/ ~At("console", "idle"))
    /\ UNCHANGED <<screenVars, consoleVars, ticking, generating, currentTick,
                   idleTickTime, activeTickTime, garbage>>

\* GenerateOne has returned; or the bound on processes is reached.
OnTickReturns ==
    /\ \/ tpc = "generated" /\ At("clock", "idle")
       \/ tpc = "generate" /\ ~RoomForAnother
    /\ tpc' = "loop"
    /\ UNCHANGED <<screenVars, genVars, consoleVars, ticking, generating, currentTick,
                   idleTickTime, activeTickTime, garbage, overlapped, afterStop>>

ClockStep ==
    \/ Tick \/ TickBound \/ CountTick \/ TestGenerating \/ OnTickGenerates \/ OnTickReturns

-----------------------------------------------------------------------------
(***************************************************************************)
(* The console thread.  It creates processes itself: while it does it is   *)
(* not back at the prompt.                                                 *)
(***************************************************************************)
Prompt == cpc = "prompt" /\ At("console", "idle") /\ consoleRunning
OnMain == Prompt /\ IsOnMainConsole

\* main's first loop: any other command is unknown or only prints.
Initialize ==
    /\ cpc = "preboot"
    /\ ~initialized
    /\ initialized' = TRUE
    /\ ticking' = TRUE
    /\ tpc' = "loop"
    /\ cpc' = "enter"
    /\ UNCHANGED <<screenVars, genVars, target, shown, generating, currentTick,
                   idleTickTime, activeTickTime, garbage, overlapped, afterStop>>

PrebootExit ==
    /\ cpc = "preboot"
    /\ cpc' = "exited"
    /\ UNCHANGED <<screenVars, genVars, clockVars, target, shown, initialized>>

EnterMain ==
    /\ cpc = "enter"
    /\ EnterMainConsole
    /\ cpc' = "prompt"
    /\ UNCHANGED <<genVars, clockVars, target, shown, initialized>>

SchedulerStart ==
    /\ OnMain
    /\ ~generating
    /\ generating' = TRUE
    /\ afterStop' = 0
    /\ UNCHANGED <<screenVars, genVars, consoleVars, ticking, tpc, currentTick,
                   idleTickTime, activeTickTime, garbage, overlapped>>

SchedulerStop ==
    /\ OnMain
    /\ generating
    /\ generating' = FALSE
    /\ afterStop' = 0
    /\ UNCHANGED <<screenVars, genVars, consoleVars, ticking, tpc, currentTick,
                   idleTickTime, activeTickTime, garbage, overlapped>>

\* screen -s, screen -c: refused if the registry has a process of that name.
CreateScreen(name) ==
    /\ OnMain
    /\ ProcessesNamed(name) = {}
    /\ BeginGenerate("console", name)
    /\ overlapped' = (overlapped \/ ~At("clock", "idle"))
    /\ UNCHANGED <<screenVars, consoleVars, ticking, generating, tpc, currentTick,
                   idleTickTime, activeTickTime, garbage, afterStop>>

\* screen -r: first the process, which must not have terminated ...
FindProcess(name) ==
    /\ OnMain
    /\ ProcessesNamed(name) # {}
    /\ processes[GetProcessByName(name)].status # "Terminated"
    /\ target' = GetProcessByName(name)
    /\ cpc' = "switch"
    /\ UNCHANGED <<screenVars, genVars, clockVars, shown, initialized>>

\* ... then its screen, by name.
ShowScreen ==
    /\ cpc = "switch"
    /\ SwitchScreen(processes[target].name)
    /\ cpc' = "prompt"
    /\ UNCHANGED <<genVars, clockVars, target, shown, initialized>>

\* `exit` on the screen of a process.
ExitScreen ==
    /\ Prompt
    /\ ~IsOnMainConsole
    /\ ReturnToPreviousScreen
    /\ target' = 0
    /\ UNCHANGED <<genVars, clockVars, cpc, shown, initialized>>

\* vmstat prints idle, active and total ticks in this order, each read by itself.
VmstatIdle ==
    /\ OnMain
    /\ shown' = [NotShown EXCEPT !.idle = idleTickTime]
    /\ cpc' = "vmstat_active"
    /\ UNCHANGED <<screenVars, genVars, clockVars, target, initialized>>

VmstatActive ==
    /\ cpc = "vmstat_active"
    /\ shown' = [shown EXCEPT !.active = activeTickTime]
    /\ cpc' = "vmstat_total"
    /\ UNCHANGED <<screenVars, genVars, clockVars, target, initialized>>

VmstatTotal ==
    /\ cpc = "vmstat_total"
    /\ shown' = [shown EXCEPT !.total = currentTick]
    /\ cpc' = "vmstat_shown"
    /\ UNCHANGED <<screenVars, genVars, clockVars, target, initialized>>

VmstatReturns ==
    /\ cpc = "vmstat_shown"
    /\ shown' = NotShown
    /\ cpc' = "prompt"
    /\ UNCHANGED <<screenVars, genVars, clockVars, target, initialized>>

Exit ==
    /\ OnMain
    /\ ExitConsole
    /\ cpc' = "stop_clock"
    /\ UNCHANGED <<genVars, clockVars, target, shown, initialized>>

\* Fault: only the generation is stopped.
StopClockKeepsRunning ==
    /\ cpc = "stop_clock"
    /\ generating' = FALSE
    /\ cpc' = "join_clock"
    /\ UNCHANGED <<screenVars, genVars, target, shown, initialized, ticking, tpc, currentTick,
                   idleTickTime, activeTickTime, garbage, overlapped, afterStop>>

\* CPUTicker::Stop, up to the join.
StopClock ==
    /\ cpc = "stop_clock"
    /\ ticking' = FALSE
    /\ generating' = FALSE
    /\ cpc' = "join_clock"
    /\ UNCHANGED <<screenVars, genVars, target, shown, initialized, tpc, currentTick,
                   idleTickTime, activeTickTime, garbage, overlapped, afterStop>>

\* The clock thread has ended: nobody creates processes any more.
JoinClock ==
    /\ cpc = "join_clock"
    /\ tpc = "stopped"
    /\ cpc' = "finalize"
    /\ UNCHANGED <<screenVars, genVars, clockVars, target, shown, initialized>>

\* Scheduler::Destroy joins the workers; then the list is gone through.
FinalizeUnfinishedProcesses ==
    /\ cpc = "finalize"
    /\ processes' = [k \in DOMAIN processes |->
            IF \E i \in DOMAIN registry : registry[i] = k
            THEN [processes[k] EXCEPT !.status = "Terminated"] ELSE processes[k]]
    /\ initialized' = FALSE
    /\ cpc' = "exited"
    /\ UNCHANGED <<screenVars, nextProcessId, pageTables, scheduled, registry, pc, draft,
                   clockVars, target, shown>>

Exited == cpc = "exited" /\ UNCHANGED vars

ConsoleStep ==
    \/ Initialize \/ PrebootExit \/ EnterMain
    \/ SchedulerStart \/ SchedulerStop
    \/ \E name \in UserNames : CreateScreen(name)
    \/ \E i \in DOMAIN registry : FindProcess(processes[registry[i]].name)
    \/ ShowScreen \/ ExitScreen
    \/ VmstatIdle \/ VmstatActive \/ VmstatTotal \/ VmstatReturns
    \/ Exit \/ StopClock \/ JoinClock \/ FinalizeUnfinishedProcesses

Creation(t) ==
    \/ CreateStep(t) /\ UNCHANGED <<screenVars, clockVars, consoleVars>>
    \/ AddScreen(t) /\ UNCHANGED <<clockVars, consoleVars>>

Workers == cpc # "exited" /\ WorkerStep /\ UNCHANGED <<screenVars, clockVars, consoleVars>>

Next ==
    \/ ClockStep \/ ConsoleStep \/ Workers \/ Exited
    \/ \E t \in Creator : Creation(t)

\* The clock and what a thread has begun go on; nobody forces the user to type.
Fairness ==
    /\ WF_vars(ClockStep)
    /\ \A t \in Creator : WF_vars(Creation(t))
    /\ WF_vars(EnterMain \/ ShowScreen \/ VmstatActive \/ VmstatTotal \/ VmstatReturns
               \/ StopClock \/ JoinClock \/ FinalizeUnfinishedProcesses)

Spec == Init /\ [][Next]_vars /\ Fairness

-----------------------------------------------------------------------------
Statuses == {"Ready", "Running", "Terminated"}
Indices == DOMAIN processes

\* Types; a name in the table of screens leads to the screen of that name, and
\* the screens kept there belong to processes that were made (ConsoleManager,
\* RegisterScreen).
TypeOK ==
    /\ \A n \in DOMAIN screenTable :
          /\ screenTable[n].name = n
          /\ screenTable[n].process \in 0..Len(processes)
    /\ consoleRunning \in BOOLEAN /\ initialized \in BOOLEAN
    /\ ticking \in BOOLEAN /\ generating \in BOOLEAN
    /\ nextProcessId \in 1..MaxProcesses + 1
    /\ Len(processes) <= MaxProcesses
    /\ \A k \in Indices : processes[k].status \in Statuses
    /\ scheduled \subseteq Indices
    /\ currentTick \in 0..MaxTicks
    /\ tpc \in {"off", "loop", "count", "on_tick", "generate", "generated", "stopped"}
    /\ cpc \in {"preboot", "enter", "prompt", "switch", "vmstat_active", "vmstat_total",
                "vmstat_shown", "stop_clock", "join_clock", "finalize", "exited"}

\* The creating thread is done with process k.
Finished(k) == \A t \in Creator : draft[t].index # k

\* Process k has an id of its own, which is what MemoryManager knows it by.
OwnId(k) == \A j \in Indices : processes[j].id = processes[k].id => j = k

\* The registry of all processes has it, once.
Registered(k) == Cardinality({i \in DOMAIN registry : registry[i] = k}) = 1

\* The screen under its name is its own.
OwnScreen(k) ==
    /\ HasScreen(processes[k].name)
    /\ screenTable[processes[k].name].process = k

\* "Per-process virtual memory metadata": a process the scheduler has can be run,
\* because its page table is there until it ends.  PrepareProcessForExecution
\* requeues it for ever otherwise.
ScheduledHasMemory == \A k \in scheduled : processes[k].id \in pageTables

\* The user keeps off the names of the generator and of the main console.
UserKeepsOff ==
    UserNames \cap ({MakeProcessName(i) : i \in 1..MaxProcesses} \cup {MAIN_CONSOLE_NAME}) = {}

\* As long as the clock and the console have never been making processes at the
\* same time, a process is made as a whole, although GenerateOne reads the id
\* twice, increments it in another step and hands the process to the workers
\* before it lists it: an id, a place in the registry and memory while it is
\* scheduled; and a screen of its own, if no other process can have its name.
CreatedWhole ==
    ~overlapped =>
        /\ \A k \in Indices :
              /\ OwnId(k)
              /\ Finished(k) => Registered(k) /\ (UserKeepsOff => OwnScreen(k))
        /\ ScheduledHasMemory

\* A switch that screen -r makes shows the process that it found and tested, even
\* if the clock creates others between the test and the switch, unless the user
\* has named it like the main console.  (Two creations at once may lose a process
\* from the list and leave its screen to the next one of that name.)
ResumeShowsProcess ==
    [][ cpc = "switch" /\ ~overlapped /\ processes[target].name # MAIN_CONSOLE_NAME
          => currentConsole'.process = target ]_<<cpc, currentConsole>>

\* "Stops generating dummy processes": OnTick may have passed its test already, so
\* one more process may appear after scheduler-stop, and not two.
StopTakesEffect == ~generating => afterStop <= 1

\* vmstat reads the idle and the active ticks before the total, so that what it
\* shows never has more of the two than ticks, apart from what the counters
\* started from.
VmstatNeverOverstates ==
    cpc = "vmstat_shown" => shown.idle + shown.active <= shown.total + garbage

AllTerminated == \A k \in Indices : processes[k].status = "Terminated"

\* exit gets to the end of main, though the clock may be creating a process, and
\* then no process is left that has not been terminated, unless an append to
\* the registry has been lost.
ExitCompletes ==
    (cpc = "stop_clock") ~> (cpc = "exited" /\ (~overlapped => AllTerminated))
=============================================================================
