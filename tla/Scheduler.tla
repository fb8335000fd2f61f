----------------------------- MODULE Scheduler ------------------------------
(***************************************************************************)
(* The threads of the emulator: one worker per core (Scheduler::RunCore    *)
(* running EITThread), the clock thread (CPUTicker::Run) and the console   *)
(* thread that creates processes and finally shuts everything down, with   *)
(* the state they share: the ready queue, the cores (CPUManager), the      *)
(* status of the processes and their registration with the memory manager. *)
(*                                                                         *)
(* A process is the sequence of the effects its commands have on           *)
(* scheduling; what they compute is left to other modules.  Ticks are kept *)
(* as the distance to the tick waited for, since the code only compares    *)
(* the two: `wakeIn` and `waitFor` count down and stay at 0.               *)
(*                                                                         *)
(* Locks.  readyQueue and Scheduler::running are written only under        *)
(* queueMutex, so a condition-variable wait on them (test, then sleep) is  *)
(* one action and wakes only by notification.  The wait on the clock is two*)
(* actions, tick_check and tick_sleep: between them the worker owns        *)
(* tickMutex, and CPUTicker::Stop relies on that.                          *)
(***************************************************************************)
EXTENDS Integers, Sequences, FiniteSets

CONSTANTS
    Process,        \* the processes that may be created
    Core,           \* core ids, one worker thread each (num-cpu)
    Algorithm,      \* "RR" or "FCFS" (scheduler)
    Quantum,        \* commands per time slice (quantum-cycles)
    DelaysPerExec,  \* delays-per-exec
    SleepTicks,     \* length of a sleep in ticks, 1..20 in the code
    Programs,       \* the programs a process may be given
    Spurious,       \* whether condition variables may wake spuriously
    NoProcess

\* What one Execute() does to the scheduling state of its process.
\* "violate_sleep": a FOR whose body goes on to a SLEEP after a violation.
Effect == {"plain", "sleep", "violate", "violate_sleep"}

ASSUME CoreAssumption == IsFiniteSet(Core) /\ Core # {}
ASSUME AlgorithmAssumption == Algorithm \in {"RR", "FCFS"}
ASSUME QuantumAssumption == Quantum \in Nat \ {0}
ASSUME TicksAssumption == DelaysPerExec \in Nat /\ SleepTicks \in Nat \ {0}
ASSUME ProgramsAssumption == Programs \subseteq Seq(Effect) \ {<< >>}
ASSUME SpuriousAssumption == Spurious \in BOOLEAN
ASSUME NoProcessAssumption == NoProcess \notin Process

VARIABLES
    program,        \* the commands of each process
    status,         \* ProcessStatus
    executed,       \* executedCommandCount
    violated,       \* memoryAccessViolation
    wakeIn,         \* ticks left until wakeTick
    created,        \* processes handed out by DummyProcessGenerator
    registered,     \* processes with a page table (MemoryManager)
    readyQueue,
    running,        \* Scheduler::running
    coreBusy,       \* CPUManager: the set of busy cores
    availableCores, \* CPUManager's counter
    pc,             \* where each worker is
    held,           \* the process a worker has dequeued
    left,           \* commands left in the worker's time slice
    waitFor,        \* ticks left until the targetTick of the worker
    ticking,        \* CPUTicker::running
    tpc,            \* where the clock thread is
    cpc,            \* where the console thread is
    adding          \* the process a creating thread is working on

procVars == <<program, status, executed, violated, wakeIn>>
coreVars == <<coreBusy, availableCores>>
queueVars == <<readyQueue, running>>
workerVars == <<pc, held, left, waitFor>>
clockVars == <<ticking, tpc>>
adminVars == <<created, registered, adding>>
vars == <<procVars, coreVars, queueVars, workerVars, clockVars, adminVars, cpc>>

Creator == {"clock", "console"}

Init ==
    /\ program \in [Process -> Programs]
    /\ status = [p \in Process |-> "Ready"]
    /\ executed = [p \in Process |-> 0]
    /\ violated = {}
    /\ wakeIn = [p \in Process |-> 0]
    /\ created = {}
    /\ registered = {}
    /\ readyQueue = << >>
    /\ running = TRUE
    /\ coreBusy = {}
    /\ availableCores = Cardinality(Core)
    /\ pc = [c \in Core |-> "dequeue"]
    /\ held = [c \in Core |-> NoProcess]
    /\ left = [c \in Core |-> 0]
    /\ waitFor = [c \in Core |-> 0]
    /\ ticking = TRUE
    /\ tpc = "loop"
    /\ cpc = "idle"
    /\ adding = [t \in Creator |-> NoProcess]

(***************************************************************************)
(* Condition variables: the sleeping workers are those at a wait location. *)
(***************************************************************************)
Waiting(loc) == {c \in Core : pc[c] = loc}

\* Faults: a notification that is forgotten.
NotifyNobody(loc, again) == UNCHANGED pc

NotifyOne(loc, again) ==
    IF Waiting(loc) = {} THEN UNCHANGED pc
    ELSE \E c \in Waiting(loc) : pc' = [pc EXCEPT ![c] = again]

NotifyAll(loc, again) ==
    pc' = [c \in Core |-> IF pc[c] = loc THEN again ELSE pc[c]]

TickMutexFree == Waiting("tick_sleep") = {}

Goto(c, loc) == pc' = [pc EXCEPT ![c] = loc]

(***************************************************************************)
(* The worker loop, Scheduler::RunCore.                                    *)
(***************************************************************************)
Dequeue(c) ==
    /\ pc[c] = "dequeue"
    /\ readyQueue # << >>
    /\ held' = [held EXCEPT ![c] = Head(readyQueue)]
    /\ readyQueue' = Tail(readyQueue)
    /\ Goto(c, "wake")
    /\ UNCHANGED <<procVars, coreVars, running, left, waitFor, clockVars,
                   adminVars, cpc>>

DequeueWaits(c) ==
    /\ pc[c] = "dequeue"
    /\ readyQueue = << >>
    /\ Goto(c, IF running THEN "queue_wait" ELSE "exited")
    /\ UNCHANGED <<procVars, coreVars, queueVars, held, left, waitFor,
                   clockVars, adminVars, cpc>>

\* Fault: a sleep counts as complete at once.
SleepCompleteAlways(p) == TRUE

IsSleepComplete(p) == wakeIn[p] = 0

\* Process::WakeIfReady; a process still asleep goes back to the queue.
WakeIfReady(c) ==
    /\ pc[c] = "wake"
    /\ LET p == held[c]
           wakes == status[p] = "Sleeping" /\ IsSleepComplete(p)
       IN  /\ status' = IF wakes THEN [status EXCEPT ![p] = "Ready"] ELSE status
           /\ Goto(c, IF status'[p] = "Sleeping" THEN "requeue" ELSE "prepare")
    /\ UNCHANGED <<program, executed, violated, wakeIn, coreVars, queueVars,
                   held, left, waitFor, clockVars, adminVars, cpc>>

PrepareProcessForExecution(c) ==
    /\ pc[c] = "prepare"
    /\ Goto(c, IF held[c] \in registered THEN "start" ELSE "requeue")
    /\ UNCHANGED <<procVars, coreVars, queueVars, held, left, waitFor,
                   clockVars, adminVars, cpc>>

\* A process that meets a stopped scheduler is dropped, not queued.
RequeueProcess(c) ==
    /\ pc[c] = "requeue"
    /\ IF running
       THEN /\ readyQueue' = Append(readyQueue, held[c])
            /\ Goto(c, "notify")
       ELSE /\ UNCHANGED readyQueue
            /\ Goto(c, "dequeue")
    /\ held' = [held EXCEPT ![c] = NoProcess]
    /\ UNCHANGED <<procVars, coreVars, running, left, waitFor, clockVars,
                   adminVars, cpc>>

\* notify_one after the unlock, by a worker that then goes for more work.
RequeueNotifies(c) ==
    /\ pc[c] = "notify"
    /\ \/ /\ Waiting("queue_wait") = {}
          /\ Goto(c, "dequeue")
       \/ \E d \in Waiting("queue_wait") :
             pc' = [pc EXCEPT ![c] = "dequeue", ![d] = "dequeue"]
    /\ UNCHANGED <<procVars, coreVars, queueVars, held, left, waitFor,
                   clockVars, adminVars, cpc>>

FinalizeProcess(c) ==
    /\ pc[c] = "finalize"
    /\ registered' = registered \ {held[c]}
    /\ held' = [held EXCEPT ![c] = NoProcess]
    /\ Goto(c, "dequeue")
    /\ UNCHANGED <<procVars, coreVars, queueVars, left, waitFor, clockVars,
                   created, adding, cpc>>

(***************************************************************************)
(* EITThread on top of CPUManager.                                         *)
(***************************************************************************)
\* Faults: the flags change without the counter.
AcquireCoreUncounted(c) ==
    /\ coreBusy' = coreBusy \cup {c}
    /\ UNCHANGED availableCores

ReleaseCoreUncounted(c) ==
    /\ coreBusy' = coreBusy \ {c}
    /\ UNCHANGED availableCores

AcquireCore(c) ==
    IF c \in coreBusy THEN UNCHANGED coreVars
    ELSE /\ coreBusy' = coreBusy \cup {c}
         /\ availableCores' = availableCores - 1

ReleaseCore(c) ==
    IF c \notin coreBusy THEN UNCHANGED coreVars
    ELSE /\ coreBusy' = coreBusy \ {c}
         /\ availableCores' = availableCores + 1

\* AssignToCore and Process::Run for a Ready process; a new time slice.
EnsureStarted(c) ==
    /\ pc[c] = "start"
    /\ IF status[held[c]] = "Ready"
       THEN /\ AcquireCore(c)
            /\ status' = [status EXCEPT ![held[c]] = "Running"]
       ELSE UNCHANGED <<coreVars, status>>
    /\ left' = [left EXCEPT ![c] = IF Algorithm = "RR" THEN Quantum ELSE 0]
    /\ Goto(c, "fetch")
    /\ UNCHANGED <<program, executed, violated, wakeIn, queueVars, held,
                   waitFor, clockVars, adminVars, cpc>>

HasRemainingCommands(p) == executed[p] < Len(program[p])

\* ExecuteNextCommand up to WaitUntilTick.  The first command does not wait.  A
\* process whose last command was a sleep comes here with nothing to do.
FetchCommand(c) ==
    LET p == held[c]
    IN  /\ pc[c] = "fetch"
        /\ waitFor' = IF HasRemainingCommands(p) /\ executed[p] > 0
                      THEN [waitFor EXCEPT ![c] = DelaysPerExec + 1]
                      ELSE waitFor
        /\ Goto(c, IF ~HasRemainingCommands(p) THEN "finish"
                   ELSE IF executed[p] > 0 THEN "tick_check"
                   ELSE "execute")
        /\ UNCHANGED <<procVars, coreVars, queueVars, held, left, clockVars,
                       adminVars, cpc>>

\* The predicate of WaitUntilTick, evaluated with tickMutex locked.
TickCheck(c) ==
    /\ pc[c] = "tick_check"
    /\ TickMutexFree
    /\ Goto(c, IF waitFor[c] = 0 \/ ~ticking THEN "execute" ELSE "tick_sleep")
    /\ waitFor' = IF pc'[c] = "execute" THEN [waitFor EXCEPT ![c] = 0] ELSE waitFor
    /\ UNCHANGED <<procVars, coreVars, queueVars, held, left, clockVars,
                   adminVars, cpc>>

TickSleep(c) ==
    /\ pc[c] = "tick_sleep"
    /\ Goto(c, "tick_wait")
    /\ UNCHANGED <<procVars, coreVars, queueVars, held, left, waitFor,
                   clockVars, adminVars, cpc>>

\* Execute() of the current command, with what follows in ExecuteNextCommand:
\* after a violation the command does not count as executed.
ExecuteCommand(c) ==
    LET p == held[c]
        effect == program[p][executed[p] + 1]
        faulty == effect \in {"violate", "violate_sleep"}
        sleeps == effect \in {"sleep", "violate_sleep"}
    IN  /\ pc[c] = "execute"
        /\ violated' = IF faulty THEN violated \cup {p} ELSE violated
        /\ status' = [status EXCEPT ![p] =
                        IF sleeps THEN "Sleeping" ELSE IF faulty THEN "Terminated" ELSE @]
        /\ wakeIn' = [wakeIn EXCEPT ![p] =
                        IF sleeps THEN SleepTicks ELSE IF faulty THEN 0 ELSE @]
        /\ executed' = [executed EXCEPT ![p] = IF p \in violated' THEN @ ELSE @ + 1]
        /\ left' = [left EXCEPT ![c] = IF Algorithm = "RR" THEN @ - 1 ELSE @]
        /\ Goto(c, "after")
        /\ UNCHANGED <<program, coreVars, queueVars, held, waitFor, clockVars,
                       adminVars, cpc>>

\* Fault: the process keeps the status Running.
LeaveCoreAsItIs(c, st, loc) ==
    /\ ReleaseCore(c)
    /\ Goto(c, loc)
    /\ UNCHANGED <<status, wakeIn>>

\* EITThread lets go of its core and leaves the process in status st.
LeaveCore(c, st, loc) ==
    /\ ReleaseCore(c)
    /\ status' = [status EXCEPT ![held[c]] = st]
    /\ wakeIn' = [wakeIn EXCEPT ![held[c]] = IF st = "Terminated" THEN 0 ELSE @]
    /\ Goto(c, loc)

Keep(c) ==
    /\ Goto(c, "fetch")
    /\ UNCHANGED <<coreVars, status, wakeIn>>

\* Fault: a process terminated by its command is not told from the others.
NotAsleep(c) == status[held[c]] # "Sleeping"

Unfinished(c) == status[held[c]] \notin {"Sleeping", "Terminated"}

Terminate(c) == LeaveCore(c, "Terminated", "finalize")

\* Fault: a sleeping process is finalized.
AfterSleepFinalizes(c) ==
    status[held[c]] = "Sleeping" /\ LeaveCore(c, "Sleeping", "finalize")

AfterSleep(c) == status[held[c]] = "Sleeping" /\ LeaveCore(c, "Sleeping", "requeue")

AfterViolation(c) == status[held[c]] = "Terminated" /\ Terminate(c)

\* RunToCompletion: FCFS gives up a process only when the scheduler stops, and
\* finalizes it although it has not terminated.
AfterFCFS(c) ==
    /\ Algorithm = "FCFS"
    /\ Unfinished(c)
    /\ \/ ~running /\ LeaveCore(c, status[held[c]], "finalize")
       \/ running /\ HasRemainingCommands(held[c]) /\ Keep(c)
       \/ running /\ ~HasRemainingCommands(held[c]) /\ Terminate(c)

\* ExecuteTimeSlice: the rest of the slice, or SetReady and back to the queue.
AfterRR(c) ==
    /\ Algorithm = "RR"
    /\ Unfinished(c)
    /\ \/ ~HasRemainingCommands(held[c]) /\ Terminate(c)
       \/ HasRemainingCommands(held[c]) /\ left[c] > 0 /\ Keep(c)
       \/ HasRemainingCommands(held[c]) /\ left[c] = 0
             /\ LeaveCore(c, "Ready", "requeue")

AfterCommand(c) ==
    /\ pc[c] = "after"
    /\ AfterSleep(c) \/ AfterViolation(c) \/ AfterFCFS(c) \/ AfterRR(c)
    /\ UNCHANGED <<program, executed, violated, queueVars, held, left, waitFor,
                   clockVars, adminVars, cpc>>

Finish(c) ==
    /\ pc[c] = "finish"
    /\ Terminate(c)
    /\ UNCHANGED <<program, executed, violated, queueVars, held, left, waitFor,
                   clockVars, adminVars, cpc>>

\* A condition variable may wake without a notification.
SpuriousWake(c) ==
    /\ Spurious
    /\ pc[c] \in {"queue_wait", "tick_wait"}
    /\ Goto(c, IF pc[c] = "queue_wait" THEN "dequeue" ELSE "tick_check")
    /\ UNCHANGED <<procVars, coreVars, queueVars, held, left, waitFor,
                   clockVars, adminVars, cpc>>

WorkerStep(c) ==
    \/ Dequeue(c) \/ DequeueWaits(c) \/ WakeIfReady(c)
    \/ PrepareProcessForExecution(c) \/ RequeueProcess(c) \/ RequeueNotifies(c)
    \/ FinalizeProcess(c) \/ EnsureStarted(c) \/ FetchCommand(c)
    \/ TickCheck(c) \/ TickSleep(c) \/ ExecuteCommand(c) \/ AfterCommand(c)
    \/ Finish(c)

(***************************************************************************)
(* Creating a process: DummyProcessGenerator, then Scheduler::AddProcess.  *)
(***************************************************************************)
\* Fault: the process is created although it got no memory.
RegisterNewWithoutMemory(t, p) ==
    /\ p \notin created
    /\ created' = created \cup {p}
    /\ adding' = [adding EXCEPT ![t] = p]
    /\ UNCHANGED registered

RegisterNew(t, p) ==
    /\ p \notin created
    /\ created' = created \cup {p}
    /\ registered' = registered \cup {p}
    /\ adding' = [adding EXCEPT ![t] = p]

\* Fault: AddProcess is called by the generator and by its caller.
PushNewTwice(t) ==
    /\ readyQueue' = readyQueue \o <<adding[t], adding[t]>>
    /\ adding' = [adding EXCEPT ![t] = NoProcess]

PushNew(t) ==
    /\ readyQueue' = Append(readyQueue, adding[t])
    /\ adding' = [adding EXCEPT ![t] = NoProcess]

(***************************************************************************)
(* The clock thread, CPUTicker::Run.  Whether OnTick creates a process     *)
(* (generation switched on, batch-process-freq) is left open.              *)
(***************************************************************************)
CountDown(n) == IF n > 0 THEN n - 1 ELSE 0

ClockLoop ==
    /\ tpc = "loop"
    /\ tpc' = IF ticking THEN "tick" ELSE "done"
    /\ UNCHANGED <<procVars, coreVars, queueVars, workerVars, ticking,
                   adminVars, cpc>>

ClockTick ==
    /\ tpc = "tick"
    /\ TickMutexFree
    /\ wakeIn' = [p \in Process |-> CountDown(wakeIn[p])]
    /\ waitFor' = [c \in Core |-> CountDown(waitFor[c])]
    /\ tpc' = "notify_ticks"
    /\ UNCHANGED <<program, status, executed, violated, coreVars, queueVars, pc,
                   held, left, ticking, adminVars, cpc>>

ClockNotify ==
    /\ tpc = "notify_ticks"
    /\ NotifyAll("tick_wait", "tick_check")
    /\ tpc' = "on_tick"
    /\ UNCHANGED <<procVars, coreVars, queueVars, held, left, waitFor, ticking,
                   adminVars, cpc>>

OnTick ==
    /\ tpc = "on_tick"
    /\ \/ /\ tpc' = "loop"
          /\ UNCHANGED adminVars
       \/ /\ \E p \in Process : RegisterNew("clock", p)
          /\ tpc' = "push"
    /\ UNCHANGED <<procVars, coreVars, queueVars, workerVars, ticking, cpc>>

ClockAddProcess ==
    /\ tpc = "push"
    /\ PushNew("clock")
    /\ tpc' = "notify_work"
    /\ UNCHANGED <<procVars, coreVars, running, workerVars, ticking, created,
                   registered, cpc>>

ClockAddNotifies ==
    /\ tpc = "notify_work"
    /\ NotifyOne("queue_wait", "dequeue")
    /\ tpc' = "loop"
    /\ UNCHANGED <<procVars, coreVars, queueVars, held, left, waitFor, ticking,
                   adminVars, cpc>>

ClockStep ==
    \/ ClockLoop \/ ClockTick \/ ClockNotify \/ OnTick
    \/ ClockAddProcess \/ ClockAddNotifies

(***************************************************************************)
(* The console thread: screen -s and screen -c create processes, exit runs *)
(* the tail of main: CPUTicker::Stop, Scheduler::Stop, finalize the rest.  *)
(***************************************************************************)
ConsoleCreate ==
    /\ cpc = "idle"
    /\ \E p \in Process : RegisterNew("console", p)
    /\ cpc' = "push"
    /\ UNCHANGED <<procVars, coreVars, queueVars, workerVars, clockVars>>

ConsoleAddProcess ==
    /\ cpc = "push"
    /\ PushNew("console")
    /\ cpc' = "notify_work"
    /\ UNCHANGED <<procVars, coreVars, running, workerVars, clockVars, created,
                   registered>>

ConsoleAddNotifies ==
    /\ cpc = "notify_work"
    /\ NotifyOne("queue_wait", "dequeue")
    /\ cpc' = "idle"
    /\ UNCHANGED <<procVars, coreVars, queueVars, held, left, waitFor, clockVars,
                   adminVars>>

ExitCommand ==
    /\ cpc = "idle"
    /\ cpc' = "stop_clock"
    /\ UNCHANGED <<procVars, coreVars, queueVars, workerVars, clockVars, adminVars>>

\* Fault: `running` is cleared without tickMutex.
StopClockUnlocked ==
    /\ cpc = "stop_clock"
    /\ ticking' = FALSE
    /\ cpc' = "notify_ticks"
    /\ UNCHANGED <<procVars, coreVars, queueVars, workerVars, tpc, adminVars>>

\* "Must be set under tickMutex" (CPUTicker::Stop).
StopClock ==
    /\ cpc = "stop_clock"
    /\ TickMutexFree
    /\ ticking' = FALSE
    /\ cpc' = "notify_ticks"
    /\ UNCHANGED <<procVars, coreVars, queueVars, workerVars, tpc, adminVars>>

StopClockNotifies ==
    /\ cpc = "notify_ticks"
    /\ NotifyAll("tick_wait", "tick_check")
    /\ cpc' = "join_clock"
    /\ UNCHANGED <<procVars, coreVars, queueVars, held, left, waitFor, clockVars,
                   adminVars>>

JoinClock ==
    /\ cpc = "join_clock"
    /\ tpc = "done"
    /\ cpc' = "stop_workers"
    /\ UNCHANGED <<procVars, coreVars, queueVars, workerVars, clockVars, adminVars>>

\* Fault: the queue keeps what is in it.
StopWorkersWithoutDraining ==
    /\ cpc = "stop_workers"
    /\ running' = FALSE
    /\ cpc' = "notify_stop"
    /\ UNCHANGED <<procVars, coreVars, readyQueue, workerVars, clockVars, adminVars>>

StopWorkers ==
    /\ cpc = "stop_workers"
    /\ running' = FALSE
    /\ readyQueue' = << >>
    /\ cpc' = "notify_stop"
    /\ UNCHANGED <<procVars, coreVars, workerVars, clockVars, adminVars>>

StopWorkersNotifies ==
    /\ cpc = "notify_stop"
    /\ NotifyAll("queue_wait", "dequeue")
    /\ cpc' = "join_workers"
    /\ UNCHANGED <<procVars, coreVars, queueVars, held, left, waitFor, clockVars,
                   adminVars>>

JoinWorkers ==
    /\ cpc = "join_workers"
    /\ Waiting("exited") = Core
    /\ cpc' = "finalize"
    /\ UNCHANGED <<procVars, coreVars, queueVars, workerVars, clockVars, adminVars>>

FinalizeUnfinishedProcesses ==
    /\ cpc = "finalize"
    /\ status' = [p \in Process |-> IF p \in created THEN "Terminated" ELSE status[p]]
    /\ wakeIn' = [p \in Process |-> IF p \in created THEN 0 ELSE wakeIn[p]]
    /\ cpc' = "done"
    /\ UNCHANGED <<program, executed, violated, coreVars, queueVars, workerVars,
                   clockVars, adminVars>>

\* What the console does once it has begun; it need not begin anything.
ConsoleFinishes ==
    \/ ConsoleAddProcess \/ ConsoleAddNotifies
    \/ StopClock \/ StopClockNotifies \/ JoinClock
    \/ StopWorkers \/ StopWorkersNotifies \/ JoinWorkers
    \/ FinalizeUnfinishedProcesses

ConsoleStep == ConsoleCreate \/ ExitCommand \/ ConsoleFinishes

\* The program has returned from main.
Exited == cpc = "done" /\ UNCHANGED vars

Next ==
    \/ \E c \in Core : WorkerStep(c) \/ SpuriousWake(c)
    \/ ClockStep
    \/ ConsoleStep
    \/ Exited

(***************************************************************************)
(* Every thread keeps running, and the console finishes what it started.   *)
(* Nothing forces it to start anything, in particular not to exit.         *)
(***************************************************************************)
Fairness ==
    /\ \A c \in Core : WF_vars(WorkerStep(c))
    /\ WF_vars(ClockStep)
    /\ WF_vars(ConsoleFinishes)

Spec == Init /\ [][Next]_vars /\ Fairness

-----------------------------------------------------------------------------
OffCore == {"dequeue", "queue_wait", "wake", "prepare", "requeue", "notify",
            "start", "finalize", "exited"}
Executing == {"fetch", "tick_check", "tick_sleep", "tick_wait", "execute"}
OnCore == Executing \cup {"after", "finish"}

\* Every variable stays in its range.
TypeOK ==
    /\ program \in [Process -> Programs]
    /\ status \in [Process -> {"Ready", "Running", "Sleeping", "Terminated"}]
    /\ executed \in [Process -> Nat]
    /\ violated \subseteq Process
    /\ wakeIn \in [Process -> 0..SleepTicks]
    /\ created \subseteq Process
    /\ registered \subseteq created
    /\ readyQueue \in Seq(Process)
    /\ running \in BOOLEAN
    /\ coreBusy \subseteq Core
    /\ availableCores \in 0..Cardinality(Core)
    /\ pc \in [Core -> OffCore \cup OnCore]
    /\ held \in [Core -> Process \cup {NoProcess}]
    /\ left \in [Core -> 0..Quantum]
    /\ waitFor \in [Core -> 0..(DelaysPerExec + 1)]
    /\ ticking \in BOOLEAN
    /\ tpc \in {"loop", "tick", "notify_ticks", "on_tick", "push", "notify_work", "done"}
    /\ cpc \in {"idle", "push", "notify_work", "stop_clock", "notify_ticks",
                "join_clock", "stop_workers", "notify_stop", "join_workers",
                "finalize", "done"}
    /\ adding \in [Creator -> Process \cup {NoProcess}]

Queued == {readyQueue[i] : i \in 1..Len(readyQueue)}
Held == {held[c] : c \in Core} \ {NoProcess}
Added == {adding[t] : t \in Creator} \ {NoProcess}

\* A process is in one place only: once in the ready queue, or with one worker, or
\* with the thread that creates it.  So no two cores ever execute one process.
SinglePlace ==
    /\ \A i, j \in 1..Len(readyQueue) : readyQueue[i] = readyQueue[j] => i = j
    /\ \A c, d \in Core : held[c] = held[d] /\ held[c] # NoProcess => c = d
    /\ \A t, u \in Creator : adding[t] = adding[u] /\ adding[t] # NoProcess => t = u
    /\ Queued \cap Held = {} /\ Queued \cap Added = {} /\ Held \cap Added = {}

\* While the scheduler runs, a created process is in its queue, with a worker or
\* about to be queued, until it has terminated and its memory is released.
NothingLost ==
    running => \A p \in created :
        \/ p \in Queued \cup Held \cup Added
        \/ status[p] = "Terminated" /\ p \notin registered

\* No interleaving of workers, creators and shutdown duplicates or drops a process:
\* it is in exactly one place until it has ended (Scheduler::RunScheduler).
InOnePlace == SinglePlace /\ NothingLost

\* A queued or dequeued process owns its memory until FinalizeProcess, so the check
\* of PrepareProcessForExecution never sends one round the queue for ever.
RunnableRegistered == Queued \cup Held \cup Added \subseteq registered

\* CPUManager's counter and flags agree with the threads: a core is busy exactly
\* while its worker is inside an EITThread that has started its process.
CoreAccounting ==
    /\ coreBusy = {c \in Core : pc[c] \in OnCore}
    /\ availableCores = Cardinality(Core) - Cardinality(coreBusy)

\* A process is Running exactly while a worker executes it; only a scheduler that
\* is stopped under FCFS leaves one behind as Running.
RunningOnCore ==
    /\ \A c \in Core : pc[c] \in Executing => status[held[c]] = "Running"
    /\ \A p \in Process : running /\ status[p] = "Running" =>
          \E c \in Core : held[c] = p /\ pc[c] \in OnCore

\* Nothing runs, or is offered for running, before its wake tick.
NoRunWhileAsleep == \A p \in Process : status[p] # "Sleeping" => wakeIn[p] = 0

PendingNotifies ==
    Cardinality(Waiting("notify"))
    + (IF tpc = "notify_work" THEN 1 ELSE 0) + (IF cpc = "notify_work" THEN 1 ELSE 0)

\* No lost wake-up: while a worker sleeps on queueCondition, every queued process
\* has a worker on its way to the queue or a notification still to be sent.
WorkConserving ==
    Waiting("queue_wait") # {} =>
        Len(readyQueue) <= Cardinality(Waiting("dequeue")) + PendingNotifies

\* Once stopped, nothing is queued again, and workers leave one by one.
StoppedStaysEmpty == ~running => readyQueue = << >>

\* "Process terminated." (ReadInstruction.cpp): a process that made an access
\* violation is Terminated and stays so.
ViolatedIsTerminated == \A p \in violated : status[p] = "Terminated"

\* Once Terminated a process keeps its status and executes no further command.
TerminatedForGood ==
    [][\A p \in Process : status[p] = "Terminated" =>
          status'[p] = "Terminated" /\ executed'[p] = executed[p]]_vars

\* Every process that is created terminates, whatever else runs beside it.
EveryProcessTerminates ==
    \A p \in Process : p \in created ~> status[p] = "Terminated"

\* exit always gets to the end of main: no worker and no clock thread stays parked
\* in a wait while the console joins it.
ShutdownCompletes == cpc = "stop_clock" ~> cpc = "done"
=============================================================================
