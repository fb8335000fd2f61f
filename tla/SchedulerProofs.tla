-------------------------- MODULE SchedulerProofs ---------------------------
(***************************************************************************)
(* Proofs about Scheduler: the safety invariants of the worker threads,    *)
(* the clock and the console, for any number of processes and cores, any   *)
(* programs, both algorithms, with and without spurious wake-ups.          *)
(***************************************************************************)
EXTENDS Scheduler, FiniteSetTheorems, TLAPS

EmptyHanded == {"dequeue", "queue_wait", "notify", "exited"}

\* A worker holds a process from Dequeue to RequeueProcess or FinalizeProcess.
HeldMatches == \A c \in Core : held[c] = NoProcess <=> pc[c] \in EmptyHanded

\* A creating thread holds its process from RegisterNew to PushNew.
AddingMatches ==
    /\ adding["clock"] = NoProcess <=> tpc # "push"
    /\ adding["console"] = NoProcess <=> cpc # "push"

Waking == {"Ready", "Sleeping"}

\* The statuses a process may have at each place of the worker that holds it.
StatusFits(c) ==
    /\ pc[c] \in {"wake", "requeue"} => status[held[c]] \in Waking
    /\ pc[c] \in {"prepare", "start"} => status[held[c]] = "Ready"
    /\ pc[c] \in Executing \cup {"finish"} => status[held[c]] = "Running"
    /\ pc[c] = "after" => status[held[c]] # "Ready"
    /\ pc[c] = "finalize" /\ running => status[held[c]] = "Terminated"

StatusAtWorker == \A c \in Core : StatusFits(c)

\* ... and where no worker holds it.
StatusElsewhere ==
    /\ \A p \in Queued : status[p] \in Waking
    /\ \A p \in Added : status[p] = "Ready"
    /\ \A p \in Process \ created : status[p] = "Ready"

\* An RR worker with a command to execute has a command left in its slice.
SliceLeft == Algorithm = "RR" => \A c \in Core : pc[c] \in Executing => left[c] > 0

\* main stops and joins the clock, then the workers, then finalizes the rest.
ShutdownOrder ==
    /\ cpc \in {"stop_workers", "notify_stop", "join_workers", "finalize", "done"}
          => tpc = "done"
    /\ running <=> cpc \notin {"notify_stop", "join_workers", "finalize", "done"}
    /\ cpc \in {"finalize", "done"} => \A c \in Core : pc[c] = "exited"

SchedulerInv ==
    /\ TypeOK /\ HeldMatches /\ AddingMatches
    /\ StatusAtWorker /\ StatusElsewhere /\ SliceLeft /\ ShutdownOrder
    /\ SinglePlace /\ NothingLost /\ RunnableRegistered
    /\ CoreAccounting /\ RunningOnCore /\ NoRunWhileAsleep
    /\ WorkConserving /\ StoppedStaysEmpty

-----------------------------------------------------------------------------
(***************************************************************************)
(* The definitions that only group variables are always visible.           *)
(***************************************************************************)
USE DEF procVars, coreVars, queueVars, workerVars, clockVars, adminVars

(***************************************************************************)
(* Where processes are: what taking and putting does to the three places.  *)
(***************************************************************************)
NoRepeats(q) == \A i, j \in 1..Len(q) : q[i] = q[j] => i = j

LEMMA Dequeued ==
  ASSUME readyQueue \in Seq(Process), readyQueue # << >>, NoRepeats(readyQueue),
         readyQueue' = Tail(readyQueue)
  PROVE  /\ Head(readyQueue) \in Queued
         /\ Queued' = Queued \ {Head(readyQueue)}
         /\ NoRepeats(readyQueue')
<1>1. /\ Len(readyQueue) \in Nat \ {0}
      /\ Head(readyQueue) = readyQueue[1]
      /\ Len(readyQueue') = Len(readyQueue) - 1
      /\ \A i \in 1..Len(readyQueue') : readyQueue'[i] = readyQueue[i + 1]
  OBVIOUS
<1>2. Head(readyQueue) \in Queued
  BY <1>1 DEF Queued
<1>3. Queued' \subseteq Queued \ {Head(readyQueue)}
  BY <1>1 DEF Queued, NoRepeats
<1>4. ASSUME NEW i \in 1..Len(readyQueue), readyQueue[i] # Head(readyQueue)
      PROVE  readyQueue[i] \in Queued'
  <2>1. i - 1 \in 1..Len(readyQueue') /\ readyQueue'[i - 1] = readyQueue[i]
    BY <1>1, <1>4
  <2> QED
    BY <2>1 DEF Queued
<1>5. NoRepeats(readyQueue')
  BY <1>1 DEF NoRepeats
<1> QED
  BY <1>2, <1>3, <1>4, <1>5 DEF Queued

LEMMA Enqueued ==
  ASSUME readyQueue \in Seq(Process), NEW p \in Process,
         readyQueue' = Append(readyQueue, p)
  PROVE  /\ Queued' = Queued \cup {p}
         /\ p \notin Queued /\ NoRepeats(readyQueue) => NoRepeats(readyQueue')
<1>1. /\ Len(readyQueue) \in Nat
      /\ Len(readyQueue') = Len(readyQueue) + 1
      /\ \A i \in 1..Len(readyQueue) : readyQueue'[i] = readyQueue[i]
      /\ readyQueue'[Len(readyQueue) + 1] = p
  OBVIOUS
<1>2. 1..Len(readyQueue') = 1..Len(readyQueue) \cup {Len(readyQueue) + 1}
  BY <1>1
<1>3. Queued' = Queued \cup {p}
  BY <1>1, <1>2 DEF Queued
<1>4. p \notin Queued /\ NoRepeats(readyQueue) => NoRepeats(readyQueue')
  BY <1>1, <1>2 DEF Queued, NoRepeats
<1> QED
  BY <1>3, <1>4

HeldOnce == \A c, d \in Core : held[c] = held[d] /\ held[c] # NoProcess => c = d
AddedOnce == \A t, u \in Creator : adding[t] = adding[u] /\ adding[t] # NoProcess => t = u

LEMMA Taken ==
  ASSUME held \in [Core -> Process \cup {NoProcess}], HeldOnce,
         NEW c \in Core, held[c] = NoProcess, NEW p \in Process \ Held,
         held' = [held EXCEPT ![c] = p]
  PROVE  Held' = Held \cup {p} /\ HeldOnce'
<1>1. held'[c] = p /\ \A d \in Core \ {c} : held'[d] = held[d]
  OBVIOUS
<1>2. p # NoProcess
  BY NoProcessAssumption
<1>3. Held' = Held \cup {p}
  BY <1>1, <1>2 DEF Held
<1>4. HeldOnce'
  BY <1>1, <1>2 DEF Held, HeldOnce
<1> QED
  BY <1>3, <1>4

LEMMA LetGo ==
  ASSUME held \in [Core -> Process \cup {NoProcess}], HeldOnce,
         NEW c \in Core, held[c] # NoProcess,
         held' = [held EXCEPT ![c] = NoProcess]
  PROVE  /\ held[c] \in Held
         /\ Held' = Held \ {held[c]}
         /\ HeldOnce'
<1>1. held'[c] = NoProcess /\ \A d \in Core \ {c} : held'[d] = held[d]
  OBVIOUS
<1>2. Held' = Held \ {held[c]}
  BY <1>1 DEF Held, HeldOnce
<1>3. HeldOnce'
  BY <1>1 DEF HeldOnce
<1> QED
  BY <1>2, <1>3 DEF Held

LEMMA Registered ==
  ASSUME adding \in [Creator -> Process \cup {NoProcess}], AddedOnce,
         NEW t \in Creator, adding[t] = NoProcess, NEW p \in Process \ Added,
         adding' = [adding EXCEPT ![t] = p]
  PROVE  Added' = Added \cup {p} /\ AddedOnce'
<1>1. adding'[t] = p /\ \A u \in Creator \ {t} : adding'[u] = adding[u]
  OBVIOUS
<1>2. p # NoProcess
  BY NoProcessAssumption
<1>3. Added' = Added \cup {p}
  BY <1>1, <1>2 DEF Added
<1>4. AddedOnce'
  BY <1>1, <1>2 DEF Added, AddedOnce
<1> QED
  BY <1>3, <1>4

LEMMA HandedOver ==
  ASSUME adding \in [Creator -> Process \cup {NoProcess}], AddedOnce,
         NEW t \in Creator, adding[t] # NoProcess,
         adding' = [adding EXCEPT ![t] = NoProcess]
  PROVE  /\ adding[t] \in Added
         /\ Added' = Added \ {adding[t]}
         /\ AddedOnce'
<1>1. adding'[t] = NoProcess /\ \A u \in Creator \ {t} : adding'[u] = adding[u]
  OBVIOUS
<1>2. Added' = Added \ {adding[t]}
  BY <1>1 DEF Added, AddedOnce
<1>3. AddedOnce'
  BY <1>1 DEF AddedOnce
<1> QED
  BY <1>2, <1>3 DEF Added

(***************************************************************************)
(* CPUManager: the counter follows the flags.                              *)
(***************************************************************************)
LEMMA CoresFinite ==
  /\ Cardinality(Core) \in Nat
  /\ \A S \in SUBSET Core : /\ IsFiniteSet(S)
                            /\ Cardinality(S) \in 0..Cardinality(Core)
BY CoreAssumption, FS_Subset, FS_CardinalityType

CoresCounted == availableCores = Cardinality(Core) - Cardinality(coreBusy)

LEMMA Acquired ==
  ASSUME coreBusy \subseteq Core, CoresCounted, NEW c \in Core, AcquireCore(c)
  PROVE  /\ coreBusy' = coreBusy \cup {c}
         /\ availableCores' \in 0..Cardinality(Core) /\ CoresCounted'
<1>1. coreBusy' = coreBusy \cup {c}
  BY DEF AcquireCore
<1>2. CoresCounted'
  BY CoresFinite, FS_AddElement DEF AcquireCore, CoresCounted
<1>3. coreBusy' \in SUBSET Core
  BY <1>1
<1> QED
  BY <1>1, <1>2, <1>3, CoresFinite DEF CoresCounted

LEMMA Released ==
  ASSUME coreBusy \subseteq Core, CoresCounted, NEW c \in Core, ReleaseCore(c)
  PROVE  /\ coreBusy' = coreBusy \ {c}
         /\ availableCores' \in 0..Cardinality(Core) /\ CoresCounted'
<1>1. coreBusy' = coreBusy \ {c}
  BY DEF ReleaseCore
<1>2. CoresCounted'
  BY CoresFinite, FS_RemoveElement DEF ReleaseCore, CoresCounted
<1>3. coreBusy' \in SUBSET Core
  BY <1>1
<1> QED
  BY <1>1, <1>2, <1>3, CoresFinite DEF CoresCounted

-----------------------------------------------------------------------------
(***************************************************************************)
(* What a worker knows of the process it holds.                            *)
(***************************************************************************)
LEMMA Holding ==
  ASSUME SchedulerInv, NEW c \in Core, pc[c] \notin EmptyHanded
  PROVE  /\ held[c] \in Process /\ held[c] # NoProcess
         /\ held[c] \in Held /\ held[c] \in created
         /\ held[c] \notin Queued /\ held[c] \notin Added
         /\ \A d \in Core \ {c} : held[d] # held[c]
<1>1. held[c] \in Process /\ held[c] # NoProcess
  BY DEF SchedulerInv, TypeOK, HeldMatches
<1>2. held[c] \in Held
  BY <1>1 DEF Held
<1>3. held[c] \in created
  BY <1>2 DEF SchedulerInv, RunnableRegistered, TypeOK
<1> QED
  BY <1>1, <1>2, <1>3 DEF SchedulerInv, SinglePlace

\* How a worker leaves AfterCommand: in its slice, or off its core.
LEMMA AfterOutcomes ==
  ASSUME NEW c \in Core, AfterCommand(c)
  PROVE  \/ Keep(c) /\ Unfinished(c) /\ (Algorithm = "RR" => left[c] > 0)
         \/ LeaveCore(c, "Sleeping", "requeue") /\ status[held[c]] = "Sleeping"
         \/ LeaveCore(c, "Ready", "requeue") /\ Unfinished(c)
         \/ LeaveCore(c, "Terminated", "finalize")
         \/ LeaveCore(c, status[held[c]], "finalize") /\ ~running /\ Unfinished(c)
BY DEF AfterCommand, AfterSleep, AfterViolation, AfterFCFS, AfterRR, Terminate

(***************************************************************************)
(* Types.                                                                  *)
(***************************************************************************)
LEMMA LeaveCoreTyped ==
  ASSUME SchedulerInv, NEW c \in Core, pc[c] \in OnCore, NEW loc \in OffCore,
         NEW st \in {"Ready", "Running", "Sleeping", "Terminated"},
         LeaveCore(c, st, loc)
  PROVE  /\ coreBusy' \subseteq Core /\ availableCores' \in 0..Cardinality(Core)
         /\ status' \in [Process -> {"Ready", "Running", "Sleeping", "Terminated"}]
         /\ wakeIn' \in [Process -> 0..SleepTicks]
         /\ pc' \in [Core -> OffCore \cup OnCore]
<1>1. TypeOK /\ coreBusy \subseteq Core /\ CoresCounted
  BY DEF SchedulerInv, TypeOK, CoreAccounting, CoresCounted
<1>2. held[c] \in Process
  BY Holding DEF OnCore, Executing, EmptyHanded
<1>3. coreBusy' \subseteq Core /\ availableCores' \in 0..Cardinality(Core)
  BY <1>1, Released DEF LeaveCore
<1>4. status' \in [Process -> {"Ready", "Running", "Sleeping", "Terminated"}]
  BY <1>1, <1>2 DEF TypeOK, LeaveCore
<1>5. wakeIn' \in [Process -> 0..SleepTicks]
  BY <1>1, <1>2, TicksAssumption DEF TypeOK, LeaveCore
<1>6. pc' \in [Core -> OffCore \cup OnCore]
  BY <1>1 DEF TypeOK, LeaveCore, Goto
<1> QED
  BY <1>3, <1>4, <1>5, <1>6

LEMMA WorkerTyped ==
  ASSUME SchedulerInv, NEW c \in Core, WorkerStep(c) \/ SpuriousWake(c)
  PROVE  TypeOK'
<1>0. TypeOK
  BY DEF SchedulerInv
<1> USE DEF TypeOK, Goto, OffCore, OnCore, Executing
<1>1. CASE Dequeue(c)
  BY <1>0, <1>1 DEF Dequeue
<1>2. CASE DequeueWaits(c)
  BY <1>0, <1>2 DEF DequeueWaits
<1>3. CASE WakeIfReady(c)
  BY <1>0, <1>3 DEF WakeIfReady
<1>4. CASE PrepareProcessForExecution(c)
  BY <1>0, <1>4 DEF PrepareProcessForExecution
<1>5. CASE RequeueProcess(c)
  <2>1. held[c] \in Process
    BY <1>5, Holding DEF RequeueProcess, EmptyHanded
  <2>2. readyQueue' \in {readyQueue, Append(readyQueue, held[c])}
    BY <1>5 DEF RequeueProcess
  <2>3. Append(readyQueue, held[c]) \in Seq(Process)
    BY <1>0, <2>1
  <2>4. readyQueue' \in Seq(Process)
    BY <1>0, <2>2, <2>3
  <2>5. pc' \in [Core -> OffCore \cup OnCore]
    BY <1>0, <1>5 DEF RequeueProcess
  <2> QED
    BY <1>0, <1>5, <2>4, <2>5 DEF RequeueProcess
<1>6. CASE RequeueNotifies(c)
  BY <1>0, <1>6 DEF RequeueNotifies
<1>7. CASE FinalizeProcess(c)
  BY <1>0, <1>7 DEF FinalizeProcess
<1>8. CASE EnsureStarted(c)
  <2>1. /\ coreBusy' \subseteq Core
        /\ availableCores' \in 0..Cardinality(Core)
    BY <1>0, <1>8, Acquired DEF EnsureStarted, SchedulerInv, CoreAccounting, CoresCounted
  <2>2. status' \in [Process -> {"Ready", "Running", "Sleeping", "Terminated"}]
    BY <1>0, <1>8 DEF EnsureStarted
  <2>3. left' \in [Core -> 0..Quantum]
    BY <1>0, <1>8, QuantumAssumption DEF EnsureStarted
  <2> QED
    BY <1>0, <1>8, <2>1, <2>2, <2>3 DEF EnsureStarted
<1>9. CASE FetchCommand(c)
  <2>1. waitFor' \in [Core -> 0..(DelaysPerExec + 1)]
    BY <1>0, <1>9, TicksAssumption DEF FetchCommand
  <2>2. pc' \in [Core -> OffCore \cup OnCore]
    BY <1>0, <1>9 DEF FetchCommand
  <2> QED
    BY <1>0, <1>9, <2>1, <2>2 DEF FetchCommand
<1>10. CASE TickCheck(c)
  <2>1. waitFor' \in [Core -> 0..(DelaysPerExec + 1)]
    BY <1>0, <1>10, TicksAssumption DEF TickCheck
  <2>2. pc' \in [Core -> OffCore \cup OnCore]
    BY <1>0, <1>10 DEF TickCheck
  <2> QED
    BY <1>0, <1>10, <2>1, <2>2 DEF TickCheck
<1>11. CASE TickSleep(c)
  BY <1>0, <1>11 DEF TickSleep
<1>12. CASE ExecuteCommand(c)
  <2>1. held[c] \in Process
    BY <1>12, Holding DEF ExecuteCommand, EmptyHanded
  <2>2. Algorithm = "RR" => left[c] > 0
    BY <1>12 DEF ExecuteCommand, SchedulerInv, SliceLeft
  <2>3. left' \in [Core -> 0..Quantum]
    BY <1>0, <1>12, <2>2, QuantumAssumption DEF ExecuteCommand
  <2>4. wakeIn' \in [Process -> 0..SleepTicks]
    BY <1>0, <1>12, <2>1, TicksAssumption DEF ExecuteCommand
  <2>5. status' \in [Process -> {"Ready", "Running", "Sleeping", "Terminated"}]
    BY <1>0, <1>12, <2>1 DEF ExecuteCommand
  <2>6. violated' \subseteq Process /\ executed' \in [Process -> Nat]
    BY <1>0, <1>12, <2>1 DEF ExecuteCommand
  <2>7. pc' \in [Core -> OffCore \cup OnCore]
    BY <1>0, <1>12 DEF ExecuteCommand
  <2> QED
    BY <1>0, <1>12, <2>3, <2>4, <2>5, <2>6, <2>7 DEF ExecuteCommand
<1>13. CASE AfterCommand(c)
  <2>1. pc[c] \in OnCore /\ held[c] \in Process
    BY <1>13, Holding DEF AfterCommand, EmptyHanded
  <2>2. CASE Keep(c)
    BY <1>0, <1>13, <2>2 DEF AfterCommand, Keep
  <2>3. CASE \E st \in {"Ready", "Running", "Sleeping", "Terminated"} :
               \E loc \in {"requeue", "finalize"} : LeaveCore(c, st, loc)
    BY <1>0, <1>13, <2>1, <2>3, LeaveCoreTyped DEF AfterCommand
  <2>4. status[held[c]] \in {"Ready", "Running", "Sleeping", "Terminated"}
    BY <1>0, <2>1
  <2> QED
    BY <1>13, <2>2, <2>3, <2>4, AfterOutcomes
<1>14. CASE Finish(c)
  BY <1>0, <1>14, LeaveCoreTyped DEF Finish, Terminate
<1>15. CASE SpuriousWake(c)
  BY <1>0, <1>15 DEF SpuriousWake
<1> QED
  BY <1>1, <1>2, <1>3, <1>4, <1>5, <1>6, <1>7, <1>8, <1>9, <1>10, <1>11, <1>12,
     <1>13, <1>14, <1>15 DEF WorkerStep

\* What RegisterNew, PushNew and the notifications leave typed, for either creator.
LEMMA CreationTyped ==
  ASSUME SchedulerInv, NEW t \in Creator
  PROVE  /\ \A p \in Process : RegisterNew(t, p) =>
              /\ created' \subseteq Process /\ registered' \subseteq created'
              /\ adding' \in [Creator -> Process \cup {NoProcess}]
         /\ adding[t] # NoProcess /\ PushNew(t) =>
              /\ readyQueue' \in Seq(Process)
              /\ adding' \in [Creator -> Process \cup {NoProcess}]
<1>1. TypeOK
  BY DEF SchedulerInv
<1>2. ASSUME NEW p \in Process, RegisterNew(t, p)
      PROVE  /\ created' \subseteq Process /\ registered' \subseteq created'
             /\ adding' \in [Creator -> Process \cup {NoProcess}]
  BY <1>1, <1>2 DEF TypeOK, RegisterNew
<1>3. ASSUME adding[t] # NoProcess, PushNew(t)
      PROVE  /\ readyQueue' \in Seq(Process)
             /\ adding' \in [Creator -> Process \cup {NoProcess}]
  <2>1. adding[t] \in Process
    BY <1>1, <1>3 DEF TypeOK
  <2> QED
    BY <1>1, <1>3, <2>1 DEF TypeOK, PushNew
<1> QED
  BY <1>2, <1>3

LEMMA NotifyTyped ==
  ASSUME TypeOK, NEW loc, NEW again \in OffCore \cup OnCore,
         NotifyOne(loc, again) \/ NotifyAll(loc, again)
  PROVE  pc' \in [Core -> OffCore \cup OnCore]
<1> USE DEF TypeOK
<1>1. CASE NotifyOne(loc, again)
  BY <1>1 DEF NotifyOne, Waiting
<1>2. CASE NotifyAll(loc, again)
  BY <1>2 DEF NotifyAll
<1> QED
  BY <1>1, <1>2

LEMMA ClockTyped ==
  ASSUME SchedulerInv, ClockStep
  PROVE  TypeOK'
<1>0. TypeOK
  BY DEF SchedulerInv
<1> "dequeue" \in OffCore \cup OnCore /\ "tick_check" \in OffCore \cup OnCore
  BY DEF OffCore, OnCore, Executing
<1>1. CASE ClockLoop
  BY <1>0, <1>1 DEF TypeOK, ClockLoop
<1>2. CASE ClockTick
  <2>1. wakeIn' \in [Process -> 0..SleepTicks]
    BY <1>0, <1>2, TicksAssumption DEF TypeOK, ClockTick, CountDown
  <2>2. waitFor' \in [Core -> 0..(DelaysPerExec + 1)]
    BY <1>0, <1>2, TicksAssumption DEF TypeOK, ClockTick, CountDown
  <2> QED
    BY <1>0, <1>2, <2>1, <2>2 DEF TypeOK, ClockTick
<1>3. CASE ClockNotify
  BY <1>0, <1>3, NotifyTyped DEF TypeOK, ClockNotify
<1>4. CASE OnTick
  BY <1>0, <1>4, CreationTyped DEF TypeOK, OnTick, Creator
<1>5. CASE ClockAddProcess
  <2>1. adding["clock"] # NoProcess
    BY <1>5 DEF ClockAddProcess, SchedulerInv, AddingMatches
  <2> QED
    BY <1>0, <1>5, <2>1, CreationTyped DEF TypeOK, ClockAddProcess, Creator
<1>6. CASE ClockAddNotifies
  BY <1>0, <1>6, NotifyTyped DEF TypeOK, ClockAddNotifies
<1> QED
  BY <1>1, <1>2, <1>3, <1>4, <1>5, <1>6 DEF ClockStep

LEMMA ConsoleTyped ==
  ASSUME SchedulerInv, ConsoleStep
  PROVE  TypeOK'
<1>0. TypeOK
  BY DEF SchedulerInv
<1> "dequeue" \in OffCore \cup OnCore /\ "tick_check" \in OffCore \cup OnCore
  BY DEF OffCore, OnCore, Executing
<1>1. CASE ConsoleCreate
  BY <1>0, <1>1, CreationTyped DEF TypeOK, ConsoleCreate, Creator
<1>2. CASE ConsoleAddProcess
  <2>1. adding["console"] # NoProcess
    BY <1>2 DEF ConsoleAddProcess, SchedulerInv, AddingMatches
  <2> QED
    BY <1>0, <1>2, <2>1, CreationTyped DEF TypeOK, ConsoleAddProcess, Creator
<1>3. CASE ConsoleAddNotifies
  BY <1>0, <1>3, NotifyTyped DEF TypeOK, ConsoleAddNotifies
<1>4. CASE ExitCommand \/ StopClock \/ JoinClock \/ JoinWorkers
  BY <1>0, <1>4 DEF TypeOK, ExitCommand, StopClock, JoinClock, JoinWorkers
<1>5. CASE StopClockNotifies
  BY <1>0, <1>5, NotifyTyped DEF TypeOK, StopClockNotifies
<1>6. CASE StopWorkers
  <2>1. readyQueue' \in Seq(Process)
    BY <1>6 DEF StopWorkers
  <2> QED
    BY <1>0, <1>6, <2>1 DEF TypeOK, StopWorkers
<1>7. CASE StopWorkersNotifies
  BY <1>0, <1>7, NotifyTyped DEF TypeOK, StopWorkersNotifies
<1>8. CASE FinalizeUnfinishedProcesses
  BY <1>0, <1>8, TicksAssumption DEF TypeOK, FinalizeUnfinishedProcesses
<1> QED
  BY <1>1, <1>2, <1>3, <1>4, <1>5, <1>6, <1>7, <1>8 DEF ConsoleStep, ConsoleFinishes

LEMMA NextTyped == SchedulerInv /\ [Next]_vars => TypeOK'
<1> SUFFICES ASSUME SchedulerInv, [Next]_vars PROVE TypeOK'
  OBVIOUS
<1>1. CASE UNCHANGED vars
  BY <1>1 DEF vars, SchedulerInv, TypeOK
<1> QED
  BY <1>1, WorkerTyped, ClockTyped, ConsoleTyped DEF Next, Exited

-----------------------------------------------------------------------------
(***************************************************************************)
(* Threads and what they hold.                                             *)
(***************************************************************************)
\* The other threads move workers only by notifying them.
LEMMA OthersNotify ==
  ASSUME ClockStep \/ ConsoleStep \/ UNCHANGED vars
  PROVE  /\ UNCHANGED <<held, left, coreVars, violated, executed, program>>
         /\ \/ pc' = pc
            \/ \E l \in {<<"queue_wait", "dequeue">>, <<"tick_wait", "tick_check">>} :
                 NotifyOne(l[1], l[2]) \/ NotifyAll(l[1], l[2])
BY DEF ClockStep, ClockLoop, ClockTick, ClockNotify, OnTick, ClockAddProcess,
   ClockAddNotifies, ConsoleStep, ConsoleFinishes, ConsoleCreate, ExitCommand,
   ConsoleAddProcess, ConsoleAddNotifies, StopClock, StopClockNotifies,
   JoinClock, StopWorkers, StopWorkersNotifies, JoinWorkers,
   FinalizeUnfinishedProcesses, vars

LEMMA NextHeldMatches == SchedulerInv /\ [Next]_vars => HeldMatches'
<1> SUFFICES ASSUME SchedulerInv, [Next]_vars, NEW d \in Core
             PROVE  (held[d] = NoProcess <=> pc[d] \in EmptyHanded)'
  BY DEF HeldMatches
<1>0. /\ held \in [Core -> Process \cup {NoProcess}]
      /\ pc \in [Core -> OffCore \cup OnCore]
      /\ readyQueue \in Seq(Process)
      /\ \A c \in Core : held[c] = NoProcess <=> pc[c] \in EmptyHanded
  BY DEF SchedulerInv, TypeOK, HeldMatches
<1> USE DEF EmptyHanded, Goto
<1>1. ASSUME NEW c \in Core, Dequeue(c)
      PROVE  (held[d] = NoProcess <=> pc[d] \in EmptyHanded)'
  <2>1. Head(readyQueue) # NoProcess
    BY <1>0, <1>1, NoProcessAssumption DEF Dequeue
  <2> QED
    BY <1>0, <1>1, <2>1 DEF Dequeue
<1>2. ASSUME NEW c \in Core, RequeueProcess(c) \/ FinalizeProcess(c)
      PROVE  (held[d] = NoProcess <=> pc[d] \in EmptyHanded)'
  BY <1>0, <1>2 DEF RequeueProcess, FinalizeProcess
<1>3. ASSUME NEW c \in Core, DequeueWaits(c) \/ RequeueNotifies(c) \/ SpuriousWake(c)
      PROVE  (held[d] = NoProcess <=> pc[d] \in EmptyHanded)'
  BY <1>0, <1>3 DEF DequeueWaits, RequeueNotifies, SpuriousWake, Waiting
<1>4. ASSUME NEW c \in Core,
             WakeIfReady(c) \/ PrepareProcessForExecution(c) \/ EnsureStarted(c)
      PROVE  (held[d] = NoProcess <=> pc[d] \in EmptyHanded)'
  BY <1>0, <1>4 DEF WakeIfReady, PrepareProcessForExecution, EnsureStarted
<1>5. ASSUME NEW c \in Core, FetchCommand(c) \/ TickCheck(c) \/ TickSleep(c)
      PROVE  (held[d] = NoProcess <=> pc[d] \in EmptyHanded)'
  BY <1>0, <1>5 DEF FetchCommand, TickCheck, TickSleep
<1>6. ASSUME NEW c \in Core, ExecuteCommand(c)
      PROVE  (held[d] = NoProcess <=> pc[d] \in EmptyHanded)'
  BY <1>0, <1>6 DEF ExecuteCommand
<1>7. ASSUME NEW c \in Core, AfterCommand(c) \/ Finish(c)
      PROVE  (held[d] = NoProcess <=> pc[d] \in EmptyHanded)'
  <2>1. /\ pc[c] \in {"after", "finish"} /\ held' = held
        /\ \E loc \in {"fetch", "requeue", "finalize"} : Goto(c, loc)
    BY <1>7, AfterOutcomes DEF AfterCommand, Finish, Terminate, Keep, LeaveCore
  <2> QED
    BY <1>0, <2>1
<1>8. CASE ClockStep \/ ConsoleStep \/ UNCHANGED vars
  BY <1>0, <1>8, OthersNotify DEF NotifyOne, NotifyAll, Waiting
<1> QED
  BY <1>1, <1>2, <1>3, <1>4, <1>5, <1>6, <1>7, <1>8 DEF Next, WorkerStep, Exited

\* What the threads other than the workers do not touch.
LEMMA WorkersLeaveAlone ==
  ASSUME NEW c \in Core, WorkerStep(c) \/ SpuriousWake(c)
  PROVE  UNCHANGED <<program, created, running, clockVars, adding, cpc>>
<1>1. CASE \/ Dequeue(c) \/ DequeueWaits(c) \/ WakeIfReady(c)
           \/ PrepareProcessForExecution(c) \/ RequeueProcess(c)
           \/ RequeueNotifies(c) \/ FinalizeProcess(c)
  BY <1>1 DEF Dequeue, DequeueWaits, WakeIfReady, PrepareProcessForExecution,
     RequeueProcess, RequeueNotifies, FinalizeProcess
<1>2. CASE \/ EnsureStarted(c) \/ FetchCommand(c) \/ TickCheck(c) \/ TickSleep(c)
           \/ ExecuteCommand(c) \/ AfterCommand(c) \/ Finish(c) \/ SpuriousWake(c)
  BY <1>2 DEF EnsureStarted, FetchCommand, TickCheck, TickSleep, ExecuteCommand,
     AfterCommand, Finish, SpuriousWake
<1> QED
  BY <1>1, <1>2 DEF WorkerStep

LEMMA NextAddingMatches == SchedulerInv /\ [Next]_vars => AddingMatches'
<1> SUFFICES ASSUME SchedulerInv, [Next]_vars PROVE AddingMatches'
  OBVIOUS
<1>0. AddingMatches /\ adding \in [Creator -> Process \cup {NoProcess}]
  BY DEF SchedulerInv, TypeOK
<1> USE DEF AddingMatches
<1>1. ASSUME NEW c \in Core, WorkerStep(c) \/ SpuriousWake(c) PROVE AddingMatches'
  BY <1>0, <1>1, WorkersLeaveAlone
<1>2. CASE OnTick \/ ConsoleCreate
  BY <1>0, <1>2, NoProcessAssumption DEF OnTick, ConsoleCreate, RegisterNew, Creator
<1>3. CASE ClockAddProcess \/ ConsoleAddProcess
  BY <1>0, <1>3 DEF ClockAddProcess, ConsoleAddProcess, PushNew, Creator
<1>4. CASE ClockLoop \/ ClockTick \/ ClockNotify \/ ClockAddNotifies
  BY <1>0, <1>4 DEF ClockLoop, ClockTick, ClockNotify, ClockAddNotifies
<1>5. CASE ExitCommand \/ ConsoleAddNotifies \/ StopClock \/ StopClockNotifies \/ JoinClock
  BY <1>0, <1>5 DEF ExitCommand, ConsoleAddNotifies, StopClock, StopClockNotifies, JoinClock
<1>6. CASE \/ StopWorkers \/ StopWorkersNotifies \/ JoinWorkers
           \/ FinalizeUnfinishedProcesses \/ UNCHANGED vars
  BY <1>0, <1>6 DEF StopWorkers, StopWorkersNotifies, JoinWorkers,
     FinalizeUnfinishedProcesses, vars
<1> QED
  BY <1>1, <1>2, <1>3, <1>4, <1>5, <1>6
  DEF Next, ClockStep, ConsoleStep, ConsoleFinishes, Exited

\* A worker that has exited has no step, and is not notified.
LEMMA ExitedForGood ==
  ASSUME TypeOK, [Next]_vars, NEW d \in Core, pc[d] = "exited"
  PROVE  pc'[d] = "exited"
<1> pc \in [Core -> OffCore \cup OnCore]
  BY DEF TypeOK
<1> USE DEF Goto, Waiting
<1>1. ASSUME NEW c \in Core, \/ Dequeue(c) \/ DequeueWaits(c) \/ WakeIfReady(c)
           \/ PrepareProcessForExecution(c) \/ RequeueProcess(c)
           \/ RequeueNotifies(c) \/ FinalizeProcess(c)
      PROVE  pc'[d] = "exited"
  BY <1>1 DEF Dequeue, DequeueWaits, WakeIfReady, PrepareProcessForExecution,
     RequeueProcess, RequeueNotifies, FinalizeProcess
<1>2. ASSUME NEW c \in Core,
             \/ EnsureStarted(c) \/ FetchCommand(c) \/ TickCheck(c) \/ TickSleep(c)
             \/ ExecuteCommand(c) \/ AfterCommand(c) \/ Finish(c) \/ SpuriousWake(c)
      PROVE  pc'[d] = "exited"
  <2>1. pc[c] # "exited" /\ \E loc : Goto(c, loc)
    BY <1>2, AfterOutcomes DEF EnsureStarted, FetchCommand, TickCheck, TickSleep,
       ExecuteCommand, AfterCommand, Finish, SpuriousWake, Keep, LeaveCore, Terminate
  <2> QED
    BY <2>1
<1>3. CASE ClockStep
  BY <1>3 DEF ClockStep, ClockLoop, ClockTick, ClockNotify, OnTick, ClockAddProcess,
     ClockAddNotifies, NotifyOne, NotifyAll
<1>4. CASE ConsoleStep
  BY <1>4 DEF ConsoleStep, ConsoleFinishes, ConsoleCreate, ExitCommand, ConsoleAddProcess,
     ConsoleAddNotifies, StopClock, StopClockNotifies, JoinClock, StopWorkers,
     StopWorkersNotifies, JoinWorkers, FinalizeUnfinishedProcesses, NotifyOne, NotifyAll
<1>5. CASE UNCHANGED vars
  BY <1>5 DEF vars
<1> QED
  BY <1>1, <1>2, <1>3, <1>4, <1>5 DEF Next, WorkerStep, Exited

LEMMA NextShutdownOrder == SchedulerInv /\ [Next]_vars => ShutdownOrder'
<1> SUFFICES ASSUME SchedulerInv, [Next]_vars PROVE ShutdownOrder'
  OBVIOUS
<1>0. ShutdownOrder /\ \A c \in Core : pc[c] = "exited" => pc'[c] = "exited"
  BY ExitedForGood DEF SchedulerInv
<1> USE DEF ShutdownOrder
<1>1. ASSUME NEW c \in Core, WorkerStep(c) \/ SpuriousWake(c) PROVE ShutdownOrder'
  BY <1>0, <1>1, WorkersLeaveAlone
<1>2. CASE ClockStep
  BY <1>0, <1>2 DEF ClockStep, ClockLoop, ClockTick, ClockNotify, OnTick,
     ClockAddProcess, ClockAddNotifies
<1>3. CASE ConsoleCreate \/ ExitCommand \/ ConsoleAddProcess \/ ConsoleAddNotifies
  BY <1>0, <1>3 DEF ConsoleCreate, ExitCommand, ConsoleAddProcess, ConsoleAddNotifies
<1>4. CASE StopClock \/ StopClockNotifies \/ JoinClock
  BY <1>0, <1>4 DEF StopClock, StopClockNotifies, JoinClock
<1>5. CASE StopWorkers \/ StopWorkersNotifies \/ FinalizeUnfinishedProcesses
  BY <1>0, <1>5 DEF StopWorkers, StopWorkersNotifies, FinalizeUnfinishedProcesses
<1>6. CASE JoinWorkers
  BY <1>0, <1>6 DEF JoinWorkers, Waiting
<1>7. CASE UNCHANGED vars
  BY <1>0, <1>7 DEF vars
<1> QED
  BY <1>1, <1>2, <1>3, <1>4, <1>5, <1>6, <1>7 DEF Next, ConsoleStep, ConsoleFinishes, Exited

LEMMA NextStoppedStaysEmpty == SchedulerInv /\ [Next]_vars => StoppedStaysEmpty'
<1> SUFFICES ASSUME SchedulerInv, [Next]_vars PROVE StoppedStaysEmpty'
  OBVIOUS
<1>0. StoppedStaysEmpty /\ ShutdownOrder
  BY DEF SchedulerInv, TypeOK
<1> USE DEF StoppedStaysEmpty
<1>1. ASSUME NEW c \in Core, Dequeue(c) \/ RequeueProcess(c) PROVE StoppedStaysEmpty'
  BY <1>0, <1>1 DEF Dequeue, RequeueProcess
<1>2. ASSUME NEW c \in Core, ~Dequeue(c), ~RequeueProcess(c),
             WorkerStep(c) \/ SpuriousWake(c)
      PROVE  StoppedStaysEmpty'
  BY <1>0, <1>2 DEF WorkerStep, DequeueWaits, WakeIfReady,
     PrepareProcessForExecution, RequeueNotifies, FinalizeProcess, EnsureStarted,
     FetchCommand, TickCheck, TickSleep, ExecuteCommand, AfterCommand, Finish, SpuriousWake
<1>3. CASE ClockAddProcess \/ ConsoleAddProcess
  BY <1>0, <1>3 DEF ClockAddProcess, ConsoleAddProcess, ShutdownOrder
<1>4. CASE StopWorkers
  BY <1>4 DEF StopWorkers
<1>5. CASE ClockLoop \/ ClockTick \/ ClockNotify \/ OnTick \/ ClockAddNotifies
  BY <1>0, <1>5 DEF ClockLoop, ClockTick, ClockNotify, OnTick, ClockAddNotifies
<1>6. CASE \/ ConsoleCreate \/ ExitCommand \/ ConsoleAddNotifies \/ StopClock
           \/ StopClockNotifies \/ JoinClock \/ StopWorkersNotifies \/ JoinWorkers
           \/ FinalizeUnfinishedProcesses \/ UNCHANGED vars
  BY <1>0, <1>6 DEF ConsoleCreate, ExitCommand, ConsoleAddNotifies, StopClock,
     StopClockNotifies, JoinClock, StopWorkersNotifies, JoinWorkers,
     FinalizeUnfinishedProcesses, vars
<1> QED
  BY <1>1, <1>2, <1>3, <1>4, <1>5, <1>6
  DEF Next, ClockStep, ConsoleStep, ConsoleFinishes, Exited

(***************************************************************************)
(* A process is in one place.                                              *)
(***************************************************************************)
placeVars == <<readyQueue, held, adding, created, registered>>

\* The steps that move a process, and where it comes from.
LEMMA Movements ==
  ASSUME SchedulerInv, [Next]_vars
  PROVE  \/ UNCHANGED placeVars
         \/ \E c \in Core : Dequeue(c) \/ RequeueProcess(c) \/ FinalizeProcess(c)
         \/ \E t \in Creator :
              /\ adding[t] = NoProcess
              /\ \E p \in Process : RegisterNew(t, p)
              /\ UNCHANGED <<readyQueue, held, status, running>>
         \/ \E t \in Creator :
              /\ adding[t] # NoProcess
              /\ PushNew(t)
              /\ UNCHANGED <<held, created, registered, status, running>>
         \/ StopWorkers
<1> USE DEF placeVars
<1>0. AddingMatches
  BY DEF SchedulerInv
<1>1. ASSUME NEW c \in Core, ~Dequeue(c), ~RequeueProcess(c), ~FinalizeProcess(c),
             WorkerStep(c) \/ SpuriousWake(c)
      PROVE  UNCHANGED placeVars
  BY <1>1 DEF WorkerStep, DequeueWaits, WakeIfReady,
     PrepareProcessForExecution, RequeueNotifies, EnsureStarted,
     FetchCommand, TickCheck, TickSleep, ExecuteCommand, AfterCommand, Finish, SpuriousWake
<1>2. CASE OnTick \/ ConsoleCreate
  BY <1>0, <1>2 DEF OnTick, ConsoleCreate, AddingMatches, Creator
<1>3. CASE ClockAddProcess \/ ConsoleAddProcess
  BY <1>0, <1>3 DEF ClockAddProcess, ConsoleAddProcess, AddingMatches, Creator
<1>4. CASE ClockLoop \/ ClockTick \/ ClockNotify \/ ClockAddNotifies
  BY <1>4 DEF ClockLoop, ClockTick, ClockNotify, ClockAddNotifies
<1>5. CASE \/ ExitCommand \/ ConsoleAddNotifies \/ StopClock
           \/ StopClockNotifies \/ JoinClock \/ StopWorkersNotifies \/ JoinWorkers
           \/ FinalizeUnfinishedProcesses \/ UNCHANGED vars
  BY <1>5 DEF ExitCommand, ConsoleAddNotifies, StopClock,
     StopClockNotifies, JoinClock, StopWorkersNotifies, JoinWorkers,
     FinalizeUnfinishedProcesses, vars
<1> QED
  BY <1>1, <1>2, <1>3, <1>4, <1>5
  DEF Next, ClockStep, ConsoleStep, ConsoleFinishes, Exited

\* The places after each of these steps.
LEMMA DequeueMoves ==
  ASSUME SchedulerInv, NEW c \in Core, Dequeue(c)
  PROVE  \E p \in Queued :
           /\ Queued' = Queued \ {p} /\ Held' = Held \cup {p} /\ Added' = Added
           /\ NoRepeats(readyQueue') /\ HeldOnce' /\ AddedOnce'
<1>0. /\ readyQueue \in Seq(Process) /\ held \in [Core -> Process \cup {NoProcess}]
      /\ held[c] = NoProcess /\ SinglePlace
  BY DEF SchedulerInv, TypeOK, HeldMatches, Dequeue, EmptyHanded
<1>1. NoRepeats(readyQueue) /\ HeldOnce /\ AddedOnce /\ Queued \cap Held = {}
  BY <1>0 DEF SinglePlace, NoRepeats, HeldOnce, AddedOnce
<1>2. /\ Head(readyQueue) \in Queued /\ Queued' = Queued \ {Head(readyQueue)}
      /\ NoRepeats(readyQueue')
  BY <1>0, <1>1, Dequeued DEF Dequeue
<1>3. Head(readyQueue) \in Process \ Held
  BY <1>0, <1>1, <1>2 DEF Queued
<1>4. Held' = Held \cup {Head(readyQueue)} /\ HeldOnce'
  BY <1>0, <1>1, <1>3, Taken DEF Dequeue
<1>5. Added' = Added /\ AddedOnce'
  BY <1>1 DEF Added, AddedOnce, Dequeue
<1> QED
  BY <1>2, <1>4, <1>5

LEMMA RequeueMoves ==
  ASSUME SchedulerInv, NEW c \in Core, RequeueProcess(c)
  PROVE  /\ held[c] \in Held /\ held[c] \in Process
         /\ Queued' = IF running THEN Queued \cup {held[c]} ELSE Queued
         /\ Held' = Held \ {held[c]} /\ Added' = Added
         /\ NoRepeats(readyQueue') /\ HeldOnce' /\ AddedOnce'
<1>0. /\ readyQueue \in Seq(Process) /\ held \in [Core -> Process \cup {NoProcess}]
      /\ held[c] \in Process /\ held[c] # NoProcess /\ held[c] \notin Queued
      /\ held[c] \in Held /\ SinglePlace
  BY Holding DEF SchedulerInv, TypeOK, RequeueProcess, EmptyHanded
<1>1. NoRepeats(readyQueue) /\ HeldOnce /\ AddedOnce
  BY <1>0 DEF SinglePlace, NoRepeats, HeldOnce, AddedOnce
<1>2. /\ Queued' = IF running THEN Queued \cup {held[c]} ELSE Queued
      /\ NoRepeats(readyQueue')
  <2>1. CASE running
    BY <1>0, <1>1, <2>1, Enqueued DEF RequeueProcess
  <2>2. CASE ~running
    BY <1>0, <1>1, <2>2 DEF RequeueProcess, Queued
  <2> QED
    BY <2>1, <2>2
<1>3. Held' = Held \ {held[c]} /\ HeldOnce'
  BY <1>0, <1>1, LetGo DEF RequeueProcess
<1>4. Added' = Added /\ AddedOnce'
  BY <1>1 DEF Added, AddedOnce, RequeueProcess
<1> QED
  BY <1>0, <1>2, <1>3, <1>4

LEMMA FinalizeMoves ==
  ASSUME SchedulerInv, NEW c \in Core, FinalizeProcess(c)
  PROVE  /\ held[c] \in Held /\ held[c] \in Process
         /\ Queued' = Queued /\ Held' = Held \ {held[c]} /\ Added' = Added
         /\ NoRepeats(readyQueue') /\ HeldOnce' /\ AddedOnce'
<1>0. /\ held \in [Core -> Process \cup {NoProcess}]
      /\ held[c] \in Process /\ held[c] # NoProcess
      /\ held[c] \in Held /\ SinglePlace
  BY Holding DEF SchedulerInv, TypeOK, FinalizeProcess, EmptyHanded
<1>1. NoRepeats(readyQueue) /\ HeldOnce /\ AddedOnce
  BY <1>0 DEF SinglePlace, NoRepeats, HeldOnce, AddedOnce
<1>2. Held' = Held \ {held[c]} /\ HeldOnce'
  BY <1>0, <1>1, LetGo DEF FinalizeProcess
<1>3. Added' = Added /\ AddedOnce' /\ Queued' = Queued /\ NoRepeats(readyQueue')
  BY <1>1 DEF Added, AddedOnce, Queued, FinalizeProcess
<1> QED
  BY <1>0, <1>2, <1>3

LEMMA RegisterMoves ==
  ASSUME SchedulerInv, NEW t \in Creator, adding[t] = NoProcess,
         NEW p \in Process, RegisterNew(t, p), UNCHANGED <<readyQueue, held>>
  PROVE  /\ p \notin Queued \cup Held \cup Added
         /\ Queued' = Queued /\ Held' = Held /\ Added' = Added \cup {p}
         /\ NoRepeats(readyQueue') /\ HeldOnce' /\ AddedOnce'
<1>0. adding \in [Creator -> Process \cup {NoProcess}] /\ SinglePlace
  BY DEF SchedulerInv, TypeOK
<1>1. p \notin Queued \cup Held \cup Added
  BY DEF SchedulerInv, RunnableRegistered, TypeOK, RegisterNew
<1>2. NoRepeats(readyQueue) /\ HeldOnce /\ AddedOnce
  BY <1>0 DEF SinglePlace, NoRepeats, HeldOnce, AddedOnce
<1>3. Added' = Added \cup {p} /\ AddedOnce'
  BY <1>0, <1>1, <1>2, Registered DEF RegisterNew
<1>4. Queued' = Queued /\ Held' = Held /\ NoRepeats(readyQueue') /\ HeldOnce'
  BY <1>2 DEF Queued, Held, HeldOnce
<1> QED
  BY <1>1, <1>3, <1>4

LEMMA PushMoves ==
  ASSUME SchedulerInv, NEW t \in Creator, adding[t] # NoProcess, PushNew(t),
         UNCHANGED held
  PROVE  \E p \in Added :
           /\ Queued' = Queued \cup {p} /\ Held' = Held /\ Added' = Added \ {p}
           /\ NoRepeats(readyQueue') /\ HeldOnce' /\ AddedOnce'
<1>0. /\ adding \in [Creator -> Process \cup {NoProcess}] /\ SinglePlace
      /\ readyQueue \in Seq(Process)
  BY DEF SchedulerInv, TypeOK
<1>1. NoRepeats(readyQueue) /\ HeldOnce /\ AddedOnce /\ Queued \cap Added = {}
  BY <1>0 DEF SinglePlace, NoRepeats, HeldOnce, AddedOnce
<1>2. adding[t] \in Added /\ Added' = Added \ {adding[t]} /\ AddedOnce'
  BY <1>0, <1>1, HandedOver DEF PushNew
<1>3. adding[t] \in Process /\ adding[t] \notin Queued
  BY <1>0, <1>1, <1>2
<1>4. Queued' = Queued \cup {adding[t]} /\ NoRepeats(readyQueue')
  BY <1>0, <1>1, <1>3, Enqueued DEF PushNew
<1>5. Held' = Held /\ HeldOnce'
  BY <1>1 DEF Held, HeldOnce
<1> QED
  BY <1>2, <1>4, <1>5

LEMMA StopMoves ==
  ASSUME SchedulerInv, StopWorkers
  PROVE  /\ Queued' = {} /\ Held' = Held /\ Added' = Added
         /\ NoRepeats(readyQueue') /\ HeldOnce' /\ AddedOnce'
<1>1. HeldOnce /\ AddedOnce
  BY DEF SchedulerInv, SinglePlace, HeldOnce, AddedOnce
<1> QED
  BY <1>1 DEF StopWorkers, Queued, Held, Added, HeldOnce, AddedOnce, NoRepeats

\* Unless no process moves.
LEMMA NobodyMoves ==
  ASSUME SchedulerInv, UNCHANGED placeVars
  PROVE  /\ Queued' = Queued /\ Held' = Held /\ Added' = Added
         /\ NoRepeats(readyQueue') /\ HeldOnce' /\ AddedOnce'
BY DEF SchedulerInv, SinglePlace, placeVars, Queued, Held, Added, NoRepeats,
   HeldOnce, AddedOnce

LEMMA NextPlaces ==
  SchedulerInv /\ [Next]_vars => SinglePlace' /\ RunnableRegistered'
<1> SUFFICES ASSUME SchedulerInv, [Next]_vars PROVE SinglePlace' /\ RunnableRegistered'
  OBVIOUS
<1>0. /\ Queued \cap Held = {} /\ Queued \cap Added = {} /\ Held \cap Added = {}
      /\ Queued \cup Held \cup Added \subseteq registered
  BY DEF SchedulerInv, SinglePlace, RunnableRegistered
<1> DEFINE Apart == /\ NoRepeats(readyQueue') /\ HeldOnce' /\ AddedOnce'
                    /\ Queued' \cap Held' = {} /\ Queued' \cap Added' = {}
                    /\ Held' \cap Added' = {}
           Alive == Queued' \cup Held' \cup Added' \subseteq registered'
<1>1. ASSUME UNCHANGED placeVars PROVE Apart /\ Alive
  <2>1. registered' = registered
    BY <1>1 DEF placeVars
  <2> QED
    BY <1>0, <1>1, <2>1, NobodyMoves
<1>2. ASSUME NEW c \in Core, Dequeue(c) PROVE Apart /\ Alive
  <2>1. registered' = registered
    BY <1>2 DEF Dequeue
  <2> QED
    BY <1>0, <1>2, <2>1, DequeueMoves
<1>3. ASSUME NEW c \in Core, RequeueProcess(c) PROVE Apart /\ Alive
  <2>1. registered' = registered
    BY <1>3 DEF RequeueProcess
  <2>2. Queued' \subseteq Queued \cup {held[c]}
    BY <1>3, RequeueMoves
  <2> QED
    BY <1>0, <1>3, <2>1, <2>2, RequeueMoves
<1>4. ASSUME NEW c \in Core, FinalizeProcess(c) PROVE Apart /\ Alive
  <2>1. registered' = registered \ {held[c]}
    BY <1>4 DEF FinalizeProcess
  <2> QED
    BY <1>0, <1>4, <2>1, FinalizeMoves
<1>5. ASSUME NEW t \in Creator, NEW p \in Process, adding[t] = NoProcess,
             RegisterNew(t, p), UNCHANGED <<readyQueue, held>>
      PROVE  Apart /\ Alive
  <2>1. registered' = registered \cup {p}
    BY <1>5 DEF RegisterNew
  <2> QED
    BY <1>0, <1>5, <2>1, RegisterMoves
<1>6. ASSUME NEW t \in Creator, adding[t] # NoProcess, PushNew(t),
             UNCHANGED <<held, registered>>
      PROVE  Apart /\ Alive
  BY <1>0, <1>6, PushMoves
<1>7. ASSUME StopWorkers PROVE Apart /\ Alive
  <2>1. registered' = registered
    BY <1>7 DEF StopWorkers
  <2> QED
    BY <1>0, <1>7, <2>1, StopMoves
<1>8. Apart /\ Alive
  BY <1>1, <1>2, <1>3, <1>4, <1>5, <1>6, <1>7, Movements
<1> QED
  BY <1>8 DEF SinglePlace, NoRepeats, HeldOnce, AddedOnce, RunnableRegistered

(***************************************************************************)
(* Cores.                                                                  *)
(***************************************************************************)
LEMMA NextCoreAccounting == SchedulerInv /\ [Next]_vars => CoreAccounting'
<1> SUFFICES ASSUME SchedulerInv, [Next]_vars PROVE CoreAccounting'
  OBVIOUS
<1>0. /\ pc \in [Core -> OffCore \cup OnCore] /\ coreBusy \subseteq Core
      /\ coreBusy = {c \in Core : pc[c] \in OnCore} /\ CoresCounted
  BY DEF SchedulerInv, TypeOK, CoreAccounting, CoresCounted
<1> DEFINE Exact == coreBusy' = {d \in Core : pc'[d] \in OnCore}
<1> USE DEF Goto, OnCore, Executing
<1>1. ASSUME NEW c \in Core,
             \/ Dequeue(c) \/ DequeueWaits(c) \/ WakeIfReady(c)
             \/ PrepareProcessForExecution(c) \/ RequeueProcess(c)
             \/ RequeueNotifies(c) \/ FinalizeProcess(c) \/ SpuriousWake(c)
      PROVE  Exact /\ CoresCounted'
  <2>1. UNCHANGED coreVars /\ \A d \in Core : pc'[d] \in OnCore <=> pc[d] \in OnCore
    BY <1>0, <1>1 DEF Dequeue, DequeueWaits, WakeIfReady, PrepareProcessForExecution,
       RequeueProcess, RequeueNotifies, FinalizeProcess, SpuriousWake, Waiting
  <2> QED
    BY <1>0, <2>1 DEF CoresCounted
<1>2. ASSUME NEW c \in Core,
             FetchCommand(c) \/ TickCheck(c) \/ TickSleep(c) \/ ExecuteCommand(c)
      PROVE  Exact /\ CoresCounted'
  <2>1. UNCHANGED coreVars /\ \A d \in Core : pc'[d] \in OnCore <=> pc[d] \in OnCore
    BY <1>0, <1>2 DEF FetchCommand, TickCheck, TickSleep, ExecuteCommand
  <2> QED
    BY <1>0, <2>1 DEF CoresCounted
<1>3. ASSUME NEW c \in Core, EnsureStarted(c) PROVE Exact /\ CoresCounted'
  <2>1. AcquireCore(c) /\ pc' = [pc EXCEPT ![c] = "fetch"]
    BY <1>3 DEF EnsureStarted, SchedulerInv, StatusAtWorker, StatusFits
  <2>2. coreBusy' = coreBusy \cup {c} /\ CoresCounted'
    BY <1>0, <2>1, Acquired
  <2> QED
    BY <1>0, <2>1, <2>2
<1>4. ASSUME NEW c \in Core, pc[c] \in OnCore, NEW st,
             NEW loc \in {"requeue", "finalize"}, LeaveCore(c, st, loc)
      PROVE  Exact /\ CoresCounted'
  <2>1. ReleaseCore(c) /\ pc' = [pc EXCEPT ![c] = loc]
    BY <1>4 DEF LeaveCore
  <2>2. coreBusy' = coreBusy \ {c} /\ CoresCounted'
    BY <1>0, <2>1, Released
  <2> QED
    BY <1>0, <2>1, <2>2
<1>5. ASSUME NEW c \in Core, AfterCommand(c) PROVE Exact /\ CoresCounted'
  <2>1. CASE Keep(c)
    BY <1>0, <1>5, <2>1 DEF Keep, AfterCommand, CoresCounted
  <2>2. pc[c] \in OnCore
    BY <1>5 DEF AfterCommand
  <2> QED
    BY <1>4, <1>5, <2>1, <2>2, AfterOutcomes
<1>6. ASSUME NEW c \in Core, Finish(c) PROVE Exact /\ CoresCounted'
  BY <1>4, <1>6 DEF Finish, Terminate
<1>7. ASSUME ClockStep \/ ConsoleStep \/ UNCHANGED vars PROVE Exact /\ CoresCounted'
  <2>1. UNCHANGED coreVars /\ \A d \in Core : pc'[d] \in OnCore <=> pc[d] \in OnCore
    BY <1>0, <1>7, OthersNotify DEF NotifyOne, NotifyAll, Waiting
  <2> QED
    BY <1>0, <2>1 DEF CoresCounted
<1>8. Exact /\ CoresCounted'
  BY <1>1, <1>2, <1>3, <1>5, <1>6, <1>7 DEF Next, WorkerStep, Exited
<1> QED
  BY <1>8 DEF CoreAccounting, CoresCounted

LEMMA NextSliceLeft == SchedulerInv /\ [Next]_vars => SliceLeft'
<1> SUFFICES ASSUME SchedulerInv, [Next]_vars, Algorithm = "RR", NEW d \in Core,
                    pc'[d] \in Executing
             PROVE  left'[d] > 0
  BY DEF SliceLeft
<1>0. /\ pc \in [Core -> OffCore \cup OnCore] /\ left \in [Core -> 0..Quantum]
      /\ pc[d] \in Executing => left[d] > 0
  BY DEF SchedulerInv, TypeOK, SliceLeft
<1> USE DEF Goto, Executing
<1>1. ASSUME NEW c \in Core,
             \/ Dequeue(c) \/ DequeueWaits(c) \/ WakeIfReady(c)
             \/ PrepareProcessForExecution(c) \/ RequeueProcess(c)
             \/ RequeueNotifies(c) \/ FinalizeProcess(c) \/ SpuriousWake(c)
      PROVE  left'[d] > 0
  BY <1>0, <1>1 DEF Dequeue, DequeueWaits, WakeIfReady, PrepareProcessForExecution,
     RequeueProcess, RequeueNotifies, FinalizeProcess, SpuriousWake, Waiting
<1>2. ASSUME NEW c \in Core, FetchCommand(c) \/ TickCheck(c) \/ TickSleep(c)
      PROVE  left'[d] > 0
  BY <1>0, <1>2 DEF FetchCommand, TickCheck, TickSleep
<1>3. ASSUME NEW c \in Core, EnsureStarted(c) PROVE left'[d] > 0
  BY <1>0, <1>3, QuantumAssumption DEF EnsureStarted
<1>4. ASSUME NEW c \in Core, ExecuteCommand(c) PROVE left'[d] > 0
  BY <1>0, <1>4 DEF ExecuteCommand
<1>5. ASSUME NEW c \in Core, AfterCommand(c) \/ Finish(c) PROVE left'[d] > 0
  <2>1. /\ left' = left
        /\ \/ left[c] > 0
           \/ \E loc \in {"requeue", "finalize"} : Goto(c, loc)
    BY <1>5, AfterOutcomes DEF AfterCommand, Finish, Terminate, LeaveCore
  <2>2. \E loc : Goto(c, loc)
    BY <1>5, AfterOutcomes DEF Finish, Terminate, LeaveCore, Keep
  <2> QED
    BY <1>0, <2>1, <2>2
<1>6. CASE ClockStep \/ ConsoleStep \/ UNCHANGED vars
  BY <1>0, <1>6, OthersNotify DEF NotifyOne, NotifyAll, Waiting
<1> QED
  BY <1>1, <1>2, <1>3, <1>4, <1>5, <1>6 DEF Next, WorkerStep, Exited

-----------------------------------------------------------------------------
(***************************************************************************)
(* The status of a process.                                                *)
(***************************************************************************)
\* Who changes a status: the worker that holds the process, and main at the end.
LEMMA StatusChanges ==
  ASSUME SchedulerInv, [Next]_vars
  PROVE  \/ status' = status
         \/ \E c \in Core :
              /\ WakeIfReady(c) \/ EnsureStarted(c) \/ ExecuteCommand(c)
                    \/ AfterCommand(c) \/ Finish(c)
              /\ pc[c] \notin EmptyHanded
              /\ UNCHANGED <<placeVars, running>>
              /\ \A p \in Process \ {held[c]} : status'[p] = status[p]
         \/ FinalizeUnfinishedProcesses
<1>0. status \in [Process -> {"Ready", "Running", "Sleeping", "Terminated"}]
  BY DEF SchedulerInv, TypeOK
<1>1. ASSUME NEW c \in Core, \/ Dequeue(c) \/ DequeueWaits(c)
           \/ PrepareProcessForExecution(c) \/ RequeueProcess(c)
           \/ RequeueNotifies(c) \/ FinalizeProcess(c) \/ FetchCommand(c)
           \/ TickCheck(c) \/ TickSleep(c) \/ SpuriousWake(c)
      PROVE  status' = status
  BY <1>1 DEF Dequeue, DequeueWaits, PrepareProcessForExecution,
     RequeueProcess, RequeueNotifies, FinalizeProcess, FetchCommand, TickCheck,
     TickSleep, SpuriousWake
<1>2. ASSUME NEW c \in Core,
             WakeIfReady(c) \/ EnsureStarted(c) \/ ExecuteCommand(c)
      PROVE  /\ pc[c] \notin EmptyHanded
             /\ UNCHANGED <<placeVars, running>>
             /\ \A p \in Process \ {held[c]} : status'[p] = status[p]
  BY <1>0, <1>2 DEF WakeIfReady, EnsureStarted, ExecuteCommand, EmptyHanded, placeVars
<1>3. ASSUME NEW c \in Core, AfterCommand(c) \/ Finish(c)
      PROVE  /\ pc[c] \notin EmptyHanded
             /\ UNCHANGED <<placeVars, running>>
             /\ \A p \in Process \ {held[c]} : status'[p] = status[p]
  <2>1. pc[c] \notin EmptyHanded /\ UNCHANGED <<placeVars, running>>
    BY <1>3 DEF AfterCommand, Finish, EmptyHanded, placeVars
  <2>2. status' = status \/ \E st : status' = [status EXCEPT ![held[c]] = st]
    BY <1>3, AfterOutcomes DEF Finish, Terminate, Keep, LeaveCore
  <2> QED
    BY <1>0, <2>1, <2>2
<1>4. CASE ClockStep
  BY <1>4 DEF ClockStep, ClockLoop, ClockTick, ClockNotify, OnTick, ClockAddProcess,
     ClockAddNotifies
<1>5. CASE ConsoleStep \/ UNCHANGED vars
  BY <1>5 DEF ConsoleStep, ConsoleFinishes, ConsoleCreate, ExitCommand,
     ConsoleAddProcess, ConsoleAddNotifies, StopClock, StopClockNotifies,
     JoinClock, StopWorkers, StopWorkersNotifies, JoinWorkers, vars
<1> QED
  BY <1>1, <1>2, <1>3, <1>4, <1>5 DEF Next, WorkerStep, Exited

\* A step of worker c that concerns at most its own process leaves d fitting.
LEMMA OthersFit ==
  ASSUME SchedulerInv, NEW c \in Core, NEW d \in Core \ {c},
         pc[c] \notin EmptyHanded \/ status' = status,
         pc'[d] \in {pc[d], "dequeue"}, held'[d] = held[d], running' = running,
         \A p \in Process \ {held[c]} : status'[p] = status[p]
  PROVE  StatusFits(d)'
<1>1. StatusFits(d)
  BY DEF SchedulerInv, StatusAtWorker
<1>2. pc[d] \notin EmptyHanded => status'[held[d]] = status[held[d]]
  BY Holding
<1> QED
  BY <1>1, <1>2 DEF StatusFits, Executing, EmptyHanded

LEMMA NextStatusAtWorker == SchedulerInv /\ [Next]_vars => StatusAtWorker'
<1> SUFFICES ASSUME SchedulerInv, [Next]_vars, NEW d \in Core PROVE StatusFits(d)'
  BY DEF StatusAtWorker
<1>0. /\ pc \in [Core -> OffCore \cup OnCore]
      /\ status \in [Process -> {"Ready", "Running", "Sleeping", "Terminated"}]
      /\ held \in [Core -> Process \cup {NoProcess}]
      /\ StatusFits(d)
  BY DEF SchedulerInv, TypeOK, StatusAtWorker
<1> USE DEF Goto
<1>1. ASSUME NEW c \in Core, Dequeue(c) PROVE StatusFits(d)'
  <2>1. CASE c = d
    <3>1. readyQueue \in Seq(Process) /\ NoRepeats(readyQueue)
      BY DEF SchedulerInv, TypeOK, SinglePlace, NoRepeats
    <3>2. Head(readyQueue) \in Queued
      BY <1>1, <3>1, Dequeued DEF Dequeue
    <3>3. status'[held'[d]] \in Waking /\ pc'[d] = "wake"
      BY <1>0, <1>1, <2>1, <3>2 DEF Dequeue, SchedulerInv, StatusElsewhere
    <3> QED
      BY <3>3 DEF StatusFits, Executing
  <2>2. CASE c # d
    BY <1>0, <1>1, <2>2, OthersFit DEF Dequeue
  <2> QED
    BY <2>1, <2>2
<1>2. ASSUME NEW c \in Core, DequeueWaits(c) \/ RequeueProcess(c) \/ RequeueNotifies(c)
             \/ FinalizeProcess(c)
      PROVE  StatusFits(d)'
  <2>1. CASE c = d
    <3>1. pc'[d] \in EmptyHanded
      BY <1>0, <1>2, <2>1 DEF DequeueWaits, RequeueProcess, RequeueNotifies,
         FinalizeProcess, EmptyHanded, Waiting
    <3> QED
      BY <3>1 DEF StatusFits, Executing, EmptyHanded
  <2>2. CASE c # d
    <3>1. pc'[d] \in {pc[d], "dequeue"} /\ held'[d] = held[d]
          /\ UNCHANGED <<status, running>>
      BY <1>0, <1>2, <2>2 DEF DequeueWaits, RequeueProcess, RequeueNotifies,
         FinalizeProcess, Waiting
    <3> QED
      BY <2>2, <3>1, OthersFit
  <2> QED
    BY <2>1, <2>2
<1>3. ASSUME NEW c \in Core, \/ PrepareProcessForExecution(c) \/ FetchCommand(c)
             \/ TickCheck(c) \/ TickSleep(c) \/ SpuriousWake(c)
      PROVE  StatusFits(d)'
  BY <1>0, <1>3 DEF PrepareProcessForExecution, FetchCommand, TickCheck, TickSleep,
     SpuriousWake, StatusFits, Executing, Waking
<1>4. ASSUME NEW c \in Core, WakeIfReady(c) PROVE StatusFits(d)'
  <2>1. held[c] \in Process
    BY <1>4, Holding DEF WakeIfReady, EmptyHanded
  <2>2. CASE c = d
    BY <1>0, <1>4, <2>1, <2>2 DEF WakeIfReady, StatusFits, Executing, Waking
  <2>3. CASE c # d
    BY <1>0, <1>4, <2>1, <2>3, OthersFit DEF WakeIfReady, EmptyHanded
  <2> QED
    BY <2>2, <2>3
<1>5. ASSUME NEW c \in Core, EnsureStarted(c) PROVE StatusFits(d)'
  <2>1. held[c] \in Process
    BY <1>5, Holding DEF EnsureStarted, EmptyHanded
  <2>2. CASE c = d
    BY <1>0, <1>5, <2>1, <2>2 DEF EnsureStarted, StatusFits, Executing, Waking
  <2>3. CASE c # d
    BY <1>0, <1>5, <2>1, <2>3, OthersFit DEF EnsureStarted, EmptyHanded
  <2> QED
    BY <2>2, <2>3
<1>6. ASSUME NEW c \in Core, ExecuteCommand(c) PROVE StatusFits(d)'
  <2>1. held[c] \in Process
    BY <1>6, Holding DEF ExecuteCommand, EmptyHanded
  <2>2. CASE c = d
    BY <1>0, <1>6, <2>1, <2>2 DEF ExecuteCommand, StatusFits, Executing, Waking
  <2>3. CASE c # d
    BY <1>0, <1>6, <2>1, <2>3, OthersFit DEF ExecuteCommand, EmptyHanded
  <2> QED
    BY <2>2, <2>3
<1>7. ASSUME NEW c \in Core, AfterCommand(c) \/ Finish(c) PROVE StatusFits(d)'
  <2>1. /\ held[c] \in Process /\ pc[c] \notin EmptyHanded
        /\ held' = held /\ running' = running
    BY <1>7, Holding DEF AfterCommand, Finish, EmptyHanded
  <2>2. \/ Keep(c) /\ Unfinished(c) /\ pc[c] = "after"
        \/ LeaveCore(c, "Sleeping", "requeue")
        \/ LeaveCore(c, "Ready", "requeue")
        \/ LeaveCore(c, "Terminated", "finalize")
        \/ LeaveCore(c, status[held[c]], "finalize") /\ ~running
    BY <1>7, AfterOutcomes DEF Finish, Terminate, AfterCommand
  <2>3. CASE c = d
    <3>1. CASE Keep(c) /\ Unfinished(c) /\ pc[c] = "after"
      <4>1. status'[held'[d]] = "Running" /\ pc'[d] = "fetch"
        BY <1>0, <2>1, <2>3, <3>1 DEF Keep, Unfinished, StatusFits
      <4> QED
        BY <4>1 DEF StatusFits
    <3> QED
      BY <1>0, <2>1, <2>2, <2>3, <3>1 DEF LeaveCore, StatusFits, Executing, Waking
  <2>4. CASE c # d
    <3>1. pc'[d] = pc[d] /\ \A p \in Process \ {held[c]} : status'[p] = status[p]
      BY <1>0, <2>1, <2>2, <2>4 DEF Keep, LeaveCore
    <3> QED
      BY <2>1, <2>4, <3>1, OthersFit
  <2> QED
    BY <2>3, <2>4
<1>8. CASE FinalizeUnfinishedProcesses
  <2>1. pc'[d] = "exited"
    BY <1>8 DEF FinalizeUnfinishedProcesses, SchedulerInv, ShutdownOrder
  <2> QED
    BY <2>1 DEF StatusFits, Executing
<1>9. CASE ClockStep \/ (ConsoleStep /\ ~FinalizeUnfinishedProcesses) \/ UNCHANGED vars
  <2>1. status' = status /\ (running' => running)
    BY <1>9 DEF ClockStep, ClockLoop, ClockTick, ClockNotify, OnTick, ClockAddProcess,
       ClockAddNotifies, ConsoleStep, ConsoleFinishes, ConsoleCreate, ExitCommand,
       ConsoleAddProcess, ConsoleAddNotifies, StopClock, StopClockNotifies,
       JoinClock, StopWorkers, StopWorkersNotifies, JoinWorkers, vars
  <2>2. held' = held /\ \/ pc'[d] = pc[d]
                        \/ pc[d] = "queue_wait" /\ pc'[d] = "dequeue"
                        \/ pc[d] = "tick_wait" /\ pc'[d] = "tick_check"
    BY <1>0, <1>9, OthersNotify DEF NotifyOne, NotifyAll, Waiting
  <2> QED
    BY <1>0, <2>1, <2>2 DEF StatusFits, Executing
<1> QED
  BY <1>1, <1>2, <1>3, <1>4, <1>5, <1>6, <1>7, <1>8, <1>9 DEF Next, WorkerStep, Exited

LEMMA NextStatusElsewhere == SchedulerInv /\ [Next]_vars => StatusElsewhere'
<1> SUFFICES ASSUME SchedulerInv, [Next]_vars PROVE StatusElsewhere'
  OBVIOUS
<1>0. /\ StatusElsewhere /\ Added \subseteq Process /\ Queued \subseteq Process
      /\ Added \subseteq created /\ Queued \subseteq created
  BY DEF SchedulerInv, TypeOK, Added, RunnableRegistered, Queued
<1> USE DEF StatusElsewhere
<1>1. CASE status' = status
  <2>1. CASE UNCHANGED placeVars
    <3>1. created' = created
      BY <2>1 DEF placeVars
    <3> QED
      BY <1>0, <1>1, <2>1, <3>1, NobodyMoves
  <2>2. ASSUME NEW c \in Core, Dequeue(c) PROVE StatusElsewhere'
    BY <1>0, <2>2, DequeueMoves DEF Dequeue
  <2>3. ASSUME NEW c \in Core, RequeueProcess(c) PROVE StatusElsewhere'
    <3>1. status[held[c]] \in Waking
      BY <2>3 DEF SchedulerInv, StatusAtWorker, StatusFits, RequeueProcess
    <3>2. Queued' \subseteq Queued \cup {held[c]} /\ Added' = Added /\ created' = created
      BY <2>3, RequeueMoves DEF RequeueProcess
    <3> QED
      BY <1>0, <1>1, <3>1, <3>2
  <2>4. ASSUME NEW c \in Core, FinalizeProcess(c) PROVE StatusElsewhere'
    BY <1>0, <1>1, <2>4, FinalizeMoves DEF FinalizeProcess
  <2>5. ASSUME NEW t \in Creator, NEW p \in Process, adding[t] = NoProcess,
               RegisterNew(t, p), UNCHANGED <<readyQueue, held>>
        PROVE  StatusElsewhere'
    <3>1. p \notin created /\ created' = created \cup {p}
      BY <2>5 DEF RegisterNew
    <3> QED
      BY <1>0, <1>1, <2>5, <3>1, RegisterMoves
  <2>6. ASSUME NEW t \in Creator, adding[t] # NoProcess, PushNew(t),
               UNCHANGED <<held, created>>
        PROVE  StatusElsewhere'
    BY <1>0, <1>1, <2>6, PushMoves DEF Waking
  <2>7. CASE StopWorkers
    BY <1>0, <1>1, <2>7, StopMoves DEF StopWorkers
  <2> QED
    BY <2>1, <2>2, <2>3, <2>4, <2>5, <2>6, <2>7, Movements
<1>2. ASSUME NEW c \in Core, pc[c] \notin EmptyHanded, UNCHANGED placeVars,
             \A p \in Process \ {held[c]} : status'[p] = status[p]
      PROVE  StatusElsewhere'
  <2>1. held[c] \in created /\ held[c] \notin Queued /\ held[c] \notin Added
    BY <1>2, Holding
  <2>2. Queued' = Queued /\ Added' = Added /\ created' = created
    BY <1>2, NobodyMoves DEF placeVars
  <2> QED
    BY <1>0, <1>2, <2>1, <2>2
<1>3. CASE FinalizeUnfinishedProcesses
  <2>1. /\ readyQueue' = << >> /\ adding' = adding /\ created' = created
        /\ \A p \in Process \ created : status'[p] = status[p]
        /\ adding["clock"] = NoProcess /\ adding["console"] = NoProcess
    BY <1>3 DEF FinalizeUnfinishedProcesses, SchedulerInv, StoppedStaysEmpty,
       ShutdownOrder, AddingMatches
  <2>2. Queued' = {} /\ Added' = {}
    BY <2>1 DEF Queued, Added, Creator
  <2> QED
    BY <1>0, <2>1, <2>2
<1> QED
  BY <1>1, <1>2, <1>3, StatusChanges

\* Scheduler::running is never set again.
LEMMA NeverRestarted == [Next]_vars /\ running' => running
<1> SUFFICES ASSUME [Next]_vars PROVE running' = running \/ StopWorkers
  BY DEF StopWorkers
<1>1. CASE ClockStep
  BY <1>1 DEF ClockStep, ClockLoop, ClockTick, ClockNotify, OnTick, ClockAddProcess,
     ClockAddNotifies
<1>2. CASE ConsoleStep \/ UNCHANGED vars
  BY <1>2 DEF ConsoleStep, ConsoleFinishes, ConsoleCreate, ExitCommand,
     ConsoleAddProcess, ConsoleAddNotifies, StopClock, StopClockNotifies,
     JoinClock, StopWorkersNotifies, JoinWorkers, FinalizeUnfinishedProcesses, vars
<1> QED
  BY <1>1, <1>2, WorkersLeaveAlone DEF Next, Exited

LEMMA NextNothingLost == SchedulerInv /\ [Next]_vars => NothingLost'
<1> SUFFICES ASSUME SchedulerInv, [Next]_vars, running', NEW p \in created'
             PROVE  \/ p \in Queued' \cup Held' \cup Added'
                    \/ status'[p] = "Terminated" /\ p \notin registered'
  BY DEF NothingLost
<1> DEFINE Kept == \/ p \in Queued' \cup Held' \cup Added'
                   \/ status'[p] = "Terminated" /\ p \notin registered'
<1>0. /\ created \subseteq Process
      /\ running /\ p \in created =>
            \/ p \in Queued \cup Held \cup Added
            \/ status[p] = "Terminated" /\ p \notin registered
  BY DEF SchedulerInv, TypeOK, NothingLost
<1>1. ASSUME status' = status PROVE Kept
  <2>1. ASSUME UNCHANGED placeVars, running PROVE Kept
    <3>1. created' = created /\ registered' = registered
      BY <2>1 DEF placeVars
    <3> QED
      BY <1>0, <1>1, <2>1, <3>1, NobodyMoves
  <2>2. ASSUME NEW c \in Core, Dequeue(c) PROVE Kept
    BY <1>0, <2>2, DequeueMoves DEF Dequeue
  <2>3. ASSUME NEW c \in Core, RequeueProcess(c) PROVE Kept
    <3>1. UNCHANGED <<running, created, registered, status>>
      BY <2>3 DEF RequeueProcess
    <3> QED
      BY <1>0, <2>3, <3>1, RequeueMoves
  <2>4. ASSUME NEW c \in Core, FinalizeProcess(c) PROVE Kept
    <3>1. UNCHANGED <<running, created, status>> /\ registered' = registered \ {held[c]}
      BY <2>4 DEF FinalizeProcess
    <3>2. running => status[held[c]] = "Terminated"
      BY <2>4 DEF FinalizeProcess, SchedulerInv, StatusAtWorker, StatusFits
    <3> QED
      BY <1>0, <2>4, <3>1, <3>2, FinalizeMoves
  <2>5. ASSUME NEW t \in Creator, NEW q \in Process, adding[t] = NoProcess,
               RegisterNew(t, q), UNCHANGED <<readyQueue, held, running>>
        PROVE  Kept
    <3>1. created' = created \cup {q} /\ registered' = registered \cup {q}
      BY <2>5 DEF RegisterNew
    <3> QED
      BY <1>0, <1>1, <2>5, <3>1, RegisterMoves
  <2>6. ASSUME NEW t \in Creator, adding[t] # NoProcess, PushNew(t),
               UNCHANGED <<held, created, registered, running>>
        PROVE  Kept
    BY <1>0, <1>1, <2>6, PushMoves
  <2>7. ~StopWorkers /\ running
    BY NeverRestarted DEF StopWorkers
  <2> QED
    BY <2>1, <2>2, <2>3, <2>4, <2>5, <2>6, <2>7, Movements
<1>2. ASSUME NEW c \in Core, pc[c] \notin EmptyHanded, UNCHANGED placeVars,
             \A q \in Process \ {held[c]} : status'[q] = status[q]
      PROVE  Kept
  <2>1. held[c] \in Held
    BY <1>2, Holding
  <2>2. created' = created /\ registered' = registered /\ running
    BY <1>2, NeverRestarted DEF placeVars
  <2> QED
    BY <1>0, <1>2, <2>1, <2>2, NobodyMoves
<1>3. ~FinalizeUnfinishedProcesses
  BY DEF FinalizeUnfinishedProcesses, SchedulerInv, ShutdownOrder
<1> QED
  BY <1>1, <1>2, <1>3, StatusChanges

LEMMA NextRunningOnCore == SchedulerInv /\ [Next]_vars => RunningOnCore'
<1> SUFFICES ASSUME SchedulerInv, [Next]_vars PROVE RunningOnCore'
  OBVIOUS
<1>1. ASSUME NEW c \in Core, pc'[c] \in Executing PROVE status'[held'[c]] = "Running"
  BY <1>1, NextStatusAtWorker DEF StatusAtWorker, StatusFits
<1>2. ASSUME running', NEW p \in Process, status'[p] = "Running"
      PROVE  \E d \in Core : held'[d] = p /\ pc'[d] \in OnCore
  <2> DEFINE Executed == \E d \in Core : held'[d] = p /\ pc'[d] \in OnCore
  <2>0. /\ pc \in [Core -> OffCore \cup OnCore]
        /\ held \in [Core -> Process \cup {NoProcess}]
        /\ status \in [Process -> {"Ready", "Running", "Sleeping", "Terminated"}]
        /\ status[p] = "Running" => \E d \in Core : held[d] = p /\ pc[d] \in OnCore
    BY <1>2, NeverRestarted DEF SchedulerInv, TypeOK, RunningOnCore
  <2> USE DEF Goto
  <2>1. ASSUME NEW c \in Core,
               \/ Dequeue(c) \/ DequeueWaits(c) \/ PrepareProcessForExecution(c)
               \/ RequeueProcess(c) \/ RequeueNotifies(c) \/ FinalizeProcess(c)
               \/ SpuriousWake(c)
        PROVE  Executed
    <3> DEFINE Stays == \A d \in Core : pc[d] \in OnCore =>
                            pc'[d] \in OnCore /\ held'[d] = held[d]
    <3>1. status' = status
      BY <2>1 DEF Dequeue, DequeueWaits, PrepareProcessForExecution,
         RequeueProcess, RequeueNotifies, FinalizeProcess, SpuriousWake
    <3>2. CASE Dequeue(c) \/ RequeueProcess(c) \/ FinalizeProcess(c)
      <4>1. Stays
        BY <2>0, <3>2 DEF Dequeue, RequeueProcess, FinalizeProcess, OnCore, Executing
      <4> QED
        BY <1>2, <2>0, <3>1, <4>1
    <3>3. CASE DequeueWaits(c) \/ PrepareProcessForExecution(c) \/ SpuriousWake(c)
      <4>1. Stays
        BY <2>0, <3>3 DEF DequeueWaits, PrepareProcessForExecution, SpuriousWake,
           OnCore, Executing
      <4> QED
        BY <1>2, <2>0, <3>1, <4>1
    <3>4. CASE RequeueNotifies(c)
      <4>1. Stays
        BY <2>0, <3>4 DEF RequeueNotifies, Waiting, OnCore, Executing
      <4> QED
        BY <1>2, <2>0, <3>1, <4>1
    <3> QED
      BY <2>1, <3>2, <3>3, <3>4
  <2>2. ASSUME NEW c \in Core, WakeIfReady(c) PROVE Executed
    <3>1. status[p] = "Running" /\ \A d \in Core : pc[d] \in OnCore =>
              pc'[d] \in OnCore /\ held'[d] = held[d]
      BY <1>2, <2>0, <2>2 DEF WakeIfReady, OnCore, Executing
    <3> QED
      BY <2>0, <3>1
  <2>3. ASSUME NEW c \in Core, EnsureStarted(c) PROVE Executed
    <3>1. \A d \in Core : pc[d] \in OnCore \cup {"start"} =>
              (d = c \/ pc[d] \in OnCore => pc'[d] \in OnCore) /\ held'[d] = held[d]
      BY <2>0, <2>3 DEF EnsureStarted, OnCore, Executing
    <3>2. pc[c] = "start" /\ (status'[p] = status[p] \/ p = held[c])
      BY <2>0, <2>3 DEF EnsureStarted
    <3> QED
      BY <1>2, <2>0, <3>1, <3>2
  <2>4. ASSUME NEW c \in Core, FetchCommand(c) \/ TickCheck(c) \/ TickSleep(c)
        PROVE  Executed
    <3>1. status' = status /\ \A d \in Core : pc[d] \in OnCore =>
              pc'[d] \in OnCore /\ held'[d] = held[d]
      BY <2>0, <2>4 DEF FetchCommand, TickCheck, TickSleep, OnCore, Executing
    <3> QED
      BY <1>2, <2>0, <3>1
  <2>5. ASSUME NEW c \in Core, ExecuteCommand(c) PROVE Executed
    <3>1. status[p] = "Running" /\ \A d \in Core : pc[d] \in OnCore =>
              pc'[d] \in OnCore /\ held'[d] = held[d]
      BY <1>2, <2>0, <2>5 DEF ExecuteCommand, OnCore, Executing
    <3> QED
      BY <2>0, <3>1
  <2>6. ASSUME NEW c \in Core, AfterCommand(c) \/ Finish(c) PROVE Executed
    <3>1. held[c] \in Process /\ held' = held /\ running' = running
      BY <2>6, Holding DEF AfterCommand, Finish, EmptyHanded
    <3>2. CASE Keep(c)
      BY <1>2, <2>0, <3>1, <3>2 DEF Keep, OnCore, Executing
    <3>3. ASSUME NEW st \in {"Sleeping", "Ready", "Terminated"}, NEW loc,
                 LeaveCore(c, st, loc)
          PROVE  Executed
      <4>1. p # held[c] /\ status[p] = "Running"
        BY <1>2, <2>0, <3>1, <3>3 DEF LeaveCore
      <4>2. \A d \in Core \ {c} : pc'[d] = pc[d]
        BY <2>0, <3>3 DEF LeaveCore
      <4> QED
        BY <2>0, <3>1, <4>1, <4>2
    <3>4. running
      BY <1>2, NeverRestarted
    <3> QED
      BY <2>6, <3>2, <3>3, <3>4, AfterOutcomes DEF Finish, Terminate
  <2>7. ~FinalizeUnfinishedProcesses
    BY <1>2 DEF FinalizeUnfinishedProcesses, SchedulerInv, ShutdownOrder
  <2>8. CASE ClockStep \/ ConsoleStep \/ UNCHANGED vars
    <3>1. status' = status
      BY <2>7, <2>8 DEF ClockStep, ClockLoop, ClockTick, ClockNotify, OnTick,
         ClockAddProcess, ClockAddNotifies, ConsoleStep, ConsoleFinishes,
         ConsoleCreate, ExitCommand, ConsoleAddProcess, ConsoleAddNotifies,
         StopClock, StopClockNotifies, JoinClock, StopWorkers,
         StopWorkersNotifies, JoinWorkers, vars
    <3>2. held' = held /\ \A d \in Core : pc[d] \in OnCore => pc'[d] \in OnCore
      BY <2>0, <2>8, OthersNotify DEF NotifyOne, NotifyAll, Waiting, OnCore, Executing
    <3> QED
      BY <1>2, <2>0, <3>1, <3>2
  <2> QED
    BY <2>1, <2>2, <2>3, <2>4, <2>5, <2>6, <2>8 DEF Next, WorkerStep, Exited
<1> QED
  BY <1>1, <1>2 DEF RunningOnCore

LEMMA NextNoRunWhileAsleep == SchedulerInv /\ [Next]_vars => NoRunWhileAsleep'
<1> SUFFICES ASSUME SchedulerInv, [Next]_vars, NEW p \in Process, status'[p] # "Sleeping"
             PROVE  wakeIn'[p] = 0
  BY DEF NoRunWhileAsleep
<1>0. /\ status \in [Process -> {"Ready", "Running", "Sleeping", "Terminated"}]
      /\ wakeIn \in [Process -> 0..SleepTicks]
      /\ status[p] # "Sleeping" => wakeIn[p] = 0
  BY DEF SchedulerInv, TypeOK, NoRunWhileAsleep
<1>1. CASE UNCHANGED <<status, wakeIn>>
  BY <1>0, <1>1
<1>2. ASSUME NEW c \in Core, WakeIfReady(c) PROVE wakeIn'[p] = 0
  <2>1. /\ wakeIn' = wakeIn
        /\ status[held[c]] = "Sleeping" /\ status' # status => wakeIn[held[c]] = 0
        /\ status' = status \/ status' = [status EXCEPT ![held[c]] = "Ready"]
    BY <1>2 DEF WakeIfReady, IsSleepComplete
  <2>2. status' # status => status[held[c]] = "Sleeping"
    BY <1>2 DEF WakeIfReady
  <2> QED
    BY <1>0, <2>1, <2>2
<1>3. ASSUME NEW c \in Core, EnsureStarted(c) PROVE wakeIn'[p] = 0
  <2>1. wakeIn' = wakeIn /\ status[p] # "Sleeping"
    BY <1>0, <1>3 DEF EnsureStarted
  <2> QED
    BY <1>0, <2>1
<1>4. ASSUME NEW c \in Core, ExecuteCommand(c) PROVE wakeIn'[p] = 0
  BY <1>0, <1>4 DEF ExecuteCommand
<1>5. ASSUME NEW c \in Core, AfterCommand(c) \/ Finish(c) PROVE wakeIn'[p] = 0
  <2>0. held[c] \in Process
    BY <1>5, Holding DEF AfterCommand, Finish, EmptyHanded
  <2>1. \/ UNCHANGED <<status, wakeIn>>
        \/ \E loc : LeaveCore(c, "Sleeping", loc) /\ status[held[c]] = "Sleeping"
        \/ \E loc : LeaveCore(c, "Ready", loc) /\ Unfinished(c)
        \/ \E loc : LeaveCore(c, "Terminated", loc)
        \/ \E loc : LeaveCore(c, status[held[c]], loc) /\ Unfinished(c)
    BY <1>5, AfterOutcomes DEF Finish, Terminate, Keep
  <2> QED
    BY <1>0, <1>1, <2>0, <2>1 DEF LeaveCore, Unfinished
<1>6. CASE ClockTick
  BY <1>0, <1>6 DEF ClockTick, CountDown
<1>7. CASE FinalizeUnfinishedProcesses
  BY <1>0, <1>7 DEF FinalizeUnfinishedProcesses
<1>8. ASSUME NEW c \in Core, \/ Dequeue(c) \/ DequeueWaits(c)
           \/ PrepareProcessForExecution(c) \/ RequeueProcess(c)
           \/ RequeueNotifies(c) \/ FinalizeProcess(c) \/ FetchCommand(c)
           \/ TickCheck(c) \/ TickSleep(c) \/ SpuriousWake(c)
      PROVE  UNCHANGED <<status, wakeIn>>
  BY <1>8 DEF Dequeue, DequeueWaits, PrepareProcessForExecution,
     RequeueProcess, RequeueNotifies, FinalizeProcess, FetchCommand, TickCheck,
     TickSleep, SpuriousWake
<1>9. CASE ClockStep /\ ~ClockTick
  BY <1>1, <1>9 DEF ClockStep, ClockLoop, ClockNotify, OnTick, ClockAddProcess,
     ClockAddNotifies
<1>10. CASE (ConsoleStep /\ ~FinalizeUnfinishedProcesses) \/ UNCHANGED vars
  BY <1>1, <1>10 DEF ConsoleStep, ConsoleFinishes, ConsoleCreate, ExitCommand,
     ConsoleAddProcess, ConsoleAddNotifies, StopClock, StopClockNotifies,
     JoinClock, StopWorkers, StopWorkersNotifies, JoinWorkers, vars
<1> QED
  BY <1>1, <1>2, <1>3, <1>4, <1>5, <1>6, <1>7, <1>8, <1>9, <1>10
  DEF Next, WorkerStep, Exited

\* A step leaves a terminated process terminated and executes nothing of it.
LEMMA NextTerminatedForGood ==
  ASSUME SchedulerInv, [Next]_vars, NEW p \in Process, status[p] = "Terminated"
  PROVE  status'[p] = "Terminated" /\ executed'[p] = executed[p]
<1>0. /\ status \in [Process -> {"Ready", "Running", "Sleeping", "Terminated"}]
      /\ executed \in [Process -> Nat]
  BY DEF SchedulerInv, TypeOK
<1>1. ASSUME NEW c \in Core,
             WakeIfReady(c) \/ EnsureStarted(c) \/ ExecuteCommand(c)
                \/ AfterCommand(c) \/ Finish(c),
             p = held[c]
      PROVE  status'[p] = "Terminated" /\ executed'[p] = executed[p]
  <2>1. StatusFits(c)
    BY DEF SchedulerInv, StatusAtWorker
  <2>2. ~WakeIfReady(c) /\ ~EnsureStarted(c) /\ ~ExecuteCommand(c) /\ ~Finish(c)
    BY <1>1, <2>1 DEF StatusFits, Waking, Executing, WakeIfReady, EnsureStarted,
       ExecuteCommand, Finish
  <2>3. executed' = executed /\ (Keep(c) \/ \E loc : LeaveCore(c, "Terminated", loc))
    BY <1>1, <2>2, AfterOutcomes DEF AfterCommand, Unfinished
  <2> QED
    BY <1>0, <1>1, <2>3 DEF Keep, LeaveCore
<1>2. ASSUME NEW c \in Core, ExecuteCommand(c), p # held[c]
      PROVE  executed'[p] = executed[p]
  BY <1>0, <1>2 DEF ExecuteCommand
<1>3. (\A c \in Core : ~ExecuteCommand(c)) => executed' = executed
  <2> SUFFICES ASSUME \A c \in Core : ~ExecuteCommand(c) PROVE executed' = executed
    OBVIOUS
  <2>1. ASSUME NEW c \in Core, WorkerStep(c) \/ SpuriousWake(c)
        PROVE  executed' = executed
    BY <2>1 DEF WorkerStep, Dequeue, DequeueWaits, WakeIfReady,
       PrepareProcessForExecution, RequeueProcess, RequeueNotifies,
       FinalizeProcess, EnsureStarted, FetchCommand, TickCheck, TickSleep,
       AfterCommand, Finish, SpuriousWake
  <2>2. CASE ClockStep \/ ConsoleStep \/ UNCHANGED vars
    BY <2>2, OthersNotify
  <2> QED
    BY <2>1, <2>2 DEF Next, Exited
<1>4. ASSUME NEW c \in Core, ExecuteCommand(c) PROVE executed'[p] = executed[p]
  BY <1>1, <1>2, <1>4
<1>5. CASE FinalizeUnfinishedProcesses
  BY <1>0, <1>3, <1>4, <1>5 DEF FinalizeUnfinishedProcesses
<1> QED
  BY <1>1, <1>3, <1>4, <1>5, StatusChanges

-----------------------------------------------------------------------------
(***************************************************************************)
(* No lost wake-up: counting the workers at a place.                       *)
(***************************************************************************)
Workers(loc) == Cardinality(Waiting(loc))

LEMMA WorkersType ==
  \A loc : IsFiniteSet(Waiting(loc)) /\ Workers(loc) \in Nat
           /\ IsFiniteSet(Waiting(loc)') /\ Workers(loc)' \in Nat
<1> SUFFICES ASSUME NEW loc
             PROVE  /\ Waiting(loc) \in SUBSET Core
                    /\ Waiting(loc)' \in SUBSET Core
  BY CoresFinite, FS_CardinalityType DEF Workers
<1> QED
  BY DEF Waiting

\* One worker moves.
Moves(c, from, to) == pc[c] = from /\ pc' = [pc EXCEPT ![c] = to] /\ to # from

LEMMA WorkerMoves ==
  ASSUME pc \in [Core -> OffCore \cup OnCore], NEW c \in Core, NEW from, NEW to,
         Moves(c, from, to)
  PROVE  /\ Workers(to)' = Workers(to) + 1
         /\ Workers(from)' = Workers(from) - 1
         /\ \A loc : loc \notin {from, to} => Workers(loc)' = Workers(loc)
<1>1. /\ Waiting(to)' = Waiting(to) \cup {c}
      /\ Waiting(from)' = Waiting(from) \ {c}
      /\ c \notin Waiting(to) /\ c \in Waiting(from)
  BY DEF Moves, Waiting
<1>2. \A loc : loc \notin {from, to} => Waiting(loc)' = Waiting(loc)
  BY DEF Moves, Waiting
<1>3. Workers(to)' = Workers(to) + 1
  <2>1. Cardinality(Waiting(to) \cup {c}) = Cardinality(Waiting(to)) + 1
    BY <1>1, WorkersType, FS_AddElement
  <2> QED
    BY <1>1, <2>1 DEF Workers
<1>4. Workers(from)' = Workers(from) - 1
  <2>1. Cardinality(Waiting(from) \ {c}) = Cardinality(Waiting(from)) - 1
    BY <1>1, WorkersType, FS_RemoveElement
  <2> QED
    BY <1>1, <2>1 DEF Workers
<1>5. ASSUME NEW loc, loc \notin {from, to} PROVE Workers(loc)' = Workers(loc)
  BY <1>2, <1>5 DEF Workers
<1> QED
  BY <1>3, <1>4, <1>5

Due == (IF tpc = "notify_work" THEN 1 ELSE 0) + (IF cpc = "notify_work" THEN 1 ELSE 0)

\* What must not get smaller while a worker sleeps.
Slack == Workers("dequeue") + Workers("notify") + Due - Len(readyQueue)

LEMMA NextWorkConserving == SchedulerInv /\ [Next]_vars => WorkConserving'
<1> SUFFICES ASSUME SchedulerInv, [Next]_vars, Waiting("queue_wait")' # {},
                    Len(readyQueue') # 0
             PROVE  Slack' >= 0
  <2>1. /\ Len(readyQueue') \in Nat /\ Workers("dequeue")' \in Nat
        /\ Workers("notify")' \in Nat
    BY NextTyped, WorkersType DEF TypeOK
  <2> QED
    BY <2>1 DEF WorkConserving, PendingNotifies, Slack, Due, Workers
<1>0. /\ pc \in [Core -> OffCore \cup OnCore]
      /\ readyQueue \in Seq(Process) /\ Len(readyQueue) \in Nat
      /\ Workers("dequeue") \in Nat /\ Workers("notify") \in Nat /\ Due \in Nat
      /\ held \in [Core -> Process \cup {NoProcess}]
  BY WorkersType DEF SchedulerInv, TypeOK, Due
<1>1. Waiting("queue_wait") # {} => Slack >= 0
  BY <1>0 DEF SchedulerInv, WorkConserving, PendingNotifies, Slack, Due, Workers
<1>2. ASSUME Slack' >= Slack, Waiting("queue_wait") # {} PROVE Slack' >= 0
  <2>1. Slack' \in Int /\ Slack \in Int
    <3>1. Len(readyQueue') \in Nat
      BY NextTyped DEF TypeOK
    <3> QED
      BY <1>0, <3>1, WorkersType DEF Slack, Due
  <2> QED
    BY <1>1, <1>2, <2>1
<1> USE DEF Goto
<1>3. ASSUME NEW c \in Core, Dequeue(c) PROVE Slack' >= 0
  <2>0. Waiting("queue_wait")' = Waiting("queue_wait")
    BY <1>0, <1>3 DEF Dequeue, Waiting
  <2>1. /\ Workers("dequeue")' = Workers("dequeue") - 1
        /\ Workers("notify")' = Workers("notify")
    <3>1. Moves(c, "dequeue", "wake")
      BY <1>3 DEF Dequeue, Moves
    <3> QED
      BY <1>0, <3>1, WorkerMoves
  <2>2. Len(readyQueue') = Len(readyQueue) - 1 /\ Due' = Due
    BY <1>0, <1>3 DEF Dequeue, Due
  <2>3. Slack' >= Slack
    BY <1>0, <2>1, <2>2 DEF Slack
  <2> QED
    BY <1>2, <2>0, <2>3
<1>4. ASSUME NEW c \in Core, DequeueWaits(c) PROVE Slack' >= 0
  BY <1>4 DEF DequeueWaits
<1>5. ASSUME NEW c \in Core, RequeueProcess(c) PROVE Slack' >= 0
  <2>0. Waiting("queue_wait")' = Waiting("queue_wait") /\ Due' = Due
    BY <1>0, <1>5 DEF RequeueProcess, Waiting, Due
  <2>1. CASE running
    <3>1. /\ Workers("dequeue")' = Workers("dequeue")
          /\ Workers("notify")' = Workers("notify") + 1
      <4>1. Moves(c, "requeue", "notify")
        BY <1>5, <2>1 DEF RequeueProcess, Moves
      <4> QED
        BY <1>0, <4>1, WorkerMoves
    <3>2. held[c] \in Process
      BY <1>5, Holding DEF RequeueProcess, EmptyHanded
    <3>3. Len(readyQueue') = Len(readyQueue) + 1
      BY <1>0, <1>5, <2>1, <3>2 DEF RequeueProcess
    <3>4. Slack' >= Slack
      BY <1>0, <2>0, <3>1, <3>3 DEF Slack
    <3> QED
      BY <1>2, <2>0, <3>4
  <2>2. CASE ~running
    <3>1. /\ Workers("dequeue")' = Workers("dequeue") + 1
          /\ Workers("notify")' = Workers("notify")
      <4>1. Moves(c, "requeue", "dequeue")
        BY <1>5, <2>2 DEF RequeueProcess, Moves
      <4> QED
        BY <1>0, <4>1, WorkerMoves
    <3>2. readyQueue' = readyQueue
      BY <1>5, <2>2 DEF RequeueProcess
    <3>3. Slack' >= Slack
      BY <1>0, <2>0, <3>1, <3>2 DEF Slack
    <3> QED
      BY <1>2, <2>0, <3>3
  <2> QED
    BY <2>1, <2>2
<1>6. ASSUME NEW c \in Core, RequeueNotifies(c) PROVE Slack' >= 0
  <2>1. PICK d \in Waiting("queue_wait") :
          pc' = [pc EXCEPT ![c] = "dequeue", ![d] = "dequeue"]
    <3>1. CASE Waiting("queue_wait") = {}
      BY <1>0, <1>6, <3>1 DEF RequeueNotifies, Waiting
    <3> QED
      BY <1>6, <3>1 DEF RequeueNotifies
  <2>2. /\ Waiting("dequeue")' = (Waiting("dequeue") \cup {c}) \cup {d}
        /\ c \notin Waiting("dequeue") /\ d \notin Waiting("dequeue") \cup {c}
        /\ Waiting("notify")' = Waiting("notify") \ {c}
        /\ c \in Waiting("notify")
    BY <1>0, <1>6, <2>1 DEF RequeueNotifies, Waiting
  <2>3. Workers("dequeue")' = Workers("dequeue") + 2
    <3>1. /\ IsFiniteSet(Waiting("dequeue") \cup {c})
          /\ Cardinality(Waiting("dequeue") \cup {c}) = Workers("dequeue") + 1
      BY <2>2, WorkersType, FS_AddElement DEF Workers
    <3>2. Cardinality((Waiting("dequeue") \cup {c}) \cup {d}) = Workers("dequeue") + 1 + 1
      BY <2>2, <3>1, FS_AddElement
    <3>3. Workers("dequeue")' = Cardinality((Waiting("dequeue") \cup {c}) \cup {d})
      BY <2>2 DEF Workers
    <3> QED
      BY <1>0, <3>2, <3>3
  <2>4. Workers("notify")' = Workers("notify") - 1
    BY <1>0, <2>2, WorkersType, FS_RemoveElement DEF Workers
  <2>5. readyQueue' = readyQueue /\ Due' = Due
    BY <1>6 DEF RequeueNotifies, Due
  <2>6. Slack' >= Slack
    BY <1>0, <2>3, <2>4, <2>5 DEF Slack
  <2> QED
    BY <1>2, <2>1, <2>6
<1>7. ASSUME NEW c \in Core, FinalizeProcess(c) PROVE Slack' >= 0
  <2>0. Waiting("queue_wait")' = Waiting("queue_wait")
    BY <1>0, <1>7 DEF FinalizeProcess, Waiting
  <2>1. /\ Workers("dequeue")' = Workers("dequeue") + 1
        /\ Workers("notify")' = Workers("notify")
    <3>1. Moves(c, "finalize", "dequeue")
      BY <1>7 DEF FinalizeProcess, Moves
    <3> QED
      BY <1>0, <3>1, WorkerMoves
  <2>2. readyQueue' = readyQueue /\ Due' = Due
    BY <1>7 DEF FinalizeProcess, Due
  <2>3. Slack' >= Slack
    BY <1>0, <2>1, <2>2 DEF Slack
  <2> QED
    BY <1>2, <2>0, <2>3
<1>8. ASSUME NEW c \in Core, SpuriousWake(c) PROVE Slack' >= 0
  <2>0. Waiting("queue_wait")' \subseteq Waiting("queue_wait")
    BY <1>0, <1>8 DEF SpuriousWake, Waiting
  <2>1. /\ Workers("dequeue")' >= Workers("dequeue")
        /\ Workers("notify")' = Workers("notify")
    <3>1. CASE pc[c] = "queue_wait"
      <4>1. Moves(c, "queue_wait", "dequeue")
        BY <1>8, <3>1 DEF SpuriousWake, Moves
      <4>2. Workers("dequeue")' = Workers("dequeue") + 1
        BY <1>0, <4>1, WorkerMoves
      <4>3. Workers("notify")' = Workers("notify")
        BY <1>0, <4>1, WorkerMoves
      <4> QED
        BY <1>0, <4>2, <4>3
    <3>2. CASE pc[c] = "tick_wait"
      <4>1. Moves(c, "tick_wait", "tick_check")
        BY <1>8, <3>2 DEF SpuriousWake, Moves
      <4>2. /\ Workers("dequeue")' = Workers("dequeue")
            /\ Workers("notify")' = Workers("notify")
        BY <1>0, <4>1, WorkerMoves
      <4> QED
        BY <1>0, <4>2
    <3> QED
      BY <1>8, <3>1, <3>2 DEF SpuriousWake
  <2>2. readyQueue' = readyQueue /\ Due' = Due
    BY <1>8 DEF SpuriousWake, Due
  <2>3. Slack' >= Slack
    BY <1>0, <2>1, <2>2, WorkersType DEF Slack
  <2> QED
    BY <1>2, <2>0, <2>3
\* The other steps move workers only between places that do not count.
<1>9. ASSUME \A loc \in {"queue_wait", "dequeue", "notify"} : Waiting(loc)' = Waiting(loc),
             readyQueue' = readyQueue, Due' = Due
      PROVE  Slack' >= 0
  <2>1. Slack' >= Slack
    BY <1>0, <1>9 DEF Slack, Workers
  <2> QED
    BY <1>2, <1>9, <2>1
<1>10. ASSUME NEW c \in Core, \/ WakeIfReady(c) \/ PrepareProcessForExecution(c)
              \/ EnsureStarted(c) \/ FetchCommand(c) \/ TickCheck(c) \/ TickSleep(c)
              \/ ExecuteCommand(c) \/ AfterCommand(c) \/ Finish(c)
       PROVE  Slack' >= 0
  <2>1. readyQueue' = readyQueue /\ Due' = Due
    BY <1>10 DEF WakeIfReady, PrepareProcessForExecution, EnsureStarted,
       FetchCommand, TickCheck, TickSleep, ExecuteCommand, AfterCommand, Finish, Due
  <2>2. /\ pc[c] \notin {"queue_wait", "dequeue", "notify"}
        /\ \E loc \in OffCore \cup OnCore :
             loc \notin {"queue_wait", "dequeue", "notify"} /\ Goto(c, loc)
    <3>1. CASE WakeIfReady(c) \/ PrepareProcessForExecution(c) \/ EnsureStarted(c)
      BY <3>1 DEF WakeIfReady, PrepareProcessForExecution, EnsureStarted, OffCore,
         OnCore, Executing
    <3>2. CASE FetchCommand(c) \/ TickCheck(c) \/ TickSleep(c) \/ ExecuteCommand(c)
      BY <3>2 DEF FetchCommand, TickCheck, TickSleep, ExecuteCommand, OffCore,
         OnCore, Executing
    <3>3. CASE AfterCommand(c) \/ Finish(c)
      BY <3>3, AfterOutcomes DEF AfterCommand, Finish, Terminate, Keep, LeaveCore,
         OffCore, OnCore, Executing
    <3> QED
      BY <1>10, <3>1, <3>2, <3>3
  <2>3. \A loc \in {"queue_wait", "dequeue", "notify"} : Waiting(loc)' = Waiting(loc)
    BY <1>0, <2>2 DEF Waiting
  <2> QED
    BY <1>9, <2>1, <2>3
<1>11. ASSUME NEW t \in Creator, adding[t] # NoProcess, PushNew(t), pc' = pc,
              Due' = Due + 1
       PROVE  Slack' >= 0
  <2>1. adding[t] \in Process
    BY <1>11 DEF SchedulerInv, TypeOK
  <2>2. Len(readyQueue') = Len(readyQueue) + 1
    BY <1>0, <1>11, <2>1 DEF PushNew
  <2>3. \A loc : Waiting(loc)' = Waiting(loc)
    BY <1>11 DEF Waiting
  <2>4. Slack' >= Slack
    BY <1>0, <1>11, <2>2, <2>3 DEF Slack, Workers
  <2> QED
    BY <1>2, <2>3, <2>4
<1>12. CASE ClockAddProcess \/ ConsoleAddProcess
  BY <1>11, <1>12 DEF ClockAddProcess, ConsoleAddProcess, Due, Creator,
     SchedulerInv, AddingMatches
<1>13. ASSUME NotifyOne("queue_wait", "dequeue"), Due' = Due - 1, readyQueue' = readyQueue
       PROVE  Slack' >= 0
  <2>1. Waiting("queue_wait") # {}
    BY <1>13 DEF NotifyOne, Waiting
  <2>2. PICK c \in Waiting("queue_wait") : pc' = [pc EXCEPT ![c] = "dequeue"]
    BY <1>13, <2>1 DEF NotifyOne
  <2>3. /\ Workers("dequeue")' = Workers("dequeue") + 1
        /\ Workers("notify")' = Workers("notify")
    <3>1. c \in Core /\ Moves(c, "queue_wait", "dequeue")
      BY <2>2 DEF Waiting, Moves
    <3> QED
      BY <1>0, <3>1, WorkerMoves
  <2>4. Slack' >= Slack
    BY <1>0, <1>13, <2>3 DEF Slack
  <2> QED
    BY <1>2, <2>1, <2>4
<1>14. CASE ClockAddNotifies \/ ConsoleAddNotifies
  BY <1>13, <1>14 DEF ClockAddNotifies, ConsoleAddNotifies, Due
<1>15. CASE ClockNotify \/ StopClockNotifies
  <2>1. readyQueue' = readyQueue /\ Due' = Due /\ NotifyAll("tick_wait", "tick_check")
    BY <1>15 DEF ClockNotify, StopClockNotifies, Due
  <2>2. \A loc \in {"queue_wait", "dequeue", "notify"} : Waiting(loc)' = Waiting(loc)
    BY <1>0, <2>1 DEF NotifyAll, Waiting
  <2> QED
    BY <1>9, <2>1, <2>2
<1>16. ~StopWorkers /\ ~StopWorkersNotifies
  BY DEF StopWorkers, StopWorkersNotifies, NotifyAll, Waiting
<1>17. CASE \/ ClockLoop \/ ClockTick \/ OnTick \/ ConsoleCreate \/ ExitCommand
            \/ StopClock \/ JoinClock \/ JoinWorkers \/ FinalizeUnfinishedProcesses
            \/ UNCHANGED vars
  <2>1. readyQueue' = readyQueue /\ Due' = Due /\ pc' = pc
    BY <1>17 DEF ClockLoop, ClockTick, OnTick, ConsoleCreate, ExitCommand,
       StopClock, JoinClock, JoinWorkers, FinalizeUnfinishedProcesses, vars, Due
  <2> QED
    BY <1>9, <2>1 DEF Waiting
<1> QED
  BY <1>3, <1>4, <1>5, <1>6, <1>7, <1>8, <1>10, <1>12, <1>14, <1>15, <1>16, <1>17
  DEF Next, WorkerStep, ClockStep, ConsoleStep, ConsoleFinishes, Exited

-----------------------------------------------------------------------------
(***************************************************************************)
(* The invariant and what follows from it.                                 *)
(***************************************************************************)
LEMMA InitSchedulerInv == Init => SchedulerInv
<1> SUFFICES ASSUME Init PROVE SchedulerInv
  OBVIOUS
<1> USE DEF Init
<1>1. TypeOK
  <2>1. readyQueue \in Seq(Process)
    OBVIOUS
  <2>2. availableCores \in 0..Cardinality(Core)
    BY CoresFinite
  <2>3. wakeIn \in [Process -> 0..SleepTicks] /\ left \in [Core -> 0..Quantum]
        /\ waitFor \in [Core -> 0..(DelaysPerExec + 1)]
    BY TicksAssumption, QuantumAssumption
  <2> QED
    BY <2>1, <2>2, <2>3 DEF TypeOK, OffCore
<1>2. Queued = {} /\ Held = {} /\ Added = {}
  BY DEF Queued, Held, Added
<1>3. HeldMatches /\ AddingMatches
  BY DEF HeldMatches, AddingMatches, EmptyHanded, Creator
<1>4. StatusAtWorker /\ StatusElsewhere
  BY <1>2 DEF StatusAtWorker, StatusFits, StatusElsewhere, Executing
<1>5. SliceLeft /\ ShutdownOrder /\ StoppedStaysEmpty
  BY DEF SliceLeft, Executing, ShutdownOrder, StoppedStaysEmpty
<1>6. SinglePlace /\ NothingLost /\ RunnableRegistered
  BY <1>2 DEF SinglePlace, NothingLost, RunnableRegistered
<1>7. CoreAccounting
  <2>1. coreBusy = {c \in Core : pc[c] \in OnCore}
    BY DEF OnCore, Executing
  <2> QED
    BY <2>1, CoresFinite, FS_EmptySet DEF CoreAccounting
<1>8. RunningOnCore /\ NoRunWhileAsleep
  BY DEF RunningOnCore, NoRunWhileAsleep, Executing
<1>9. WorkConserving
  BY DEF WorkConserving, Waiting
<1> QED
  BY <1>1, <1>3, <1>4, <1>5, <1>6, <1>7, <1>8, <1>9 DEF SchedulerInv

LEMMA NextSchedulerInv == SchedulerInv /\ [Next]_vars => SchedulerInv'
BY NextTyped, NextHeldMatches, NextAddingMatches, NextStatusAtWorker,
   NextStatusElsewhere, NextSliceLeft, NextShutdownOrder, NextPlaces,
   NextNothingLost, NextCoreAccounting, NextRunningOnCore, NextNoRunWhileAsleep,
   NextWorkConserving, NextStoppedStaysEmpty
DEF SchedulerInv

LEMMA SchedulerInvariant == Spec => []SchedulerInv
BY InitSchedulerInv, NextSchedulerInv, PTL DEF Spec

\* All variables keep their types, for every configuration of the scheduler.
THEOREM SchedulerTypeCorrect == Spec => []TypeOK
<1>1. SchedulerInv => TypeOK
  BY DEF SchedulerInv
<1> QED
  BY <1>1, SchedulerInvariant, PTL

\* Scheduler::RunScheduler and AddProcess: no interleaving of workers, creators and
\* shutdown executes one process on two cores, queues it twice or drops it.
THEOREM ProcessInOnePlace == Spec => []InOnePlace
<1>1. SchedulerInv => InOnePlace
  BY DEF SchedulerInv, InOnePlace
<1> QED
  BY <1>1, SchedulerInvariant, PTL

\* What is queued or dequeued has its page table: FinalizeProcess never takes the
\* memory of a process that still runs.
THEOREM MemoryOutlivesExecution == Spec => []RunnableRegistered
<1>1. SchedulerInv => RunnableRegistered
  BY DEF SchedulerInv
<1> QED
  BY <1>1, SchedulerInvariant, PTL

\* CPUManager's flags and counter always tell which workers execute a process.
THEOREM CoresAccountedFor == Spec => []CoreAccounting
<1>1. SchedulerInv => CoreAccounting
  BY DEF SchedulerInv
<1> QED
  BY <1>1, SchedulerInvariant, PTL

\* Process status and execution agree: Running means on a core.
THEOREM RunningMeansOnCore == Spec => []RunningOnCore
<1>1. SchedulerInv => RunningOnCore
  BY DEF SchedulerInv
<1> QED
  BY <1>1, SchedulerInvariant, PTL

\* WakeIfReady: no process is offered for running before its wake tick.
THEOREM SleepersAreLeftAlone == Spec => []NoRunWhileAsleep
<1>1. SchedulerInv => NoRunWhileAsleep
  BY DEF SchedulerInv
<1> QED
  BY <1>1, SchedulerInvariant, PTL

\* queueCondition: no notification is lost, so no process waits in the queue while
\* every worker that could take it sleeps with nothing to wake it.
THEOREM NoLostWakeup == Spec => []WorkConserving
<1>1. SchedulerInv => WorkConserving
  BY DEF SchedulerInv
<1> QED
  BY <1>1, SchedulerInvariant, PTL

\* Scheduler::Stop: after it has drained the queue nobody fills it again.
THEOREM StopIsFinal == Spec => []StoppedStaysEmpty
<1>1. SchedulerInv => StoppedStaysEmpty
  BY DEF SchedulerInv
<1> QED
  BY <1>1, SchedulerInvariant, PTL

\* ProcessStatus::Terminated is final, and so is the count of executed commands.
THEOREM TerminationIsFinal == Spec => TerminatedForGood
<1>1. SchedulerInv /\ [Next]_vars =>
        [\A p \in Process : status[p] = "Terminated" =>
            status'[p] = "Terminated" /\ executed'[p] = executed[p]]_vars
  BY NextTerminatedForGood
<1> QED
  BY <1>1, SchedulerInvariant, PTL DEF Spec, TerminatedForGood
=============================================================================
