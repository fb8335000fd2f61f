----------------------------- MODULE ShellProofs -----------------------------
(***************************************************************************)
(* Proofs about Shell, for any number of processes, ticks, names, and any  *)
(* contents of the counters at the start: scheduler-stop takes effect,     *)
(* vmstat never shows more idle and active ticks than ticks, a process is  *)
(* made whole, and screen -r shows the process it was asked for.           *)
(***************************************************************************)
EXTENDS Shell, FiniteSetTheorems, TLAPS

\* Each tick is counted once, in a step of its own.
TicksCounted ==
    /\ idleTickTime \in Nat /\ activeTickTime \in Nat
    /\ currentTick \in Nat /\ garbage \in Nat
    /\ tpc = "count" => idleTickTime + activeTickTime + 1 = currentTick + garbage
    /\ tpc # "count" => idleTickTime + activeTickTime = currentTick + garbage

\* While generation is off the clock can at most have passed its test already.
OneMoreAtMost ==
    /\ generating \in BOOLEAN
    /\ afterStop \in {0, 1}
    /\ generating => afterStop = 0
    /\ tpc = "generate" => afterStop = 0

\* The clock is started by `initialize` and by nothing else.
OffBefore == cpc = "preboot" => tpc = "off"

\* What vmstat has read is no more than what the counters hold by now.
ReadsBehind ==
    /\ shown \in [idle : Nat, active : Nat, total : Nat]
    /\ cpc = "vmstat_active" => shown.idle <= idleTickTime
    /\ cpc = "vmstat_total" => shown.idle + shown.active <= idleTickTime + activeTickTime
    /\ cpc = "vmstat_shown" => shown.idle + shown.active <= shown.total + garbage

ShellInv == TicksCounted /\ OneMoreAtMost /\ OffBefore /\ ReadsBehind

LEMMA InitShellInv == Init => ShellInv
<1> SUFFICES ASSUME Init PROVE ShellInv
  OBVIOUS
<1>1. idleTickTime \in Nat /\ activeTickTime \in Nat
  BY ShellAssumption DEF Init
<1>2. TicksCounted
  BY <1>1 DEF Init, TicksCounted
<1>3. OneMoreAtMost
  BY DEF Init, OneMoreAtMost
<1>4. ReadsBehind
  BY DEF Init, ReadsBehind, NotShown
<1>5. OffBefore
  BY DEF Init, OffBefore
<1> QED
  BY <1>2, <1>3, <1>4, <1>5 DEF ShellInv

\* The variables that the invariant speaks of.
Watched == <<clockVars, cpc, shown>>

LEMMA UnwatchedKeeps == ShellInv /\ UNCHANGED Watched => ShellInv'
<1> SUFFICES ASSUME ShellInv, UNCHANGED Watched PROVE ShellInv'
  OBVIOUS
<1>1. TicksCounted'
  BY DEF ShellInv, TicksCounted, Watched, clockVars
<1>2. OneMoreAtMost'
  BY DEF ShellInv, OneMoreAtMost, Watched, clockVars
<1>3. OffBefore' /\ ReadsBehind'
  BY DEF ShellInv, OffBefore, ReadsBehind, Watched, clockVars
<1> QED
  BY <1>1, <1>2, <1>3 DEF ShellInv

\* A step of the clock thread.
LEMMA ClockKeeps == ShellInv /\ ClockStep => ShellInv'
<1> SUFFICES ASSUME ShellInv, ClockStep PROVE ShellInv'
  OBVIOUS
<1> USE DEF ShellInv
<1>1. CASE Tick
  <2>1. TicksCounted'
    BY <1>1 DEF Tick, TicksCounted
  <2>2. OneMoreAtMost' /\ OffBefore'
    BY <1>1 DEF Tick, OneMoreAtMost, OffBefore, consoleVars
  <2>3. ReadsBehind'
    BY <1>1 DEF Tick, ReadsBehind, consoleVars
  <2> QED
    BY <2>1, <2>2, <2>3
<1>2. CASE TickBound
  <2>1. TicksCounted'
    BY <1>2 DEF TickBound, TicksCounted
  <2>2. OneMoreAtMost' /\ OffBefore'
    BY <1>2 DEF TickBound, OneMoreAtMost, OffBefore, consoleVars
  <2>3. ReadsBehind'
    BY <1>2 DEF TickBound, ReadsBehind, consoleVars
  <2> QED
    BY <2>1, <2>2, <2>3
<1>3. CASE CountTick
  <2>1. TicksCounted' /\ idleTickTime' >= idleTickTime /\ activeTickTime' >= activeTickTime
    BY <1>3 DEF CountTick, TicksCounted
  <2>2. OneMoreAtMost' /\ OffBefore'
    BY <1>3 DEF CountTick, OneMoreAtMost, OffBefore, consoleVars
  <2>3. ReadsBehind'
    BY <1>3, <2>1 DEF CountTick, ReadsBehind, TicksCounted, consoleVars
  <2> QED
    BY <2>1, <2>2, <2>3
<1>4. CASE TestGenerating
  <2>1. TicksCounted'
    BY <1>4 DEF TestGenerating, TicksCounted
  <2>2. OneMoreAtMost' /\ OffBefore'
    BY <1>4 DEF TestGenerating, OneMoreAtMost, OffBefore, consoleVars
  <2>3. ReadsBehind'
    BY <1>4 DEF TestGenerating, ReadsBehind, consoleVars
  <2> QED
    BY <2>1, <2>2, <2>3
<1>5. CASE OnTickGenerates
  <2>1. TicksCounted'
    BY <1>5 DEF OnTickGenerates, TicksCounted
  <2>2. OneMoreAtMost' /\ OffBefore'
    <3>1. afterStop = 0 /\ generating \in BOOLEAN
      BY <1>5 DEF OnTickGenerates, OneMoreAtMost
    <3>2. afterStop' \in {0, 1} /\ (generating => afterStop' = 0)
      <4>1. CASE generating
        BY <1>5, <3>1, <4>1 DEF OnTickGenerates
      <4>2. CASE ~generating
        <5>1. afterStop' = afterStop + 1
          BY <1>5, <4>2, Zenon DEF OnTickGenerates
        <5>2. afterStop' = 1
          BY <5>1, <3>1
        <5> QED
          BY <5>2, <4>2
      <4> QED
        BY <4>1, <4>2
    <3>3. generating' = generating /\ tpc' = "generated" /\ cpc' = cpc /\ tpc # "off"
      BY <1>5 DEF OnTickGenerates, consoleVars
    <3> QED
      BY <3>1, <3>2, <3>3 DEF OneMoreAtMost, OffBefore
  <2>3. ReadsBehind'
    BY <1>5 DEF OnTickGenerates, ReadsBehind, consoleVars
  <2> QED
    BY <2>1, <2>2, <2>3
<1>6. CASE OnTickReturns
  <2>1. TicksCounted'
    BY <1>6 DEF OnTickReturns, TicksCounted
  <2>2. OneMoreAtMost' /\ OffBefore'
    BY <1>6 DEF OnTickReturns, OneMoreAtMost, OffBefore, consoleVars
  <2>3. ReadsBehind'
    BY <1>6 DEF OnTickReturns, ReadsBehind, consoleVars
  <2> QED
    BY <2>1, <2>2, <2>3
<1> QED
  BY <1>1, <1>2, <1>3, <1>4, <1>5, <1>6 DEF ClockStep

\* A step of the console thread that leaves the clock and what vmstat has read
\* alone, and ends in none of the places the invariant names.
LEMMA ElsewhereKeeps ==
  ASSUME ShellInv, UNCHANGED <<clockVars, shown>>,
         cpc' \notin {"preboot", "vmstat_active", "vmstat_total", "vmstat_shown"}
  PROVE  ShellInv'
<1>1. TicksCounted'
  BY DEF ShellInv, TicksCounted, clockVars
<1>2. OneMoreAtMost'
  BY DEF ShellInv, OneMoreAtMost, clockVars
<1>3. OffBefore' /\ ReadsBehind'
  BY DEF ShellInv, OffBefore, ReadsBehind
<1> QED
  BY <1>1, <1>2, <1>3 DEF ShellInv

\* A step of the console thread.
LEMMA ConsoleKeeps == ShellInv /\ ConsoleStep => ShellInv'
<1> SUFFICES ASSUME ShellInv, ConsoleStep PROVE ShellInv'
  OBVIOUS
<1> USE DEF ShellInv
<1>1. CASE PrebootExit \/ EnterMain \/ ShowScreen \/ Exit \/ JoinClock
           \/ \E i \in DOMAIN registry : FindProcess(processes[registry[i]].name)
  BY <1>1, ElsewhereKeeps DEF PrebootExit, EnterMain, ShowScreen, Exit, JoinClock, FindProcess
<1>2. CASE ExitScreen
  BY <1>2, ElsewhereKeeps DEF ExitScreen, Prompt
<1>3. CASE FinalizeUnfinishedProcesses
  BY <1>3, ElsewhereKeeps DEF FinalizeUnfinishedProcesses
<1>4. CASE \E name \in UserNames : CreateScreen(name)
  <2>1. TicksCounted'
    BY <1>4 DEF CreateScreen, TicksCounted, OffBefore, clockVars
  <2>2. OneMoreAtMost' /\ OffBefore'
    BY <1>4 DEF CreateScreen, OneMoreAtMost, OffBefore, OnMain, Prompt, clockVars, consoleVars
  <2>3. ReadsBehind'
    BY <1>4 DEF CreateScreen, TicksCounted, ReadsBehind, NotShown, clockVars, consoleVars
  <2> QED
    BY <2>1, <2>2, <2>3
<1>5. CASE Initialize
  <2>1. TicksCounted'
    BY <1>5 DEF Initialize, TicksCounted, OffBefore, clockVars
  <2>2. OneMoreAtMost' /\ OffBefore'
    BY <1>5 DEF Initialize, OneMoreAtMost, OffBefore, OnMain, Prompt, clockVars, consoleVars
  <2>3. ReadsBehind'
    BY <1>5 DEF Initialize, TicksCounted, ReadsBehind, NotShown, clockVars, consoleVars
  <2> QED
    BY <2>1, <2>2, <2>3
<1>6. CASE SchedulerStart
  <2>1. TicksCounted'
    BY <1>6 DEF SchedulerStart, TicksCounted, OffBefore, clockVars
  <2>2. OneMoreAtMost' /\ OffBefore'
    BY <1>6 DEF SchedulerStart, OneMoreAtMost, OffBefore, OnMain, Prompt, clockVars, consoleVars
  <2>3. ReadsBehind'
    BY <1>6 DEF SchedulerStart, TicksCounted, ReadsBehind, NotShown, clockVars, consoleVars
  <2> QED
    BY <2>1, <2>2, <2>3
<1>7. CASE SchedulerStop
  <2>1. TicksCounted'
    BY <1>7 DEF SchedulerStop, TicksCounted, OffBefore, clockVars
  <2>2. OneMoreAtMost' /\ OffBefore'
    BY <1>7 DEF SchedulerStop, OneMoreAtMost, OffBefore, OnMain, Prompt, clockVars, consoleVars
  <2>3. ReadsBehind'
    BY <1>7 DEF SchedulerStop, TicksCounted, ReadsBehind, NotShown, clockVars, consoleVars
  <2> QED
    BY <2>1, <2>2, <2>3
<1>8. CASE StopClock
  <2>1. TicksCounted'
    BY <1>8 DEF StopClock, TicksCounted, OffBefore, clockVars
  <2>2. OneMoreAtMost' /\ OffBefore'
    BY <1>8 DEF StopClock, OneMoreAtMost, OffBefore, OnMain, Prompt, clockVars, consoleVars
  <2>3. ReadsBehind'
    BY <1>8 DEF StopClock, TicksCounted, ReadsBehind, NotShown, clockVars, consoleVars
  <2> QED
    BY <2>1, <2>2, <2>3
<1>9. CASE VmstatIdle
  <2>1. TicksCounted'
    BY <1>9 DEF VmstatIdle, TicksCounted, OffBefore, clockVars
  <2>2. OneMoreAtMost' /\ OffBefore'
    BY <1>9 DEF VmstatIdle, OneMoreAtMost, OffBefore, OnMain, Prompt, clockVars, consoleVars
  <2>3. ReadsBehind'
    BY <1>9 DEF VmstatIdle, TicksCounted, ReadsBehind, NotShown, clockVars, consoleVars
  <2> QED
    BY <2>1, <2>2, <2>3
<1>10. CASE VmstatActive
  <2>1. TicksCounted'
    BY <1>10 DEF VmstatActive, TicksCounted, OffBefore, clockVars
  <2>2. OneMoreAtMost' /\ OffBefore'
    BY <1>10 DEF VmstatActive, OneMoreAtMost, OffBefore, OnMain, Prompt, clockVars, consoleVars
  <2>3. ReadsBehind'
    BY <1>10 DEF VmstatActive, TicksCounted, ReadsBehind, NotShown, clockVars, consoleVars
  <2> QED
    BY <2>1, <2>2, <2>3
<1>11. CASE VmstatTotal
  <2>1. TicksCounted'
    BY <1>11 DEF VmstatTotal, TicksCounted, OffBefore, clockVars
  <2>2. OneMoreAtMost' /\ OffBefore'
    BY <1>11 DEF VmstatTotal, OneMoreAtMost, OffBefore, OnMain, Prompt, clockVars, consoleVars
  <2>3. ReadsBehind'
    BY <1>11 DEF VmstatTotal, TicksCounted, ReadsBehind, NotShown, clockVars, consoleVars
  <2> QED
    BY <2>1, <2>2, <2>3
<1>12. CASE VmstatReturns
  <2>1. TicksCounted'
    BY <1>12 DEF VmstatReturns, TicksCounted, OffBefore, clockVars
  <2>2. OneMoreAtMost' /\ OffBefore'
    BY <1>12 DEF VmstatReturns, OneMoreAtMost, OffBefore, OnMain, Prompt, clockVars, consoleVars
  <2>3. ReadsBehind'
    BY <1>12 DEF VmstatReturns, TicksCounted, ReadsBehind, NotShown, clockVars, consoleVars
  <2> QED
    BY <2>1, <2>2, <2>3
<1> QED
  BY <1>1, <1>2, <1>3, <1>4, <1>5, <1>6, <1>7, <1>8, <1>9, <1>10, <1>11, <1>12
  DEF ConsoleStep

LEMMA NextShellInv == ShellInv /\ [Next]_vars => ShellInv'
<1> SUFFICES ASSUME ShellInv, [Next]_vars PROVE ShellInv'
  OBVIOUS
<1>1. CASE ClockStep
  BY <1>1, ClockKeeps
<1>2. CASE ConsoleStep
  BY <1>2, ConsoleKeeps
<1>3. CASE Workers
  BY <1>3, UnwatchedKeeps DEF Workers, Watched, consoleVars
<1>4. CASE \E t \in Creator : Creation(t)
  BY <1>4, UnwatchedKeeps DEF Creation, Watched, consoleVars
<1>5. CASE Exited \/ UNCHANGED vars
  BY <1>5, UnwatchedKeeps DEF Exited, vars, Watched, consoleVars
<1> QED
  BY <1>1, <1>2, <1>3, <1>4, <1>5 DEF Next

LEMMA ShellInvariant == Spec => []ShellInv
BY InitShellInv, NextShellInv, PTL DEF Spec

\* After scheduler-stop the clock makes one more process at most, however the
\* command falls between OnTick's test and GenerateOne.
THEOREM StopAlwaysTakesEffect == Spec => []StopTakesEffect
<1>1. ShellInv => StopTakesEffect
  BY DEF ShellInv, OneMoreAtMost, StopTakesEffect
<1> QED
  BY <1>1, ShellInvariant, PTL

\* PrintVirtualMemoryStats never shows more idle and active ticks than ticks, apart
\* from what the counters started from, although it takes no lock.
THEOREM VmstatIsNeverAhead == Spec => []VmstatNeverOverstates
<1>1. ShellInv => VmstatNeverOverstates
  BY DEF ShellInv, ReadsBehind, VmstatNeverOverstates
<1> QED
  BY <1>1, ShellInvariant, PTL

-----------------------------------------------------------------------------
\* These four only name groups of variables.
USE DEF screenVars, genVars, clockVars, consoleVars

(***************************************************************************)
(* Processes, drafts and screens.  Part one: types, which hold whatever    *)
(* the two threads do to each other.                                       *)
(***************************************************************************)
ProcessNames == (UserNames \ {""}) \cup {MakeProcessName(i) : i \in 1..MaxProcesses}

\* What BeginGenerate is given.
GivenNames == UserNames \cup {""}

ProcessType == [id : Nat, name : ProcessNames, by : Creator, status : Statuses]

DraftType == [name : ProcessNames \cup {""}, id : Nat, seen : Nat, index : Nat, list : Seq(Nat)]

\* The places of GenerateOne before and after the process is made.
Drafting == {"construct", "register"}
Counting == {"increment", "store_id"}
Unscreened == Counting \cup {"find_screen", "insert_screen"}
Unscheduled == Unscreened \cup {"schedule"}
Making == Unscheduled \cup {"list", "append"}

One(t, places) == IF pc[t] \in places THEN 1 ELSE 0

Other(t) == IF t = "clock" THEN "console" ELSE "clock"

GenTyped ==
    /\ nextProcessId \in Nat \ {0}
    /\ processes \in Seq(ProcessType)
    /\ scheduled \subseteq Indices
    /\ registry \in Seq(Nat)
    /\ pc \in [Creator -> {"idle"} \cup Drafting \cup Making]
    /\ draft \in [Creator -> DraftType]

\* A thread that waits or has just begun holds no process yet, one that makes a
\* process holds one of those that were made.
DraftsInRange ==
    \A t \in Creator :
        /\ pc[t] = "idle" => draft[t] = NoDraft
        /\ pc[t] \notin Making => draft[t].index = 0
        /\ pc[t] \in Making => draft[t].index \in Indices
        /\ pc[t] # "idle" => draft[t].name \in ProcessNames

\* There is room for what is being made, and the next id stays below it, though a
\* thread may store an id that it has read long ago.
CountersInRange ==
    \A t \in Creator :
        /\ Len(processes) + One(t, Drafting) + One(Other(t), Drafting) <= MaxProcesses
        /\ nextProcessId + One(t, Counting) + One(Other(t), Counting) <= Len(processes) + 1
        /\ pc[t] = "store_id" =>
              draft[t].seen + 1 + One(Other(t), Counting) <= Len(processes) + 1

\* A name in the table leads to the screen of that name.
ScreensTyped ==
    \A n \in DOMAIN screenTable :
        /\ screenTable[n].name = n
        /\ screenTable[n].process \in 0..Len(processes)

SharedTyped == GenTyped /\ DraftsInRange /\ CountersInRange /\ ScreensTyped

Shared == <<screenTable, genVars>>

\* There are two of them.
LEMMA TwoCreators ==
  ASSUME NEW t \in Creator
  PROVE  /\ Other(t) \in Creator /\ Other(t) # t /\ Other(Other(t)) = t
         /\ \A u \in Creator : u = t \/ u = Other(t)
BY DEF Creator, Other

LEMMA NoDraftTyped == NoDraft \in DraftType /\ NoDraft.index = 0
<1>1. <<>> \in Seq(Nat)
  OBVIOUS
<1> QED
  BY <1>1 DEF NoDraft, DraftType

LEMMA InitSharedTyped == Init => SharedTyped
<1> SUFFICES ASSUME Init PROVE SharedTyped
  OBVIOUS
<1>1. /\ nextProcessId = 1 /\ processes = <<>> /\ scheduled = {} /\ registry = <<>>
      /\ pc = [t \in Creator |-> "idle"] /\ draft = [t \in Creator |-> NoDraft]
  BY DEF Init, InitGenerator
<1>2. <<>> \in Seq(Nat) /\ <<>> \in Seq(ProcessType) /\ Len(<<>>) = 0
  OBVIOUS
<1>3. NoDraft \in DraftType
  BY NoDraftTyped
<1>4. GenTyped
  BY <1>1, <1>2, <1>3 DEF GenTyped
<1>5. DraftsInRange
  BY <1>1 DEF DraftsInRange, NoDraft, Making, Unscheduled, Unscreened, Counting
<1>6. CountersInRange
  BY <1>1, <1>2, ShellAssumption
  DEF CountersInRange, One, Other, Drafting, Counting, Creator
<1>7. ScreensTyped
  BY <1>1, <1>2 DEF Init, InitConsoles, WithScreen, PrebootScreen, Screen, ScreensTyped
<1> QED
  BY <1>4, <1>5, <1>6, <1>7 DEF SharedTyped

LEMMA SharedTypedStays == SharedTyped /\ UNCHANGED Shared => SharedTyped'
BY DEF SharedTyped, GenTyped, DraftsInRange, CountersInRange, ScreensTyped, Shared, One, Indices

\* InDraft counts the threads that are about to make a process.
LEMMA DraftsCounted ==
  ASSUME GenTyped
  PROVE  InDraft = One("clock", Drafting) + One("console", Drafting)
<1> DEFINE S == {t \in Creator : pc[t] \in {"construct", "register"}}
<1>1. InDraft = Cardinality(S)
  BY DEF InDraft
<1>2. "clock" # "console" /\ \A t : t \in S <=> t \in {"clock", "console"} /\ pc[t] \in Drafting
  BY DEF Creator, Drafting
<1> HIDE DEF S
<1>3. IsFiniteSet({}) /\ Cardinality({}) = 0
  BY FS_EmptySet
<1>4. \A x : IsFiniteSet({x}) /\ Cardinality({x}) = 1
  BY FS_Singleton
<1>5. CASE pc["clock"] \in Drafting /\ pc["console"] \in Drafting
  <2>1. S = {"clock"} \cup {"console"} /\ "console" \notin {"clock"}
    BY <1>2, <1>5
  <2>2. IsFiniteSet({"clock"}) /\ Cardinality({"clock"}) = 1
    BY <1>4
  <2>3. Cardinality({"clock"} \cup {"console"}) = Cardinality({"clock"}) + 1
    BY <2>1, <2>2, FS_AddElement
  <2>4. Cardinality(S) = 2
    BY <2>1, <2>2, <2>3
  <2> QED
    BY <1>1, <1>5, <2>4 DEF One
<1>6. CASE pc["clock"] \in Drafting /\ pc["console"] \notin Drafting
  <2>1. S = {"clock"}
    BY <1>2, <1>6
  <2> QED
    BY <1>1, <1>4, <1>6, <2>1 DEF One
<1>7. CASE pc["clock"] \notin Drafting /\ pc["console"] \in Drafting
  <2>1. S = {"console"}
    BY <1>2, <1>7
  <2> QED
    BY <1>1, <1>4, <1>7, <2>1 DEF One
<1>8. CASE pc["clock"] \notin Drafting /\ pc["console"] \notin Drafting
  <2>1. S = {}
    BY <1>2, <1>8
  <2> QED
    BY <1>1, <1>3, <1>8, <2>1 DEF One
<1> QED
  BY <1>5, <1>6, <1>7, <1>8

\* A step of thread t that moves its place and its draft, and no process.
LEMMA DraftMoves ==
  ASSUME SharedTyped, NEW t \in Creator,
         NEW loc \in {"idle"} \cup Drafting \cup Making, NEW d \in DraftType,
         pc' = [pc EXCEPT ![t] = loc], draft' = [draft EXCEPT ![t] = d],
         processes' = processes, screenTable' = screenTable,
         nextProcessId' \in Nat \ {0}, scheduled' \subseteq Indices, registry' \in Seq(Nat),
         loc = "idle" => d = NoDraft,
         loc \notin Making => d.index = 0,
         loc \in Making => d.index \in Indices,
         loc # "idle" => d.name \in ProcessNames,
         CountersInRange'
  PROVE  SharedTyped'
<1>1. GenTyped'
  BY DEF SharedTyped, GenTyped, Indices
<1>2. pc'[t] = loc /\ draft'[t] = d /\ \A u \in Creator : u # t => pc'[u] = pc[u] /\ draft'[u] = draft[u]
  BY DEF SharedTyped, GenTyped
<1>3. DraftsInRange'
  BY <1>2 DEF SharedTyped, DraftsInRange, Indices
<1>4. ScreensTyped'
  BY DEF SharedTyped, ScreensTyped
<1> QED
  BY <1>1, <1>3, <1>4 DEF SharedTyped

\* What a step of t must keep for the counters to stay in range.
LEMMA CountersFollow ==
  ASSUME SharedTyped, NEW t \in Creator, NEW loc, NEW d,
         pc' = [pc EXCEPT ![t] = loc], draft' = [draft EXCEPT ![t] = d],
         Len(processes') + (IF loc \in Drafting THEN 1 ELSE 0) + One(Other(t), Drafting) <= MaxProcesses,
         nextProcessId' + (IF loc \in Counting THEN 1 ELSE 0) + One(Other(t), Counting)
            <= Len(processes') + 1,
         loc = "store_id" => d.seen + 1 + One(Other(t), Counting) <= Len(processes') + 1,
         pc[Other(t)] = "store_id" =>
            draft[Other(t)].seen + 1 + (IF loc \in Counting THEN 1 ELSE 0) <= Len(processes') + 1,
         nextProcessId' \in Nat, Len(processes') \in Nat
  PROVE  CountersInRange'
<1> DEFINE u == Other(t)
<1>1. u \in Creator /\ u # t /\ Other(u) = t /\ \A v \in Creator : v = t \/ v = u
  BY TwoCreators
<1>2. pc'[t] = loc /\ draft'[t] = d /\ pc'[u] = pc[u] /\ draft'[u] = draft[u]
  BY <1>1 DEF SharedTyped, GenTyped
<1>3. \A places : One(t, places)' = (IF loc \in places THEN 1 ELSE 0) /\ One(u, places)' = One(u, places)
  BY <1>2 DEF One
<1>4. \A places : One(t, places)' \in Nat /\ One(u, places) \in Nat
  BY <1>3 DEF One
<1> HIDE DEF u
<1>5. /\ Len(processes') + One(t, Drafting)' + One(u, Drafting)' <= MaxProcesses
      /\ nextProcessId' + One(t, Counting)' + One(u, Counting)' <= Len(processes') + 1
      /\ pc'[t] = "store_id" => draft'[t].seen + 1 + One(u, Counting)' <= Len(processes') + 1
      /\ pc'[u] = "store_id" => draft'[u].seen + 1 + One(t, Counting)' <= Len(processes') + 1
  BY <1>2, <1>3 DEF u
<1>6. /\ Len(processes') + One(u, Drafting)' + One(t, Drafting)' <= MaxProcesses
      /\ nextProcessId' + One(u, Counting)' + One(t, Counting)' <= Len(processes') + 1
  BY <1>3, <1>4, <1>5
<1>7. \A v \in Creator :
        /\ Len(processes') + One(v, Drafting)' + One(Other(v), Drafting)' <= MaxProcesses
        /\ nextProcessId' + One(v, Counting)' + One(Other(v), Counting)' <= Len(processes') + 1
        /\ pc'[v] = "store_id" =>
              draft'[v].seen + 1 + One(Other(v), Counting)' <= Len(processes') + 1
  BY <1>1, <1>5, <1>6 DEF u
<1> QED
  BY <1>7 DEF CountersInRange

\* Numbers that the range of the counters is about.
LEMMA CountersTyped ==
  ASSUME SharedTyped, NEW t \in Creator
  PROVE  /\ nextProcessId \in Nat /\ nextProcessId > 0
         /\ Len(processes) \in Nat /\ MaxProcesses \in Nat /\ draft[t].seen \in Nat
         /\ One(t, Drafting) \in Nat /\ One(Other(t), Drafting) \in Nat
         /\ One(t, Counting) \in Nat /\ One(Other(t), Counting) \in Nat
<1>1. draft[t] \in DraftType
  BY DEF SharedTyped, GenTyped
<1>2. draft[t].seen \in Nat
  BY <1>1 DEF DraftType
<1>3. nextProcessId \in Nat /\ nextProcessId > 0 /\ Len(processes) \in Nat /\ MaxProcesses \in Nat
  BY ShellAssumption DEF SharedTyped, GenTyped
<1>4. ASSUME NEW places, NEW u PROVE One(u, places) \in Nat
  BY DEF One
<1> QED
  BY <1>2, <1>3, <1>4

\* A step of t that leaves the counters alone, and is about to make no more
\* processes and to store no more ids than before.
LEMMA CountersKept ==
  ASSUME SharedTyped, NEW t \in Creator, NEW loc, NEW d,
         pc' = [pc EXCEPT ![t] = loc], draft' = [draft EXCEPT ![t] = d],
         nextProcessId' = nextProcessId, processes' = processes,
         loc \in Drafting => pc[t] \in Drafting,
         loc \in Counting => pc[t] \in Counting,
         loc # "store_id"
  PROVE  CountersInRange'
<1> DEFINE u == Other(t)
<1>1. u \in Creator /\ u # t /\ Other(u) = t
  BY TwoCreators
<1>2. /\ nextProcessId \in Nat /\ Len(processes) \in Nat /\ MaxProcesses \in Nat
      /\ One(t, Drafting) \in Nat /\ One(u, Drafting) \in Nat
      /\ One(t, Counting) \in Nat /\ One(u, Counting) \in Nat
      /\ draft[u].seen \in Nat
  BY <1>1, CountersTyped
<1>3. /\ Len(processes) + One(t, Drafting) + One(u, Drafting) <= MaxProcesses
      /\ nextProcessId + One(t, Counting) + One(u, Counting) <= Len(processes) + 1
      /\ pc[u] = "store_id" => draft[u].seen + 1 + One(t, Counting) <= Len(processes) + 1
  BY <1>1 DEF SharedTyped, CountersInRange
<1> HIDE DEF u
<1> DEFINE a == IF loc \in Drafting THEN 1 ELSE 0
           b == IF loc \in Counting THEN 1 ELSE 0
<1>4. a \in Nat /\ b \in Nat /\ a <= One(t, Drafting) /\ b <= One(t, Counting)
  BY <1>2 DEF One
<1> HIDE DEF a, b
<1>5. /\ Len(processes) + a + One(u, Drafting) <= MaxProcesses
      /\ nextProcessId + b + One(u, Counting) <= Len(processes) + 1
  BY <1>2, <1>3, <1>4
<1>6. ASSUME pc[u] = "store_id" PROVE draft[u].seen + 1 + b <= Len(processes) + 1
  <2>1. draft[u].seen + 1 + One(t, Counting) <= Len(processes) + 1
    BY <1>3, <1>6
  <2> QED
    BY <2>1, <1>2, <1>4
<1>7. Len(processes') = Len(processes)
  OBVIOUS
<1> QED
  BY <1>2, <1>5, <1>6, <1>7, CountersFollow DEF a, b, u

LEMMA BeginTyped ==
  ASSUME SharedTyped, NEW t \in Creator, NEW x \in GivenNames, BeginGenerate(t, x),
         pc[t] = "idle", screenTable' = screenTable
  PROVE  SharedTyped'
<1> DEFINE d == [NoDraft EXCEPT !.name = ChooseName(t, x)]
<1>0. /\ nextProcessId \in Nat /\ nextProcessId > 0
      /\ Len(processes) \in Nat /\ MaxProcesses \in Nat
      /\ One(t, Drafting) \in Nat /\ One(Other(t), Drafting) \in Nat
      /\ One(t, Counting) \in Nat /\ One(Other(t), Counting) \in Nat
  BY CountersTyped
<1>1. /\ RoomForAnother /\ draft' = [draft EXCEPT ![t] = d] /\ pc' = [pc EXCEPT ![t] = "construct"]
      /\ UNCHANGED <<nextProcessId, processes, pageTables, scheduled, registry>>
  BY DEF BeginGenerate, Goto
<1>2. Len(processes) + One(t, Drafting) + One(Other(t), Drafting) < MaxProcesses
  <2>1. InDraft = One("clock", Drafting) + One("console", Drafting)
    BY DraftsCounted DEF SharedTyped
  <2>2. t = "clock" \/ t = "console"
    BY DEF Creator
  <2>3. One("clock", Drafting) \in Nat /\ One("console", Drafting) \in Nat
    BY DEF One
  <2>4. InDraft = One(t, Drafting) + One(Other(t), Drafting)
    <3>1. CASE t = "clock"
      <4>1. Other(t) = "console"
        BY <3>1 DEF Other
      <4> QED
        BY <2>1, <3>1, <4>1
    <3>2. CASE t = "console"
      <4>1. Other(t) = "clock"
        BY <3>2 DEF Other
      <4> QED
        BY <2>1, <2>3, <3>2, <4>1, <1>0
    <3> QED
      BY <2>2, <3>1, <3>2
  <2>5. Len(processes) + InDraft < MaxProcesses
    BY <1>1 DEF RoomForAnother
  <2> QED
    BY <2>4, <2>5, <1>0
<1>3. One(t, Drafting) = 0 /\ One(t, Counting) = 0
  BY DEF One, Drafting, Counting
<1>4. ChooseName(t, x) \in ProcessNames
  <2>1. nextProcessId \in 1..MaxProcesses
    <3>1. nextProcessId + One(t, Counting) + One(Other(t), Counting) <= Len(processes) + 1
      BY DEF SharedTyped, CountersInRange
    <3> QED
      BY <3>1, <1>2, <1>0
  <2> QED
    BY <2>1 DEF ChooseName, ProcessNames, GivenNames
<1>5. NoDraft \in DraftType /\ NoDraft.index = 0
  BY NoDraftTyped
<1>6. d \in DraftType /\ d.index = 0 /\ d.name \in ProcessNames
  BY <1>4, <1>5 DEF DraftType
<1> HIDE DEF d
<1>7. CountersInRange'
  <2>1. Len(processes') + 1 + One(Other(t), Drafting) <= MaxProcesses
    <3>1. Len(processes') = Len(processes)
      BY <1>1
    <3> QED
      BY <1>2, <1>3, <3>1, <1>0
  <2>2. nextProcessId' + 0 + One(Other(t), Counting) <= Len(processes') + 1
    BY <1>1, <1>3, CountersTyped DEF SharedTyped, CountersInRange
  <2>3. pc[Other(t)] = "store_id" => draft[Other(t)].seen + 1 + 0 <= Len(processes') + 1
    BY <1>1, <1>3, TwoCreators DEF SharedTyped, CountersInRange
  <2>4. "construct" \in Drafting /\ "construct" \notin Counting /\ "construct" # "store_id"
    BY DEF Drafting, Counting
  <2>5. nextProcessId' \in Nat /\ Len(processes') \in Nat
    BY <1>1, CountersTyped
  <2> QED
    BY <1>1, <2>1, <2>2, <2>3, <2>4, <2>5, CountersFollow
<1>8. "construct" \in Drafting /\ "construct" \notin Making /\ "construct" # "idle"
  BY DEF Drafting, Making, Unscheduled, Unscreened, Counting
<1> QED
  BY <1>1, <1>6, <1>7, <1>8, DraftMoves DEF SharedTyped, GenTyped

\* What a draft becomes when one of its fields is set.
LEMMA DraftFields ==
  ASSUME NEW d \in DraftType
  PROVE  /\ \A v \in Nat : [d EXCEPT !["id"] = v] \in DraftType
                           /\ [d EXCEPT !["id"] = v].index = d.index
                           /\ [d EXCEPT !["id"] = v].name = d.name
         /\ \A v \in Nat : [d EXCEPT !["seen"] = v] \in DraftType
                           /\ [d EXCEPT !["seen"] = v].seen = v
                           /\ [d EXCEPT !["seen"] = v].index = d.index
                           /\ [d EXCEPT !["seen"] = v].name = d.name
         /\ \A v \in Nat : [d EXCEPT !["index"] = v] \in DraftType
                           /\ [d EXCEPT !["index"] = v].index = v
                           /\ [d EXCEPT !["index"] = v].name = d.name
         /\ \A v \in Seq(Nat) : [d EXCEPT !["list"] = v] \in DraftType
                                /\ [d EXCEPT !["list"] = v].index = d.index
                                /\ [d EXCEPT !["list"] = v].name = d.name
BY DEF DraftType

LEMMA ConstructTyped ==
  ASSUME SharedTyped, NEW t \in Creator, ConstructProcess(t), screenTable' = screenTable
  PROVE  SharedTyped'
<1> DEFINE d == [draft[t] EXCEPT !["id"] = nextProcessId]
<1>1. /\ pc[t] = "construct" /\ pc' = [pc EXCEPT ![t] = "register"]
      /\ UNCHANGED <<nextProcessId, processes, pageTables, scheduled, registry>>
  BY DEF ConstructProcess, At, Goto
<1>2. draft[t] \in DraftType /\ draft[t].index = 0 /\ draft[t].name \in ProcessNames
  BY <1>1 DEF SharedTyped, GenTyped, DraftsInRange, Making, Unscheduled, Unscreened, Counting
<1>3. draft' = [draft EXCEPT ![t] = d]
  BY DEF ConstructProcess, Keep
<1>4. nextProcessId \in Nat
  BY CountersTyped
<1>5. d \in DraftType /\ d.index = 0 /\ d.name \in ProcessNames
  BY <1>2, <1>4, DraftFields
<1> HIDE DEF d
<1>6. /\ "construct" \in Drafting /\ "register" \in Drafting /\ "register" \notin Counting
      /\ "register" \notin Making /\ "register" # "store_id" /\ "register" # "idle"
      /\ "construct" \notin Counting
  BY DEF Drafting, Making, Unscheduled, Unscreened, Counting
<1>7. CountersInRange'
  BY <1>1, <1>3, <1>6, CountersKept
<1> QED
  BY <1>1, <1>3, <1>5, <1>6, <1>7, DraftMoves DEF SharedTyped, GenTyped

\* The places, each with the sets it belongs to.
LEMMA Places ==
  /\ "construct" \in Drafting /\ "register" \in Drafting
  /\ "increment" \in Counting /\ "store_id" \in Counting
  /\ \A loc \in {"find_screen", "insert_screen", "schedule", "list", "append"} :
        loc \in Making /\ loc \notin Drafting /\ loc \notin Counting
        /\ loc # "store_id" /\ loc # "idle"
  /\ \A loc \in Drafting : loc \notin Making /\ loc \notin Counting /\ loc # "idle" /\ loc # "store_id"
  /\ \A loc \in Counting : loc \in Making /\ loc \notin Drafting /\ loc # "idle"
  /\ "idle" \notin Drafting /\ "idle" \notin Making /\ "idle" \notin Counting
BY DEF Drafting, Making, Unscheduled, Unscreened, Counting

\* A draft, and what belongs to the place its thread is at.
LEMMA DraftAt ==
  ASSUME SharedTyped, NEW t \in Creator
  PROVE  /\ draft[t] \in DraftType
         /\ draft = [draft EXCEPT ![t] = draft[t]]
         /\ pc[t] \in Drafting => draft[t].index = 0
         /\ pc[t] \in Making => draft[t].index \in Indices
         /\ pc[t] # "idle" => draft[t].name \in ProcessNames
         /\ pc[t] \in {"idle"} \cup Drafting \cup Making
BY Places DEF SharedTyped, GenTyped, DraftsInRange

LEMMA RefuseTyped ==
  ASSUME SharedTyped, NEW t \in Creator, RefuseProcess(t), screenTable' = screenTable
  PROVE  SharedTyped'
<1>1. /\ pc[t] = "register" /\ pc' = [pc EXCEPT ![t] = "idle"]
      /\ draft' = [draft EXCEPT ![t] = NoDraft]
      /\ UNCHANGED <<nextProcessId, processes, pageTables, scheduled, registry>>
  BY DEF RefuseProcess, At, Goto
<1>2. CountersInRange'
  BY <1>1, Places, CountersKept
<1> QED
  BY <1>1, <1>2, Places, NoDraftTyped, DraftMoves DEF SharedTyped, GenTyped

LEMMA ReadNextIdTyped ==
  ASSUME SharedTyped, NEW t \in Creator, ReadNextId(t), screenTable' = screenTable
  PROVE  SharedTyped'
<1> DEFINE d == [draft[t] EXCEPT !["seen"] = nextProcessId]
<1>0. /\ nextProcessId \in Nat /\ nextProcessId > 0
      /\ Len(processes) \in Nat /\ MaxProcesses \in Nat
      /\ One(t, Drafting) \in Nat /\ One(Other(t), Drafting) \in Nat
      /\ One(t, Counting) \in Nat /\ One(Other(t), Counting) \in Nat
  BY CountersTyped
<1>1. /\ pc[t] = "increment" /\ pc' = [pc EXCEPT ![t] = "store_id"]
      /\ UNCHANGED <<nextProcessId, processes, pageTables, scheduled, registry>>
  BY DEF ReadNextId, At, Goto
<1>2. draft' = [draft EXCEPT ![t] = d]
  BY DEF ReadNextId, Keep
<1>3. pc[t] \in Making /\ pc[t] # "idle"
  BY <1>1, Places
<1>4. d \in DraftType /\ d.seen = nextProcessId /\ d.index \in Indices /\ d.name \in ProcessNames
  BY <1>0, <1>3, DraftAt, DraftFields
<1> HIDE DEF d
<1>5. CountersInRange'
  <2>1. /\ Len(processes) + One(t, Drafting) + One(Other(t), Drafting) <= MaxProcesses
        /\ nextProcessId + One(t, Counting) + One(Other(t), Counting) <= Len(processes) + 1
    BY DEF SharedTyped, CountersInRange
  <2>2. One(t, Drafting) = 0 /\ One(t, Counting) = 1
    BY <1>1, Places DEF One
  <2>3. Len(processes') = Len(processes)
    BY <1>1
  <2>4. Len(processes') + 0 + One(Other(t), Drafting) <= MaxProcesses
    BY <2>1, <2>2, <2>3, <1>0
  <2>5. nextProcessId + 1 + One(Other(t), Counting) <= Len(processes') + 1
    BY <2>1, <2>2, <2>3, <1>0
  <2>6. d.seen + 1 + One(Other(t), Counting) <= Len(processes') + 1
    BY <2>5, <1>4
  <2>7. pc[Other(t)] = "store_id" => draft[Other(t)].seen + 1 + 1 <= Len(processes') + 1
    BY <2>2, <2>3, TwoCreators DEF SharedTyped, CountersInRange
  <2> QED
    BY <1>0, <1>1, <1>2, <2>3, <2>4, <2>5, <2>6, <2>7, Places, CountersFollow
<1>6. "store_id" \in Making
  BY Places
<1> QED
  BY <1>1, <1>2, <1>4, <1>5, <1>6, Places, DraftMoves DEF SharedTyped, GenTyped

LEMMA StoreNextIdTyped ==
  ASSUME SharedTyped, NEW t \in Creator, StoreNextId(t), screenTable' = screenTable
  PROVE  SharedTyped'
<1> DEFINE d == draft[t]
<1>0. /\ nextProcessId \in Nat /\ nextProcessId > 0 /\ draft[t].seen \in Nat
      /\ Len(processes) \in Nat /\ MaxProcesses \in Nat
      /\ One(t, Drafting) \in Nat /\ One(Other(t), Drafting) \in Nat
      /\ One(t, Counting) \in Nat /\ One(Other(t), Counting) \in Nat
  BY CountersTyped
<1>1. /\ pc[t] = "store_id" /\ pc' = [pc EXCEPT ![t] = "find_screen"]
      /\ nextProcessId' = draft[t].seen + 1
      /\ UNCHANGED <<processes, pageTables, scheduled, registry, draft>>
  BY DEF StoreNextId, At, Goto
<1>2. pc[t] \in Making /\ pc[t] # "idle"
  BY <1>1, Places
<1>3. d \in DraftType /\ d.index \in Indices /\ d.name \in ProcessNames /\ draft' = [draft EXCEPT ![t] = d]
  BY <1>1, <1>2, DraftAt
<1> HIDE DEF d
<1>4. nextProcessId' \in Nat \ {0}
  BY <1>0, <1>1
<1>5. CountersInRange'
  <2>1. /\ Len(processes) + One(t, Drafting) + One(Other(t), Drafting) <= MaxProcesses
        /\ draft[t].seen + 1 + One(Other(t), Counting) <= Len(processes) + 1
    BY <1>1 DEF SharedTyped, CountersInRange
  <2>2. One(t, Drafting) = 0 /\ One(t, Counting) = 1
    BY <1>1, Places DEF One
  <2>3. Len(processes') = Len(processes)
    BY <1>1
  <2>4. Len(processes') + 0 + One(Other(t), Drafting) <= MaxProcesses
    BY <2>1, <2>2, <2>3, <1>0
  <2>5. nextProcessId' + 0 + One(Other(t), Counting) <= Len(processes') + 1
    BY <2>1, <2>3, <1>0, <1>1
  <2>6. ASSUME pc[Other(t)] = "store_id"
        PROVE  draft[Other(t)].seen + 1 + 0 <= Len(processes') + 1
    <3>1. draft[Other(t)].seen + 1 + One(t, Counting) <= Len(processes) + 1
      BY <2>6, TwoCreators DEF SharedTyped, CountersInRange
    <3>2. draft[Other(t)].seen \in Nat
      BY TwoCreators, CountersTyped
    <3> QED
      BY <3>1, <3>2, <2>2, <2>3, <1>0
  <2> QED
    BY <1>0, <1>1, <1>3, <1>4, <2>3, <2>4, <2>5, <2>6, Places, CountersFollow
<1> QED
  BY <1>1, <1>3, <1>4, <1>5, Places, DraftMoves DEF SharedTyped, GenTyped

\* The steps after the id has been stored, but for the one that adds the screen.
LEMMA FindScreenTyped ==
  ASSUME SharedTyped, NEW t \in Creator, FindScreen(t), screenTable' = screenTable
  PROVE  SharedTyped'
<1> DEFINE loc == IF HasScreen(draft[t].name) THEN "schedule" ELSE "insert_screen"
<1>1. /\ pc[t] = "find_screen" /\ pc' = [pc EXCEPT ![t] = loc]
      /\ UNCHANGED <<nextProcessId, processes, pageTables, scheduled, registry, draft>>
  BY DEF FindScreen, At, Goto
<1>2. loc \in {"find_screen", "insert_screen", "schedule", "list", "append"}
  OBVIOUS
<1> HIDE DEF loc
<1>3. pc[t] \in Making /\ pc[t] # "idle"
  BY <1>1, Places
<1>4. /\ draft[t] \in DraftType /\ draft[t].index \in Indices /\ draft[t].name \in ProcessNames
      /\ draft' = [draft EXCEPT ![t] = draft[t]]
  BY <1>1, <1>3, DraftAt
<1>5. CountersInRange'
  BY <1>1, <1>2, <1>4, Places, CountersKept
<1> QED
  BY <1>1, <1>2, <1>4, <1>5, Places, DraftMoves DEF SharedTyped, GenTyped

LEMMA AddToSchedulerTyped ==
  ASSUME SharedTyped, NEW t \in Creator, AddToScheduler(t), screenTable' = screenTable
  PROVE  SharedTyped'
<1>1. /\ pc[t] = "schedule" /\ pc' = [pc EXCEPT ![t] = "list"]
      /\ scheduled' = scheduled \cup {draft[t].index}
      /\ UNCHANGED <<nextProcessId, processes, pageTables, registry, draft>>
  BY DEF AddToScheduler, At, Goto
<1>3. pc[t] \in Making /\ pc[t] # "idle"
  BY <1>1, Places
<1>4. /\ draft[t] \in DraftType /\ draft[t].index \in Indices /\ draft[t].name \in ProcessNames
      /\ draft' = [draft EXCEPT ![t] = draft[t]]
  BY <1>1, <1>3, DraftAt
<1>5. CountersInRange'
  BY <1>1, <1>4, Places, CountersKept
<1>6. scheduled' \subseteq Indices
  BY <1>1, <1>4 DEF SharedTyped, GenTyped
<1> QED
  BY <1>1, <1>4, <1>5, <1>6, Places, DraftMoves DEF SharedTyped, GenTyped

LEMMA ReadListTyped ==
  ASSUME SharedTyped, NEW t \in Creator, ReadList(t), screenTable' = screenTable
  PROVE  SharedTyped'
<1> DEFINE d == [draft[t] EXCEPT !["list"] = registry]
<1>1. /\ pc[t] = "list" /\ pc' = [pc EXCEPT ![t] = "append"]
      /\ UNCHANGED <<nextProcessId, processes, pageTables, scheduled, registry>>
  BY DEF ReadList, At, Goto
<1>2. draft' = [draft EXCEPT ![t] = d]
  BY DEF ReadList, Keep
<1>3. pc[t] \in Making /\ pc[t] # "idle"
  BY <1>1, Places
<1>4. registry \in Seq(Nat)
  BY DEF SharedTyped, GenTyped
<1>5. d \in DraftType /\ d.index \in Indices /\ d.name \in ProcessNames
  BY <1>3, <1>4, DraftAt, DraftFields
<1> HIDE DEF d
<1>6. CountersInRange'
  BY <1>1, <1>2, Places, CountersKept
<1> QED
  BY <1>1, <1>2, <1>5, <1>6, Places, DraftMoves DEF SharedTyped, GenTyped

LEMMA AppendTyped ==
  ASSUME SharedTyped, NEW t \in Creator, AppendToList(t), screenTable' = screenTable
  PROVE  SharedTyped'
<1>1. /\ pc[t] = "append" /\ pc' = [pc EXCEPT ![t] = "idle"]
      /\ draft' = [draft EXCEPT ![t] = NoDraft]
      /\ registry' = Append(draft[t].list, draft[t].index)
      /\ UNCHANGED <<nextProcessId, processes, pageTables, scheduled>>
  BY DEF AppendToList, At, Goto
<1>2. CountersInRange'
  BY <1>1, Places, CountersKept
<1>3. registry' \in Seq(Nat)
  <2>1. draft[t] \in DraftType
    BY DraftAt
  <2>2. draft[t].list \in Seq(Nat) /\ draft[t].index \in Nat
    BY <2>1 DEF DraftType
  <2> QED
    BY <1>1, <2>2
<1> QED
  BY <1>1, <1>2, <1>3, Places, NoDraftTyped, DraftMoves DEF SharedTyped, GenTyped

\* The process is made here: one more object, one draft less.
LEMMA RegisterTyped ==
  ASSUME SharedTyped, NEW t \in Creator, RegisterProcess(t), screenTable' = screenTable
  PROVE  SharedTyped'
<1> DEFINE n == Len(processes) + 1
           d == [draft[t] EXCEPT !["index"] = n]
           p == [id |-> draft[t].id, name |-> draft[t].name, by |-> t, status |-> "Ready"]
           u == Other(t)
<1>0. /\ nextProcessId \in Nat /\ nextProcessId > 0
      /\ Len(processes) \in Nat /\ MaxProcesses \in Nat
      /\ One(t, Drafting) \in Nat /\ One(u, Drafting) \in Nat
      /\ One(t, Counting) \in Nat /\ One(u, Counting) \in Nat
  BY CountersTyped
<1>1. /\ pc[t] = "register" /\ pc' = [pc EXCEPT ![t] = "increment"]
      /\ processes' = Append(processes, p)
      /\ UNCHANGED <<nextProcessId, scheduled, registry>>
  BY DEF RegisterProcess, At, Goto
<1>2. draft' = [draft EXCEPT ![t] = d]
  BY DEF RegisterProcess, Keep
<1>3. u \in Creator /\ u # t /\ Other(u) = t /\ \A v \in Creator : v = t \/ v = u
  BY TwoCreators
<1>4. draft[t] \in DraftType /\ draft[t].name \in ProcessNames /\ n \in Nat /\ draft[t].id \in Nat
  <2>1. draft[t] \in DraftType /\ draft[t].name \in ProcessNames
    BY <1>1, Places, DraftAt
  <2>2. draft[t].id \in Nat
    BY <2>1 DEF DraftType
  <2> QED
    BY <1>0, <2>1, <2>2
<1>5. d \in DraftType /\ d.index = n /\ d.name \in ProcessNames
  BY <1>4, DraftFields
<1>6. p \in ProcessType
  BY <1>4 DEF ProcessType, Statuses
<1> HIDE DEF d, p, u
<1>7. processes \in Seq(ProcessType)
  BY DEF SharedTyped, GenTyped
<1>8. processes' \in Seq(ProcessType) /\ Len(processes') = n /\ Indices' = Indices \cup {n}
  <2>1. processes' \in Seq(ProcessType) /\ Len(processes') = n
    BY <1>1, <1>6, <1>7
  <2>2. DOMAIN processes = 1..Len(processes) /\ DOMAIN processes' = 1..n
    BY <1>7, <2>1
  <2>3. 1..n = (1..Len(processes)) \cup {n}
    BY <1>0
  <2> QED
    BY <2>1, <2>2, <2>3 DEF Indices
<1>9. GenTyped'
  <2>1. pc' \in [Creator -> {"idle"} \cup Drafting \cup Making]
    <3>1. "increment" \in Making
      BY Places
    <3> QED
      BY <1>1, <3>1 DEF SharedTyped, GenTyped
  <2>2. draft' \in [Creator -> DraftType]
    BY <1>2, <1>5 DEF SharedTyped, GenTyped
  <2>3. scheduled' \subseteq Indices'
    BY <1>1, <1>8 DEF SharedTyped, GenTyped
  <2> QED
    BY <1>1, <1>8, <2>1, <2>2, <2>3 DEF SharedTyped, GenTyped
<1>10. /\ pc'[t] = "increment" /\ draft'[t] = d
       /\ \A v \in Creator : v # t => pc'[v] = pc[v] /\ draft'[v] = draft[v]
  BY <1>1, <1>2 DEF SharedTyped, GenTyped
<1>11. DraftsInRange'
  <2>1. "increment" \in Making /\ "increment" # "idle" /\ n \in Indices'
    BY <1>8, Places
  <2> QED
    BY <1>5, <1>8, <1>10, <2>1 DEF SharedTyped, DraftsInRange
<1>12. ScreensTyped'
  <2>1. 0..Len(processes) \subseteq 0..n
    BY <1>0
  <2> QED
    BY <1>8, <2>1 DEF SharedTyped, ScreensTyped
<1>13. CountersInRange'
  <2>1. /\ Len(processes) + One(t, Drafting) + One(u, Drafting) <= MaxProcesses
        /\ nextProcessId + One(t, Counting) + One(u, Counting) <= Len(processes) + 1
    BY DEF SharedTyped, CountersInRange, u
  <2>2. One(t, Drafting) = 1 /\ One(t, Counting) = 0
    BY <1>1, Places DEF One
  <2>3. n + 0 + One(u, Drafting) <= MaxProcesses
    BY <2>1, <2>2, <1>0
  <2>4. nextProcessId + 1 + One(u, Counting) <= n + 1
    BY <2>1, <2>2, <1>0
  <2>5. ASSUME pc[u] = "store_id" PROVE draft[u].seen + 1 + 1 <= n + 1
    <3>1. draft[u].seen + 1 + One(t, Counting) <= Len(processes) + 1
      BY <2>5, <1>3 DEF SharedTyped, CountersInRange
    <3>2. draft[u].seen \in Nat
      BY <1>3, CountersTyped
    <3> QED
      BY <3>1, <3>2, <2>2, <1>0
  <2> HIDE DEF n
  <2> QED
    BY <1>0, <1>1, <1>2, <1>4, <1>8, <2>3, <2>4, <2>5, Places, CountersFollow DEF u
<1> QED
  BY <1>9, <1>11, <1>12, <1>13 DEF SharedTyped

LEMMA AddScreenTyped ==
  ASSUME SharedTyped, NEW t \in Creator, AddScreen(t)
  PROVE  SharedTyped'
<1>1. /\ pc[t] = "insert_screen" /\ pc' = [pc EXCEPT ![t] = "schedule"]
      /\ screenTable' = WithScreen(screenTable, Screen(draft[t].name, draft[t].index))
      /\ UNCHANGED <<nextProcessId, processes, pageTables, scheduled, registry, draft>>
  BY DEF AddScreen, InsertScreen, At, Goto
<1>2. pc[t] \in Making /\ pc[t] # "idle"
  BY <1>1, Places
<1>3. /\ draft[t] \in DraftType /\ draft[t].index \in Indices /\ draft[t].name \in ProcessNames
      /\ draft' = [draft EXCEPT ![t] = draft[t]]
  BY <1>1, <1>2, DraftAt
<1>4. CountersInRange'
  BY <1>1, <1>3, Places, CountersKept
<1>5. GenTyped'
  <2>1. "schedule" \in Making
    BY Places
  <2> QED
    BY <1>1, <2>1 DEF SharedTyped, GenTyped, Indices
<1>6. DraftsInRange'
  <2>1. pc'[t] = "schedule" /\ \A v \in Creator : v # t => pc'[v] = pc[v]
    BY <1>1 DEF SharedTyped, GenTyped
  <2> QED
    BY <1>1, <1>3, <2>1, Places DEF SharedTyped, DraftsInRange, Indices
<1>7. ScreensTyped'
  <2>1. Len(processes) \in Nat /\ draft[t].index \in 0..Len(processes)
    <3>1. processes \in Seq(ProcessType) /\ Len(processes) \in Nat
      BY DEF SharedTyped, GenTyped
    <3>2. DOMAIN processes = 1..Len(processes)
      BY <3>1
    <3> QED
      BY <3>1, <3>2, <1>3 DEF Indices
  <2>2. \A x \in DOMAIN screenTable :
           screenTable[x].name = x /\ screenTable[x].process \in 0..Len(processes)
    BY DEF SharedTyped, ScreensTyped
  <2> QED
    BY <1>1, <2>1, <2>2 DEF ScreensTyped, WithScreen, Screen
<1> QED
  BY <1>4, <1>5, <1>6, <1>7 DEF SharedTyped

\* Processes that keep all but their status.
SameButStatus ==
    /\ processes' \in Seq(ProcessType)
    /\ Len(processes') = Len(processes)
    /\ \A k \in Indices : /\ processes'[k].id = processes[k].id
                          /\ processes'[k].name = processes[k].name

LEMMA StatusTyped ==
  ASSUME SharedTyped, SameButStatus, UNCHANGED <<screenTable, nextProcessId, registry, pc, draft>>,
         scheduled' \subseteq scheduled
  PROVE  SharedTyped' /\ Indices' = Indices
<1>1. Indices' = Indices
  <2>1. processes \in Seq(ProcessType) /\ processes' \in Seq(ProcessType)
    BY DEF SharedTyped, GenTyped, SameButStatus
  <2>2. DOMAIN processes = 1..Len(processes) /\ DOMAIN processes' = 1..Len(processes')
    BY <2>1
  <2> QED
    BY <2>2 DEF SameButStatus, Indices
<1>2. GenTyped'
  BY <1>1 DEF SharedTyped, GenTyped, SameButStatus
<1>3. DraftsInRange'
  BY <1>1 DEF SharedTyped, DraftsInRange
<1>4. CountersInRange'
  BY DEF SharedTyped, CountersInRange, SameButStatus, One
<1>5. ScreensTyped'
  BY DEF SharedTyped, ScreensTyped, SameButStatus
<1> QED
  BY <1>1, <1>2, <1>3, <1>4, <1>5 DEF SharedTyped

LEMMA SetStatusKeeps ==
  ASSUME SharedTyped, NEW k \in Indices, NEW st \in Statuses, SetStatus(k, st)
  PROVE  SameButStatus
<1> DEFINE p == [processes[k] EXCEPT !.status = st]
<1>1. processes \in Seq(ProcessType) /\ processes[k] \in ProcessType
  BY DEF SharedTyped, GenTyped, Indices
<1>2. p \in ProcessType /\ p.id = processes[k].id /\ p.name = processes[k].name
  BY <1>1 DEF ProcessType
<1>3. processes' = [processes EXCEPT ![k] = p]
  BY DEF SetStatus
<1> HIDE DEF p
<1>4. processes' \in Seq(ProcessType) /\ Len(processes') = Len(processes)
  <2>1. Len(processes) \in Nat /\ DOMAIN processes = 1..Len(processes)
        /\ \A j \in 1..Len(processes) : processes[j] \in ProcessType
    BY <1>1
  <2>2. processes' \in [1..Len(processes) -> ProcessType]
    BY <2>1, <1>2, <1>3
  <2> QED
    BY <2>1, <2>2
<1>5. \A j \in Indices : processes'[j] = IF j = k THEN p ELSE processes[j]
  BY <1>3 DEF Indices
<1> QED
  BY <1>2, <1>4, <1>5 DEF SameButStatus

\* What the workers do: a process keeps its place unless it ends, and then its
\* page table goes too.
LEMMA WorkerEffect ==
  ASSUME SharedTyped, WorkerStep
  PROVE  /\ SameButStatus
         /\ UNCHANGED <<nextProcessId, registry, pc, draft>>
         /\ \/ UNCHANGED <<scheduled, pageTables>>
            \/ \E k \in scheduled : /\ scheduled' = scheduled \ {k}
                                    /\ pageTables' = pageTables \ {processes[k].id}
<1>1. PICK k \in Indices : RunProcess(k) \/ PreemptProcess(k) \/ EndProcess(k)
  BY DEF WorkerStep, Indices
<1>2. \A st \in Statuses : SetStatus(k, st) => SameButStatus
  BY <1>1, SetStatusKeeps
<1>3. "Ready" \in Statuses /\ "Running" \in Statuses /\ "Terminated" \in Statuses
  BY DEF Statuses
<1>4. CASE RunProcess(k)
  BY <1>2, <1>3, <1>4 DEF RunProcess
<1>5. CASE PreemptProcess(k)
  BY <1>2, <1>3, <1>5 DEF PreemptProcess
<1>6. CASE EndProcess(k)
  <2>1. SameButStatus /\ UNCHANGED <<nextProcessId, registry, pc, draft>>
    BY <1>2, <1>3, <1>6 DEF EndProcess
  <2>2. k \in scheduled /\ scheduled' = scheduled \ {k}
        /\ pageTables' = pageTables \ {processes[k].id}
    BY <1>6 DEF EndProcess
  <2> QED
    BY <2>1, <2>2
<1> QED
  BY <1>1, <1>4, <1>5, <1>6

LEMMA FinalizeEffect ==
  ASSUME SharedTyped, FinalizeUnfinishedProcesses
  PROVE  SameButStatus /\ UNCHANGED <<screenTable, nextProcessId, pageTables, scheduled, registry, pc, draft>>
<1> DEFINE ended(k) == [processes[k] EXCEPT !.status = "Terminated"]
           new(k) == IF \E i \in DOMAIN registry : registry[i] = k THEN ended(k) ELSE processes[k]
<1>1. processes' = [k \in DOMAIN processes |-> new(k)]
  BY DEF FinalizeUnfinishedProcesses
<1>2. processes \in Seq(ProcessType) /\ \A k \in DOMAIN processes : processes[k] \in ProcessType
  BY DEF SharedTyped, GenTyped
<1>3. ASSUME NEW k \in DOMAIN processes
      PROVE  new(k) \in ProcessType /\ new(k).id = processes[k].id /\ new(k).name = processes[k].name
  <2>1. ended(k) \in ProcessType /\ ended(k).id = processes[k].id /\ ended(k).name = processes[k].name
    BY <1>2 DEF ProcessType, Statuses
  <2> QED
    BY <1>2, <2>1
<1> HIDE DEF new, ended
<1>4. DOMAIN processes = 1..Len(processes) /\ Len(processes) \in Nat
  BY <1>2
<1>5. processes' \in Seq(ProcessType) /\ Len(processes') = Len(processes)
  BY <1>1, <1>3, <1>4
<1> QED
  BY <1>1, <1>3, <1>5 DEF SameButStatus, Indices, FinalizeUnfinishedProcesses

-----------------------------------------------------------------------------
ClockPlaces == {"off", "loop", "count", "on_tick", "generate", "generated", "stopped"}
ConsolePlaces == {"preboot", "enter", "prompt", "switch", "vmstat_active", "vmstat_total",
                  "vmstat_shown", "stop_clock", "join_clock", "finalize", "exited"}

\* The clock creates a process in one place of OnTick only.
ControlTyped ==
    /\ consoleRunning \in BOOLEAN /\ initialized \in BOOLEAN
    /\ ticking \in BOOLEAN /\ generating \in BOOLEAN
    /\ currentTick \in 0..MaxTicks
    /\ tpc \in ClockPlaces /\ cpc \in ConsolePlaces
    /\ tpc # "generated" => pc["clock"] = "idle"

TypedInv == SharedTyped /\ ControlTyped

LEMMA InitTypedInv == Init => TypedInv
<1> SUFFICES ASSUME Init PROVE TypedInv
  OBVIOUS
<1>1. SharedTyped
  BY InitSharedTyped
<1>2. currentTick \in 0..MaxTicks
  BY ShellAssumption DEF Init
<1>3. tpc \in ClockPlaces /\ cpc \in ConsolePlaces /\ pc["clock"] = "idle"
  BY DEF Init, InitGenerator, ClockPlaces, ConsolePlaces, Creator
<1>4. ControlTyped
  BY <1>2, <1>3 DEF Init, InitConsoles, ControlTyped
<1> QED
  BY <1>1, <1>4 DEF TypedInv

LEMMA CreationTyped ==
  ASSUME SharedTyped, NEW t \in Creator, Creation(t)
  PROVE  SharedTyped'
<1>1. CASE AddScreen(t)
  BY <1>1, AddScreenTyped
<1>2. CASE CreateStep(t) /\ UNCHANGED screenTable
  BY <1>2, ConstructTyped, RefuseTyped, RegisterTyped, ReadNextIdTyped, StoreNextIdTyped,
     FindScreenTyped, AddToSchedulerTyped, ReadListTyped, AppendTyped
  DEF CreateStep
<1> QED
  BY <1>1, <1>2 DEF Creation

LEMMA ClockShared == TypedInv /\ ClockStep => SharedTyped'
<1> SUFFICES ASSUME TypedInv, ClockStep PROVE SharedTyped'
  OBVIOUS
<1>1. CASE OnTickGenerates
  <2>1. BeginGenerate("clock", "") /\ screenTable' = screenTable /\ tpc = "generate"
    BY <1>1 DEF OnTickGenerates
  <2>2. pc["clock"] = "idle"
    BY <2>1 DEF TypedInv, ControlTyped
  <2>3. "clock" \in Creator /\ "" \in GivenNames
    BY DEF Creator, GivenNames
  <2> QED
    BY <2>1, <2>2, <2>3, BeginTyped DEF TypedInv
<1>2. CASE Tick \/ TickBound \/ CountTick \/ TestGenerating \/ OnTickReturns
  <2>1. UNCHANGED Shared
    BY <1>2 DEF Tick, TickBound, CountTick, TestGenerating, OnTickReturns, Shared
  <2> QED
    BY <2>1, SharedTypedStays DEF TypedInv
<1> QED
  BY <1>1, <1>2 DEF ClockStep

\* EnterMainConsole keeps the table in order.
LEMMA EnterMainTyped ==
  ASSUME SharedTyped, EnterMain
  PROVE  SharedTyped'
<1> DEFINE rest == WithoutScreen(screenTable, PrebootScreen.name)
<1>1. screenTable' = WithScreen(rest, MainConsole) /\ UNCHANGED genVars
  BY DEF EnterMain, EnterMainConsole
<1>2. Len(processes) \in Nat /\ 0 \in 0..Len(processes)
  BY DEF SharedTyped, GenTyped
<1>3. \A x \in DOMAIN rest : rest[x].name = x /\ rest[x].process \in 0..Len(processes)
  BY DEF SharedTyped, ScreensTyped, WithoutScreen
<1> HIDE DEF rest
<1>4. ScreensTyped'
  <2>1. screenTable' = WithScreen(rest, Screen(MAIN_CONSOLE_NAME, 0)) /\ processes' = processes
    BY <1>1 DEF MainConsole
  <2>2. \A x \in DOMAIN screenTable' :
           screenTable'[x].name = x /\ screenTable'[x].process \in 0..Len(processes)
    BY <2>1, <1>2, <1>3 DEF WithScreen, Screen
  <2> QED
    BY <2>1, <2>2 DEF ScreensTyped
<1>5. GenTyped' /\ DraftsInRange' /\ CountersInRange'
  BY <1>1 DEF SharedTyped, GenTyped, DraftsInRange, CountersInRange, One, Indices
<1> QED
  BY <1>4, <1>5 DEF SharedTyped

\* The steps of the console thread that leave processes and screens alone.
ConsoleElsewhere ==
    \/ Initialize \/ PrebootExit \/ SchedulerStart \/ SchedulerStop
    \/ \E i \in DOMAIN registry : FindProcess(processes[registry[i]].name)
    \/ ShowScreen \/ ExitScreen
    \/ VmstatIdle \/ VmstatActive \/ VmstatTotal \/ VmstatReturns
    \/ Exit \/ StopClock \/ JoinClock

LEMMA ElsewhereLeaves == ConsoleElsewhere => UNCHANGED Shared
<1>1. SchedulerStart \/ SchedulerStop \/ Initialize \/ PrebootExit \/ StopClock \/ JoinClock
         => UNCHANGED Shared
  BY DEF SchedulerStart, SchedulerStop, Initialize, PrebootExit, StopClock, JoinClock, Shared
<1>2. VmstatIdle \/ VmstatActive \/ VmstatTotal \/ VmstatReturns
      \/ (\E i \in DOMAIN registry : FindProcess(processes[registry[i]].name))
         => UNCHANGED Shared
  BY DEF VmstatIdle, VmstatActive, VmstatTotal, VmstatReturns, FindProcess, Shared
<1>3. ShowScreen \/ ExitScreen \/ Exit => UNCHANGED Shared
  BY DEF ShowScreen, ExitScreen, Exit, SwitchScreen, ReturnToPreviousScreen, ExitConsole, Shared
<1> QED
  BY <1>1, <1>2, <1>3 DEF ConsoleElsewhere

LEMMA ConsoleShared == TypedInv /\ ConsoleStep => SharedTyped'
<1> SUFFICES ASSUME TypedInv, ConsoleStep PROVE SharedTyped'
  OBVIOUS
<1>1. CASE ConsoleElsewhere
  BY <1>1, ElsewhereLeaves, SharedTypedStays DEF TypedInv
<1>2. ASSUME NEW name \in UserNames, CreateScreen(name) PROVE SharedTyped'
  <2>1. BeginGenerate("console", name) /\ screenTable' = screenTable /\ pc["console"] = "idle"
    BY <1>2 DEF CreateScreen, OnMain, Prompt, At
  <2>2. "console" \in Creator /\ name \in GivenNames
    BY DEF Creator, GivenNames
  <2> QED
    BY <2>1, <2>2, BeginTyped DEF TypedInv
<1>3. CASE EnterMain
  BY <1>3, EnterMainTyped DEF TypedInv
<1>4. CASE FinalizeUnfinishedProcesses
  BY <1>4, FinalizeEffect, StatusTyped DEF TypedInv
<1> QED
  BY <1>1, <1>2, <1>3, <1>4 DEF ConsoleStep, ConsoleElsewhere

LEMMA NextSharedTyped == TypedInv /\ [Next]_vars => SharedTyped'
<1> SUFFICES ASSUME TypedInv, [Next]_vars PROVE SharedTyped'
  OBVIOUS
<1>1. CASE ClockStep
  BY <1>1, ClockShared
<1>2. CASE ConsoleStep
  BY <1>2, ConsoleShared
<1>3. CASE Workers
  <2>1. SharedTyped /\ WorkerStep /\ UNCHANGED screenTable
    BY <1>3 DEF Workers, TypedInv
  <2>2. scheduled' \subseteq scheduled
    BY <2>1, WorkerEffect
  <2> QED
    BY <2>1, <2>2, WorkerEffect, StatusTyped
<1>4. CASE \E t \in Creator : Creation(t)
  BY <1>4, CreationTyped DEF TypedInv
<1>5. CASE Exited \/ UNCHANGED vars
  <2>1. UNCHANGED Shared
    BY <1>5 DEF Exited, vars, Shared
  <2> QED
    BY <2>1, SharedTypedStays DEF TypedInv
<1> QED
  BY <1>1, <1>2, <1>3, <1>4, <1>5 DEF Next

LEMMA NextControlTyped == OffBefore /\ TypedInv /\ [Next]_vars => ControlTyped'
<1> SUFFICES ASSUME OffBefore, TypedInv, [Next]_vars PROVE ControlTyped'
  OBVIOUS
<1> USE DEF TypedInv, ControlTyped, ClockPlaces, ConsolePlaces
<1>1. CASE ClockStep
  <2>0. consoleRunning' \in BOOLEAN /\ initialized' \in BOOLEAN /\ ticking' \in BOOLEAN
        /\ generating' \in BOOLEAN /\ cpc' \in ConsolePlaces
    BY <1>1
    DEF ClockStep, Tick, TickBound, CountTick, TestGenerating, OnTickGenerates, OnTickReturns
  <2>1. CASE Tick
    <3>1. currentTick' \in 0..MaxTicks
      BY <2>1, ShellAssumption DEF Tick
    <3> QED
      BY <2>0, <2>1, <3>1 DEF Tick
  <2>2. CASE TickBound
    BY <2>0, <2>2 DEF TickBound
  <2>3. CASE CountTick
    BY <2>0, <2>3 DEF CountTick
  <2>4. CASE TestGenerating
    BY <2>0, <2>4 DEF TestGenerating
  <2>5. CASE OnTickGenerates
    BY <2>0, <2>5 DEF OnTickGenerates
  <2>6. CASE OnTickReturns
    BY <2>0, <2>6 DEF OnTickReturns, At
  <2> QED
    BY <1>1, <2>1, <2>2, <2>3, <2>4, <2>5, <2>6 DEF ClockStep
<1>2. CASE ConsoleStep
  <2>1. CASE Initialize \/ PrebootExit \/ SchedulerStart \/ SchedulerStop \/ StopClock \/ JoinClock
    <3>1. UNCHANGED <<pc, consoleRunning, currentTick>> /\ tpc' \in {tpc, "loop"}
          /\ tpc = "generated" => tpc' = tpc \/ tpc' = "loop"
      BY <2>1 DEF Initialize, PrebootExit, SchedulerStart, SchedulerStop, StopClock, JoinClock
    <3> QED
      BY <2>1, <3>1 DEF Initialize, PrebootExit, SchedulerStart, SchedulerStop, StopClock, JoinClock,
                        OnMain, Prompt, OffBefore
  <2>2. CASE VmstatIdle \/ VmstatActive \/ VmstatTotal \/ VmstatReturns
    BY <2>2 DEF VmstatIdle, VmstatActive, VmstatTotal, VmstatReturns
  <2>3. CASE \E i \in DOMAIN registry : FindProcess(processes[registry[i]].name)
    BY <2>3 DEF FindProcess
  <2>4. CASE ShowScreen \/ ExitScreen \/ Exit \/ EnterMain
    BY <2>4 DEF ShowScreen, ExitScreen, Exit, EnterMain, SwitchScreen, ReturnToPreviousScreen,
                ExitConsole, EnterMainConsole
  <2>5. ASSUME NEW name \in UserNames, CreateScreen(name) PROVE ControlTyped'
    <3>1. pc'["clock"] = pc["clock"]
      BY <2>5 DEF CreateScreen, BeginGenerate, Goto, SharedTyped, GenTyped, Creator
    <3> QED
      BY <2>5, <3>1 DEF CreateScreen
  <2>6. CASE FinalizeUnfinishedProcesses
    BY <2>6 DEF FinalizeUnfinishedProcesses
  <2> QED
    BY <1>2, <2>1, <2>2, <2>3, <2>4, <2>5, <2>6 DEF ConsoleStep
<1>3. CASE Workers
  <2>1. UNCHANGED <<pc, screenVars, clockVars, consoleVars>>
    BY <1>3, WorkerEffect DEF Workers
  <2> QED
    BY <2>1
<1>4. ASSUME NEW t \in Creator, Creation(t) PROVE ControlTyped'
  <2>1. UNCHANGED <<clockVars, consoleVars>> /\ consoleRunning' = consoleRunning
    BY <1>4 DEF Creation, AddScreen, InsertScreen
  <2>2. pc[t] # "idle" /\ \A v \in Creator : v # t => pc'[v] = pc[v]
    BY <1>4 DEF Creation, AddScreen, CreateStep, At, Goto, SharedTyped, GenTyped,
       ConstructProcess, RefuseProcess, RegisterProcess, ReadNextId, StoreNextId, FindScreen,
       AddToScheduler, ReadList, AppendToList
  <2>3. "clock" \in Creator
    BY DEF Creator
  <2> QED
    BY <2>1, <2>2, <2>3
<1>5. CASE Exited \/ UNCHANGED vars
  BY <1>5 DEF Exited, vars
<1> QED
  BY <1>1, <1>2, <1>3, <1>4, <1>5 DEF Next

LEMMA TypedInvariant == Spec => []TypedInv
<1>1. ShellInv /\ TypedInv /\ [Next]_vars => TypedInv'
  BY NextSharedTyped, NextControlTyped DEF TypedInv, ShellInv
<1> QED
  BY InitTypedInv, ShellInvariant, <1>1, PTL DEF Spec

\* The counters stay within the bound on processes.
LEMMA TypesInBounds ==
  ASSUME TypedInv
  PROVE  nextProcessId \in 1..MaxProcesses + 1 /\ Len(processes) <= MaxProcesses /\ MaxProcesses \in Nat
<1>1. "clock" \in Creator
  BY DEF Creator
<1>2. /\ Len(processes) + One("clock", Drafting) + One(Other("clock"), Drafting) <= MaxProcesses
      /\ nextProcessId + One("clock", Counting) + One(Other("clock"), Counting)
            <= Len(processes) + 1
  BY <1>1 DEF TypedInv, SharedTyped, CountersInRange
<1>3. /\ nextProcessId \in Nat /\ nextProcessId > 0
      /\ Len(processes) \in Nat /\ MaxProcesses \in Nat
      /\ One("clock", Drafting) \in Nat /\ One(Other("clock"), Drafting) \in Nat
      /\ One("clock", Counting) \in Nat /\ One(Other("clock"), Counting) \in Nat
  BY <1>1, CountersTyped DEF TypedInv
<1> QED
  BY <1>2, <1>3

\* However the two threads overtake each other, the next id stays in range, the
\* processes within their bound, and every screen is of a process that was made.
THEOREM ShellTypeCorrect == Spec => []TypeOK
<1>1. ASSUME TypedInv PROVE TypeOK
  <2>1. \A k \in Indices : processes[k].status \in Statuses
    <3>1. \A k \in Indices : processes[k] \in ProcessType
      BY <1>1 DEF TypedInv, SharedTyped, GenTyped, Indices
    <3> QED
      BY <3>1 DEF ProcessType
  <2> QED
    BY <1>1, <2>1, TypesInBounds DEF TypeOK, TypedInv, SharedTyped, GenTyped, ScreensTyped,
       ControlTyped, ClockPlaces, ConsolePlaces
<1> QED
  BY <1>1, TypedInvariant, PTL

-----------------------------------------------------------------------------
(***************************************************************************)
(* Part two: what is made, as long as creations have not overlapped.       *)
(***************************************************************************)
Busy(places) == \E t \in Creator : pc[t] \in places

OneAtATime == \A t \in Creator : pc[t] # "idle" => pc[Other(t)] = "idle"

\* A process is known by its position, to the memory manager and in the list.
Numbered == \A k \in Indices : processes[k].id = k

Listed ==
    /\ \A i \in DOMAIN registry : registry[i] = i
    /\ Len(registry) = IF Busy(Making) THEN Len(processes) - 1 ELSE Len(processes)

NextIdFits == nextProcessId = IF Busy(Counting) THEN Len(processes) ELSE Len(processes) + 1

\* What a thread has read is still true.
DraftFits(t) ==
    /\ pc[t] \in Making => /\ draft[t].index = Len(processes)
                           /\ processes[Len(processes)].name = draft[t].name
    /\ pc[t] = "register" => draft[t].id = nextProcessId
    /\ pc[t] = "store_id" => draft[t].seen = nextProcessId
    /\ pc[t] = "insert_screen" => ~HasScreen(draft[t].name)
    /\ pc[t] = "append" => draft[t].list = registry

DraftsFit == \A t \in Creator : DraftFits(t)

MemoryKept ==
    /\ scheduled \subseteq pageTables
    /\ Busy(Unscheduled) => Len(processes) \in pageTables \ scheduled

\* Before EnterMain nothing is made.
Booting ==
    /\ cpc \in {"preboot", "enter"} => ~HasScreen(MAIN_CONSOLE_NAME)
    /\ ~HasScreen(MAIN_CONSOLE_NAME) =>
          /\ cpc \in {"preboot", "enter", "exited"}
          /\ DOMAIN screenTable = {PrebootScreen.name}
          /\ processes = <<>> /\ (\A t \in Creator : pc[t] = "idle")
          /\ ~generating /\ tpc \notin {"generate", "generated"}

FirstNamed(k, n) ==
    /\ k \in Indices /\ processes[k].name = n
    /\ \A j \in Indices : processes[j].name = n => k <= j

\* A screen is of the first process of its name, and every process but the one in
\* the making has a screen under its name.
ScreensFit ==
    /\ HasScreen(MAIN_CONSOLE_NAME) =>
          \A n \in DOMAIN screenTable \ {MAIN_CONSOLE_NAME} : FirstNamed(screenTable[n].process, n)
    /\ \A k \in Indices : k < Len(processes) \/ ~Busy(Unscreened) => HasScreen(processes[k].name)

\* The process screen -r has found keeps its screen until it is shown.
SwitchFits ==
    cpc = "switch" =>
        /\ target \in Indices
        /\ processes[target].name # MAIN_CONSOLE_NAME => OwnScreen(target)

\* Under UserKeepsOff names differ.
NamesDiffer ==
    /\ \A k \in Indices : processes[k].name \in UserNames \cup {MakeProcessName(k)}
    /\ \A j, k \in Indices : processes[j].name = processes[k].name => j = k
    /\ \A t \in Creator : pc[t] \in Drafting =>
          /\ draft[t].name \in UserNames \cup {MakeProcessName(Len(processes) + 1)}
          /\ \A k \in Indices : processes[k].name # draft[t].name

WholeInv ==
    /\ OneAtATime /\ Numbered /\ Listed /\ NextIdFits /\ DraftsFit
    /\ MemoryKept /\ ScreensFit /\ SwitchFits
    /\ UserKeepsOff => NamesDiffer

\* The places at which a thread is busy.
BusyPlaces == {Drafting, Counting, Unscreened, Unscheduled, Making}

\* While the other thread is idle, it is thread t alone that is busy.
LEMMA Alone ==
  ASSUME GenTyped, NEW t \in Creator, NEW loc, pc[Other(t)] = "idle", pc' = [pc EXCEPT ![t] = loc]
  PROVE  /\ OneAtATime'
         /\ (Busy(Drafting) <=> pc[t] \in Drafting) /\ (Busy(Drafting)' <=> loc \in Drafting)
         /\ (Busy(Counting) <=> pc[t] \in Counting) /\ (Busy(Counting)' <=> loc \in Counting)
         /\ (Busy(Unscreened) <=> pc[t] \in Unscreened) /\ (Busy(Unscreened)' <=> loc \in Unscreened)
         /\ (Busy(Unscheduled) <=> pc[t] \in Unscheduled) /\ (Busy(Unscheduled)' <=> loc \in Unscheduled)
         /\ (Busy(Making) <=> pc[t] \in Making) /\ (Busy(Making)' <=> loc \in Making)
         /\ pc'[t] = loc /\ pc'[Other(t)] = "idle"
<1>1. Other(t) \in Creator /\ Other(t) # t /\ Other(Other(t)) = t /\ \A u \in Creator : u = t \/ u = Other(t)
  BY TwoCreators
<1>2. pc'[t] = loc /\ pc'[Other(t)] = "idle"
  BY <1>1 DEF GenTyped
<1>3. OneAtATime'
  BY <1>1, <1>2 DEF OneAtATime
<1>4. ASSUME NEW places \in BusyPlaces
      PROVE  (Busy(places) <=> pc[t] \in places) /\ (Busy(places)' <=> loc \in places)
  <2>1. "idle" \notin places
    BY DEF BusyPlaces, Drafting, Making, Unscheduled, Unscreened, Counting
  <2> QED
    BY <1>1, <1>2, <2>1 DEF Busy
<1> QED
  BY <1>2, <1>3, <1>4 DEF BusyPlaces

LEMMA Bounds ==
  ASSUME SharedTyped
  PROVE  /\ Len(processes) \in Nat /\ Indices = 1..Len(processes)
         /\ Len(registry) \in Nat /\ DOMAIN registry = 1..Len(registry)
         /\ nextProcessId \in Nat
         /\ \A t \in Creator : draft[t] \in DraftType
<1>1. processes \in Seq(ProcessType) /\ registry \in Seq(Nat)
  BY DEF SharedTyped, GenTyped
<1> QED
  BY <1>1 DEF SharedTyped, GenTyped, Indices

\* What stays as it is when t alone moves from one place to another.
LEMMA ListedStays ==
  ASSUME GenTyped, NEW t \in Creator, NEW loc, pc[Other(t)] = "idle", pc' = [pc EXCEPT ![t] = loc],
         Listed, UNCHANGED <<registry, processes>>, loc \in Making <=> pc[t] \in Making
  PROVE  Listed'
BY Alone DEF Listed

LEMMA NextIdStays ==
  ASSUME GenTyped, NEW t \in Creator, NEW loc, pc[Other(t)] = "idle", pc' = [pc EXCEPT ![t] = loc],
         NextIdFits, UNCHANGED <<nextProcessId, processes>>, loc \in Counting <=> pc[t] \in Counting
  PROVE  NextIdFits'
BY Alone DEF NextIdFits

LEMMA MemoryStays ==
  ASSUME GenTyped, NEW t \in Creator, NEW loc, pc[Other(t)] = "idle", pc' = [pc EXCEPT ![t] = loc],
         MemoryKept, UNCHANGED <<pageTables, scheduled, processes>>,
         loc \in Unscheduled => pc[t] \in Unscheduled
  PROVE  MemoryKept'
BY Alone DEF MemoryKept

LEMMA ScreensStay ==
  ASSUME GenTyped, NEW t \in Creator, NEW loc, pc[Other(t)] = "idle", pc' = [pc EXCEPT ![t] = loc],
         ScreensFit, UNCHANGED <<screenTable, processes>>,
         pc[t] \in Unscreened => loc \in Unscreened
  PROVE  ScreensFit'
<1>1. Busy(Unscreened) => Busy(Unscreened)'
  BY Alone
<1>2. \A k, n : FirstNamed(k, n)' <=> FirstNamed(k, n)
  BY DEF FirstNamed, Indices
<1>3. \A n : HasScreen(n)' <=> HasScreen(n)
  BY DEF HasScreen
<1> QED
  BY <1>1, <1>2, <1>3 DEF ScreensFit, Indices

LEMMA SwitchStays ==
  ASSUME SwitchFits, UNCHANGED <<screenTable, processes, cpc, target>>
  PROVE  SwitchFits'
BY DEF SwitchFits, OwnScreen, HasScreen, Indices

LEMMA DraftsFollow ==
  ASSUME GenTyped, NEW t \in Creator, pc'[Other(t)] = "idle", DraftFits(t)'
  PROVE  DraftsFit'
<1>1. \A u \in Creator : u = t \/ u = Other(t)
  BY TwoCreators
<1>2. DraftFits(Other(t))'
  BY Places DEF DraftFits
<1> QED
  BY <1>1, <1>2 DEF DraftsFit

LEMMA NamesStay ==
  ASSUME GenTyped, NEW t \in Creator, NEW loc, pc[Other(t)] = "idle", pc' = [pc EXCEPT ![t] = loc],
         NamesDiffer, UNCHANGED processes,
         loc \in Drafting => pc[t] \in Drafting /\ draft'[t].name = draft[t].name
  PROVE  NamesDiffer'
<1>1. pc'[t] = loc /\ \A u \in Creator : u = t \/ pc'[u] = "idle"
  BY Alone, TwoCreators
<1>2. \A u \in Creator : pc'[u] \in Drafting => u = t /\ pc[t] \in Drafting /\ draft'[t].name = draft[t].name
  BY <1>1, Places
<1> QED
  BY <1>2 DEF NamesDiffer, Indices

\* A step of t that leaves alone all that the invariant speaks of but the place
\* and the draft of t.
LEMMA QuietMove ==
  ASSUME SharedTyped, WholeInv, NEW t \in Creator, NEW loc,
         pc[t] # "idle", pc' = [pc EXCEPT ![t] = loc],
         UNCHANGED <<nextProcessId, processes, pageTables, scheduled, registry,
                     screenTable, cpc, target>>,
         loc \in Making <=> pc[t] \in Making,
         loc \in Counting <=> pc[t] \in Counting,
         loc \in Unscheduled => pc[t] \in Unscheduled,
         pc[t] \in Unscreened => loc \in Unscreened,
         loc \in Drafting => pc[t] \in Drafting /\ draft'[t].name = draft[t].name,
         DraftFits(t)'
  PROVE  WholeInv'
<1>1. GenTyped /\ pc[Other(t)] = "idle"
  BY DEF SharedTyped, WholeInv, OneAtATime
<1>2. OneAtATime' /\ pc'[Other(t)] = "idle"
  BY <1>1, Alone
<1>3. Listed' /\ NextIdFits' /\ MemoryKept' /\ ScreensFit' /\ SwitchFits'
  BY <1>1, ListedStays, NextIdStays, MemoryStays, ScreensStay, SwitchStays DEF WholeInv
<1>4. DraftsFit'
  BY <1>1, <1>2, DraftsFollow
<1>5. UserKeepsOff => NamesDiffer'
  BY <1>1, NamesStay DEF WholeInv
<1>6. Numbered'
  BY DEF WholeInv, Numbered, Indices
<1> QED
  BY <1>2, <1>3, <1>4, <1>5, <1>6 DEF WholeInv

\* The classes of the places that a step goes from and to.
LEMMA PlaceClasses ==
  /\ {"construct", "register", "idle"} \cap (Making \cup Counting \cup Unscheduled \cup Unscreened) = {}
  /\ {"increment", "store_id"} \subseteq Making \cap Counting \cap Unscheduled \cap Unscreened
  /\ {"find_screen", "insert_screen"} \subseteq (Making \cap Unscheduled \cap Unscreened) \ Counting
  /\ "schedule" \in (Making \cap Unscheduled) \ (Counting \cup Unscreened)
  /\ {"list", "append"} \subseteq Making \ (Counting \cup Unscheduled \cup Unscreened)
  /\ Drafting = {"construct", "register"}
BY DEF Drafting, Making, Unscheduled, Unscreened, Counting

LEMMA ConstructWhole ==
  ASSUME SharedTyped, WholeInv, NEW t \in Creator, ConstructProcess(t),
         UNCHANGED <<screenTable, cpc, target>>
  PROVE  WholeInv'
<1>1. /\ pc[t] = "construct" /\ pc' = [pc EXCEPT ![t] = "register"]
      /\ UNCHANGED <<nextProcessId, processes, pageTables, scheduled, registry>>
  BY DEF ConstructProcess, At, Goto
<1>2. draft' = [draft EXCEPT ![t]["id"] = nextProcessId] /\ draft[t] \in DraftType
  BY DraftAt DEF ConstructProcess, Keep
<1>3. draft'[t].name = draft[t].name /\ draft'[t].id = nextProcessId /\ pc'[t] = "register"
  BY <1>1, <1>2 DEF SharedTyped, GenTyped, DraftType
<1>4. DraftFits(t)'
  BY <1>1, <1>3, PlaceClasses DEF DraftFits
<1> QED
  BY <1>1, <1>3, <1>4, PlaceClasses, QuietMove

LEMMA RefuseWhole ==
  ASSUME SharedTyped, WholeInv, NEW t \in Creator, RefuseProcess(t),
         UNCHANGED <<screenTable, cpc, target>>
  PROVE  WholeInv'
<1>1. /\ pc[t] = "register" /\ pc' = [pc EXCEPT ![t] = "idle"]
      /\ UNCHANGED <<nextProcessId, processes, pageTables, scheduled, registry>>
  BY DEF RefuseProcess, At, Goto
<1>2. pc'[t] = "idle"
  BY <1>1 DEF SharedTyped, GenTyped
<1>3. DraftFits(t)'
  BY <1>2, PlaceClasses DEF DraftFits
<1> QED
  BY <1>1, <1>3, PlaceClasses, QuietMove

LEMMA ReadNextIdWhole ==
  ASSUME SharedTyped, WholeInv, NEW t \in Creator, ReadNextId(t),
         UNCHANGED <<screenTable, cpc, target>>
  PROVE  WholeInv'
<1>1. /\ pc[t] = "increment" /\ pc' = [pc EXCEPT ![t] = "store_id"]
      /\ UNCHANGED <<nextProcessId, processes, pageTables, scheduled, registry>>
  BY DEF ReadNextId, At, Goto
<1>2. draft' = [draft EXCEPT ![t]["seen"] = nextProcessId] /\ draft[t] \in DraftType
  BY DraftAt DEF ReadNextId, Keep
<1>3. /\ draft'[t].name = draft[t].name /\ draft'[t].seen = nextProcessId
      /\ draft'[t].index = draft[t].index /\ pc'[t] = "store_id"
  BY <1>1, <1>2 DEF SharedTyped, GenTyped, DraftType
<1>4. DraftFits(t)'
  BY <1>1, <1>3, PlaceClasses DEF DraftFits, WholeInv, DraftsFit
<1> QED
  BY <1>1, <1>3, <1>4, PlaceClasses, QuietMove

LEMMA ReadListWhole ==
  ASSUME SharedTyped, WholeInv, NEW t \in Creator, ReadList(t),
         UNCHANGED <<screenTable, cpc, target>>
  PROVE  WholeInv'
<1>1. /\ pc[t] = "list" /\ pc' = [pc EXCEPT ![t] = "append"]
      /\ UNCHANGED <<nextProcessId, processes, pageTables, scheduled, registry>>
  BY DEF ReadList, At, Goto
<1>2. draft' = [draft EXCEPT ![t]["list"] = registry] /\ draft[t] \in DraftType
  BY DraftAt DEF ReadList, Keep
<1>3. /\ draft'[t].name = draft[t].name /\ draft'[t].list = registry
      /\ draft'[t].index = draft[t].index /\ pc'[t] = "append"
  BY <1>1, <1>2 DEF SharedTyped, GenTyped, DraftType
<1>4. DraftFits(t)'
  BY <1>1, <1>3, PlaceClasses DEF DraftFits, WholeInv, DraftsFit
<1> QED
  BY <1>1, <1>3, <1>4, PlaceClasses, QuietMove

LEMMA FindScreenWhole ==
  ASSUME SharedTyped, WholeInv, NEW t \in Creator, FindScreen(t),
         UNCHANGED <<screenTable, cpc, target>>
  PROVE  WholeInv'
<1>1. /\ pc[t] = "find_screen"
      /\ pc' = [pc EXCEPT ![t] = IF HasScreen(draft[t].name) THEN "schedule" ELSE "insert_screen"]
      /\ UNCHANGED <<nextProcessId, processes, pageTables, scheduled, registry, draft>>
  BY DEF FindScreen, At, Goto
<1>2. GenTyped /\ pc[Other(t)] = "idle"
  BY <1>1 DEF SharedTyped, WholeInv, OneAtATime
<1>3. draft[t].index = Len(processes) /\ processes[Len(processes)].name = draft[t].name
  BY <1>1, PlaceClasses DEF WholeInv, DraftsFit, DraftFits
<1>4. CASE ~HasScreen(draft[t].name)
  <2>1. pc' = [pc EXCEPT ![t] = "insert_screen"] /\ pc'[t] = "insert_screen"
    BY <1>1, <1>2, <1>4 DEF GenTyped
  <2>2. DraftFits(t)'
    BY <1>1, <1>3, <1>4, <2>1 DEF DraftFits, HasScreen
  <2> QED
    BY <1>1, <2>1, <2>2, PlaceClasses, QuietMove
<1>5. CASE HasScreen(draft[t].name)
  <2>1. pc' = [pc EXCEPT ![t] = "schedule"]
    BY <1>1, <1>5
  <2>2. OneAtATime' /\ pc'[Other(t)] = "idle" /\ pc'[t] = "schedule" /\ ~Busy(Unscreened)'
    BY <1>2, <2>1, Alone, PlaceClasses
  <2>3. Listed' /\ NextIdFits' /\ MemoryKept' /\ SwitchFits'
    BY <1>1, <1>2, <2>1, PlaceClasses, ListedStays, NextIdStays, MemoryStays, SwitchStays
    DEF WholeInv
  <2>4. DraftsFit'
    <3>1. DraftFits(t)'
      BY <1>1, <1>3, <2>2 DEF DraftFits
    <3> QED
      BY <1>2, <2>2, <3>1, DraftsFollow
  <2>5. UserKeepsOff => NamesDiffer'
    BY <1>1, <1>2, <2>1, PlaceClasses, NamesStay DEF WholeInv
  <2>6. Numbered'
    BY <1>1 DEF WholeInv, Numbered, Indices
  <2>7. ScreensFit'
    <3>1. \A k, n : FirstNamed(k, n)' <=> FirstNamed(k, n)
      BY <1>1 DEF FirstNamed, Indices
    <3>2. \A k \in Indices : HasScreen(processes[k].name)
      <4>1. \A k \in Indices : k < Len(processes) \/ k = Len(processes)
        BY Bounds
      <4> QED
        BY <4>1, <1>3, <1>5 DEF WholeInv, ScreensFit
    <3> QED
      BY <1>1, <3>1, <3>2 DEF WholeInv, ScreensFit, HasScreen, Indices
  <2> QED
    BY <2>2, <2>3, <2>4, <2>5, <2>6, <2>7 DEF WholeInv
<1> QED
  BY <1>4, <1>5

LEMMA StoreNextIdWhole ==
  ASSUME SharedTyped, WholeInv, NEW t \in Creator, StoreNextId(t),
         UNCHANGED <<screenTable, cpc, target>>
  PROVE  WholeInv'
<1>1. /\ pc[t] = "store_id" /\ pc' = [pc EXCEPT ![t] = "find_screen"]
      /\ nextProcessId' = draft[t].seen + 1
      /\ UNCHANGED <<processes, pageTables, scheduled, registry, draft>>
  BY DEF StoreNextId, At, Goto
<1>2. GenTyped /\ pc[Other(t)] = "idle"
  BY <1>1 DEF SharedTyped, WholeInv, OneAtATime
<1>3. /\ draft[t].index = Len(processes) /\ processes[Len(processes)].name = draft[t].name
      /\ draft[t].seen = nextProcessId
  BY <1>1, PlaceClasses DEF WholeInv, DraftsFit, DraftFits
<1>4. /\ OneAtATime' /\ pc'[Other(t)] = "idle" /\ pc'[t] = "find_screen"
      /\ Busy(Counting) /\ ~Busy(Counting)'
  <2>1. "store_id" \in Counting /\ "find_screen" \notin Counting
    BY PlaceClasses
  <2> QED
    BY <1>1, <1>2, <2>1, Alone
<1>5. Listed' /\ MemoryKept' /\ ScreensFit' /\ SwitchFits'
  BY <1>1, <1>2, PlaceClasses, ListedStays, MemoryStays, ScreensStay, SwitchStays DEF WholeInv
<1>6. NextIdFits'
  <2>1. nextProcessId = Len(processes) /\ Len(processes') = Len(processes)
    BY <1>1, <1>4 DEF WholeInv, NextIdFits
  <2> QED
    BY <2>1, <1>1, <1>3, <1>4 DEF NextIdFits
<1>7. DraftsFit'
  <2>1. DraftFits(t)'
    BY <1>1, <1>3, <1>4 DEF DraftFits
  <2> QED
    BY <1>2, <1>4, <2>1, DraftsFollow
<1>8. UserKeepsOff => NamesDiffer'
  BY <1>1, <1>2, PlaceClasses, NamesStay DEF WholeInv
<1>9. Numbered'
  BY <1>1 DEF WholeInv, Numbered, Indices
<1> QED
  BY <1>4, <1>5, <1>6, <1>7, <1>8, <1>9 DEF WholeInv

\* Nobody has a screen under the name, so the process is the first that has it.
LEMMA AddScreenWhole ==
  ASSUME SharedTyped, Booting, WholeInv, NEW t \in Creator, AddScreen(t),
         UNCHANGED <<cpc, target>>
  PROVE  WholeInv'
<1> DEFINE name == draft[t].name
<1>1. /\ pc[t] = "insert_screen" /\ pc' = [pc EXCEPT ![t] = "schedule"]
      /\ screenTable' = WithScreen(screenTable, Screen(name, draft[t].index))
      /\ UNCHANGED <<nextProcessId, processes, pageTables, scheduled, registry, draft>>
  BY DEF AddScreen, InsertScreen, At, Goto
<1>2. GenTyped /\ pc[Other(t)] = "idle"
  BY <1>1 DEF SharedTyped, WholeInv, OneAtATime
<1>3. /\ draft[t].index = Len(processes) /\ processes[Len(processes)].name = name
      /\ ~HasScreen(name)
  BY <1>1, PlaceClasses DEF WholeInv, DraftsFit, DraftFits
<1>4. /\ OneAtATime' /\ pc'[Other(t)] = "idle" /\ pc'[t] = "schedule"
      /\ ~Busy(Unscreened)'
  BY <1>1, <1>2, Alone, PlaceClasses
<1>5. Listed' /\ NextIdFits' /\ MemoryKept'
  BY <1>1, <1>2, PlaceClasses, ListedStays, NextIdStays, MemoryStays DEF WholeInv
<1>6. DraftsFit'
  <2>1. DraftFits(t)'
    BY <1>1, <1>3, <1>4 DEF DraftFits
  <2> QED
    BY <1>2, <1>4, <2>1, DraftsFollow
<1>7. UserKeepsOff => NamesDiffer'
  BY <1>1, <1>2, PlaceClasses, NamesStay DEF WholeInv
<1>8. Numbered'
  BY <1>1 DEF WholeInv, Numbered, Indices
<1>9. /\ DOMAIN screenTable' = DOMAIN screenTable \cup {name}
      /\ \A n \in DOMAIN screenTable : screenTable'[n] = screenTable[n]
      /\ screenTable'[name].process = Len(processes)
  BY <1>1, <1>3 DEF WithScreen, Screen, HasScreen
<1>10. HasScreen(MAIN_CONSOLE_NAME) /\ name # MAIN_CONSOLE_NAME
  BY <1>1, <1>3 DEF Booting
<1>11. Len(processes) \in Nat /\ Indices = 1..Len(processes) /\ Len(processes) \in Indices
  <2>1. draft[t].index \in Indices
    BY <1>1, PlaceClasses, DraftAt
  <2> QED
    BY <2>1, <1>3, Bounds
<1>12. FirstNamed(Len(processes), name)
  <2>1. ASSUME NEW j \in Indices, processes[j].name = name PROVE Len(processes) <= j
    <3>1. ~(j < Len(processes))
      BY <2>1, <1>3 DEF WholeInv, ScreensFit
    <3> QED
      BY <3>1, <1>11
  <2> QED
    BY <2>1, <1>3, <1>11 DEF FirstNamed
<1>13. ScreensFit'
  <2>1. \A k, n : FirstNamed(k, n)' <=> FirstNamed(k, n)
    BY <1>1 DEF FirstNamed, Indices
  <2>2. \A n \in DOMAIN screenTable' \ {MAIN_CONSOLE_NAME} :
           FirstNamed(screenTable'[n].process, n)
    BY <1>9, <1>10, <1>12 DEF WholeInv, ScreensFit
  <2>3. \A k \in Indices : processes[k].name \in DOMAIN screenTable'
    <3>1. \A k \in Indices : k < Len(processes) \/ k = Len(processes)
      BY <1>11
    <3> QED
      BY <3>1, <1>3, <1>9 DEF WholeInv, ScreensFit, HasScreen
  <2> QED
    BY <1>1, <2>1, <2>2, <2>3 DEF ScreensFit, HasScreen, Indices
<1>14. SwitchFits'
  BY <1>1, <1>9 DEF WholeInv, SwitchFits, OwnScreen, HasScreen, Indices
<1> QED
  BY <1>4, <1>5, <1>6, <1>7, <1>8, <1>13, <1>14 DEF WholeInv

LEMMA AddToSchedulerWhole ==
  ASSUME SharedTyped, WholeInv, NEW t \in Creator, AddToScheduler(t),
         UNCHANGED <<screenTable, cpc, target>>
  PROVE  WholeInv'
<1>1. /\ pc[t] = "schedule" /\ pc' = [pc EXCEPT ![t] = "list"]
      /\ scheduled' = scheduled \cup {draft[t].index}
      /\ UNCHANGED <<nextProcessId, processes, pageTables, registry, draft>>
  BY DEF AddToScheduler, At, Goto
<1>2. GenTyped /\ pc[Other(t)] = "idle"
  BY <1>1 DEF SharedTyped, WholeInv, OneAtATime
<1>3. draft[t].index = Len(processes) /\ processes[Len(processes)].name = draft[t].name
  BY <1>1, PlaceClasses DEF WholeInv, DraftsFit, DraftFits
<1>4. /\ OneAtATime' /\ pc'[Other(t)] = "idle" /\ pc'[t] = "list"
      /\ Busy(Unscheduled) /\ ~Busy(Unscheduled)'
  <2>1. "schedule" \in Unscheduled /\ "list" \notin Unscheduled
    BY PlaceClasses
  <2> QED
    BY <1>1, <1>2, <2>1, Alone
<1>5. Listed' /\ NextIdFits' /\ ScreensFit' /\ SwitchFits'
  BY <1>1, <1>2, PlaceClasses, ListedStays, NextIdStays, ScreensStay, SwitchStays DEF WholeInv
<1>6. MemoryKept'
  BY <1>1, <1>3, <1>4 DEF WholeInv, MemoryKept
<1>7. DraftsFit'
  <2>1. DraftFits(t)'
    BY <1>1, <1>3, <1>4 DEF DraftFits
  <2> QED
    BY <1>2, <1>4, <2>1, DraftsFollow
<1>8. UserKeepsOff => NamesDiffer'
  BY <1>1, <1>2, PlaceClasses, NamesStay DEF WholeInv
<1>9. Numbered'
  BY <1>1 DEF WholeInv, Numbered, Indices
<1> QED
  BY <1>4, <1>5, <1>6, <1>7, <1>8, <1>9 DEF WholeInv

LEMMA AppendWhole ==
  ASSUME SharedTyped, WholeInv, NEW t \in Creator, AppendToList(t),
         UNCHANGED <<screenTable, cpc, target>>
  PROVE  WholeInv'
<1>1. /\ pc[t] = "append" /\ pc' = [pc EXCEPT ![t] = "idle"]
      /\ registry' = Append(draft[t].list, draft[t].index)
      /\ UNCHANGED <<nextProcessId, processes, pageTables, scheduled>>
  BY DEF AppendToList, At, Goto
<1>2. GenTyped /\ pc[Other(t)] = "idle"
  BY <1>1 DEF SharedTyped, WholeInv, OneAtATime
<1>3. draft[t].index = Len(processes) /\ draft[t].list = registry
  BY <1>1, PlaceClasses DEF WholeInv, DraftsFit, DraftFits
<1>4. /\ OneAtATime' /\ pc'[Other(t)] = "idle" /\ pc'[t] = "idle"
      /\ Busy(Making) /\ ~Busy(Making)'
  <2>1. "append" \in Making /\ "idle" \notin Making
    BY PlaceClasses
  <2> QED
    BY <1>1, <1>2, <2>1, Alone
<1>5. NextIdFits' /\ MemoryKept' /\ ScreensFit' /\ SwitchFits'
  BY <1>1, <1>2, PlaceClasses, NextIdStays, MemoryStays, ScreensStay, SwitchStays DEF WholeInv
<1>6. Listed'
  <2>1. Len(processes) \in Nat /\ Len(registry) \in Nat /\ registry \in Seq(Nat)
    BY Bounds DEF SharedTyped, GenTyped
  <2>2. Len(registry) = Len(processes) - 1 /\ \A i \in 1..Len(registry) : registry[i] = i
    BY <1>4, <2>1 DEF WholeInv, Listed
  <2>3. registry' = Append(registry, Len(processes))
    BY <1>1, <1>3
  <2>4. /\ Len(registry') = Len(processes) /\ DOMAIN registry' = 1..Len(processes)
        /\ \A i \in 1..Len(processes) : registry'[i] = i
    BY <2>1, <2>2, <2>3
  <2>5. Len(processes') = Len(processes)
    BY <1>1
  <2> QED
    BY <1>4, <2>4, <2>5 DEF Listed
<1>7. DraftsFit'
  <2>1. DraftFits(t)'
    BY <1>4, PlaceClasses DEF DraftFits
  <2> QED
    BY <1>2, <1>4, <2>1, DraftsFollow
<1>8. UserKeepsOff => NamesDiffer'
  BY <1>1, <1>2, PlaceClasses, NamesStay DEF WholeInv
<1>9. Numbered'
  BY <1>1 DEF WholeInv, Numbered, Indices
<1> QED
  BY <1>4, <1>5, <1>6, <1>7, <1>8, <1>9 DEF WholeInv

\* The process is made: its number is the next one, which the thread has read
\* before and which nobody has changed since.
LEMMA RegisterWhole ==
  ASSUME SharedTyped, WholeInv, NEW t \in Creator, RegisterProcess(t),
         UNCHANGED <<screenTable, cpc, target>>
  PROVE  WholeInv'
<1> DEFINE n == Len(processes) + 1
           p == [id |-> draft[t].id, name |-> draft[t].name, by |-> t, status |-> "Ready"]
<1>1. /\ pc[t] = "register" /\ pc' = [pc EXCEPT ![t] = "increment"]
      /\ pageTables' = pageTables \cup {draft[t].id}
      /\ processes' = Append(processes, p)
      /\ UNCHANGED <<nextProcessId, scheduled, registry>>
  BY DEF RegisterProcess, At, Goto
<1>2. draft' = [draft EXCEPT ![t]["index"] = n] /\ draft[t] \in DraftType
  BY DraftAt DEF RegisterProcess, Keep
<1>3. GenTyped /\ pc[Other(t)] = "idle"
  BY <1>1 DEF SharedTyped, WholeInv, OneAtATime
<1>4. draft'[t].name = draft[t].name /\ draft'[t].index = n
  BY <1>2 DEF SharedTyped, GenTyped, DraftType
<1>5. /\ "register" \notin Making /\ "register" \notin Counting /\ "register" \notin Unscreened
      /\ "increment" \in Making /\ "increment" \in Counting /\ "increment" \notin Drafting
      /\ "register" \in Drafting
  BY PlaceClasses
<1>6. /\ OneAtATime' /\ pc'[Other(t)] = "idle" /\ pc'[t] = "increment"
      /\ ~Busy(Making) /\ Busy(Making)' /\ ~Busy(Counting) /\ Busy(Counting)'
      /\ ~Busy(Unscreened)
  BY <1>1, <1>3, <1>5, Alone
<1>7. Len(processes) \in Nat /\ Indices = 1..Len(processes) /\ processes \in Seq(ProcessType)
  BY Bounds DEF SharedTyped, GenTyped
<1>8. /\ Len(processes') = n /\ Indices' = Indices \cup {n} /\ n \notin Indices
      /\ \A k \in Indices : processes'[k] = processes[k]
      /\ processes'[n] = p
  <2>1. /\ Len(processes') = n /\ DOMAIN processes' = 1..n
        /\ \A k \in 1..Len(processes) : processes'[k] = processes[k]
        /\ processes'[n] = p
    BY <1>1, <1>7
  <2>2. 1..n = (1..Len(processes)) \cup {n} /\ n \notin 1..Len(processes)
    BY <1>7
  <2> QED
    BY <1>7, <2>1, <2>2 DEF Indices
<1>9. draft[t].id = n /\ nextProcessId = n
  BY <1>1, <1>6 DEF WholeInv, DraftsFit, DraftFits, NextIdFits
<1>10. p.id = n /\ p.name = draft[t].name
  BY <1>9
<1> HIDE DEF p
<1>11. Numbered'
  BY <1>8, <1>10 DEF WholeInv, Numbered
<1>12. Listed'
  <2>1. Len(registry) = n - 1
    BY <1>6, <1>7 DEF WholeInv, Listed
  <2> QED
    BY <2>1, <1>1, <1>6, <1>8 DEF WholeInv, Listed
<1>13. NextIdFits'
  BY <1>1, <1>6, <1>8, <1>9 DEF NextIdFits
<1>14. MemoryKept'
  <2>1. scheduled \subseteq Indices
    BY DEF SharedTyped, GenTyped
  <2> QED
    BY <2>1, <1>1, <1>8, <1>9 DEF WholeInv, MemoryKept
<1> HIDE DEF n
<1>15. DraftsFit'
  <2>1. DraftFits(t)'
    BY <1>4, <1>6, <1>8, <1>10 DEF DraftFits
  <2> QED
    BY <1>3, <1>6, <2>1, DraftsFollow
<1>16. ScreensFit'
  <2>1. ASSUME NEW k, NEW x, FirstNamed(k, x) PROVE FirstNamed(k, x)'
    <3>1. k \in Indices /\ k <= n /\ k \in Indices' /\ processes'[k].name = x
      BY <2>1, <1>7, <1>8 DEF FirstNamed, n
    <3>2. ASSUME NEW j \in Indices', processes'[j].name = x PROVE k <= j
      BY <2>1, <3>1, <3>2, <1>8 DEF FirstNamed
    <3> QED
      BY <3>1, <3>2 DEF FirstNamed
  <2>2. \A k \in Indices' : k < n => k \in Indices
    BY <1>8, <1>7 DEF n
  <2>3. ASSUME NEW k \in Indices', k < n PROVE HasScreen(processes[k].name) /\ processes'[k] = processes[k]
    BY <2>2, <2>3, <1>6, <1>8 DEF WholeInv, ScreensFit
  <2>4. Busy(Unscreened)'
    <3>1. "increment" \in Unscreened
      BY PlaceClasses
    <3> QED
      BY <3>1, <1>1, <1>3, Alone
  <2>5. ASSUME HasScreen(MAIN_CONSOLE_NAME), NEW x \in DOMAIN screenTable \ {MAIN_CONSOLE_NAME}
        PROVE  FirstNamed(screenTable[x].process, x)'
    <3>1. FirstNamed(screenTable[x].process, x)
      BY <2>5 DEF WholeInv, ScreensFit
    <3> QED
      BY <2>1, <3>1
  <2>6. \A k \in Indices' : k < Len(processes') => HasScreen(processes'[k].name)
    BY <2>3, <1>8
  <2> QED
    BY <2>4, <2>5, <2>6 DEF ScreensFit, HasScreen
<1>17. SwitchFits'
  BY <1>8 DEF WholeInv, SwitchFits, OwnScreen, HasScreen
<1>18. ASSUME UserKeepsOff PROVE NamesDiffer'
  <2>1. /\ \A k \in Indices : processes[k].name \in UserNames \cup {MakeProcessName(k)}
        /\ \A j, k \in Indices : processes[j].name = processes[k].name => j = k
        /\ draft[t].name \in UserNames \cup {MakeProcessName(n)}
        /\ \A k \in Indices : processes[k].name # draft[t].name
    BY <1>1, <1>5, <1>18 DEF WholeInv, NamesDiffer, n
  <2>2. \A k \in Indices' : processes'[k].name \in UserNames \cup {MakeProcessName(k)}
    BY <2>1, <1>8, <1>10
  <2>3. \A j, k \in Indices' : processes'[j].name = processes'[k].name => j = k
    BY <2>1, <1>8, <1>10
  <2>4. \A u \in Creator : pc'[u] \notin Drafting
    BY <1>5, <1>6, TwoCreators, Places
  <2> QED
    BY <2>2, <2>3, <2>4 DEF NamesDiffer
<1> QED
  BY <1>6, <1>11, <1>12, <1>13, <1>14, <1>15, <1>16, <1>17, <1>18 DEF WholeInv

Unused(x) == x # "" => ProcessesNamed(x) = {}

\* A creation begins while the other thread is idle.  The name is new: the user's
\* has been looked up, and the generator's is made of a number not used yet.
LEMMA BeginWhole ==
  ASSUME SharedTyped, WholeInv, NEW t \in Creator, NEW x \in GivenNames, BeginGenerate(t, x),
         pc[t] = "idle", pc[Other(t)] = "idle", UNCHANGED <<screenTable, cpc, target>>,
         Unused(x)
  PROVE  WholeInv'
<1> DEFINE name == ChooseName(t, x)
<1>1. /\ pc' = [pc EXCEPT ![t] = "construct"]
      /\ draft' = [draft EXCEPT ![t] = [NoDraft EXCEPT !.name = name]]
      /\ UNCHANGED <<nextProcessId, processes, pageTables, scheduled, registry>>
  BY DEF BeginGenerate, Goto
<1>2. GenTyped
  BY DEF SharedTyped
<1>3. /\ OneAtATime' /\ pc'[Other(t)] = "idle" /\ pc'[t] = "construct"
      /\ ~Busy(Making) /\ ~Busy(Counting)
  <2>1. "idle" \notin Making /\ "idle" \notin Counting
    BY Places
  <2> QED
    BY <1>1, <1>2, <2>1, Alone
<1>4. Listed' /\ NextIdFits' /\ MemoryKept' /\ ScreensFit' /\ SwitchFits'
  BY <1>1, <1>2, PlaceClasses, ListedStays, NextIdStays, MemoryStays, ScreensStay, SwitchStays
  DEF WholeInv
<1>5. DraftsFit'
  <2>1. DraftFits(t)'
    BY <1>3, PlaceClasses DEF DraftFits
  <2> QED
    BY <1>2, <1>3, <2>1, DraftsFollow
<1>6. Numbered'
  BY <1>1 DEF WholeInv, Numbered, Indices
<1>7. ASSUME UserKeepsOff PROVE NamesDiffer'
  <2>1. nextProcessId = Len(processes) + 1
    BY <1>3 DEF WholeInv, NextIdFits
  <2>2. Len(processes) \in Nat /\ Indices = 1..Len(processes) /\ Len(processes) < MaxProcesses
        /\ MaxProcesses \in Nat
    <3>1. Len(processes) + InDraft < MaxProcesses
      BY DEF BeginGenerate, RoomForAnother
    <3>2. InDraft = One("clock", Drafting) + One("console", Drafting)
      BY <1>2, DraftsCounted
    <3>3. One("clock", Drafting) = 0 /\ One("console", Drafting) = 0
      <4>1. pc["clock"] = "idle" /\ pc["console"] = "idle"
        BY TwoCreators DEF Creator
      <4> QED
        BY <4>1, Places DEF One
    <3>4. Len(processes) \in Nat /\ MaxProcesses \in Nat /\ Indices = 1..Len(processes)
      BY Bounds, ShellAssumption
    <3>5. InDraft = 0
      BY <3>2, <3>3
    <3> QED
      BY <3>1, <3>4, <3>5
  <2>3. \A k \in Indices : processes[k].name \in UserNames \cup {MakeProcessName(k)}
    BY <1>7 DEF WholeInv, NamesDiffer
  <2>4. /\ name \in UserNames \cup {MakeProcessName(Len(processes) + 1)}
        /\ \A k \in Indices : processes[k].name # name
    <3>1. CASE x = ""
      <4>1. name = MakeProcessName(Len(processes) + 1)
        BY <3>1, <2>1 DEF ChooseName
      <4>2. Len(processes) + 1 \in 1..MaxProcesses
            /\ \A k \in Indices : k \in 1..MaxProcesses /\ k # Len(processes) + 1
        BY <2>2
      <4>3. \A k \in Indices : MakeProcessName(k) # name
        BY <4>1, <4>2, NamesAssumption
      <4>4. name \notin UserNames
        BY <4>1, <4>2, <1>7 DEF UserKeepsOff
      <4> QED
        BY <4>1, <4>3, <4>4, <2>3
    <3>2. CASE x # ""
      <4>1. name = x /\ x \in UserNames
        BY <3>2 DEF ChooseName, GivenNames
      <4>2. \A i \in DOMAIN registry : processes[registry[i]].name # x
        BY <3>2 DEF ProcessesNamed, Unused
      <4>3. DOMAIN registry = Indices /\ \A i \in DOMAIN registry : registry[i] = i
        BY <1>3, <2>2, Bounds DEF WholeInv, Listed
      <4> QED
        BY <4>1, <4>2, <4>3
    <3> QED
      BY <3>1, <3>2
  <2>5. draft'[t].name = name
    BY <1>1, <1>2 DEF GenTyped, NoDraft
  <2>6. \A u \in Creator : pc'[u] \in Drafting => u = t
    BY <1>3, TwoCreators, Places
  <2> HIDE DEF name
  <2> QED
    BY <1>1, <1>7, <2>4, <2>5, <2>6 DEF WholeInv, NamesDiffer, Indices
<1> QED
  BY <1>3, <1>4, <1>5, <1>6, <1>7 DEF WholeInv

-----------------------------------------------------------------------------
\* Of the processes with one name there is a first.
HasFirst == \A k \in Indices : \E j \in Indices : FirstNamed(j, processes[k].name)

\* How the processes can change.
LEMMA ProcessesChange ==
  ASSUME TypedInv, [Next]_vars
  PROVE  \/ UNCHANGED processes
         \/ SameButStatus /\ Indices' = Indices
         \/ \E t \in Creator : RegisterProcess(t)
<1>1. CASE ClockStep
  BY <1>1 DEF ClockStep, Tick, TickBound, CountTick, TestGenerating, OnTickGenerates,
     OnTickReturns, BeginGenerate
<1>2. CASE ConsoleStep
  <2>1. CASE ConsoleElsewhere
    BY <2>1, ElsewhereLeaves DEF Shared
  <2>2. CASE EnterMain \/ \E name \in UserNames : CreateScreen(name)
    BY <2>2 DEF EnterMain, CreateScreen, BeginGenerate
  <2>3. CASE FinalizeUnfinishedProcesses
    BY <2>3, FinalizeEffect, StatusTyped DEF TypedInv
  <2> QED
    BY <1>2, <2>1, <2>2, <2>3 DEF ConsoleStep, ConsoleElsewhere
<1>3. CASE Workers
  <2>1. SharedTyped /\ WorkerStep /\ UNCHANGED screenTable
    BY <1>3 DEF Workers, TypedInv
  <2>2. scheduled' \subseteq scheduled
    BY <2>1, WorkerEffect
  <2> QED
    BY <2>1, <2>2, WorkerEffect, StatusTyped
<1>4. ASSUME NEW t \in Creator, Creation(t) PROVE UNCHANGED processes \/ RegisterProcess(t)
  BY <1>4 DEF Creation, AddScreen, CreateStep, ConstructProcess, RefuseProcess, ReadNextId,
     StoreNextId, FindScreen, AddToScheduler, ReadList, AppendToList
<1>5. CASE Exited \/ UNCHANGED vars
  BY <1>5 DEF Exited, vars
<1> QED
  BY <1>1, <1>2, <1>3, <1>4, <1>5 DEF Next

\* One more process.
LEMMA Appended ==
  ASSUME SharedTyped, NEW t \in Creator, RegisterProcess(t)
  PROVE  LET n == Len(processes) + 1
         IN  /\ Indices' = Indices \cup {n} /\ n \notin Indices /\ Len(processes') = n
             /\ \A k \in Indices : processes'[k] = processes[k] /\ k <= n
<1> DEFINE n == Len(processes) + 1
           p == [id |-> draft[t].id, name |-> draft[t].name, by |-> t, status |-> "Ready"]
<1>1. processes' = Append(processes, p)
  BY DEF RegisterProcess
<1>2. Len(processes) \in Nat /\ Indices = 1..Len(processes) /\ processes \in Seq(ProcessType)
  BY Bounds DEF SharedTyped, GenTyped
<1>3. draft[t] \in DraftType /\ draft[t].name \in ProcessNames
  BY Places, DraftAt DEF RegisterProcess, At
<1>4. p \in ProcessType
  BY <1>3 DEF ProcessType, DraftType, Statuses
<1> HIDE DEF p
<1>5. /\ Len(processes') = n /\ DOMAIN processes' = 1..n
      /\ \A k \in 1..Len(processes) : processes'[k] = processes[k]
  BY <1>1, <1>2, <1>4
<1>6. 1..n = (1..Len(processes)) \cup {n} /\ n \notin 1..Len(processes)
      /\ \A k \in 1..Len(processes) : k <= n
  BY <1>2
<1> QED
  BY <1>2, <1>5, <1>6 DEF Indices

LEMMA NextHasFirst == TypedInv /\ HasFirst /\ [Next]_vars => HasFirst'
<1> SUFFICES ASSUME TypedInv, HasFirst, [Next]_vars PROVE HasFirst'
  OBVIOUS
<1>1. CASE UNCHANGED processes
  BY <1>1 DEF HasFirst, FirstNamed, Indices
<1>2. CASE SameButStatus /\ Indices' = Indices
  BY <1>2 DEF HasFirst, FirstNamed, SameButStatus
<1>3. ASSUME NEW t \in Creator, RegisterProcess(t) PROVE HasFirst'
  <2>0. Len(processes) + 1 \in Nat
    BY Bounds DEF TypedInv
  <2>2. PICK n \in Nat : n = Len(processes) + 1
    BY <2>0
  <2>1. /\ Indices' = Indices \cup {n} /\ n \notin Indices
        /\ \A k \in Indices : processes'[k] = processes[k] /\ k <= n
    BY <1>3, <2>2, Appended DEF TypedInv
  <2>3. ASSUME NEW j, NEW x, FirstNamed(j, x) PROVE FirstNamed(j, x)'
    BY <2>1, <2>3 DEF FirstNamed
  <2>4. ASSUME NEW k \in Indices PROVE \E j \in Indices' : FirstNamed(j, processes[k].name)'
    BY <2>1, <2>3 DEF HasFirst
  <2>5. \E j \in Indices' : FirstNamed(j, processes[n].name)'
    <3>1. CASE \E k \in Indices : processes[k].name = processes'[n].name
      BY <3>1, <2>1, <2>4
    <3>2. CASE ~\E k \in Indices : processes[k].name = processes'[n].name
      <4>1. FirstNamed(n, processes[n].name)'
        BY <3>2, <2>1, <2>2 DEF FirstNamed
      <4> QED
        BY <4>1, <2>1
    <3> QED
      BY <3>1, <3>2
  <2> QED
    BY <2>1, <2>4, <2>5 DEF HasFirst
<1> QED
  BY <1>1, <1>2, <1>3, ProcessesChange

LEMMA NextBooting == TypedInv /\ Booting /\ [Next]_vars => Booting'
<1> SUFFICES ASSUME TypedInv, Booting, [Next]_vars PROVE Booting'
  OBVIOUS
<1> USE DEF Booting, HasScreen
<1>1. CASE ClockStep
  <2>1. CASE Tick \/ TickBound \/ CountTick
    BY <2>1 DEF Tick, TickBound, CountTick
  <2>2. CASE TestGenerating
    BY <2>2 DEF TestGenerating
  <2>3. CASE OnTickGenerates
    <3>1. MAIN_CONSOLE_NAME \in DOMAIN screenTable
      BY <2>3 DEF OnTickGenerates
    <3> QED
      BY <2>3, <3>1 DEF OnTickGenerates
  <2>4. CASE OnTickReturns
    BY <2>4 DEF OnTickReturns
  <2> QED
    BY <1>1, <2>1, <2>2, <2>3, <2>4 DEF ClockStep
<1>2. CASE ConsoleStep
  <2>1. CASE Initialize \/ PrebootExit
    BY <2>1 DEF Initialize, PrebootExit
  <2>2. CASE EnterMain
    BY <2>2 DEF EnterMain, EnterMainConsole, WithScreen, MainConsole, Screen
  <2>3. CASE SchedulerStart \/ SchedulerStop \/ StopClock \/ JoinClock
    BY <2>3 DEF SchedulerStart, SchedulerStop, StopClock, JoinClock, OnMain, Prompt
  <2>4. CASE \/ VmstatIdle \/ VmstatActive \/ VmstatTotal \/ VmstatReturns
             \/ \E i \in DOMAIN registry : FindProcess(processes[registry[i]].name)
    BY <2>4 DEF VmstatIdle, VmstatActive, VmstatTotal, VmstatReturns, FindProcess, OnMain, Prompt
  <2>5. CASE ShowScreen \/ ExitScreen \/ Exit
    BY <2>5 DEF ShowScreen, ExitScreen, Exit, SwitchScreen, ReturnToPreviousScreen, ExitConsole,
                OnMain, Prompt
  <2>6. CASE \E name \in UserNames : CreateScreen(name)
    BY <2>6 DEF CreateScreen, OnMain, Prompt
  <2>7. CASE FinalizeUnfinishedProcesses
    BY <2>7 DEF FinalizeUnfinishedProcesses
  <2> QED
    BY <1>2, <2>1, <2>2, <2>3, <2>4, <2>5, <2>6, <2>7 DEF ConsoleStep
<1>3. CASE Workers
  <2>1. UNCHANGED <<screenTable, cpc, tpc, generating>>
    BY <1>3 DEF Workers
  <2>2. processes # <<>>
    BY <1>3 DEF Workers, WorkerStep
  <2> QED
    BY <2>1, <2>2
<1>4. ASSUME NEW t \in Creator, Creation(t) PROVE Booting'
  <2>1. pc[t] # "idle"
    BY <1>4 DEF Creation, AddScreen, CreateStep, At, Goto,
       ConstructProcess, RefuseProcess, RegisterProcess, ReadNextId, StoreNextId, FindScreen,
       AddToScheduler, ReadList, AppendToList
  <2>2. UNCHANGED <<cpc, tpc, generating>> /\ DOMAIN screenTable \subseteq DOMAIN screenTable'
    BY <1>4 DEF Creation, AddScreen, InsertScreen, WithScreen
  <2> QED
    BY <2>1, <2>2
<1>5. CASE Exited \/ UNCHANGED vars
  BY <1>5 DEF Exited, vars
<1> QED
  BY <1>1, <1>2, <1>3, <1>4, <1>5 DEF Next

-----------------------------------------------------------------------------
\* Steps that change processes in nothing but their status.
LEMMA StatusWhole ==
  ASSUME SharedTyped, WholeInv, SameButStatus, Indices' = Indices,
         UNCHANGED <<nextProcessId, registry, pc, draft, screenTable>>,
         MemoryKept', SwitchFits'
  PROVE  WholeInv'
<1>1. Len(processes') = Len(processes)
      /\ \A k \in Indices : processes'[k].id = processes[k].id /\ processes'[k].name = processes[k].name
  BY DEF SameButStatus
<1>2. \A places : Busy(places)' <=> Busy(places)
  BY DEF Busy
<1>3. OneAtATime' /\ Numbered' /\ Listed' /\ NextIdFits'
  BY <1>1, <1>2 DEF WholeInv, OneAtATime, Numbered, Listed, NextIdFits
<1>4. DraftsFit'
  <2>1. ASSUME NEW t \in Creator PROVE DraftFits(t)'
    <3>1. pc[t] \in Making => draft[t].index \in Indices
      BY DraftAt
    <3> QED
      BY <3>1, <1>1 DEF WholeInv, DraftsFit, DraftFits, HasScreen
  <2> QED
    BY <2>1 DEF DraftsFit
<1>5. ScreensFit'
  <2>1. \A k, n : FirstNamed(k, n)' <=> FirstNamed(k, n)
    BY <1>1 DEF FirstNamed
  <2> QED
    BY <1>1, <1>2, <2>1 DEF WholeInv, ScreensFit, HasScreen
<1>6. UserKeepsOff => NamesDiffer'
  BY <1>1 DEF WholeInv, NamesDiffer
<1> QED
  BY <1>3, <1>4, <1>5, <1>6 DEF WholeInv

LEMMA SwitchSame ==
  ASSUME SharedTyped, WholeInv, SameButStatus, Indices' = Indices, UNCHANGED screenTable,
         UNCHANGED <<cpc, target>> \/ cpc' # "switch"
  PROVE  SwitchFits'
<1>1. CASE cpc' # "switch"
  BY <1>1 DEF SwitchFits
<1>2. CASE UNCHANGED <<cpc, target>>
  BY <1>2 DEF WholeInv, SwitchFits, OwnScreen, HasScreen, SameButStatus
<1> QED
  BY <1>1, <1>2

LEMMA WorkersWhole ==
  ASSUME SharedTyped, WholeInv, WorkerStep, UNCHANGED <<screenTable, cpc, target>>
  PROVE  WholeInv'
<1>1. /\ SameButStatus /\ UNCHANGED <<nextProcessId, registry, pc, draft>>
      /\ \/ UNCHANGED <<scheduled, pageTables>>
         \/ \E k \in scheduled : /\ scheduled' = scheduled \ {k}
                                 /\ pageTables' = pageTables \ {processes[k].id}
  BY WorkerEffect
<1>2. Indices' = Indices
  BY <1>1, StatusTyped
<1>3. Len(processes') = Len(processes) /\ (Busy(Unscheduled)' <=> Busy(Unscheduled))
  BY <1>1 DEF SameButStatus, Busy
<1>4. MemoryKept'
  <2>1. CASE UNCHANGED <<scheduled, pageTables>>
    BY <2>1, <1>3 DEF WholeInv, MemoryKept
  <2>2. ASSUME NEW k \in scheduled, scheduled' = scheduled \ {k},
               pageTables' = pageTables \ {processes[k].id}
        PROVE  MemoryKept'
    <3>1. processes[k].id = k
      BY DEF WholeInv, Numbered, SharedTyped, GenTyped
    <3> QED
      BY <3>1, <2>2, <1>3 DEF WholeInv, MemoryKept
  <2> QED
    BY <1>1, <2>1, <2>2
<1>5. SwitchFits'
  BY <1>1, <1>2, SwitchSame
<1> QED
  BY <1>1, <1>2, <1>4, <1>5, StatusWhole

LEMMA FinalizeWhole ==
  ASSUME SharedTyped, WholeInv, FinalizeUnfinishedProcesses
  PROVE  WholeInv'
<1>1. /\ SameButStatus
      /\ UNCHANGED <<screenTable, nextProcessId, pageTables, scheduled, registry, pc, draft>>
  BY FinalizeEffect
<1>2. Indices' = Indices
  BY <1>1, StatusTyped
<1>3. Len(processes') = Len(processes) /\ (Busy(Unscheduled)' <=> Busy(Unscheduled))
  BY <1>1 DEF SameButStatus, Busy
<1>4. MemoryKept'
  BY <1>1, <1>3 DEF WholeInv, MemoryKept
<1>5. cpc' # "switch"
  BY DEF FinalizeUnfinishedProcesses
<1>6. SwitchFits'
  BY <1>1, <1>2, <1>5, SwitchSame
<1> QED
  BY <1>1, <1>2, <1>4, <1>6, StatusWhole

\* Steps that leave all of it alone but where the console is.
LEMMA ElsewhereWhole ==
  ASSUME WholeInv, UNCHANGED Shared, SwitchFits'
  PROVE  WholeInv'
<1>1. OneAtATime' /\ Numbered' /\ Listed' /\ NextIdFits' /\ MemoryKept'
  BY DEF WholeInv, OneAtATime, Numbered, Listed, NextIdFits, MemoryKept, Busy, Indices, Shared
<1>2. DraftsFit'
  BY DEF WholeInv, DraftsFit, DraftFits, HasScreen, Shared
<1>3. ScreensFit'
  BY DEF WholeInv, ScreensFit, FirstNamed, HasScreen, Busy, Indices, Shared
<1>4. UserKeepsOff => NamesDiffer'
  BY DEF WholeInv, NamesDiffer, Indices, Shared
<1> QED
  BY <1>1, <1>2, <1>3, <1>4 DEF WholeInv

\* The main console comes before anything is made.
LEMMA EnterMainWhole ==
  ASSUME SharedTyped, Booting, WholeInv, EnterMain
  PROVE  WholeInv'
<1>1. processes = <<>> /\ DOMAIN screenTable = {PrebootScreen.name} /\ \A t \in Creator : pc[t] = "idle"
  BY DEF EnterMain, Booting
<1>2. UNCHANGED genVars /\ cpc' = "prompt" /\ DOMAIN screenTable' = {MAIN_CONSOLE_NAME}
  BY <1>1 DEF EnterMain, EnterMainConsole, WithScreen, WithoutScreen, MainConsole, Screen
<1>3. Indices = {} /\ Indices' = {}
  BY <1>1, <1>2 DEF Indices
<1>4. OneAtATime' /\ Listed' /\ NextIdFits' /\ MemoryKept'
  BY <1>2 DEF WholeInv, OneAtATime, Listed, NextIdFits, MemoryKept, Busy
<1>5. Numbered' /\ SwitchFits'
  BY <1>2, <1>3 DEF Numbered, SwitchFits
<1>6. DraftsFit'
  BY <1>1, <1>2, Places DEF DraftsFit, DraftFits
<1>7. ScreensFit'
  BY <1>2, <1>3 DEF ScreensFit
<1>8. UserKeepsOff => NamesDiffer'
  BY <1>1, <1>2, <1>3, Places DEF NamesDiffer
<1> QED
  BY <1>4, <1>5, <1>6, <1>7, <1>8 DEF WholeInv

\* screen -r finds the first process of that name, and so does its screen.
LEMMA FindProcessFits ==
  ASSUME SharedTyped, Booting, HasFirst, WholeInv,
         NEW i \in DOMAIN registry, FindProcess(processes[registry[i]].name)
  PROVE  SwitchFits'
<1> DEFINE name == processes[i].name
           PN == ProcessesNamed(name)
<1>1. Len(registry) \in Nat /\ DOMAIN registry = 1..Len(registry)
      /\ Len(processes) \in Nat /\ Indices = 1..Len(processes)
  BY Bounds
<1>2. \A k \in DOMAIN registry : registry[k] = k /\ k \in Indices
                                 /\ (k < Len(processes) \/ ~Busy(Unscreened))
  <2>1. \A k \in DOMAIN registry : registry[k] = k
    BY DEF WholeInv, Listed
  <2>2. CASE Busy(Making)
    <3>1. Len(registry) = Len(processes) - 1
      BY <2>2 DEF WholeInv, Listed
    <3> QED
      BY <2>1, <3>1, <1>1
  <2>3. CASE ~Busy(Making)
    <3>1. Len(registry) = Len(processes)
      BY <2>3 DEF WholeInv, Listed
    <3>2. ~Busy(Unscreened)
      BY <2>3 DEF Busy, Making, Unscheduled
    <3> QED
      BY <2>1, <3>1, <3>2, <1>1
  <2> QED
    BY <2>2, <2>3
<1>3. /\ FindProcess(name) /\ HasScreen(name) /\ HasScreen(MAIN_CONSOLE_NAME)
      /\ UNCHANGED <<screenTable, processes>>
  <2>1. cpc = "prompt" /\ UNCHANGED <<screenTable, processes>> /\ FindProcess(name)
    BY <1>2 DEF FindProcess, OnMain, Prompt
  <2> QED
    BY <2>1, <1>2 DEF WholeInv, ScreensFit, Booting
<1>4. PICK m \in Indices : FirstNamed(m, name)
  BY <1>2 DEF HasFirst
<1>5. PN = {k \in DOMAIN registry : processes[k].name = name}
  BY <1>2 DEF ProcessesNamed
<1>6. m \in PN /\ \A k \in PN : m <= k
  <2>1. m <= i
    BY <1>2, <1>4 DEF FirstNamed
  <2>2. m \in DOMAIN registry
    BY <2>1, <1>1
  <2> QED
    BY <2>2, <1>2, <1>4, <1>5 DEF FirstNamed
<1>7. target' = m
  <2> DEFINE c == CHOOSE k \in PN : \A l \in PN : k <= l
  <2>1. c \in PN /\ \A l \in PN : c <= l
    BY <1>6
  <2>2. c <= m /\ m <= c /\ c \in Nat /\ m \in Nat
    <3>1. PN \subseteq Nat
      BY <1>1, <1>5
    <3> HIDE DEF PN, c
    <3> QED
      BY <2>1, <3>1, <1>6
  <2>3. c = m
    <3> HIDE DEF c
    <3> QED
      BY <2>2
  <2>4. target' = registry[c]
    BY <1>3 DEF FindProcess, GetProcessByName
  <2> QED
    BY <2>3, <2>4, <1>2, <1>5, <1>6
<1>8. ASSUME name # MAIN_CONSOLE_NAME PROVE screenTable[name].process = m
  <2>1. FirstNamed(screenTable[name].process, name)
    BY <1>3, <1>8 DEF WholeInv, ScreensFit, HasScreen
  <2> DEFINE s == screenTable[name].process
  <2>2. s \in Indices /\ s <= m /\ m <= s
    BY <2>1, <1>4 DEF FirstNamed
  <2> QED
    BY <2>2, <1>1
<1>9. processes[m].name = name
  BY <1>4 DEF FirstNamed
<1> QED
  BY <1>3, <1>4, <1>7, <1>8, <1>9 DEF SwitchFits, OwnScreen, HasScreen, Indices

\* While creations have not overlapped.
Whole == Booting /\ HasFirst /\ (~overlapped => WholeInv)

LEMMA InitWhole == Init => Whole
<1> SUFFICES ASSUME Init PROVE Whole
  OBVIOUS
<1>1. /\ nextProcessId = 1 /\ processes = <<>> /\ scheduled = {} /\ registry = <<>>
      /\ pageTables = {} /\ \A t \in Creator : pc[t] = "idle"
  BY DEF Init, InitGenerator
<1>2. DOMAIN screenTable = {PrebootScreen.name} /\ PrebootScreen.name # MAIN_CONSOLE_NAME
  BY DEF Init, InitConsoles, WithScreen, PrebootScreen, Screen, MAIN_CONSOLE_NAME
<1>3. Len(processes) = 0 /\ Len(registry) = 0 /\ Indices = {} /\ DOMAIN registry = {}
  BY <1>1 DEF Indices
<1>4. ~Busy(Making) /\ ~Busy(Counting) /\ ~Busy(Unscheduled)
  BY <1>1, PlaceClasses DEF Busy
<1>5. Booting
  BY <1>1, <1>2 DEF Init, Booting, HasScreen
<1>6. HasFirst /\ Numbered /\ SwitchFits
  BY <1>3 DEF Init, HasFirst, Numbered, SwitchFits
<1>7. OneAtATime /\ Listed /\ NextIdFits /\ MemoryKept
  BY <1>1, <1>3, <1>4, TwoCreators DEF OneAtATime, Listed, NextIdFits, MemoryKept
<1>8. DraftsFit
  BY <1>1, PlaceClasses DEF DraftsFit, DraftFits
<1>9. ScreensFit
  BY <1>2, <1>3 DEF ScreensFit, HasScreen
<1>10. NamesDiffer
  BY <1>1, <1>3, PlaceClasses DEF NamesDiffer
<1> QED
  BY <1>5, <1>6, <1>7, <1>8, <1>9, <1>10 DEF Whole, WholeInv

LEMMA CreationWhole ==
  ASSUME SharedTyped, Booting, WholeInv, NEW t \in Creator, Creation(t)
  PROVE  WholeInv'
<1>1. CASE AddScreen(t) /\ UNCHANGED <<cpc, target>>
  BY <1>1, AddScreenWhole
<1>2. CASE CreateStep(t) /\ UNCHANGED <<screenTable, cpc, target>>
  BY <1>2, ConstructWhole, RefuseWhole, RegisterWhole, ReadNextIdWhole, StoreNextIdWhole,
     FindScreenWhole, AddToSchedulerWhole, ReadListWhole, AppendWhole
  DEF CreateStep
<1> QED
  BY <1>1, <1>2 DEF Creation

LEMMA ClockWhole ==
  ASSUME TypedInv, Whole, ~overlapped', ClockStep
  PROVE  WholeInv'
<1>1. CASE OnTickGenerates
  <2>1. /\ BeginGenerate("clock", "") /\ UNCHANGED <<screenTable, cpc, target>> /\ tpc = "generate"
        /\ ~overlapped /\ pc["console"] = "idle"
    BY <1>1 DEF OnTickGenerates, At
  <2>2. pc["clock"] = "idle" /\ SharedTyped /\ WholeInv
    BY <2>1 DEF TypedInv, ControlTyped, Whole
  <2>3. "clock" \in Creator /\ Other("clock") = "console" /\ "" \in GivenNames /\ Unused("")
    BY DEF Creator, GivenNames, Unused, Other
  <2> QED
    BY <2>1, <2>2, <2>3, BeginWhole
<1>2. CASE Tick \/ TickBound \/ CountTick \/ TestGenerating \/ OnTickReturns
  <2>1. UNCHANGED Shared /\ UNCHANGED <<cpc, target, overlapped>>
    BY <1>2 DEF Tick, TickBound, CountTick, TestGenerating, OnTickReturns, Shared
  <2>2. WholeInv
    BY <2>1 DEF Whole
  <2>3. SwitchFits'
    BY <2>1, <2>2, SwitchStays DEF WholeInv, Shared
  <2> QED
    BY <2>1, <2>2, <2>3, ElsewhereWhole
<1> QED
  BY <1>1, <1>2 DEF ClockStep

LEMMA ConsoleWhole ==
  ASSUME TypedInv, Whole, ~overlapped', ConsoleStep
  PROVE  WholeInv'
<1>1. CASE ConsoleElsewhere
  <2>1. UNCHANGED Shared /\ overlapped' = overlapped
    <3>1. overlapped' = overlapped
      BY <1>1 DEF ConsoleElsewhere, SchedulerStart, SchedulerStop, Initialize, PrebootExit,
         StopClock, JoinClock, VmstatIdle, VmstatActive, VmstatTotal, VmstatReturns, FindProcess,
         ShowScreen, ExitScreen, Exit
    <3> QED
      BY <1>1, <3>1, ElsewhereLeaves
  <2>2. WholeInv /\ SharedTyped /\ Booting /\ HasFirst
    BY <2>1 DEF Whole, TypedInv
  <2>3. CASE \E i \in DOMAIN registry : FindProcess(processes[registry[i]].name)
    BY <2>1, <2>2, <2>3, FindProcessFits, ElsewhereWhole
  <2>4. CASE ~\E i \in DOMAIN registry : FindProcess(processes[registry[i]].name)
    <3>1. cpc' # "switch"
      BY <1>1, <2>4 DEF ConsoleElsewhere, SchedulerStart, SchedulerStop, Initialize, PrebootExit,
         StopClock, JoinClock, VmstatIdle, VmstatActive, VmstatTotal, VmstatReturns,
         ShowScreen, ExitScreen, Exit, OnMain, Prompt
    <3>2. SwitchFits'
      BY <3>1 DEF SwitchFits
    <3> QED
      BY <2>1, <2>2, <3>2, ElsewhereWhole
  <2> QED
    BY <2>3, <2>4
<1>2. ASSUME NEW name \in UserNames, CreateScreen(name) PROVE WholeInv'
  <2>1. /\ BeginGenerate("console", name) /\ UNCHANGED <<screenTable, cpc, target>>
        /\ ~overlapped /\ pc["clock"] = "idle" /\ pc["console"] = "idle"
        /\ ProcessesNamed(name) = {}
    BY <1>2 DEF CreateScreen, OnMain, Prompt, At
  <2>2. SharedTyped /\ WholeInv
    BY <2>1 DEF TypedInv, Whole
  <2>3. "console" \in Creator /\ Other("console") = "clock" /\ name \in GivenNames /\ Unused(name)
    BY <2>1 DEF Creator, GivenNames, Unused, Other
  <2> QED
    BY <2>1, <2>2, <2>3, BeginWhole
<1>3. CASE EnterMain
  <2>1. overlapped' = overlapped
    BY <1>3 DEF EnterMain
  <2> QED
    BY <1>3, <2>1, EnterMainWhole DEF Whole, TypedInv
<1>4. CASE FinalizeUnfinishedProcesses
  <2>1. overlapped' = overlapped
    BY <1>4 DEF FinalizeUnfinishedProcesses
  <2> QED
    BY <1>4, <2>1, FinalizeWhole DEF Whole, TypedInv
<1> QED
  BY <1>1, <1>2, <1>3, <1>4 DEF ConsoleStep, ConsoleElsewhere

LEMMA NextWhole == TypedInv /\ Whole /\ [Next]_vars => Whole'
<1> SUFFICES ASSUME TypedInv, Whole, [Next]_vars PROVE Whole'
  OBVIOUS
<1>1. Booting' /\ HasFirst'
  BY NextBooting, NextHasFirst DEF Whole
<1>2. ASSUME ~overlapped' PROVE WholeInv'
  <2>1. CASE ClockStep
    BY <1>2, <2>1, ClockWhole
  <2>2. CASE ConsoleStep
    BY <1>2, <2>2, ConsoleWhole
  <2>3. CASE Workers
    <3>1. WorkerStep /\ UNCHANGED <<screenTable, cpc, target, overlapped>>
      BY <2>3 DEF Workers
    <3> QED
      BY <1>2, <3>1, WorkersWhole DEF Whole, TypedInv
  <2>4. ASSUME NEW t \in Creator, Creation(t) PROVE WholeInv'
    <3>1. overlapped' = overlapped
      BY <2>4 DEF Creation
    <3> QED
      BY <1>2, <2>4, <3>1, CreationWhole DEF Whole, TypedInv
  <2>5. CASE Exited \/ UNCHANGED vars
    <3>1. UNCHANGED Shared /\ UNCHANGED <<cpc, target, overlapped>>
      BY <2>5 DEF Exited, vars, Shared
    <3>2. WholeInv
      BY <1>2, <3>1 DEF Whole
    <3>3. SwitchFits'
      BY <3>1, <3>2, SwitchStays DEF WholeInv, Shared
    <3> QED
      BY <3>1, <3>2, <3>3, ElsewhereWhole
  <2> QED
    BY <2>1, <2>2, <2>3, <2>4, <2>5 DEF Next
<1> QED
  BY <1>1, <1>2 DEF Whole

LEMMA WholeInvariant == Spec => []Whole
BY InitWhole, TypedInvariant, NextWhole, PTL DEF Spec

\* As long as the clock and the console have not been making processes at once,
\* every process has an id of its own, is in the registry once, has memory while it
\* is scheduled and, if the user keeps off reserved names, a screen of its own.
THEOREM ProcessesMadeWhole == Spec => []CreatedWhole
<1>1. ASSUME TypedInv, Whole, ~overlapped PROVE ScheduledHasMemory
  BY <1>1 DEF TypedInv, SharedTyped, GenTyped, Whole, WholeInv, MemoryKept, Numbered,
     ScheduledHasMemory
<1>2. ASSUME TypedInv, Whole, ~overlapped, NEW k \in Indices
      PROVE  OwnId(k) /\ (Finished(k) => Registered(k) /\ (UserKeepsOff => OwnScreen(k)))
  <2>1. /\ WholeInv /\ Booting /\ SharedTyped
        /\ Len(processes) \in Nat /\ Indices = 1..Len(processes)
        /\ Len(registry) \in Nat /\ DOMAIN registry = 1..Len(registry)
    BY <1>2, Bounds DEF Whole, TypedInv
  <2>2. OwnId(k)
    BY <2>1 DEF WholeInv, Numbered, OwnId
  <2>3. ASSUME Finished(k) PROVE k <= Len(registry) /\ (k < Len(processes) \/ ~Busy(Unscreened))
    <3>1. CASE Busy(Making)
      <4>1. PICK t \in Creator : pc[t] \in Making
        BY <3>1 DEF Busy
      <4>2. k # Len(processes)
        BY <2>1, <2>3, <4>1 DEF WholeInv, DraftsFit, DraftFits, Finished
      <4>3. Len(registry) = Len(processes) - 1
        BY <2>1, <3>1 DEF WholeInv, Listed
      <4> QED
        BY <2>1, <4>2, <4>3
    <3>2. CASE ~Busy(Making)
      <4>1. Len(registry) = Len(processes)
        BY <2>1, <3>2 DEF WholeInv, Listed
      <4>2. ~Busy(Unscreened)
        BY <3>2 DEF Busy, Making, Unscheduled
      <4> QED
        BY <2>1, <4>1, <4>2
    <3> QED
      BY <3>1, <3>2
  <2>4. ASSUME Finished(k) PROVE Registered(k)
    <3>1. {i \in DOMAIN registry : registry[i] = k} = {k}
      BY <2>1, <2>3, <2>4 DEF WholeInv, Listed
    <3>2. Cardinality({k}) = 1
      BY FS_Singleton
    <3> QED
      BY <3>1, <3>2 DEF Registered
  <2>5. ASSUME Finished(k), UserKeepsOff PROVE OwnScreen(k)
    <3> DEFINE name == processes[k].name
    <3>1. HasScreen(name)
      BY <2>1, <2>3, <2>5 DEF WholeInv, ScreensFit
    <3>2. name # MAIN_CONSOLE_NAME
      <4>1. name \in UserNames \cup {MakeProcessName(k)}
        BY <2>1, <2>5 DEF WholeInv, NamesDiffer
      <4>2. k \in 1..MaxProcesses
        <5>1. Len(processes) <= MaxProcesses /\ MaxProcesses \in Nat
          BY <1>2, TypesInBounds
        <5> QED
          BY <2>1, <5>1
      <4> QED
        BY <4>1, <4>2, <2>5, NamesAssumption DEF UserKeepsOff
    <3>3. HasScreen(MAIN_CONSOLE_NAME)
      <4>1. processes # <<>>
        BY <1>2 DEF Indices
      <4> QED
        BY <2>1, <4>1 DEF Booting
    <3>4. FirstNamed(screenTable[name].process, name)
      BY <2>1, <3>1, <3>2, <3>3 DEF WholeInv, ScreensFit, HasScreen
    <3>5. screenTable[name].process = k
      BY <2>1, <2>5, <3>4 DEF WholeInv, NamesDiffer, FirstNamed
    <3> QED
      BY <3>1, <3>5 DEF OwnScreen
  <2> QED
    BY <2>2, <2>4, <2>5
<1>3. TypedInv /\ Whole => CreatedWhole
  BY <1>1, <1>2 DEF CreatedWhole
<1> QED
  BY <1>3, TypedInvariant, WholeInvariant, PTL

\* screen -r shows the process it found and tested, whatever the clock has created
\* in the meantime.
THEOREM ResumeAlwaysShowsProcess == Spec => ResumeShowsProcess
<1>1. ASSUME Whole, [Next]_vars
      PROVE  [ cpc = "switch" /\ ~overlapped /\ processes[target].name # MAIN_CONSOLE_NAME
                 => currentConsole'.process = target ]_<<cpc, currentConsole>>
  <2> SUFFICES ASSUME cpc = "switch", ~overlapped,
                      processes[target].name # MAIN_CONSOLE_NAME,
                      ~UNCHANGED <<cpc, currentConsole>>
               PROVE  currentConsole'.process = target
    OBVIOUS
  <2>1. OwnScreen(target)
    BY <1>1 DEF Whole, WholeInv, SwitchFits
  <2>2. ShowScreen
    <3>1. ~ClockStep
      BY DEF ClockStep, Tick, TickBound, CountTick, TestGenerating, OnTickGenerates, OnTickReturns
    <3>2. ~Workers /\ ~Exited /\ ~UNCHANGED vars
      BY DEF Workers, Exited, vars
    <3>3. ~\E t \in Creator : Creation(t)
      BY DEF Creation, AddScreen, InsertScreen
    <3>4. ConsoleStep => ShowScreen
      BY DEF ConsoleStep, Initialize, PrebootExit, EnterMain, SchedulerStart, SchedulerStop,
         CreateScreen, FindProcess, ExitScreen, VmstatIdle, VmstatActive, VmstatTotal,
         VmstatReturns, Exit, StopClock, JoinClock, FinalizeUnfinishedProcesses, OnMain, Prompt
    <3> QED
      BY <1>1, <3>1, <3>2, <3>3, <3>4 DEF Next
  <2> QED
    BY <2>1, <2>2 DEF ShowScreen, SwitchScreen, OwnScreen
<1> QED
  BY <1>1, WholeInvariant, PTL DEF Spec, ResumeShowsProcess
=============================================================================
