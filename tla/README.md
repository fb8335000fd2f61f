# Formal model of CSC511C-MP

CSC511C-MP is a console program that emulates an operating system: simulated
processes (lists of instructions) run on simulated cores, one OS thread per
core, on a clock of its own, with demand-paged memory and a swap file. These
TLA+ modules model the parts of it where interleavings, failures and long
sequences of calls matter, TLC checks them on small instances, and TLAPS proves
the central facts for every value of the constants.

File names below are in `src/CSC511C-MP/`.

## 1. Inventory

| Component | State | Operations | Interacts with | What is hard | What makes it correct |
|---|---|---|---|---|---|
| `MemoryManager` | retry flags, counters, `memoryMutex` | register, release, read, write, reset/consume retry flag | called by all threads; owns the pager | retries, refusal of sizes, release while other processes page | each process sees a flat memory; nothing of a released process stays |
| `DemandPager`, `FIFOPageReplacement` | frames, page tables, `residentPages`, queue of frames | ensure resident, load, page in/out, release | swaps through `BackingStore` | two structures for one mapping; words that straddle pages; eviction inside a load | mapping is one to one, queue = occupied frames in load order, the oldest page goes |
| `BackingStore` | map of pages in RAM, text file | store, load, remove, reset | called by the pager | the file is truncated and rewritten on every change, failures are silent | a failed rewrite never changes what a process reads |
| `Scheduler`, `RRScheduler`, `FCFSScheduler` | `readyQueue`, `running`, worker threads | add, dequeue, requeue, start, stop | workers run `EITThread`, release memory | lost wake-ups, requeue against stop | a process is in one place; none is lost; stop terminates |
| `EITThread`, `CPUManager` | core assignment, busy flags, counter | start, time slice, run to completion | `Process`, `Scheduler` | many ways out of a slice | flags, counter and statuses agree with the threads |
| `CPUTicker` | tick, `running`, `generating`, counters | run, wait until tick, stop | wakes workers, creates processes | stop against a waiter; switch against `OnTick` | no waiter stays parked |
| `Process` | status, wake tick, commands, violation | run, ready, sleep, wake, terminate, execute next | instructions, memory, clock | states changed by commands inside a slice; page-fault retry of a whole command | no run before the wake tick; Terminated is final |
| Instructions, `SymbolTable` | 32 variable slots mirrored in memory | execute | `MemoryManager`, `Process` | a retried command repeats what it already did | a command acts as if executed once |
| `DummyProcessGenerator` | next id, screen names | generate (random or given program) | clock and console thread, memory, scheduler | id and name chosen without a lock | ids are unique |
| `SystemState`, `AppConfig`, `initialize`, `scheduler-start/stop` | configuration, flags | parse, normalise, start | everything | sizes that fit each other; order of start | the parts agree on the sizes; a stop takes effect |
| `InstructionBuilder` | - | build from a text | `screen -c`, generator | nested bodies, exceptions | a process runs what was typed |
| `ProcessManager`, `ProcessList`, reports | list of processes | add, find, count, sort | all threads | appended to while read; statuses change under a report | each process is listed once, in order |
| Consoles, screens, commands | table of screens | register, switch, unregister | console thread, clock thread | unguarded table, lookup and insertion are two steps | a switch shows the process it was asked for |
| Logging and text | - | format | - | - | - |

Three kinds of threads share this state: one worker per core, the clock
thread, and the console thread. `PROJECT.json` lists each hazard at its line.

## 2. Plan

Done:

1. `FIFOPageReplacement`, `Paging`, and the abstract `FlatMemory` it implements.
2. `Scheduler`: workers, cores, clock, creation, shutdown.
3. `PagingProofs`: the queue, the pager, and that it implements `FlatMemory`.
4. `Execution` on top of `FlatMemory`, with the abstract `Interpreter` it implements.
5. `ConsoleManager`, `Generator`, `Shell`: what the clock and the console share; `ShellProofs`.
6. `Config` and `ConfigProofs`; `InstructionBuilder`; `Report`.
7. `SchedulerProofs`: every safety property of `Scheduler`.
8. In `PagingProofs` also the counters, the order of eviction and the retry; in
   `ConfigProofs` the last valid line.
9. `ExecutionProofs`: `TypeOK` and `StaleIsRetried`.
10. In `ShellProofs` also the processes that are made: `TypeOK`, `CreatedWhole`,
    `ResumeShowsProcess`.
11. `ReportProofs`: every property of `Report`.
12. `ExecutionRefinementProofs`: `Execution` implements `Interpreter`.
13. `BuilderProofs`: `BuiltAsTyped`.

With these, each invariant and action property that a passing run checks is also proved, and
so are the two refinements, that of `Interpreter` for programs that can be repeated. What is left to
TLC is liveness.

## 3. Modules

| Module | Models |
|---|---|
| `FIFOPageReplacement` | the replacement queue as operators on sequences |
| `Paging` | `MemoryManager` + `DemandPager` + `BackingStore` |
| `FlatMemory` | abstract specification: what the instructions are promised |
| `Scheduler` | `Scheduler`, `RRScheduler`, `FCFSScheduler`, `EITThread`, `CPUManager`, `CPUTicker`, status part of `Process`, creation, tail of `main` |
| `Instructions` | what the `Execute` methods compute, and the slots of a symbol table |
| `Execution` | `Process::ExecuteNextCommand`, the instructions and `SymbolTable`, access by access |
| `Interpreter` | abstract specification: what the text of a program says |
| `ExecutionRefinement` | the mapping from one to the other |
| `ConsoleManager` | table of screens, current screen |
| `Generator` | `DummyProcessGenerator`, `ProcessManager`, `ProcessList` |
| `Shell` | `main`, the commands, `CPUTicker::Run` and `OnTick`, over the two before |
| `Config` | `AppConfig` and what it means for memory requests |
| `InstructionBuilder` | `BuildInstructionsFromString`, `CreateInstruction` |
| `Report` | `ProcessReport::WriteSummary` against `Process::Terminate` |
| `MC...` | bounds, programs, inputs and symmetry for TLC |
| `...Proofs` | theorems |

`map` in `PROJECT.json` names the lines of every definition. Definitions
introduced by `\* Fault:` are not part of the model: each is a plausible bug,
and a property is shown to fail when it takes the place of the definition next
to it.

### Paging

`pager` is one record: the data that `memoryMutex` guards. Each public operation
of `MemoryManager` holds that mutex throughout, so it is one action; the calls
it makes inside are operators from one record to the next, composed in the
order of the code (`LoadPage` = map the page, evict if there is no free frame,
page in). An access is one of `RefuseAccess` (violation), `FaultAccess` (pages
are loaded, nothing is accessed, the flag is set) and the two real accesses.

Abstractions and assumptions:

- A row of the swap file is the page it encodes; the hexadecimal text is left
  out. A rewrite is complete, fails to open (file unchanged) or is cut off after
  the truncation (file empty). A longer prefix of the file lies between the last
  two: the file is read only for pages RAM does not know.
- The swap file starts empty. `InitializeCommand` resets it first; that this
  one rewrite succeeds is assumed.
- Process ids are never used twice (`retired`). The counter behind them is
  not synchronised; `Shell` shows what follows from that.
- `VirtualBytes` is a multiple of `FrameSize`: `AppConfig` accepts only powers of
  two up to 65536, or the default 16.
- `RegisterProcess` is also called for a process already registered, which
  sets its page count anew, as the code does.

### Scheduler

One program counter per worker (`pc`), one for the clock (`tpc`), one for the
console (`cpc`); a step is what a thread does between two points where another
can interfere. Condition-variable waits on the queue are atomic with their test,
since the variables tested are written under the same mutex. The wait for a
tick is split in `TickCheck` and `TickSleep`, during which `tickMutex` is held:
`CPUTicker::Stop` takes that mutex just for this reason, and the split shows
what would happen if it did not. Notifications after an unlock are steps of
their own.

A process is a sequence of effects (`plain`, `sleep`, `violate`,
`violate_sleep`); what commands compute is in `Execution`. Ticks are kept as
distances to the tick waited for, because the code only compares: no bound on
the clock is needed and the state space is finite by itself. Whether a tick
creates a process (switch, frequency, memory accepted) is left open, which
includes every setting of them. The initialisation of the program is done before
the first state.

### Execution

One process executes a program on the memory that `FlatMemory` specifies, of
which it uses the actions directly (`Memory!Read`, `Memory!Fault`, ...). Each call
of `MemoryManager` is a step and any of them may fault: that is what other
processes, and the process's own accesses, can do to it, and since `Paging`
implements `FlatMemory`, which isolates processes, one process is enough. An
access that faults does not stop the instruction: `GetVariable` falls back on the
value the table remembers, `SetVariable` has changed the table before it writes.
`ExecuteNextCommand` finds the flag set and executes the whole command again.
A FOR is unrolled into `todo` when its count is resolved. A line of its body that
could not be built is a null pointer there, and is passed over (`SkipNull`). The
constant `Code` is the set of instructions there are; `CodeAssumption` says of them what
`InstructionBuilder` guarantees: operands of the right kinds, as many as the
command takes, and none for a READ.

`Interpreter` has no faults, no caches and no attempts. Its state is compared
with that of `Execution` after each counted command. It allows two things to
spoil a program: an access violation, which ends it (even if an access of the
same attempt has faulted: it is then not tried again), and a command given up
after the last attempt, which is counted, may have left anything in the places
it writes to, and nothing elsewhere. After that a SLEEP may go by a value that
memory does not hold. Also in the model, because they are in the code: a full
table drops a new variable without a word, WRITE may go into the symbol segment
and change variables, PRINT of the name "" reads the first free slot.

`Interpreter` runs a command at once: a `Configuration` is the instructions left and the
state, `Step` takes the first of them, and `RunAll` repeats this until none is left. `Parts`
are the instructions a command may come to, at any depth of its bodies.

Not every program survives the attempts that follow a fault; `CanBeRepeated` says which do:

- no command uses a variable that it assigns (that is the finding `execution_self_add`), nor
  reads a word that it writes;
- a command that uses variables does not WRITE over the slots of the table;
- the count of a FOR is a literal;
- a command that READs gives a slot to no other variable, because a READ that faults gives
  none to its own and the next variable would take its place;
- a program with a SLEEP of a variable does not WRITE over the slots of the table anywhere.

The last one is due to the table: it remembers what a variable was before the WRITE, and a
SLEEP of 0 does not undo the nap that a faulting attempt has asked for by that value.

### Shell, Generator, ConsoleManager

Two threads make processes: the clock (`OnTick`) and the console (`screen -s`,
`screen -c`). `nextProcessId`, the list of processes and the table of screens have
no lock, so `GenerateOne` is split at each access to them: the id is read for the
name, read again for the process, read and written by `++`; a screen is looked
up and inserted; `push_back` reads the list and writes it. Concurrent insertions
into one `std::unordered_map` or `std::vector` are undefined behaviour; the model
has the mildest outcome, a lost update, and no crash. Page tables and
ready queue have locks of their own and change in one step. Workers are
abstract here (run, preempt, end): `Scheduler` has them in detail.

The console is at the prompt, or in a command that takes several steps: `screen
-r` (find, switch), `vmstat` (three reads), `exit` (stop, join, finalize). Commands
that only print change nothing and are left out, and so is a command that is
refused. `TickBound` lets the clock run on uncounted when `MaxTicks` is reached.
`idleTickTime` and `activeTickTime` start from any value of `Uninitialised`.

History variables: `overlapped` (both threads have been making processes at the
same time), `afterStop` (processes begun by the clock since the last stop),
`garbage` (what the two counters started from).

### Config

`config.txt` is a sequence of lines, a line a name with a number or a word; blank
lines, comments and single words are lines of an unknown name. `ReadLine` is the
chain of branches of `ParseConfigFile`, `EndOfFile` what follows the loop:
ranges are turned round, sizes checked, `NormalizePhysicalMemoryConfig` applied.
The bit trick for powers of two is the set `Sizes`. The model goes on to the
sizes asked for: `RollSchedulerProcessMemory` and `screen -s`.

### InstructionBuilder

Starts from parsed lines: a command, its operands and, in a FOR, the parsed lines
of the body. One step per line, as in the loop of `BuildInstructionsFromString`.
`std::stoi` of a DECLARE throws on a word and nobody catches it (`ThrowLine`); it also
accepts "5x", which is left out. Building ends, so these runs do not look for
deadlock. `Lines` is the set of lines that there are, bodies included, so that what recurs on a
body is a function on `Lines`; `Nesting` says how deep a line is nested. `BuilderAssumption`
says that a body is nested less deep than its FOR (its text is a part of the FOR's) and that only a
FOR has one.

### Report

`Terminate` sets the status, the end time and the end date in three steps. The
report collects running processes in one pass and finished ones in another,
then sorts by keys made from the texts. Minutes and seconds are copied digit by
digit in both directions and left out; hours go through the 12-hour clock. If
a key changes during the sort, `std::sort` promises nothing and the model allows
any order.

## 4. Runs

| Run | Instance | Shows |
|---|---|---|
| `paging_safety` | 2 processes, 2 frames of 2 bytes, 2 pages each, at most 4 page loads | mapping, queue, no exception, no leak, counters, FIFO order, a retry settles; `Paging` implements `FlatMemory` |
| `scheduler_rr` | 3 processes, 2 cores, quantum 1, delay 1, sleep 2, spurious wake-ups | every safety property of the scheduler |
| `scheduler_rr_live` | 2 processes, 2 cores, quantum 2, three commands | termination of every process, of the program |
| `scheduler_fcfs` | 2 processes, 2 cores | the same under FCFS, where stop takes a process off its core |
| `scheduler_loop` | 1 process, `FOR(2, READ x 70000, SLEEP 5)` | expected violation, see below |
| `execution_refinement` | 6 programs, 2 slots, 8 bytes, 3 attempts | a program does what its text says; no stale operand counts; it ends |
| `execution_self_add` | `ADD varA varA varB` | expected violation, see below |
| `shell_both` | 2 processes, 3 ticks, clock and console | processes are made whole, a stop takes effect, screens, `vmstat`, exit |
| `shell_shared_id` | same | expected violation, see below |
| `config_files` | all files of at most 3 of 20 lines | settings fit each other, the last valid line counts |
| `builder_all` | all texts of at most 2 of 49 lines, and one that is too long | what is built is what was typed |
| `report_sort` | 2 processes, 5 moments around noon and midnight | order of finished processes, each steady process once |

**Bounds.** Paging: with two frames, a word that straddles two pages needs the
whole pool, so its loads evict pages of the other process and of itself; four
loads are enough for evict, reload, release and reuse. Memory sizes are zero
(refused), below one frame (refused in the pager), all, and too much. The value
258 has different low and high bytes. `MaxLoads` is the only bound on a
counter. Scheduler: two cores with three processes is the least in which a
worker sleeps while two others compete for the queue; quantum 1 cuts every
slice, quantum 2 also reaches the middle; a sleep of 2 ticks lets a process be
requeued asleep more than once. The programs of `scheduler_rr` have no violation
inside a FOR, `scheduler_loop` has nothing else. `TerminatedForGood` holds with it
too, because the status is overwritten before the command returns; that a violation
leaves the process terminated (`ViolatedIsTerminated`) holds only without it.
Liveness is checked without symmetry and without spurious
wake-ups, so no lost notification is healed by chance.

Execution: 3 attempts stand for 256 (first, middle, last), 2 slots for 32 (the
third variable finds the table full), 8 bytes for 65536 (slots, data, the last
address, one that does not fit, one that does not parse). Values are at the
limits of 16 bits and beyond. The programs of `execution_refinement` have no
command that writes what it has read: such a command is the finding below. Five of the six
satisfy `CanBeRepeated` (TLC evaluates `RepeatableAssumption` of `MCExecution`); the sixth
(`Overwriting`) writes over the slots of its table.
Shell: two processes are the least that can be made at the same time, or one
after scheduler-stop and not two; three ticks let the clock pass its test, be
overtaken and come back. The user's name differs from the generator's, as `UserKeepsOff`
of `CreatedWhole` asks; what happens otherwise is said below. A third process would reach one more case, two
creations at once and then one more, which is too large for the time a run may take; what it
shows is said below too. Config: the lines are around each test (zero,
negative, no power of two, too small, too large, a range the wrong way round,
two lines for one setting, a word for a number); three lines are enough for a
pair of bounds and a line that overrides one of them. Builder: each command with
every number of arguments up to four, FOR with good, empty, bad and nested
bodies, a limit of two instructions. Report: 11 AM, 12 PM, 11 PM, 12 AM, 1 AM.

**Fairness.** Weak fairness of each worker and of the clock: they are OS
threads in a loop, blocked only in the waits that are modelled. Weak fairness
of the console only for what it has begun (`ConsoleFinishes`, and the last
conjunct of `Fairness` in `Shell`): nobody forces the user to create a process or to
exit. `Execution` has weak fairness of its one thread, which never waits.

**Deadlock** is checked everywhere but in `builder_all`. The end of `main` stutters
(`Exited`), and so does the end of a program (`Rest`).

### Findings

`scheduler_loop`: `Process::SleepForTicks` overwrites any status, and a FOR goes on
with its body after an access violation. A process that has been terminated by
`READ` is turned to Sleeping by the `SLEEP` that follows, keeps its memory, and
executes the same command for ever, although "Process terminated." was logged.

`execution_self_add`: a faulting `GetVariable` returns the remembered value and the
ADD writes its sum regardless; the retry then adds again. `varA = 10 + 5 + 5`.
The same holds for every command that writes what it reads, and for a FOR of
PRINT: the iterations before the fault are printed again.

`shell_shared_id`: the id is read by both threads before either increments it. Two
processes share one page table; the first that ends releases it, and the other
is requeued for ever by `PrepareProcessForExecution`.

Other disagreements that the models have but no run is about:

- The registry loses a process when both threads append at once (`AppendToList`):
  it runs, but no list shows it, and exit does not terminate it. `CreatedWhole`
  and `ExitCompletes` therefore speak of histories in which creations did not overlap,
  and so does `ResumeShowsProcess`: with three processes the name of the lost one can be given
  to another, which then finds the screen taken, and `screen -r` shows the lost process.
- A name typed by the user that the generator uses later (`screen -s p02`): the
  second process of that name gets no screen (`FindScreen`). `CreatedWhole` promises a
  screen only if the user keeps off such names. A process named like the main console
  gets none either, and `screen -r` then shows the main console (`ResumeShowsProcess` leaves
  this out).
- `vmstat` may show more idle and active ticks than ticks, because
  `CPUTicker` does not initialise these two counters.
- With `data/config.txt` (16384 bytes in all, 32768 per process) each request of
  `scheduler-start` is refused and no process appears. `RollsInRange` says that this is the
  only kind of file for which it can happen. The file also has `delay-per-exec`,
  a name that no branch knows, and a frame size of 8, which becomes 16.
- A line inside a FOR that cannot be built is dropped silently, while outside it
  makes `screen -c` fail; a DECLARE with a word for a value ends the program.
- A program that WRITEs over a slot of its table, or gives up a command that writes
  there, and then SLEEPs by that variable may sleep although the variable is 0: a faulting attempt goes
  by the value remembered, and SLEEP 0 does not undo its nap. In the same way a FOR with a variable
  count may run its body in a faulting attempt as often as the old value says.
- In a FOR that READs one new variable and DECLAREs another, a READ that faults is passed
  over and the other variable gets the slot that the first would have had.
- A process that ends around midnight may get the time of one day and the date
  of the next.

## 5. Proofs

`PagingProofs` first shows that removing a set of frames keeps exactly
the other entries in order (`EvictionSelects`), for queues of every length.
The model writes the filter as a recursive function on positions; the proof is
an induction on the position, stated with a set of naturals.

It then proves `TypeOK`, `ResidencyConsistent`, `QueueExact` and
`NeverThrows` for all constants that satisfy the assumptions of `Paging`. None of
them is inductive by itself: that the queue's head exists when all frames are
taken needs `QueueExact`; that the frame evicted is the one its page's table
entry points to needs `ResidencyConsistent`; that a load keeps the queue sorted
needs that the frame clock bounds every load time. The inductive invariant is

    PagingInv == TypeOK /\ Good(pager) /\ ~pager.thrown
    Good(s)   == s \in PagerState /\ Consistent(s) /\ Ordered(s)

First come lemmas on what each operator changes (`PageOutFields`, `PageInFields`,
...), then that each keeps `Good` (`PageOutGood`, ..., `TouchBothGood`,
`ReleaseGood`), then one step per action (`NextPagingInv`).

The next part adds `NothingLeaks` to the invariant (`LeakInv`). The step that
needs both halves is an eviction: the page is stored for the process its frame
names, and that this process still has a page table follows from the page being
in that process's own map (`Consistent`). The file may keep lines of a process
when the rewrite on its release fails; they are harmless because its id is never
registered again.

The last part proves `Spec => ImplementsFlatMemory`: under the mapping
`Content` (frame, else RAM store, else zeros) `Init` implies `Flat!Init` and each
action is the flat memory's action of the same meaning. Loads and evictions keep
the content of every page (`SameContent`). The delicate case is a page unknown to
the RAM store: `LoadStoredPage` then consults the file, which might hold bytes the
process never wrote; `NothingLeaks` says that it holds nothing for a process with
a page table. A write changes one address only, because the mapping is one to one
(`Consistent`) and an address is determined by page and offset.

`ConfigProofs` proves for every file, of any length, that typed settings stay typed
line by line (`LineKeepsTyped`), that the normalisation makes settings that fit
(`NormalizedFits`) and with `ConfigInv` that

- the frame size divides the memory and the virtual space and there is a frame
  (`FramesAlwaysFillMemory`, which is what `Paging` assumes of its constants),
- ranges are in order (`RangesAlwaysInOrder`),
- the sizes the scheduler asks for are valid, within the range of the file and
  granted if the range is within the memory (`RollsAlwaysInRange`).

`ConfigInv` is stronger than these: it says what holds of settings while the file is
still read, where nothing fits yet, except that process sizes are valid at any time, which
is why `ParseConfigFile` never finds one to replace after the last line.

`ShellProofs` proves `StopTakesEffect` and `VmstatNeverOverstates` for any number of
processes and ticks. Neither is inductive. For the first, the clock that has passed
its test while generation was on still has `afterStop = 0`, and one that has not can
no longer pass it (`OneMoreAtMost`). For the second, each tick is counted once but in
a step after it (`TicksCounted`), and what has been read so far is behind the
counters, which only grow (`ReadsBehind`).

For the processes that are made, `ShellProofs` has two more invariants, for any names and
for any number of processes; the names of the generator are assumed to differ from each other
and from the main console's (`NamesAssumption`: they are `p` and a number).

`TypedInv` holds whatever the two threads do to each other. An id may be stored long after it
was read, so that ids stay in range is a sum: a thread that drafts a process has room
reserved for it, and one about to count still owes an increment (`CountersInRange`).

    Whole    == Booting /\ HasFirst /\ (~overlapped => WholeInv)
    WholeInv == OneAtATime /\ Numbered /\ Listed /\ NextIdFits /\ DraftsFit
                /\ MemoryKept /\ ScreensFit /\ SwitchFits /\ (UserKeepsOff => NamesDiffer)

While creations have not overlapped one thread at a time makes a process, the id of a
process is its position, the registry lists them in that order up to the one in hand, and
what the thread has read (its draft) is still true. A screen belongs to the first process of
its name, and every process but the one in hand has a screen under its name (`ScreensFit`).
That each name has a first process takes an induction, so it is carried along instead
(`HasFirst`). Together they give the screen that `screen -r` needs, though the table may
change between the test and the switch. Before `initialize` nothing is made (`Booting`). TLC
checked `Whole` with two processes, and with three and unlucky names of the user as long as
creations do not overlap, before it was proved.

`PagingProofs` also proves three more things on top of `PagingInv`.

- `EvictionInLoadOrder`: `EvictsOldestFirst`. A frame is taken from a process only when no
  frame is free; then the queue holds all of them (`QueueExact`), sorted by load time
  (`Ordered`), so its head is the oldest. An access to a word on two pages may load twice;
  load times only grow, so the two evictions compose.
- `StatisticsRight`: `PagingCounters`. Pages that go with their process are neither paged out nor
  resident; their number (`Lost`) changes only on a release, and is zero before the first.
- `RetriedAccessSettles`: `RetrySettles`. The page loaded last survives the next load if
  there are two frames, because it is at the tail of the queue and the head is another one.

`SchedulerProofs` is for any set of processes and cores, any programs over the four
effects, both algorithms, with and without spurious wake-ups. One invariant
(`SchedulerInv`) carries every safety property of `Scheduler`, none of which is inductive
alone. What it adds to them says that

- a worker's program counter tells whether it holds a process (`HeldMatches`), and that of
  the clock and the console whether they have one in hand (`AddingMatches`), so that a
  process is in one place: queued, held by one worker, being added, or ended;
- a process has a status that fits its place (`StatusAtWorker`, `StatusElsewhere`);
- under RR a worker about to execute has a command left in its slice (`SliceLeft`);
- the clock has ended before the workers are stopped, and they before the rest is
  finalized (`ShutdownOrder`).

`NoLostWakeup` is a count: workers on their way to the queue and notifications still to be
sent, less the length of the queue (`Slack`), do not fall below zero while a worker sleeps.
`TerminationIsFinal` needs `StatusFits`: no worker has a terminated process in hand at a
place that sets its status.

`ExecutionProofs` is for any program over `Code`, any number of slots, attempts and bytes.

    ExecutionInv == ThreadTyped /\ DataTyped /\ SlotsExact /\ StaleIsRetried

`StaleIsRetried` says that an operand resolved in an attempt without a fault has the
value of its variable in memory. While operands are resolved neither names nor memory
move, so values that were right stay right; the table knows each name at most once and at a
slot of its own (`SlotsExact`), without which the value found might belong to another one.

`ExecutionRefinementProofs` shows that `Execution` implements `Interpreter`
(`ExecutionImplementsInterpreter`), for any programs that can be repeated (`AllCanBeRepeated`:
`CanBeRepeated` of each), any number of slots, attempts and bytes, and faults in any place. The
assumption cannot be left out: the program of `execution_self_add`, whose ADD is not such a command,
ends with a sum that its text does not give.

`RunAll` is a loop, and a recursive definition says nothing until its equation is
known to have a solution. `RunAllEquation` shows that it has: the configurations that a run goes
through are the least set that contains its start and the step of each member (`Visited`), and
a run that reaches the end does so in one state only (`LoopReturns`). `PartsOf` does the same for
`Parts`, as a least set.

The idea is to follow the run without faults beside each attempt. `Run` is what a command goes
through in `Interpreter`; an attempt is at the same instruction as one of its configurations
(`Attempted`), since the counts of its FORs are literals. What the two states have in common
(`Beside`) is of three kinds:

- `Framed`, through any fault: what the command does not write is as before the command, and
  a sleep is asked for only if the text has one;
- `Along`: variables have been placed where the run places them, so that the same addresses
  are meant;
- `Right`, until the attempt faults: whatever no instruction still to do will set is already
  as in the run. At the end of an attempt without a fault nothing is left to do, so the states
  are equal.

A command that can be repeated uses nothing that it writes, so `Framed` gives every attempt
the operands of the first.

    RefinementInv == ExecutionInv /\ Running /\ BetweenCommands /\ BeforeAttempt
                     /\ DuringAttempt /\ TableRight

`DuringAttempt` is the above; `TableRight` says that the table remembers what the memory holds,
between commands that were not given up, which SLEEP needs. Then each step is one of `Interpreter`
or none: consuming a clear flag is `Execute`, consuming a set one after the last attempt is
`GiveUp`, stopping after a violation is `Violate`, and everything else stutters.

`BuilderProofs` is for texts of any length, lines nested to any depth and any limit. The
functions `Throws`, `CreateInstruction` and `Executable` recur on a body. The first and the last are
monotone, so the least and the greatest set that fits them solve their equations
(`ThrowsEquation`, `ExecutableEquation`). For `CreateInstruction`, solutions for lines nested
less than n deep exist for every n and agree where both are defined (`SolutionExists`,
`SolutionsAgree`); put together they are one for all lines (`CreateEquation`). Then
a line becomes an instruction exactly if it fits its format (`MadeInstruction`), and, if it does not
throw, one that can be executed, whatever is nested in it (`MadeExecutable`, by a least
counterexample). The invariant (`BuilderInv`) says that the commands are the instructions of the
lines read so far, none of which was null or threw.

`LastLineAlwaysWins` in `ConfigProofs` shows `LastLineWins`. `LastSaid` chooses the last of a
set of lines; the invariant (`Follows`) has for each setting either the default and no line read
so far that sets it, or a line that set it and none after it.

`ReportProofs` is for any number of processes and any increasing moments (`ReportInv`, which
TLC checked first). Texts are those of the moments at which the clock was read (`Stamped`) and turn
back into the hours they came from (`HourThereAndBack`); a key with a date was made from
texts that are final (`KeysFinal`), so the sort compares what is shown; each pass has in its
list those it has come to and no others of the steady ones (`FirstPass`, `SecondPass`); and sorting
neither loses nor adds a process (`RearrangedList`).

Only model-checked:

- Liveness (`EveryProcessTerminates`, `ShutdownCompletes`, `ProgramFinishes`,
  `ExitCompletes`), because the prover has no support for fairness and ENABLED.
- `ImplementsInterpreter` for programs that cannot be repeated. Whether it holds depends on
  the program: for `Overwriting` it does, and `execution_self_add` has one for which it does not.
- The expected violations: each is a counterexample, which one instance shows.

## 6. Not modelled

- Splitting text: `SplitBy`, `ParseInstruction`, tokens of a command line.
- The random instructions of a generated process: any program may be given to
  `Execution`.
- Output: logs, layout, the memory figures of `process-smi` and `vmstat`, which are sums
  over getters. `PROJECT.json` says which component is modelled in part.
- Operations without a caller: `Process::Pause`, `Resume` and `ExecuteCommands`,
  `Remove...` and `Clear` of `ProcessList`, the overloads of `SymbolTable` that take an
  address, `DummyProcessGenerator::Reset` (so `createdScreenNames` is never used).
- A crash with the swap file left behind: `initialize` resets it.
