------------------------------- MODULE Config --------------------------------
(***************************************************************************)
(* AppConfig: reading config.txt, putting right what does not fit, and     *)
(* what that means for the processes created afterwards.  A line is a name *)
(* and a value, which is a number or a word; comments, blank lines and     *)
(* lines of one word are lines of a name that no branch knows.             *)
(***************************************************************************)
EXTENDS Integers, Sequences

CONSTANT Files      \* the texts that config.txt may have

Keys == {"num-cpu", "quantum-cycles", "batch-process-freq", "delays-per-exec",
         "ticker-delay-ms", "min-ins", "max-ins", "max-overall-mem", "mem-per-frame",
         "min-mem-per-proc", "max-mem-per-proc"}

Line == [name : STRING, numeric : BOOLEAN, number : Int, word : STRING]

Numeric(name, n) == [name |-> name, numeric |-> TRUE, number |-> n, word |-> ""]
Worded(name, w) == [name |-> name, numeric |-> FALSE, number |-> 0, word |-> w]

ASSUME FilesAssumption == Files \subseteq Seq(Line)

VARIABLES
    file,       \* the text of config.txt
    at,         \* the lines read so far
    phase,      \* "open", "reading", "loaded"
    config,     \* the numbers
    algorithm,
    request,    \* the size last asked for, 0 before; by whom; what came of it
    requester,
    accepted

vars == <<file, at, phase, config, algorithm, request, requester, accepted>>

DefaultOf(k) ==
    CASE k = "num-cpu" -> 4
      [] k = "quantum-cycles" -> 5
      [] k = "batch-process-freq" -> 1
      [] k = "delays-per-exec" -> 2
      [] k = "ticker-delay-ms" -> 33
      [] k = "min-ins" -> 25
      [] k = "max-ins" -> 100
      [] k = "max-overall-mem" -> 16384
      [] k = "mem-per-frame" -> 16
      [] k = "min-mem-per-proc" -> 64
      [] k = "max-mem-per-proc" -> 4096

Default == [k \in Keys |-> DefaultOf(k)]

\* Powers of two from MIN_PROCESS_MEMORY to MAX_PROCESS_MEMORY, what the bit
\* trick of IsValidProcessMemorySize and IsValidPowerOfTwo accepts.
Sizes == {64, 128, 256, 512, 1024, 2048, 4096, 8192, 16384, 32768, 65536}
VirtualBytes == 65536

-----------------------------------------------------------------------------
(***************************************************************************)
(* One line.                                                               *)
(***************************************************************************)
\* Fault: the maximum keeps its value.
TargetsOne(name) == IF name = "mem-per-proc" THEN {"min-mem-per-proc"} ELSE {name} \cap Keys

\* The settings a line is about.
Targets(name) ==
    IF name = "mem-per-proc" THEN {"min-mem-per-proc", "max-mem-per-proc"} ELSE {name} \cap Keys

Accepts(k, n) ==
    CASE k \in {"min-mem-per-proc", "max-mem-per-proc"} -> n \in Sizes
      [] k = "delays-per-exec" -> n >= 0
      [] OTHER -> n > 0

\* Does the line set k?
Sets(line, k) == line.numeric /\ k \in Targets(line.name) /\ Accepts(k, line.number)

WithLine(c, line) == [k \in Keys |-> IF Sets(line, k) THEN line.number ELSE c[k]]

Algorithms == {"fcfs", "rr"}

-----------------------------------------------------------------------------
(***************************************************************************)
(* After the last line.                                                    *)
(***************************************************************************)
InOrder(c, low, high) ==
    IF c[low] > c[high] THEN [c EXCEPT ![low] = c[high], ![high] = c[low]] ELSE c

OrSize(n, default) == IF n \in Sizes THEN n ELSE default

\* Fault: any positive frame that fits is taken.
FrameAsGiven(frame, total) == IF frame > total THEN Default["mem-per-frame"] ELSE frame

\* A frame that is not a valid size, or exceeds the memory, becomes the default.
FrameFor(frame, total) ==
    LET f == OrSize(frame, Default["mem-per-frame"])
    IN  IF f > total THEN Default["mem-per-frame"] ELSE f

\* A remainder is cut off.
NormalizePhysicalMemoryConfig(c) ==
    LET given == OrSize(c["max-overall-mem"], Default["max-overall-mem"])
        frame == FrameFor(c["mem-per-frame"], given)
        total == (given \div frame) * frame
    IN  IF total < frame
        THEN [c EXCEPT !["max-overall-mem"] = Default["max-overall-mem"],
                       !["mem-per-frame"] = Default["mem-per-frame"]]
        ELSE [c EXCEPT !["max-overall-mem"] = total, !["mem-per-frame"] = frame]

WithValidSizes(c) ==
    [c EXCEPT !["min-mem-per-proc"] = OrSize(@, Default["min-mem-per-proc"]),
              !["max-mem-per-proc"] = OrSize(@, Default["max-mem-per-proc"])]

Normalized(c) ==
    LET ins == InOrder(c, "min-ins", "max-ins")
        mem == WithValidSizes(InOrder(ins, "min-mem-per-proc", "max-mem-per-proc"))
    IN  NormalizePhysicalMemoryConfig(InOrder(mem, "min-mem-per-proc", "max-mem-per-proc"))

\* Fault: the lower bound is not looked at.
RollSizesBelow(c) == {s \in Sizes : s <= c["max-mem-per-proc"]}

\* What RollSchedulerProcessMemory chooses from; never empty.
RollSizes(c) ==
    LET inRange == {s \in Sizes : c["min-mem-per-proc"] <= s /\ s <= c["max-mem-per-proc"]}
    IN  IF inRange = {} THEN {Default["min-mem-per-proc"]} ELSE inRange

IsValidProcessMemoryAllocation(c, size) == size > 0 /\ size <= c["max-overall-mem"]

-----------------------------------------------------------------------------
Init ==
    /\ file \in Files
    /\ at = 0
    /\ phase = "open"
    /\ config = Default
    /\ algorithm = "fcfs"
    /\ request = 0
    /\ requester = "nobody"
    /\ accepted = FALSE

\* Without a file the defaults are used as they are.
OpenFails ==
    /\ phase = "open"
    /\ phase' = "loaded"
    /\ UNCHANGED <<file, at, config, algorithm, request, requester, accepted>>

OpenFile ==
    /\ phase = "open"
    /\ phase' = "reading"
    /\ UNCHANGED <<file, at, config, algorithm, request, requester, accepted>>

ReadLine ==
    /\ phase = "reading"
    /\ at < Len(file)
    /\ at' = at + 1
    /\ config' = WithLine(config, file[at'])
    /\ algorithm' = IF file[at'].name = "scheduler" /\ file[at'].word \in Algorithms
                    THEN file[at'].word ELSE algorithm
    /\ UNCHANGED <<file, phase, request, requester, accepted>>

EndOfFile ==
    /\ phase = "reading"
    /\ at = Len(file)
    /\ phase' = "loaded"
    /\ config' = Normalized(config)
    /\ UNCHANGED <<file, at, algorithm, request, requester, accepted>>

Ask(who, size) ==
    /\ phase = "loaded"
    /\ request' = size
    /\ requester' = who
    /\ accepted' = IsValidProcessMemoryAllocation(config, size)
    /\ UNCHANGED <<file, at, phase, config, algorithm>>

\* A tick of scheduler-start, and screen -s or -c with a size.
GenerateOne == \E size \in RollSizes(config) : Ask("scheduler", size)
CreateScreen == \E size \in Sizes : Ask("user", size)

Next == OpenFails \/ OpenFile \/ ReadLine \/ EndOfFile \/ GenerateOne \/ CreateScreen

Spec == Init /\ [][Next]_vars

-----------------------------------------------------------------------------
\* Every setting is a number its users can work with: positive, except for the
\* delay, which may be zero.
TypeOK ==
    /\ config \in [Keys -> Nat]
    /\ \A k \in Keys \ {"delays-per-exec"} : config[k] > 0
    /\ algorithm \in Algorithms
    /\ at \in 0..Len(file)
    /\ phase \in {"open", "reading", "loaded"}

Loaded == phase = "loaded"

\* MemoryManager divides its memory into frames and DemandPager the virtual
\* memory of a process into pages: both leave no remainder, and there is a frame
\* at least, whatever the file says.
FramesFillMemory ==
    Loaded =>
        /\ config["mem-per-frame"] \in 1..config["max-overall-mem"]
        /\ config["max-overall-mem"] % config["mem-per-frame"] = 0
        /\ VirtualBytes % config["mem-per-frame"] = 0

\* uniform_int_distribution needs its bounds in order: GenerateOne uses min-ins
\* and max-ins, RollSchedulerProcessMemory the sizes.
RangesInOrder ==
    Loaded =>
        /\ config["min-ins"] <= config["max-ins"]
        /\ config["min-mem-per-proc"] <= config["max-mem-per-proc"]

\* A process the scheduler makes has a size within the range of the file that fits
\* the address space, so the fallback for an empty choice is never used; and it
\* is refused only if the file allows a process more memory than there is.
RollsInRange ==
    requester = "scheduler" =>
        /\ config["min-mem-per-proc"] <= request /\ request <= config["max-mem-per-proc"]
        /\ request \in Sizes
        /\ ~accepted => config["max-mem-per-proc"] > config["max-overall-mem"]

\* What the file said last about k, among the lines that were accepted.
LastSaid(k) ==
    LET about == {i \in DOMAIN file :
            /\ file[i].numeric
            /\ \/ file[i].name = k
               \/ file[i].name = "mem-per-proc" /\ k \in {"min-mem-per-proc", "max-mem-per-proc"}
            /\ Accepts(k, file[i].number)}
    IN  IF about = {} THEN Default[k]
        ELSE file[CHOOSE i \in about : \A j \in about : j <= i].number

\* The last valid line about a setting is the one that counts, with mem-per-proc a
\* line about both bounds; a range may have been turned round, and a memory of a
\* valid size is not given up for a frame that does not fit it.
LastLineWins ==
    Loaded /\ at = Len(file) /\ at > 0 =>
        /\ \A k \in {"num-cpu", "quantum-cycles", "batch-process-freq", "delays-per-exec",
                     "ticker-delay-ms"} : config[k] = LastSaid(k)
        /\ {config["min-ins"], config["max-ins"]} = {LastSaid("min-ins"), LastSaid("max-ins")}
        /\ {config["min-mem-per-proc"], config["max-mem-per-proc"]} =
               {LastSaid("min-mem-per-proc"), LastSaid("max-mem-per-proc")}
        /\ config["max-overall-mem"] = OrSize(LastSaid("max-overall-mem"), Default["max-overall-mem"])
=============================================================================
