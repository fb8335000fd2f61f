---------------------------- MODULE ConfigProofs -----------------------------
(***************************************************************************)
(* Whatever config.txt says, the settings fit each other once loaded.  The *)
(* inductive invariant types the settings while the lines are read, and    *)
(* says what Normalized makes of them at the end of the file.              *)
(***************************************************************************)
EXTENDS Config, TLAPS

\* What every line leaves: numbers, positive where they have to be, and process
\* sizes that are valid at any time.
Typed(c) ==
    /\ c \in [Keys -> Nat]
    /\ \A k \in Keys \ {"delays-per-exec"} : c[k] > 0
    /\ c["min-mem-per-proc"] \in Sizes
    /\ c["max-mem-per-proc"] \in Sizes

\* What the settings are once loaded.
Fits(c) ==
    /\ c["mem-per-frame"] \in Sizes \cup {16}
    /\ c["max-overall-mem"] \in Sizes
    /\ c["mem-per-frame"] <= c["max-overall-mem"]
    /\ c["min-ins"] <= c["max-ins"]
    /\ c["min-mem-per-proc"] <= c["max-mem-per-proc"]

ConfigInv ==
    /\ file \in Seq(Line)
    /\ at \in 0..Len(file)
    /\ phase \in {"open", "reading", "loaded"}
    /\ phase = "open" => config = Default
    /\ algorithm \in Algorithms
    /\ Typed(config)
    /\ phase = "loaded" => Fits(config)
    /\ requester = "scheduler" =>
          /\ phase = "loaded" /\ request \in RollSizes(config)
          /\ accepted = IsValidProcessMemoryAllocation(config, request)

\* The defaults fit.
LEMMA DefaultFits == Typed(Default) /\ Fits(Default)
<1>1. \A k \in Keys : DefaultOf(k) \in Nat \ {0}
  BY DEF DefaultOf, Keys
<1>2. Default \in [Keys -> Nat] /\ \A k \in Keys : Default[k] > 0
  BY <1>1 DEF Default
<1>3. /\ Default["min-mem-per-proc"] = 64 /\ Default["max-mem-per-proc"] = 4096
      /\ Default["mem-per-frame"] = 16 /\ Default["max-overall-mem"] = 16384
      /\ Default["min-ins"] = 25 /\ Default["max-ins"] = 100
  BY DEF Default, DefaultOf, Keys
<1> QED
  BY <1>2, <1>3 DEF Typed, Fits, Sizes

\* Of two powers of two the smaller divides the larger, and both divide VirtualBytes.
LEMMA SizesDivide ==
  ASSUME NEW f \in Sizes \cup {16}, NEW t \in Sizes, f <= t
  PROVE  t % f = 0 /\ VirtualBytes % f = 0 /\ (t \div f) * f = t
<1>1. f = 16 \/ f \in Sizes
  OBVIOUS
<1>2. CASE t \in {64, 128, 256, 512}
  BY <1>1, <1>2 DEF Sizes, VirtualBytes
<1>3. CASE t \in {1024, 2048, 4096}
  BY <1>1, <1>3 DEF Sizes, VirtualBytes
<1>4. CASE t \in {8192, 16384}
  BY <1>1, <1>4 DEF Sizes, VirtualBytes
<1>5. CASE t \in {32768, 65536}
  BY <1>1, <1>5 DEF Sizes, VirtualBytes
<1> QED
  BY <1>2, <1>3, <1>4, <1>5 DEF Sizes

\* A line keeps the settings typed.
LEMMA LineKeepsTyped ==
  ASSUME NEW c, Typed(c), NEW line \in Line
  PROVE  Typed(WithLine(c, line))
<1> DEFINE d == WithLine(c, line)
<1>1. \A k \in Keys : d[k] = IF Sets(line, k) THEN line.number ELSE c[k]
  BY DEF WithLine
<1>2. \A k \in Keys : Sets(line, k) => line.number \in Nat /\ Accepts(k, line.number)
  <2> SUFFICES ASSUME NEW k \in Keys, Sets(line, k)
               PROVE  line.number \in Nat /\ Accepts(k, line.number)
    OBVIOUS
  <2>1. line.number \in Int /\ Accepts(k, line.number)
    BY DEF Line, Sets
  <2>2. CASE k \in {"min-mem-per-proc", "max-mem-per-proc"}
    BY <2>1, <2>2 DEF Accepts, Sizes
  <2>3. CASE k \notin {"min-mem-per-proc", "max-mem-per-proc"}
    BY <2>1, <2>3 DEF Accepts
  <2> QED
    BY <2>2, <2>3
<1>3. d \in [Keys -> Nat]
  BY <1>1, <1>2 DEF Typed, WithLine
<1>4. \A k \in Keys \ {"delays-per-exec"} : d[k] > 0
  <2> SUFFICES ASSUME NEW k \in Keys \ {"delays-per-exec"}
               PROVE  d[k] > 0
    OBVIOUS
  <2>1. CASE Sets(line, k)
    BY <2>1, <1>1, <1>2 DEF Accepts, Sizes
  <2>2. CASE ~Sets(line, k)
    BY <2>2, <1>1 DEF Typed
  <2> QED
    BY <2>1, <2>2
<1>5. \A k \in {"min-mem-per-proc", "max-mem-per-proc"} : k \in Keys /\ d[k] \in Sizes
  BY <1>1, <1>2 DEF Typed, Accepts, Keys
<1> QED
  BY <1>3, <1>4, <1>5 DEF Typed

\* Turning the range of instructions round.
LEMMA TurnInstructions ==
  ASSUME NEW c, Typed(c)
  PROVE  LET d == InOrder(c, "min-ins", "max-ins")
         IN  /\ Typed(d) /\ d["min-ins"] <= d["max-ins"]
<1> DEFINE low == "min-ins"
           high == "max-ins"
           d == InOrder(c, low, high)
<1>1. /\ low \in Keys \ {"delays-per-exec"} /\ high \in Keys \ {"delays-per-exec"}
      /\ \A k \in Keys : c[k] \in Nat
  BY DEF Keys, Typed
<1>2. CASE c[low] > c[high]
  <2>1. d = [c EXCEPT ![low] = c[high], ![high] = c[low]]
    BY <1>2 DEF InOrder
  <2>2. \A k \in Keys : d[k] = IF k = low THEN c[high] ELSE IF k = high THEN c[low] ELSE c[k]
    BY <2>1, <1>1 DEF Typed
  <2>3. d \in [Keys -> Nat]
    BY <2>1, <1>1 DEF Typed
  <2> HIDE DEF d
  <2>4. Typed(d)
    BY <2>2, <2>3, <1>1 DEF Typed, Keys
  <2>5. d[low] <= d[high]
    BY <2>2, <1>1, <1>2
  <2> QED
    BY <2>4, <2>5, <2>2 DEF d, Keys
<1>3. CASE ~(c[low] > c[high])
  <2>1. d = c
    BY <1>3 DEF InOrder
  <2> HIDE DEF d
  <2>2. d[low] <= d[high]
    BY <2>1, <1>1, <1>3
  <2> QED
    BY <2>1, <2>2 DEF d
<1> QED
  BY <1>2, <1>3

\* Turning the range of sizes round.
LEMMA TurnSizes ==
  ASSUME NEW c, Typed(c)
  PROVE  LET d == InOrder(c, "min-mem-per-proc", "max-mem-per-proc")
         IN  /\ Typed(d) /\ d["min-mem-per-proc"] <= d["max-mem-per-proc"]
             /\ d["min-ins"] = c["min-ins"] /\ d["max-ins"] = c["max-ins"]
<1> DEFINE low == "min-mem-per-proc"
           high == "max-mem-per-proc"
           d == InOrder(c, low, high)
<1>1. /\ low \in Keys \ {"delays-per-exec"} /\ high \in Keys \ {"delays-per-exec"}
      /\ \A k \in Keys : c[k] \in Nat
  BY DEF Keys, Typed
<1>2. CASE c[low] > c[high]
  <2>1. d = [c EXCEPT ![low] = c[high], ![high] = c[low]]
    BY <1>2 DEF InOrder
  <2>2. \A k \in Keys : d[k] = IF k = low THEN c[high] ELSE IF k = high THEN c[low] ELSE c[k]
    BY <2>1, <1>1 DEF Typed
  <2>3. d \in [Keys -> Nat]
    BY <2>1, <1>1 DEF Typed
  <2> HIDE DEF d
  <2>4. Typed(d)
    BY <2>2, <2>3, <1>1 DEF Typed, Keys
  <2>5. d[low] <= d[high]
    BY <2>2, <1>1, <1>2
  <2> QED
    BY <2>4, <2>5, <2>2 DEF d, Keys
<1>3. CASE ~(c[low] > c[high])
  <2>1. d = c
    BY <1>3 DEF InOrder
  <2> HIDE DEF d
  <2>2. d[low] <= d[high]
    BY <2>1, <1>1, <1>3
  <2> QED
    BY <2>1, <2>2 DEF d
<1> QED
  BY <1>2, <1>3

\* The settings that nothing but a line of the file changes.
Plain == {"num-cpu", "quantum-cycles", "batch-process-freq", "delays-per-exec",
          "ticker-delay-ms"}

\* What the end of the file leaves of the settings c that were read: the plain
\* ones, the bounds of both ranges in some order, and a memory of a valid size.
Keeps(c, d) ==
    /\ \A k \in Plain : d[k] = c[k]
    /\ {d["min-ins"], d["max-ins"]} = {c["min-ins"], c["max-ins"]}
    /\ {d["min-mem-per-proc"], d["max-mem-per-proc"]} =
           {c["min-mem-per-proc"], c["max-mem-per-proc"]}
    /\ d["max-overall-mem"] = OrSize(c["max-overall-mem"], Default["max-overall-mem"])

Exchanged(c, d, low, high) ==
    /\ {d[low], d[high]} = {c[low], c[high]}
    /\ \A k \in Keys \ {low, high} : d[k] = c[k]

\* Turning a range round exchanges its bounds and touches nothing else.
LEMMA TurnExchanges ==
  ASSUME NEW c, Typed(c), NEW low \in Keys, NEW high \in Keys, low # high,
         NEW d, d = InOrder(c, low, high)
  PROVE  Exchanged(c, d, low, high)
<1>1. c \in [Keys -> Nat]
  BY DEF Typed
<1>2. CASE c[low] > c[high]
  <2>1. d = [c EXCEPT ![low] = c[high], ![high] = c[low]]
    BY <1>2 DEF InOrder
  <2> QED
    BY <2>1, <1>1 DEF Exchanged
<1>3. CASE ~(c[low] > c[high])
  BY <1>3 DEF InOrder, Exchanged
<1> QED
  BY <1>2, <1>3

\* At the end of the file typed settings become settings that fit.
LEMMA NormalizedFits ==
  ASSUME NEW c, Typed(c)
  PROVE  /\ Typed(Normalized(c)) /\ Fits(Normalized(c))
         /\ Keeps(c, Normalized(c))
<1> DEFINE ins == InOrder(c, "min-ins", "max-ins")
           turned == InOrder(ins, "min-mem-per-proc", "max-mem-per-proc")
           mem == WithValidSizes(turned)
           again == InOrder(mem, "min-mem-per-proc", "max-mem-per-proc")
<1>k. /\ "min-ins" \in Keys /\ "max-ins" \in Keys
      /\ "min-mem-per-proc" \in Keys /\ "max-mem-per-proc" \in Keys
      /\ "max-overall-mem" \in Keys /\ "mem-per-frame" \in Keys
  BY DEF Keys
<1>1. Typed(ins) /\ ins["min-ins"] <= ins["max-ins"]
  BY TurnInstructions
<1>2. Typed(turned) /\ turned["min-ins"] <= turned["max-ins"]
  <2> HIDE DEF ins
  <2> QED
    BY <1>1, TurnSizes
<1>3. mem = turned
  <2> HIDE DEF turned
  <2> QED
    BY <1>2, <1>k DEF WithValidSizes, OrSize, Typed
<1>4. /\ Typed(again)
      /\ again["min-mem-per-proc"] <= again["max-mem-per-proc"]
      /\ again["min-ins"] <= again["max-ins"]
  <2> HIDE DEF turned, mem
  <2>1. Typed(mem) /\ mem["min-ins"] <= mem["max-ins"]
    BY <1>2, <1>3
  <2> QED
    BY <2>1, TurnSizes
<1>11. /\ \A k \in Plain \cup {"max-overall-mem"} : again[k] = c[k]
       /\ {again["min-ins"], again["max-ins"]} = {c["min-ins"], c["max-ins"]}
       /\ {again["min-mem-per-proc"], again["max-mem-per-proc"]} =
              {c["min-mem-per-proc"], c["max-mem-per-proc"]}
  <2>1. /\ ins = InOrder(c, "min-ins", "max-ins")
        /\ turned = InOrder(ins, "min-mem-per-proc", "max-mem-per-proc")
        /\ again = InOrder(mem, "min-mem-per-proc", "max-mem-per-proc")
    OBVIOUS
  <2>2. Plain \subseteq Keys
    BY DEF Plain, Keys
  <2>9. "min-ins" # "max-ins" /\ "min-mem-per-proc" # "max-mem-per-proc"
    OBVIOUS
  <2> HIDE DEF ins, turned, mem, again
  <2>10. again = InOrder(turned, "min-mem-per-proc", "max-mem-per-proc")
    BY <2>1, <1>3
  <2>3. Exchanged(c, ins, "min-ins", "max-ins")
    BY <2>1, <2>9, <1>k, TurnExchanges
  <2>4. Exchanged(ins, turned, "min-mem-per-proc", "max-mem-per-proc")
    BY <2>1, <2>9, <1>1, <1>k, TurnExchanges
  <2>5. Exchanged(turned, again, "min-mem-per-proc", "max-mem-per-proc")
    BY <2>10, <2>9, <1>2, <1>k, TurnExchanges
  <2>6. ASSUME NEW k \in Plain \cup {"max-overall-mem"} PROVE again[k] = c[k]
    <3>1. k \in Keys \ {"min-ins", "max-ins", "min-mem-per-proc", "max-mem-per-proc"}
      BY <2>2, <2>6, <1>k DEF Plain
    <3> QED
      BY <3>1, <2>3, <2>4, <2>5 DEF Exchanged
  <2>7. again["min-ins"] = ins["min-ins"] /\ again["max-ins"] = ins["max-ins"]
    BY <2>4, <2>5, <1>k DEF Exchanged
  <2>8. /\ ins["min-mem-per-proc"] = c["min-mem-per-proc"]
        /\ ins["max-mem-per-proc"] = c["max-mem-per-proc"]
    BY <2>3, <1>k DEF Exchanged
  <2> QED
    BY <2>3, <2>4, <2>5, <2>6, <2>7, <2>8 DEF Exchanged
<1>5. Normalized(c) = NormalizePhysicalMemoryConfig(again)
  BY DEF Normalized
<1> HIDE DEF again
<1> DEFINE given == OrSize(again["max-overall-mem"], Default["max-overall-mem"])
           frame == FrameFor(again["mem-per-frame"], given)
<1>6. given \in Sizes
  BY DefaultFits DEF OrSize, Fits
<1>7. frame \in Sizes \cup {16} /\ frame <= given
  <2>1. Default["mem-per-frame"] = 16
    BY DEF Default, DefaultOf, Keys
  <2>2. 16 <= given
    BY <1>6 DEF Sizes
  <2>3. given \in Int /\ \A s \in Sizes \cup {16} : s \in Int
    BY <1>6 DEF Sizes
  <2> HIDE DEF given
  <2> QED
    BY <2>1, <2>2, <2>3 DEF FrameFor, OrSize
<1> HIDE DEF given, frame
<1>8. (given \div frame) * frame = given
  BY <1>6, <1>7, SizesDivide
<1>9. Normalized(c) = [again EXCEPT !["max-overall-mem"] = given, !["mem-per-frame"] = frame]
  <2>1. ~(given < frame)
    BY <1>6, <1>7 DEF Sizes
  <2> QED
    BY <1>5, <1>8, <2>1 DEF NormalizePhysicalMemoryConfig, given, frame
<1>10. given \in Nat \ {0} /\ frame \in Nat \ {0}
  BY <1>6, <1>7 DEF Sizes
<1>12. Typed(Normalized(c)) /\ Fits(Normalized(c))
  BY <1>4, <1>6, <1>7, <1>9, <1>10, <1>k DEF Typed, Fits
<1>13. Keeps(c, Normalized(c))
  <2>1. again \in [Keys -> Nat] /\ Plain \subseteq Keys
    BY <1>4 DEF Typed, Plain, Keys
  <2>2. /\ \A k \in Keys \ {"max-overall-mem", "mem-per-frame"} : Normalized(c)[k] = again[k]
        /\ Normalized(c)["max-overall-mem"] = given
    BY <2>1, <1>9, <1>k
  <2>3. given = OrSize(c["max-overall-mem"], Default["max-overall-mem"])
    BY <1>11 DEF given
  <2>4. ASSUME NEW k \in Plain PROVE Normalized(c)[k] = c[k]
    <3>1. k \in Keys \ {"max-overall-mem", "mem-per-frame"}
      BY <2>1, <2>4 DEF Plain
    <3> QED
      BY <3>1, <2>2, <1>11
  <2>5. /\ Normalized(c)["min-ins"] = again["min-ins"]
        /\ Normalized(c)["max-ins"] = again["max-ins"]
        /\ Normalized(c)["min-mem-per-proc"] = again["min-mem-per-proc"]
        /\ Normalized(c)["max-mem-per-proc"] = again["max-mem-per-proc"]
    BY <2>2, <1>k
  <2> QED
    BY <2>2, <2>3, <2>4, <2>5, <1>11 DEF Keeps
<1> QED
  BY <1>12, <1>13

\* The inductive step, one action at a time.
LEMMA NextConfigInv == ConfigInv /\ [Next]_vars => ConfigInv'
<1> SUFFICES ASSUME ConfigInv, [Next]_vars
             PROVE  ConfigInv'
  OBVIOUS
<1>1. CASE OpenFails
  BY <1>1, DefaultFits DEF ConfigInv, OpenFails
<1>2. CASE OpenFile
  BY <1>2 DEF ConfigInv, OpenFile
<1>3. CASE ReadLine
  <2>1. at' \in 1..Len(file) /\ file[at'] \in Line
    BY <1>3 DEF ConfigInv, ReadLine
  <2>2. Typed(config')
    BY <1>3, <2>1, LineKeepsTyped DEF ConfigInv, ReadLine
  <2>3. algorithm' \in Algorithms
    BY <1>3 DEF ConfigInv, ReadLine
  <2> QED
    BY <1>3, <2>1, <2>2, <2>3 DEF ConfigInv, ReadLine
<1>4. CASE EndOfFile
  <2>1. Typed(config') /\ Fits(config')
    BY <1>4, NormalizedFits DEF ConfigInv, EndOfFile
  <2> QED
    BY <1>4, <2>1 DEF ConfigInv, EndOfFile
<1>5. CASE GenerateOne
  BY <1>5 DEF ConfigInv, GenerateOne, Ask
<1>6. CASE CreateScreen
  BY <1>6 DEF ConfigInv, CreateScreen, Ask
<1>7. CASE UNCHANGED vars
  BY <1>7 DEF ConfigInv, vars
<1> QED
  BY <1>1, <1>2, <1>3, <1>4, <1>5, <1>6, <1>7 DEF Next

\* ConfigInv holds in every reachable state.
THEOREM SettingsAlwaysFit == Spec => []ConfigInv
<1>1. Init => ConfigInv
  BY FilesAssumption, DefaultFits DEF Init, ConfigInv, Algorithms
<1> QED
  BY <1>1, NextConfigInv, PTL DEF Spec

\* The frame size that reaches MemoryManager divides the memory and the virtual
\* memory of a process for every config.txt.
THEOREM FramesAlwaysFillMemory == Spec => []FramesFillMemory
<1>1. ConfigInv => FramesFillMemory
  <2> SUFFICES ASSUME ConfigInv, Loaded PROVE
          /\ config["mem-per-frame"] \in 1..config["max-overall-mem"]
          /\ config["max-overall-mem"] % config["mem-per-frame"] = 0
          /\ VirtualBytes % config["mem-per-frame"] = 0
    BY DEF FramesFillMemory
  <2>1. Fits(config)
    BY DEF ConfigInv, Loaded
  <2>2. config["mem-per-frame"] \in Nat \ {0} /\ config["max-overall-mem"] \in Nat
    BY <2>1 DEF Fits, Sizes
  <2>3. /\ config["max-overall-mem"] % config["mem-per-frame"] = 0
        /\ VirtualBytes % config["mem-per-frame"] = 0
    BY <2>1, SizesDivide DEF Fits
  <2> QED
    BY <2>1, <2>2, <2>3 DEF Fits
<1> QED
  BY <1>1, SettingsAlwaysFit, PTL

\* Both ranges random numbers are drawn from are in order for every config.txt.
THEOREM RangesAlwaysInOrder == Spec => []RangesInOrder
<1>1. ConfigInv => RangesInOrder
  BY DEF ConfigInv, RangesInOrder, Loaded, Fits
<1> QED
  BY <1>1, SettingsAlwaysFit, PTL

\* The scheduler never makes a process of a size outside the range of the file, so
\* that the fallback in BuildValidProcessMemorySizes is never used, and is only
\* refused memory if the file lets a process have more than there is.
THEOREM RollsAlwaysInRange == Spec => []RollsInRange
<1>1. ConfigInv => RollsInRange
  <2> SUFFICES ASSUME ConfigInv, requester = "scheduler" PROVE
          /\ config["min-mem-per-proc"] <= request /\ request <= config["max-mem-per-proc"]
          /\ request \in Sizes
          /\ ~accepted => config["max-mem-per-proc"] > config["max-overall-mem"]
    BY DEF RollsInRange
  <2>1. /\ Fits(config) /\ Typed(config) /\ request \in RollSizes(config)
        /\ accepted = IsValidProcessMemoryAllocation(config, request)
    BY DEF ConfigInv
  <2>2. config["min-mem-per-proc"] \in {s \in Sizes : /\ config["min-mem-per-proc"] <= s
                                                     /\ s <= config["max-mem-per-proc"]}
    BY <2>1 DEF Fits, Typed, Sizes
  <2>3. /\ config["min-mem-per-proc"] <= request /\ request <= config["max-mem-per-proc"]
        /\ request \in Sizes
    BY <2>1, <2>2 DEF RollSizes
  <2>4. ASSUME ~accepted PROVE config["max-mem-per-proc"] > config["max-overall-mem"]
    <3>1. request > 0 /\ request \in Nat
      BY <2>3 DEF Sizes
    <3>2. config["max-mem-per-proc"] \in Nat /\ config["max-overall-mem"] \in Nat
      BY <2>1 DEF Fits, Typed, Sizes, Keys
    <3>3. ~(request <= config["max-overall-mem"])
      BY <2>1, <2>4, <3>1 DEF IsValidProcessMemoryAllocation
    <3> QED
      BY <2>3, <3>1, <3>2, <3>3
  <2> QED
    BY <2>3, <2>4
<1> QED
  BY <1>1, SettingsAlwaysFit, PTL

-----------------------------------------------------------------------------
\* Among the first n lines none sets k, and c has its default, or one of them sets
\* it to what c has and none after it does.
Follows(c, n, k) ==
    \/ c[k] = Default[k] /\ \A i \in 1..n : ~Sets(file[i], k)
    \/ \E i \in 1..n : /\ Sets(file[i], k) /\ c[k] = file[i].number
                       /\ \A j \in 1..n : i < j => ~Sets(file[j], k)

\* The part of the file that has been read is what the settings say.
FollowsFile ==
    /\ phase = "open" => at = 0
    /\ phase = "reading" => \A k \in Keys : Follows(config, at, k)

\* One more line.
LEMMA LineFollows ==
  ASSUME NEW n \in Nat, NEW c, NEW k \in Keys, Follows(c, n, k)
  PROVE  Follows(WithLine(c, file[n + 1]), n + 1, k)
<1> DEFINE d == WithLine(c, file[n + 1])
<1>1. d[k] = IF Sets(file[n + 1], k) THEN file[n + 1].number ELSE c[k]
  BY DEF WithLine
<1>2. 1..(n + 1) = (1..n) \cup {n + 1} /\ \A i \in 1..n : i < n + 1
  OBVIOUS
<1> HIDE DEF d
<1>3. CASE Sets(file[n + 1], k)
  <2>1. /\ n + 1 \in 1..(n + 1) /\ d[k] = file[n + 1].number
        /\ \A j \in 1..(n + 1) : ~(n + 1 < j)
    BY <1>1, <1>3
  <2> QED
    BY <2>1, <1>3 DEF Follows, d
<1>4. CASE ~Sets(file[n + 1], k)
  <2>1. CASE c[k] = Default[k] /\ \A i \in 1..n : ~Sets(file[i], k)
    BY <2>1, <1>1, <1>2, <1>4 DEF Follows, d
  <2>2. ASSUME NEW i \in 1..n, Sets(file[i], k), c[k] = file[i].number,
               \A j \in 1..n : i < j => ~Sets(file[j], k)
        PROVE  Follows(d, n + 1, k)
    <3>1. i \in 1..(n + 1) /\ d[k] = file[i].number
      BY <2>2, <1>1, <1>2, <1>4
    <3>2. \A j \in 1..(n + 1) : i < j => ~Sets(file[j], k)
      BY <2>2, <1>2, <1>4
    <3> QED
      BY <3>1, <3>2, <2>2 DEF Follows
  <2> QED
    BY <2>1, <2>2 DEF Follows, d
<1> QED
  BY <1>3, <1>4

\* What the settings follow is what LastSaid looks up.
LEMMA FollowsIsLastSaid ==
  ASSUME file \in Seq(Line), NEW c, NEW k \in Keys, Follows(c, Len(file), k)
  PROVE  c[k] = LastSaid(k)
<1> DEFINE about == {i \in DOMAIN file :
                        /\ file[i].numeric
                        /\ \/ file[i].name = k
                           \/ /\ file[i].name = "mem-per-proc"
                              /\ k \in {"min-mem-per-proc", "max-mem-per-proc"}
                        /\ Accepts(k, file[i].number)}
<1>1. LastSaid(k) = IF about = {} THEN Default[k]
                    ELSE file[CHOOSE i \in about : \A j \in about : j <= i].number
  BY DEF LastSaid
<1>2. about = {i \in 1..Len(file) : Sets(file[i], k)}
  <2>1. DOMAIN file = 1..Len(file)
    OBVIOUS
  <2>2. \A name : k \in Targets(name) <=>
            \/ name = k
            \/ name = "mem-per-proc" /\ k \in {"min-mem-per-proc", "max-mem-per-proc"}
    BY DEF Targets, Keys
  <2> QED
    BY <2>1, <2>2 DEF Sets
<1> HIDE DEF about
<1>3. CASE c[k] = Default[k] /\ \A i \in 1..Len(file) : ~Sets(file[i], k)
  <2>1. about = {}
    BY <1>2, <1>3
  <2> QED
    BY <2>1, <1>1, <1>3
<1>4. ASSUME NEW i \in 1..Len(file), Sets(file[i], k), c[k] = file[i].number,
             \A j \in 1..Len(file) : i < j => ~Sets(file[j], k)
      PROVE  c[k] = LastSaid(k)
  <2>1. i \in about /\ \A j \in about : j <= i
    BY <1>2, <1>4
  <2>2. \A h \in about : (\A j \in about : j <= h) => h = i
    BY <2>1, <1>2
  <2>3. (CHOOSE h \in about : \A j \in about : j <= h) = i
    BY <2>1, <2>2
  <2> QED
    BY <2>1, <2>3, <1>1, <1>4
<1> QED
  BY <1>3, <1>4 DEF Follows

\* At the end of the file the settings are those of the last lines.
LEMMA EndOfFileFollows ==
  ASSUME ConfigInv, FollowsFile, EndOfFile
  PROVE  LastLineWins'
<1>1. /\ phase = "reading" /\ at = Len(file) /\ config' = Normalized(config)
      /\ file' = file /\ file \in Seq(Line) /\ Typed(config)
  BY DEF EndOfFile, ConfigInv
<1>2. \A k \in Keys : config[k] = LastSaid(k)
  BY <1>1, FollowsIsLastSaid DEF FollowsFile
<1>3. \A k \in Keys : LastSaid(k)' = LastSaid(k)
  BY <1>1 DEF LastSaid
<1>4. Keeps(config, config')
  BY <1>1, NormalizedFits
<1>5. /\ Plain \subseteq Keys /\ "min-ins" \in Keys /\ "max-ins" \in Keys
      /\ "min-mem-per-proc" \in Keys /\ "max-mem-per-proc" \in Keys
      /\ "max-overall-mem" \in Keys
  BY DEF Keys, Plain
<1>6. \A k \in Plain : config'[k] = LastSaid(k)'
  BY <1>2, <1>3, <1>4, <1>5 DEF Keeps
<1>7. {config'["min-ins"], config'["max-ins"]} = {LastSaid("min-ins")', LastSaid("max-ins")'}
  BY <1>2, <1>3, <1>4, <1>5 DEF Keeps
<1>8. {config'["min-mem-per-proc"], config'["max-mem-per-proc"]} =
          {LastSaid("min-mem-per-proc")', LastSaid("max-mem-per-proc")'}
  BY <1>2, <1>3, <1>4, <1>5 DEF Keeps
<1>9. config'["max-overall-mem"] = OrSize(LastSaid("max-overall-mem")', Default["max-overall-mem"])
  BY <1>2, <1>3, <1>4, <1>5 DEF Keeps
<1> QED
  BY <1>6, <1>7, <1>8, <1>9 DEF LastLineWins, Plain

\* Once loaded the settings do not change.
LEMMA NextFollows ==
  ConfigInv /\ FollowsFile /\ LastLineWins /\ [Next]_vars => FollowsFile' /\ LastLineWins'
<1> SUFFICES ASSUME ConfigInv, FollowsFile, LastLineWins, [Next]_vars
             PROVE  FollowsFile' /\ LastLineWins'
  OBVIOUS
<1>1. CASE OpenFails
  BY <1>1 DEF OpenFails, FollowsFile, LastLineWins
<1>2. CASE OpenFile
  <2>1. phase' = "reading" /\ at' = 0 /\ config' = Default /\ file' = file
    BY <1>2 DEF OpenFile, FollowsFile, ConfigInv
  <2>2. \A k \in Keys : Follows(config, at, k)'
    BY <2>1 DEF Follows
  <2> QED
    BY <2>1, <2>2 DEF FollowsFile, LastLineWins, Loaded
<1>3. CASE ReadLine
  <2>1. /\ at \in Nat /\ at' = at + 1 /\ config' = WithLine(config, file[at + 1])
        /\ phase = "reading" /\ phase' = "reading" /\ file' = file
    BY <1>3 DEF ReadLine, ConfigInv
  <2>2. \A k \in Keys : Follows(config, at, k)
    BY <2>1 DEF FollowsFile
  <2>3. \A k \in Keys : Follows(config', at', k)
    BY <2>1, <2>2, LineFollows
  <2>4. \A k \in Keys : Follows(config, at, k)'
    BY <2>1, <2>3 DEF Follows
  <2> QED
    BY <2>1, <2>4 DEF FollowsFile, LastLineWins, Loaded
<1>4. CASE EndOfFile
  BY <1>4, EndOfFileFollows DEF EndOfFile, FollowsFile
<1>5. ASSUME UNCHANGED <<file, at, phase, config>> PROVE FollowsFile' /\ LastLineWins'
  <2>1. FollowsFile'
    BY <1>5 DEF FollowsFile, Follows
  <2>2. \A k : LastSaid(k)' = LastSaid(k)
    BY <1>5 DEF LastSaid
  <2>3. LastLineWins'
    BY <1>5, <2>2 DEF LastLineWins, Loaded
  <2> QED
    BY <2>1, <2>3
<1>6. CASE GenerateOne
  BY <1>5, <1>6 DEF GenerateOne, Ask
<1>7. CASE CreateScreen
  BY <1>5, <1>7 DEF CreateScreen, Ask
<1>8. CASE UNCHANGED vars
  BY <1>5, <1>8 DEF vars
<1> QED
  BY <1>1, <1>2, <1>3, <1>4, <1>6, <1>7, <1>8 DEF Next

\* Of several valid lines about a setting the last one counts, for every config.txt
\* (AppConfig::Load), also through turning a range round and the normalisation of
\* the memory.
THEOREM LastLineAlwaysWins == Spec => []LastLineWins
<1>1. Init => FollowsFile /\ LastLineWins
  BY DEF Init, FollowsFile, LastLineWins, Loaded
<1> QED
  BY <1>1, SettingsAlwaysFit, NextFollows, PTL DEF Spec
=============================================================================
