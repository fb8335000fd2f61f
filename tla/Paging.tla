------------------------------- MODULE Paging -------------------------------
(***************************************************************************)
(* MemoryManager, DemandPager, FIFOPageReplacement and BackingStore: demand*)
(* paging of per-process virtual memories into a fixed pool of frames, FIFO*)
(* replacement, and a swap space kept in RAM (`pages`) and mirrored in a   *)
(* file that is rewritten in full on every change.                         *)
(*                                                                         *)
(* Every public operation of MemoryManager holds memoryMutex from its first*)
(* read to its last write, so each is one action.  Inside an action the    *)
(* code is a sequence of calls on one structure; they are operators from   *)
(* pager states to pager states, composed in the order of the code.        *)
(***************************************************************************)
EXTENDS Integers, Sequences, FiniteSets, FIFOPageReplacement

CONSTANTS
    Pid,            \* process ids (distinct, the generator counts upwards)
    FrameCount,     \* max-overall-mem / mem-per-frame
    FrameSize,      \* mem-per-frame, in bytes
    VirtualBytes,   \* DemandPager::MAX_PROCESS_VIRTUAL_BYTES
    MemorySize,     \* the sizes RegisterProcess is called with
    Value,          \* the 16-bit words that are written
    NoPage          \* "the store has no such page"

ASSUME FrameAssumption == FrameCount \in Nat \ {0} /\ FrameSize \in Nat \ {0}
ASSUME VirtualAssumption ==
    /\ VirtualBytes \in Nat \ {0}
    /\ VirtualBytes = FrameSize * (VirtualBytes \div FrameSize)
ASSUME MemorySizeAssumption == MemorySize \subseteq Nat
MaxByte == 255
MaxWord == 256 * MaxByte + MaxByte
Byte == 0..MaxByte
UInt16 == 0..MaxWord

ASSUME ValueAssumption == Value \subseteq UInt16

Frame == 0..(FrameCount - 1)
PageLimit == VirtualBytes \div FrameSize
Page == 0..(PageLimit - 1)
Offset == 0..(FrameSize - 1)
Address == 0..(VirtualBytes - 1)
PageBytes == [Offset -> Byte]

ASSUME NoPageAssumption == NoPage \notin PageBytes

ZeroPage == [o \in Offset |-> 0]
NoFrame == -1           \* no entry in residentPages
NoPid == -1             \* PageFrame::processId of a free frame
TotalMemory == FrameCount * FrameSize

PageOf(a) == a \div FrameSize
OffsetOf(a) == a % FrameSize

LowByte(val) == val % 256

\* Fault: the high byte is stored as it is.
HighByteUnshifted(val) == val

HighByte(val) == val \div 256
Word(low, high) == high * 256 + low

Unstored == [p \in Pid |-> [v \in Page |-> NoPage]]
FreeFrame == [occupied |-> FALSE, processId |-> NoPid, virtualPage |-> 0,
              loadedAt |-> 0, bytes |-> ZeroPage]

VARIABLES
    pager,                      \* the structure guarded by memoryMutex
    instructionRetryPending,    \* the pids whose flag is true
    retired,                    \* pids released for good: never given out again
    reply                       \* what the last call returned

vars == <<pager, instructionRetryPending, retired, reply>>

(***************************************************************************)
(* BackingStore.  `pages` is the map in RAM, `file` the lines of           *)
(* csopesy-backing-store.txt.  Opening the file may fail, and a stream that*)
(* fails after the truncation is not looked at again.                      *)
(***************************************************************************)
FileOutcome == {"written", "unopened", "truncated"}

WriteFile(s, w) ==
    [s EXCEPT !.file = IF w = "written" THEN s.pages
                       ELSE IF w = "unopened" THEN s.file
                       ELSE Unstored]

\* Fault: the evicted page is not stored.
StoreEvictedPageForgets(s, p, v, bytes, w) == WriteFile(s, w)

StoreEvictedPage(s, p, v, bytes, w) ==
    WriteFile([s EXCEPT !.pages[p][v] = bytes], w)

\* The page LoadStoredPage finds, in RAM first and then in the file.
StoredPage(s, p, v) ==
    IF s.pages[p][v] # NoPage THEN s.pages[p][v] ELSE s.file[p][v]

\* Fault: the file is rewritten but the pages stay in the RAM store.
RemovePagesFromNowhere(s, p, w) == WriteFile(s, w)

RemovePagesForProcess(s, p, w) ==
    WriteFile([s EXCEPT !.pages[p] = [v \in Page |-> NoPage]], w)

(***************************************************************************)
(* DemandPager.                                                            *)
(***************************************************************************)
ResidentFrames(s, p) == {s.residentPages[p][v] : v \in Page} \ {NoFrame}

IsPageResident(s, p, v) == s.residentPages[p][v] # NoFrame

IsRegistered(s, p) == s.pageTables[p] # 0

IsAddressValid(s, p, a) == IsRegistered(s, p) /\ a + 2 <= VirtualBytes

EnsureVirtualPageMapped(s, p, v) ==
    [s EXCEPT !.pageTables[p] = IF @ < v + 1 THEN v + 1 ELSE @]

\* Fault: the frame is not freed.
ResetFramesForgets(s, F) == s

ResetFrames(s, F) ==
    [s EXCEPT !.frames = [f \in Frame |-> IF f \in F THEN FreeFrame ELSE @[f]]]

PageOut(s, f, w) ==
    LET victim == s.frames[f]
        stored == StoreEvictedPage(s, victim.processId, victim.virtualPage,
                                   victim.bytes, w)
        gone   == [stored EXCEPT
                     !.residentPages[victim.processId][victim.virtualPage] = NoFrame,
                     !.loadedFrameQueue = RecordFrameEviction(@, {f}),
                     !.pagesPagedOut = @ + 1]
    IN  ResetFrames(gone, {f})

PageIn(s, p, v, f) ==
    LET stored == StoredPage(s, p, v)
    IN  [s EXCEPT
           !.frameClock = @ + 1,
           !.frames[f] = [occupied |-> TRUE, processId |-> p, virtualPage |-> v,
                          loadedAt |-> s.frameClock + 1,
                          bytes |-> IF stored = NoPage THEN ZeroPage ELSE stored],
           !.pages[p][v] = stored,
           !.residentPages[p][v] = f,
           !.loadedFrameQueue = RecordFrameLoad(@, f),
           !.pagesPagedIn = @ + 1]

\* Fault: every frame is taken for a free one.
FreeFramesUnchecked(s) == Frame

FreeFrames(s) == {f \in Frame : ~s.frames[f].occupied}

LowestFrame(F) == CHOOSE f \in F : \A g \in F : f <= g

(***************************************************************************)
(* A page that is not resident is loaded into the lowest free frame, or    *)
(* into the frame of the page evicted for it.  Without a free frame and    *)
(* with an empty queue SelectVictimFrame throws, and nothing catches it.   *)
(***************************************************************************)
LoadPage(s, p, v, w) ==
    LET mapped == EnsureVirtualPageMapped(s, p, v)
        victim == SelectVictimFrame(s.loadedFrameQueue)
    IN  IF FreeFrames(s) # {} THEN PageIn(mapped, p, v, LowestFrame(FreeFrames(s)))
        ELSE IF s.loadedFrameQueue = << >> THEN [mapped EXCEPT !.thrown = TRUE]
        ELSE PageIn(PageOut(mapped, victim, w), p, v, victim)

Touch(s, p, v, w) == IF IsPageResident(s, p, v) THEN s ELSE LoadPage(s, p, v, w)

(***************************************************************************)
(* The loop of EnsurePagesResident over the one or two pages of a word.    *)
(* The second load may evict the first page again.  IsAddressValid already *)
(* implies what LoadPage asks of the process and the page.                 *)
(***************************************************************************)
FirstPage(a) == PageOf(a)
LastPage(a) == PageOf(a + 1)

TouchFirst(s, p, a, w1) == Touch(s, p, FirstPage(a), w1)

TouchBoth(s, p, a, w1, w2) ==
    IF LastPage(a) = FirstPage(a) THEN TouchFirst(s, p, a, w1)
    ELSE Touch(TouchFirst(s, p, a, w1), p, LastPage(a), w2)

PageFaultOccurred(s, p, a, w1) ==
    \/ ~IsPageResident(s, p, FirstPage(a))
    \/ ~IsPageResident(TouchFirst(s, p, a, w1), p, LastPage(a))

ReadByte(s, p, a) == s.frames[s.residentPages[p][PageOf(a)]].bytes[OffsetOf(a)]

WriteByte(s, p, a, byte) ==
    [s EXCEPT !.frames[s.residentPages[p][PageOf(a)]].bytes[OffsetOf(a)] = byte]

ReleaseProcessPages(s, p, w) ==
    LET F    == ResidentFrames(s, p)
        gone == [s EXCEPT !.loadedFrameQueue = RecordFrameEviction(@, F),
                          !.residentPages[p] = [v \in Page |-> NoFrame],
                          !.pageTables[p] = 0]
    IN  RemovePagesForProcess(ResetFrames(gone, F), p, w)

(***************************************************************************)
(* MemoryManager's operations.                                             *)
(***************************************************************************)
NoReply == [result |-> "None", value |-> 0]
Result(r) == [result |-> r, value |-> 0]
Outcome(b) == IF b THEN Result("True") ELSE Result("False")

InitPager ==
    [frames |-> [f \in Frame |-> FreeFrame],
     pageTables |-> [p \in Pid |-> 0],
     residentPages |-> [p \in Pid |-> [v \in Page |-> NoFrame]],
     loadedFrameQueue |-> << >>,
     frameClock |-> 0, pagesPagedIn |-> 0, pagesPagedOut |-> 0,
     pages |-> Unstored, file |-> Unstored,
     thrown |-> FALSE]

Init ==
    /\ pager = InitPager
    /\ instructionRetryPending = {}
    /\ retired = {}
    /\ reply = NoReply

\* A size of zero, of less than one frame or above the total is refused.  The
\* answer is whether the process has a table, not whether this call made one.
RegisterProcess(p, m) ==
    LET accepted == m > 0 /\ m <= TotalMemory /\ m \div FrameSize > 0
    IN  /\ p \notin retired
        /\ pager' = IF accepted
                    THEN [pager EXCEPT !.pageTables[p] = m \div FrameSize]
                    ELSE pager
        /\ reply' = Outcome(m > 0 /\ m <= TotalMemory /\ IsRegistered(pager', p))
        /\ UNCHANGED <<instructionRetryPending, retired>>

\* UnregisterProcess is the same operation on a bare pid.
ReleaseProcessMemory(p, w) ==
    /\ pager' = ReleaseProcessPages(pager, p, w)
    /\ instructionRetryPending' = instructionRetryPending \ {p}
    /\ retired' = retired \cup {p}
    /\ reply' = NoReply

ResetPageFaultRetryFlag(p) ==
    /\ instructionRetryPending' = instructionRetryPending \ {p}
    /\ reply' = NoReply
    /\ UNCHANGED <<pager, retired>>

ConsumePageFaultRetryFlag(p) ==
    /\ reply' = Outcome(p \in instructionRetryPending)
    /\ instructionRetryPending' = instructionRetryPending \ {p}
    /\ UNCHANGED <<pager, retired>>

RefuseAccess(p, a) ==
    /\ ~IsAddressValid(pager, p, a)
    /\ reply' = Result("AccessViolation")
    /\ UNCHANGED <<pager, instructionRetryPending, retired>>

\* The pages are loaded and nothing is read or written: the caller retries.
FaultAccess(p, a, w1, w2) ==
    /\ IsAddressValid(pager, p, a)
    /\ PageFaultOccurred(pager, p, a, w1)
    /\ pager' = TouchBoth(pager, p, a, w1, w2)
    /\ instructionRetryPending' = instructionRetryPending \cup {p}
    /\ reply' = Result("PageFaultRetry")
    /\ UNCHANGED retired

CanAccess(p, a) ==
    /\ IsAddressValid(pager, p, a)
    /\ IsPageResident(pager, p, FirstPage(a))
    /\ IsPageResident(pager, p, LastPage(a))

ReadProcessMemory(p, a) ==
    /\ CanAccess(p, a)
    /\ reply' = [result |-> "Success",
                 value |-> Word(ReadByte(pager, p, a), ReadByte(pager, p, a + 1))]
    /\ UNCHANGED <<pager, instructionRetryPending, retired>>

WriteProcessMemory(p, a, val) ==
    /\ CanAccess(p, a)
    /\ pager' = WriteByte(WriteByte(pager, p, a, LowByte(val)),
                          p, a + 1, HighByte(val))
    /\ reply' = Result("Success")
    /\ UNCHANGED <<instructionRetryPending, retired>>

Next ==
    /\ ~pager.thrown
    /\ \E p \in Pid :
        \/ \E m \in MemorySize : RegisterProcess(p, m)
        \/ \E w \in FileOutcome : ReleaseProcessMemory(p, w)
        \/ ResetPageFaultRetryFlag(p)
        \/ ConsumePageFaultRetryFlag(p)
        \/ \E a \in Address :
              \/ RefuseAccess(p, a)
              \/ \E w1, w2 \in FileOutcome : FaultAccess(p, a, w1, w2)
              \/ ReadProcessMemory(p, a)
              \/ \E val \in Value : WriteProcessMemory(p, a, val)

Spec == Init /\ [][Next]_vars

-----------------------------------------------------------------------------
PageFrame == [occupied : BOOLEAN, processId : Pid \cup {NoPid},
              virtualPage : Page, loadedAt : Nat, bytes : PageBytes]

Store == [Pid -> [Page -> PageBytes \cup {NoPage}]]

PagerState ==
    [frames : [Frame -> PageFrame],
     pageTables : [Pid -> Nat],
     residentPages : [Pid -> [Page -> Frame \cup {NoFrame}]],
     loadedFrameQueue : Seq(Frame),
     frameClock : Nat, pagesPagedIn : Nat, pagesPagedOut : Nat,
     pages : Store, file : Store,
     thrown : BOOLEAN]

Replies ==
    [result : {"None", "True", "False", "Success", "AccessViolation", "PageFaultRetry"},
     value : UInt16]

\* Every variable stays in its range.
TypeOK ==
    /\ pager \in PagerState
    /\ instructionRetryPending \subseteq Pid
    /\ retired \subseteq Pid
    /\ reply \in Replies

Occupied(s) == {f \in Frame : s.frames[f].occupied}

Consistent(s) ==
    /\ \A p \in Pid, v \in Page : s.residentPages[p][v] # NoFrame =>
          LET frame == s.frames[s.residentPages[p][v]]
          IN  frame.occupied /\ frame.processId = p /\ frame.virtualPage = v
    /\ \A f \in Occupied(s) :
          /\ s.frames[f].processId \in Pid
          /\ s.residentPages[s.frames[f].processId][s.frames[f].virtualPage] = f

\* The frames and residentPages describe the same mapping, so no frame is
\* shared by two pages and no page sits in two frames (DemandPager keeps the
\* two structures apart and updates them in PageOut, PageIn and release).
ResidencyConsistent == Consistent(pager)

Ordered(s) ==
    LET q == s.loadedFrameQueue
    IN  /\ \A i, j \in 1..Len(q) :
              i < j => s.frames[q[i]].loadedAt < s.frames[q[j]].loadedAt
        /\ \A f \in Frame : s.frames[f].occupied <=> \E i \in 1..Len(q) : q[i] = f
        /\ \A f \in Frame : s.frames[f].loadedAt <= s.frameClock

\* The replacement queue holds exactly the occupied frames, once each, in load
\* order, however evictions, releases and loads interleave.
QueueExact == Ordered(pager)

\* SelectVictimFrame is never called on an empty queue: its exception would
\* end the program, no caller catches it.
NeverThrows == ~pager.thrown

Owned(s, gone) ==
    \A p \in Pid :
        /\ p \in gone => s.pageTables[p] = 0
        /\ \A v \in Page :
              /\ s.residentPages[p][v] # NoFrame => s.pageTables[p] # 0
              /\ s.pages[p][v] # NoPage => s.pageTables[p] # 0
              /\ s.file[p][v] # NoPage /\ s.pages[p][v] = NoPage => p \in gone

\* Nothing in memory or in the swap space belongs to a process that has no page
\* table, and a line of the file that the RAM store does not know (left by a
\* failed rewrite) is only ever that of a released process.
NothingLeaks == Owned(pager, retired)

\* The statistics shown by vmstat: every page paged in is in a frame, was paged
\* out, or went with its process.
PagingCounters ==
    LET held == pager.pagesPagedIn - pager.pagesPagedOut
    IN  /\ pager.frameClock = pager.pagesPagedIn
        /\ held >= Cardinality(Occupied(pager))
        /\ retired = {} => held = Cardinality(Occupied(pager))

\* "evict the frame that was loaded earliest" (FIFOPageReplacement.h): if a step
\* takes the frame of a page whose process stays registered, it takes every
\* frame loaded before that one as well.
EvictsOldest ==
    \A f, g \in Occupied(pager) :
        LET taken(h) == pager'.frames[h].loadedAt # pager.frames[h].loadedAt
        IN  taken(f) /\ IsRegistered(pager', pager.frames[f].processId)
              /\ pager.frames[g].loadedAt < pager.frames[f].loadedAt
            => taken(g)

EvictsOldestFirst == [][EvictsOldest]_vars

\* With two frames, an access that is retried undisturbed succeeds after at most
\* two page faults, from any state of the pool: serving a fault may evict the
\* other page of the same word, but not twice.
RetrySettles ==
    FrameCount >= 2 =>
        \A p \in Pid, a \in Address :
            IsAddressValid(pager, p, a) =>
                LET again(s) == TouchBoth(s, p, a, "written", "written")
                IN  ~PageFaultOccurred(again(again(pager)), p, a, "written")

(***************************************************************************)
(* The flat memory the pager implements: a page is where it is resident,   *)
(* else in the RAM store, else still all zeros.                            *)
(***************************************************************************)
PageContent(s, p, v) ==
    IF s.residentPages[p][v] # NoFrame THEN s.frames[s.residentPages[p][v]].bytes
    ELSE IF s.pages[p][v] # NoPage THEN s.pages[p][v]
    ELSE ZeroPage

Content(s, p, a) == PageContent(s, p, PageOf(a))[OffsetOf(a)]

Flat == INSTANCE FlatMemory WITH
    mem <- [p \in Pid |-> [a \in Address |-> Content(pager, p, a)]],
    registered <- {p \in Pid : IsRegistered(pager, p)},
    retryPending <- instructionRetryPending

\* Demand paging, replacement, swapping and a failing swap file are invisible:
\* to the instructions the memory of a process is flat.
ImplementsFlatMemory == Flat!Spec
=============================================================================
