-------------------------------- MODULE Report --------------------------------
(***************************************************************************)
(* report-util: ProcessReport::WriteSummary goes over the registry twice   *)
(* while the workers run and end processes.                                *)
(*                                                                         *)
(* Process::Terminate sets the status, then reads the clock for the time,  *)
(* then again for the date, without a lock.  The report sorts what it      *)
(* found Terminated by these texts, turned back into numbers.              *)
(***************************************************************************)
EXTENDS Integers, FiniteSets, SequencesExt

CONSTANTS
    Process,    \* the processes in the registry
    Times       \* the moments at which something happens: [day, hour], increasing

ASSUME TimesAssumption ==
    /\ Times \in Seq([day : Nat \ {0}, hour : 0..23])
    /\ Times # <<>>
    /\ \A i, j \in DOMAIN Times : i < j =>
          \/ Times[i].day < Times[j].day
          \/ Times[i].day = Times[j].day /\ Times[i].hour < Times[j].hour

VARIABLES
    now,            \* the present moment, an index of Times
    status,
    wpc,            \* where the worker of each process is within Terminate
    endTime,        \* what a clock face shows; NoFace before
    endDate,        \* the day; 0 before
    timedAt,        \* history: the moments at which the two were read
    datedAt,
    rpc,            \* where the console thread is
    unread,         \* the processes the present pass has not come to
    runningList,    \* runningProcesses
    finishedList,   \* finishedProcesses: in any order until it is sorted
    keys,           \* the keys as the sort found them
    steady          \* history: processes whose status has not changed since the report began

processVars == <<status, wpc, endTime, endDate, timedAt, datedAt>>
reportVars == <<rpc, unread, runningList, finishedList, keys>>
vars == <<now, processVars, reportVars, steady>>

NoFace == [hour |-> 0, pm |-> FALSE, empty |-> TRUE]

-----------------------------------------------------------------------------
(***************************************************************************)
(* Times as text, GetCurrentTimeString(false), and back.                   *)
(***************************************************************************)
FaceOf(h) == [hour |-> IF h % 12 = 0 THEN 12 ELSE h % 12, pm |-> h >= 12, empty |-> FALSE]

\* Fault: 12 PM is midnight's other name.
HourOfTwentyFour(face) ==
    IF face.empty THEN 0 ELSE face.hour + (IF face.pm THEN 12 ELSE 0)

\* An empty text counts as 0.
HourOf(face) ==
    IF face.empty THEN 0
    ELSE (IF face.hour = 12 THEN 0 ELSE face.hour) + (IF face.pm THEN 12 ELSE 0)

\* Minutes and seconds are two digits each in the text, nothing is converted.
BuildEndTimestampKey(p) == [day |-> endDate[p], hour |-> HourOf(endTime[p])]

Before(k, l) == k.day < l.day \/ (k.day = l.day /\ k.hour < l.hour)

-----------------------------------------------------------------------------
Init ==
    /\ now = 1
    /\ status = [p \in Process |-> "Ready"]
    /\ wpc = [p \in Process |-> "runs"]
    /\ endTime = [p \in Process |-> NoFace]
    /\ endDate = [p \in Process |-> 0]
    /\ timedAt = [p \in Process |-> 0]
    /\ datedAt = [p \in Process |-> 0]
    /\ rpc = "idle"
    /\ unread = {}
    /\ runningList = {}
    /\ finishedList = <<>>
    /\ keys = [p \in Process |-> [day |-> 0, hour |-> 0]]
    /\ steady = {}

TimePasses ==
    /\ now < Len(Times)
    /\ now' = now + 1
    /\ UNCHANGED <<processVars, reportVars, steady>>

\* The workers, of which module Scheduler has the details.
Switch(p) ==
    /\ wpc[p] = "runs"
    /\ status' = [status EXCEPT ![p] = IF @ = "Ready" THEN "Running" ELSE "Ready"]
    /\ steady' = steady \ {p}
    /\ UNCHANGED <<now, wpc, endTime, endDate, timedAt, datedAt, reportVars>>

TerminateStatus(p) ==
    /\ wpc[p] = "runs"
    /\ status[p] = "Running"
    /\ status' = [status EXCEPT ![p] = "Terminated"]
    /\ wpc' = [wpc EXCEPT ![p] = "time"]
    /\ steady' = steady \ {p}
    /\ UNCHANGED <<now, endTime, endDate, timedAt, datedAt, reportVars>>

TerminateTime(p) ==
    /\ wpc[p] = "time"
    /\ endTime' = [endTime EXCEPT ![p] = FaceOf(Times[now].hour)]
    /\ timedAt' = [timedAt EXCEPT ![p] = now]
    /\ wpc' = [wpc EXCEPT ![p] = "date"]
    /\ UNCHANGED <<now, status, endDate, datedAt, reportVars, steady>>

TerminateDate(p) ==
    /\ wpc[p] = "date"
    /\ endDate' = [endDate EXCEPT ![p] = Times[now].day]
    /\ datedAt' = [datedAt EXCEPT ![p] = now]
    /\ wpc' = [wpc EXCEPT ![p] = "ended"]
    /\ UNCHANGED <<now, status, endTime, timedAt, reportVars, steady>>

-----------------------------------------------------------------------------
(***************************************************************************)
(* WriteSummary.                                                           *)
(***************************************************************************)
ReportBegins ==
    /\ rpc = "idle"
    /\ rpc' = "running"
    /\ unread' = Process
    /\ steady' = Process
    /\ UNCHANGED <<now, processVars, runningList, finishedList, keys>>

\* The first pass looks at one status after the other, in some order.
CollectRunning(p) ==
    /\ rpc = "running"
    /\ p \in unread
    /\ unread' = IF unread = {p} THEN Process ELSE unread \ {p}
    /\ rpc' = IF unread = {p} THEN "finished" ELSE rpc
    /\ runningList' = IF status[p] = "Running" THEN runningList \cup {p} ELSE runningList
    /\ UNCHANGED <<now, processVars, finishedList, keys, steady>>

\* Fault: what the first pass has left out is taken for finished.
HasEndedUnlessRunning(p) == p \notin runningList

HasEnded(p) == status[p] = "Terminated"

\* The second pass.
CollectFinished(p) ==
    /\ rpc = "finished"
    /\ p \in unread
    /\ unread' = unread \ {p}
    /\ finishedList' = IF HasEnded(p) THEN Append(finishedList, p) ELSE finishedList
    /\ rpc' = IF unread = {p} THEN "listed" ELSE rpc
    /\ UNCHANGED <<now, processVars, runningList, keys, steady>>

\* The comparisons of the sort look at the live texts, from here on.
SortBegins ==
    /\ rpc = "listed"
    /\ keys' = [p \in Process |-> BuildEndTimestampKey(p)]
    /\ rpc' = "sorting"
    /\ UNCHANGED <<now, processVars, unread, runningList, finishedList, steady>>

Unchanged == \A p \in ToSet(finishedList) : keys[p] = BuildEndTimestampKey(p)

InKeyOrder(list) ==
    \A i, j \in DOMAIN list : i < j => ~Before(keys[list[j]], keys[list[i]])

\* Any order among equal keys, or if a text has changed meanwhile: std::sort then
\* promises nothing.
SortFinished ==
    /\ rpc = "sorting"
    /\ finishedList' \in SetToSeqs(ToSet(finishedList))
    /\ Unchanged => InKeyOrder(finishedList')
    /\ rpc' = "shown"
    /\ UNCHANGED <<now, processVars, unread, runningList, keys, steady>>

ReportEnds ==
    /\ rpc = "shown"
    /\ rpc' = "idle"
    /\ runningList' = {}
    /\ finishedList' = <<>>
    /\ keys' = [p \in Process |-> [day |-> 0, hour |-> 0]]
    /\ steady' = {}
    /\ UNCHANGED <<now, unread, processVars>>

Next ==
    \/ TimePasses
    \/ \E p \in Process :
          \/ Switch(p) \/ TerminateStatus(p) \/ TerminateTime(p) \/ TerminateDate(p)
          \/ CollectRunning(p) \/ CollectFinished(p)
    \/ ReportBegins \/ SortBegins \/ SortFinished \/ ReportEnds

Spec == Init /\ [][Next]_vars

-----------------------------------------------------------------------------
TypeOK ==
    /\ now \in DOMAIN Times
    /\ \A p \in Process : HourOf(endTime[p]) \in 0..23
    /\ ToSet(finishedList) \subseteq Process
    /\ Len(finishedList) = Cardinality(ToSet(finishedList))

\* The time and the date of p were read on the same day, before the sort began.
WellStamped(p) ==
    /\ datedAt[p] > 0 /\ keys[p].day > 0
    /\ Times[timedAt[p]].day = Times[datedAt[p]].day

\* Finished processes are shown in the order in which they ended: going through the
\* texts of the 12-hour clock and back loses nothing at noon and at midnight.  A
\* process that is being ended while the report sorts may upset the order, and one
\* whose time and date fall on different days is shown in a wrong place.
FinishedInOrder ==
    rpc = "shown" /\ (\A p \in ToSet(finishedList) : wpc[p] = "ended" /\ keys[p].day > 0) =>
        \A i, j \in DOMAIN finishedList :
            /\ i < j
            /\ WellStamped(finishedList[i]) /\ WellStamped(finishedList[j])
            => timedAt[finishedList[i]] <= timedAt[finishedList[j]]

\* A process that does not change while the report is written is in the list of its
\* status and in no other, though the two lists are made in different passes.
SteadyShownOnce ==
    rpc = "shown" => \A p \in steady :
        /\ p \in runningList <=> status[p] = "Running"
        /\ p \in ToSet(finishedList) <=> status[p] = "Terminated"
=============================================================================
