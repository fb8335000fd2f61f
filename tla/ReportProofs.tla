----------------------------- MODULE ReportProofs -----------------------------
(***************************************************************************)
(* Proofs about Report, for any number of processes and any moments: the   *)
(* finished processes are shown in the order in which they ended, and a    *)
(* process that keeps its status is shown in the list of that status.      *)
(***************************************************************************)
EXTENDS Report, FiniteSetTheorems, TLAPS

Faces == [hour : Nat, pm : BOOLEAN, empty : BOOLEAN]
Keys == [day : Nat, hour : Nat]

WorkersTyped ==
    /\ now \in DOMAIN Times
    /\ status \in [Process -> {"Ready", "Running", "Terminated"}]
    /\ wpc \in [Process -> {"runs", "time", "date", "ended"}]
    /\ endTime \in [Process -> Faces]
    /\ endDate \in [Process -> Nat]
    /\ timedAt \in [Process -> Nat]
    /\ datedAt \in [Process -> Nat]

\* The list of finished processes has each of them once.
NoRepeats(list) ==
    /\ list \in Seq(Process)
    /\ IsFiniteSet(ToSet(list))
    /\ Cardinality(ToSet(list)) = Len(list)

ReportTyped ==
    /\ rpc \in {"idle", "running", "finished", "listed", "sorting", "shown"}
    /\ unread \subseteq Process
    /\ runningList \subseteq Process
    /\ steady \subseteq Process
    /\ keys \in [Process -> Keys]
    /\ NoRepeats(finishedList)

\* The texts are those of the moments at which the clock was read.
Stamped ==
    \A p \in Process :
        /\ wpc[p] \in {"runs", "time"} => endTime[p] = NoFace
        /\ wpc[p] \in {"date", "ended"} =>
              timedAt[p] \in DOMAIN Times /\ endTime[p] = FaceOf(Times[timedAt[p]].hour)
        /\ wpc[p] # "ended" => endDate[p] = 0 /\ datedAt[p] = 0
        /\ wpc[p] = "ended" =>
              datedAt[p] \in DOMAIN Times /\ endDate[p] = Times[datedAt[p]].day

\* A key with a date was made from texts that no longer change.
KeysFinal ==
    rpc \in {"sorting", "shown"} =>
        \A p \in Process : keys[p].day > 0 => wpc[p] = "ended" /\ keys[p] = BuildEndTimestampKey(p)

Sorted ==
    rpc = "shown" /\ (\A p \in ToSet(finishedList) : keys[p].day > 0) => InKeyOrder(finishedList)

\* What the first pass has come to is in its list if it is running.
FirstPass ==
    /\ rpc = "idle" => runningList = {}
    /\ rpc = "running" => unread \cap runningList = {}
    /\ \A p \in steady :
          rpc = "idle" \/ (rpc = "running" /\ p \in unread) \/ (p \in runningList <=> status[p] = "Running")

\* What the second pass has come to is in its list if it has ended.
SecondPass ==
    /\ rpc \in {"idle", "running"} => finishedList = <<>>
    /\ rpc = "finished" => unread \cap ToSet(finishedList) = {}
    /\ \A p \in steady :
          \/ rpc \in {"idle", "running"}
          \/ rpc = "finished" /\ p \in unread
          \/ p \in ToSet(finishedList) <=> status[p] = "Terminated"

ReportInv ==
    WorkersTyped /\ ReportTyped /\ Stamped /\ KeysFinal /\ Sorted /\ FirstPass /\ SecondPass

-----------------------------------------------------------------------------
(***************************************************************************)
(* Times, texts and lists.                                                 *)
(***************************************************************************)
LEMMA TimesTyped ==
  ASSUME NEW i \in DOMAIN Times
  PROVE  Times[i].day \in Nat /\ Times[i].day > 0 /\ Times[i].hour \in 0..23 /\ i \in Nat
<1> DEFINE Moments == [day : Nat \ {0}, hour : 0..23]
<1>1. Times \in Seq(Moments)
  BY TimesAssumption
<1> HIDE DEF Moments
<1>2. Times[i] \in Moments /\ i \in Nat
  BY <1>1
<1> QED
  BY <1>2 DEF Moments

\* A text of the 12-hour clock, turned back into a number, is the hour it was made from.
LEMMA HourThereAndBack ==
  ASSUME NEW h \in 0..23
  PROVE  FaceOf(h) \in Faces /\ HourOf(FaceOf(h)) = h
<1>1. /\ h \in 0..11 => h % 12 = h
      /\ h \in 12..23 => h % 12 = h - 12
  OBVIOUS
<1> DEFINE face == IF h % 12 = 0 THEN 12 ELSE h % 12
<1>2. /\ h = 0 => face = 12
      /\ h \in 1..12 => face = h
      /\ h \in 13..23 => face = h - 12
  BY <1>1
<1>3. FaceOf(h) = [hour |-> face, pm |-> h >= 12, empty |-> FALSE]
  BY DEF FaceOf
<1> HIDE DEF face
<1>4. HourOf(FaceOf(h)) = (IF face = 12 THEN 0 ELSE face) + (IF h >= 12 THEN 12 ELSE 0)
  <2>1. FaceOf(h).hour = face /\ FaceOf(h).empty = FALSE /\ FaceOf(h).pm = (h >= 12)
    BY <1>3
  <2> QED
    BY <2>1, Zenon DEF HourOf
<1>5. face \in Nat
  BY <1>2
<1> QED
  BY <1>2, <1>3, <1>4, <1>5 DEF Faces

LEMMA NoFaceTyped == NoFace \in Faces /\ HourOf(NoFace) = 0
BY DEF NoFace, Faces, HourOf

LEMMA EmptyList == NoRepeats(<<>>) /\ ToSet(<<>>) = {}
<1>1. ToSet(<<>>) = {} /\ <<>> \in Seq(Process) /\ Len(<<>>) = 0
  BY DEF ToSet
<1> QED
  BY <1>1, FS_EmptySet DEF NoRepeats

LEMMA AppendedList ==
  ASSUME NEW list, NoRepeats(list), NEW p \in Process, p \notin ToSet(list)
  PROVE  NoRepeats(Append(list, p)) /\ ToSet(Append(list, p)) = ToSet(list) \cup {p}
<1>1. ToSet(Append(list, p)) = ToSet(list) \cup {p}
  BY DEF ToSet, NoRepeats
<1>2. Append(list, p) \in Seq(Process) /\ Len(Append(list, p)) = Len(list) + 1
  BY DEF NoRepeats
<1> QED
  BY <1>1, <1>2, FS_AddElement DEF NoRepeats

\* Sorting, or any other rearrangement, loses nothing and adds nothing.
LEMMA RearrangedList ==
  ASSUME NEW list, NoRepeats(list), NEW other \in SetToSeqs(ToSet(list))
  PROVE  NoRepeats(other) /\ ToSet(other) = ToSet(list)
<1> DEFINE S == ToSet(list)
           D == 1..Cardinality(S)
<1>1. Cardinality(S) \in Nat /\ IsFiniteSet(S) /\ S \subseteq Process
  BY FS_CardinalityType DEF NoRepeats, ToSet
<1>2. other \in [D -> S] /\ (\A i, j \in D : i # j => other[i] # other[j])
  BY DEF SetToSeqs
<1>3. other \in Injection(D, S)
  BY <1>2 DEF Injection, IsInjective
<1>4. IsFiniteSet(D) /\ Cardinality(D) = Cardinality(S)
  BY <1>1, FS_Interval, FS_CardinalityType
<1>5. other \in Surjection(D, S)
  BY <1>1, <1>3, <1>4, FS_Injection
<1>6. ToSet(other) = S
  BY <1>2, <1>5 DEF ToSet, Surjection
<1>7. other \in Seq(Process) /\ Len(other) = Cardinality(S)
  BY <1>1, <1>2
<1> QED
  BY <1>1, <1>6, <1>7 DEF NoRepeats

-----------------------------------------------------------------------------
(***************************************************************************)
(* The steps.                                                              *)
(***************************************************************************)
LEMMA InitReportInv == Init => ReportInv
<1> SUFFICES ASSUME Init PROVE ReportInv
  OBVIOUS
<1>1. 1 \in DOMAIN Times
  BY TimesAssumption
<1>2. WorkersTyped
  BY <1>1, NoFaceTyped DEF Init, WorkersTyped
<1>3. ReportTyped
  BY EmptyList DEF Init, ReportTyped, Keys
<1>4. Stamped
  BY DEF Init, Stamped
<1>5. KeysFinal /\ Sorted /\ FirstPass /\ SecondPass
  BY DEF Init, KeysFinal, Sorted, FirstPass, SecondPass
<1> QED
  BY <1>2, <1>3, <1>4, <1>5 DEF ReportInv

\* A worker changes the texts of one process, which has not ended yet, and the report
\* none of them.
TextsFinal ==
    \A p \in Process : wpc[p] = "ended" =>
        wpc'[p] = "ended" /\ BuildEndTimestampKey(p)' = BuildEndTimestampKey(p)

\* A step of a worker leaves the report as it is, but for the statuses it finds.
LEMMA WorkersKeep ==
  ASSUME ReportInv, UNCHANGED reportVars, TextsFinal,
         steady' \subseteq steady, \A p \in steady' : status'[p] = status[p]
  PROVE  ReportTyped' /\ KeysFinal' /\ Sorted' /\ FirstPass' /\ SecondPass'
<1>1. /\ rpc' = rpc /\ unread' = unread /\ runningList' = runningList
      /\ finishedList' = finishedList /\ keys' = keys
  BY DEF reportVars
<1>2. ReportTyped'
  BY <1>1 DEF ReportInv, ReportTyped, NoRepeats
<1>3. KeysFinal'
  BY <1>1 DEF ReportInv, KeysFinal, TextsFinal
<1>4. Sorted'
  BY <1>1 DEF ReportInv, Sorted, InKeyOrder
<1>5. FirstPass'
  BY <1>1 DEF ReportInv, FirstPass
<1>6. SecondPass'
  BY <1>1 DEF ReportInv, SecondPass
<1> QED
  BY <1>2, <1>3, <1>4, <1>5, <1>6

\* A step of the report leaves the workers as they are.
LEMMA ReportKeeps ==
  ASSUME ReportInv, UNCHANGED <<now, processVars>>
  PROVE  WorkersTyped' /\ Stamped' /\ TextsFinal
BY DEF ReportInv, WorkersTyped, Stamped, TextsFinal, processVars, BuildEndTimestampKey

LEMMA TimePassesKeeps == ReportInv /\ TimePasses => ReportInv'
<1> SUFFICES ASSUME ReportInv, TimePasses PROVE ReportInv'
  OBVIOUS
<1>1. WorkersTyped' /\ Stamped' /\ TextsFinal
  <2>1. now' \in DOMAIN Times
    BY TimesAssumption DEF ReportInv, WorkersTyped, TimePasses
  <2> QED
    BY <2>1 DEF ReportInv, TimePasses, WorkersTyped, Stamped, TextsFinal, processVars,
       BuildEndTimestampKey
<1>2. ReportTyped' /\ KeysFinal' /\ Sorted' /\ FirstPass' /\ SecondPass'
  BY <1>1, WorkersKeep DEF TimePasses, processVars, ReportInv
<1> QED
  BY <1>1, <1>2 DEF ReportInv

LEMMA SwitchKeeps ==
  ASSUME ReportInv, NEW p \in Process, Switch(p)
  PROVE  ReportInv'
<1>1. WorkersTyped' /\ Stamped' /\ TextsFinal
  BY DEF ReportInv, Switch, WorkersTyped, Stamped, TextsFinal, BuildEndTimestampKey
<1>2. ReportTyped' /\ KeysFinal' /\ Sorted' /\ FirstPass' /\ SecondPass'
  BY <1>1, WorkersKeep DEF Switch, ReportInv, ReportTyped, WorkersTyped
<1> QED
  BY <1>1, <1>2 DEF ReportInv

LEMMA TerminateStatusKeeps ==
  ASSUME ReportInv, NEW p \in Process, TerminateStatus(p)
  PROVE  ReportInv'
<1>1. WorkersTyped' /\ Stamped' /\ TextsFinal
  BY DEF ReportInv, TerminateStatus, WorkersTyped, Stamped, TextsFinal, BuildEndTimestampKey
<1>2. ReportTyped' /\ KeysFinal' /\ Sorted' /\ FirstPass' /\ SecondPass'
  BY <1>1, WorkersKeep DEF TerminateStatus, ReportInv, ReportTyped, WorkersTyped
<1> QED
  BY <1>1, <1>2 DEF ReportInv

LEMMA TerminateTimeKeeps ==
  ASSUME ReportInv, NEW p \in Process, TerminateTime(p)
  PROVE  ReportInv'
<1>1. FaceOf(Times[now].hour) \in Faces /\ now \in DOMAIN Times /\ now \in Nat
  BY TimesTyped, HourThereAndBack DEF ReportInv, WorkersTyped
<1>2. WorkersTyped'
  BY <1>1 DEF ReportInv, TerminateTime, WorkersTyped
<1>3. Stamped'
  BY <1>1 DEF ReportInv, TerminateTime, WorkersTyped, Stamped
<1>4. TextsFinal
  BY DEF ReportInv, TerminateTime, WorkersTyped, TextsFinal, BuildEndTimestampKey
<1>5. ReportTyped' /\ KeysFinal' /\ Sorted' /\ FirstPass' /\ SecondPass'
  BY <1>4, WorkersKeep DEF TerminateTime
<1> QED
  BY <1>2, <1>3, <1>5 DEF ReportInv

LEMMA TerminateDateKeeps ==
  ASSUME ReportInv, NEW p \in Process, TerminateDate(p)
  PROVE  ReportInv'
<1>1. Times[now].day \in Nat /\ now \in DOMAIN Times /\ now \in Nat
  BY TimesTyped DEF ReportInv, WorkersTyped
<1>2. WorkersTyped'
  BY <1>1 DEF ReportInv, TerminateDate, WorkersTyped
<1>3. Stamped'
  BY <1>1 DEF ReportInv, TerminateDate, WorkersTyped, Stamped
<1>4. TextsFinal
  BY DEF ReportInv, TerminateDate, WorkersTyped, TextsFinal, BuildEndTimestampKey
<1>5. ReportTyped' /\ KeysFinal' /\ Sorted' /\ FirstPass' /\ SecondPass'
  BY <1>4, WorkersKeep DEF TerminateDate
<1> QED
  BY <1>2, <1>3, <1>5 DEF ReportInv

LEMMA ReportBeginsKeeps == ReportInv /\ ReportBegins => ReportInv'
<1> SUFFICES ASSUME ReportInv, ReportBegins PROVE ReportInv'
  OBVIOUS
<1>1. WorkersTyped' /\ Stamped'
  BY ReportKeeps DEF ReportBegins
<1>2. ReportTyped'
  BY DEF ReportBegins, ReportInv, ReportTyped, NoRepeats
<1>3. KeysFinal' /\ Sorted'
  BY DEF ReportBegins, KeysFinal, Sorted
<1>4. FirstPass' /\ SecondPass'
  BY DEF ReportBegins, ReportInv, FirstPass, SecondPass
<1> QED
  BY <1>1, <1>2, <1>3, <1>4 DEF ReportInv

LEMMA CollectRunningKeeps ==
  ASSUME ReportInv, NEW p \in Process, CollectRunning(p)
  PROVE  ReportInv'
<1>1. WorkersTyped' /\ Stamped'
  BY ReportKeeps DEF CollectRunning
<1>2. status' = status /\ steady' = steady /\ finishedList' = finishedList /\ finishedList = <<>>
  BY DEF CollectRunning, processVars, ReportInv, SecondPass
<1>3. ReportTyped'
  BY <1>2 DEF CollectRunning, ReportInv, ReportTyped, NoRepeats
<1>4. KeysFinal' /\ Sorted'
  BY DEF CollectRunning, KeysFinal, Sorted
<1>5. FirstPass'
  BY <1>2 DEF CollectRunning, ReportInv, ReportTyped, FirstPass
<1>6. SecondPass'
  <2>1. CASE unread = {p}
    BY <1>2, <2>1, EmptyList DEF CollectRunning, ReportInv, ReportTyped, SecondPass
  <2>2. CASE unread # {p}
    BY <1>2, <2>2, EmptyList DEF CollectRunning, ReportInv, ReportTyped, SecondPass
  <2> QED
    BY <2>1, <2>2
<1> QED
  BY <1>1, <1>3, <1>4, <1>5, <1>6 DEF ReportInv

LEMMA CollectFinishedKeeps ==
  ASSUME ReportInv, NEW p \in Process, CollectFinished(p)
  PROVE  ReportInv'
<1>1. WorkersTyped' /\ Stamped'
  BY ReportKeeps DEF CollectFinished
<1>2. /\ status' = status /\ steady' = steady /\ runningList' = runningList /\ keys' = keys
      /\ p \notin ToSet(finishedList)
  BY DEF CollectFinished, processVars, ReportInv, SecondPass
<1>3. /\ NoRepeats(finishedList')
      /\ ToSet(finishedList') = ToSet(finishedList) \cup (IF status[p] = "Terminated" THEN {p} ELSE {})
  <2>1. NoRepeats(finishedList)
    BY DEF ReportInv, ReportTyped
  <2>2. CASE status[p] = "Terminated"
    <3>1. finishedList' = Append(finishedList, p)
      BY <2>2 DEF CollectFinished, HasEnded
    <3> QED
      BY <1>2, <2>1, <2>2, <3>1, AppendedList
  <2>3. CASE status[p] # "Terminated"
    <3>1. finishedList' = finishedList
      BY <2>3 DEF CollectFinished, HasEnded
    <3> QED
      BY <2>1, <2>3, <3>1
  <2> QED
    BY <2>2, <2>3
<1>4. ReportTyped'
  BY <1>2, <1>3 DEF CollectFinished, ReportInv, ReportTyped
<1>5. KeysFinal' /\ Sorted'
  BY DEF CollectFinished, KeysFinal, Sorted
<1>6. FirstPass'
  BY <1>2 DEF CollectFinished, ReportInv, FirstPass
<1>7. SecondPass'
  <2>1. CASE unread = {p}
    BY <1>2, <1>3, <2>1 DEF CollectFinished, ReportInv, ReportTyped, SecondPass
  <2>2. CASE unread # {p}
    BY <1>2, <1>3, <2>2 DEF CollectFinished, ReportInv, ReportTyped, SecondPass
  <2> QED
    BY <2>1, <2>2
<1> QED
  BY <1>1, <1>4, <1>5, <1>6, <1>7 DEF ReportInv

LEMMA SortBeginsKeeps == ReportInv /\ SortBegins => ReportInv'
<1> SUFFICES ASSUME ReportInv, SortBegins PROVE ReportInv'
  OBVIOUS
<1>1. WorkersTyped' /\ Stamped' /\ TextsFinal
  BY ReportKeeps DEF SortBegins
<1>2. status' = status /\ wpc' = wpc /\ endDate' = endDate /\ endTime' = endTime
  BY DEF SortBegins, processVars
<1>3. \A p \in Process : BuildEndTimestampKey(p) \in Keys /\ BuildEndTimestampKey(p).day = endDate[p]
  <2> SUFFICES ASSUME NEW p \in Process
               PROVE  BuildEndTimestampKey(p) \in Keys /\ BuildEndTimestampKey(p).day = endDate[p]
    OBVIOUS
  <2>1. HourOf(endTime[p]) \in Nat
    <3>1. endTime[p] \in Faces
      BY DEF ReportInv, WorkersTyped
    <3> QED
      BY <3>1 DEF HourOf, Faces
  <2>2. endDate[p] \in Nat
    BY DEF ReportInv, WorkersTyped
  <2> QED
    BY <2>1, <2>2 DEF BuildEndTimestampKey, Keys
<1>4. ReportTyped'
  BY <1>3 DEF SortBegins, ReportInv, ReportTyped, NoRepeats
<1>5. KeysFinal'
  <2> SUFFICES ASSUME NEW p \in Process, keys'[p].day > 0
               PROVE  wpc'[p] = "ended" /\ keys'[p] = BuildEndTimestampKey(p)'
    BY DEF KeysFinal
  <2>1. keys'[p] = BuildEndTimestampKey(p)
    BY DEF SortBegins
  <2>2. endDate[p] # 0
    BY <1>3, <2>1
  <2>3. wpc[p] = "ended"
    BY <2>2 DEF ReportInv, Stamped
  <2> QED
    BY <1>1, <2>1, <2>3 DEF TextsFinal
<1>6. Sorted' /\ FirstPass' /\ SecondPass'
  BY <1>2 DEF SortBegins, ReportInv, Sorted, FirstPass, SecondPass
<1> QED
  BY <1>1, <1>4, <1>5, <1>6 DEF ReportInv

LEMMA SortFinishedKeeps == ReportInv /\ SortFinished => ReportInv'
<1> SUFFICES ASSUME ReportInv, SortFinished PROVE ReportInv'
  OBVIOUS
<1>1. WorkersTyped' /\ Stamped' /\ TextsFinal
  BY ReportKeeps DEF SortFinished
<1>2. /\ status' = status /\ steady' = steady /\ keys' = keys /\ runningList' = runningList
      /\ rpc = "sorting" /\ rpc' = "shown" /\ unread' = unread
  BY DEF SortFinished, processVars
<1>3. NoRepeats(finishedList') /\ ToSet(finishedList') = ToSet(finishedList)
  <2>1. finishedList' \in SetToSeqs(ToSet(finishedList))
    BY DEF SortFinished
  <2> QED
    BY <2>1, RearrangedList DEF ReportInv, ReportTyped
<1>4. ReportTyped'
  BY <1>2, <1>3 DEF ReportInv, ReportTyped
<1>5. KeysFinal'
  BY <1>1, <1>2 DEF ReportInv, KeysFinal, TextsFinal
<1>6. Sorted'
  <2> SUFFICES ASSUME \A p \in ToSet(finishedList') : keys[p].day > 0
               PROVE  InKeyOrder(finishedList)'
    BY <1>2 DEF Sorted
  <2>1. ToSet(finishedList) \subseteq Process
    BY DEF ReportInv, ReportTyped, NoRepeats, ToSet
  <2>2. Unchanged
    BY <1>2, <1>3, <2>1 DEF ReportInv, KeysFinal, Unchanged
  <2>3. InKeyOrder(finishedList')
    BY <2>2 DEF SortFinished
  <2> QED
    BY <1>2, <2>3 DEF InKeyOrder
<1>7. FirstPass' /\ SecondPass'
  BY <1>2, <1>3 DEF ReportInv, FirstPass, SecondPass
<1> QED
  BY <1>1, <1>4, <1>5, <1>6, <1>7 DEF ReportInv

LEMMA ReportEndsKeeps == ReportInv /\ ReportEnds => ReportInv'
<1> SUFFICES ASSUME ReportInv, ReportEnds PROVE ReportInv'
  OBVIOUS
<1>1. WorkersTyped' /\ Stamped'
  BY ReportKeeps DEF ReportEnds
<1>2. ReportTyped'
  BY EmptyList DEF ReportEnds, ReportInv, ReportTyped, Keys
<1>3. KeysFinal' /\ Sorted' /\ FirstPass' /\ SecondPass'
  BY DEF ReportEnds, KeysFinal, Sorted, FirstPass, SecondPass
<1> QED
  BY <1>1, <1>2, <1>3 DEF ReportInv

LEMMA NextReportInv == ReportInv /\ [Next]_vars => ReportInv'
<1> SUFFICES ASSUME ReportInv, [Next]_vars PROVE ReportInv'
  OBVIOUS
<1>1. CASE UNCHANGED vars
  <2>1. UNCHANGED <<now, processVars>> /\ UNCHANGED reportVars /\ steady' = steady /\ status' = status
    BY <1>1 DEF vars, processVars
  <2> QED
    BY <2>1, ReportKeeps, WorkersKeep DEF ReportInv
<1>2. CASE \E p \in Process : Switch(p) \/ TerminateStatus(p) \/ TerminateTime(p) \/ TerminateDate(p)
  BY <1>2, SwitchKeeps, TerminateStatusKeeps, TerminateTimeKeeps, TerminateDateKeeps
<1>3. CASE \E p \in Process : CollectRunning(p) \/ CollectFinished(p)
  BY <1>3, CollectRunningKeeps, CollectFinishedKeeps
<1>4. CASE TimePasses \/ ReportBegins \/ SortBegins \/ SortFinished \/ ReportEnds
  BY <1>4, TimePassesKeeps, ReportBeginsKeeps, SortBeginsKeeps, SortFinishedKeeps, ReportEndsKeeps
<1> QED
  BY <1>1, <1>2, <1>3, <1>4 DEF Next

LEMMA ReportInvariant == Spec => []ReportInv
<1> QED
  BY InitReportInv, NextReportInv, PTL DEF Spec

\* Hours are hours of the day, and the list of finished processes has each once.
THEOREM ReportTypeCorrect == Spec => []TypeOK
<1>1. ReportInv => TypeOK
  <2> SUFFICES ASSUME ReportInv PROVE TypeOK
    OBVIOUS
  <2>1. ASSUME NEW p \in Process PROVE HourOf(endTime[p]) \in 0..23
    <3>1. CASE wpc[p] \in {"runs", "time"}
      BY <3>1, NoFaceTyped DEF ReportInv, Stamped
    <3>2. CASE wpc[p] \in {"date", "ended"}
      <4>1. timedAt[p] \in DOMAIN Times /\ endTime[p] = FaceOf(Times[timedAt[p]].hour)
        BY <3>2 DEF ReportInv, Stamped
      <4> QED
        BY <4>1, TimesTyped, HourThereAndBack
    <3> QED
      BY <3>1, <3>2 DEF ReportInv, WorkersTyped
  <2>2. now \in DOMAIN Times /\ NoRepeats(finishedList)
    BY DEF ReportInv, WorkersTyped, ReportTyped
  <2> QED
    BY <2>1, <2>2 DEF TypeOK, NoRepeats, ToSet
<1> QED
  BY <1>1, ReportInvariant, PTL

\* A process that does not change while WriteSummary runs is in the list of its status
\* and in no other.
THEOREM SteadyAlwaysShownOnce == Spec => []SteadyShownOnce
<1>1. ReportInv => SteadyShownOnce
  BY DEF ReportInv, FirstPass, SecondPass, SteadyShownOnce
<1> QED
  BY <1>1, ReportInvariant, PTL

\* The key of a process whose time and date were read on one day is the moment at
\* which the time was read.
LEMMA KeyIsMoment ==
  ASSUME ReportInv, rpc = "shown", NEW p \in Process, keys[p].day > 0, WellStamped(p)
  PROVE  /\ timedAt[p] \in DOMAIN Times
         /\ keys[p].day = Times[timedAt[p]].day
         /\ keys[p].hour = Times[timedAt[p]].hour
<1>1. wpc[p] = "ended" /\ keys[p] = BuildEndTimestampKey(p)
  BY DEF ReportInv, KeysFinal
<1>2. /\ timedAt[p] \in DOMAIN Times /\ endTime[p] = FaceOf(Times[timedAt[p]].hour)
      /\ endDate[p] = Times[datedAt[p]].day
  BY <1>1 DEF ReportInv, Stamped
<1>3. HourOf(endTime[p]) = Times[timedAt[p]].hour
  BY <1>2, TimesTyped, HourThereAndBack
<1> QED
  BY <1>1, <1>2, <1>3 DEF BuildEndTimestampKey, WellStamped

\* The order of the keys is the order in which the processes ended, at noon and at
\* midnight too.
THEOREM FinishedAlwaysInOrder == Spec => []FinishedInOrder
<1>1. ReportInv => FinishedInOrder
  <2> SUFFICES ASSUME ReportInv, rpc = "shown",
                      \A p \in ToSet(finishedList) : wpc[p] = "ended" /\ keys[p].day > 0,
                      NEW i \in DOMAIN finishedList, NEW j \in DOMAIN finishedList, i < j,
                      WellStamped(finishedList[i]), WellStamped(finishedList[j])
               PROVE  timedAt[finishedList[i]] <= timedAt[finishedList[j]]
    BY DEF FinishedInOrder
  <2> DEFINE p == finishedList[i]
             q == finishedList[j]
  <2>1. p \in Process /\ q \in Process /\ keys[p].day > 0 /\ keys[q].day > 0
    BY DEF ReportInv, ReportTyped, NoRepeats, ToSet
  <2>2. ~Before(keys[q], keys[p])
    BY DEF ReportInv, Sorted, InKeyOrder
  <2>3. /\ timedAt[p] \in DOMAIN Times /\ timedAt[q] \in DOMAIN Times
        /\ keys[p].day = Times[timedAt[p]].day /\ keys[p].hour = Times[timedAt[p]].hour
        /\ keys[q].day = Times[timedAt[q]].day /\ keys[q].hour = Times[timedAt[q]].hour
    BY <2>1, KeyIsMoment
  <2> HIDE DEF p, q
  <2>4. timedAt[p] \in Nat /\ timedAt[q] \in Nat
    BY <2>3, TimesTyped
  <2>5. ~(timedAt[q] < timedAt[p])
    <3> SUFFICES ASSUME timedAt[q] < timedAt[p] PROVE FALSE
      OBVIOUS
    <3>1. Before(keys[q], keys[p])
      BY <2>3, TimesAssumption DEF Before
    <3> QED
      BY <2>2, <3>1
  <2> QED
    BY <2>4, <2>5 DEF p, q
<1> QED
  BY <1>1, ReportInvariant, PTL
=============================================================================
