------------------------------ MODULE Generator ------------------------------
(***************************************************************************)
(* DummyProcessGenerator and the registry of processes.                    *)
(*                                                                         *)
(* Processes are made by the clock thread (OnTick, while generation is on) *)
(* and by the console thread (screen -s, screen -c).  The next id, the     *)
(* table of screens and the list of processes are shared without a lock,   *)
(* so a thread can be overtaken between any two accesses to them: every    *)
(* such access is a step.  The page tables and the ready queue have locks. *)
(***************************************************************************)
EXTENDS ConsoleManager, FiniteSets

CONSTANT MaxProcesses   \* how many processes may be made

Creator == {"clock", "console"}

VARIABLES
    nextProcessId,
    processes,      \* all objects made: id, name, maker, status
    pageTables,     \* ids that MemoryManager knows
    scheduled,      \* processes handed to the scheduler and not ended
    registry,       \* ProcessList::processes, indices into `processes`
    pc,             \* where each creating thread is
    draft           \* what GenerateOne holds in locals, for each thread

genVars == <<nextProcessId, processes, pageTables, scheduled, registry, pc, draft>>

\* "p01", "p02", ..., "p10"
MakeProcessName(id) ==
    IF id < 10 THEN "p0" \o ToString(id) ELSE "p" \o ToString(id)

\* They differ from each other and from the name of the main console.
ASSUME NamesAssumption ==
    \A i, j \in 1..MaxProcesses :
        /\ MakeProcessName(i) = MakeProcessName(j) => i = j
        /\ MakeProcessName(i) # MAIN_CONSOLE_NAME

\* id: the id read for the process; seen: the id read for the increment;
\* index: the object; list: the list as push_back finds it.
NoDraft == [name |-> "", id |-> 0, seen |-> 0, index |-> 0, list |-> <<>>]

InitGenerator ==
    /\ nextProcessId = 1
    /\ processes = <<>>
    /\ pageTables = {}
    /\ scheduled = {}
    /\ registry = <<>>
    /\ pc = [t \in Creator |-> "idle"]
    /\ draft = [t \in Creator |-> NoDraft]

ProcessesNamed(name) == {i \in DOMAIN registry : processes[registry[i]].name = name}

\* The first of that name in the list.
GetProcessByName(name) ==
    registry[CHOOSE i \in ProcessesNamed(name) : \A j \in ProcessesNamed(name) : i <= j]

RunningCount == Cardinality({i \in DOMAIN registry : processes[registry[i]].status = "Running"})

At(t, loc) == pc[t] = loc
Goto(t, loc) == pc' = [pc EXCEPT ![t] = loc]
Keep(t, field, v) == draft' = [draft EXCEPT ![t][field] = v]

InDraft == Cardinality({t \in Creator : pc[t] \in {"construct", "register"}})
RoomForAnother == Len(processes) + InDraft < MaxProcesses

-----------------------------------------------------------------------------
(***************************************************************************)
(* GenerateOne and GenerateOneWithInstruction.  customName is "" for the   *)
(* clock.                                                                  *)
(***************************************************************************)
ChooseName(t, customName) ==
    IF customName = "" THEN MakeProcessName(nextProcessId) ELSE customName

BeginGenerate(t, customName) ==
    /\ RoomForAnother
    /\ draft' = [draft EXCEPT ![t] = [NoDraft EXCEPT !.name = ChooseName(t, customName)]]
    /\ Goto(t, "construct")
    /\ UNCHANGED <<nextProcessId, processes, pageTables, scheduled, registry>>

\* The id is read a second time.
ConstructProcess(t) ==
    /\ At(t, "construct")
    /\ Keep(t, "id", nextProcessId)
    /\ Goto(t, "register")
    /\ UNCHANGED <<nextProcessId, processes, pageTables, scheduled, registry>>

\* The size does not fit, or screen -c was given what InstructionBuilder
\* refuses: nothing has been registered yet.
RefuseProcess(t) ==
    /\ At(t, "register")
    /\ Goto(t, "idle")
    /\ draft' = [draft EXCEPT ![t] = NoDraft]
    /\ UNCHANGED <<nextProcessId, processes, pageTables, scheduled, registry>>

RegisterProcess(t) ==
    /\ At(t, "register")
    /\ pageTables' = pageTables \cup {draft[t].id}
    /\ processes' = Append(processes, [id |-> draft[t].id, name |-> draft[t].name,
                                       by |-> t, status |-> "Ready"])
    /\ Keep(t, "index", Len(processes) + 1)
    /\ Goto(t, "increment")
    /\ UNCHANGED <<nextProcessId, scheduled, registry>>

\* ++nextProcessId on a plain int: read, then write.
ReadNextId(t) ==
    /\ At(t, "increment")
    /\ Keep(t, "seen", nextProcessId)
    /\ Goto(t, "store_id")
    /\ UNCHANGED <<nextProcessId, processes, pageTables, scheduled, registry>>

\* Faults: the counter is incremented twice, or left as it is.
StoreNextIdTwice(t) ==
    /\ At(t, "store_id")
    /\ nextProcessId' = draft[t].seen + 2
    /\ Goto(t, "find_screen")
    /\ UNCHANGED <<processes, pageTables, scheduled, registry, draft>>

StoreNextIdForgotten(t) ==
    /\ At(t, "store_id")
    /\ Goto(t, "find_screen")
    /\ UNCHANGED <<nextProcessId, processes, pageTables, scheduled, registry, draft>>

StoreNextId(t) ==
    /\ At(t, "store_id")
    /\ nextProcessId' = draft[t].seen + 1
    /\ Goto(t, "find_screen")
    /\ UNCHANGED <<processes, pageTables, scheduled, registry, draft>>

\* RegisterScreen(screen, false) skips a name that has a screen, silently.
FindScreen(t) ==
    /\ At(t, "find_screen")
    /\ Goto(t, IF HasScreen(draft[t].name) THEN "schedule" ELSE "insert_screen")
    /\ UNCHANGED <<nextProcessId, processes, pageTables, scheduled, registry, draft>>

AddScreen(t) ==
    /\ At(t, "insert_screen")
    /\ InsertScreen(Screen(draft[t].name, draft[t].index))
    /\ Goto(t, "schedule")
    /\ UNCHANGED <<nextProcessId, processes, pageTables, scheduled, registry, draft>>

\* From here on a worker may run it, before it is in the list.
AddToScheduler(t) ==
    /\ At(t, "schedule")
    /\ scheduled' = scheduled \cup {draft[t].index}
    /\ Goto(t, "list")
    /\ UNCHANGED <<nextProcessId, processes, pageTables, registry, draft>>

\* push_back on a vector without a lock: of two at once, one may be lost.
ReadList(t) ==
    /\ At(t, "list")
    /\ Keep(t, "list", registry)
    /\ Goto(t, "append")
    /\ UNCHANGED <<nextProcessId, processes, pageTables, scheduled, registry>>

AppendToList(t) ==
    /\ At(t, "append")
    /\ registry' = Append(draft[t].list, draft[t].index)
    /\ draft' = [draft EXCEPT ![t] = NoDraft]
    /\ Goto(t, "idle")
    /\ UNCHANGED <<nextProcessId, processes, pageTables, scheduled>>

\* The steps that leave the screens alone.
CreateStep(t) ==
    \/ ConstructProcess(t) \/ RefuseProcess(t) \/ RegisterProcess(t)
    \/ ReadNextId(t) \/ StoreNextId(t) \/ FindScreen(t) \/ AddToScheduler(t)
    \/ ReadList(t) \/ AppendToList(t)

-----------------------------------------------------------------------------
(***************************************************************************)
(* The workers, of which module Scheduler has the details: a process runs  *)
(* only while its id has a page table, and its end releases that table.    *)
(***************************************************************************)
SetStatus(k, st) == processes' = [processes EXCEPT ![k].status = st]

RunProcess(k) ==
    /\ k \in scheduled
    /\ processes[k].status = "Ready"
    /\ processes[k].id \in pageTables
    /\ SetStatus(k, "Running")
    /\ UNCHANGED <<nextProcessId, pageTables, scheduled, registry, pc, draft>>

PreemptProcess(k) ==
    /\ k \in scheduled
    /\ processes[k].status = "Running"
    /\ SetStatus(k, "Ready")
    /\ UNCHANGED <<nextProcessId, pageTables, scheduled, registry, pc, draft>>

EndProcess(k) ==
    /\ k \in scheduled
    /\ processes[k].status = "Running"
    /\ SetStatus(k, "Terminated")
    /\ scheduled' = scheduled \ {k}
    /\ pageTables' = pageTables \ {processes[k].id}
    /\ UNCHANGED <<nextProcessId, registry, pc, draft>>

WorkerStep == \E k \in DOMAIN processes : RunProcess(k) \/ PreemptProcess(k) \/ EndProcess(k)
=============================================================================
