----------------------------- MODULE Execution -----------------------------
(***************************************************************************)
(* One process executes its commands (Process::ExecuteNextCommand) with    *)
(* its symbol table, on the memory that module FlatMemory specifies and    *)
(* module Paging implements.                                               *)
(*                                                                         *)
(* Every call of MemoryManager is a step, because any of them may find its *)
(* page evicted by another process.  An access that faults leaves a flag;  *)
(* the instruction goes on regardless, with whatever it has, and the whole *)
(* command is executed again while the flag is found set.  What the worker *)
(* does between two commands is in module Scheduler.                       *)
(***************************************************************************)
EXTENDS Instructions

CONSTANTS
    Self,           \* the process
    Code,           \* the instructions that there are, in programs and bodies
    Programs,       \* the sequences of commands it may have been given
    MaxAttempts     \* maxPageFaultRetries (256)

ASSUME ExecutionAssumption == MaxAttempts \in Nat \ {0}

ASSUME CodeAssumption ==
    /\ \A ins \in Code : ins \in InstructionOver(Code) /\ Len(ins.args) >= Arity(ins.op)
    /\ \A ins \in Code : ins.op = "READ" => ins.args = <<>>
    /\ Programs \subseteq Seq(Code)

VARIABLES
    program,        \* Process::commands
    executed,       \* Process::executedCommandCount
    attempt,        \* how often the current command has been begun
    pc,             \* where ExecuteNextCommand is
    todo,           \* instructions left in this attempt; FOR unrolls into it
    values,         \* what the current instruction has resolved or read
    table,          \* SymbolTable::table, [Slot -> name and last known value]
    logs,           \* Process::logs, the messages of PRINT
    nap,            \* ticks the process has asked to sleep, 0 if it has not
    violated,       \* Process::memoryAccessViolation
    gaveUp,         \* auxiliary: commands counted although they still faulted
    committed,      \* auxiliary: the visible state after the last counted one
    mem, registered, retryPending, reply    \* of FlatMemory

Memory == INSTANCE FlatMemory WITH Pid <- {Self}, Value <- 0..MaxWord

thread == <<program, executed, attempt, pc, todo, values>>
effects == <<table, logs, nap, violated>>
auxiliary == <<gaveUp, committed>>
memory == <<mem, registered, retryPending, reply>>
vars == <<thread, effects, auxiliary, memory>>

Names == [s \in Slot |-> table[s].name]

Visible(m, names, log, ticks) ==
    [mem |-> m, names |-> names, nap |-> ticks, violated |-> FALSE,
     shown |-> IF log = <<>> THEN <<>> ELSE log[Len(log)]]

Init ==
    /\ program \in Programs
    /\ executed = 0
    /\ attempt = 0
    /\ pc = "Create"
    /\ todo = <<>>
    /\ values = <<>>
    /\ table = [s \in Slot |-> [name |-> "", value |-> 0]]
    /\ logs = <<>>
    /\ nap = 0
    /\ violated = FALSE
    /\ gaveUp = {}
    /\ Memory!Init
    /\ committed = Visible(mem[Self], Names, logs, nap)

-----------------------------------------------------------------------------
(***************************************************************************)
(* Around an attempt                                                       *)
(***************************************************************************)

\* The generator gives up on a process whose memory is refused.
RegisterProcess ==
    /\ pc = "Create"
    /\ Memory!Register(Self)
    /\ pc' = IF reply'.result = "True" THEN "Next" ELSE "Refused"
    /\ UNCHANGED <<program, executed, attempt, todo, values, effects, auxiliary>>

HasRemainingCommands == executed < Len(program)
Command == program[executed + 1]

\* The worker comes back to the process when its sleep, if any, is over.
ExecuteNextCommand ==
    /\ pc = "Next"
    /\ HasRemainingCommands
    /\ attempt' = 1
    /\ nap' = 0
    /\ pc' = "Reset"
    /\ UNCHANGED <<program, executed, todo, values, table, logs, violated, auxiliary, memory>>

ResetFlag ==
    /\ pc = "Reset"
    /\ Memory!ResetFlag(Self)
    /\ pc' = "Execute"
    /\ todo' = <<Command>>
    /\ values' = <<>>
    /\ UNCHANGED <<program, executed, attempt, effects, auxiliary>>

ExecuteReturns == pc = "Execute" /\ todo = <<>>

\* Neither counted nor tried again, whether or not the flag is set.
StopAfterViolation ==
    /\ ExecuteReturns
    /\ violated
    /\ pc' = "Stopped"
    /\ UNCHANGED <<program, executed, attempt, todo, values, effects, auxiliary, memory>>

\* Fault: a faulting command does not use up its attempts.
NextAttemptForgotten == attempt

NextAttempt == attempt + 1

Retry == reply'.result = "True" /\ attempt < MaxAttempts

\* The flag decides; on the last attempt the command counts in any case.
ConsumeFlag ==
    /\ ExecuteReturns
    /\ ~violated
    /\ Memory!ConsumeFlag(Self)
    /\ IF Retry
       THEN /\ attempt' = NextAttempt
            /\ pc' = "Reset"
            /\ UNCHANGED <<executed, auxiliary>>
       ELSE /\ executed' = executed + 1
            /\ pc' = "Next"
            /\ gaveUp' = IF reply'.result = "True" THEN gaveUp \cup {executed + 1} ELSE gaveUp
            /\ committed' = Visible(mem[Self], Names, logs, nap)
            /\ UNCHANGED attempt
    /\ UNCHANGED <<program, todo, values, effects>>

-----------------------------------------------------------------------------
(***************************************************************************)
(* Inside an attempt: the instruction at the head of todo.                 *)
(***************************************************************************)
Ins == todo[1]

At(ops) == pc = "Execute" /\ todo # <<>> /\ Ins.op \in ops

Resolved == ~BadAddress(Ins) /\ Len(values) = Len(Ins.args)

\* The instruction returns.
Done ==
    /\ todo' = Tail(todo)
    /\ values' = <<>>

Unmoved == UNCHANGED <<program, executed, attempt, pc, auxiliary>>

FreshWord == Append(values, reply'.value)

\* Fault: the table is believed.
GetVariableCached(s) ==
    /\ values' = Append(values, table[s].value)
    /\ UNCHANGED <<table, memory>>

\* A variable whose page is not there yields the value last seen, and the
\* instruction goes on.  (A slot of a registered process is never a violation.)
GetVariable(s) ==
    \/ /\ Memory!Read(Self, SlotAddress(s))
       /\ values' = FreshWord
       /\ table' = [table EXCEPT ![s].value = reply'.value]
    \/ /\ Memory!Fault(Self, SlotAddress(s))
       /\ values' = Append(values, table[s].value)
       /\ UNCHANGED table

\* Operand::Resolve; a name that is not declared is 0.
Resolve(operand) ==
    \/ /\ operand.kind = "literal"
       /\ values' = Append(values, LiteralValue(Ins, operand.value))
       /\ UNCHANGED <<table, memory>>
    \/ /\ operand.kind = "variable"
       /\ ~IsDeclared(Names, operand.name)
       /\ values' = Append(values, 0)
       /\ UNCHANGED <<table, memory>>
    \/ /\ operand.kind = "variable"
       /\ IsDeclared(Names, operand.name)
       /\ GetVariable(FindVariable(Names, operand.name))

ResolveOperand ==
    /\ pc = "Execute"
    /\ todo # <<>>
    /\ ~BadAddress(Ins)
    /\ Len(values) < Len(Ins.args)
    /\ Resolve(Ins.args[Len(values) + 1])
    /\ Unmoved
    /\ UNCHANGED <<todo, logs, nap, violated>>

\* The place and the value that the table is about to hold for x.
Entry(x, v) == [name |-> x, value |-> v]

WriteSlot(s, v) ==
    \/ Memory!Write(Self, SlotAddress(s), v)
    \/ Memory!Fault(Self, SlotAddress(s))

\* Fault: a value the table already holds is not written again.
SetVariableIfNew(x, v) ==
    \/ /\ \/ TargetSlots(Names, x) = {}
          \/ \E s \in Slot : table[s] = Entry(x, v)
       /\ UNCHANGED <<table, memory>>
    \/ \E s \in TargetSlots(Names, x) :
          /\ table[s] # Entry(x, v)
          /\ table' = [table EXCEPT ![s] = Entry(x, v)]
          /\ WriteSlot(s, v)

\* The table knows the new value even if the write to the slot faults.  A full
\* table drops a new variable without a word.
SetVariable(x, v) ==
    \/ /\ TargetSlots(Names, x) = {}
       /\ UNCHANGED <<table, memory>>
    \/ \E s \in TargetSlots(Names, x) :
          /\ table' = [table EXCEPT ![s] = Entry(x, v)]
          /\ WriteSlot(s, v)

HasResult ==
    \/ Ins.op = "READ" /\ values # <<>>
    \/ Ins.op # "READ" /\ Resolved

\* The last step of DECLARE, ADD, SUBTRACT and READ.
AssignResult ==
    /\ At({"DECLARE", "ADD", "SUBTRACT", "READ"})
    /\ HasResult
    /\ SetVariable(Ins.target, Result(Ins, values))
    /\ Done
    /\ Unmoved
    /\ UNCHANGED <<logs, nap, violated>>

\* READ and WRITE of what is no 16-bit address terminate the process; a FOR
\* around them goes on with its body.
RejectAddress ==
    /\ At({"READ", "WRITE"})
    /\ BadAddress(Ins)
    /\ violated' = TRUE
    /\ Done
    /\ Unmoved
    /\ UNCHANGED <<table, logs, nap, memory>>

ReadMemory ==
    /\ At({"READ"})
    /\ Resolved
    /\ \/ /\ Memory!Read(Self, Ins.address)
          /\ values' = FreshWord
          /\ UNCHANGED <<todo, violated>>
       \/ /\ Memory!Fault(Self, Ins.address)
          /\ Done
          /\ UNCHANGED violated
       \/ /\ Memory!Violate(Self, Ins.address)
          /\ Done
          /\ violated' = TRUE
    /\ Unmoved
    /\ UNCHANGED <<table, logs, nap>>

WriteMemory ==
    /\ At({"WRITE"})
    /\ Resolved
    /\ \/ /\ \/ Memory!Write(Self, Ins.address, values[1])
             \/ Memory!Fault(Self, Ins.address)
          /\ UNCHANGED violated
       \/ /\ Memory!Violate(Self, Ins.address)
          /\ violated' = TRUE
    /\ Done
    /\ Unmoved
    /\ UNCHANGED <<table, logs, nap>>

PrintMessage ==
    /\ At({"PRINT"})
    /\ Resolved
    /\ logs' = Append(logs, values)
    /\ Done
    /\ Unmoved
    /\ UNCHANGED <<table, nap, violated, memory>>

SleepForTicks ==
    /\ At({"SLEEP"})
    /\ Resolved
    /\ nap' = SleepAfter(nap, values[1])
    /\ Done
    /\ Unmoved
    /\ UNCHANGED <<table, logs, violated, memory>>

\* The count is resolved once; the body then runs in full.
UnrollFor ==
    /\ At({"FOR"})
    /\ Resolved
    /\ todo' = Unrolled(Ins.body, values[1]) \o Tail(todo)
    /\ values' = <<>>
    /\ Unmoved
    /\ UNCHANGED <<effects, memory>>

\* A body line that could not be built is passed over.
SkipNull ==
    /\ pc = "Execute"
    /\ todo # <<>>
    /\ ~IsInstruction(Ins)
    /\ Done
    /\ Unmoved
    /\ UNCHANGED <<effects, memory>>

-----------------------------------------------------------------------------
Attempt ==
    \/ ResolveOperand \/ AssignResult \/ RejectAddress \/ ReadMemory
    \/ WriteMemory \/ PrintMessage \/ SleepForTicks \/ UnrollFor \/ SkipNull

Finished == pc \in {"Stopped", "Refused"} \/ (pc = "Next" /\ ~HasRemainingCommands)

Rest == Finished /\ UNCHANGED vars

Next ==
    \/ RegisterProcess \/ ExecuteNextCommand \/ ResetFlag
    \/ StopAfterViolation \/ ConsumeFlag \/ Attempt
    \/ Rest

\* A worker thread that executes the process goes on; no step of it waits.
Spec == Init /\ [][Next]_vars /\ WF_vars(Next)

-----------------------------------------------------------------------------
(***************************************************************************)
(* Properties                                                              *)
(***************************************************************************)

\* A variable lives in one slot, and the slots fill from the first.
SlotsExact ==
    \A s, t \in Slot :
        /\ s # t /\ Names[s] = Names[t] => Names[s] = ""
        /\ s < t /\ Names[s] = "" => Names[t] = ""

\* Types, and the shape of the table.  In particular no arithmetic leaves 16 bits,
\* and a retried command never allots a second slot to a name it has already
\* placed (SymbolTable::SetVariable, called again by each attempt).
TypeOK ==
    /\ executed \in 0..Len(program)
    /\ attempt \in 0..MaxAttempts
    /\ \A i \in DOMAIN values : values[i] \in 0..MaxWord
    /\ \A s \in Slot : table[s].value \in 0..MaxWord
    /\ SlotsExact
    /\ nap \in 0..LongestSleep
    /\ mem[Self] \in [Address -> 0..255]
    /\ gaveUp \subseteq 1..executed

WordAt(a) == Memory!Word(mem[Self][a], mem[Self][a + 1])

CurrentValue(x) ==
    IF IsDeclared(Names, x) THEN WordAt(SlotAddress(FindVariable(Names, x))) ELSE 0

\* An operand whose value is not the variable's value in memory is only used in
\* an attempt that will be repeated: a stale value never reaches an attempt
\* that counts before the retries are exhausted (SymbolTable::GetVariable and
\* Process::ExecuteNextCommand).
StaleIsRetried ==
    (pc = "Execute" /\ todo # <<>> /\ Self \notin retryPending) =>
        \A i \in 1..Smaller(Len(values), Len(Ins.args)) :
            Ins.args[i].kind = "variable" => values[i] = CurrentValue(Ins.args[i].name)

\* Every program ends, however many accesses fault.
ProgramFinishes == <>Finished
=============================================================================
