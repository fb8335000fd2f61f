---------------------------- MODULE Instructions ----------------------------
(***************************************************************************)
(* The instructions of a simulated program and what their Execute methods  *)
(* compute from resolved operands, apart from when and how often they are  *)
(* run.  Shared by Execution (what the program does, with page faults and  *)
(* retries) and by Interpreter (what a reader of the program expects).     *)
(***************************************************************************)
EXTENDS Integers, Sequences

CONSTANTS
    VirtualBytes,   \* DemandPager::MAX_PROCESS_VIRTUAL_BYTES
    Slots           \* number of variables a symbol table holds (32)

ASSUME InstructionsAssumption ==
    /\ Slots \in Nat \ {0}
    /\ VirtualBytes \in Nat
    /\ 2 * Slots <= VirtualBytes

Address == 0..(VirtualBytes - 1)
Slot == 0..(Slots - 1)
MaxWord == 65535
LongestSleep == 20

\* An operand is a literal or the name of a variable.
Literal(n)  == [kind |-> "literal", value |-> n, name |-> ""]
Variable(x) == [kind |-> "variable", value |-> 0, name |-> x]

Instruction(op, target, address, args, body) ==
    [op |-> op, target |-> target, address |-> address, args |-> args, body |-> body]

Declare(x, n)     == Instruction("DECLARE", x, 0, <<Literal(n)>>, <<>>)
Add(x, a, b)      == Instruction("ADD", x, 0, <<a, b>>, <<>>)
Subtract(x, a, b) == Instruction("SUBTRACT", x, 0, <<a, b>>, <<>>)
PrintVar(x)       == Instruction("PRINT", "", 0, <<Variable(x)>>, <<>>)
PrintText         == Instruction("PRINT", "", 0, <<>>, <<>>)
Read(x, a)        == Instruction("READ", x, a, <<>>, <<>>)
Write(a, v)       == Instruction("WRITE", "", a, <<v>>, <<>>)
Sleep(v)          == Instruction("SLEEP", "", 0, <<v>>, <<>>)
For(n, body)      == Instruction("FOR", "", 0, <<n>>, body)

\* A body line that InstructionBuilder could not build is kept as a null.
NullInstruction   == Instruction("NULL", "", 0, <<>>, <<>>)

(***************************************************************************)
(* The type of an instruction, given the set its body is taken from.  (A   *)
(* literal of DECLARE may be negative; it stands here as the residue that  *)
(* the variable is given.)                                                 *)
(***************************************************************************)
Operand == [kind : {"literal", "variable"}, value : Nat, name : STRING]

Operations == {"DECLARE", "ADD", "SUBTRACT", "PRINT", "READ", "WRITE", "SLEEP", "FOR", "NULL"}

InstructionOver(Bodies) ==
    [op : Operations, target : STRING, address : Nat, args : Seq(Operand), body : Seq(Bodies)]

\* The operands an operation makes use of.
Arity(op) ==
    CASE op \in {"ADD", "SUBTRACT"} -> 2
      [] op \in {"DECLARE", "WRITE", "SLEEP", "FOR"} -> 1
      [] OTHER -> 0

-----------------------------------------------------------------------------
Smaller(m, n) == IF m <= n THEN m ELSE n

\* WRITE clamps a literal to 16 bits, the other instructions truncate it.
LiteralValue(ins, n) ==
    IF ins.op = "WRITE" THEN Smaller(n, MaxWord) ELSE n % (MaxWord + 1)

Sum(m, n) == Smaller(m + n, MaxWord)

Difference(m, n) == IF m < n THEN 0 ELSE m - n

\* What is assigned to the target; values are the resolved operands, or the
\* word that READ has read.
Result(ins, values) ==
    CASE ins.op = "ADD"      -> Sum(values[1], values[2])
      [] ins.op = "SUBTRACT" -> Difference(values[1], values[2])
      [] OTHER               -> values[1]

\* An address that does not parse as a 16-bit number.
BadAddress(ins) == ins.op \in {"READ", "WRITE"} /\ ins.address \notin Address

\* A duration of 0 leaves the process as it is.
SleepAfter(ticks, duration) ==
    IF duration = 0 THEN ticks ELSE Smaller(duration, LongestSleep)

IsInstruction(ins) == ins.op # "NULL"

\* FOR: n times the body, with what is null in it.
Unrolled(body, n) == [i \in 1..(n * Len(body)) |-> body[((i - 1) % Len(body)) + 1]]

-----------------------------------------------------------------------------
(***************************************************************************)
(* Slots of a symbol table, given the name in each; "" is a free slot.     *)
(***************************************************************************)
SlotAddress(s) == 2 * s

SlotsNamed(names, x) == {s \in Slot : names[s] = x}

FirstOf(S) == CHOOSE s \in S : \A t \in S : s <= t

FindVariable(names, x) == FirstOf(SlotsNamed(names, x))

IsDeclared(names, x) == SlotsNamed(names, x) # {}

\* Fault: a variable that has a slot is given another one.
TargetSlotsFree(names, x) == IF IsDeclared(names, "") THEN {FindVariable(names, "")} ELSE {}

\* Where SetVariable puts x: its slot, else the first free one, else nowhere.
TargetSlots(names, x) ==
    IF IsDeclared(names, x) THEN {FindVariable(names, x)}
    ELSE IF IsDeclared(names, "") THEN {FindVariable(names, "")} ELSE {}
=============================================================================
