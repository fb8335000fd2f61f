------------------------- MODULE ExecutionRefinement -------------------------
(***************************************************************************)
(* What Execution makes of a program, compared with what the text of the   *)
(* program says (Interpreter).  The visible state of the program is that   *)
(* after its last counted command; what an attempt does before it counts   *)
(* is not seen, and must not be seen later either.                         *)
(***************************************************************************)
EXTENDS Execution

Sequential == INSTANCE Interpreter WITH state <- committed, stopped <- (pc = "Stopped")

(***************************************************************************)
(* A faulting command is begun again, on top of what it has done so far.   *)
(* That comes to the same if it uses no variable that it assigns to,       *)
(* writes nothing it uses, does not depend on a variable for how often it  *)
(* repeats its body, and places no other variable beside the one of a      *)
(* READ, which is skipped when it faults.  A SLEEP in a faulting attempt   *)
(* goes by what the table remembers of a variable, which is right unless   *)
(* some command writes to the slots of the table by their addresses.       *)
(***************************************************************************)
SlotBytes == 0..(2 * Slots - 1)

AssignedIn(parts) == {i.target : i \in {j \in parts : j.op \in {"DECLARE", "ADD", "SUBTRACT", "READ"}}}
WrittenIn(parts) == UNION {{i.address, i.address + 1} : i \in {j \in parts : j.op = "WRITE"}}
VariablesOf(ins) ==
    {ins.args[k].name : k \in {j \in DOMAIN ins.args : ins.args[j].kind = "variable"}}

CommandCanBeRepeated(ins) ==
    LET parts == Sequential!Parts[ins]
        names == AssignedIn(parts)
    IN  /\ "" \notin names
        /\ \A i \in parts :
              /\ VariablesOf(i) \cap names = {}
              /\ "" \in VariablesOf(i) => names = {}
              /\ VariablesOf(i) # {} => WrittenIn(parts) \cap SlotBytes = {}
              /\ i.op = "FOR" => VariablesOf(i) = {}
              /\ i.op = "READ" =>
                    /\ {i.address, i.address + 1} \cap (WrittenIn(parts) \cup SlotBytes) = {}
                    /\ names = {i.target}

CanBeRepeated(commands) ==
    LET parts == UNION {Sequential!Parts[commands[k]] : k \in DOMAIN commands}
    IN  /\ \A k \in DOMAIN commands : CommandCanBeRepeated(commands[k])
        /\ (\E i \in parts : i.op = "SLEEP" /\ VariablesOf(i) # {}) =>
              WrittenIn(parts) \cap SlotBytes = {}

\* Through faults in any place and any number of attempts, a program behaves as
\* its text says: each command takes effect once and as a whole.  This holds for
\* the programs that can be repeated, and for those of the passing run; it fails
\* for others (AddedOnce below).
ImplementsInterpreter == Sequential!Init(Programs) /\ [][Sequential!Next]_(Sequential!vars)

-----------------------------------------------------------------------------
(***************************************************************************)
(* A program that the code does not execute as written.                    *)
(***************************************************************************)
Complete == Finished /\ executed = Len(program) /\ gaveUp = {}

\* ADD varA varA varB adds once.  Stated for a program that declares varA 10 and
\* varB 5 and then adds them.
AddedOnce == Complete => CurrentValue("varA") = 15
=============================================================================
