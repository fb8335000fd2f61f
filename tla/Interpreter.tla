----------------------------- MODULE Interpreter -----------------------------
(***************************************************************************)
(* What the text of a program says: its commands take effect one after the *)
(* other, each exactly once and as a whole.  There are no page faults, no  *)
(* cached values and no second attempts.  Two things can spoil it:         *)
(*   - an access violation, which ends the program;                        *)
(*   - a command given up after too many page faults.  It is counted, may  *)
(*     have left anything in the places it writes to, and nothing elsewhere*)
(* Module ExecutionRefinement shows that Execution implements this.        *)
(***************************************************************************)
EXTENDS Instructions

CONSTANT Code       \* the instructions that there are, in programs and bodies

VARIABLES
    program,    \* the sequence of commands
    executed,   \* how many of them are done
    gaveUp,     \* which of these were given up
    state,      \* memory, variable names, last message, sleep asked for
    stopped     \* an access violation has ended the program

vars == <<program, executed, gaveUp, state, stopped>>

Load(m, a) == m[a + 1] * 256 + m[a]
Store(m, a, v) == [m EXCEPT ![a] = v % 256, ![a + 1] = v \div 256]

State ==
    [mem : [Address -> 0..255], names : [Slot -> STRING \cup {""}],
     shown : Seq(0..MaxWord), nap : 0..LongestSleep, violated : BOOLEAN]

\* A program at work: the instructions left to do, and the state.
Configuration == [todo : Seq(Code), state : State]

InitialState ==
    [mem |-> [a \in Address |-> 0], names |-> [s \in Slot |-> ""],
     shown |-> <<>>, nap |-> 0, violated |-> FALSE]

OperandValue(s, ins, operand) ==
    IF operand.kind = "literal" THEN LiteralValue(ins, operand.value)
    ELSE IF IsDeclared(s.names, operand.name)
    THEN Load(s.mem, SlotAddress(FindVariable(s.names, operand.name)))
    ELSE 0

Assign(s, x, v) ==
    LET slots == TargetSlots(s.names, x)
        k     == FirstOf(slots)
    IN  IF slots = {} THEN s
        ELSE [s EXCEPT !.names[k] = x, !.mem = Store(s.mem, SlotAddress(k), v)]

Accessible(a) == a \in Address /\ a + 2 <= VirtualBytes

Violation(s) == [s EXCEPT !.violated = TRUE]

Values(ins, s) == [i \in 1..Len(ins.args) |-> OperandValue(s, ins, ins.args[i])]

\* What an instruction by itself does to the state.
Effect(ins, s) ==
    LET values == Values(ins, s)
    IN  CASE ins.op \in {"DECLARE", "ADD", "SUBTRACT"} ->
                Assign(s, ins.target, Result(ins, values))
          [] ins.op = "READ"  ->
                IF ~Accessible(ins.address) THEN Violation(s)
                ELSE Assign(s, ins.target, Load(s.mem, ins.address))
          [] ins.op = "WRITE" ->
                IF ~Accessible(ins.address) THEN Violation(s)
                ELSE [s EXCEPT !.mem = Store(s.mem, ins.address, values[1])]
          [] ins.op = "PRINT" -> [s EXCEPT !.shown = values]
          [] ins.op = "SLEEP" -> [s EXCEPT !.nap = SleepAfter(s.nap, values[1])]
          [] ins.op \in {"FOR", "NULL"} -> s

\* What is left of it: the body of a FOR, as often as its count says.
Body(ins, s) == IF ins.op = "FOR" THEN Unrolled(ins.body, Values(ins, s)[1]) ELSE <<>>

Step(c) == [todo  |-> Body(Head(c.todo), c.state) \o Tail(c.todo),
            state |-> Effect(Head(c.todo), c.state)]

\* The state when nothing is left to do.
RunAll[c \in Configuration] == IF c.todo = <<>> THEN c.state ELSE RunAll[Step(c)]

\* A command starts awake: a sleep asked for by the one before is over.
Begin(ins, s) == [todo |-> <<ins>>, state |-> [s EXCEPT !.nap = 0]]
After(ins, s) == RunAll[Begin(ins, s)]

\* An instruction and those it repeats, at any depth.
Repeated(ins) ==
    IF \/ ins.op # "FOR"
       \/ ins.args[1].kind = "literal" /\ LiteralValue(ins, ins.args[1].value) = 0
    THEN {} ELSE {ins.body[i] : i \in DOMAIN ins.body}
Parts[ins \in Code] == {ins} \cup UNION {Parts[i] : i \in Repeated(ins)}

\* The variables and the addresses that a command may write.
Targets(ins) == {i.target : i \in Parts[ins]} \ {""}
WrittenBy(ins, names) ==
    LET starts == {i.address : i \in {j \in Parts[ins] : j.op = "WRITE"}}
                    \cup {SlotAddress(s) : s \in {t \in Slot : names[t] \in Targets(ins)}}
    IN  starts \cup {a + 1 : a \in starts}

-----------------------------------------------------------------------------
Init(programs) ==
    /\ program \in programs
    /\ executed = 0
    /\ gaveUp = {}
    /\ state = InitialState
    /\ stopped = FALSE

Command == program[executed + 1]
Active == ~stopped /\ executed < Len(program)

\* After a command was given up, a SLEEP may go by a value that is not in memory.
Execute ==
    /\ Active
    /\ ~After(Command, state).violated
    /\ \E ticks \in 0..LongestSleep :
          /\ gaveUp = {} => ticks = After(Command, state).nap
          /\ state' = [After(Command, state) EXCEPT !.nap = ticks]
    /\ executed' = executed + 1
    /\ UNCHANGED <<program, gaveUp, stopped>>

Violate ==
    /\ Active
    /\ After(Command, state).violated
    /\ stopped' = TRUE
    /\ UNCHANGED <<program, executed, gaveUp, state>>

GiveUp ==
    /\ Active
    /\ executed' = executed + 1
    /\ gaveUp' = gaveUp \cup {executed + 1}
    /\ \A a \in Address \ WrittenBy(Command, state'.names) : state'.mem[a] = state.mem[a]
    /\ \A s \in Slot : \/ state'.names[s] = state.names[s]
                       \/ state.names[s] = "" /\ state'.names[s] \in Targets(Command)
    /\ UNCHANGED <<program, stopped>>

Next == Execute \/ Violate \/ GiveUp

Spec(programs) == Init(programs) /\ [][Next]_vars
=============================================================================
