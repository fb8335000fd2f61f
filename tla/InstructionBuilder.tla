-------------------------- MODULE InstructionBuilder --------------------------
(***************************************************************************)
(* What screen -c makes of its text: BuildInstructionsFromString, after    *)
(* the text has been split.  A parsed line has a command, operands and, if *)
(* it is a FOR, the parsed lines of its body (which are arguments too).    *)
(***************************************************************************)
EXTENDS Instructions

CONSTANTS
    Lines,                  \* the parsed lines that there are, in texts and in bodies
    Nesting,                \* how deep the lines in a line are nested
    Texts,                  \* the sequences of lines typed by the user
    MaxCustomInstructions   \* DEFAULT_MAX_CUSTOM_INSTRUCTIONS (50)

\* The text of a body is a part of the text of its FOR: nothing is nested in itself.
ASSUME BuilderAssumption ==
    /\ MaxCustomInstructions \in Nat \ {0}
    /\ \A line \in Lines :
          /\ line.args \in Seq(Operand)
          /\ line.body \in Seq(Lines)
          /\ line.body # <<>> => line.command = "FOR" /\ Len(line.args) = 1
          /\ line.command = "FOR" => Len(line.args) <= 1
    /\ Nesting \in [Lines -> Nat]
    /\ \A line \in Lines : \A i \in DOMAIN line.body : Nesting[line.body[i]] < Nesting[line]
    /\ Texts \subseteq Seq(Lines)

VARIABLES
    text,       \* the lines given
    commands,   \* Process::commands
    outcome     \* "building", "built", "refused", "thrown"

vars == <<text, commands, outcome>>

Parsed(command, args, body) == [command |-> command, args |-> args, body |-> body]

ArgCount(line) == Len(line.args) + Len(line.body)

\* An address that is no number is found out when the instruction is executed.
AddressOf(arg) == IF arg.kind = "literal" THEN arg.value ELSE VirtualBytes

NameOf(arg) == arg.name

\* DECLARE converts its value with std::stoi, which throws if it is no number.
Throws[line \in Lines] ==
    \/ /\ line.command = "DECLARE" /\ ArgCount(line) = 2
       /\ line.args[2].kind # "literal"
    \/ /\ line.command = "FOR" /\ ArgCount(line) >= 2
       /\ \E i \in DOMAIN line.body : Throws[line.body[i]]

Word(n) == n % (MaxWord + 1)

\* The instruction of a line, or null, given the instructions of its body.
Made(line, body) ==
    LET a == line.args
        n == ArgCount(line)
    IN
    CASE line.command = "DECLARE" /\ n = 2 -> Declare(NameOf(a[1]), Word(a[2].value))
      [] line.command = "ADD" /\ n = 3 -> Add(NameOf(a[1]), a[2], a[3])
      [] line.command = "SUBTRACT" /\ n = 3 -> Subtract(NameOf(a[1]), a[2], a[3])
      [] line.command = "PRINT" /\ n = 1 -> PrintText
      [] line.command = "PRINT" /\ n > 1 -> PrintVar(NameOf(a[2]))
      [] line.command = "READ" /\ n = 2 -> Read(NameOf(a[1]), AddressOf(a[2]))
      [] line.command = "WRITE" /\ n = 2 -> Write(AddressOf(a[1]), a[2])
      [] line.command = "SLEEP" /\ n = 1 -> Sleep(a[1])
      [] line.command = "FOR" /\ n >= 2 -> For(a[1], body)
      [] OTHER -> NullInstruction

\* FOR keeps the nulls of its body.
CreateInstruction[line \in Lines] ==
    Made(line, [i \in DOMAIN line.body |-> CreateInstruction[line.body[i]]])

-----------------------------------------------------------------------------
Init ==
    /\ text \in Texts
    /\ commands = <<>>
    /\ outcome = "building"

TooFewOrMany ==
    /\ outcome = "building"
    /\ Len(text) \notin 1..MaxCustomInstructions
    /\ outcome' = "refused"
    /\ UNCHANGED <<text, commands>>

Building ==
    /\ outcome = "building"
    /\ Len(text) \in 1..MaxCustomInstructions
    /\ Len(commands) < Len(text)

Line == text[Len(commands) + 1]

\* Fault: the new command is put in front.
AddLineInFront ==
    /\ Building
    /\ ~Throws[Line]
    /\ IsInstruction(CreateInstruction[Line])
    /\ commands' = <<CreateInstruction[Line]>> \o commands
    /\ UNCHANGED <<text, outcome>>

AddLine ==
    /\ Building
    /\ ~Throws[Line]
    /\ IsInstruction(CreateInstruction[Line])
    /\ commands' = Append(commands, CreateInstruction[Line])
    /\ UNCHANGED <<text, outcome>>

RefuseLine ==
    /\ Building
    /\ ~Throws[Line]
    /\ ~IsInstruction(CreateInstruction[Line])
    /\ outcome' = "refused"
    /\ UNCHANGED <<text, commands>>

\* The exception leaves main.
ThrowLine ==
    /\ Building
    /\ Throws[Line]
    /\ outcome' = "thrown"
    /\ UNCHANGED <<text, commands>>

\* The process is registered and scheduled.
Built ==
    /\ outcome = "building"
    /\ Len(text) \in 1..MaxCustomInstructions
    /\ Len(commands) = Len(text)
    /\ outcome' = "built"
    /\ UNCHANGED <<text, commands>>

Next == TooFewOrMany \/ AddLine \/ RefuseLine \/ ThrowLine \/ Built

Spec == Init /\ [][Next]_vars

-----------------------------------------------------------------------------
(***************************************************************************)
(* The formats as the messages state them, but that PRINT ignores what     *)
(* follows its variable.                                                   *)
(***************************************************************************)
Formats == [DECLARE |-> 2..2, ADD |-> 3..3, SUBTRACT |-> 3..3, PRINT |-> Nat \ {0},
            READ |-> 2..2, WRITE |-> 2..2, SLEEP |-> 1..1]

FitsFormat(line) ==
    \/ /\ line.command \in DOMAIN Formats
       /\ ArgCount(line) \in Formats[line.command]
    \/ line.command = "FOR" /\ Len(line.args) = 1 /\ line.body # <<>>

\* Literals of DECLARE fit a word, and only the body of a FOR may hold a null.
Executable[ins \in {CreateInstruction[line] : line \in Lines}] ==
    /\ ins.op \in DOMAIN Formats \cup {"FOR"}
    /\ ins.op = "DECLARE" => ins.args[1].value \in 0..MaxWord
    /\ \A i \in DOMAIN ins.body : IsInstruction(ins.body[i]) => Executable[ins.body[i]]

\* A process is made only of lines that fit their formats, one instruction for each,
\* of the command typed, in the order typed, that ExecuteNextCommand can execute;
\* and a text is refused for a line that does not fit and for nothing else: the
\* arities of the code against the formats its messages show.
BuiltAsTyped ==
    /\ outcome = "built" =>
          /\ Len(commands) = Len(text) /\ Len(text) \in 1..MaxCustomInstructions
          /\ \A i \in DOMAIN text :
                /\ FitsFormat(text[i])
                /\ commands[i].op = text[i].command
                /\ Executable[commands[i]]
    /\ outcome = "refused" /\ Len(text) \in 1..MaxCustomInstructions =>
          ~FitsFormat(Line) /\ \A i \in DOMAIN commands : FitsFormat(text[i])
=============================================================================
