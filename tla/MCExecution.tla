---------------------------- MODULE MCExecution ----------------------------
(***************************************************************************)
(* Programs for TLC.  With two slots the third variable finds the table    *)
(* full; addresses 0..3 hold the slots, 4..7 are data, 7 is the first      *)
(* address at which a word does not fit, 8 does not parse.                 *)
(***************************************************************************)
EXTENDS ExecutionRefinement, SequencesExt

x == "x"
y == "y"
z == "z"

\* A command that writes over the slots of the table.
Overwriting ==
    <<Write(0, Literal(70000)), PrintVar(""), Declare(x, 1), Write(1, Variable(y)), Sleep(Variable(x))>>

\* No command writes what it has read.
Repeatable == {
    <<Declare(x, 65535), Add(y, Variable(x), Literal(2)), Subtract(x, Literal(1), Variable(y)),
      PrintVar(x)>>,
    <<Declare(x, 258), Write(4, Variable(x)), Read(y, 5), Sleep(Variable(y)), PrintText>>,
    <<For(Literal(2), <<Declare(x, 3), NullInstruction, Declare(y, 7)>>), Add(z, Variable(x), Variable(y)),
      PrintVar(z)>>,
    Overwriting,
    <<Declare(x, 5), For(Literal(2), <<Write(7, Variable(x)), Sleep(Literal(2))>>), PrintVar(x)>>,
    <<Declare(x, 5), For(Literal(1), <<Sleep(Variable(x)), Read(y, 8)>>)>> }

\* The target of the command is one of its operands.
SelfAdd == {<<Declare("varA", 10), Declare("varB", 5),
              Add("varA", Variable("varA"), Variable("varB"))>>}

\* The commands and the lines of the bodies.
CodeOf(programs) ==
    LET commands == UNION {ToSet(p) : p \in programs}
    IN  commands \cup UNION {ToSet(ins.body) : ins \in commands}

RepeatableCode == CodeOf(Repeatable)
SelfAddCode == CodeOf(SelfAdd)

\* Which of them the proof covers.
ASSUME RepeatableAssumption ==
    \A p \in Programs : CanBeRepeated(p) <=> p \in Repeatable \ {Overwriting}
=============================================================================
