------------------------ MODULE MCInstructionBuilder -------------------------
(***************************************************************************)
(* Texts of up to three lines for TLC, each command with too few, enough   *)
(* and too many arguments.                                                 *)
(***************************************************************************)
EXTENDS InstructionBuilder, FiniteSetsExt, SequencesExt

one == Literal(1)
x == Variable("x")

Commands == DOMAIN Formats \cup {"HALT", ""}

FlatLines == {Parsed(c, [i \in 1..n |-> x], <<>>) : c \in Commands \ {"DECLARE"}, n \in 0..4}
             \cup {Parsed("DECLARE", <<x>>, <<>>), Parsed("DECLARE", <<x, Literal(70000)>>, <<>>)}

GoodBodies == {<<Parsed("ADD", <<x, x, one>>, <<>>)>>,
               <<Parsed("FOR", <<one>>, <<Parsed("SLEEP", <<one>>, <<>>)>>),
                 Parsed("DECLARE", <<x, one>>, <<>>)>>}

BadBody == <<Parsed("SLEEP", <<one>>, <<>>), Parsed("ADD", <<x>>, <<>>)>>

\* The arguments after the first are lines, whatever they look like.
Loops == {Parsed("FOR", <<one>>, b) : b \in GoodBodies \cup {<<>>, BadBody}}
         \cup {Parsed("FOR", <<>>, <<>>)}

NoNumber == Parsed("DECLARE", <<x, x>>, <<>>)
LoopNoNumber == Parsed("FOR", <<one>>, <<Parsed("SLEEP", <<one>>, <<>>), NoNumber>>)

Typed == FlatLines \cup Loops \cup {NoNumber, LoopNoNumber}

\* At most two instructions are allowed in these instances.
TextsOf(S) == UNION {[1..n -> S] : n \in 0..2}
              \cup {[i \in 1..3 |-> Parsed("SLEEP", <<one>>, <<>>)]}

SomeTexts == TextsOf(Typed)

\* The lines typed, those in their bodies, and those in the bodies of these.
BodiesOf(S) == UNION {ToSet(line.body) : line \in S}
SomeLines == Typed \cup BodiesOf(Typed) \cup BodiesOf(BodiesOf(Typed))

Depth[line \in SomeLines] ==
    Max({0} \cup {1 + Depth[inner] : inner \in ToSet(line.body)})
=============================================================================
