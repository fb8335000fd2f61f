---------------------------- MODULE BuilderProofs ----------------------------
(***************************************************************************)
(* What InstructionBuilder makes of a text is what was typed, for texts of *)
(* any length, lines nested to any depth and any limit on their number.    *)
(*                                                                         *)
(* The three functions of the module recur on the body of a line.  It is   *)
(* shown first that each equation has a solution, so that the function is  *)
(* the one the equation describes.                                         *)
(***************************************************************************)
EXTENDS InstructionBuilder, WellFoundedInduction, TLAPS

-----------------------------------------------------------------------------
(***************************************************************************)
(* Lines are well-founded by their nesting.                                *)
(***************************************************************************)
\* The body of a line consists of lines that are nested less deep.
LEMMA BodyLines ==
  ASSUME NEW line \in Lines, NEW i \in DOMAIN line.body
  PROVE  /\ line.body[i] \in Lines
         /\ Nesting[line.body[i]] \in Nat /\ Nesting[line] \in Nat
         /\ Nesting[line.body[i]] < Nesting[line]
<1>1. line.body \in Seq(Lines)
  BY BuilderAssumption
<1>2. line.body[i] \in Lines
  BY <1>1
<1> QED
  BY <1>2, BuilderAssumption

\* A set of numbers that is not empty has a least one.
LEMMA LeastNumber ==
  ASSUME NEW T \in SUBSET Nat, T # {}
  PROVE  \E n \in T : \A m \in T : ~(m < n)
<1>1. \E n \in T : \A m \in T : ~(<<m, n>> \in OpToRel(<, Nat))
  BY NatLessThanWellFounded, WFMin, Zenon
<1>2. PICK n \in T : \A m \in T : ~(<<m, n>> \in OpToRel(<, Nat))
  BY <1>1
<1>3. ASSUME NEW m \in T PROVE ~(m < n)
  BY <1>2, m \in Nat, n \in Nat DEF OpToRel
<1> QED
  BY <1>3

\* A set of lines that is not empty has a line with no line of the set in its body.
LEMMA LeastNested ==
  ASSUME NEW S \in SUBSET Lines, S # {}
  PROVE  \E line \in S : \A i \in DOMAIN line.body : line.body[i] \notin S
<1> DEFINE T == {Nesting[line] : line \in S}
<1>1. T \in SUBSET Nat /\ T # {}
  BY BuilderAssumption
<1> HIDE DEF T
<1>2. PICK n \in T : \A m \in T : ~(m < n)
  BY <1>1, LeastNumber
<1>3. PICK line \in S : n = Nesting[line]
  BY DEF T
<1>4. ASSUME NEW i \in DOMAIN line.body, line.body[i] \in S PROVE FALSE
  <2>1. Nesting[line.body[i]] < n
    BY <1>3, BodyLines
  <2>2. Nesting[line.body[i]] \in T
    BY <1>4 DEF T
  <2> QED
    BY <2>1, <2>2, <1>2
<1> QED
  BY <1>4

-----------------------------------------------------------------------------
(***************************************************************************)
(* CreateInstruction.  Solutions for the lines nested less than n deep     *)
(* exist for every n and agree with each other; put together they solve    *)
(* the equation.                                                           *)
(***************************************************************************)
Below(n) == {line \in Lines : Nesting[line] < n}

\* The instruction of a line when f gives those of its body.
MadeBy(f, line) == Made(line, [i \in DOMAIN line.body |-> f[line.body[i]]])

Solves(f, n) == f = [line \in Below(n) |-> MadeBy(f, line)]

LEMMA MadeAlike ==
  ASSUME NEW f, NEW g, NEW line,
         \A i \in DOMAIN line.body : f[line.body[i]] = g[line.body[i]]
  PROVE  MadeBy(f, line) = MadeBy(g, line)
<1>1. [i \in DOMAIN line.body |-> f[line.body[i]]] = [i \in DOMAIN line.body |-> g[line.body[i]]]
  OBVIOUS
<1> QED
  BY <1>1, Zenon DEF MadeBy

LEMMA SolvedLine ==
  ASSUME NEW f, NEW n \in Nat, Solves(f, n), NEW line \in Below(n)
  PROVE  f[line] = MadeBy(f, line)
BY Zenon DEF Solves

LEMMA SolutionsAgree ==
  ASSUME NEW f, NEW m \in Nat, Solves(f, m), NEW g, NEW n \in Nat, Solves(g, n),
         NEW line \in Below(m), line \in Below(n)
  PROVE  f[line] = g[line]
<1> DEFINE S == {l \in Lines : l \in Below(m) /\ l \in Below(n) /\ f[l] # g[l]}
<1> SUFFICES ASSUME S # {} PROVE FALSE
  BY DEF Below
<1>1. S \in SUBSET Lines
  OBVIOUS
<1>2. PICK l \in S : \A i \in DOMAIN l.body : l.body[i] \notin S
  BY <1>1, LeastNested
<1>3. ASSUME NEW i \in DOMAIN l.body PROVE f[l.body[i]] = g[l.body[i]]
  <2>1. /\ l.body[i] \in Lines
        /\ Nesting[l.body[i]] \in Nat /\ Nesting[l] \in Nat
        /\ Nesting[l.body[i]] < Nesting[l]
    BY BodyLines
  <2>2. l.body[i] \in Below(m) /\ l.body[i] \in Below(n)
    BY <2>1 DEF Below
  <2> QED
    BY <2>1, <2>2, <1>2
<1>4. MadeBy(f, l) = MadeBy(g, l)
  BY <1>3, MadeAlike
<1>5. f[l] = MadeBy(f, l) /\ g[l] = MadeBy(g, l)
  BY SolvedLine
<1> QED
  BY <1>4, <1>5

LEMMA NextSolution ==
  ASSUME NEW n \in Nat, NEW f, Solves(f, n)
  PROVE  \E g : Solves(g, n + 1)
<1> DEFINE g == [line \in Below(n + 1) |-> MadeBy(f, line)]
<1>1. ASSUME NEW line \in Below(n + 1) PROVE MadeBy(f, line) = MadeBy(g, line)
  <2>1. ASSUME NEW i \in DOMAIN line.body PROVE f[line.body[i]] = g[line.body[i]]
    <3>1. line.body[i] \in Below(n) /\ line.body[i] \in Below(n + 1)
      BY BodyLines DEF Below
    <3>2. f[line.body[i]] = MadeBy(f, line.body[i])
      BY <3>1, SolvedLine
    <3>3. g[line.body[i]] = MadeBy(f, line.body[i])
      BY <3>1
    <3> QED
      BY <3>2, <3>3, Zenon
  <2> HIDE DEF g
  <2> QED
    BY <2>1, MadeAlike
<1>2. g = [line \in Below(n + 1) |-> MadeBy(g, line)]
  BY <1>1
<1> QED
  BY <1>2, Zenon DEF Solves

\* The least number for which there is no solution would be neither 0 nor a successor.
LEMMA SolutionExists ==
  ASSUME NEW n \in Nat
  PROVE  \E f : Solves(f, n)
<1> DEFINE T == {k \in Nat : ~\E f : Solves(f, k)}
<1> SUFFICES ASSUME T # {} PROVE FALSE
  OBVIOUS
<1>1. PICK k \in T : \A m \in T : ~(m < k)
  BY LeastNumber
<1>2. k # 0
  <2> DEFINE f == [line \in Below(0) |-> line]
  <2>1. Below(0) = {}
    BY BuilderAssumption DEF Below
  <2>2. f = [line \in Below(0) |-> MadeBy(f, line)]
    BY <2>1
  <2> HIDE DEF f
  <2>3. \E g : Solves(g, 0)
    BY <2>2 DEF Solves
  <2> QED
    BY <2>3
<1>3. k - 1 \in Nat /\ k - 1 < k
  BY <1>2
<1>4. PICK f : Solves(f, k - 1)
  BY <1>1, <1>3
<1>5. \E g : Solves(g, (k - 1) + 1)
  BY <1>3, <1>4, NextSolution
<1>6. (k - 1) + 1 = k
  OBVIOUS
<1> QED
  BY <1>5, <1>6

LEMMA CreateEquation ==
  ASSUME NEW line \in Lines
  PROVE  CreateInstruction[line] = MadeBy(CreateInstruction, line)
<1> DEFINE Q(f) == f = [l \in Lines |-> MadeBy(f, l)]
           Part(n) == CHOOSE f : Solves(f, n)
           all == [l \in Lines |-> Part(Nesting[l] + 1)[l]]
<1>1. ASSUME NEW n \in Nat PROVE Solves(Part(n), n)
  BY SolutionExists, Zenon
<1> HIDE DEF Part
<1>2. ASSUME NEW l \in Lines PROVE all[l] = MadeBy(all, l)
  <2>1. Nesting[l] \in Nat /\ Nesting[l] + 1 \in Nat
    BY BuilderAssumption
  <2>2. Solves(Part(Nesting[l] + 1), Nesting[l] + 1)
    BY <1>1, <2>1
  <2>3. l \in Below(Nesting[l] + 1)
    BY <2>1 DEF Below
  <2>4. all[l] = MadeBy(Part(Nesting[l] + 1), l)
    BY <2>1, <2>2, <2>3, SolvedLine
  <2>5. ASSUME NEW i \in DOMAIN l.body
        PROVE  Part(Nesting[l] + 1)[l.body[i]] = all[l.body[i]]
    <3> DEFINE b == l.body[i]
    <3>1. b \in Lines /\ Nesting[b] \in Nat /\ Nesting[b] < Nesting[l]
      BY BodyLines
    <3>2. Nesting[b] + 1 \in Nat
      BY <3>1
    <3>3. Solves(Part(Nesting[b] + 1), Nesting[b] + 1)
      BY <1>1, <3>2
    <3>4. b \in Below(Nesting[b] + 1) /\ b \in Below(Nesting[l] + 1)
      BY <2>1, <3>1 DEF Below
    <3> HIDE DEF b
    <3>5. Part(Nesting[l] + 1)[b] = Part(Nesting[b] + 1)[b]
      BY <2>1, <2>2, <3>2, <3>3, <3>4, SolutionsAgree
    <3>6. all[b] = Part(Nesting[b] + 1)[b]
      BY <3>1
    <3>7. Part(Nesting[l] + 1)[b] = all[b]
      BY <3>5, <3>6, Zenon
    <3> QED
      BY <3>7 DEF b
  <2> HIDE DEF all
  <2>6. MadeBy(Part(Nesting[l] + 1), l) = MadeBy(all, l)
    BY <2>5, MadeAlike
  <2> QED
    BY <2>4, <2>6
<1>3. Q(all)
  BY <1>2
<1> HIDE DEF all
<1>4. CreateInstruction = CHOOSE f : Q(f)
  BY Zenon DEF CreateInstruction, MadeBy
<1> HIDE DEF Q
<1>5. Q(CreateInstruction)
  BY <1>3, <1>4, Zenon
<1> QED
  BY <1>5, Zenon DEF Q

-----------------------------------------------------------------------------
(***************************************************************************)
(* Throws and Executable are Boolean and monotone in their recursion: the  *)
(* least set closed under the one, and the greatest set consistent with    *)
(* the other, solve the equations.                                         *)
(***************************************************************************)
\* The conversion of a line throws, if those of the lines in S do.
ThrowsWith(S, line) ==
    \/ /\ line.command = "DECLARE" /\ ArgCount(line) = 2
       /\ line.args[2].kind # "literal"
    \/ /\ line.command = "FOR" /\ ArgCount(line) >= 2
       /\ \E i \in DOMAIN line.body : line.body[i] \in S

LEMMA ThrowsEquation ==
  ASSUME NEW line \in Lines
  PROVE  Throws[line] <=> ThrowsWith({l \in Lines : Throws[l]}, line)
<1> DEFINE By(f, l) ==
              \/ /\ l.command = "DECLARE" /\ ArgCount(l) = 2
                 /\ l.args[2].kind # "literal"
              \/ /\ l.command = "FOR" /\ ArgCount(l) >= 2
                 /\ \E i \in DOMAIN l.body : f[l.body[i]]
           Q(f) == f = [l \in Lines |-> By(f, l)]
           Closed(S) == \A l \in Lines : ThrowsWith(S, l) => l \in S
           Least == {l \in Lines : \A S \in SUBSET Lines : Closed(S) => l \in S}
           least == [l \in Lines |-> l \in Least]
<1>1. ASSUME NEW S, NEW R, S \subseteq R, NEW l \in Lines, ThrowsWith(S, l)
      PROVE  ThrowsWith(R, l)
  BY <1>1 DEF ThrowsWith
<1>2. Closed(Least)
  <2>1. ASSUME NEW l \in Lines, ThrowsWith(Least, l), NEW S \in SUBSET Lines, Closed(S)
        PROVE  l \in S
    <3>1. Least \subseteq S
      BY <2>1
    <3> HIDE DEF Least
    <3>2. ThrowsWith(S, l)
      BY <2>1, <3>1, <1>1
    <3> QED
      BY <2>1, <3>2
  <2> HIDE DEF Closed
  <2>2. ASSUME NEW l \in Lines, ThrowsWith(Least, l) PROVE l \in Least
    BY <2>1, <2>2
  <2> QED
    BY <2>2 DEF Closed
<1>3. ASSUME NEW l \in Least PROVE ThrowsWith(Least, l)
  <2> SUFFICES ASSUME ~ThrowsWith(Least, l) PROVE FALSE
    OBVIOUS
  <2> DEFINE R == Least \ {l}
  <2>1. R \in SUBSET Lines /\ R \subseteq Least
    OBVIOUS
  <2>2. ASSUME NEW m \in Lines, ThrowsWith(R, m) PROVE m \in R
    <3> HIDE DEF Least
    <3>1. ThrowsWith(Least, m)
      BY <1>1, <2>1, <2>2
    <3>2. m \in Least
      BY <3>1, <1>2
    <3> QED
      BY <3>1, <3>2
  <2>3. Closed(R)
    BY <2>2
  <2> QED
    BY <2>1, <2>3
<1> HIDE DEF Least
<1>4. Least \subseteq Lines
  BY DEF Least
<1>5. ASSUME NEW l \in Lines PROVE least[l] = By(least, l)
  <2>1. ThrowsWith(Least, l) <=> l \in Least
    BY <1>2, <1>3
  <2>2. ASSUME NEW i \in DOMAIN l.body PROVE least[l.body[i]] <=> l.body[i] \in Least
    BY BodyLines
  <2> HIDE DEF least
  <2>3. By(least, l) <=> ThrowsWith(Least, l)
    BY <2>2, Zenon DEF ThrowsWith
  <2>4. least[l] <=> l \in Least
    BY DEF least
  <2>5. least[l] \in BOOLEAN
    BY DEF least
  <2> QED
    BY <2>1, <2>3, <2>4, <2>5, Zenon
<1>6. Q(least)
  BY <1>5, Zenon
<1> HIDE DEF least
<1>7. Throws = CHOOSE f : Q(f)
  BY Zenon DEF Throws
<1> HIDE DEF Q
<1>8. Q(Throws)
  BY <1>6, <1>7, Zenon
<1>9. Throws[line] = By(Throws, line)
  BY <1>8, Zenon DEF Q
<1>10. ASSUME NEW i \in DOMAIN line.body
       PROVE  Throws[line.body[i]] <=> line.body[i] \in {l \in Lines : Throws[l]}
  BY BodyLines, Zenon
<1> QED
  BY <1>9, <1>10, Zenon DEF ThrowsWith

\* The instructions that lines can become.
Created == {CreateInstruction[line] : line \in Lines}

\* An instruction can be executed, if those in S can.
ExecutableWith(S, ins) ==
    /\ ins.op \in DOMAIN Formats \cup {"FOR"}
    /\ ins.op = "DECLARE" => ins.args[1].value \in 0..MaxWord
    /\ \A i \in DOMAIN ins.body : IsInstruction(ins.body[i]) => ins.body[i] \in S

\* What stands in the body of an instruction has been created too, or is null.
LEMMA CreatedBody ==
  ASSUME NEW line \in Lines, NEW i \in DOMAIN CreateInstruction[line].body
  PROVE  CreateInstruction[line].body[i] \in Created
<1> DEFINE c == CreateInstruction[line]
           body == [k \in DOMAIN line.body |-> CreateInstruction[line.body[k]]]
<1>1. c = Made(line, body)
  BY CreateEquation, Zenon DEF MadeBy
<1> HIDE DEF c, body
<1>2. c.body = <<>> \/ c.body = body
  BY <1>1 DEF Made, Declare, Add, Subtract, PrintText, PrintVar, Read, Write, Sleep, For,
       NullInstruction, Instruction
<1>3. i \in DOMAIN c.body
  BY DEF c
<1>4. i \in DOMAIN line.body /\ c.body[i] = CreateInstruction[line.body[i]]
  BY <1>2, <1>3 DEF body
<1>5. line.body[i] \in Lines
  BY <1>4, BodyLines
<1> QED
  BY <1>4, <1>5 DEF Created, c

LEMMA ExecutableEquation ==
  ASSUME NEW ins \in Created
  PROVE  Executable[ins] <=> ExecutableWith({c \in Created : Executable[c]}, ins)
<1> DEFINE By(f, c) ==
              /\ c.op \in DOMAIN Formats \cup {"FOR"}
              /\ c.op = "DECLARE" => c.args[1].value \in 0..MaxWord
              /\ \A i \in DOMAIN c.body : IsInstruction(c.body[i]) => f[c.body[i]]
           Q(f) == f = [c \in Created |-> By(f, c)]
           Consistent(S) == \A c \in S : ExecutableWith(S, c)
           Greatest == {c \in Created : \E S \in SUBSET Created : Consistent(S) /\ c \in S}
           greatest == [c \in Created |-> c \in Greatest]
<1>0. ASSUME NEW c \in Created, NEW i \in DOMAIN c.body PROVE c.body[i] \in Created
  <2>1. PICK line \in Lines : c = CreateInstruction[line]
    BY Zenon DEF Created
  <2> QED
    BY <2>1, CreatedBody
<1>1. ASSUME NEW S, NEW R, S \subseteq R, NEW c \in Created, ExecutableWith(S, c)
      PROVE  ExecutableWith(R, c)
  BY <1>1 DEF ExecutableWith
<1>2. ASSUME NEW c \in Greatest PROVE ExecutableWith(Greatest, c)
  <2>1. PICK S \in SUBSET Created : Consistent(S) /\ c \in S
    OBVIOUS
  <2>2. S \subseteq Greatest
    BY <2>1
  <2>3. ExecutableWith(S, c)
    BY <2>1
  <2> HIDE DEF Greatest, Consistent
  <2> QED
    BY <2>1, <2>2, <2>3, <1>1
<1>3. ASSUME NEW c \in Created, ExecutableWith(Greatest, c) PROVE c \in Greatest
  <2> DEFINE R == Greatest \cup {c}
  <2>1. R \in SUBSET Created /\ Greatest \subseteq R /\ c \in R
    OBVIOUS
  <2>2. ASSUME NEW d \in R PROVE ExecutableWith(R, d)
    <3> HIDE DEF Greatest
    <3>1. ExecutableWith(Greatest, d)
      BY <1>2, <1>3
    <3> QED
      BY <3>1, <2>1, <1>1
  <2>3. Consistent(R)
    BY <2>2
  <2> QED
    BY <2>1, <2>3
<1> HIDE DEF Greatest
<1>5. ASSUME NEW c \in Created PROVE greatest[c] = By(greatest, c)
  <2>1. ExecutableWith(Greatest, c) <=> c \in Greatest
    BY <1>2, <1>3
  <2>2. ASSUME NEW i \in DOMAIN c.body PROVE greatest[c.body[i]] <=> c.body[i] \in Greatest
    BY <1>0
  <2> HIDE DEF greatest
  <2>3. By(greatest, c) <=> ExecutableWith(Greatest, c)
    BY <2>2, Zenon DEF ExecutableWith
  <2>4. greatest[c] <=> c \in Greatest
    BY DEF greatest
  <2>5. greatest[c] \in BOOLEAN
    BY DEF greatest
  <2> QED
    BY <2>1, <2>3, <2>4, <2>5, Zenon
<1>6. Q(greatest)
  BY <1>5, Zenon
<1> HIDE DEF greatest
<1>7. Executable = CHOOSE f : Q(f)
  BY Zenon DEF Executable, Created
<1> HIDE DEF Q
<1>8. Q(Executable)
  BY <1>6, <1>7, Zenon
<1>9. Executable[ins] = By(Executable, ins)
  BY <1>8, Zenon DEF Q
<1>10. ASSUME NEW i \in DOMAIN ins.body
       PROVE  Executable[ins.body[i]] <=> ins.body[i] \in {c \in Created : Executable[c]}
  BY <1>0, Zenon
<1> QED
  BY <1>9, <1>10, Zenon DEF ExecutableWith

-----------------------------------------------------------------------------
(***************************************************************************)
(* One line.                                                               *)
(***************************************************************************)
\* The arguments of a line, of which only a FOR has some in its body.
LEMMA Arguments ==
  ASSUME NEW line \in Lines
  PROVE  /\ ArgCount(line) \in Nat
         /\ line.command = "FOR" =>
               (ArgCount(line) >= 2 <=> Len(line.args) = 1 /\ line.body # <<>>)
         /\ line.command # "FOR" => line.body = <<>> /\ Len(line.args) = ArgCount(line)
<1> DEFINE p == Len(line.args)
           q == Len(line.body)
<1>1. line.args \in Seq(Operand) /\ line.body \in Seq(Lines)
  BY BuilderAssumption
<1>2. p \in Nat /\ q \in Nat
  BY <1>1
<1>3. q = 0 <=> line.body = <<>>
  BY <1>1
<1>4. (line.body # <<>> => line.command = "FOR" /\ p = 1) /\ (line.command = "FOR" => p <= 1)
  BY BuilderAssumption
<1>5. ArgCount(line) = p + q
  BY Zenon DEF ArgCount
<1> HIDE DEF p, q
<1>6. ArgCount(line) \in Nat
  BY <1>2, <1>5
<1>7. ASSUME line.command = "FOR" PROVE ArgCount(line) >= 2 <=> p = 1 /\ line.body # <<>>
  <2>1. p <= 1 /\ (q # 0 => p = 1)
    BY <1>3, <1>4, <1>7
  <2>2. p + q >= 2 <=> p = 1 /\ q # 0
    BY <1>2, <2>1
  <2> QED
    BY <1>3, <1>5, <2>2
<1>8. ASSUME line.command # "FOR" PROVE line.body = <<>> /\ p = ArgCount(line)
  <2>1. line.body = <<>>
    BY <1>4, <1>8
  <2>2. q = 0
    BY <1>3, <2>1
  <2>3. p = p + q
    BY <1>2, <2>2
  <2> QED
    BY <1>5, <2>1, <2>3
<1> QED
  BY <1>6, <1>7, <1>8, Zenon DEF p

\* A line becomes an instruction, of the command typed, exactly if it fits its format.
LEMMA MadeInstruction ==
  ASSUME NEW line \in Lines
  PROVE  LET c == CreateInstruction[line]
         IN  /\ IsInstruction(c) <=> FitsFormat(line)
             /\ IsInstruction(c) => c.op = line.command
<1> DEFINE c == CreateInstruction[line]
           body == [k \in DOMAIN line.body |-> CreateInstruction[line.body[k]]]
           a == line.args
           n == ArgCount(line)
<1>1. c = Made(line, body)
  BY CreateEquation, Zenon DEF MadeBy
<1> HIDE DEF c, body
<1>3. n \in Nat
  BY Arguments
<1>4. FitsFormat(line) <=>
         \/ line.command = "DECLARE" /\ n = 2
         \/ line.command = "ADD" /\ n = 3
         \/ line.command = "SUBTRACT" /\ n = 3
         \/ line.command = "PRINT" /\ n >= 1
         \/ line.command = "READ" /\ n = 2
         \/ line.command = "WRITE" /\ n = 2
         \/ line.command = "SLEEP" /\ n = 1
         \/ line.command = "FOR" /\ n >= 2
  <2>1. line.command = "FOR" => (n >= 2 <=> Len(line.args) = 1 /\ line.body # <<>>)
    BY Arguments
  <2>2. line.command \in DOMAIN Formats <=>
          line.command \in {"DECLARE", "ADD", "SUBTRACT", "PRINT", "READ", "WRITE", "SLEEP"}
    BY DEF Formats
  <2>3. /\ Formats["DECLARE"] = 2..2 /\ Formats["ADD"] = 3..3 /\ Formats["SUBTRACT"] = 3..3
        /\ Formats["PRINT"] = Nat \ {0} /\ Formats["READ"] = 2..2 /\ Formats["WRITE"] = 2..2
        /\ Formats["SLEEP"] = 1..1
    BY DEF Formats
  <2> HIDE DEF n
  <2>4. /\ \A k \in {1, 2, 3} : n \in k..k <=> n = k
        /\ n \in Nat \ {0} <=> n >= 1
    BY <1>3
  <2>5. line.command = "FOR" => line.command \notin DOMAIN Formats
    BY <2>2
  <2> HIDE DEF Formats
  <2> QED
    BY <2>1, <2>2, <2>3, <2>4, <2>5 DEF FitsFormat, n
<1>14. (n = 1 \/ n > 1) <=> n >= 1
  <2> HIDE DEF n
  <2> QED
    BY <1>3
<1> HIDE DEF n
<1>5. CASE line.command = "DECLARE" /\ n = 2
  <2>1. c = Declare(NameOf(a[1]), Word(a[2].value))
    BY <1>1, <1>5 DEF Made, n
  <2>2. c.op = "DECLARE"
    BY <2>1, Zenon DEF Declare, Instruction
  <2> QED
    BY <1>3, <1>4, <1>5, <2>2 DEF IsInstruction, c
<1>6. CASE line.command = "ADD" /\ n = 3
  <2>1. c = Add(NameOf(a[1]), a[2], a[3])
    BY <1>1, <1>6 DEF Made, n
  <2>2. c.op = "ADD"
    BY <2>1, Zenon DEF Add, Instruction
  <2> QED
    BY <1>3, <1>4, <1>6, <2>2 DEF IsInstruction, c
<1>7. CASE line.command = "SUBTRACT" /\ n = 3
  <2>1. c = Subtract(NameOf(a[1]), a[2], a[3])
    BY <1>1, <1>7 DEF Made, n
  <2>2. c.op = "SUBTRACT"
    BY <2>1, Zenon DEF Subtract, Instruction
  <2> QED
    BY <1>3, <1>4, <1>7, <2>2 DEF IsInstruction, c
<1>8. CASE line.command = "PRINT" /\ n >= 1
  <2>1. c = PrintText \/ c = PrintVar(NameOf(a[2]))
    <3>1. n = 1 \/ n > 1
      BY <1>8, <1>14
    <3> QED
      BY <1>1, <1>8, <3>1 DEF Made, n
  <2>2. PrintText.op = "PRINT" /\ PrintVar(NameOf(a[2])).op = "PRINT"
    BY Zenon DEF PrintText, PrintVar, Instruction
  <2>3. c.op = "PRINT"
    BY <2>1, <2>2, Zenon
  <2> QED
    BY <1>3, <1>4, <1>8, <2>3 DEF IsInstruction, c
<1>9. CASE line.command = "READ" /\ n = 2
  <2>1. c = Read(NameOf(a[1]), AddressOf(a[2]))
    BY <1>1, <1>9 DEF Made, n
  <2>2. c.op = "READ"
    BY <2>1, Zenon DEF Read, Instruction
  <2> QED
    BY <1>3, <1>4, <1>9, <2>2 DEF IsInstruction, c
<1>10. CASE line.command = "WRITE" /\ n = 2
  <2>1. c = Write(AddressOf(a[1]), a[2])
    BY <1>1, <1>10 DEF Made, n
  <2>2. c.op = "WRITE"
    BY <2>1, Zenon DEF Write, Instruction
  <2> QED
    BY <1>3, <1>4, <1>10, <2>2 DEF IsInstruction, c
<1>11. CASE line.command = "SLEEP" /\ n = 1
  <2>1. c = Sleep(a[1])
    BY <1>1, <1>11 DEF Made, n
  <2>2. c.op = "SLEEP"
    BY <2>1, Zenon DEF Sleep, Instruction
  <2> QED
    BY <1>3, <1>4, <1>11, <2>2 DEF IsInstruction, c
<1>12. CASE line.command = "FOR" /\ n >= 2
  <2>1. c = For(a[1], body)
    BY <1>1, <1>12 DEF Made, n
  <2>2. c.op = "FOR"
    BY <2>1, Zenon DEF For, Instruction
  <2> QED
    BY <1>3, <1>4, <1>12, <2>2 DEF IsInstruction, c
<1>13. CASE ~FitsFormat(line)
  <2>1. ~(line.command = "PRINT" /\ (n = 1 \/ n > 1))
    BY <1>4, <1>13, <1>14
  <2>2. c = NullInstruction
    BY <1>1, <1>4, <1>13, <2>1 DEF Made, n
  <2>3. c.op = "NULL"
    BY <2>2, Zenon DEF NullInstruction, Instruction
  <2> QED
    BY <1>13, <2>3 DEF IsInstruction, c
<1> QED
  BY <1>4, <1>5, <1>6, <1>7, <1>8, <1>9, <1>10, <1>11, <1>12, <1>13

\* The operand of a DECLARE, and the body of a FOR.
LEMMA MadeParts ==
  ASSUME NEW line \in Lines, FitsFormat(line)
  PROVE  LET c == CreateInstruction[line]
         IN  /\ line.command = "DECLARE" =>
                   ArgCount(line) = 2 /\ c.args[1].value = Word(line.args[2].value)
             /\ line.command = "FOR" =>
                   /\ ArgCount(line) >= 2
                   /\ c.body = [k \in DOMAIN line.body |-> CreateInstruction[line.body[k]]]
             /\ line.command # "FOR" => c.body = <<>>
<1> DEFINE c == CreateInstruction[line]
           body == [k \in DOMAIN line.body |-> CreateInstruction[line.body[k]]]
<1>1. c = Made(line, body)
  BY CreateEquation, Zenon DEF MadeBy
<1>2. IsInstruction(c)
  BY MadeInstruction
<1> HIDE DEF c, body
<1>3. CASE line.command = "DECLARE"
  <2>1. \/ ArgCount(line) = 2 /\ c = Declare(NameOf(line.args[1]), Word(line.args[2].value))
        \/ c = NullInstruction
    BY <1>1, <1>3 DEF Made
  <2>2. NullInstruction.op = "NULL"
    BY Zenon DEF NullInstruction, Instruction
  <2>3. ArgCount(line) = 2 /\ c = Declare(NameOf(line.args[1]), Word(line.args[2].value))
    BY <1>2, <2>1, <2>2, Zenon DEF IsInstruction
  <2>4. c.args = <<Literal(Word(line.args[2].value))>>
    BY <2>3, Zenon DEF Declare, Instruction
  <2>5. Literal(Word(line.args[2].value)).value = Word(line.args[2].value)
    BY Zenon DEF Literal
  <2>6. c.args[1] = Literal(Word(line.args[2].value))
    BY <2>4
  <2>7. c.body = <<>>
    BY <2>3, Zenon DEF Declare, Instruction
  <2> QED
    BY <1>3, <2>3, <2>5, <2>6, <2>7 DEF c
<1>4. CASE line.command = "FOR"
  <2>1. \/ ArgCount(line) >= 2 /\ c = For(line.args[1], body)
        \/ c = NullInstruction
    BY <1>1, <1>4 DEF Made
  <2>2. ArgCount(line) >= 2 /\ c.body = body
    <3>1. NullInstruction.op = "NULL"
      BY Zenon DEF NullInstruction, Instruction
    <3>2. ArgCount(line) >= 2 /\ c = For(line.args[1], body)
      BY <1>2, <2>1, <3>1, Zenon DEF IsInstruction
    <3> QED
      BY <3>2, Zenon DEF For, Instruction
  <2> QED
    BY <1>4, <2>2 DEF c, body
<1>5. CASE line.command \notin {"DECLARE", "FOR"}
  <2>1. c.body = <<>>
    BY <1>1, <1>5 DEF Made, Add, Subtract, PrintText, PrintVar, Read, Write, Sleep,
         NullInstruction, Instruction
  <2> QED
    BY <1>5, <2>1 DEF c
<1> QED
  BY <1>3, <1>4, <1>5

\* A line that fits its format and does not throw becomes an instruction that can be
\* executed, whatever is nested in it.
LEMMA MadeExecutable ==
  ASSUME NEW line \in Lines, ~Throws[line], FitsFormat(line)
  PROVE  Executable[CreateInstruction[line]]
<1> DEFINE S == {l \in Lines : ~Throws[l] /\ FitsFormat(l) /\ ~Executable[CreateInstruction[l]]}
<1> SUFFICES ASSUME S # {} PROVE FALSE
  OBVIOUS
<1>1. PICK l \in S : \A i \in DOMAIN l.body : l.body[i] \notin S
  BY LeastNested, S \in SUBSET Lines
<1>2. l \in Lines /\ ~Throws[l] /\ FitsFormat(l) /\ ~Executable[CreateInstruction[l]]
  OBVIOUS
<1> DEFINE c == CreateInstruction[l]
<1>3. c \in Created
  BY <1>2 DEF Created
<1>4. ~ThrowsWith({k \in Lines : Throws[k]}, l)
  BY <1>2, ThrowsEquation
<1>5. c.op = l.command
  BY <1>2, MadeInstruction
<1>6. c.op \in DOMAIN Formats \cup {"FOR"}
  BY <1>2, <1>5 DEF FitsFormat
<1>7. ASSUME c.op = "DECLARE" PROVE c.args[1].value \in 0..MaxWord
  <2>1. ArgCount(l) = 2 /\ c.args[1].value = Word(l.args[2].value)
    BY <1>2, <1>5, <1>7, MadeParts
  <2>2. l.args \in Seq(Operand)
    BY <1>2, BuilderAssumption
  <2>3. Len(l.args) = 2
    BY <1>2, <1>5, <1>7, <2>1, Arguments
  <2>4. l.args[2].value \in Nat
    <3>1. l.args[2] \in Operand
      BY <2>2, <2>3
    <3> QED
      BY <3>1 DEF Operand
  <2> QED
    <3> DEFINE v == l.args[2].value
    <3>1. v \in Nat
      BY <2>4
    <3> HIDE DEF v
    <3>2. v % (MaxWord + 1) \in 0..MaxWord
      BY <3>1 DEF MaxWord
    <3>3. c.args[1].value = v % (MaxWord + 1)
      BY <2>1, Zenon DEF Word, v
    <3> QED
      BY <3>2, <3>3
<1>8. ASSUME NEW i \in DOMAIN c.body, IsInstruction(c.body[i])
      PROVE  c.body[i] \in {d \in Created : Executable[d]}
  <2>1. l.command = "FOR" /\ ArgCount(l) >= 2
        /\ c.body = [k \in DOMAIN l.body |-> CreateInstruction[l.body[k]]]
    <3>1. l.command = "FOR"
      <4> SUFFICES ASSUME l.command # "FOR" PROVE FALSE
        OBVIOUS
      <4>1. c.body = <<>>
        BY <1>2, MadeParts
      <4> HIDE DEF c
      <4> QED
        BY <1>8, <4>1
    <3> QED
      BY <1>2, <3>1, MadeParts
  <2> HIDE DEF c
  <2>2. i \in DOMAIN l.body /\ c.body[i] = CreateInstruction[l.body[i]]
    BY <1>8, <2>1
  <2>3. l.body[i] \in Lines
    BY <1>2, <2>2, BodyLines
  <2>4. ~Throws[l.body[i]]
    BY <1>4, <2>1, <2>2, <2>3 DEF ThrowsWith
  <2>5. FitsFormat(l.body[i])
    BY <1>8, <2>2, <2>3, MadeInstruction
  <2>6. Executable[CreateInstruction[l.body[i]]]
    BY <1>1, <2>2, <2>3, <2>4, <2>5
  <2> QED
    BY <2>2, <2>3, <2>6 DEF Created
<1>9. ExecutableWith({d \in Created : Executable[d]}, c)
  BY <1>6, <1>7, <1>8, Zenon DEF ExecutableWith
<1> QED
  BY <1>2, <1>3, <1>9, ExecutableEquation

-----------------------------------------------------------------------------
(***************************************************************************)
(* The whole text.  The commands are the instructions of the lines read so *)
(* far, none of which was null or threw; building stops at a line for one  *)
(* of the two reasons only.                                                *)
(***************************************************************************)
BuilderInv ==
    /\ text \in Texts
    /\ Len(commands) \in 0..Len(text)
    /\ commands = [i \in 1..Len(commands) |-> CreateInstruction[text[i]]]
    /\ \A i \in 1..Len(commands) : ~Throws[text[i]] /\ IsInstruction(CreateInstruction[text[i]])
    /\ outcome = "built" => Len(commands) = Len(text) /\ Len(text) \in 1..MaxCustomInstructions
    /\ outcome = "refused" /\ Len(text) \in 1..MaxCustomInstructions =>
          Len(commands) < Len(text) /\ ~IsInstruction(CreateInstruction[Line])

LEMMA InitBuilderInv ==
  ASSUME Init
  PROVE  BuilderInv
<1>1. text \in Texts /\ commands = <<>> /\ outcome = "building"
  BY DEF Init
<1>2. text \in Seq(Lines)
  BY <1>1, BuilderAssumption
<1>3. Len(commands) = 0 /\ Len(text) \in Nat
  BY <1>1, <1>2
<1>4. commands = [i \in 1..Len(commands) |-> CreateInstruction[text[i]]]
  BY <1>1, <1>3
<1>5. \A i \in 1..Len(commands) : ~Throws[text[i]] /\ IsInstruction(CreateInstruction[text[i]])
  BY <1>3
<1>6. Len(commands) \in 0..Len(text)
  BY <1>3
<1> QED
  BY <1>1, <1>4, <1>5, <1>6 DEF BuilderInv

LEMMA NextBuilderInv ==
  ASSUME BuilderInv, [Next]_vars
  PROVE  BuilderInv'
<1>0. text \in Seq(Lines) /\ Len(text) \in Nat
  BY BuilderAssumption DEF BuilderInv
<1>1. CASE TooFewOrMany
  BY <1>1 DEF TooFewOrMany, BuilderInv, Line
<1>2. CASE AddLine
  <2> DEFINE n == Len(commands)
             c == CreateInstruction[Line]
  <2>1. /\ n \in Nat /\ n < Len(text) /\ Line = text[n + 1]
        /\ commands = [i \in 1..n |-> CreateInstruction[text[i]]]
        /\ \A i \in 1..n : ~Throws[text[i]] /\ IsInstruction(CreateInstruction[text[i]])
        /\ text \in Texts
    BY <1>0, <1>2 DEF AddLine, Building, BuilderInv, Line
  <2>2. /\ ~Throws[Line] /\ IsInstruction(c) /\ commands' = Append(commands, c)
        /\ text' = text /\ outcome' = "building"
    BY <1>2 DEF AddLine, Building
  <2> HIDE DEF c
  <2>3. commands \in Seq(Created \cup {c})
    <3>1. ASSUME NEW i \in 1..n PROVE CreateInstruction[text[i]] \in Created
      BY <1>0, <2>1 DEF Created
    <3>2. commands \in [1..n -> Created \cup {c}]
      BY <2>1, <3>1
    <3> QED
      BY <2>1, <3>2
  <2>4. /\ Len(commands') = n + 1 /\ commands' = [i \in 1..(n + 1) |-> commands'[i]]
        /\ commands'[n + 1] = c /\ \A i \in 1..n : commands'[i] = commands[i]
    <3>1. commands' \in Seq(Created \cup {c}) /\ Len(commands') = n + 1
      BY <2>1, <2>2, <2>3
    <3>2. commands'[n + 1] = c /\ \A i \in 1..n : commands'[i] = commands[i]
      BY <2>1, <2>2, <2>3
    <3>3. commands' = [i \in 1..(n + 1) |-> commands'[i]]
      BY <3>1
    <3> QED
      BY <3>1, <3>2, <3>3
  <2>5. ASSUME NEW i \in 1..(n + 1)
        PROVE  /\ commands'[i] = CreateInstruction[text[i]]
               /\ ~Throws[text[i]] /\ IsInstruction(CreateInstruction[text[i]])
    <3>1. CASE i = n + 1
      BY <2>1, <2>2, <2>4, <3>1 DEF c
    <3>2. CASE i \in 1..n
      BY <2>1, <2>4, <3>2
    <3> QED
      BY <2>1, <3>1, <3>2
  <2>6. commands' = [i \in 1..Len(commands') |-> CreateInstruction[text[i]]]
    BY <2>4, <2>5
  <2>7. Len(commands') \in 0..Len(text)
    BY <1>0, <2>1, <2>4
  <2>8. \A i \in 1..Len(commands') : ~Throws[text[i]] /\ IsInstruction(CreateInstruction[text[i]])
    BY <2>4, <2>5
  <2> QED
    BY <2>1, <2>2, <2>6, <2>7, <2>8 DEF BuilderInv
<1>3. CASE RefuseLine
  BY <1>3 DEF RefuseLine, Building, BuilderInv, Line
<1>4. CASE ThrowLine
  BY <1>4 DEF ThrowLine, BuilderInv
<1>5. CASE Built
  BY <1>5 DEF Built, BuilderInv
<1>6. CASE UNCHANGED vars
  BY <1>6 DEF vars, BuilderInv, Line
<1> QED
  BY <1>1, <1>2, <1>3, <1>4, <1>5, <1>6 DEF Next

LEMMA BuilderInvBuiltAsTyped ==
  ASSUME BuilderInv
  PROVE  BuiltAsTyped
<1>0. text \in Seq(Lines) /\ Len(text) \in Nat
  BY BuilderAssumption DEF BuilderInv
<1>1. ASSUME NEW i \in 1..Len(commands)
      PROVE  /\ FitsFormat(text[i]) /\ commands[i].op = text[i].command
             /\ Executable[commands[i]]
  <2>1. text[i] \in Lines /\ commands[i] = CreateInstruction[text[i]]
    BY <1>0, <1>1 DEF BuilderInv
  <2>2. ~Throws[text[i]] /\ IsInstruction(CreateInstruction[text[i]])
    BY <1>1 DEF BuilderInv
  <2>3. FitsFormat(text[i]) /\ CreateInstruction[text[i]].op = text[i].command
    BY <2>1, <2>2, MadeInstruction
  <2>4. Executable[CreateInstruction[text[i]]]
    BY <2>1, <2>2, <2>3, MadeExecutable
  <2> QED
    BY <2>1, <2>3, <2>4
<1>2. DOMAIN commands = 1..Len(commands) /\ DOMAIN text = 1..Len(text)
  BY <1>0 DEF BuilderInv
<1>3. ASSUME outcome = "refused", Len(text) \in 1..MaxCustomInstructions
      PROVE  ~FitsFormat(Line)
  <2>1. Len(commands) \in Nat /\ Len(commands) < Len(text) /\ ~IsInstruction(CreateInstruction[Line])
    BY <1>0, <1>3 DEF BuilderInv
  <2>2. Line \in Lines
    BY <1>0, <2>1 DEF Line
  <2> QED
    BY <2>1, <2>2, MadeInstruction
<1>4. outcome = "built" => Len(commands) = Len(text) /\ Len(text) \in 1..MaxCustomInstructions
  BY DEF BuilderInv
<1> QED
  BY <1>1, <1>2, <1>3, <1>4 DEF BuiltAsTyped

\* A process is made of what was typed and of nothing else, in the order typed, with
\* instructions that ExecuteNextCommand can execute; a text is refused only for a line
\* that does not fit its format.
THEOREM BuiltAsTypedAlways == Spec => []BuiltAsTyped
<1>1. Init => BuilderInv
  BY InitBuilderInv
<1>2. BuilderInv /\ [Next]_vars => BuilderInv'
  BY NextBuilderInv
<1>3. BuilderInv => BuiltAsTyped
  BY BuilderInvBuiltAsTyped
<1> QED
  BY <1>1, <1>2, <1>3, PTL DEF Spec
=============================================================================
