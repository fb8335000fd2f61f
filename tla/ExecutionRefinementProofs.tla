---------------------- MODULE ExecutionRefinementProofs ----------------------
(***************************************************************************)
(* Proof that Execution implements Interpreter, for every program whose    *)
(* commands can be repeated, any size of the memory and of the symbol      *)
(* table, and any number of attempts.                                      *)
(***************************************************************************)
EXTENDS ExecutionRefinement, ExecutionProofs

-----------------------------------------------------------------------------
(***************************************************************************)
(* Loops.  A loop goes from c to next[c] until it is in D; what it         *)
(* visits is the least set with c that next does not leave.                *)
(***************************************************************************)
Closed(S, D, next) == \A c \in S \ D : next[c] \in S

Visited(C, D, next, c) ==
    {d \in C : \A S \in SUBSET C : c \in S /\ Closed(S, D, next) => d \in S}

\* What holds at first and is kept holds everywhere.
LEMMA VisitedWithin ==
  ASSUME NEW C, NEW D, NEW next, NEW c,
         NEW S \in SUBSET C, c \in S, Closed(S, D, next)
  PROVE  Visited(C, D, next, c) \subseteq S
BY DEF Visited

\* A loop visits where it begins, and from there where it goes.
LEMMA VisitedClosed ==
  ASSUME NEW C, NEW D, NEW next, NEW c \in C, Closed(C, D, next)
  PROVE  LET V == Visited(C, D, next, c)
         IN  V \in SUBSET C /\ c \in V /\ Closed(V, D, next)
BY DEF Visited, Closed

\* The first step of a loop.
LEMMA VisitedStep ==
  ASSUME NEW C, NEW D, NEW next, NEW c \in C \ D,
         Closed(C, D, next)
  PROVE  Visited(C, D, next, c) = {c} \cup Visited(C, D, next, next[c])
<1> DEFINE V == Visited(C, D, next, c)
           W == Visited(C, D, next, next[c])
<1>1. next[c] \in C
  BY DEF Closed
<1>2. V \in SUBSET C /\ c \in V /\ Closed(V, D, next)
  BY VisitedClosed
<1>3. W \in SUBSET C /\ next[c] \in W /\ Closed(W, D, next)
  BY <1>1, VisitedClosed
<1>4. W \subseteq V
  <2>1. next[c] \in V
    BY <1>2 DEF Closed
  <2> QED
    BY <1>2, <2>1, VisitedWithin
<1>5. V \subseteq {c} \cup W
  <2>1. {c} \cup W \in SUBSET C /\ c \in {c} \cup W /\ Closed({c} \cup W, D, next)
    BY <1>3 DEF Closed
  <2> HIDE DEF W
  <2> QED
    BY <2>1, VisitedWithin
<1> QED
  BY <1>2, <1>4, <1>5

\* A loop that is at an end stays there.
LEMMA VisitedEnd ==
  ASSUME NEW C, NEW D, NEW next, NEW c \in C, c \in D,
         Closed(C, D, next)
  PROVE  Visited(C, D, next, c) = {c}
<1>1. {c} \in SUBSET C /\ c \in {c} /\ Closed({c}, D, next)
  BY DEF Closed
<1>2. Visited(C, D, next, c) \subseteq {c}
  BY <1>1, VisitedWithin
<1> QED
  BY <1>2, VisitedClosed

\* A loop returns something: the equation of a function that loops has a solution.
LEMMA LoopReturns ==
  ASSUME NEW C, NEW D, NEW next, NEW out, Closed(C, D, next)
  PROVE  \E g : g = [c \in C |-> IF c \in D THEN out[c] ELSE g[next[c]]]
<1> DEFINE V(c) == Visited(C, D, next, c)
           last(c) == CHOOSE d : d \in V(c) \cap D
           g == [c \in C |-> out[last(c)]]
<1>1. ASSUME NEW c \in C PROVE g[c] = IF c \in D THEN out[c] ELSE g[next[c]]
  <2>1. CASE c \in D
    <3>1. V(c) = {c}
      BY <2>1, VisitedEnd
    <3>2. last(c) = c
      BY <2>1, <3>1
    <3>3. g[c] = out[last(c)]
      OBVIOUS
    <3> HIDE DEF last, g
    <3> QED
      BY <2>1, <3>2, <3>3
  <2>2. CASE c \notin D
    <3>1. V(c) = {c} \cup V(next[c])
      BY <2>2, VisitedStep
    <3>2. V(c) \cap D = V(next[c]) \cap D
      BY <2>2, <3>1
    <3>3. last(c) = last(next[c])
      BY <3>2
    <3>4. next[c] \in C
      BY <2>2 DEF Closed
    <3> QED
      BY <2>2, <3>3, <3>4
  <2> QED
    BY <2>1, <2>2
<1>2. g = [c \in C |-> IF c \in D THEN out[c] ELSE g[next[c]]]
  BY <1>1
<1> QED
  BY <1>2

-----------------------------------------------------------------------------
(***************************************************************************)
(* The loop that Interpreter describes.                                    *)
(***************************************************************************)
Configs == Sequential!Configuration
Ends == {c \in Configs : c.todo = <<>>}
Stepped == [c \in Configs |-> Sequential!Step(c)]
Returned == [c \in Configs |-> c.state]

\* The configurations that a program goes through.
Run(c) == Visited(Configs, Ends, Stepped, c)

LEMMA RunAllEquation ==
  ASSUME Closed(Configs, Ends, Stepped)
  PROVE  Sequential!RunAll = [c \in Configs |->
            IF c.todo = <<>> THEN c.state ELSE Sequential!RunAll[Sequential!Step(c)]]
<1>1. PICK g : g = [c \in Configs |-> IF c \in Ends THEN Returned[c] ELSE g[Stepped[c]]]
  BY LoopReturns
<1>2. g = [c \in Configs |-> IF c.todo = <<>> THEN c.state ELSE g[Sequential!Step(c)]]
  BY <1>1 DEF Ends, Returned, Stepped
<1>3. Sequential!RunAll = CHOOSE f : f = [c \in Configs |->
            IF c.todo = <<>> THEN c.state ELSE f[Sequential!Step(c)]]
  BY DEF Sequential!RunAll, Configs
<1> QED
  BY <1>2, <1>3

-----------------------------------------------------------------------------
(***************************************************************************)
(* What Interpreter computes, in the terms of Instructions.                *)
(***************************************************************************)
States ==
    [mem : [Address -> 0..255], names : [Slot -> STRING \cup {""}],
     shown : Seq(Words), nap : 0..LongestSleep, violated : BOOLEAN]

\* A variable is placed in a slot, and a word stored at an address, or in the slot
\* where a variable is placed.
Placed(n, x) ==
    IF TargetSlots(n, x) = {} THEN n ELSE [n EXCEPT ![FirstOf(TargetSlots(n, x))] = x]
Stored(m, a, v) == [m EXCEPT ![a] = Memory!LowByte(v), ![a + 1] = Memory!HighByte(v)]
StoredFor(m, n, x, v) ==
    IF TargetSlots(n, x) = {} THEN m
    ELSE Stored(m, SlotAddress(FirstOf(TargetSlots(n, x))), v)

Assigning == {"DECLARE", "ADD", "SUBTRACT", "READ"}

\* Interpreter and Execution share the module Instructions.
LEMMA SharedSets ==
  /\ Sequential!State = States
  /\ Sequential!Slot = Slot /\ Sequential!Address = Address
  /\ Configs = [todo : Seq(Code), state : States]
BY DEF Sequential!State, States, Sequential!Slot, Slot, Sequential!Address, Address,
       Sequential!MaxWord, MaxWord, Words, Sequential!LongestSleep, LongestSleep, Configs,
       Sequential!Configuration

LEMMA SharedSlots ==
  ASSUME NEW n, NEW x
  PROVE  /\ Sequential!TargetSlots(n, x) = TargetSlots(n, x)
         /\ Sequential!IsDeclared(n, x) = IsDeclared(n, x)
         /\ Sequential!FindVariable(n, x) = FindVariable(n, x)
BY DEF Sequential!TargetSlots, TargetSlots, Sequential!IsDeclared, IsDeclared,
       Sequential!FindVariable, FindVariable, Sequential!FirstOf, FirstOf,
       Sequential!SlotsNamed, SlotsNamed, Sequential!Slot, Slot

LEMMA SharedResults ==
  ASSUME NEW ins, NEW v, NEW n, NEW m
  PROVE  /\ Sequential!Result(ins, v) = Result(ins, v)
         /\ Sequential!LiteralValue(ins, n) = LiteralValue(ins, n)
         /\ Sequential!SleepAfter(m, n) = SleepAfter(m, n)
         /\ Sequential!Unrolled(v, n) = Unrolled(v, n)
BY DEF Sequential!Result, Result, Sequential!Sum, Sum, Sequential!Difference, Difference,
       Sequential!Smaller, Smaller, Sequential!MaxWord, MaxWord, Sequential!LiteralValue,
       LiteralValue, Sequential!SleepAfter, SleepAfter, Sequential!LongestSleep, LongestSleep,
       Sequential!Unrolled, Unrolled

LEMMA SharedAssign ==
  ASSUME NEW s \in States, NEW x, NEW v
  PROVE  Sequential!Assign(s, x, v) =
           [s EXCEPT !.names = Placed(s.names, x), !.mem = StoredFor(s.mem, s.names, x, v)]
<1>1. Sequential!TargetSlots(s.names, x) = TargetSlots(s.names, x)
  BY SharedSlots
<1> DEFINE T == TargetSlots(s.names, x)
           k == FirstOf(T)
<1>2. Sequential!FirstOf(T) = k /\ Sequential!SlotAddress(k) = SlotAddress(k)
  BY DEF Sequential!FirstOf, FirstOf, Sequential!SlotAddress, SlotAddress
<1>3. Sequential!Store(s.mem, SlotAddress(k), v) = Stored(s.mem, SlotAddress(k), v)
  BY DEF Sequential!Store, Stored, Memory!LowByte, Memory!HighByte
<1> HIDE DEF T, k
<1>4. Sequential!Assign(s, x, v) =
         IF T = {} THEN s
         ELSE [s EXCEPT !.names[k] = x, !.mem = Stored(s.mem, SlotAddress(k), v)]
  BY <1>1, <1>2, <1>3 DEF Sequential!Assign, T
<1>5. Placed(s.names, x) = IF T = {} THEN s.names ELSE [s.names EXCEPT ![k] = x]
  BY DEF Placed, T, k
<1>6. StoredFor(s.mem, s.names, x, v) = IF T = {} THEN s.mem ELSE Stored(s.mem, SlotAddress(k), v)
  BY DEF StoredFor, T, k
<1>7. s = [s EXCEPT !.names = s.names, !.mem = s.mem]
  BY DEF States
<1> QED
  BY <1>4, <1>5, <1>6, <1>7

WordIn(m, a) == Memory!Word(m[a], m[a + 1])
VariableIn(s, x) ==
    IF IsDeclared(s.names, x) THEN WordIn(s.mem, SlotAddress(FindVariable(s.names, x))) ELSE 0
ValueIn(s, ins, operand) ==
    IF operand.kind = "literal" THEN LiteralValue(ins, operand.value)
    ELSE VariableIn(s, operand.name)

LEMMA SharedValues ==
  ASSUME NEW s, NEW ins
  PROVE  Sequential!Values(ins, s) = [i \in 1..Len(ins.args) |-> ValueIn(s, ins, ins.args[i])]
<1>1. ASSUME NEW operand
      PROVE  Sequential!OperandValue(s, ins, operand) = ValueIn(s, ins, operand)
  <2>1. Sequential!LiteralValue(ins, operand.value) = LiteralValue(ins, operand.value)
    BY SharedResults
  <2>2. /\ Sequential!IsDeclared(s.names, operand.name) = IsDeclared(s.names, operand.name)
        /\ Sequential!FindVariable(s.names, operand.name) = FindVariable(s.names, operand.name)
    BY SharedSlots
  <2> DEFINE a == SlotAddress(FindVariable(s.names, operand.name))
  <2>3. Sequential!SlotAddress(FindVariable(s.names, operand.name)) = a
    BY DEF Sequential!SlotAddress, SlotAddress
  <2>4. Sequential!Load(s.mem, a) = WordIn(s.mem, a)
    BY DEF Sequential!Load, WordIn, Memory!Word
  <2> HIDE DEF a
  <2> QED
    BY <2>1, <2>2, <2>3, <2>4 DEF Sequential!OperandValue, ValueIn, VariableIn, a
<1> QED
  BY <1>1 DEF Sequential!Values

\* A word of a typed memory.
LEMMA WordInTyped ==
  ASSUME NEW m \in [Address -> 0..255], NEW a \in Address, a + 1 \in Address
  PROVE  WordIn(m, a) \in Words
BY WordTyped DEF WordIn

LEMMA ValueTyped ==
  ASSUME NEW s \in States, NEW ins, NEW operand \in Operand
  PROVE  ValueIn(s, ins, operand) \in Words
<1>1. LiteralValue(ins, operand.value) \in Words
  BY LiteralTyped DEF Operand
<1>2. VariableIn(s, operand.name) \in Words
  <2>1. CASE IsDeclared(s.names, operand.name)
    <3> DEFINE k == FindVariable(s.names, operand.name)
    <3>1. k \in Slot
      BY <2>1, FoundSlot
    <3>2. s.mem \in [Address -> 0..255]
      BY DEF States
    <3>3. WordIn(s.mem, SlotAddress(k)) \in Words
      BY <3>1, <3>2, SlotInMemory, WordInTyped
    <3> QED
      BY <2>1, <3>3 DEF VariableIn
  <2>2. CASE ~IsDeclared(s.names, operand.name)
    BY <2>2, Numbers DEF VariableIn
  <2> QED
    BY <2>1, <2>2
<1> QED
  BY <1>1, <1>2 DEF ValueIn

LEMMA ValuesTyped ==
  ASSUME NEW s \in States, NEW ins \in Code
  PROVE  LET v == Sequential!Values(ins, s)
         IN  /\ v \in Seq(Words) /\ Len(v) = Len(ins.args)
             /\ \A i \in 1..Len(ins.args) : v[i] = ValueIn(s, ins, ins.args[i])
             /\ DOMAIN v = 1..Len(ins.args)
<1> DEFINE n == Len(ins.args)
<1>1. n \in Nat /\ ins.args \in Seq(Operand)
  BY CodeFields
<1>2. \A i \in 1..n : ins.args[i] \in Operand
  BY <1>1
<1>3. \A i \in 1..n : ValueIn(s, ins, ins.args[i]) \in Words
  BY <1>2, ValueTyped
<1> HIDE DEF n
<1>4. [i \in 1..n |-> ValueIn(s, ins, ins.args[i])] \in Seq(Words)
  BY <1>1, <1>3
<1> QED
  BY <1>1, <1>4, SharedValues DEF n

\* A write leaves a typed memory, in which only the two bytes have changed.
LEMMA StoredTyped ==
  ASSUME NEW m \in [Address -> 0..255], NEW a \in Address, a + 1 \in Address, NEW v \in Words
  PROVE  /\ Stored(m, a, v) \in [Address -> 0..255]
         /\ \A b \in Address : b # a /\ b # a + 1 => Stored(m, a, v)[b] = m[b]
         /\ Stored(m, a, v)[a] = Memory!LowByte(v)
         /\ Stored(m, a, v)[a + 1] = Memory!HighByte(v)
<1>1. Memory!LowByte(v) \in 0..255 /\ Memory!HighByte(v) \in 0..255
  BY BytesTyped
<1>2. a # a + 1
  BY InstructionsAssumption DEF Address
<1> QED
  BY <1>1, <1>2 DEF Stored

\* The slot where a variable is placed.
LEMMA PlacedAt ==
  ASSUME NEW n, NEW x, TargetSlots(n, x) # {}
  PROVE  LET k == FirstOf(TargetSlots(n, x))
         IN  /\ k \in Slot /\ TargetSlots(n, x) = {k}
             /\ \/ n[k] = x
                \/ /\ n[k] = "" /\ \A t \in Slot : n[t] # x
                   /\ \A t \in Slot : n[t] = "" => k <= t
<1>1. PICK k : TargetSlots(n, x) = {k}
  BY DEF TargetSlots
<1>2. k \in Slot
  BY <1>1, TargetSlot
<1>3. FirstOf({k}) \in {k}
  BY <1>2, FirstOfLeast
<1> QED
  BY <1>1, <1>3, TargetSlot

\* A word of the memory has both its bytes there.
LEMMA Fitting ==
  ASSUME NEW a \in Nat
  PROVE  /\ Sequential!Accessible(a) <=> a + 2 <= VirtualBytes
         /\ a + 2 <= VirtualBytes => a \in Address /\ a + 1 \in Address
BY InstructionsAssumption DEF Sequential!Accessible, Sequential!Address, Address

\* What is assigned to a variable: a result, or a word of the memory.
Assigned(ins, s) ==
    IF ins.op = "READ" THEN WordIn(s.mem, ins.address)
    ELSE Result(ins, Sequential!Values(ins, s))

LEMMA AssignEffect ==
  ASSUME NEW s \in States, NEW ins \in Code, ins.op \in Assigning,
         ins.op = "READ" => ins.address + 2 <= VirtualBytes
  PROVE  /\ Sequential!Effect(ins, s) =
              [s EXCEPT !.names = Placed(s.names, ins.target),
                        !.mem = StoredFor(s.mem, s.names, ins.target, Assigned(ins, s))]
         /\ Assigned(ins, s) \in Words
<1> DEFINE v == Sequential!Values(ins, s)
<1>1. v \in Seq(Words) /\ Len(v) = Len(ins.args)
  BY ValuesTyped
<1>2. ins.address \in Nat /\ Len(ins.args) \in Nat /\ Len(ins.args) >= Arity(ins.op)
  BY CodeFields
<1>3. CASE ins.op \in {"DECLARE", "ADD", "SUBTRACT"}
  <2>1. Sequential!Effect(ins, s) = Sequential!Assign(s, ins.target, Result(ins, v))
    <3>1. Sequential!Result(ins, v) = Result(ins, v)
      BY SharedResults
    <3> HIDE DEF v
    <3> QED
      BY <1>3, <3>1 DEF Sequential!Effect, v
  <2>2. Assigned(ins, s) = Result(ins, v)
    BY <1>3 DEF Assigned
  <2>3. Arity(ins.op) \in {1, 2}
    BY <1>3 DEF Arity
  <2>4. v # <<>>
    <3> HIDE DEF v
    <3>1. Len(v) # 0
      BY <1>1, <1>2, <2>3
    <3> QED
      BY <3>1
  <2>5. Result(ins, v) \in Words
    BY <1>1, <1>2, <2>4, ResultTyped
  <2> QED
    BY <2>1, <2>2, <2>5, SharedAssign
<1>4. CASE ins.op = "READ"
  <2>1. Sequential!Accessible(ins.address) /\ ins.address \in Address /\ ins.address + 1 \in Address
    BY <1>2, <1>4, Fitting
  <2>2. Sequential!Effect(ins, s) = Sequential!Assign(s, ins.target, Sequential!Load(s.mem, ins.address))
    BY <1>4, <2>1 DEF Sequential!Effect
  <2>3. Sequential!Load(s.mem, ins.address) = Assigned(ins, s)
    BY <1>4 DEF Sequential!Load, WordIn, Memory!Word, Assigned
  <2>4. WordIn(s.mem, ins.address) \in Words
    BY <2>1, WordInTyped DEF States
  <2> QED
    BY <1>4, <2>2, <2>3, <2>4, SharedAssign DEF Assigned
<1> QED
  BY <1>3, <1>4 DEF Assigning

LEMMA ViolationEffect ==
  ASSUME NEW s \in States, NEW ins \in Code, ins.op \in {"READ", "WRITE"},
         ~(ins.address + 2 <= VirtualBytes)
  PROVE  Sequential!Effect(ins, s) = [s EXCEPT !.violated = TRUE]
<1>1. ~Sequential!Accessible(ins.address)
  BY CodeFields, Fitting
<1> QED
  BY <1>1 DEF Sequential!Effect, Sequential!Violation

LEMMA WriteEffect ==
  ASSUME NEW s \in States, NEW ins \in Code, ins.op = "WRITE", ins.address + 2 <= VirtualBytes
  PROVE  Sequential!Effect(ins, s) =
            [s EXCEPT !.mem = Stored(s.mem, ins.address, Sequential!Values(ins, s)[1])]
<1>1. Sequential!Accessible(ins.address)
  BY CodeFields, Fitting
<1> QED
  BY <1>1 DEF Sequential!Effect, Sequential!Store, Stored, Memory!LowByte, Memory!HighByte

LEMMA OtherEffects ==
  ASSUME NEW s, NEW ins
  PROVE  /\ ins.op = "PRINT" =>
              Sequential!Effect(ins, s) = [s EXCEPT !.shown = Sequential!Values(ins, s)]
         /\ ins.op = "SLEEP" =>
              Sequential!Effect(ins, s) =
                 [s EXCEPT !.nap = SleepAfter(s.nap, Sequential!Values(ins, s)[1])]
         /\ ins.op \in {"FOR", "NULL"} => Sequential!Effect(ins, s) = s
<1>1. Sequential!SleepAfter(s.nap, Sequential!Values(ins, s)[1]) =
         SleepAfter(s.nap, Sequential!Values(ins, s)[1])
  BY SharedResults
<1> QED
  BY <1>1 DEF Sequential!Effect

LEMMA PlacedTyped ==
  ASSUME NEW n \in [Slot -> STRING \cup {""}], NEW x \in STRING
  PROVE  Placed(n, x) \in [Slot -> STRING \cup {""}]
BY PlacedAt DEF Placed

LEMMA StoredForTyped ==
  ASSUME NEW m \in [Address -> 0..255], NEW n, NEW x, NEW v \in Words
  PROVE  StoredFor(m, n, x, v) \in [Address -> 0..255]
BY PlacedAt, SlotInMemory, StoredTyped DEF StoredFor

\* The first of the operands of an instruction that has some.
LEMMA FirstValue ==
  ASSUME NEW v \in Seq(Words), Len(v) >= 1
  PROVE  v[1] \in Words
OBVIOUS

\* A state in which some of it is replaced.
LEMMA Replaced ==
  ASSUME NEW M, NEW N, NEW L, NEW K, NEW B,
         NEW s \in [mem : M, names : N, shown : L, nap : K, violated : B],
         NEW m \in M, NEW n \in N, NEW l \in L, NEW k \in K, NEW b \in B
  PROVE  /\ [s EXCEPT !.names = n, !.mem = m] \in [mem : M, names : N, shown : L, nap : K, violated : B]
         /\ [s EXCEPT !.mem = m] \in [mem : M, names : N, shown : L, nap : K, violated : B]
         /\ [s EXCEPT !.shown = l] \in [mem : M, names : N, shown : L, nap : K, violated : B]
         /\ [s EXCEPT !.nap = k] \in [mem : M, names : N, shown : L, nap : K, violated : B]
         /\ [s EXCEPT !.violated = b] \in [mem : M, names : N, shown : L, nap : K, violated : B]
OBVIOUS

LEMMA StateReplaced ==
  ASSUME NEW s \in States
  PROVE  /\ \A m \in [Address -> 0..255], n \in [Slot -> STRING \cup {""}] :
              [s EXCEPT !.names = n, !.mem = m] \in States
         /\ \A m \in [Address -> 0..255] : [s EXCEPT !.mem = m] \in States
         /\ \A l \in Seq(Words) : [s EXCEPT !.shown = l] \in States
         /\ \A k \in 0..LongestSleep : [s EXCEPT !.nap = k] \in States
         /\ [s EXCEPT !.violated = TRUE] \in States
<1> DEFINE M == [Address -> 0..255]
           N == [Slot -> STRING \cup {""}]
           L == Seq(Words)
           K == 0..LongestSleep
           B == BOOLEAN
           T == [mem : M, names : N, shown : L, nap : K, violated : B]
<1>1. States = T
  BY DEF States
<1>2. TRUE \in B
  OBVIOUS
<1> HIDE DEF M, N, L, K, B
<1>3. s \in T /\ s.mem \in M /\ s.names \in N /\ s.shown \in L /\ s.nap \in K
  BY <1>1
<1>4. ASSUME NEW m \in M, NEW n \in N
      PROVE  [s EXCEPT !.names = n, !.mem = m] \in T /\ [s EXCEPT !.mem = m] \in T
  BY <1>2, <1>3, <1>4, Replaced
<1>5. ASSUME NEW l \in L PROVE [s EXCEPT !.shown = l] \in T
  BY <1>2, <1>3, <1>5, Replaced
<1>6. ASSUME NEW k \in K PROVE [s EXCEPT !.nap = k] \in T
  BY <1>2, <1>3, <1>6, Replaced
<1>7. [s EXCEPT !.violated = TRUE] \in T
  BY <1>2, <1>3, Replaced
<1> HIDE DEF T
<1>8. /\ \A m \in M, n \in N : [s EXCEPT !.names = n, !.mem = m] \in States
      /\ \A m \in M : [s EXCEPT !.mem = m] \in States
      /\ \A l \in L : [s EXCEPT !.shown = l] \in States
      /\ \A k \in K : [s EXCEPT !.nap = k] \in States
      /\ [s EXCEPT !.violated = TRUE] \in States
  <2>1. s.names \in N
    BY <1>3
  <2> QED
    BY <1>1, <1>4, <1>5, <1>6, <1>7, <2>1, Zenon
<1> QED
  BY <1>8, Zenon DEF M, N, L, K

LEMMA EffectTyped ==
  ASSUME NEW s \in States, NEW ins \in Code
  PROVE  Sequential!Effect(ins, s) \in States
<1> DEFINE v == Sequential!Values(ins, s)
<1>1. v \in Seq(Words) /\ Len(v) = Len(ins.args)
  BY ValuesTyped
<1>2. /\ ins.address \in Nat /\ ins.target \in STRING /\ ins.op \in Operations
      /\ Len(ins.args) \in Nat /\ Len(ins.args) >= Arity(ins.op)
  BY CodeFields
<1>3. ins.op \in {"WRITE", "SLEEP", "FOR"} => v[1] \in Words
  <2> SUFFICES ASSUME ins.op \in {"WRITE", "SLEEP", "FOR"} PROVE v[1] \in Words
    OBVIOUS
  <2>1. Arity(ins.op) = 1
    BY DEF Arity
  <2> HIDE DEF v
  <2> QED
    BY <1>1, <1>2, <2>1, FirstValue
<1> HIDE DEF v
<1>4. s.mem \in [Address -> 0..255] /\ s.names \in [Slot -> STRING \cup {""}]
  BY DEF States
<1>5. CASE ins.op \in Assigning /\ (ins.op = "READ" => ins.address + 2 <= VirtualBytes)
  <2> DEFINE a == Assigned(ins, s)
             n == Placed(s.names, ins.target)
             m == StoredFor(s.mem, s.names, ins.target, a)
  <2>1. a \in Words /\ Sequential!Effect(ins, s) = [s EXCEPT !.names = n, !.mem = m]
    BY <1>5, AssignEffect
  <2>2. n \in [Slot -> STRING \cup {""}] /\ m \in [Address -> 0..255]
    BY <1>2, <1>4, <2>1, PlacedTyped, StoredForTyped
  <2> HIDE DEF n, m, a
  <2>3. [s EXCEPT !.names = n, !.mem = m] \in States
    BY <2>2, StateReplaced
  <2> QED
    BY <2>1, <2>3
<1>6. CASE ins.op \in {"READ", "WRITE"} /\ ~(ins.address + 2 <= VirtualBytes)
  BY <1>6, ViolationEffect, StateReplaced
<1>7. CASE ins.op = "WRITE" /\ ins.address + 2 <= VirtualBytes
  <2>1. Stored(s.mem, ins.address, v[1]) \in [Address -> 0..255]
    BY <1>2, <1>3, <1>4, <1>7, Fitting, StoredTyped
  <2> QED
    BY <1>7, <2>1, WriteEffect, StateReplaced DEF v
<1>8. CASE ins.op = "PRINT"
  <2>1. Sequential!Effect(ins, s) = [s EXCEPT !.shown = v]
    BY <1>8, OtherEffects DEF v
  <2>2. [s EXCEPT !.shown = v] \in States
    BY <1>1, StateReplaced
  <2> QED
    BY <2>1, <2>2
<1>9. CASE ins.op = "SLEEP"
  <2>1. SleepAfter(s.nap, v[1]) \in 0..LongestSleep
    <3>1. v[1] \in Nat
      BY <1>3, <1>9, Numbers DEF Words
    <3>2. s.nap \in 0..LongestSleep
      BY DEF States
    <3> QED
      BY <3>1, <3>2, Numbers DEF SleepAfter, Smaller
  <2> QED
    <3>1. Sequential!Effect(ins, s) = [s EXCEPT !.nap = SleepAfter(s.nap, v[1])]
      BY <1>9, OtherEffects DEF v
    <3>2. [s EXCEPT !.nap = SleepAfter(s.nap, v[1])] \in States
      BY <2>1, StateReplaced
    <3> QED
      BY <3>1, <3>2
<1>10. CASE ins.op \in {"FOR", "NULL"}
  BY <1>10, OtherEffects
<1> QED
  BY <1>2, <1>5, <1>6, <1>7, <1>8, <1>9, <1>10 DEF Operations, Assigning

\* One step of the loop, and where it leads.
LEMMA StepTyped ==
  ASSUME NEW c \in Configs, c.todo # <<>>
  PROVE  /\ Head(c.todo) \in Code /\ Tail(c.todo) \in Seq(Code)
         /\ Sequential!Step(c) \in Configs
         /\ Sequential!Step(c).state = Sequential!Effect(Head(c.todo), c.state)
         /\ Head(c.todo).op # "FOR" => Sequential!Step(c).todo = Tail(c.todo)
         /\ Head(c.todo).op = "FOR" => Sequential!Step(c).todo =
               Unrolled(Head(c.todo).body, Sequential!Values(Head(c.todo), c.state)[1])
                  \o Tail(c.todo)
<1> DEFINE ins == Head(c.todo)
           v == Sequential!Values(ins, c.state)
<1>1. c.todo \in Seq(Code) /\ c.state \in States
  BY SharedSets
<1>2. ins \in Code /\ Tail(c.todo) \in Seq(Code)
  BY <1>1
<1>3. Sequential!Effect(ins, c.state) \in States
  BY <1>1, <1>2, EffectTyped
<1>4. CASE ins.op = "FOR"
  <2>1. v \in Seq(Words) /\ Len(v) >= 1
    <3>1. Len(v) = Len(ins.args) /\ v \in Seq(Words)
      BY <1>1, <1>2, ValuesTyped
    <3>2. Len(ins.args) >= Arity(ins.op)
      BY <1>2, CodeFields
    <3>3. Arity(ins.op) = 1
      BY <1>4 DEF Arity
    <3> HIDE DEF ins, v
    <3> QED
      BY <3>1, <3>2, <3>3
  <2>2. v[1] \in Nat
    <3> HIDE DEF v
    <3> QED
      BY <2>1, FirstValue, Numbers DEF Words
  <2>3. Unrolled(ins.body, v[1]) \in Seq(Code)
    BY <1>2, <2>2, CodeFields, UnrolledTyped
  <2>4. Sequential!Unrolled(ins.body, v[1]) = Unrolled(ins.body, v[1])
    BY SharedResults
  <2>5. Sequential!Body(ins, c.state) = Unrolled(ins.body, v[1])
    BY <1>4, <2>4 DEF Sequential!Body
  <2>6. Sequential!Step(c) = [todo |-> Unrolled(ins.body, v[1]) \o Tail(c.todo),
                              state |-> Sequential!Effect(ins, c.state)]
    BY <2>5 DEF Sequential!Step
  <2>7. Unrolled(ins.body, v[1]) \o Tail(c.todo) \in Seq(Code)
    BY <1>2, <2>3
  <2>8. Sequential!Step(c) \in Configs
    <3> HIDE DEF ins, v
    <3> QED
      BY <1>3, <2>6, <2>7, SharedSets
  <2>9. /\ Sequential!Step(c).todo = Unrolled(ins.body, v[1]) \o Tail(c.todo)
        /\ Sequential!Step(c).state = Sequential!Effect(ins, c.state)
    <3> DEFINE t == Unrolled(ins.body, v[1]) \o Tail(c.todo)
               e == Sequential!Effect(ins, c.state)
    <3>1. Sequential!Step(c) = [todo |-> t, state |-> e]
      BY <2>6
    <3> HIDE DEF t, e
    <3>2. Sequential!Step(c).todo = t /\ Sequential!Step(c).state = e
      BY <3>1
    <3> QED
      BY <3>2 DEF t, e
  <2> QED
    BY <1>2, <1>4, <2>8, <2>9
<1>5. CASE ins.op # "FOR"
  <2>1. Sequential!Body(ins, c.state) = <<>>
    BY <1>5 DEF Sequential!Body
  <2>2. <<>> \o Tail(c.todo) = Tail(c.todo)
    BY <1>2
  <2>3. Sequential!Step(c) = [todo |-> Tail(c.todo), state |-> Sequential!Effect(ins, c.state)]
    BY <2>1, <2>2 DEF Sequential!Step
  <2>4. Sequential!Step(c) \in Configs
    <3> HIDE DEF ins
    <3> QED
      BY <1>2, <1>3, <2>3, SharedSets
  <2>5. /\ Sequential!Step(c).todo = Tail(c.todo)
        /\ Sequential!Step(c).state = Sequential!Effect(ins, c.state)
    <3> HIDE DEF ins
    <3> QED
      BY <2>3
  <2> QED
    BY <1>2, <1>5, <2>4, <2>5
<1> QED
  BY <1>4, <1>5

LEMMA LoopClosed == Closed(Configs, Ends, Stepped)
BY StepTyped DEF Closed, Ends, Stepped

-----------------------------------------------------------------------------
(***************************************************************************)
(* Along a run.                                                            *)
(***************************************************************************)
LEMMA RunBegins ==
  ASSUME NEW c \in Configs
  PROVE  c \in Run(c) /\ Run(c) \subseteq Configs
BY VisitedClosed, LoopClosed DEF Run

LEMMA RunGoesOn ==
  ASSUME NEW c \in Configs, NEW d \in Run(c), d.todo # <<>>
  PROVE  Sequential!Step(d) \in Run(c)
<1>1. d \in Configs /\ Closed(Run(c), Ends, Stepped)
  BY VisitedClosed, LoopClosed DEF Run
<1> QED
  BY <1>1 DEF Closed, Ends, Stepped

LEMMA RunPeeled ==
  ASSUME NEW c \in Configs, c.todo # <<>>, NEW f \in Run(c), f.todo = <<>>
  PROVE  f \in Run(Sequential!Step(c))
<1>1. c \in Configs \ Ends /\ Stepped[c] = Sequential!Step(c)
  BY DEF Ends, Stepped
<1>2. Run(c) = {c} \cup Run(Sequential!Step(c))
  BY <1>1, VisitedStep, LoopClosed DEF Run
<1> QED
  BY <1>2

LEMMA RunEnds ==
  ASSUME NEW c \in Configs, c.todo = <<>>, NEW f \in Run(c)
  PROVE  f = c
<1>1. c \in Ends
  BY DEF Ends
<1>2. Run(c) = {c}
  BY <1>1, VisitedEnd, LoopClosed DEF Run
<1> QED
  BY <1>2

\* What holds at first and is kept by every step holds along the run.
LEMMA RunWithin ==
  ASSUME NEW c \in Configs, NEW S \in SUBSET Configs, c \in S,
         \A d \in S : d.todo # <<>> => Sequential!Step(d) \in S
  PROVE  Run(c) \subseteq S
<1>1. Closed(S, Ends, Stepped)
  BY DEF Closed, Ends, Stepped
<1> QED
  BY <1>1, VisitedWithin DEF Run

\* What a run ends with is what the loop returns.
LEMMA RunReturns ==
  ASSUME NEW c \in Configs, NEW f \in Run(c), f.todo = <<>>
  PROVE  Sequential!RunAll[c] = f.state
<1> DEFINE S == {d \in Configs : Sequential!RunAll[d] = Sequential!RunAll[c]}
<1>1. ASSUME NEW d \in Configs
      PROVE  Sequential!RunAll[d] =
                IF d.todo = <<>> THEN d.state ELSE Sequential!RunAll[Sequential!Step(d)]
  <2> DEFINE g == Sequential!RunAll
  <2>1. g = [e \in Configs |-> IF e.todo = <<>> THEN e.state ELSE g[Sequential!Step(e)]]
    BY LoopClosed, RunAllEquation
  <2> HIDE DEF g
  <2>2. g[d] = IF d.todo = <<>> THEN d.state ELSE g[Sequential!Step(d)]
    BY <2>1
  <2> QED
    BY <2>2 DEF g
<1>2. ASSUME NEW d \in S, d.todo # <<>> PROVE Sequential!Step(d) \in S
  <2>1. Sequential!Step(d) \in Configs
    BY <1>2, StepTyped
  <2>2. Sequential!RunAll[Sequential!Step(d)] = Sequential!RunAll[c]
    BY <1>1, <1>2
  <2> QED
    BY <2>1, <2>2
<1>3. Run(c) \subseteq S
  <2>1. S \in SUBSET Configs /\ c \in S
    OBVIOUS
  <2> HIDE DEF S
  <2> QED
    BY <1>2, <2>1, RunWithin
<1> QED
  BY <1>1, <1>3

\* The names after an instruction.
LEMMA NamesEffect ==
  ASSUME NEW s \in States, NEW ins \in Code
  PROVE  Sequential!Effect(ins, s).names =
            IF ins.op \in Assigning /\ (ins.op = "READ" => ins.address + 2 <= VirtualBytes)
            THEN Placed(s.names, ins.target) ELSE s.names
<1> DEFINE r == Sequential!Effect(ins, s)
<1>1. DOMAIN s = {"mem", "names", "shown", "nap", "violated"}
  BY DEF States
<1>2. CASE ins.op \in Assigning /\ (ins.op = "READ" => ins.address + 2 <= VirtualBytes)
  <2> DEFINE n == Placed(s.names, ins.target)
             m == StoredFor(s.mem, s.names, ins.target, Assigned(ins, s))
  <2>1. r = [s EXCEPT !.names = n, !.mem = m]
    BY <1>2, AssignEffect
  <2> HIDE DEF n, m
  <2>2. r.names = n
    BY <1>1, <2>1
  <2> QED
    BY <1>2, <2>2 DEF n
<1>3. CASE ins.op \in {"READ", "WRITE"} /\ ~(ins.address + 2 <= VirtualBytes)
  <2>1. r = [s EXCEPT !.violated = TRUE]
    BY <1>3, ViolationEffect
  <2>2. r.names = s.names
    BY <1>1, <2>1
  <2> QED
    BY <1>3, <2>2 DEF Assigning
<1>4. CASE ins.op = "WRITE" /\ ins.address + 2 <= VirtualBytes
  <2>1. r.names = s.names
    BY <1>1, <1>4, WriteEffect
  <2> QED
    BY <1>4, <2>1 DEF Assigning
<1>5. CASE ins.op \in {"PRINT", "SLEEP", "FOR", "NULL"}
  <2>1. r.names = s.names
    BY <1>1, <1>5, OtherEffects
  <2> QED
    BY <1>5, <2>1 DEF Assigning
<1> QED
  BY <1>2, <1>3, <1>4, <1>5, CodeFields DEF Operations, Assigning

\* A name that has been placed stays where it is.
Extends(n2, n1) == \A k \in Slot : n1[k] # "" => n2[k] = n1[k]

LEMMA PlacedExtends ==
  ASSUME NEW n \in [Slot -> STRING \cup {""}], NEW x
  PROVE  Extends(Placed(n, x), n)
<1>1. CASE TargetSlots(n, x) = {}
  BY <1>1 DEF Placed, Extends
<1>2. CASE TargetSlots(n, x) # {}
  <2> DEFINE k == FirstOf(TargetSlots(n, x))
  <2>1. k \in Slot /\ (n[k] = x \/ n[k] = "")
    BY <1>2, PlacedAt
  <2>2. Placed(n, x) = [n EXCEPT ![k] = x]
    BY <1>2 DEF Placed
  <2> HIDE DEF k
  <2> QED
    BY <2>1, <2>2 DEF Extends
<1> QED
  BY <1>1, <1>2

LEMMA RunExtends ==
  ASSUME NEW c \in Configs, NEW f \in Run(c)
  PROVE  Extends(f.state.names, c.state.names)
<1> DEFINE S == {d \in Configs : Extends(d.state.names, c.state.names)}
<1>1. ASSUME NEW d \in S, d.todo # <<>> PROVE Sequential!Step(d) \in S
  <2>1. /\ Sequential!Step(d) \in Configs /\ Head(d.todo) \in Code
        /\ Sequential!Step(d).state = Sequential!Effect(Head(d.todo), d.state)
    BY <1>1, StepTyped
  <2>2. d.state \in States /\ d.state.names \in [Slot -> STRING \cup {""}]
    BY SharedSets DEF States
  <2>3. Extends(Sequential!Step(d).state.names, d.state.names)
    <3> DEFINE n == d.state.names
               x == Head(d.todo).target
    <3>1. Extends(n, n) /\ Extends(Placed(n, x), n)
      BY <2>2, PlacedExtends DEF Extends
    <3>2. Sequential!Step(d).state.names \in {n, Placed(n, x)}
      <4> DEFINE ins == Head(d.todo)
                 s == d.state
      <4>1. ins \in Code /\ s \in States /\ Sequential!Step(d).state = Sequential!Effect(ins, s)
        BY <2>1, <2>2
      <4> HIDE DEF ins, s
      <4>2. Sequential!Effect(ins, s).names \in {s.names, Placed(s.names, ins.target)}
        BY <4>1, NamesEffect
      <4>3. Sequential!Step(d).state.names \in {s.names, Placed(s.names, ins.target)}
        BY <4>1, <4>2
      <4> QED
        BY <4>3 DEF ins, s
    <3> HIDE DEF n, x
    <3>3. Extends(Sequential!Step(d).state.names, n)
      BY <3>1, <3>2
    <3> QED
      BY <3>3 DEF n
  <2>4. Extends(d.state.names, c.state.names)
    OBVIOUS
  <2>5. Extends(Sequential!Step(d).state.names, c.state.names)
    BY <2>3, <2>4 DEF Extends
  <2> QED
    BY <2>1, <2>5
<1>2. S \in SUBSET Configs /\ c \in S
  BY DEF Extends
<1> HIDE DEF S
<1>3. Run(c) \subseteq S
  BY <1>1, <1>2, RunWithin
<1> QED
  BY <1>3 DEF S

-----------------------------------------------------------------------------
(***************************************************************************)
(* The parts of a command, and those that are still to be run.             *)
(***************************************************************************)
Parts == Sequential!Parts
Lines(ins) == Sequential!Repeated(ins)
Pending(t) == UNION {Parts[t[i]] : i \in DOMAIN t}

\* A FOR whose count is a literal runs its body, unless the literal is 0.
Counted(ins) == ins.op = "FOR" => ins.args[1].kind = "literal"
Count(ins) == LiteralValue(ins, ins.args[1].value)

\* The parts of a tree: the equation of a function that collects them has a
\* solution, whether or not the tree is finite.
LEMMA PartsCollected ==
  ASSUME \A c \in Code : Lines(c) \subseteq Code
  PROVE  \E g : g = [c \in Code |-> {c} \cup UNION {g[k] : k \in Lines(c)}]
<1> DEFINE Whole(S) == \A d \in S : Lines(d) \subseteq S
           least(c) == {d \in Code : \A S \in SUBSET Code : c \in S /\ Whole(S) => d \in S}
           g == [c \in Code |-> least(c)]
<1>1. ASSUME NEW c \in Code PROVE least(c) \in SUBSET Code /\ c \in least(c) /\ Whole(least(c))
  OBVIOUS
<1>2. ASSUME NEW c \in Code, NEW S \in SUBSET Code, c \in S, Whole(S) PROVE least(c) \subseteq S
  BY <1>2
<1> HIDE DEF least
<1>3. ASSUME NEW c \in Code PROVE least(c) = {c} \cup UNION {least(k) : k \in Lines(c)}
  <2> DEFINE T == {c} \cup UNION {least(k) : k \in Lines(c)}
  <2>1. T \subseteq least(c)
    <3>1. ASSUME NEW k \in Lines(c) PROVE least(k) \subseteq least(c)
      BY <1>1, <1>2
    <3> QED
      BY <1>1, <3>1
  <2>2. T \in SUBSET Code
    BY <1>1
  <2>3. Whole(T)
    <3>1. Lines(c) \subseteq T
      BY <1>1
    <3>2. ASSUME NEW k \in Lines(c), NEW d \in least(k) PROVE Lines(d) \subseteq T
      BY <1>1, <3>2
    <3> QED
      BY <3>1, <3>2
  <2>4. least(c) \subseteq T
    <3>1. c \in T
      OBVIOUS
    <3> HIDE DEF T
    <3> QED
      BY <1>2, <2>2, <2>3, <3>1
  <2> QED
    BY <2>1, <2>4
<1>4. ASSUME NEW c \in Code PROVE g[c] = {c} \cup UNION {g[k] : k \in Lines(c)}
  <2>1. {g[k] : k \in Lines(c)} = {least(k) : k \in Lines(c)}
    OBVIOUS
  <2> QED
    BY <1>3, <2>1
<1>5. g = [c \in Code |-> {c} \cup UNION {g[k] : k \in Lines(c)}]
  BY <1>4
<1> QED
  BY <1>5

LEMMA PartsOf ==
  ASSUME NEW ins \in Code
  PROVE  /\ Parts[ins] = {ins} \cup UNION {Parts[k] : k \in Lines(ins)}
         /\ Lines(ins) \subseteq Code
         /\ ins.op # "FOR" => Lines(ins) = {}
         /\ ins.op = "FOR" /\ Counted(ins) => Lines(ins) =
               IF Count(ins) = 0 THEN {} ELSE {ins.body[i] : i \in DOMAIN ins.body}
<1>1. ASSUME NEW c \in Code PROVE Lines(c) \subseteq Code
  <2>1. c.body \in Seq(Code)
    BY CodeFields
  <2>2. \A i \in DOMAIN c.body : c.body[i] \in Code
    BY <2>1
  <2> QED
    BY <2>2 DEF Lines, Sequential!Repeated
<1>2. \A c \in Code : Lines(c) \subseteq Code
  BY <1>1 DEF Lines
<1> DEFINE Q(f) == f = [c \in Code |-> {c} \cup UNION {f[k] : k \in Lines(c)}]
<1>3. \E g : Q(g)
  BY <1>2, PartsCollected
<1>4. Parts = CHOOSE f : Q(f)
  BY DEF Parts, Sequential!Parts, Lines
<1>5. Q(Parts)
  <2> HIDE DEF Q
  <2> QED
    BY <1>3, <1>4
<1>6. Parts[ins] = {ins} \cup UNION {Parts[k] : k \in Lines(ins)}
  BY <1>5
<1>7. Sequential!LiteralValue(ins, ins.args[1].value) = Count(ins)
  BY SharedResults DEF Count
<1> QED
  BY <1>1, <1>6, <1>7 DEF Lines, Sequential!Repeated, Counted

LEMMA PendingStep ==
  ASSUME NEW t \in Seq(Code), t # <<>>
  PROVE  Pending(t) = Parts[Head(t)] \cup Pending(Tail(t))
<1> DEFINE n == Len(t)
           u == Tail(t)
<1>1. n \in Nat /\ n >= 1 /\ DOMAIN t = 1..n /\ Head(t) = t[1]
  OBVIOUS
<1>2. DOMAIN u = 1..(n - 1) /\ \A i \in 1..(n - 1) : u[i] = t[i + 1]
  OBVIOUS
<1> HIDE DEF n, u
<1>3. ASSUME NEW p \in Pending(t) PROVE p \in Parts[t[1]] \cup Pending(u)
  <2>1. PICK i \in 1..n : p \in Parts[t[i]]
    BY <1>1 DEF Pending
  <2>2. CASE i = 1
    BY <2>1, <2>2
  <2>3. CASE i # 1
    <3>1. i - 1 \in 1..(n - 1) /\ u[i - 1] = t[i]
      BY <1>1, <1>2, <2>3
    <3> QED
      BY <1>2, <2>1, <3>1 DEF Pending
  <2> QED
    BY <2>2, <2>3
<1>4. Parts[t[1]] \subseteq Pending(t)
  BY <1>1 DEF Pending
<1>5. ASSUME NEW p \in Pending(u) PROVE p \in Pending(t)
  <2>1. PICK i \in 1..(n - 1) : p \in Parts[u[i]]
    BY <1>2 DEF Pending
  <2>2. i + 1 \in 1..n /\ u[i] = t[i + 1]
    BY <1>1, <1>2
  <2> QED
    BY <1>1, <2>1, <2>2 DEF Pending
<1> QED
  BY <1>1, <1>3, <1>4, <1>5 DEF u

\* A small number is its own remainder.
LEMMA SmallRemainder ==
  ASSUME NEW n \in Nat \ {0}, NEW k \in 0..(n - 1)
  PROVE  k % n = k
OBVIOUS

\* The body of a FOR is in what it unrolls into, and nothing else is.
LEMMA UnrolledLines ==
  ASSUME NEW b \in Seq(Code), NEW n \in Nat
  PROVE  LET u == Unrolled(b, n)
         IN  /\ \A j \in DOMAIN u : \E i \in DOMAIN b : u[j] = b[i]
             /\ n # 0 => \A i \in DOMAIN b : \E j \in DOMAIN u : u[j] = b[i]
             /\ n = 0 => DOMAIN u = {}
<1> DEFINE L == Len(b)
           m == n * L
           u == Unrolled(b, n)
<1>1. L \in Nat /\ DOMAIN b = 1..L /\ m \in Nat
  OBVIOUS
<1>2. DOMAIN u = 1..m /\ \A j \in 1..m : u[j] = b[((j - 1) % L) + 1]
  BY DEF Unrolled
<1>3. n = 0 => m = 0
  OBVIOUS
<1>4. n # 0 => m >= L
  BY <1>1
<1>5. L = 0 => m = 0
  OBVIOUS
<1> HIDE DEF L, m, u
<1>6. ASSUME NEW j \in 1..m PROVE \E i \in 1..L : u[j] = b[i]
  <2>1. L \in Nat \ {0} /\ j - 1 \in Nat
    BY <1>1, <1>5, <1>6
  <2> DEFINE k == (j - 1) % L
  <2>2. k \in 0..(L - 1)
    BY <2>1
  <2>3. u[j] = b[k + 1]
    BY <1>2
  <2> HIDE DEF k
  <2> QED
    BY <2>1, <2>2, <2>3
<1>7. ASSUME n # 0, NEW i \in 1..L PROVE i \in 1..m /\ u[i] = b[i]
  <2>1. L \in Nat \ {0} /\ i - 1 \in 0..(L - 1) /\ i \in 1..m
    BY <1>1, <1>4, <1>7
  <2>2. (i - 1) % L = i - 1
    BY <2>1, SmallRemainder
  <2> QED
    BY <1>2, <2>1, <2>2
<1> QED
  <2>1. \A j \in DOMAIN u : \E i \in DOMAIN b : u[j] = b[i]
    BY <1>1, <1>2, <1>6
  <2>2. n # 0 => \A i \in DOMAIN b : \E j \in DOMAIN u : u[j] = b[i]
    BY <1>1, <1>2, <1>7
  <2>3. n = 0 => DOMAIN u = {}
    BY <1>2, <1>3
  <2> QED
    BY <2>1, <2>2, <2>3 DEF u

LEMMA PendingJoined ==
  ASSUME NEW t \in Seq(Code), NEW u \in Seq(Code)
  PROVE  Pending(t \o u) = Pending(t) \cup Pending(u)
<1> DEFINE m == Len(t)
           n == Len(u)
           w == t \o u
<1>1. m \in Nat /\ n \in Nat /\ DOMAIN t = 1..m /\ DOMAIN u = 1..n /\ DOMAIN w = 1..(m + n)
  OBVIOUS
<1>2. /\ \A i \in 1..m : w[i] = t[i]
      /\ \A i \in 1..n : w[m + i] = u[i]
  OBVIOUS
<1> HIDE DEF m, n, w
<1>3. ASSUME NEW p \in Pending(w) PROVE p \in Pending(t) \cup Pending(u)
  <2>1. PICK i \in 1..(m + n) : p \in Parts[w[i]]
    BY <1>1 DEF Pending
  <2>2. CASE i <= m
    BY <1>1, <1>2, <2>1, <2>2 DEF Pending
  <2>3. CASE ~(i <= m)
    <3>1. i - m \in 1..n /\ m + (i - m) = i
      BY <1>1, <2>3
    <3>2. p \in Parts[u[i - m]]
      BY <1>2, <2>1, <3>1
    <3> QED
      BY <1>1, <3>1, <3>2 DEF Pending
  <2> QED
    BY <2>2, <2>3
<1>4. ASSUME NEW p \in Pending(t) PROVE p \in Pending(w)
  <2>1. PICK i \in 1..m : p \in Parts[t[i]]
    BY <1>1 DEF Pending
  <2>2. i \in 1..(m + n)
    BY <1>1
  <2> QED
    BY <1>1, <1>2, <2>1, <2>2 DEF Pending
<1>5. ASSUME NEW p \in Pending(u) PROVE p \in Pending(w)
  <2>1. PICK i \in 1..n : p \in Parts[u[i]]
    BY <1>1 DEF Pending
  <2>2. m + i \in 1..(m + n)
    BY <1>1
  <2> QED
    BY <1>1, <1>2, <2>1, <2>2 DEF Pending
<1> QED
  BY <1>3, <1>4, <1>5 DEF w

\* What is pending when an instruction has returned, and when a FOR is unrolled.
LEMMA PendingReturned ==
  ASSUME NEW t \in Seq(Code), t # <<>>, Head(t).op # "FOR"
  PROVE  Pending(t) = {Head(t)} \cup Pending(Tail(t))
<1>1. Head(t) \in Code
  OBVIOUS
<1>2. Parts[Head(t)] = {Head(t)}
  BY <1>1, PartsOf
<1> QED
  BY <1>2, PendingStep

LEMMA PendingUnrolled ==
  ASSUME NEW t \in Seq(Code), t # <<>>, Head(t).op = "FOR", Counted(Head(t))
  PROVE  LET p == Pending(Unrolled(Head(t).body, Count(Head(t))) \o Tail(t))
         IN  p \subseteq Pending(t) /\ Pending(t) \subseteq {Head(t)} \cup p
<1> DEFINE ins == Head(t)
<1>1. ins \in Code /\ Tail(t) \in Seq(Code)
  OBVIOUS
<1>2. ins.body \in Seq(Code) /\ ins.args \in Seq(Operand) /\ Len(ins.args) >= 1
  BY <1>1, CodeFields DEF Arity
<1>3. Count(ins) \in Nat
  <2>1. ins.args[1] \in Operand
    <3> HIDE DEF ins
    <3> QED
      BY <1>2
  <2>2. ins.args[1].value \in Nat
    BY <2>1 DEF Operand
  <2> QED
    BY <2>2, LiteralTyped, Numbers DEF Count, Words
<1> DEFINE u == Unrolled(ins.body, Count(ins))
<1>4. u \in Seq(Code)
  BY <1>2, <1>3, UnrolledTyped
<1>5. Parts[ins] = {ins} \cup UNION {Parts[k] : k \in Lines(ins)}
  BY <1>1, PartsOf
<1>6. Lines(ins) = IF Count(ins) = 0 THEN {} ELSE {ins.body[i] : i \in DOMAIN ins.body}
  BY <1>1, PartsOf
<1>7. Pending(t) = Parts[ins] \cup Pending(Tail(t))
  BY PendingStep
<1>8. /\ \A j \in DOMAIN u : \E i \in DOMAIN ins.body : u[j] = ins.body[i]
      /\ Count(ins) # 0 => \A i \in DOMAIN ins.body : \E j \in DOMAIN u : u[j] = ins.body[i]
      /\ Count(ins) = 0 => DOMAIN u = {}
  BY <1>2, <1>3, UnrolledLines
<1> HIDE DEF ins, u
<1>9. Pending(u) = UNION {Parts[k] : k \in Lines(ins)}
  <2>1. CASE Count(ins) = 0
    BY <1>6, <1>8, <2>1 DEF Pending
  <2>2. CASE Count(ins) # 0
    BY <1>6, <1>8, <2>2 DEF Pending
  <2> QED
    BY <2>1, <2>2
<1>10. Pending(u \o Tail(t)) = Pending(u) \cup Pending(Tail(t))
  BY <1>1, <1>4, PendingJoined
<1>11. /\ Pending(u \o Tail(t)) \subseteq Pending(t)
       /\ Pending(t) \subseteq {ins} \cup Pending(u \o Tail(t))
  BY <1>5, <1>7, <1>9, <1>10
<1> QED
  BY <1>11 DEF ins, u

-----------------------------------------------------------------------------
(***************************************************************************)
(* The names, from one attempt to the next.                                *)
(***************************************************************************)
NameTables == [Slot -> STRING \cup {""}]

\* Every name in one slot.
Apart(n) == \A s, t \in Slot : s # t /\ n[s] = n[t] => n[s] = ""

LEMMA SameTable ==
  ASSUME NEW n1 \in NameTables, NEW n2 \in NameTables, \A k \in Slot : n1[k] = n2[k]
  PROVE  n1 = n2
<1> DEFINE T == STRING \cup {""}
<1>1. n1 \in [Slot -> T] /\ n2 \in [Slot -> T]
  BY DEF NameTables
<1> HIDE DEF T
<1> QED
  BY <1>1

\* A variable found where a repeated run will place it.
LEMMA TargetKept ==
  ASSUME NEW n \in NameTables, NEW n1 \in NameTables, NEW x \in STRING, x # "",
         Apart(n), Extends(n, Placed(n1, x))
  PROVE  TargetSlots(n, x) = TargetSlots(n1, x) /\ Placed(n, x) = n
<1>1. CASE TargetSlots(n1, x) = {}
  <2>1. \A k \in Slot : n1[k] # ""
    BY <1>1 DEF TargetSlots, IsDeclared, SlotsNamed
  <2>2. Placed(n1, x) = n1
    BY <1>1 DEF Placed
  <2>3. \A k \in Slot : n[k] = n1[k]
    BY <2>1, <2>2 DEF Extends
  <2>4. n = n1
    BY <2>3, SameTable
  <2> QED
    BY <2>2, <2>4
<1>2. CASE TargetSlots(n1, x) # {}
  <2> DEFINE k == FirstOf(TargetSlots(n1, x))
  <2>1. k \in Slot /\ TargetSlots(n1, x) = {k}
    BY <1>2, PlacedAt
  <2>2. Placed(n1, x) = [n1 EXCEPT ![k] = x]
    BY <1>2 DEF Placed
  <2> HIDE DEF k
  <2>3. Placed(n1, x)[k] = x
    BY <2>1, <2>2 DEF NameTables
  <2>4. n[k] = x
    BY <2>1, <2>3 DEF Extends
  <2>5. IsDeclared(n, x)
    BY <2>1, <2>4 DEF IsDeclared, SlotsNamed
  <2>6. FindVariable(n, x) \in Slot /\ n[FindVariable(n, x)] = x
    BY <2>5, FoundSlot
  <2>7. FindVariable(n, x) = k
    BY <2>1, <2>4, <2>6 DEF Apart
  <2>8. TargetSlots(n, x) = {k}
    BY <2>5, <2>7 DEF TargetSlots
  <2>9. FirstOf({k}) = k
    <3>1. FirstOf({k}) \in {k}
      BY <2>1, FirstOfLeast
    <3> QED
      BY <3>1
  <2>10. Placed(n, x) = [n EXCEPT ![k] = x]
    BY <2>8, <2>9 DEF Placed
  <2>11. Placed(n, x) = n
    BY <2>4, <2>10 DEF NameTables
  <2> QED
    BY <2>1, <2>8, <2>11
<1> QED
  BY <1>1, <1>2

\* A variable that is placed stays in its slot.
LEMMA PlacedAgain ==
  ASSUME NEW n \in NameTables, NEW x \in STRING
  PROVE  /\ TargetSlots(Placed(n, x), x) = TargetSlots(n, x)
         /\ Placed(Placed(n, x), x) = Placed(n, x)
<1>1. CASE TargetSlots(n, x) = {}
  BY <1>1 DEF Placed
<1>2. CASE TargetSlots(n, x) # {}
  <2> DEFINE k == FirstOf(TargetSlots(n, x))
             p == Placed(n, x)
  <2>1. /\ k \in Slot /\ TargetSlots(n, x) = {k}
        /\ n[k] = x \/ \A t \in Slot : n[t] # x
    BY <1>2, PlacedAt
  <2>2. p = [n EXCEPT ![k] = x]
    BY <1>2 DEF Placed
  <2>3. CASE n[k] = x
    <3>1. p = n
      <4> HIDE DEF k, p
      <4> QED
        BY <2>2, <2>3 DEF NameTables
    <3> QED
      BY <3>1
  <2>4. CASE \A t \in Slot : n[t] # x
    <3> HIDE DEF k, p
    <3>1. p[k] = x /\ \A t \in Slot : p[t] = x => t = k
      BY <2>1, <2>2, <2>4 DEF NameTables
    <3>2. IsDeclared(p, x)
      BY <2>1, <3>1 DEF IsDeclared, SlotsNamed
    <3>3. FindVariable(p, x) = k
      BY <3>1, <3>2, FoundSlot
    <3>4. TargetSlots(p, x) = {k}
      BY <3>2, <3>3 DEF TargetSlots
    <3>5. FirstOf({k}) = k
      <4>1. FirstOf({k}) \in {k}
        BY <2>1, FirstOfLeast
      <4> QED
        BY <4>1
    <3>6. Placed(p, x) = [p EXCEPT ![k] = x]
      BY <3>4, <3>5 DEF Placed
    <3>7. Placed(p, x) = p
      BY <2>2, <3>1, <3>6 DEF NameTables
    <3> QED
      BY <2>1, <3>4, <3>7 DEF p
  <2> QED
    BY <2>1, <2>3, <2>4
<1> QED
  BY <1>1, <1>2

\* How the names in an attempt, n, go with those of the run that the text
\* describes, which is at c: in the first attempt they are the same; in later
\* ones every variable is in its slot from the start; and where a READ may be
\* skipped there is one variable only, which is placed in both or in one.
NoRead(P) == \A i \in P : i.op # "READ"
Only(P, x) == \A i \in P : i.op \in Assigning => i.target = x

First(P, c, n) == NoRead(P) /\ n = c.state.names
Later(P, c, n) == NoRead(P) /\ \E f \in Run(c) : f.todo = <<>> /\ n = f.state.names
Single(P, n0, c, n) ==
    /\ ~NoRead(P)
    /\ \E x : /\ Only(P, x)
             /\ n \in {n0, Placed(n0, x)}
             /\ c.state.names \in {n0, Placed(n0, x)}
Along(P, n0, c, n) == First(P, c, n) \/ Later(P, c, n) \/ Single(P, n0, c, n)

\* A variable is assigned to.
LEMMA AlongAssigned ==
  ASSUME NEW P, NEW n0 \in NameTables, NEW c \in Configs, NEW n \in NameTables,
         c.todo # <<>>, Head(c.todo) \in P, Head(c.todo).op \in Assigning,
         Head(c.todo).target # "",
         Head(c.todo).op = "READ" => Head(c.todo).address + 2 <= VirtualBytes,
         Apart(n), Along(P, n0, c, n)
  PROVE  LET x == Head(c.todo).target
         IN  /\ TargetSlots(n, x) = TargetSlots(c.state.names, x)
             /\ Along(P, n0, Sequential!Step(c), Placed(n, x))
             /\ ~NoRead(P) => Placed(n, x) = Sequential!Step(c).state.names
<1> DEFINE ins == Head(c.todo)
           x == ins.target
           d == Sequential!Step(c)
           s == c.state
<1>1. /\ ins \in Code /\ s \in States /\ s.names \in NameTables /\ d \in Configs
      /\ d.state = Sequential!Effect(ins, s) /\ x \in STRING /\ x # ""
  <2>1. ins \in Code /\ d \in Configs /\ d.state = Sequential!Effect(ins, s)
    BY StepTyped
  <2>2. s \in States
    BY SharedSets
  <2>3. s.names \in NameTables
    BY <2>2 DEF States, NameTables
  <2>4. x \in STRING
    BY <2>1, CodeFields
  <2> QED
    BY <2>1, <2>2, <2>3, <2>4
<1>2. ins.op \in Assigning /\ (ins.op = "READ" => ins.address + 2 <= VirtualBytes) /\ ins \in P
  OBVIOUS
<1>3. \A f \in Run(c) : f.todo = <<>> => f \in Run(d)
  BY RunPeeled
<1> HIDE DEF ins, d, s
<1>4. d.state.names = Placed(s.names, x)
  BY <1>1, <1>2, NamesEffect
<1> HIDE DEF x
<1>5. CASE First(P, c, n)
  <2>1. First(P, d, Placed(n, x)) /\ n = s.names
    BY <1>4, <1>5 DEF First, s
  <2>2. Placed(n, x) = d.state.names
    BY <1>4, <2>1
  <2> QED
    BY <2>1, <2>2 DEF Along, x, ins, d, s
<1>6. CASE Later(P, c, n)
  <2>1. PICK f \in Run(c) : f.todo = <<>> /\ n = f.state.names
    BY <1>6 DEF Later
  <2>2. f \in Run(d)
    BY <1>3, <2>1
  <2>3. Extends(n, Placed(s.names, x))
    BY <1>1, <1>4, <2>1, <2>2, RunExtends
  <2>4. TargetSlots(n, x) = TargetSlots(s.names, x) /\ Placed(n, x) = n
    BY <1>1, <2>3, TargetKept
  <2>5. Later(P, d, Placed(n, x))
    BY <1>6, <2>1, <2>2, <2>4 DEF Later
  <2>6. NoRead(P)
    BY <1>6 DEF Later
  <2> QED
    BY <2>4, <2>5, <2>6 DEF Along, x, ins, d, s
<1>7. CASE Single(P, n0, c, n)
  <2>1. PICK y : /\ Only(P, y) /\ n \in {n0, Placed(n0, y)}
                /\ s.names \in {n0, Placed(n0, y)}
    BY <1>7 DEF Single, s
  <2>2. y = x
    BY <1>2, <2>1 DEF Only, x
  <2>3. TargetSlots(n, x) = TargetSlots(n0, x) /\ TargetSlots(s.names, x) = TargetSlots(n0, x)
    BY <1>1, <2>1, <2>2, PlacedAgain
  <2>4. Placed(n, x) = Placed(n0, x) /\ Placed(s.names, x) = Placed(n0, x)
    BY <1>1, <2>1, <2>2, PlacedAgain
  <2>5. Single(P, n0, d, Placed(n, x))
    BY <1>1, <1>4, <1>7, <2>1, <2>2, <2>4 DEF Single
  <2> QED
    BY <1>4, <2>3, <2>4, <2>5 DEF Along, x, ins, d, s
<1> QED
  BY <1>5, <1>6, <1>7 DEF Along

\* No variable is assigned to, or a READ is skipped.
LEMMA AlongElse ==
  ASSUME NEW P, NEW n0 \in NameTables, NEW c \in Configs, NEW n,
         c.todo # <<>>, Head(c.todo) \in P,
         Head(c.todo).op \notin Assigning \/ Head(c.todo).op = "READ",
         Along(P, n0, c, n)
  PROVE  Along(P, n0, Sequential!Step(c), n)
<1> DEFINE ins == Head(c.todo)
           d == Sequential!Step(c)
           s == c.state
<1>1. ins \in Code /\ s \in States /\ d.state = Sequential!Effect(ins, s)
  <2>1. ins \in Code /\ d.state = Sequential!Effect(ins, s)
    BY StepTyped
  <2>2. s \in States
    BY SharedSets
  <2> QED
    BY <2>1, <2>2
<1>2. \A f \in Run(c) : f.todo = <<>> => f \in Run(d)
  BY RunPeeled
<1>3. ins \in P /\ (ins.op \notin Assigning \/ ins.op = "READ")
  OBVIOUS
<1> HIDE DEF ins, d, s
<1>4. /\ ins.op \notin Assigning => d.state.names = s.names
      /\ d.state.names \in {s.names, Placed(s.names, ins.target)}
  BY <1>1, NamesEffect
<1>5. CASE First(P, c, n)
  <2>1. ins.op # "READ" /\ n = s.names
    BY <1>3, <1>5 DEF First, NoRead, s
  <2>2. n = d.state.names
    BY <1>3, <1>4, <2>1
  <2>3. First(P, d, n)
    BY <1>5, <2>2 DEF First
  <2> QED
    BY <2>3 DEF Along, d
<1>6. CASE Later(P, c, n)
  <2>1. Later(P, d, n)
    BY <1>2, <1>6 DEF Later
  <2> QED
    BY <2>1 DEF Along, d
<1>7. CASE Single(P, n0, c, n)
  <2>1. PICK y : /\ Only(P, y) /\ n \in {n0, Placed(n0, y)}
                /\ s.names \in {n0, Placed(n0, y)}
    BY <1>7 DEF Single, s
  <2>2. d.state.names \in {n0, Placed(n0, y)}
    <3>1. CASE ins.op \notin Assigning
      BY <1>4, <2>1, <3>1
    <3>2. CASE ins.op = "READ"
      <4>1. ins.target = y
        BY <1>3, <2>1, <3>2 DEF Only, Assigning
      <4>2. Placed(s.names, y) = Placed(n0, y)
        BY <1>1, <2>1, <4>1, CodeFields, PlacedAgain
      <4> QED
        BY <1>4, <2>1, <4>1, <4>2
    <3> QED
      BY <1>3, <3>1, <3>2
  <2>3. Single(P, n0, d, n)
    BY <1>7, <2>1, <2>2 DEF Single
  <2> QED
    BY <2>3 DEF Along, d
<1> QED
  BY <1>5, <1>6, <1>7 DEF Along

\* Where the names are those at the end, and all that is left is done.
LEMMA AlongEnds ==
  ASSUME NEW P, NEW n0, NEW c \in Configs, NEW n, c.todo = <<>>,
         Along(P, n0, c, n), NoRead(P)
  PROVE  n = c.state.names
BY RunEnds DEF Along, First, Later, Single

\* The names that have been added are those of variables assigned to.
Grown(P, n0, n) ==
    \A k \in Slot : \/ n[k] = n0[k]
                    \/ n0[k] = "" /\ \E i \in P : i.op \in Assigning /\ n[k] = i.target

LEMMA GrownAssigned ==
  ASSUME NEW P, NEW n0, NEW n \in NameTables, NEW ins \in P, ins.op \in Assigning,
         Grown(P, n0, n)
  PROVE  Grown(P, n0, Placed(n, ins.target))
<1> DEFINE x == ins.target
<1>1. CASE TargetSlots(n, x) = {}
  BY <1>1 DEF Placed
<1>2. CASE TargetSlots(n, x) # {}
  <2> DEFINE k == FirstOf(TargetSlots(n, x))
  <2>1. k \in Slot /\ (n[k] = x \/ n[k] = "")
    BY <1>2, PlacedAt
  <2>2. Placed(n, x) = [n EXCEPT ![k] = x]
    BY <1>2 DEF Placed
  <2> HIDE DEF k
  <2>3. ASSUME NEW t \in Slot
        PROVE  Placed(n, x)[t] = n[t] \/ (t = k /\ n[k] = "" /\ Placed(n, x)[t] = x)
    BY <2>1, <2>2 DEF NameTables
  <2> QED
    BY <2>1, <2>3 DEF Grown
<1> QED
  BY <1>1, <1>2

\* A name that is not assigned to is in the same slots as before.
Unassigned(P, x) == \A i \in P : i.op \in Assigning => i.target # x /\ x # ""

LEMMA GrownElse ==
  ASSUME NEW P, NEW n0, NEW n, NEW x, Grown(P, n0, n), Unassigned(P, x)
  PROVE  SlotsNamed(n, x) = SlotsNamed(n0, x)
BY DEF Grown, SlotsNamed, Unassigned

-----------------------------------------------------------------------------
(***************************************************************************)
(* The bytes that an instruction may write, and memories that are the same *)
(* elsewhere.                                                              *)
(***************************************************************************)
WordBytes(a) == {a, a + 1}
Hit(P, n, a) ==
    \E i \in P : \/ i.op = "WRITE" /\ a \in WordBytes(i.address)
                 \/ /\ i.op \in Assigning
                    /\ \E k \in Slot : n[k] = i.target /\ a \in WordBytes(SlotAddress(k))
Same(P, n, m1, m2) == \A a \in Address : m1[a] = m2[a] \/ Hit(P, n, a)

Named(P) == \A i \in P : i.op \in Assigning => i.target # ""

LEMMA HitLater ==
  ASSUME NEW P, NEW Q, P \subseteq Q, NEW n1, NEW n2, Extends(n2, n1), Named(P),
         NEW a, Hit(P, n1, a)
  PROVE  Hit(Q, n2, a)
<1>1. PICK i \in P : \/ i.op = "WRITE" /\ a \in WordBytes(i.address)
                     \/ /\ i.op \in Assigning
                        /\ \E k \in Slot : n1[k] = i.target /\ a \in WordBytes(SlotAddress(k))
  BY DEF Hit
<1>2. CASE i.op = "WRITE" /\ a \in WordBytes(i.address)
  BY <1>2 DEF Hit
<1>3. ASSUME i.op \in Assigning, NEW k \in Slot, n1[k] = i.target,
             a \in WordBytes(SlotAddress(k))
      PROVE  Hit(Q, n2, a)
  <2>1. n2[k] = i.target
    BY <1>3 DEF Extends, Named
  <2> QED
    BY <1>3, <2>1 DEF Hit
<1> QED
  BY <1>1, <1>2, <1>3

LEMMA SameLater ==
  ASSUME NEW P, NEW Q, P \subseteq Q, NEW n1, NEW n2, Extends(n2, n1), Named(P),
         NEW m1, NEW m2, Same(P, n1, m1, m2)
  PROVE  Same(Q, n2, m1, m2)
BY HitLater DEF Same

\* A word is written in one memory, or in both.
Memories == [Address -> 0..255]

LEMMA SameWritten ==
  ASSUME NEW P, NEW ins, NEW n, NEW m1 \in Memories, NEW m2 \in Memories, NEW v \in Words,
         ins.op = "WRITE", ins.address \in Address, ins.address + 1 \in Address,
         Same({ins} \cup P, n, m1, m2)
  PROVE  /\ Same({ins} \cup P, n, Stored(m1, ins.address, v), m2)
         /\ Same(P, n, Stored(m1, ins.address, v), Stored(m2, ins.address, v))
<1> DEFINE a == ins.address
           w1 == Stored(m1, a, v)
           w2 == Stored(m2, a, v)
<1>1. /\ \A b \in Address : b # a /\ b # a + 1 => w1[b] = m1[b] /\ w2[b] = m2[b]
      /\ w1[a] = w2[a] /\ w1[a + 1] = w2[a + 1]
  BY StoredTyped DEF Memories
<1> HIDE DEF w1, w2
<1>2. ASSUME NEW b \in Address
      PROVE  /\ w1[b] = m2[b] \/ Hit({ins} \cup P, n, b)
             /\ w1[b] = w2[b] \/ Hit(P, n, b)
  <2>1. CASE b = a \/ b = a + 1
    <3>1. Hit({ins} \cup P, n, b)
      BY <2>1 DEF Hit, WordBytes
    <3> QED
      BY <1>1, <2>1, <3>1
  <2>2. CASE b # a /\ b # a + 1
    <3>1. w1[b] = m1[b] /\ w2[b] = m2[b] /\ b \notin WordBytes(a)
      BY <1>1, <2>2 DEF WordBytes
    <3>2. m1[b] = m2[b] \/ Hit({ins} \cup P, n, b)
      BY DEF Same
    <3>3. Hit({ins} \cup P, n, b) => Hit(P, n, b)
      BY <3>1 DEF Hit, Assigning
    <3> QED
      BY <3>1, <3>2, <3>3
  <2> QED
    BY <2>1, <2>2
<1> QED
  BY <1>2 DEF Same, w1, w2

LEMMA SameAssigned ==
  ASSUME NEW P, NEW ins, NEW n \in NameTables, NEW n1, NEW m1 \in Memories, NEW m2 \in Memories,
         NEW v \in Words, ins.op \in Assigning, ins.target # "", Named(P), Apart(n),
         TargetSlots(n, ins.target) = TargetSlots(n1, ins.target),
         Same({ins} \cup P, n, m1, m2)
  PROVE  LET x == ins.target
         IN  /\ Same({ins} \cup P, Placed(n, x), StoredFor(m1, n, x, v), m2)
             /\ Same({ins} \cup P, Placed(n, x), m1, m2)
             /\ Same(P, Placed(n, x), StoredFor(m1, n, x, v), StoredFor(m2, n1, x, v))
<1> DEFINE x == ins.target
           p == Placed(n, x)
           Q == {ins} \cup P
           T == TargetSlots(n, x)
           w1 == StoredFor(m1, n, x, v)
           w2 == StoredFor(m2, n1, x, v)
<1>1. Extends(p, n)
  BY PlacedExtends DEF NameTables
<1>2. Same(Q, p, m1, m2)
  <2>1. Named(Q)
    BY DEF Named
  <2> HIDE DEF p, Q
  <2>2. Q \subseteq Q
    OBVIOUS
  <2> QED
    BY <1>1, <2>1, <2>2, SameLater DEF Q
<1>3. ASSUME NEW a, Hit(P, n, a) PROVE Hit(P, p, a)
  <2> HIDE DEF p
  <2>1. P \subseteq P
    OBVIOUS
  <2> QED
    BY <1>1, <1>3, <2>1, HitLater
<1>4. CASE T = {}
  <2>1. p = n /\ w1 = m1 /\ w2 = m2
    BY <1>4 DEF Placed, StoredFor
  <2>2. \A k \in Slot : n[k] # x
    BY <1>4 DEF TargetSlots, IsDeclared, SlotsNamed
  <2> HIDE DEF p, w1, w2
  <2>3. ASSUME NEW a, Hit(Q, n, a) PROVE Hit(P, n, a)
    BY <2>2, <2>3 DEF Hit, Assigning
  <2>4. Same(P, n, m1, m2)
    BY <2>3 DEF Same, Q
  <2> QED
    BY <1>2, <2>1, <2>4 DEF p, w1, w2, Q
<1>5. CASE T # {}
  <2> DEFINE k == FirstOf(T)
             b == SlotAddress(k)
  <2>1. k \in Slot /\ (n[k] = x \/ \A t \in Slot : n[t] # x)
    BY <1>5, PlacedAt
  <2>2. p = [n EXCEPT ![k] = x] /\ w1 = Stored(m1, b, v) /\ w2 = Stored(m2, b, v)
    BY <1>5 DEF Placed, StoredFor
  <2>3. b \in Address /\ b + 1 \in Address
    BY <2>1, SlotInMemory
  <2> HIDE DEF k, b, T, p, w1, w2
  <2>4. p[k] = x
    BY <2>1, <2>2 DEF NameTables
  <2>5. /\ \A a \in Address : a # b /\ a # b + 1 => w1[a] = m1[a] /\ w2[a] = m2[a]
        /\ w1[b] = w2[b] /\ w1[b + 1] = w2[b + 1]
    <3>1. /\ \A a \in Address : a # b /\ a # b + 1 => w1[a] = m1[a]
          /\ w1[b] = Memory!LowByte(v) /\ w1[b + 1] = Memory!HighByte(v)
      <4> DEFINE M == [Address -> 0..255]
      <4>0. m1 \in M
        BY DEF Memories
      <4>1. /\ \A a \in Address : a # b /\ a # b + 1 => Stored(m1, b, v)[a] = m1[a]
            /\ Stored(m1, b, v)[b] = Memory!LowByte(v)
            /\ Stored(m1, b, v)[b + 1] = Memory!HighByte(v)
        BY <2>3, <4>0, StoredTyped, Zenon
      <4> QED
        BY <2>2, <4>1
    <3>2. /\ \A a \in Address : a # b /\ a # b + 1 => w2[a] = m2[a]
          /\ w2[b] = Memory!LowByte(v) /\ w2[b + 1] = Memory!HighByte(v)
      <4> DEFINE M == [Address -> 0..255]
      <4>0. m2 \in M
        BY DEF Memories
      <4>1. /\ \A a \in Address : a # b /\ a # b + 1 => Stored(m2, b, v)[a] = m2[a]
            /\ Stored(m2, b, v)[b] = Memory!LowByte(v)
            /\ Stored(m2, b, v)[b + 1] = Memory!HighByte(v)
        BY <2>3, <4>0, StoredTyped, Zenon
      <4> QED
        BY <2>2, <4>1
    <3> QED
      BY <3>1, <3>2
  <2>6. ASSUME NEW a \in Address
        PROVE  /\ w1[a] = m2[a] \/ Hit(Q, p, a)
               /\ w1[a] = w2[a] \/ Hit(P, p, a)
    <3>1. CASE a = b \/ a = b + 1
      <4>1. Hit(Q, p, a)
        BY <2>1, <2>4, <3>1 DEF Hit, WordBytes, b
      <4> QED
        BY <2>5, <3>1, <4>1
    <3>2. CASE a # b /\ a # b + 1
      <4>1. w1[a] = m1[a] /\ w2[a] = m2[a] /\ a \notin WordBytes(b)
        BY <2>5, <3>2 DEF WordBytes
      <4>2. m1[a] = m2[a] \/ Hit(Q, n, a)
        BY DEF Same
      <4>3. m1[a] = m2[a] \/ Hit(Q, p, a)
        BY <1>2 DEF Same
      <4>4. ASSUME Hit(Q, n, a) PROVE Hit(P, n, a)
        <5>1. ~\E j \in Slot : n[j] = x /\ a \in WordBytes(SlotAddress(j))
          <6> SUFFICES ASSUME NEW j \in Slot, n[j] = x, a \in WordBytes(SlotAddress(j)) PROVE FALSE
            OBVIOUS
          <6>1. j = k
            BY <2>1 DEF Apart
          <6> QED
            BY <4>1, <6>1 DEF b
        <5> QED
          BY <4>4, <5>1 DEF Hit, Assigning
      <4> QED
        BY <1>3, <4>1, <4>2, <4>3, <4>4
    <3> QED
      BY <3>1, <3>2
  <2>7. Same(Q, p, w1, m2) /\ Same(P, p, w1, w2)
    BY <2>6 DEF Same
  <2> QED
    BY <1>2, <2>7 DEF p, w1, w2, Q
<1> QED
  BY <1>4, <1>5

\* A variable that no part assigns to, and whose slot no part writes over, has the
\* same value in both.
Stable(P, x) ==
    /\ Unassigned(P, x)
    /\ \A i \in P : i.op = "WRITE" => \A k \in Slot :
          WordBytes(SlotAddress(k)) \cap WordBytes(i.address) = {}

LEMMA SameVariable ==
  ASSUME NEW P, NEW n0, NEW s1, NEW s2, NEW x, Stable(P, x),
         Grown(P, n0, s1.names), Grown(P, n0, s2.names), Same(P, s1.names, s1.mem, s2.mem),
         Apart(s1.names)
  PROVE  VariableIn(s1, x) = VariableIn(s2, x)
<1>1. SlotsNamed(s1.names, x) = SlotsNamed(s2.names, x)
  <2>1. Unassigned(P, x)
    BY DEF Stable
  <2>2. SlotsNamed(s1.names, x) = SlotsNamed(n0, x)
    BY <2>1, GrownElse
  <2>3. SlotsNamed(s2.names, x) = SlotsNamed(n0, x)
    BY <2>1, GrownElse
  <2> QED
    BY <2>2, <2>3
<1>2. /\ IsDeclared(s1.names, x) <=> IsDeclared(s2.names, x)
      /\ FindVariable(s1.names, x) = FindVariable(s2.names, x)
  BY <1>1 DEF IsDeclared, FindVariable
<1>3. CASE ~IsDeclared(s1.names, x)
  BY <1>2, <1>3 DEF VariableIn
<1>4. CASE IsDeclared(s1.names, x)
  <2> DEFINE k == FindVariable(s1.names, x)
             b == SlotAddress(k)
  <2>1. k \in Slot /\ s1.names[k] = x
    BY <1>4, FoundSlot
  <2>2. b \in Address /\ b + 1 \in Address
    BY <2>1, SlotInMemory
  <2>3. ASSUME NEW a \in WordBytes(b) PROVE ~Hit(P, s1.names, a)
    <3>1. \A i \in P : i.op = "WRITE" => a \notin WordBytes(i.address)
      BY <2>1, <2>3 DEF Stable
    <3>2. ASSUME NEW i \in P, i.op \in Assigning, NEW j \in Slot, s1.names[j] = i.target,
                 a \in WordBytes(SlotAddress(j))
          PROVE  FALSE
      <4>1. j = k
        <5>1. a = 2 * k \/ a = 2 * k + 1
          BY <2>3 DEF WordBytes, SlotAddress
        <5>2. a = 2 * j \/ a = 2 * j + 1
          BY <3>2 DEF WordBytes, SlotAddress
        <5>3. j \in Nat /\ k \in Nat
          BY <2>1 DEF Slot
        <5> HIDE DEF k
        <5> QED
          BY <5>1, <5>2, <5>3
      <4> QED
        BY <2>1, <3>2, <4>1 DEF Stable, Unassigned
    <3> QED
      BY <3>1, <3>2 DEF Hit
  <2>4. s1.mem[b] = s2.mem[b] /\ s1.mem[b + 1] = s2.mem[b + 1]
    BY <2>2, <2>3 DEF Same, WordBytes
  <2> QED
    BY <1>2, <1>4, <2>4 DEF VariableIn, WordIn
<1> QED
  BY <1>3, <1>4

-----------------------------------------------------------------------------
(***************************************************************************)
(* What follows for the parts of a command that can be repeated.           *)
(***************************************************************************)
Undisturbed(P, a) == \A i \in P :
    /\ i.op = "WRITE" => a \notin WordBytes(i.address)
    /\ i.op \in Assigning => \A k \in Slot : a \notin WordBytes(SlotAddress(k))

LEMMA SlotBytesOf ==
  ASSUME NEW k \in Slot
  PROVE  WordBytes(SlotAddress(k)) \subseteq SlotBytes
BY InstructionsAssumption DEF Slot, WordBytes, SlotAddress, SlotBytes

LEMMA AssignedByParts ==
  ASSUME NEW P, NEW i \in P, i.op \in Assigning
  PROVE  i.target \in AssignedIn(P)
BY DEF AssignedIn, Assigning

LEMMA WrittenByParts ==
  ASSUME NEW P, NEW i \in P, i.op = "WRITE"
  PROVE  WordBytes(i.address) \subseteq WrittenIn(P)
BY DEF WrittenIn, WordBytes

LEMMA VariableOperand ==
  ASSUME NEW ins, NEW j \in DOMAIN ins.args, ins.args[j].kind = "variable"
  PROVE  ins.args[j].name \in VariablesOf(ins)
BY DEF VariablesOf

LEMMA RepeatedParts ==
  ASSUME NEW cmd, CommandCanBeRepeated(cmd), NEW i \in Parts[cmd]
  PROVE  /\ Named(Parts[cmd])
         /\ \A j \in DOMAIN i.args :
               i.args[j].kind = "variable" => Stable(Parts[cmd], i.args[j].name)
         /\ i.op = "FOR" => \A j \in DOMAIN i.args : i.args[j].kind # "variable"
         /\ i.op = "READ" => /\ Only(Parts[cmd], i.target)
                             /\ Undisturbed(Parts[cmd], i.address)
                             /\ Undisturbed(Parts[cmd], i.address + 1)
<1> DEFINE P == Parts[cmd]
           names == AssignedIn(P)
<1>1. /\ "" \notin names
      /\ VariablesOf(i) \cap names = {}
      /\ "" \in VariablesOf(i) => names = {}
      /\ VariablesOf(i) # {} => WrittenIn(P) \cap SlotBytes = {}
      /\ i.op = "FOR" => VariablesOf(i) = {}
      /\ i.op = "READ" => /\ {i.address, i.address + 1} \cap (WrittenIn(P) \cup SlotBytes) = {}
                          /\ names = {i.target}
  BY DEF CommandCanBeRepeated, Parts
<1> HIDE DEF P, names
<1>2. \A k \in P : k.op \in Assigning => k.target \in names
  BY AssignedByParts DEF names
<1>3. \A k \in P : k.op = "WRITE" => WordBytes(k.address) \subseteq WrittenIn(P)
  BY WrittenByParts
<1>4. Named(P)
  BY <1>1, <1>2 DEF Named
<1>5. ASSUME NEW j \in DOMAIN i.args, i.args[j].kind = "variable"
      PROVE  Stable(P, i.args[j].name) /\ i.op # "FOR"
  <2> DEFINE x == i.args[j].name
  <2>1. x \in VariablesOf(i)
    BY <1>5, VariableOperand
  <2> HIDE DEF x
  <2>2. Unassigned(P, x)
    BY <1>1, <1>2, <2>1 DEF Unassigned
  <2>3. \A k \in P : k.op = "WRITE" => \A s \in Slot :
           WordBytes(SlotAddress(s)) \cap WordBytes(k.address) = {}
    <3>1. WrittenIn(P) \cap SlotBytes = {}
      BY <1>1, <2>1
    <3> QED
      BY <1>3, <3>1, SlotBytesOf
  <2> QED
    BY <1>1, <2>1, <2>2, <2>3 DEF Stable, x
<1>6. ASSUME i.op = "READ"
      PROVE  Only(P, i.target) /\ Undisturbed(P, i.address) /\ Undisturbed(P, i.address + 1)
  <2>1. Only(P, i.target)
    BY <1>1, <1>2, <1>6 DEF Only
  <2>2. ASSUME NEW a \in {i.address, i.address + 1} PROVE Undisturbed(P, a)
    <3>1. a \notin WrittenIn(P) /\ a \notin SlotBytes
      BY <1>1, <1>6
    <3> QED
      BY <1>3, <3>1, SlotBytesOf DEF Undisturbed
  <2> QED
    BY <2>1, <2>2
<1> QED
  BY <1>4, <1>5, <1>6 DEF P

LEMMA UndisturbedHit ==
  ASSUME NEW P, NEW Q, Q \subseteq P, NEW n, NEW a, Undisturbed(P, a)
  PROVE  ~Hit(Q, n, a)
BY DEF Undisturbed, Hit

\* The count of a FOR.
LEMMA RepeatedFor ==
  ASSUME NEW cmd, CommandCanBeRepeated(cmd), NEW i \in Parts[cmd], i \in Code, i.op = "FOR"
  PROVE  Counted(i)
<1>1. i.args \in Seq(Operand) /\ Len(i.args) >= 1
  BY CodeFields DEF Arity
<1> DEFINE v == i.args
<1>2. v[1] \in Operand /\ 1 \in DOMAIN v
  <2> HIDE DEF v
  <2>1. v \in Seq(Operand) /\ Len(v) >= 1
    BY <1>1 DEF v
  <2> QED
    BY <2>1
<1>3. v[1].kind \in {"literal", "variable"} /\ v[1].kind # "variable"
  BY <1>2, RepeatedParts DEF Operand
<1> QED
  BY <1>3 DEF Counted

-----------------------------------------------------------------------------
(***************************************************************************)
(* An attempt beside the run that the text describes, which goes through   *)
(* the same instructions.  cmd is the command and base the state before    *)
(* it; t is left to do, and v are the values that the instruction at its   *)
(* head has got so far; now is the state of the process, and s that of the *)
(* run.  Nothing has faulted in this attempt if Self is not in faults, and *)
(* what the table remembers is right if no command was given up.           *)
(***************************************************************************)
Violated(s) == s.violated = TRUE

Sleeps(base, i) == i.op = "SLEEP" /\ ValueIn(base, i, i.args[1]) # 0

\* What attempts may have changed.
Framed(P, base, given, now) ==
    /\ Same(P, now.names, now.mem, base.mem)
    /\ Grown(P, base.names, now.names)
    /\ now.shown = base.shown \/ \E i \in P : i.op = "PRINT"
    /\ given = {} => now.nap = 0 \/ \E i \in P : Sleeps(base, i)

\* What is right if nothing has faulted: all that no instruction left to do, in Q, sets.
Right(P, Q, base, given, now, s) ==
    /\ Same(Q, now.names, now.mem, s.mem)
    /\ NoRead(P) \/ now.names = s.names \/ \E i \in Q : i.op \in Assigning
    /\ now.shown = s.shown \/ \E i \in Q : i.op = "PRINT"
    /\ given = {} => now.nap = s.nap \/ \E i \in Q : Sleeps(base, i)

Remains(t, s) == [todo |-> t, state |-> s]

Beside(P, base, given, faults, t, now, s) ==
    /\ Framed(P, base, given, now)
    /\ Grown(P, base.names, s.names)
    /\ Along(P, base.names, Remains(t, s), now.names)
    /\ Self \notin faults => Right(P, Pending(t), base, given, now, s)

\* The values an instruction has got so far.
Literals(ins, v) ==
    \A i \in DOMAIN v : i \in DOMAIN ins.args /\ ins.args[i].kind = "literal" =>
        v[i] = LiteralValue(ins, ins.args[i].value)

Resolving(ins, base, given, faults, v, s) ==
    /\ given = {} /\ ins.op = "SLEEP" /\ v # <<>> => v[1] = ValueIn(base, ins, ins.args[1])
    /\ ins.op = "READ" /\ v # <<>> =>
          /\ ins.address + 2 <= VirtualBytes
          /\ Self \notin faults => v[1] = WordIn(s.mem, ins.address)

Attempted(cmd, base, given, faults, t, v, now, s) ==
    /\ s \in States /\ t \in Seq(Code)
    /\ Remains(t, s) \in Run(Sequential!Begin(cmd, base))
    /\ Pending(t) \subseteq Parts[cmd]
    /\ t # <<>> => Literals(Head(t), v)
    /\ ~Violated(s) =>
          /\ Beside(Parts[cmd], base, given, faults, t, now, s)
          /\ t # <<>> => Resolving(Head(t), base, given, faults, v, s)

\* Where all this is the case: in a command that can be repeated.
Setting(cmd, base, now) ==
    /\ cmd \in Code /\ CommandCanBeRepeated(cmd)
    /\ base \in States /\ now \in States /\ Apart(now.names)

\* An instruction that has got no values yet.
LEMMA NothingResolved ==
  ASSUME NEW ins, NEW base, NEW given, NEW faults, NEW s
  PROVE  Literals(ins, <<>>) /\ Resolving(ins, base, given, faults, <<>>, s)
<1> DEFINE v == <<>>
<1>1. v = <<>> /\ DOMAIN v = {}
  OBVIOUS
<1> HIDE DEF v
<1>2. Literals(ins, v) /\ Resolving(ins, base, given, faults, v, s)
  BY <1>1 DEF Literals, Resolving
<1> QED
  BY <1>2 DEF v

\* The step of the run.
LEMMA RunStep ==
  ASSUME NEW t \in Seq(Code), NEW s \in States, t # <<>>, Head(t).op # "FOR"
  PROVE  /\ Remains(t, s) \in Configs
         /\ Sequential!Step(Remains(t, s)) = Remains(Tail(t), Sequential!Effect(Head(t), s))
<1> DEFINE c == Remains(t, s)
<1>1. c \in Configs /\ c.todo = t /\ c.state = s
  BY SharedSets DEF Remains
<1>2. Sequential!Body(Head(t), s) = <<>>
  BY DEF Sequential!Body
<1>3. <<>> \o Tail(t) = Tail(t)
  OBVIOUS
<1> HIDE DEF c
<1>4. Sequential!Step(c) = Remains(Tail(t), Sequential!Effect(Head(t), s))
  BY <1>1, <1>2, <1>3 DEF Sequential!Step, Remains
<1> QED
  BY <1>1, <1>4 DEF c

LEMMA BeginTyped ==
  ASSUME NEW cmd \in Code, NEW base \in States
  PROVE  /\ Sequential!Begin(cmd, base) = Remains(<<cmd>>, [base EXCEPT !.nap = 0])
         /\ [base EXCEPT !.nap = 0] \in States
         /\ Sequential!Begin(cmd, base) \in Configs
<1>1. 0 \in 0..LongestSleep
  BY Numbers
<1>2. [base EXCEPT !.nap = 0] \in States
  BY <1>1, StateReplaced
<1>3. <<cmd>> \in Seq(Code)
  OBVIOUS
<1> DEFINE b == [base EXCEPT !.nap = 0]
<1>4. Sequential!Begin(cmd, base) = Remains(<<cmd>>, b)
  BY DEF Sequential!Begin, Remains
<1> HIDE DEF b
<1>5. Remains(<<cmd>>, b) \in Configs
  BY <1>2, <1>3, SharedSets DEF Remains, b
<1> QED
  BY <1>2, <1>4, <1>5 DEF b

\* What there is to know of the instruction at the head.
LEMMA HeadAttempted ==
  ASSUME NEW cmd, NEW base, NEW now, Setting(cmd, base, now),
         NEW given, NEW faults, NEW t, NEW v, NEW s,
         Attempted(cmd, base, given, faults, t, v, now, s),
         t # <<>>
  PROVE  /\ Head(t) \in Code /\ Head(t) \in Parts[cmd] /\ s \in States
         /\ Remains(t, s) \in Configs /\ Remains(t, s).todo = t /\ Remains(t, s).state = s
         /\ t \in Seq(Code) /\ Tail(t) \in Seq(Code)
<1>1. t \in Seq(Code) /\ s \in States /\ Head(t) \in Code /\ Tail(t) \in Seq(Code)
  BY DEF Attempted
<1>2. Parts[Head(t)] \subseteq Pending(t)
  BY <1>1, PendingStep
<1>3. Head(t) \in Parts[Head(t)]
  BY <1>1, PartsOf
<1>4. Remains(t, s) \in Configs /\ Remains(t, s).todo = t /\ Remains(t, s).state = s
  BY <1>1, SharedSets DEF Remains
<1>5. Pending(t) \subseteq Parts[cmd]
  BY DEF Attempted
<1> QED
  BY <1>1, <1>2, <1>3, <1>4, <1>5

\* An instruction returns: the run takes its step.
LEMMA Advance ==
  ASSUME NEW cmd, NEW base, NEW now, Setting(cmd, base, now),
         NEW given, NEW faults, NEW t, NEW v, NEW s,
         Attempted(cmd, base, given, faults, t, v, now, s),
         t # <<>>, Head(t).op # "FOR"
  PROVE  LET e == Sequential!Effect(Head(t), s)
         IN  /\ e \in States
             /\ Sequential!Step(Remains(t, s)) = Remains(Tail(t), e)
             /\ Pending(t) = {Head(t)} \cup Pending(Tail(t))
             /\ Pending(Tail(t)) \subseteq Parts[cmd]
             /\ \A faults2, now2 :
                   (~Violated(e) => Beside(Parts[cmd], base, given, faults2, Tail(t), now2, e))
                   => Attempted(cmd, base, given, faults2, Tail(t), <<>>, now2, e)
<1> DEFINE ins == Head(t)
           e == Sequential!Effect(ins, s)
           u == Tail(t)
           b == Sequential!Begin(cmd, base)
<1>1. t \in Seq(Code) /\ s \in States /\ ins \in Code /\ u \in Seq(Code)
      /\ Remains(t, s).todo = t
  BY HeadAttempted
<1>2. e \in States
  BY <1>1, EffectTyped
<1>3. Remains(t, s) \in Configs /\ Sequential!Step(Remains(t, s)) = Remains(u, e)
  BY <1>1, RunStep
<1>4. Pending(t) = {ins} \cup Pending(u)
  BY <1>1, PendingReturned
<1>5. Remains(t, s) \in Run(b) /\ Pending(t) \subseteq Parts[cmd]
  BY DEF Attempted
<1>6. b \in Configs
  BY BeginTyped DEF Setting
<1> HIDE DEF ins, e, u, b
<1>7. Remains(u, e) \in Run(b)
  BY <1>1, <1>3, <1>5, <1>6, RunGoesOn
<1>8. Pending(u) \subseteq Parts[cmd]
  BY <1>4, <1>5
<1>9. ASSUME NEW faults2, NEW now2,
             ~Violated(e) => Beside(Parts[cmd], base, given, faults2, u, now2, e)
       PROVE  Attempted(cmd, base, given, faults2, u, <<>>, now2, e)
  BY <1>1, <1>2, <1>7, <1>8, <1>9, NothingResolved DEF Attempted, b
<1> QED
  BY <1>2, <1>3, <1>4, <1>8, <1>9 DEF ins, e, u

\* The other fields after an instruction.
LEMMA FieldsEffect ==
  ASSUME NEW s \in States, NEW ins \in Code
  PROVE  LET e == Sequential!Effect(ins, s)
         IN  /\ ins.op \in {"READ", "WRITE"} /\ ~(ins.address + 2 <= VirtualBytes) => Violated(e)
             /\ Violated(s) => Violated(e)
             /\ ins.op \in Assigning /\ (ins.op = "READ" => ins.address + 2 <= VirtualBytes) =>
                   /\ e.names = Placed(s.names, ins.target)
                   /\ e.mem = StoredFor(s.mem, s.names, ins.target, Assigned(ins, s))
                   /\ e.shown = s.shown /\ e.nap = s.nap
             /\ ins.op = "WRITE" /\ ins.address + 2 <= VirtualBytes =>
                   /\ e.mem = Stored(s.mem, ins.address, Sequential!Values(ins, s)[1])
                   /\ e.names = s.names /\ e.shown = s.shown /\ e.nap = s.nap
             /\ ins.op = "PRINT" =>
                   /\ e.shown = Sequential!Values(ins, s)
                   /\ e.names = s.names /\ e.mem = s.mem /\ e.nap = s.nap
             /\ ins.op = "SLEEP" =>
                   /\ e.nap = SleepAfter(s.nap, Sequential!Values(ins, s)[1])
                   /\ e.names = s.names /\ e.mem = s.mem /\ e.shown = s.shown
             /\ ins.op \in {"FOR", "NULL"} => e = s
<1> DEFINE e == Sequential!Effect(ins, s)
           w == Sequential!Values(ins, s)
<1>1. DOMAIN s = {"mem", "names", "shown", "nap", "violated"}
  BY DEF States
<1>2. CASE ins.op \in Assigning /\ (ins.op = "READ" => ins.address + 2 <= VirtualBytes)
  <2> DEFINE n == Placed(s.names, ins.target)
             m == StoredFor(s.mem, s.names, ins.target, Assigned(ins, s))
  <2>1. e = [s EXCEPT !.names = n, !.mem = m]
    BY <1>2, AssignEffect
  <2> HIDE DEF n, m, e
  <2>2. e.names = n /\ e.mem = m /\ e.shown = s.shown /\ e.nap = s.nap /\ e.violated = s.violated
    BY <1>1, <2>1
  <2> QED
    BY <1>2, <2>2 DEF n, m, e, Assigning, Violated
<1>3. CASE ins.op \in {"READ", "WRITE"} /\ ~(ins.address + 2 <= VirtualBytes)
  <2>1. e = [s EXCEPT !.violated = TRUE]
    BY <1>3, ViolationEffect
  <2> HIDE DEF e
  <2>2. e.violated = TRUE
    BY <1>1, <2>1
  <2> QED
    BY <1>3, <2>2 DEF e, Assigning, Violated
<1>4. CASE ins.op = "WRITE" /\ ins.address + 2 <= VirtualBytes
  <2> DEFINE m == Stored(s.mem, ins.address, w[1])
  <2>1. e = [s EXCEPT !.mem = m]
    BY <1>4, WriteEffect
  <2> HIDE DEF m, e
  <2>2. e.mem = m /\ e.names = s.names /\ e.shown = s.shown /\ e.nap = s.nap /\ e.violated = s.violated
    BY <1>1, <2>1
  <2> QED
    BY <1>4, <2>2 DEF m, e, Assigning, Violated
<1>5. CASE ins.op = "PRINT"
  <2>1. e = [s EXCEPT !.shown = w]
    BY <1>5, OtherEffects
  <2> HIDE DEF w, e
  <2>2. e.shown = w /\ e.names = s.names /\ e.mem = s.mem /\ e.nap = s.nap /\ e.violated = s.violated
    BY <1>1, <2>1
  <2> QED
    BY <1>5, <2>2 DEF w, e, Assigning, Violated
<1>6. CASE ins.op = "SLEEP"
  <2> DEFINE k == SleepAfter(s.nap, w[1])
  <2>1. e = [s EXCEPT !.nap = k]
    BY <1>6, OtherEffects
  <2> HIDE DEF k, e
  <2>2. e.nap = k /\ e.names = s.names /\ e.mem = s.mem /\ e.shown = s.shown /\ e.violated = s.violated
    BY <1>1, <2>1
  <2> QED
    BY <1>6, <2>2 DEF k, e, Assigning, Violated
<1>7. CASE ins.op \in {"FOR", "NULL"}
  BY <1>7, OtherEffects DEF Assigning
<1> QED
  BY <1>2, <1>3, <1>4, <1>5, <1>6, <1>7, CodeFields DEF Operations, Assigning

\* Parts that may write more.
LEMMA SameMore ==
  ASSUME NEW P, NEW Q, P \subseteq Q, NEW n, NEW m1, NEW m2, Same(P, n, m1, m2)
  PROVE  Same(Q, n, m1, m2)
BY DEF Same, Hit

\* A variable that the command leaves alone: it is as it was before the command,
\* and, if nothing has faulted, as it is in the run.
LEMMA VariableKept ==
  ASSUME NEW cmd, NEW base, NEW now, Setting(cmd, base, now),
         NEW given, NEW faults, NEW t, NEW v, NEW s,
         Attempted(cmd, base, given, faults, t, v, now, s),
         ~Violated(s),
         NEW x, Stable(Parts[cmd], x)
  PROVE  /\ VariableIn(now, x) = VariableIn(base, x)
         /\ Self \notin faults => VariableIn(now, x) = VariableIn(s, x)
<1> DEFINE P == Parts[cmd]
<1>1. /\ Framed(P, base, given, now) /\ Grown(P, base.names, s.names)
      /\ Self \notin faults => Right(P, Pending(t), base, given, now, s)
      /\ Pending(t) \subseteq P /\ Apart(now.names)
  BY DEF Attempted, Beside, Setting
<1>2. Same(P, now.names, now.mem, base.mem) /\ Grown(P, base.names, now.names)
  BY <1>1 DEF Framed
<1>3. Grown(P, base.names, base.names)
  BY DEF Grown
<1>4. Self \notin faults => Same(P, now.names, now.mem, s.mem)
  BY <1>1, SameMore DEF Right
<1> HIDE DEF P
<1>5. VariableIn(now, x) = VariableIn(base, x)
  BY <1>1, <1>2, <1>3, SameVariable DEF P
<1>6. Self \notin faults => VariableIn(now, x) = VariableIn(s, x)
  BY <1>1, <1>2, <1>4, SameVariable DEF P
<1> QED
  BY <1>5, <1>6

\* An instruction that has its operands, where nothing has faulted, has those
\* that the text describes.
LEMMA ValuesAgree ==
  ASSUME NEW cmd, NEW base, NEW now, Setting(cmd, base, now),
         NEW given, NEW faults, NEW t, NEW v \in Seq(Words), NEW s,
         Attempted(cmd, base, given, faults, t, v, now, s),
         t # <<>>, ~Violated(s), Self \notin faults,
         Len(v) = Len(Head(t).args),
         \A i \in DOMAIN v : Head(t).args[i].kind = "variable" =>
            v[i] = VariableIn(now, Head(t).args[i].name)
  PROVE  v = Sequential!Values(Head(t), s)
<1> DEFINE ins == Head(t)
           w == Sequential!Values(ins, s)
           n == Len(ins.args)
<1>1. ins \in Code /\ ins \in Parts[cmd] /\ s \in States
  BY HeadAttempted
<1>2. ins.args \in Seq(Operand) /\ n \in Nat /\ DOMAIN ins.args = 1..n
  BY <1>1, CodeFields
<1>3. /\ w \in Seq(Words) /\ Len(w) = n /\ DOMAIN w = 1..n
      /\ \A i \in 1..n : w[i] = ValueIn(s, ins, ins.args[i])
  BY <1>1, ValuesTyped
<1>4. DOMAIN v = 1..n /\ Len(v) = n
  BY <1>2
<1>5. Literals(ins, v)
  BY DEF Attempted
<1>6. \A j \in DOMAIN ins.args : ins.args[j].kind = "variable" => Stable(Parts[cmd], ins.args[j].name)
  BY <1>1, RepeatedParts DEF Setting
<1>7. ASSUME NEW i \in 1..n PROVE v[i] = w[i]
  <2> DEFINE o == ins.args[i]
  <2>1. o \in Operand /\ i \in DOMAIN v /\ i \in DOMAIN ins.args
    <3> HIDE DEF ins
    <3> QED
      BY <1>2, <1>4
  <2>2. o.kind \in {"literal", "variable"}
    BY <2>1 DEF Operand
  <2>3. CASE o.kind = "literal"
    <3>1. v[i] = LiteralValue(ins, o.value)
      BY <1>5, <2>1, <2>3 DEF Literals
    <3> HIDE DEF ins, w
    <3> QED
      BY <1>3, <2>3, <3>1 DEF ValueIn
  <2>4. CASE o.kind = "variable"
    <3>1. v[i] = VariableIn(now, o.name)
      BY <2>1, <2>4
    <3>2. Stable(Parts[cmd], o.name)
      BY <1>6, <2>1, <2>4
    <3>3. VariableIn(now, o.name) = VariableIn(s, o.name)
      <4> DEFINE x == o.name
      <4>1. Stable(Parts[cmd], x)
        BY <3>2
      <4> HIDE DEF x
      <4>2. VariableIn(now, x) = VariableIn(s, x)
        BY <4>1, VariableKept
      <4> QED
        BY <4>2 DEF x
    <3> HIDE DEF ins, w
    <3> QED
      BY <1>3, <2>4, <3>1, <3>3 DEF ValueIn
  <2> QED
    BY <2>2, <2>3, <2>4
<1> HIDE DEF w, ins
<1>8. v = w
  BY <1>3, <1>4, <1>7
<1> QED
  BY <1>8 DEF w, ins

-----------------------------------------------------------------------------
(***************************************************************************)
(* The instructions: each leaves the attempt beside the run.               *)
(***************************************************************************)

\* An access that does not fit.
LEMMA ViolationBeside ==
  ASSUME NEW cmd, NEW base, NEW now, Setting(cmd, base, now),
         NEW given, NEW faults, NEW t, NEW v, NEW s,
         Attempted(cmd, base, given, faults, t, v, now, s),
         t # <<>>, Head(t).op \in {"READ", "WRITE"}, ~(Head(t).address + 2 <= VirtualBytes),
         NEW faults2, NEW now2
  PROVE  LET e == Sequential!Effect(Head(t), s)
         IN  /\ Violated(e)
             /\ Attempted(cmd, base, given, faults2, Tail(t), <<>>, now2, e)
<1> DEFINE e == Sequential!Effect(Head(t), s)
<1>1. Head(t) \in Code /\ s \in States
  BY HeadAttempted
<1>2. Violated(e)
  BY <1>1, FieldsEffect
<1>3. Head(t).op # "FOR"
  OBVIOUS
<1> HIDE DEF e
<1>4. Attempted(cmd, base, given, faults2, Tail(t), <<>>, now2, e)
  BY <1>2, <1>3, Advance DEF e
<1> QED
  BY <1>2, <1>4 DEF e

\* A variable is assigned to: its value is written, or the write faults.
LEMMA AssignBeside ==
  ASSUME NEW cmd, NEW base, NEW now, Setting(cmd, base, now),
         NEW given, NEW faults, NEW t, NEW v \in Seq(Words), NEW s,
         Attempted(cmd, base, given, faults, t, v, now, s),
         t # <<>>, Head(t).op \in Assigning,
         IF Head(t).op = "READ" THEN v # <<>> ELSE Len(v) = Len(Head(t).args),
         Self \notin faults =>
            \A i \in DOMAIN v : i \in DOMAIN Head(t).args /\ Head(t).args[i].kind = "variable" =>
               v[i] = VariableIn(now, Head(t).args[i].name),
         Result(Head(t), v) \in Words,
         NEW faults2, NEW now2,
         now2.names = Placed(now.names, Head(t).target),
         now2.shown = now.shown, now2.nap = now.nap,
         \/ /\ faults2 = faults
            /\ now2.mem = StoredFor(now.mem, now.names, Head(t).target, Result(Head(t), v))
         \/ Self \in faults2 /\ now2.mem = now.mem
  PROVE  LET e == Sequential!Effect(Head(t), s)
         IN  /\ ~Violated(s) /\ Head(t).op = "READ" => Head(t).address + 2 <= VirtualBytes
             /\ Attempted(cmd, base, given, faults2, Tail(t), <<>>, now2, e)
<1> DEFINE ins == Head(t)
           x == ins.target
           e == Sequential!Effect(ins, s)
           P == Parts[cmd]
           r == Result(ins, v)
           Q == Pending(t)
           R == Pending(Tail(t))
           n == now.names
<1>1. /\ ins \in Code /\ ins \in P /\ s \in States /\ e \in States
      /\ Remains(t, s) \in Configs /\ Remains(t, s).todo = t /\ Remains(t, s).state = s
      /\ Sequential!Step(Remains(t, s)) = Remains(Tail(t), e)
      /\ Q = {ins} \cup R /\ R \subseteq P
  <2>1. ins.op # "FOR"
    BY DEF Assigning
  <2>2. /\ ins \in Code /\ ins \in P /\ s \in States
        /\ Remains(t, s) \in Configs /\ Remains(t, s).todo = t /\ Remains(t, s).state = s
    BY HeadAttempted
  <2>3. /\ e \in States /\ Sequential!Step(Remains(t, s)) = Remains(Tail(t), e)
        /\ Q = {ins} \cup R /\ R \subseteq P
    BY <2>1, Advance
  <2> QED
    BY <2>2, <2>3
<1>2. ASSUME ~Violated(s)
      PROVE  /\ ins.op = "READ" => ins.address + 2 <= VirtualBytes
             /\ Beside(P, base, given, faults2, Tail(t), now2, e)
  <2>1. /\ Beside(P, base, given, faults, t, now, s)
        /\ Resolving(ins, base, given, faults, v, s)
    BY <1>2 DEF Attempted
  <2>2. ins.op = "READ" => /\ ins.address + 2 <= VirtualBytes
                           /\ Self \notin faults => v[1] = WordIn(s.mem, ins.address)
    BY <2>1 DEF Resolving
  <2>3. Named(P) /\ Apart(n) /\ n \in NameTables /\ base.names \in NameTables
        /\ now.mem \in Memories /\ s.mem \in Memories /\ base.mem \in Memories
        /\ s.names \in NameTables
    <3>1. Named(P)
      BY <1>1, RepeatedParts DEF Setting
    <3>2. base \in States /\ now \in States /\ Apart(n) /\ s \in States
      BY <1>1 DEF Setting
    <3> QED
      BY <3>1, <3>2 DEF States, NameTables, Memories
  <2>4. x # "" /\ x \in STRING
    BY <1>1, <2>3, CodeFields DEF Named
  <2>5. /\ e.names = Placed(s.names, x)
        /\ e.mem = StoredFor(s.mem, s.names, x, Assigned(ins, s))
        /\ e.shown = s.shown /\ e.nap = s.nap
    BY <1>1, <2>2, FieldsEffect
  <2>6. Self \notin faults => r = Assigned(ins, s)
    <3> SUFFICES ASSUME Self \notin faults PROVE r = Assigned(ins, s)
      OBVIOUS
    <3>1. CASE ins.op = "READ"
      BY <2>2, <3>1 DEF Result, Assigned
    <3>2. CASE ins.op # "READ"
      <4>1. Len(v) = Len(ins.args)
        BY <3>2
      <4>2. \A i \in DOMAIN v : ins.args[i].kind = "variable" => v[i] = VariableIn(now, ins.args[i].name)
        <5>1. ins.args \in Seq(Operand)
          BY <1>1, CodeFields
        <5>2. DOMAIN v = DOMAIN ins.args
          <6> HIDE DEF ins
          <6> QED
            BY <4>1, <5>1
        <5> QED
          BY <5>2
      <4>3. v = Sequential!Values(ins, s)
        BY <1>2, <3>2, <4>1, <4>2, ValuesAgree
      <4> QED
        BY <3>2, <4>3 DEF Assigned
    <3> QED
      BY <3>1, <3>2
  <2>7. /\ Framed(P, base, given, now) /\ Grown(P, base.names, s.names)
        /\ Along(P, base.names, Remains(t, s), n)
        /\ Self \notin faults => Right(P, Q, base, given, now, s)
    BY <2>1 DEF Beside
  <2> HIDE DEF e, P, r, Q, R
  <2>8. /\ TargetSlots(n, x) = TargetSlots(s.names, x)
        /\ Along(P, base.names, Remains(Tail(t), e), Placed(n, x))
        /\ ~NoRead(P) => Placed(n, x) = e.names
    <3> DEFINE c == Remains(t, s)
    <3>1. c \in Configs /\ c.todo = t /\ c.state = s /\ Sequential!Step(c) = Remains(Tail(t), e)
      BY <1>1
    <3>2. Remains(Tail(t), e).state = e
      BY DEF Remains
    <3> HIDE DEF c
    <3> QED
      BY <1>1, <2>2, <2>3, <2>4, <2>7, <3>1, <3>2, AlongAssigned DEF c
  <2>9. Grown(P, base.names, Placed(n, x)) /\ Grown(P, base.names, e.names)
    <3>1. Grown(P, base.names, n)
      BY <2>7 DEF Framed
    <3> QED
      BY <1>1, <2>3, <2>5, <2>7, <3>1, GrownAssigned
  <2>10. Framed(P, base, given, now2)
    <3>1. Same(P, n, now.mem, base.mem)
      BY <2>7 DEF Framed
    <3>2. {ins} \cup P = P
      BY <1>1
    <3>3. /\ Same(P, Placed(n, x), StoredFor(now.mem, n, x, r), base.mem)
          /\ Same(P, Placed(n, x), now.mem, base.mem)
      <4>1. r \in Words
        BY DEF r
      <4>2. TargetSlots(n, x) = TargetSlots(n, x)
        OBVIOUS
      <4>3. Same({ins} \cup P, n, now.mem, base.mem) /\ ins.op \in Assigning
        BY <3>1, <3>2
      <4> HIDE DEF ins
      <4>4. /\ Same({ins} \cup P, Placed(n, x), StoredFor(now.mem, n, x, r), base.mem)
            /\ Same({ins} \cup P, Placed(n, x), now.mem, base.mem)
        BY <2>3, <2>4, <4>1, <4>2, <4>3, SameAssigned
      <4> QED
        BY <3>2, <4>4
    <3>4. Same(P, now2.names, now2.mem, base.mem)
      BY <3>3 DEF r
    <3> QED
      BY <2>7, <2>9, <3>4 DEF Framed
  <2>11. ASSUME Self \notin faults2 PROVE Right(P, R, base, given, now2, e)
    <3>1. faults2 = faults /\ now2.mem = StoredFor(now.mem, n, x, r)
      BY <2>11 DEF r
    <3>2. Right(P, Q, base, given, now, s) /\ r = Assigned(ins, s)
      BY <2>6, <2>7, <2>11, <3>1
    <3>3. Same({ins} \cup R, n, now.mem, s.mem)
      BY <1>1, <3>2 DEF Right
    <3>4. Named(R)
      BY <1>1, <2>3 DEF Named
    <3>5. Same(R, Placed(n, x), StoredFor(now.mem, n, x, r), StoredFor(s.mem, s.names, x, r))
      <4>1. r \in Words
        BY DEF r
      <4> HIDE DEF ins
      <4> QED
        BY <2>3, <2>4, <2>8, <3>3, <3>4, <4>1, SameAssigned DEF ins
    <3>6. Same(R, now2.names, now2.mem, e.mem)
      BY <2>5, <3>1, <3>2, <3>5
    <3>7. ins.op # "PRINT" /\ ins.op # "SLEEP"
      BY DEF Assigning
    <3>8. /\ now.shown = s.shown \/ \E i \in R : i.op = "PRINT"
          /\ given = {} => now.nap = s.nap \/ \E i \in R : Sleeps(base, i)
      <4> HIDE DEF ins
      <4> QED
        BY <1>1, <3>2, <3>7 DEF Right, Sleeps
    <3> QED
      BY <2>5, <2>8, <3>6, <3>8 DEF Right
  <2> QED
    BY <2>2, <2>8, <2>9, <2>10, <2>11 DEF Beside, R
<1>3. ~Violated(e) => ~Violated(s)
  BY <1>1, FieldsEffect
<1>4. Attempted(cmd, base, given, faults2, Tail(t), <<>>, now2, e)
  <2>1. ins.op # "FOR"
    BY DEF Assigning
  <2>2. ~Violated(e) => Beside(P, base, given, faults2, Tail(t), now2, e)
    BY <1>2, <1>3
  <2> HIDE DEF e
  <2> QED
    BY <2>1, <2>2, Advance DEF e
<1> QED
  BY <1>2, <1>4
\* READ faults and is skipped.
LEMMA SkipBeside ==
  ASSUME NEW cmd, NEW base, NEW now, Setting(cmd, base, now),
         NEW given, NEW faults, NEW t, NEW v, NEW s,
         Attempted(cmd, base, given, faults, t, v, now, s),
         t # <<>>, Head(t).op = "READ", Head(t).address + 2 <= VirtualBytes,
         NEW faults2, Self \in faults2
  PROVE  Attempted(cmd, base, given, faults2, Tail(t), <<>>, now, Sequential!Effect(Head(t), s))
<1> DEFINE ins == Head(t)
           e == Sequential!Effect(ins, s)
           P == Parts[cmd]
<1>1. /\ ins \in Code /\ ins \in P /\ s \in States
      /\ Remains(t, s) \in Configs /\ Remains(t, s).todo = t /\ Remains(t, s).state = s
  BY HeadAttempted
<1>2. e \in States /\ Sequential!Step(Remains(t, s)) = Remains(Tail(t), e)
  BY Advance
<1>3. e.names = Placed(s.names, ins.target) /\ (~Violated(e) => ~Violated(s))
  BY <1>1, FieldsEffect DEF Assigning
<1>4. s.names \in NameTables /\ base.names \in NameTables
  BY <1>1 DEF States, NameTables, Setting
<1>5. ASSUME ~Violated(s) PROVE Beside(P, base, given, faults2, Tail(t), now, e)
  <2>1. Beside(P, base, given, faults, t, now, s)
    BY <1>5 DEF Attempted
  <2>2. /\ Framed(P, base, given, now) /\ Grown(P, base.names, s.names)
        /\ Along(P, base.names, Remains(t, s), now.names)
    BY <2>1 DEF Beside
  <2> HIDE DEF e, P
  <2>3. Grown(P, base.names, e.names)
    <3>1. ins.op \in Assigning
      BY DEF Assigning
    <3> HIDE DEF ins
    <3> QED
      BY <1>1, <1>3, <1>4, <2>2, <3>1, GrownAssigned
  <2>4. Along(P, base.names, Remains(Tail(t), e), now.names)
    <3> DEFINE c == Remains(t, s)
    <3>1. c \in Configs /\ c.todo = t /\ Sequential!Step(c) = Remains(Tail(t), e)
      BY <1>1, <1>2
    <3> HIDE DEF c
    <3> QED
      BY <1>1, <1>4, <2>2, <3>1, AlongElse DEF c
  <2> QED
    BY <2>2, <2>3, <2>4 DEF Beside
<1> HIDE DEF e
<1>6. ~Violated(e) => Beside(Parts[cmd], base, given, faults2, Tail(t), now, e)
  BY <1>3, <1>5
<1> QED
  BY <1>6, Advance DEF e

\* An instruction that assigns to no variable leaves the names.
LEMMA NamesBeside ==
  ASSUME NEW cmd, NEW base, NEW now, Setting(cmd, base, now),
         NEW given, NEW faults, NEW t, NEW v, NEW s,
         Attempted(cmd, base, given, faults, t, v, now, s),
         t # <<>>, ~Violated(s), Head(t).op \notin Assigning, Head(t).op # "FOR"
  PROVE  LET e == Sequential!Effect(Head(t), s)
             P == Parts[cmd]
         IN  /\ e.names = s.names
             /\ Framed(P, base, given, now) /\ Grown(P, base.names, e.names)
             /\ Along(P, base.names, Remains(Tail(t), e), now.names)
             /\ Self \notin faults => Right(P, {Head(t)} \cup Pending(Tail(t)), base, given, now, s)
<1> DEFINE ins == Head(t)
           e == Sequential!Effect(ins, s)
           P == Parts[cmd]
<1>1. /\ ins \in Code /\ ins \in P /\ s \in States
      /\ Remains(t, s) \in Configs /\ Remains(t, s).todo = t /\ Remains(t, s).state = s
  BY HeadAttempted
<1>2. /\ Sequential!Step(Remains(t, s)) = Remains(Tail(t), e)
      /\ Pending(t) = {ins} \cup Pending(Tail(t))
  BY Advance
<1>3. e.names = s.names
  BY <1>1, NamesEffect
<1>4. base.names \in NameTables
  BY DEF States, NameTables, Setting
<1>5. /\ Framed(P, base, given, now) /\ Grown(P, base.names, s.names)
      /\ Along(P, base.names, Remains(t, s), now.names)
      /\ Self \notin faults => Right(P, Pending(t), base, given, now, s)
  BY DEF Attempted, Beside
<1>6. Along(P, base.names, Remains(Tail(t), e), now.names)
  <2> DEFINE c == Remains(t, s)
  <2>1. c \in Configs /\ c.todo = t /\ Sequential!Step(c) = Remains(Tail(t), e)
    BY <1>1, <1>2
  <2> HIDE DEF c, e, P
  <2> QED
    BY <1>1, <1>4, <1>5, <2>1, AlongElse DEF c
<1> QED
  BY <1>2, <1>3, <1>5, <1>6

\* WRITE: the word is written, or the write faults.
LEMMA WriteBeside ==
  ASSUME NEW cmd, NEW base, NEW now, Setting(cmd, base, now),
         NEW given, NEW faults, NEW t, NEW v \in Seq(Words), NEW s,
         Attempted(cmd, base, given, faults, t, v, now, s),
         t # <<>>, Head(t).op = "WRITE", Head(t).address + 2 <= VirtualBytes,
         Len(v) = Len(Head(t).args),
         Self \notin faults =>
            \A i \in DOMAIN v : Head(t).args[i].kind = "variable" =>
               v[i] = VariableIn(now, Head(t).args[i].name),
         v[1] \in Words,
         NEW faults2, NEW now2,
         now2.names = now.names, now2.shown = now.shown, now2.nap = now.nap,
         \/ faults2 = faults /\ now2.mem = Stored(now.mem, Head(t).address, v[1])
         \/ Self \in faults2 /\ now2.mem = now.mem
  PROVE  Attempted(cmd, base, given, faults2, Tail(t), <<>>, now2, Sequential!Effect(Head(t), s))
<1> DEFINE ins == Head(t)
           e == Sequential!Effect(ins, s)
           P == Parts[cmd]
           R == Pending(Tail(t))
           w == v[1]
<1>1. ins \in Code /\ ins \in P /\ s \in States
  BY HeadAttempted
<1>2. ~Violated(e) => ~Violated(s)
  BY <1>1, FieldsEffect
<1>3. /\ e.mem = Stored(s.mem, ins.address, Sequential!Values(ins, s)[1])
      /\ e.names = s.names /\ e.shown = s.shown /\ e.nap = s.nap
  BY <1>1, FieldsEffect
<1>4. now.mem \in Memories /\ s.mem \in Memories /\ base.mem \in Memories
  BY <1>1 DEF States, Memories, Setting
<1>5. ins.address \in Address /\ ins.address + 1 \in Address
  BY <1>1, CodeFields, Fitting
<1>6. ASSUME ~Violated(s) PROVE Beside(P, base, given, faults2, Tail(t), now2, e)
  <2>1. /\ Framed(P, base, given, now) /\ Grown(P, base.names, e.names)
        /\ Along(P, base.names, Remains(Tail(t), e), now.names)
        /\ Self \notin faults => Right(P, {ins} \cup R, base, given, now, s)
    <3>1. ins.op \notin Assigning /\ ins.op # "FOR"
      BY DEF Assigning
    <3> QED
      BY <1>6, <3>1, NamesBeside
  <2>2. Self \notin faults => Sequential!Values(ins, s)[1] = w
    BY <1>6, ValuesAgree
  <2>3. w \in Words /\ ins.op = "WRITE"
    OBVIOUS
  <2> HIDE DEF e, P, R, w
  <2>4. Framed(P, base, given, now2)
    <3>1. {ins} \cup P = P
      BY <1>1
    <3>2. Same({ins} \cup P, now.names, now.mem, base.mem)
      BY <2>1, <3>1 DEF Framed
    <3>3. Same({ins} \cup P, now.names, Stored(now.mem, ins.address, w), base.mem)
      <4> HIDE DEF ins
      <4> QED
        BY <1>4, <1>5, <2>3, <3>2, SameWritten
    <3>4. Same(P, now2.names, now2.mem, base.mem)
      BY <3>1, <3>2, <3>3 DEF w
    <3> QED
      BY <2>1, <3>4 DEF Framed
  <2>5. ASSUME Self \notin faults2 PROVE Right(P, R, base, given, now2, e)
    <3>1. faults2 = faults /\ now2.mem = Stored(now.mem, ins.address, w)
      BY <2>5 DEF w
    <3>2. Right(P, {ins} \cup R, base, given, now, s) /\ Sequential!Values(ins, s)[1] = w
      BY <2>1, <2>2, <2>5, <3>1
    <3>3. Same({ins} \cup R, now.names, now.mem, s.mem)
      BY <3>2 DEF Right
    <3>4. Same(R, now.names, Stored(now.mem, ins.address, w), Stored(s.mem, ins.address, w))
      <4> HIDE DEF ins
      <4> QED
        BY <1>4, <1>5, <2>3, <3>3, SameWritten
    <3>5. Same(R, now2.names, now2.mem, e.mem)
      BY <1>3, <3>1, <3>2, <3>4
    <3>6. ins.op # "PRINT" /\ ins.op # "SLEEP" /\ ins.op \notin Assigning
      BY DEF Assigning
    <3> HIDE DEF ins
    <3> QED
      BY <1>3, <3>2, <3>5, <3>6 DEF Right, Sleeps
  <2> QED
    BY <2>1, <2>4, <2>5 DEF Beside, R
<1> HIDE DEF e
<1>7. ~Violated(e) => Beside(Parts[cmd], base, given, faults2, Tail(t), now2, e)
  BY <1>2, <1>6
<1> QED
  BY <1>7, Advance DEF e

\* PRINT.
LEMMA PrintBeside ==
  ASSUME NEW cmd, NEW base, NEW now, Setting(cmd, base, now),
         NEW given, NEW faults, NEW t, NEW v \in Seq(Words), NEW s,
         Attempted(cmd, base, given, faults, t, v, now, s),
         t # <<>>, Head(t).op = "PRINT", Len(v) = Len(Head(t).args),
         Self \notin faults =>
            \A i \in DOMAIN v : Head(t).args[i].kind = "variable" =>
               v[i] = VariableIn(now, Head(t).args[i].name),
         NEW now2, now2.names = now.names, now2.mem = now.mem, now2.nap = now.nap,
         now2.shown = v
  PROVE  Attempted(cmd, base, given, faults, Tail(t), <<>>, now2, Sequential!Effect(Head(t), s))
<1> DEFINE ins == Head(t)
           e == Sequential!Effect(ins, s)
           P == Parts[cmd]
           R == Pending(Tail(t))
<1>1. ins \in Code /\ ins \in P /\ s \in States
  BY HeadAttempted
<1>2. ~Violated(e) => ~Violated(s)
  BY <1>1, FieldsEffect
<1>3. /\ e.shown = Sequential!Values(ins, s)
      /\ e.names = s.names /\ e.mem = s.mem /\ e.nap = s.nap
  BY <1>1, FieldsEffect
<1>4. ASSUME ~Violated(s) PROVE Beside(P, base, given, faults, Tail(t), now2, e)
  <2>1. /\ Framed(P, base, given, now) /\ Grown(P, base.names, e.names)
        /\ Along(P, base.names, Remains(Tail(t), e), now.names)
        /\ Self \notin faults => Right(P, {ins} \cup R, base, given, now, s)
    <3>1. ins.op \notin Assigning /\ ins.op # "FOR"
      BY DEF Assigning
    <3> QED
      BY <1>4, <3>1, NamesBeside
  <2>2. Self \notin faults => Sequential!Values(ins, s) = v
    BY <1>4, ValuesAgree
  <2>3. ins.op = "PRINT" /\ ins.op # "SLEEP" /\ ins.op # "WRITE" /\ ins.op \notin Assigning
    BY DEF Assigning
  <2> HIDE DEF e, P, R, ins
  <2>4. Framed(P, base, given, now2)
    BY <1>1, <2>1, <2>3 DEF Framed
  <2>5. ASSUME Self \notin faults PROVE Right(P, R, base, given, now2, e)
    <3>1. Right(P, {ins} \cup R, base, given, now, s)
      BY <2>1, <2>5
    <3>2. Same(R, now.names, now.mem, s.mem)
      BY <2>3, <3>1 DEF Right, Same, Hit
    <3> QED
      BY <1>3, <2>2, <2>3, <2>5, <3>1, <3>2 DEF Right, Sleeps
  <2> QED
    BY <2>1, <2>4, <2>5 DEF Beside, R
<1> HIDE DEF e
<1>5. ~Violated(e) => Beside(Parts[cmd], base, given, faults, Tail(t), now2, e)
  BY <1>2, <1>4
<1> QED
  BY <1>5, Advance DEF e

\* SLEEP.
LEMMA SleepBeside ==
  ASSUME NEW cmd, NEW base, NEW now, Setting(cmd, base, now),
         NEW given, NEW faults, NEW t, NEW v \in Seq(Words), NEW s,
         Attempted(cmd, base, given, faults, t, v, now, s),
         t # <<>>, Head(t).op = "SLEEP", Len(v) = Len(Head(t).args), v # <<>>,
         Self \notin faults =>
            \A i \in DOMAIN v : Head(t).args[i].kind = "variable" =>
               v[i] = VariableIn(now, Head(t).args[i].name),
         NEW now2, now2.names = now.names, now2.mem = now.mem, now2.shown = now.shown,
         now2.nap = SleepAfter(now.nap, v[1])
  PROVE  Attempted(cmd, base, given, faults, Tail(t), <<>>, now2, Sequential!Effect(Head(t), s))
<1> DEFINE ins == Head(t)
           e == Sequential!Effect(ins, s)
           P == Parts[cmd]
           R == Pending(Tail(t))
           w == v[1]
<1>1. ins \in Code /\ ins \in P /\ s \in States
  BY HeadAttempted
<1>2. ~Violated(e) => ~Violated(s)
  BY <1>1, FieldsEffect
<1>3. /\ e.nap = SleepAfter(s.nap, Sequential!Values(ins, s)[1])
      /\ e.names = s.names /\ e.mem = s.mem /\ e.shown = s.shown
  BY <1>1, FieldsEffect
<1>4. ASSUME ~Violated(s) PROVE Beside(P, base, given, faults, Tail(t), now2, e)
  <2>1. /\ Framed(P, base, given, now) /\ Grown(P, base.names, e.names)
        /\ Along(P, base.names, Remains(Tail(t), e), now.names)
        /\ Self \notin faults => Right(P, {ins} \cup R, base, given, now, s)
    <3>1. ins.op \notin Assigning /\ ins.op # "FOR"
      BY DEF Assigning
    <3> QED
      BY <1>4, <3>1, NamesBeside
  <2>2. Self \notin faults => Sequential!Values(ins, s)[1] = w
    BY <1>4, ValuesAgree
  <2>3. ins.op = "SLEEP" /\ ins.op # "PRINT" /\ ins.op # "WRITE" /\ ins.op \notin Assigning
    BY DEF Assigning
  <2>4. given = {} => (Sleeps(base, ins) <=> w # 0)
    <3>1. Resolving(ins, base, given, faults, v, s)
      BY <1>4 DEF Attempted
    <3>2. given = {} => w = ValueIn(base, ins, ins.args[1])
      BY <3>1 DEF Resolving
    <3> QED
      BY <3>2 DEF Sleeps
  <2>5. now2.nap = SleepAfter(now.nap, w)
    OBVIOUS
  <2> HIDE DEF e, P, R, ins, w
  <2>6. \A m, n : /\ w = 0 => SleepAfter(m, w) = m
                  /\ w # 0 => SleepAfter(m, w) = SleepAfter(n, w)
    BY DEF SleepAfter
  <2>7. Framed(P, base, given, now2)
    <3>1. given = {} => now2.nap = 0 \/ \E i \in P : Sleeps(base, i)
      BY <1>1, <2>1, <2>4, <2>5, <2>6 DEF Framed
    <3> QED
      BY <2>1, <3>1 DEF Framed
  <2>8. ASSUME Self \notin faults PROVE Right(P, R, base, given, now2, e)
    <3>1. Right(P, {ins} \cup R, base, given, now, s)
      BY <2>1, <2>8
    <3>2. Same(R, now.names, now.mem, s.mem)
      BY <2>3, <3>1 DEF Right, Same, Hit
    <3>3. e.nap = SleepAfter(s.nap, w)
      BY <1>3, <2>2, <2>8
    <3>4. given = {} => now2.nap = e.nap \/ \E i \in R : Sleeps(base, i)
      <4> SUFFICES ASSUME given = {} PROVE now2.nap = e.nap \/ \E i \in R : Sleeps(base, i)
        OBVIOUS
      <4>1. CASE w = 0
        <5>1. now2.nap = now.nap /\ e.nap = s.nap /\ ~Sleeps(base, ins)
          BY <2>4, <2>5, <2>6, <3>3, <4>1
        <5> QED
          BY <3>1, <5>1 DEF Right
      <4>2. CASE w # 0
        BY <2>5, <2>6, <3>3, <4>2
      <4> QED
        BY <4>1, <4>2
    <3>5. now2.names = now.names /\ now2.mem = now.mem /\ now2.shown = now.shown
      OBVIOUS
    <3> QED
      BY <1>3, <2>3, <3>1, <3>2, <3>4, <3>5 DEF Right
  <2> QED
    BY <2>1, <2>7, <2>8 DEF Beside, R
<1> HIDE DEF e
<1>5. ~Violated(e) => Beside(Parts[cmd], base, given, faults, Tail(t), now2, e)
  BY <1>2, <1>4
<1> QED
  BY <1>5, Advance DEF e

\* What is null in a body.
LEMMA NullBeside ==
  ASSUME NEW cmd, NEW base, NEW now, Setting(cmd, base, now),
         NEW given, NEW faults, NEW t, NEW v, NEW s,
         Attempted(cmd, base, given, faults, t, v, now, s),
         t # <<>>, Head(t).op = "NULL"
  PROVE  Attempted(cmd, base, given, faults, Tail(t), <<>>, now, Sequential!Effect(Head(t), s))
<1> DEFINE ins == Head(t)
           e == Sequential!Effect(ins, s)
           P == Parts[cmd]
           R == Pending(Tail(t))
<1>1. ins \in Code /\ s \in States
  BY HeadAttempted
<1>2. e = s
  BY <1>1, FieldsEffect
<1>3. ASSUME ~Violated(s) PROVE Beside(P, base, given, faults, Tail(t), now, e)
  <2>1. /\ Framed(P, base, given, now) /\ Grown(P, base.names, e.names)
        /\ Along(P, base.names, Remains(Tail(t), e), now.names)
        /\ Self \notin faults => Right(P, {ins} \cup R, base, given, now, s)
    <3>1. ins.op \notin Assigning /\ ins.op # "FOR"
      BY DEF Assigning
    <3> QED
      BY <1>3, <3>1, NamesBeside
  <2>2. ins.op # "SLEEP" /\ ins.op # "PRINT" /\ ins.op # "WRITE" /\ ins.op \notin Assigning
    BY DEF Assigning
  <2> HIDE DEF e, P, R, ins
  <2>3. ASSUME Self \notin faults PROVE Right(P, R, base, given, now, e)
    <3>1. Right(P, {ins} \cup R, base, given, now, s)
      BY <2>1, <2>3
    <3>2. Same(R, now.names, now.mem, s.mem)
      BY <2>2, <3>1 DEF Right, Same, Hit
    <3> QED
      BY <1>2, <2>2, <3>1, <3>2 DEF Right, Sleeps
  <2> QED
    BY <2>1, <2>3 DEF Beside, R
<1> HIDE DEF e
<1>4. ~Violated(e) => Beside(Parts[cmd], base, given, faults, Tail(t), now, e)
  BY <1>2, <1>3
<1> QED
  BY <1>4, Advance DEF e

\* FOR: the run and the attempt go on with the same lines.
LEMMA ForBeside ==
  ASSUME NEW cmd, NEW base, NEW now, Setting(cmd, base, now),
         NEW given, NEW faults, NEW t, NEW v \in Seq(Words), NEW s,
         Attempted(cmd, base, given, faults, t, v, now, s),
         t # <<>>, Head(t).op = "FOR", Len(v) = Len(Head(t).args)
  PROVE  LET u == Unrolled(Head(t).body, v[1]) \o Tail(t)
         IN  /\ Attempted(cmd, base, given, faults, u, <<>>, now, s)
             /\ Pending(t) \subseteq {Head(t)} \cup Pending(u)
<1> DEFINE ins == Head(t)
           n == Count(ins)
           u == Unrolled(ins.body, n) \o Tail(t)
           P == Parts[cmd]
           c == Remains(t, s)
           b == Sequential!Begin(cmd, base)
<1>1. /\ ins \in Code /\ ins \in P /\ s \in States
      /\ c \in Configs /\ c.todo = t /\ c.state = s
      /\ t \in Seq(Code) /\ Tail(t) \in Seq(Code)
  BY HeadAttempted
<1>2. Counted(ins)
  BY <1>1, RepeatedFor DEF Setting
<1>3. ins.args \in Seq(Operand) /\ Len(ins.args) >= 1 /\ ins.body \in Seq(Code)
  BY <1>1, CodeFields DEF Arity
<1>4. 1 \in DOMAIN v /\ 1 \in DOMAIN ins.args /\ ins.args[1] \in Operand /\ ins.args[1].kind = "literal"
  <2>1. ins.args[1].kind = "literal"
    BY <1>2 DEF Counted
  <2> HIDE DEF ins
  <2> QED
    BY <1>3, <2>1 DEF ins
<1>5. v[1] = n
  <2>1. Literals(ins, v)
    BY DEF Attempted
  <2> QED
    BY <1>4, <2>1 DEF Literals, Count
<1>6. n \in Nat
  BY <1>4, LiteralTyped, Numbers DEF Count, Words, Operand
<1>7. Sequential!Values(ins, s)[1] = n
  <2>1. 1 \in 1..Len(ins.args)
    BY <1>3
  <2>2. Sequential!Values(ins, s)[1] = ValueIn(s, ins, ins.args[1])
    BY <1>1, <2>1, ValuesTyped
  <2> QED
    BY <1>4, <2>2 DEF ValueIn, Count
<1>8. Unrolled(ins.body, n) \in Seq(Code)
  BY <1>3, <1>6, UnrolledTyped
<1>9. u \in Seq(Code)
  BY <1>1, <1>8
<1>10. Sequential!Effect(ins, s) = s
  BY OtherEffects
<1>11. Sequential!Step(c) = Remains(u, s)
  <2>1. Sequential!Body(ins, s) = Unrolled(ins.body, n)
    BY <1>7, SharedResults DEF Sequential!Body
  <2> HIDE DEF c, ins
  <2> QED
    BY <1>1, <1>10, <2>1 DEF Sequential!Step, Remains, ins
<1>12. Pending(u) \subseteq Pending(t) /\ Pending(t) \subseteq {ins} \cup Pending(u)
  BY <1>1, <1>2, PendingUnrolled
<1>13. c \in Run(b) /\ Pending(t) \subseteq P
  BY DEF Attempted
<1>14. b \in Configs
  BY BeginTyped DEF Setting
<1> HIDE DEF u, P, c, b, n
<1>15. Remains(u, s) \in Run(b)
  BY <1>1, <1>11, <1>13, <1>14, RunGoesOn
<1>16. ASSUME ~Violated(s) PROVE Beside(P, base, given, faults, u, now, s)
  <2>1. /\ Framed(P, base, given, now) /\ Grown(P, base.names, s.names)
        /\ Along(P, base.names, c, now.names)
        /\ Self \notin faults => Right(P, Pending(t), base, given, now, s)
    BY <1>16 DEF Attempted, Beside, P, c
  <2>2. ins.op # "SLEEP" /\ ins.op # "PRINT" /\ ins.op # "WRITE" /\ ins.op \notin Assigning
    BY DEF Assigning
  <2>3. Along(P, base.names, Remains(u, s), now.names)
    <3>1. base.names \in NameTables
      BY DEF States, NameTables, Setting
    <3>2. Along(P, base.names, Sequential!Step(c), now.names)
      BY <1>1, <2>1, <2>2, <3>1, AlongElse
    <3> QED
      BY <1>11, <3>2
  <2> HIDE DEF ins
  <2>4. ASSUME Self \notin faults PROVE Right(P, Pending(u), base, given, now, s)
    <3>1. Right(P, Pending(t), base, given, now, s)
      BY <2>1, <2>4
    <3>2. Same(Pending(u), now.names, now.mem, s.mem)
      BY <1>12, <2>2, <3>1 DEF Right, Same, Hit
    <3>3. \A i \in Pending(t) : i = ins \/ i \in Pending(u)
      BY <1>12
    <3> QED
      BY <2>2, <3>1, <3>2, <3>3 DEF Right, Sleeps
  <2> QED
    BY <2>1, <2>3, <2>4 DEF Beside
<1>17. Attempted(cmd, base, given, faults, u, <<>>, now, s)
  <2>1. Pending(u) \subseteq P
    BY <1>12, <1>13
  <2> QED
    BY <1>1, <1>9, <1>15, <1>16, <2>1, NothingResolved DEF Attempted, P, b
<1> QED
  BY <1>5, <1>12, <1>17 DEF u

\* An operand is resolved: from its literal, or from a variable.
LEMMA ResolveBeside ==
  ASSUME NEW cmd, NEW base, NEW now, Setting(cmd, base, now),
         NEW given, NEW faults, NEW t, NEW v \in Seq(Words), NEW s,
         Attempted(cmd, base, given, faults, t, v, now, s),
         t # <<>>, Len(v) < Len(Head(t).args),
         NEW x,
         Head(t).args[Len(v) + 1].kind = "literal" =>
            x = LiteralValue(Head(t), Head(t).args[Len(v) + 1].value),
         given = {} /\ Head(t).op = "SLEEP" /\ Head(t).args[Len(v) + 1].kind = "variable" =>
            x = VariableIn(now, Head(t).args[Len(v) + 1].name),
         NEW faults2, faults2 = faults \/ Self \in faults2
  PROVE  Attempted(cmd, base, given, faults2, t, Append(v, x), now, s)
<1> DEFINE ins == Head(t)
           n == Len(v)
           o == ins.args[n + 1]
           w == Append(v, x)
<1>1. ins \in Code /\ ins \in Parts[cmd] /\ s \in States
  BY HeadAttempted
<1>2. ins.args \in Seq(Operand) /\ n \in Nat /\ Len(ins.args) \in Nat
  BY <1>1, CodeFields
<1>3. /\ DOMAIN w = 1..(n + 1) /\ DOMAIN v = 1..n /\ w[n + 1] = x
      /\ \A i \in 1..n : w[i] = v[i]
  OBVIOUS
<1>4. n + 1 \in DOMAIN ins.args /\ o \in Operand
  <2> HIDE DEF ins, n
  <2>1. n < Len(ins.args)
    BY DEF ins, n
  <2> QED
    BY <1>2, <2>1
<1> HIDE DEF w, n
<1>5. Literals(ins, w)
  <2>1. Literals(ins, v)
    BY DEF Attempted
  <2>2. o.kind = "literal" => x = LiteralValue(ins, o.value)
    BY DEF n
  <2> HIDE DEF ins
  <2> QED
    BY <1>2, <1>3, <2>1, <2>2 DEF Literals
<1>6. ins.op # "READ"
  <2>1. ins.op = "READ" => ins.args = <<>>
    BY <1>1, CodeAssumption
  <2>2. DOMAIN <<>> = {}
    OBVIOUS
  <2> QED
    BY <1>4, <2>1, <2>2
<1>7. ASSUME ~Violated(s)
      PROVE  /\ Beside(Parts[cmd], base, given, faults2, t, now, s)
             /\ Resolving(ins, base, given, faults2, w, s)
  <2>1. Beside(Parts[cmd], base, given, faults, t, now, s) /\ Resolving(ins, base, given, faults, v, s)
    BY <1>7 DEF Attempted
  <2>2. Self \notin faults2 => Self \notin faults
    OBVIOUS
  <2>3. Beside(Parts[cmd], base, given, faults2, t, now, s)
    BY <2>1, <2>2 DEF Beside
  <2>4. ASSUME given = {}, ins.op = "SLEEP" PROVE w[1] = ValueIn(base, ins, ins.args[1])
    <3>1. CASE n = 0
      <4>1. w[1] = x /\ o = ins.args[1]
        BY <1>3, <3>1
      <4>2. o.kind \in {"literal", "variable"}
        BY <1>4 DEF Operand
      <4>3. CASE o.kind = "literal"
        <5>1. x = LiteralValue(ins, o.value)
          BY <4>3 DEF n
        <5> QED
          BY <4>1, <4>3, <5>1 DEF ValueIn
      <4>4. CASE o.kind = "variable"
        <5> DEFINE y == o.name
        <5>1. x = VariableIn(now, y)
          BY <2>4, <4>4 DEF n
        <5>2. Stable(Parts[cmd], y)
          BY <1>1, <1>4, <4>4, RepeatedParts DEF Setting
        <5> HIDE DEF y
        <5>3. VariableIn(now, y) = VariableIn(base, y)
          BY <1>7, <5>2, VariableKept
        <5>4. o.kind # "literal"
          BY <4>4
        <5>5. ValueIn(base, ins, o) = VariableIn(base, y)
          BY <5>4 DEF ValueIn, y
        <5> QED
          BY <4>1, <5>1, <5>3, <5>5
      <4> QED
        BY <4>2, <4>3, <4>4
    <3>2. CASE n # 0
      <4>1. 1 \in 1..n /\ w[1] = v[1] /\ v # <<>>
        BY <1>2, <1>3, <3>2 DEF n
      <4> QED
        BY <2>1, <2>4, <4>1 DEF Resolving
    <3> QED
      BY <3>1, <3>2
  <2> QED
    BY <1>6, <2>3, <2>4 DEF Resolving
<1> HIDE DEF ins
<1>8. Attempted(cmd, base, given, faults2, t, w, now, s)
  BY <1>5, <1>7 DEF Attempted, ins
<1> QED
  BY <1>8 DEF w

\* READ gets the word.
LEMMA ReadBeside ==
  ASSUME NEW cmd, NEW base, NEW now, Setting(cmd, base, now),
         NEW given, NEW faults, NEW t, NEW s,
         Attempted(cmd, base, given, faults, t, <<>>, now, s),
         t # <<>>, Head(t).op = "READ", Head(t).address + 2 <= VirtualBytes
  PROVE  Attempted(cmd, base, given, faults, t, <<WordIn(now.mem, Head(t).address)>>, now, s)
<1> DEFINE ins == Head(t)
           a == ins.address
           w == <<WordIn(now.mem, a)>>
<1>1. ins \in Code /\ ins \in Parts[cmd]
  BY HeadAttempted
<1>2. a \in Address /\ a + 1 \in Address
  BY <1>1, CodeFields, Fitting
<1>3. ins.args = <<>> /\ DOMAIN <<>> = {}
  BY <1>1, CodeAssumption
<1>4. w[1] = WordIn(now.mem, a)
  OBVIOUS
<1>5. ins.op = "READ" /\ a + 2 <= VirtualBytes
  OBVIOUS
<1> HIDE DEF w
<1>6. Literals(ins, w)
  BY <1>3 DEF Literals
<1>7. ASSUME ~Violated(s)
      PROVE  /\ Beside(Parts[cmd], base, given, faults, t, now, s)
             /\ Resolving(ins, base, given, faults, w, s)
  <2>1. Beside(Parts[cmd], base, given, faults, t, now, s)
    BY <1>7 DEF Attempted
  <2>2. Undisturbed(Parts[cmd], a) /\ Undisturbed(Parts[cmd], a + 1)
    BY <1>1, <1>5, RepeatedParts DEF Setting
  <2>3. Pending(t) \subseteq Parts[cmd]
    BY DEF Attempted
  <2> HIDE DEF ins, a
  <2>4. ASSUME Self \notin faults PROVE WordIn(now.mem, a) = WordIn(s.mem, a)
    <3>1. Same(Pending(t), now.names, now.mem, s.mem)
      BY <2>1, <2>4 DEF Beside, Right
    <3>2. ~Hit(Pending(t), now.names, a) /\ ~Hit(Pending(t), now.names, a + 1)
      BY <2>2, <2>3, UndisturbedHit
    <3> QED
      BY <1>2, <3>1, <3>2 DEF Same, WordIn
  <2> QED
    BY <1>4, <1>5, <2>1, <2>4 DEF Resolving, a
<1> HIDE DEF ins
<1>8. Attempted(cmd, base, given, faults, t, w, now, s)
  BY <1>6, <1>7 DEF Attempted, ins
<1> QED
  BY <1>8 DEF w, a, ins

-----------------------------------------------------------------------------
(***************************************************************************)
(* Around an attempt.                                                      *)
(***************************************************************************)

\* All parts of a command are pending when it is begun, none when it is done.
LEMMA PendingEnds ==
  ASSUME NEW cmd \in Code
  PROVE  Pending(<<cmd>>) = Parts[cmd] /\ Pending(<<>>) = {}
<1> DEFINE t == <<cmd>>
           z == <<>>
<1>1. t \in Seq(Code) /\ t # z /\ Head(t) = cmd /\ Tail(t) = z /\ DOMAIN z = {}
  OBVIOUS
<1> HIDE DEF t, z
<1>2. Pending(z) = {}
  BY <1>1 DEF Pending
<1>3. Pending(t) = Parts[cmd]
  <2>1. t # <<>>
    BY <1>1 DEF z
  <2>2. Pending(t) = Parts[Head(t)] \cup Pending(Tail(t))
    BY <1>1, <2>1, PendingStep
  <2> QED
    BY <1>1, <1>2, <2>2
<1> QED
  BY <1>2, <1>3 DEF t, z

\* A command is begun.
LEMMA CommandBegins ==
  ASSUME NEW cmd, NEW base, NEW now, Setting(cmd, base, now), NEW given,
         now.names = base.names, now.mem = base.mem, now.shown = base.shown, now.nap = 0
  PROVE  /\ Framed(Parts[cmd], base, given, now)
         /\ Along(Parts[cmd], base.names, Sequential!Begin(cmd, base), now.names)
<1> DEFINE P == Parts[cmd]
           b == Sequential!Begin(cmd, base)
<1>1. Framed(P, base, given, now)
  BY DEF Framed, Same, Grown
<1>2. b.state.names = base.names
  <2>1. b = Remains(<<cmd>>, [base EXCEPT !.nap = 0])
    BY BeginTyped DEF Setting
  <2>2. DOMAIN base = {"mem", "names", "shown", "nap", "violated"}
    BY DEF Setting, States
  <2>3. [base EXCEPT !.nap = 0].names = base.names
    BY <2>2
  <2> HIDE DEF b
  <2> QED
    BY <2>1, <2>3 DEF Remains
<1>3. CASE NoRead(P)
  <2>1. now.names = b.state.names
    BY <1>2
  <2> HIDE DEF b, P
  <2>2. First(P, b, now.names)
    BY <1>3, <2>1 DEF First
  <2> QED
    BY <1>1, <2>2 DEF Along, b, P
<1>4. CASE ~NoRead(P)
  <2>1. PICK i \in P : i.op = "READ"
    BY <1>4 DEF NoRead
  <2>2. Only(P, i.target)
    BY <2>1, RepeatedParts DEF Setting
  <2> HIDE DEF b, P
  <2> QED
    BY <1>1, <1>2, <1>4, <2>2 DEF Along, Single, b, P
<1> QED
  BY <1>1, <1>3, <1>4

\* An attempt is begun, the first or another one.
LEMMA AttemptBegins ==
  ASSUME NEW cmd, NEW base, NEW now, Setting(cmd, base, now), NEW given, NEW faults,
         Framed(Parts[cmd], base, given, now),
         Along(Parts[cmd], base.names, Sequential!Begin(cmd, base), now.names)
  PROVE  /\ [base EXCEPT !.nap = 0] \in States /\ [base EXCEPT !.nap = 0].violated = base.violated
         /\ Attempted(cmd, base, given, faults, <<cmd>>, <<>>, now, [base EXCEPT !.nap = 0])
<1> DEFINE P == Parts[cmd]
           t == <<cmd>>
           s == [base EXCEPT !.nap = 0]
           b == Sequential!Begin(cmd, base)
<1>1. b = Remains(t, s) /\ s \in States /\ b \in Configs /\ t \in Seq(Code) /\ cmd \in Code
  BY BeginTyped DEF Setting
<1>2. /\ s.names = base.names /\ s.mem = base.mem /\ s.shown = base.shown /\ s.nap = 0
      /\ s.violated = base.violated
  <2>1. DOMAIN base = {"mem", "names", "shown", "nap", "violated"}
    BY DEF Setting, States
  <2> QED
    BY <2>1
<1>3. Pending(t) = P
  BY <1>1, PendingEnds
<1>4. b \in Run(b)
  BY <1>1, RunBegins
<1> HIDE DEF t, s, b, P
<1>5. Right(P, P, base, given, now, s)
  <2>1. Framed(P, base, given, now)
    BY DEF P
  <2>2. NoRead(P) \/ \E i \in P : i.op \in Assigning
    BY DEF NoRead, Assigning
  <2> QED
    BY <1>2, <2>1, <2>2 DEF Framed, Right
<1>6. Beside(P, base, given, faults, t, now, s)
  <2>1. Grown(P, base.names, s.names)
    BY <1>2 DEF Grown
  <2> QED
    BY <1>1, <1>3, <1>5, <2>1 DEF Beside, P, b
<1>7. Attempted(cmd, base, given, faults, t, <<>>, now, s)
  BY <1>1, <1>3, <1>4, <1>6, NothingResolved DEF Attempted, P, b
<1> QED
  BY <1>1, <1>2, <1>7 DEF t, s

\* The attempt is over, and the command will be begun again.
LEMMA AttemptRepeated ==
  ASSUME NEW cmd, NEW base, NEW now, Setting(cmd, base, now),
         NEW given, NEW faults, NEW v, NEW s,
         Attempted(cmd, base, given, faults, <<>>, v, now, s), ~Violated(s)
  PROVE  /\ Framed(Parts[cmd], base, given, now)
         /\ Along(Parts[cmd], base.names, Sequential!Begin(cmd, base), now.names)
<1> DEFINE P == Parts[cmd]
           b == Sequential!Begin(cmd, base)
           z == <<>>
           f == Remains(z, s)
<1>1. /\ f \in Run(b) /\ Framed(P, base, given, now) /\ Along(P, base.names, f, now.names)
  BY DEF Attempted, Beside
<1>2. f.todo = z /\ f.state = s
  BY DEF Remains
<1>3. b \in Configs
  BY BeginTyped DEF Setting
<1>4. f \in Configs /\ z = <<>>
  BY <1>1, <1>3, RunBegins
<1>5. b.state.names = base.names
  <2>1. b = Remains(<<cmd>>, [base EXCEPT !.nap = 0])
    BY BeginTyped DEF Setting
  <2>2. DOMAIN base = {"mem", "names", "shown", "nap", "violated"}
    BY DEF Setting, States
  <2>3. [base EXCEPT !.nap = 0].names = base.names
    BY <2>2
  <2> HIDE DEF b
  <2> QED
    BY <2>1, <2>3 DEF Remains
<1> HIDE DEF P, b, f, z
<1>6. CASE First(P, f, now.names)
  <2>1. Later(P, b, now.names)
    BY <1>1, <1>2, <1>4, <1>6 DEF First, Later
  <2> QED
    BY <1>1, <2>1 DEF Along, P, b
<1>7. CASE Later(P, f, now.names)
  <2>1. PICK g \in Run(f) : g.todo = <<>> /\ now.names = g.state.names
    BY <1>7 DEF Later
  <2>2. g = f
    BY <1>2, <1>4, RunEnds
  <2>3. Later(P, b, now.names)
    BY <1>1, <1>7, <2>1, <2>2 DEF Later
  <2> QED
    BY <1>1, <2>3 DEF Along, P, b
<1>8. CASE Single(P, base.names, f, now.names)
  <2>1. Single(P, base.names, b, now.names)
    BY <1>5, <1>8 DEF Single
  <2> QED
    BY <1>1, <2>1 DEF Along, P, b
<1> QED
  BY <1>1, <1>6, <1>7, <1>8 DEF Along

\* What the attempt has come to is what the text describes, also if it violates.
LEMMA AttemptReturns ==
  ASSUME NEW cmd, NEW base, NEW now, Setting(cmd, base, now),
         NEW given, NEW faults, NEW v, NEW s,
         Attempted(cmd, base, given, faults, <<>>, v, now, s)
  PROVE  Sequential!After(cmd, base) = s
<1> DEFINE b == Sequential!Begin(cmd, base)
           f == Remains(<<>>, s)
<1>1. f \in Run(b) /\ b \in Configs
  BY BeginTyped DEF Attempted, Setting
<1>2. f.todo = <<>> /\ f.state = s
  BY DEF Remains
<1> HIDE DEF b, f
<1>3. Sequential!RunAll[b] = s
  BY <1>1, <1>2, RunReturns
<1> QED
  BY <1>3 DEF Sequential!After, b

\* The command counts, and nothing has faulted.
LEMMA CommandDone ==
  ASSUME NEW cmd, NEW base, NEW now, Setting(cmd, base, now),
         NEW given, NEW faults, NEW v, NEW s,
         Attempted(cmd, base, given, faults, <<>>, v, now, s),
         ~Violated(s), Self \notin faults
  PROVE  /\ s.mem = now.mem /\ s.names = now.names /\ s.shown = now.shown
         /\ given = {} => s.nap = now.nap
<1> DEFINE P == Parts[cmd]
           z == <<>>
           f == Remains(z, s)
<1>1. /\ Along(P, base.names, f, now.names) /\ Right(P, Pending(z), base, given, now, s)
      /\ f \in Run(Sequential!Begin(cmd, base)) /\ s \in States
  BY DEF Attempted, Beside
<1>2. f.todo = z /\ f.state = s
  BY DEF Remains
<1>3. f \in Configs
  BY <1>1, BeginTyped, RunBegins DEF Setting
<1>4. Pending(z) = {}
  BY PendingEnds DEF Setting
<1>5. z = <<>>
  OBVIOUS
<1> HIDE DEF P, z, f
<1>6. s.names = now.names
  <2>1. CASE NoRead(P)
    BY <1>1, <1>2, <1>3, <1>5, <2>1, AlongEnds
  <2>2. CASE ~NoRead(P)
    BY <1>1, <1>4, <2>2 DEF Right
  <2> QED
    BY <2>1, <2>2
<1>7. s.mem = now.mem
  <2>1. \A a \in Address : now.mem[a] = s.mem[a]
    BY <1>1, <1>4 DEF Right, Same, Hit
  <2>2. now.mem \in Memories /\ s.mem \in Memories
    BY <1>1 DEF Setting, States, Memories
  <2> QED
    BY <2>1, <2>2 DEF Memories
<1> QED
  BY <1>1, <1>4, <1>6, <1>7 DEF Right

\* The command counts although something has faulted: what it may have written.
LEMMA CommandGivenUp ==
  ASSUME NEW cmd, NEW base, NEW now, Setting(cmd, base, now), NEW given,
         Framed(Parts[cmd], base, given, now)
  PROVE  /\ \A a \in Address \ Sequential!WrittenBy(cmd, now.names) : now.mem[a] = base.mem[a]
         /\ \A k \in Slot : \/ now.names[k] = base.names[k]
                            \/ base.names[k] = "" /\ now.names[k] \in Sequential!Targets(cmd)
<1> DEFINE P == Parts[cmd]
           n == now.names
           targets == Sequential!Targets(cmd)
           starts == {i.address : i \in {j \in P : j.op = "WRITE"}}
                        \cup {Sequential!SlotAddress(k) : k \in {j \in Sequential!Slot : n[j] \in targets}}
<1>1. Sequential!WrittenBy(cmd, n) = starts \cup {a + 1 : a \in starts}
  BY DEF Sequential!WrittenBy, Parts
<1>2. targets = {i.target : i \in P} \ {""}
  BY DEF Sequential!Targets, Parts
<1>3. P = {cmd} \cup UNION {Parts[k] : k \in Lines(cmd)}
  BY PartsOf DEF Setting
<1>4. Named(P)
  BY <1>3, RepeatedParts DEF Setting
<1> HIDE DEF P, n, targets
<1>5. \A i \in P : i.op \in Assigning => i.target \in targets
  BY <1>2, <1>4 DEF Named
<1>6. ASSUME NEW a, Hit(P, n, a) PROVE a \in starts \/ \E b \in starts : a = b + 1
  <2>1. PICK i \in P : \/ i.op = "WRITE" /\ a \in WordBytes(i.address)
                       \/ /\ i.op \in Assigning
                          /\ \E k \in Slot : n[k] = i.target /\ a \in WordBytes(SlotAddress(k))
    BY <1>6 DEF Hit
  <2>2. CASE i.op = "WRITE" /\ a \in WordBytes(i.address)
    <3>1. i.address \in starts
      BY <2>2
    <3> HIDE DEF starts
    <3> QED
      BY <2>2, <3>1 DEF WordBytes
  <2>3. ASSUME i.op \in Assigning, NEW k \in Slot, n[k] = i.target, a \in WordBytes(SlotAddress(k))
        PROVE  a \in starts \/ \E b \in starts : a = b + 1
    <3>1. n[k] \in targets /\ k \in Sequential!Slot /\ Sequential!SlotAddress(k) = SlotAddress(k)
      BY <1>5, <2>3, SharedSets DEF Sequential!SlotAddress, SlotAddress
    <3>2. SlotAddress(k) \in starts
      BY <3>1
    <3> HIDE DEF starts
    <3> QED
      BY <2>3, <3>2 DEF WordBytes
  <2> QED
    BY <2>1, <2>2, <2>3
<1> HIDE DEF starts
<1>7. Same(P, n, now.mem, base.mem) /\ Grown(P, base.names, n)
  BY DEF Framed, P, n
<1>8. ASSUME NEW a \in Address, a \notin Sequential!WrittenBy(cmd, n) PROVE now.mem[a] = base.mem[a]
  <2>1. ~Hit(P, n, a)
    BY <1>1, <1>6, <1>8
  <2> QED
    BY <1>7, <2>1 DEF Same
<1>9. ASSUME NEW k \in Slot
      PROVE  n[k] = base.names[k] \/ (base.names[k] = "" /\ n[k] \in targets)
  BY <1>5, <1>7 DEF Grown
<1> QED
  BY <1>8, <1>9 DEF n, targets

-----------------------------------------------------------------------------
(***************************************************************************)
(* The invariant.                                                          *)
(***************************************************************************)
USE DEF thread, effects, auxiliary, memory

AllCanBeRepeated == \A p \in Programs : CanBeRepeated(p)

\* What is visible of the process now.
Now == Visible(mem[Self], Names, logs, nap)

\* The table remembers what is in the memory, except for the variables that are
\* assigned to by what is pending, and in a command that may have faulted.
PartsIn(p) == UNION {Parts[p[k]] : k \in DOMAIN p}
Remembered(k) == table[k].value = WordAt(SlotAddress(k))
AssignedBy(Q, k) == \E i \in Q : i.op \in Assigning /\ Names[k] = i.target

TableRight ==
    gaveUp = {} /\ WrittenIn(PartsIn(program)) \cap SlotBytes = {} =>
        \A k \in Slot :
            /\ pc \in {"Create", "Next"} => Remembered(k)
            /\ pc \in {"Reset", "Execute"} => Remembered(k) \/ AssignedBy(Parts[Command], k)
            /\ pc = "Execute" /\ Self \notin retryPending /\ violated = FALSE =>
                  Remembered(k) \/ AssignedBy(Pending(todo), k)

Running ==
    /\ program \in Programs
    /\ committed \in States /\ committed.violated = FALSE
    /\ violated \in BOOLEAN
    /\ logs \in Seq(Seq(Words))
    /\ pc \in {"Next", "Reset", "Execute"} => Self \in registered

BetweenCommands == pc \in {"Create", "Next"} => violated = FALSE /\ committed = Now

BeforeAttempt ==
    pc = "Reset" =>
        /\ violated = FALSE
        /\ Framed(Parts[Command], committed, gaveUp, Now)
        /\ Along(Parts[Command], committed.names, Sequential!Begin(Command, committed), Now.names)

DuringAttempt ==
    pc = "Execute" =>
        \E s : /\ Attempted(Command, committed, gaveUp, retryPending, todo, values, Now, s)
               /\ violated = s.violated

RefinementInv ==
    ExecutionInv /\ Running /\ BetweenCommands /\ BeforeAttempt /\ DuringAttempt /\ TableRight

-----------------------------------------------------------------------------
(***************************************************************************)
(* The state of the process, in the terms of the lemmas above.             *)
(***************************************************************************)
LEMMA LastTyped ==
  ASSUME NEW W, NEW l \in Seq(W), l # <<>>
  PROVE  l[Len(l)] \in W
OBVIOUS

LEMMA EmptyTyped ==
  ASSUME NEW W
  PROVE  <<>> \in Seq(W)
OBVIOUS

LEMMA VisibleTyped ==
  ASSUME NEW m \in [Address -> 0..255], NEW n \in [Slot -> STRING \cup {""}],
         NEW l \in Seq(Seq(Words)), NEW k \in 0..LongestSleep
  PROVE  Visible(m, n, l, k) \in States
<1> DEFINE L == Seq(Words)
           f == FALSE
           w == IF l = <<>> THEN <<>> ELSE l[Len(l)]
<1>1. l \in Seq(L) /\ <<>> \in L
  BY EmptyTyped
<1>2. Visible(m, n, l, k) = [mem |-> m, names |-> n, nap |-> k, violated |-> f, shown |-> w]
  BY DEF Visible
<1> DEFINE M == [Address -> 0..255]
           N == [Slot -> STRING \cup {""}]
           K == 0..LongestSleep
           B == BOOLEAN
<1>3. m \in M /\ n \in N /\ k \in K /\ f \in B
  OBVIOUS
<1>4. States = [mem : M, names : N, shown : L, nap : K, violated : B]
  BY DEF States
<1> HIDE DEF L, M, N, K, B, f
<1>5. w \in L
  BY <1>1, LastTyped
<1> HIDE DEF w
<1>6. [mem |-> m, names |-> n, nap |-> k, violated |-> f, shown |-> w]
         \in [mem : M, names : N, shown : L, nap : K, violated : B]
  BY <1>3, <1>5
<1> QED
  BY <1>2, <1>4, <1>6

LEMMA NowFields ==
  /\ Now.mem = mem[Self] /\ Now.names = Names /\ Now.nap = nap /\ Now.violated = FALSE
  /\ Now.shown = IF logs = <<>> THEN <<>> ELSE logs[Len(logs)]
BY DEF Now, Visible

LEMMA NowFieldsNext ==
  /\ Now'.mem = mem'[Self] /\ Now'.names = Names' /\ Now'.nap = nap' /\ Now'.violated = FALSE
  /\ Now'.shown = IF logs' = <<>> THEN <<>> ELSE logs'[Len(logs')]
BY DEF Now, Visible

LEMMA NamesTyped ==
  ASSUME DataTyped
  PROVE  Names \in [Slot -> STRING \cup {""}]
BY DEF DataTyped, SlotEntry, Names

LEMMA NowTyped ==
  ASSUME DataTyped, Running
  PROVE  Now \in States
BY NamesTyped, VisibleTyped DEF DataTyped, Running, Now

LEMMA ApartNames ==
  ASSUME SlotsExact
  PROVE  Apart(Now.names)
BY NowFields DEF SlotsExact, Apart

\* What the table and the memory say of a variable.
LEMMA CurrentIsVisible == \A x : CurrentValue(x) = VariableIn(Now, x)
BY NowFields DEF CurrentValue, VariableIn, WordAt, WordIn

\* The command in which the process is.
LEMMA InCommand ==
  ASSUME AllCanBeRepeated, ThreadTyped, Running, HasRemainingCommands
  PROVE  /\ Command \in Code /\ CommandCanBeRepeated(Command)
         /\ Parts[Command] \subseteq PartsIn(program)
         /\ (\E i \in Parts[Command] : i.op = "SLEEP" /\ VariablesOf(i) # {}) =>
               WrittenIn(PartsIn(program)) \cap SlotBytes = {}
<1>1. program \in Seq(Code) /\ executed + 1 \in DOMAIN program
  BY DEF ThreadTyped, HasRemainingCommands
<1>2. CanBeRepeated(program)
  BY DEF AllCanBeRepeated, Running
<1>3. Command \in Code
  BY <1>1 DEF Command
<1>4. CommandCanBeRepeated(Command)
  BY <1>1, <1>2 DEF CanBeRepeated, Command
<1>5. Parts[Command] \subseteq PartsIn(program)
  BY <1>1 DEF PartsIn, Command
<1>6. (\E i \in PartsIn(program) : i.op = "SLEEP" /\ VariablesOf(i) # {}) =>
         WrittenIn(PartsIn(program)) \cap SlotBytes = {}
  BY <1>2 DEF CanBeRepeated, PartsIn, Parts
<1> QED
  BY <1>3, <1>4, <1>5, <1>6

LEMMA InSetting ==
  ASSUME AllCanBeRepeated, RefinementInv, HasRemainingCommands
  PROVE  Setting(Command, committed, Now)
BY InCommand, NowTyped, ApartNames DEF RefinementInv, ExecutionInv, Running, Setting

LEMMA InAttempt ==
  ASSUME AllCanBeRepeated, RefinementInv, pc = "Execute", todo # <<>>
  PROVE  /\ Setting(Command, committed, Now)
         /\ \E s : /\ Attempted(Command, committed, gaveUp, retryPending, todo, values, Now, s)
                   /\ violated = s.violated
         /\ Ins = Head(todo) /\ Ins \in Code /\ Ins \in Parts[Command]
         /\ todo \in Seq(Code) /\ values \in Seq(Words) /\ Self \in registered
<1>1. HasRemainingCommands /\ todo \in Seq(Code) /\ values \in Seq(Words) /\ Self \in registered
  BY DEF RefinementInv, ExecutionInv, ThreadTyped, DataTyped, Running
<1>2. Setting(Command, committed, Now)
  BY <1>1, InSetting
<1>3. PICK s : /\ Attempted(Command, committed, gaveUp, retryPending, todo, values, Now, s)
               /\ violated = s.violated
  BY DEF RefinementInv, DuringAttempt
<1>4. Ins = Head(todo)
  BY <1>1 DEF Ins
<1>5. Head(todo) \in Code /\ Head(todo) \in Parts[Command]
  BY <1>2, <1>3, HeadAttempted
<1> QED
  BY <1>1, <1>2, <1>3, <1>4, <1>5

\* The operands of a clean attempt are those in memory.
LEMMA CleanOperands ==
  ASSUME RefinementInv, pc = "Execute", todo # <<>>, Self \notin retryPending,
         Ins \in Code
  PROVE  \A i \in DOMAIN values : i \in DOMAIN Ins.args /\ Ins.args[i].kind = "variable" =>
            values[i] = VariableIn(Now, Ins.args[i].name)
<1>1. StaleIsRetried /\ values \in Seq(Words)
  BY DEF RefinementInv, ExecutionInv, DataTyped
<1>2. Ins.args \in Seq(Operand)
  BY CodeFields
<1> DEFINE a == Ins.args
<1>3. \A i \in 1..Smaller(Len(values), Len(a)) :
         a[i].kind = "variable" => values[i] = CurrentValue(a[i].name)
  BY <1>1 DEF StaleIsRetried
<1> HIDE DEF a
<1>4. ASSUME NEW i \in DOMAIN values, i \in DOMAIN a
      PROVE  i \in 1..Smaller(Len(values), Len(a))
  BY <1>1, <1>2, <1>4 DEF Smaller, a
<1>5. ASSUME NEW i \in DOMAIN values, i \in DOMAIN a, a[i].kind = "variable"
      PROVE  values[i] = VariableIn(Now, a[i].name)
  BY <1>3, <1>4, <1>5, CurrentIsVisible
<1> QED
  BY <1>5 DEF a

\* The attempt goes on.
LEMMA AttemptGoesOn ==
  ASSUME Unmoved, NEW s2,
         Attempted(Command, committed, gaveUp, retryPending', todo', values', Now', s2),
         violated' = s2.violated
  PROVE  DuringAttempt'
<1>1. Command' = Command /\ committed' = committed /\ gaveUp' = gaveUp
  BY DEF Unmoved, Command
<1> QED
  BY <1>1 DEF DuringAttempt

\* The table, where the names stay.
LEMMA TableGoesOn ==
  ASSUME TableRight, Unmoved, pc = "Execute",
         \A k \in Slot : Names'[k] = Names[k],
         gaveUp = {} /\ WrittenIn(PartsIn(program)) \cap SlotBytes = {} =>
            \A k \in Slot : Remembered(k) => Remembered(k)',
         Self \notin retryPending' /\ violated' = FALSE =>
            /\ Self \notin retryPending /\ violated = FALSE
            /\ \A i \in Pending(todo) : i.op \in Assigning => i \in Pending(todo')
  PROVE  TableRight'
<1>1. /\ Command' = Command /\ gaveUp' = gaveUp /\ program' = program /\ pc' = pc
  BY DEF Unmoved, Command
<1> SUFFICES ASSUME gaveUp = {}, WrittenIn(PartsIn(program)) \cap SlotBytes = {}, NEW k \in Slot
             PROVE  /\ Remembered(k)' \/ AssignedBy(Parts[Command], k)'
                    /\ Self \notin retryPending' /\ violated' = FALSE =>
                          Remembered(k)' \/ AssignedBy(Pending(todo), k)'
  BY <1>1 DEF TableRight
<1>2. /\ Remembered(k) \/ AssignedBy(Parts[Command], k)
      /\ Self \notin retryPending /\ violated = FALSE =>
            Remembered(k) \/ AssignedBy(Pending(todo), k)
  BY DEF TableRight
<1>3. Remembered(k) => Remembered(k)'
  OBVIOUS
<1>4. AssignedBy(Parts[Command], k) => AssignedBy(Parts[Command], k)'
  BY <1>1 DEF AssignedBy
<1>5. Self \notin retryPending' /\ violated' = FALSE /\ AssignedBy(Pending(todo), k) =>
         AssignedBy(Pending(todo), k)'
  <2> SUFFICES ASSUME Self \notin retryPending', violated' = FALSE, AssignedBy(Pending(todo), k)
               PROVE  AssignedBy(Pending(todo), k)'
    OBVIOUS
  <2>1. PICK i \in Pending(todo) : i.op \in Assigning /\ Names[k] = i.target
    BY DEF AssignedBy
  <2>2. i \in Pending(todo')
    BY <2>1
  <2>3. Names'[k] = i.target
    BY <2>1
  <2> QED
    BY <2>1, <2>2, <2>3 DEF AssignedBy
<1> QED
  BY <1>2, <1>3, <1>4, <1>5

\* What is remembered stays, where neither the slots nor their values move.
LEMMA RememberedStays ==
  ASSUME table' = table, mem' = mem
  PROVE  /\ \A k \in Slot : Remembered(k) => Remembered(k)'
         /\ \A k \in Slot : Names'[k] = Names[k]
         /\ Names' = Names
BY DEF Remembered, WordAt, Names

LEMMA RunningStays ==
  ASSUME Running, Unmoved, violated' \in BOOLEAN, logs' \in Seq(Seq(Words)),
         registered' = registered
  PROVE  Running'
BY DEF Running, Unmoved

\* Two bytes make up the word that was stored in them.
LEMMA WordRestored ==
  ASSUME NEW v \in Words
  PROVE  Memory!Word(Memory!LowByte(v), Memory!HighByte(v)) = v
<1>1. v \in Nat
  BY DEF Words, MaxWord
<1> QED
  BY <1>1 DEF Memory!Word, Memory!LowByte, Memory!HighByte

LEMMA WrittenStored ==
  ASSUME DataTyped, NEW a, NEW v, Memory!Write(Self, a, v)
  PROVE  /\ mem'[Self] = Stored(mem[Self], a, v)
         /\ retryPending' = retryPending /\ registered' = registered
         /\ a + 2 <= VirtualBytes
<1>1. mem' = [mem EXCEPT ![Self][a] = Memory!LowByte(v), ![Self][a + 1] = Memory!HighByte(v)]
      /\ retryPending' = retryPending /\ registered' = registered /\ a + 2 <= VirtualBytes
  BY DEF Memory!Write, Memory!InRange
<1>2. Self \in DOMAIN mem
  BY DEF DataTyped
<1> QED
  BY <1>1, <1>2 DEF Stored

\* SetVariable: the variable is placed, and its value is stored unless the write faults.
LEMMA SetVariableMoves ==
  ASSUME DataTyped, NEW x \in STRING, NEW v \in Words, SetVariable(x, v)
  PROVE  /\ Names' = Placed(Names, x) /\ registered' = registered
         /\ \/ /\ retryPending' = retryPending
               /\ mem'[Self] = StoredFor(mem[Self], Names, x, v)
            \/ Self \in retryPending' /\ mem' = mem
<1>1. CASE TargetSlots(Names, x) = {}
  <2>1. UNCHANGED <<table, memory>>
    BY <1>1 DEF SetVariable
  <2>2. Placed(Names, x) = Names /\ StoredFor(mem[Self], Names, x, v) = mem[Self]
    BY <1>1 DEF Placed, StoredFor
  <2>3. Names' = Names
    BY <2>1, RememberedStays
  <2> QED
    BY <2>1, <2>2, <2>3
<1>2. CASE TargetSlots(Names, x) # {}
  <2> DEFINE k == FirstOf(TargetSlots(Names, x))
  <2>1. k \in Slot /\ TargetSlots(Names, x) = {k}
    BY <1>2, PlacedAt
  <2>2. /\ Placed(Names, x) = [Names EXCEPT ![k] = x]
        /\ StoredFor(mem[Self], Names, x, v) = Stored(mem[Self], SlotAddress(k), v)
    BY <1>2 DEF Placed, StoredFor
  <2>3. table' = [table EXCEPT ![k] = Entry(x, v)] /\ WriteSlot(k, v)
    BY <1>2, <2>1 DEF SetVariable
  <2> HIDE DEF k
  <2>4. Names' = [Names EXCEPT ![k] = x]
    <3>1. table \in [Slot -> SlotEntry]
      BY DEF DataTyped
    <3>2. \A t \in Slot : table'[t].name = IF t = k THEN x ELSE table[t].name
      BY <2>1, <2>3, <3>1 DEF Entry
    <3> QED
      BY <2>1, <3>2 DEF Names
  <2>5. CASE Memory!Write(Self, SlotAddress(k), v)
    <3>1. /\ mem'[Self] = Stored(mem[Self], SlotAddress(k), v)
          /\ retryPending' = retryPending /\ registered' = registered
      BY <2>5, WrittenStored
    <3> QED
      BY <2>2, <2>4, <3>1
  <2>6. CASE Memory!Fault(Self, SlotAddress(k))
    BY <2>2, <2>4, <2>6 DEF Memory!Fault
  <2> QED
    BY <2>3, <2>5, <2>6 DEF WriteSlot
<1> QED
  BY <1>1, <1>2

\* The table after SetVariable, in which only the slot of x has moved.
LEMMA SetVariableRemembers ==
  ASSUME DataTyped, NEW x \in STRING, NEW v \in Words, SetVariable(x, v), NEW k \in Slot,
         \A s, t \in Slot : Names[s] = x /\ Names[t] = x => s = t
  PROVE  \/ /\ Names'[k] = Names[k] /\ (Remembered(k) => Remembered(k)')
            /\ Names[k] # x
         \/ /\ Names'[k] = x
            /\ Remembered(k)' \/ Self \in retryPending'
<1>1. CASE TargetSlots(Names, x) = {}
  <2>1. UNCHANGED <<table, memory>>
    BY <1>1 DEF SetVariable
  <2>2. Names[k] # x
    BY <1>1 DEF TargetSlots, IsDeclared, SlotsNamed
  <2> QED
    BY <2>1, <2>2, RememberedStays
<1>2. CASE TargetSlots(Names, x) # {}
  <2>1. PICK s \in TargetSlots(Names, x) : table' = [table EXCEPT ![s] = Entry(x, v)] /\ WriteSlot(s, v)
    BY <1>2 DEF SetVariable
  <2>2. s \in Slot /\ (Names[s] = x \/ \A t \in Slot : Names[t] # x)
    BY TargetSlot
  <2>3. /\ table'[s] = Entry(x, v)
        /\ \A t \in Slot : t # s => table'[t] = table[t]
    BY <2>1, <2>2 DEF DataTyped
  <2>4. Names'[s] = x /\ \A t \in Slot : t # s => Names'[t] = Names[t]
    BY <2>2, <2>3 DEF Names, Entry
  <2>5. SlotAddress(s) \in Address /\ SlotAddress(s) + 1 \in Address
    BY <2>2, SlotInMemory
  <2>6. mem[Self] \in [Address -> 0..255]
    BY DEF DataTyped
  <2>7. CASE Memory!Fault(Self, SlotAddress(s))
    <3>1. mem' = mem /\ Self \in retryPending'
      BY <2>7, FaultFlags
    <3>2. CASE k = s
      BY <2>4, <3>1, <3>2
    <3>3. CASE k # s
      <4>1. Remembered(k) => Remembered(k)'
        BY <2>3, <3>1, <3>3 DEF Remembered, WordAt
      <4>2. Names[k] # x
        BY <2>2, <3>3
      <4> QED
        BY <2>4, <3>3, <4>1, <4>2
    <3> QED
      BY <3>2, <3>3
  <2>8. CASE Memory!Write(Self, SlotAddress(s), v)
    <3>1. mem'[Self] = Stored(mem[Self], SlotAddress(s), v)
      BY <2>8, WrittenStored
    <3> DEFINE m == mem[Self]
               b == SlotAddress(s)
    <3>2. /\ \A a \in Address : a # b /\ a # b + 1 => Stored(m, b, v)[a] = m[a]
          /\ Stored(m, b, v)[b] = Memory!LowByte(v)
          /\ Stored(m, b, v)[b + 1] = Memory!HighByte(v)
      <4> HIDE DEF b, m
      <4> QED
        BY <2>5, <2>6, StoredTyped DEF b, m
    <3>3. CASE k = s
      <4>1. mem'[Self][b] = Memory!LowByte(v) /\ mem'[Self][b + 1] = Memory!HighByte(v)
        BY <3>1, <3>2
      <4>2. Memory!Word(mem'[Self][b], mem'[Self][b + 1]) = v
        BY <4>1, WordRestored
      <4>3. table'[s].value = v
        BY <2>3 DEF Entry
      <4>4. Remembered(s)'
        BY <4>2, <4>3 DEF Remembered, WordAt
      <4> QED
        BY <2>4, <3>3, <4>4
    <3>4. CASE k # s
      <4>1. /\ SlotAddress(k) # b /\ SlotAddress(k) # b + 1
            /\ SlotAddress(k) + 1 # b /\ SlotAddress(k) + 1 # b + 1
        <5>1. s \in Nat /\ k \in Nat /\ k # s
          BY <2>2, <3>4 DEF Slot
        <5> QED
          BY <5>1 DEF SlotAddress
      <4>2. SlotAddress(k) \in Address /\ SlotAddress(k) + 1 \in Address
        BY SlotInMemory
      <4>3. WordAt(SlotAddress(k))' = WordAt(SlotAddress(k))
        BY <3>1, <3>2, <4>1, <4>2 DEF WordAt
      <4>4. Remembered(k) => Remembered(k)'
        BY <2>3, <3>4, <4>3 DEF Remembered
      <4>5. Names[k] # x
        BY <2>2, <3>4
      <4> QED
        BY <2>4, <3>4, <4>4, <4>5
    <3> QED
      BY <3>3, <3>4
  <2> QED
    BY <2>1, <2>7, <2>8 DEF WriteSlot
<1> QED
  BY <1>1, <1>2


-----------------------------------------------------------------------------
(***************************************************************************)
(* The steps of an attempt keep the invariant.                             *)
(***************************************************************************)
LEMMA NowStays ==
  ASSUME Names' = Names, mem' = mem, logs' = logs, nap' = nap
  PROVE  Now' = Now
BY DEF Now

\* A slot whose place and value are those that the table remembers.
LEMMA SlotOfVariable ==
  ASSUME NEW x, IsDeclared(Names, x)
  PROVE  LET k == FindVariable(Names, x)
         IN  k \in Slot /\ Names[k] = x /\ VariableIn(Now, x) = WordAt(SlotAddress(k))
<1>1. FindVariable(Names, x) \in Slot /\ Names[FindVariable(Names, x)] = x
  BY FoundSlot
<1> QED
  BY <1>1, NowFields DEF VariableIn, WordIn, WordAt

\* GetVariable reads the word or believes the table.
LEMMA GetVariableMoves ==
  ASSUME DataTyped, NEW k \in Slot, GetVariable(k)
  PROVE  \E x : /\ values' = Append(values, x)
                /\ Names' = Names /\ mem' = mem /\ registered' = registered
                /\ \A j \in Slot : Remembered(j) => Remembered(j)'
                /\ \/ retryPending' = retryPending /\ x = WordAt(SlotAddress(k))
                   \/ Self \in retryPending' /\ x = table[k].value
<1> DEFINE a == SlotAddress(k)
<1>1. a \in Nat
  BY SlotInMemory DEF Address
<1>2. CASE Memory!Fault(Self, a) /\ values' = Append(values, table[k].value) /\ table' = table
  <2>1. Self \in retryPending' /\ mem' = mem /\ registered' = registered
    BY <1>2, FaultFlags DEF Memory!Fault
  <2>2. Names' = Names /\ \A j \in Slot : Remembered(j) => Remembered(j)'
    BY <1>2, <2>1, RememberedStays
  <2> QED
    BY <1>2, <2>1, <2>2
<1>3. CASE /\ Memory!Read(Self, a) /\ values' = FreshWord
           /\ table' = [table EXCEPT ![k].value = reply'.value]
  <2> DEFINE v == reply'.value
  <2>1. v = WordAt(a) /\ mem' = mem /\ retryPending' = retryPending
    BY <1>1, <1>3, ReadWord
  <2>2. registered' = registered
    BY <1>3 DEF Memory!Read
  <2>3. table \in [Slot -> SlotEntry]
    BY DEF DataTyped
  <2>4. values' = Append(values, v) /\ table' = [table EXCEPT ![k].value = v]
    BY <1>3 DEF FreshWord
  <2> HIDE DEF v, a
  <2>5. \A j \in Slot : table'[j].name = table[j].name
    BY <2>3, <2>4 DEF SlotEntry
  <2>6. Names' = Names
    BY <2>5 DEF Names
  <2>7. \A j \in Slot : table'[j].value = IF j = k THEN v ELSE table[j].value
    BY <2>3, <2>4 DEF SlotEntry
  <2>8. \A j \in Slot : Remembered(j) => Remembered(j)'
    BY <2>1, <2>7 DEF Remembered, WordAt, a
  <2> QED
    BY <2>1, <2>2, <2>4, <2>6, <2>8 DEF a
<1> QED
  BY <1>2, <1>3 DEF GetVariable

\* Resolve yields a literal, what the memory says, or what the table remembers.
LEMMA ResolveMoves ==
  ASSUME DataTyped, NEW operand \in Operand, Resolve(operand)
  PROVE  \E x : /\ values' = Append(values, x)
                /\ Names' = Names /\ mem' = mem /\ registered' = registered
                /\ retryPending' = retryPending \/ Self \in retryPending'
                /\ \A k \in Slot : Remembered(k) => Remembered(k)'
                /\ operand.kind = "literal" => x = LiteralValue(Ins, operand.value)
                /\ operand.kind = "variable" =>
                      \/ x = VariableIn(Now, operand.name)
                      \/ \E k \in Slot :
                            /\ Names[k] = operand.name /\ x = table[k].value
                            /\ VariableIn(Now, operand.name) = WordAt(SlotAddress(k))
<1>1. CASE operand.kind = "literal" /\ values' = Append(values, LiteralValue(Ins, operand.value))
           /\ UNCHANGED <<table, memory>>
  BY <1>1, RememberedStays
<1>2. CASE /\ operand.kind = "variable" /\ ~IsDeclared(Names, operand.name)
           /\ values' = Append(values, 0) /\ UNCHANGED <<table, memory>>
  <2>1. VariableIn(Now, operand.name) = 0
    BY <1>2, NowFields DEF VariableIn
  <2> QED
    BY <1>2, <2>1, RememberedStays
<1>3. CASE /\ operand.kind = "variable" /\ IsDeclared(Names, operand.name)
           /\ GetVariable(FindVariable(Names, operand.name))
  <2> DEFINE k == FindVariable(Names, operand.name)
  <2>1. k \in Slot /\ Names[k] = operand.name
        /\ VariableIn(Now, operand.name) = WordAt(SlotAddress(k))
    BY <1>3, SlotOfVariable
  <2>2. GetVariable(k)
    BY <1>3
  <2> HIDE DEF k
  <2>3. PICK x : /\ values' = Append(values, x)
                 /\ Names' = Names /\ mem' = mem /\ registered' = registered
                 /\ \A j \in Slot : Remembered(j) => Remembered(j)'
                 /\ \/ retryPending' = retryPending /\ x = WordAt(SlotAddress(k))
                    \/ Self \in retryPending' /\ x = table[k].value
    BY <2>1, <2>2, GetVariableMoves
  <2> QED
    BY <1>3, <2>1, <2>3
<1> QED
  BY <1>1, <1>2, <1>3 DEF Resolve

\* A SLEEP in which the table may be believed.
LEMMA SleepBelieves ==
  ASSUME AllCanBeRepeated, RefinementInv, pc = "Execute", todo # <<>>, gaveUp = {},
         Ins.op = "SLEEP", NEW j \in DOMAIN Ins.args, Ins.args[j].kind = "variable",
         NEW k \in Slot, Names[k] = Ins.args[j].name
  PROVE  Remembered(k)
<1>1. Ins \in Parts[Command] /\ HasRemainingCommands /\ CommandCanBeRepeated(Command)
  BY InAttempt DEF RefinementInv, ExecutionInv, ThreadTyped, Setting
<1>2. VariablesOf(Ins) # {}
  BY VariableOperand
<1>3. WrittenIn(PartsIn(program)) \cap SlotBytes = {}
  BY <1>1, <1>2, InCommand DEF RefinementInv, ExecutionInv
<1>4. Stable(Parts[Command], Ins.args[j].name)
  BY <1>1, RepeatedParts
<1>5. ~AssignedBy(Parts[Command], k)
  BY <1>4 DEF AssignedBy, Stable, Unassigned
<1> QED
  BY <1>3, <1>5 DEF RefinementInv, TableRight

LEMMA ResolveKeepsRefinement ==
  ASSUME AllCanBeRepeated, RefinementInv, ResolveOperand
  PROVE  DuringAttempt' /\ TableRight' /\ Running'
<1>1. pc = "Execute" /\ todo # <<>> /\ Len(values) < Len(Ins.args)
      /\ Resolve(Ins.args[Len(values) + 1]) /\ Unmoved
      /\ todo' = todo /\ logs' = logs /\ nap' = nap /\ violated' = violated
  BY DEF ResolveOperand
<1>2. /\ Setting(Command, committed, Now)
      /\ Ins = Head(todo) /\ Ins \in Code /\ values \in Seq(Words)
  BY <1>1, InAttempt
<1>3. PICK s : /\ Attempted(Command, committed, gaveUp, retryPending, todo, values, Now, s)
               /\ violated = s.violated
  BY <1>1, InAttempt
<1> DEFINE n == Len(values) + 1
           operand == Ins.args[n]
<1>4. n \in DOMAIN Ins.args /\ operand \in Operand /\ n = Len(values) + 1
  BY <1>1, <1>2, CodeFields
<1>5. Resolve(operand)
  BY <1>1
<1> HIDE DEF n
<1>6. DataTyped
  BY DEF RefinementInv, ExecutionInv
<1>7. PICK x : /\ values' = Append(values, x)
               /\ Names' = Names /\ mem' = mem /\ registered' = registered
               /\ retryPending' = retryPending \/ Self \in retryPending'
               /\ \A k \in Slot : Remembered(k) => Remembered(k)'
               /\ operand.kind = "literal" => x = LiteralValue(Ins, operand.value)
               /\ operand.kind = "variable" =>
                     \/ x = VariableIn(Now, operand.name)
                     \/ \E k \in Slot :
                           /\ Names[k] = operand.name /\ x = table[k].value
                           /\ VariableIn(Now, operand.name) = WordAt(SlotAddress(k))
  BY <1>4, <1>5, <1>6, ResolveMoves
<1>8. ASSUME gaveUp = {}, Ins.op = "SLEEP", operand.kind = "variable"
      PROVE  x = VariableIn(Now, operand.name)
  <2>1. SUFFICES ASSUME NEW k \in Slot, Names[k] = operand.name, x = table[k].value,
                        VariableIn(Now, operand.name) = WordAt(SlotAddress(k))
                 PROVE  x = VariableIn(Now, operand.name)
    BY <1>7, <1>8
  <2>2. Remembered(k)
    BY <1>1, <1>4, <1>8, <2>1, SleepBelieves
  <2> QED
    BY <2>1, <2>2 DEF Remembered
<1>9. Now' = Now
  BY <1>1, <1>7, NowStays
<1>10. Attempted(Command, committed, gaveUp, retryPending', todo, Append(values, x), Now, s)
  BY <1>1, <1>2, <1>3, <1>4, <1>7, <1>8, ResolveBeside
<1>11. DuringAttempt'
  BY <1>1, <1>3, <1>7, <1>9, <1>10, AttemptGoesOn
<1>12. TableRight'
  <2>1. TableRight
    BY DEF RefinementInv
  <2> QED
    BY <1>1, <1>7, <2>1, TableGoesOn
<1>13. Running'
  BY <1>1, <1>7, RunningStays DEF RefinementInv, Running
<1> QED
  BY <1>11, <1>12, <1>13

\* An instruction returns that has no variable to assign to, or could not.
LEMMA ReturnKeepsTable ==
  ASSUME RefinementInv, pc = "Execute", todo # <<>>, Unmoved, todo' = Tail(todo),
         table' = table, mem' = mem, Ins.op # "FOR",
         Self \in retryPending => Self \in retryPending',
         violated' = FALSE => violated = FALSE,
         Ins.op \in Assigning => Self \in retryPending' \/ violated' = TRUE
  PROVE  TableRight'
<1>1. todo \in Seq(Code) /\ Ins = Head(todo)
  BY DEF RefinementInv, ExecutionInv, ThreadTyped, Ins
<1>2. Pending(todo) = {Ins} \cup Pending(Tail(todo))
  BY <1>1, PendingReturned
<1>3. TableRight
  BY DEF RefinementInv
<1>4. Names' = Names /\ \A k \in Slot : Remembered(k) => Remembered(k)'
  BY RememberedStays
<1>5. ASSUME Self \notin retryPending', violated' = FALSE
      PROVE  /\ Self \notin retryPending /\ violated = FALSE
             /\ \A i \in Pending(todo) : i.op \in Assigning => i \in Pending(todo')
  <2>1. violated' # TRUE
    BY <1>5
  <2>2. Ins.op \notin Assigning
    BY <1>5, <2>1
  <2> QED
    BY <1>2, <1>5, <2>2
<1> QED
  BY <1>3, <1>4, <1>5, TableGoesOn

\* An access outside of the memory.
LEMMA ViolationKeepsRefinement ==
  ASSUME AllCanBeRepeated, RefinementInv, pc = "Execute", todo # <<>>,
         Ins.op \in {"READ", "WRITE"}, ~(Ins.address + 2 <= VirtualBytes),
         Done, Unmoved, violated' = TRUE,
         UNCHANGED <<table, logs, nap, mem, registered, retryPending>>
  PROVE  DuringAttempt' /\ TableRight' /\ Running'
<1>1. Setting(Command, committed, Now) /\ Ins = Head(todo) /\ Ins \in Code
  BY InAttempt
<1>2. PICK s : Attempted(Command, committed, gaveUp, retryPending, todo, values, Now, s)
  BY InAttempt
<1> DEFINE e == Sequential!Effect(Head(todo), s)
<1>3. Violated(e) /\ Attempted(Command, committed, gaveUp, retryPending', Tail(todo), <<>>, Now', e)
  BY <1>1, <1>2, ViolationBeside
<1> HIDE DEF e
<1>4. violated' = e.violated
  BY <1>3 DEF Violated
<1>5. todo' = Tail(todo) /\ values' = <<>>
  BY DEF Done
<1>6. Attempted(Command, committed, gaveUp, retryPending', todo', values', Now', e)
  BY <1>3, <1>5
<1>7. DuringAttempt'
  BY <1>4, <1>6, AttemptGoesOn
<1>8. violated' # FALSE /\ Ins.op # "FOR"
  OBVIOUS
<1>9. TableRight'
  BY <1>5, <1>8, ReturnKeepsTable
<1>10. Running'
  BY RunningStays DEF RefinementInv, Running
<1> QED
  BY <1>7, <1>9, <1>10

LEMMA RejectKeepsRefinement ==
  ASSUME AllCanBeRepeated, RefinementInv, RejectAddress
  PROVE  DuringAttempt' /\ TableRight' /\ Running'
<1>1. pc = "Execute" /\ todo # <<>> /\ Ins.op \in {"READ", "WRITE"} /\ BadAddress(Ins)
      /\ Done /\ Unmoved /\ violated' = TRUE
      /\ UNCHANGED <<table, logs, nap, mem, registered, retryPending>>
  BY DEF RejectAddress, At
<1>2. Ins \in Code
  BY <1>1, InAttempt
<1>3. Ins.address \in Nat /\ Ins.address \notin Address
  BY <1>1, <1>2, CodeFields DEF BadAddress
<1>4. ~(Ins.address + 2 <= VirtualBytes)
  BY <1>3, Fitting
<1> QED
  BY <1>1, <1>4, ViolationKeepsRefinement

\* An instruction whose access is in range leaves the violations as they are.
LEMMA ViolatedEffect ==
  ASSUME NEW s \in States, NEW ins \in Code,
         Violated(s) \/ (ins.op \in {"READ", "WRITE"} => ins.address + 2 <= VirtualBytes)
  PROVE  Sequential!Effect(ins, s).violated = s.violated
<1> DEFINE e == Sequential!Effect(ins, s)
           w == Sequential!Values(ins, s)
<1>1. DOMAIN s = {"mem", "names", "shown", "nap", "violated"}
  BY DEF States
<1>2. CASE Violated(s)
  BY <1>2, FieldsEffect DEF Violated
<1>3. CASE ins.op \in Assigning /\ (ins.op = "READ" => ins.address + 2 <= VirtualBytes)
  <2> DEFINE n == Placed(s.names, ins.target)
             m == StoredFor(s.mem, s.names, ins.target, Assigned(ins, s))
  <2>1. e = [s EXCEPT !.names = n, !.mem = m]
    BY <1>3, AssignEffect
  <2> HIDE DEF n, m, e
  <2>2. e.violated = s.violated
    BY <1>1, <2>1
  <2> QED
    BY <2>2 DEF e
<1>4. CASE ins.op = "WRITE" /\ ins.address + 2 <= VirtualBytes
  <2> DEFINE m == Stored(s.mem, ins.address, w[1])
  <2>1. e = [s EXCEPT !.mem = m]
    BY <1>4, WriteEffect
  <2> HIDE DEF m, e
  <2>2. e.violated = s.violated
    BY <1>1, <2>1
  <2> QED
    BY <2>2 DEF e
<1>5. CASE ins.op = "PRINT"
  <2>1. e = [s EXCEPT !.shown = w]
    BY <1>5, OtherEffects
  <2> HIDE DEF w, e
  <2>2. e.violated = s.violated
    BY <1>1, <2>1
  <2> QED
    BY <2>2 DEF e
<1>6. CASE ins.op = "SLEEP"
  <2> DEFINE k == SleepAfter(s.nap, w[1])
  <2>1. e = [s EXCEPT !.nap = k]
    BY <1>6, OtherEffects
  <2> HIDE DEF k, e
  <2>2. e.violated = s.violated
    BY <1>1, <2>1
  <2> QED
    BY <2>2 DEF e
<1>7. CASE ins.op \in {"FOR", "NULL"}
  BY <1>7, OtherEffects
<1>8. ins.op \in Operations
  BY CodeFields
<1> QED
  BY <1>2, <1>3, <1>4, <1>5, <1>6, <1>7, <1>8 DEF Operations, Assigning

\* What has been resolved or read gives a word.
LEMMA ResultOfValues ==
  ASSUME AllCanBeRepeated, RefinementInv, AssignResult
  PROVE  Result(Ins, values) \in Words
<1>1. pc = "Execute" /\ todo # <<>> /\ Ins.op \in Assigning /\ HasResult
  BY DEF AssignResult, At, Assigning
<1>2. ExecutionInv /\ values \in Seq(Words) /\ Ins \in Code
  BY <1>1, InAttempt DEF RefinementInv
<1>3. CASE Ins.op = "READ" /\ values # <<>>
  <2>1. Arity(Ins.op) = 0
    BY <1>3 DEF Arity
  <2> QED
    BY <1>2, <1>3, <2>1, ResultTyped
<1>4. CASE Ins.op # "READ" /\ Resolved
  <2>1. Len(values) >= Arity(Ins.op)
    BY <1>1, <1>2, <1>4, ResolvedOperands
  <2>2. Arity(Ins.op) \in {1, 2}
    BY <1>1, <1>4 DEF Assigning, Arity
  <2>3. values # <<>>
    BY <1>2, <2>1, <2>2
  <2> QED
    BY <1>2, <2>1, <2>3, ResultTyped
<1> QED
  BY <1>1, <1>3, <1>4 DEF HasResult

\* The table after an assignment.
LEMMA AssignKeepsTable ==
  ASSUME AllCanBeRepeated, RefinementInv, AssignResult
  PROVE  TableRight'
<1>1. pc = "Execute" /\ todo # <<>> /\ Ins.op \in Assigning /\ Unmoved
      /\ SetVariable(Ins.target, Result(Ins, values)) /\ todo' = Tail(todo) /\ violated' = violated
  BY DEF AssignResult, At, Assigning, Done
<1>2. /\ Setting(Command, committed, Now)
      /\ Ins = Head(todo) /\ Ins \in Code /\ Ins \in Parts[Command] /\ todo \in Seq(Code)
  BY <1>1, InAttempt
<1> DEFINE x == Ins.target
           v == Result(Ins, values)
<1>3. x \in STRING /\ v \in Words /\ DataTyped
  BY <1>2, CodeFields, ResultOfValues DEF RefinementInv, ExecutionInv
<1>4. x # ""
  BY <1>1, <1>2, RepeatedParts DEF Setting, Named
<1>5. \A s, t \in Slot : Names[s] = x /\ Names[t] = x => s = t
  BY <1>4 DEF RefinementInv, ExecutionInv, SlotsExact
<1>6. SetVariable(x, v)
  BY <1>1
<1>7. Pending(todo) = {Ins} \cup Pending(todo')
  BY <1>1, <1>2, PendingReturned DEF Assigning
<1> HIDE DEF v
<1>8. retryPending' = retryPending \/ Self \in retryPending'
  BY <1>3, <1>6, SetVariableMoves
<1>9. /\ Command' = Command /\ gaveUp' = gaveUp /\ program' = program /\ pc' = pc
  BY <1>1 DEF Unmoved, Command
<1> SUFFICES ASSUME gaveUp = {}, WrittenIn(PartsIn(program)) \cap SlotBytes = {}, NEW k \in Slot
             PROVE  /\ Remembered(k)' \/ AssignedBy(Parts[Command], k)'
                    /\ Self \notin retryPending' /\ violated' = FALSE =>
                          Remembered(k)' \/ AssignedBy(Pending(todo), k)'
  BY <1>1, <1>9 DEF TableRight
<1>10. /\ Remembered(k) \/ AssignedBy(Parts[Command], k)
       /\ Self \notin retryPending /\ violated = FALSE =>
             Remembered(k) \/ AssignedBy(Pending(todo), k)
  BY <1>1 DEF RefinementInv, TableRight
<1>11. CASE Names'[k] = Names[k] /\ (Remembered(k) => Remembered(k)') /\ Names[k] # x
  <2>1. AssignedBy(Parts[Command], k) => AssignedBy(Parts[Command], k)'
    BY <1>9, <1>11 DEF AssignedBy
  <2>2. AssignedBy(Pending(todo), k) => AssignedBy(Pending(todo), k)'
    <3> SUFFICES ASSUME AssignedBy(Pending(todo), k) PROVE AssignedBy(Pending(todo), k)'
      OBVIOUS
    <3>1. PICK i \in Pending(todo) : i.op \in Assigning /\ Names[k] = i.target
      BY DEF AssignedBy
    <3>2. i # Ins
      BY <1>11, <3>1
    <3>3. i \in Pending(todo')
      BY <1>7, <3>1, <3>2
    <3> QED
      BY <1>11, <3>1, <3>3 DEF AssignedBy
  <2> QED
    BY <1>1, <1>8, <1>10, <1>11, <2>1, <2>2
<1>12. CASE Names'[k] = x /\ (Remembered(k)' \/ Self \in retryPending')
  <2>1. AssignedBy(Parts[Command], k)'
    BY <1>1, <1>2, <1>9, <1>12 DEF AssignedBy
  <2> QED
    BY <1>12, <2>1
<1> QED
  BY <1>3, <1>5, <1>6, <1>11, <1>12, SetVariableRemembers

LEMMA AssignKeepsRefinement ==
  ASSUME AllCanBeRepeated, RefinementInv, AssignResult
  PROVE  DuringAttempt' /\ TableRight' /\ Running'
<1>1. pc = "Execute" /\ todo # <<>> /\ Ins.op \in Assigning /\ Unmoved /\ HasResult
      /\ SetVariable(Ins.target, Result(Ins, values)) /\ todo' = Tail(todo) /\ values' = <<>>
      /\ logs' = logs /\ nap' = nap /\ violated' = violated
  BY DEF AssignResult, At, Assigning, Done
<1>2. /\ Setting(Command, committed, Now)
      /\ Ins = Head(todo) /\ Ins \in Code /\ values \in Seq(Words)
  BY <1>1, InAttempt
<1>3. PICK s : /\ Attempted(Command, committed, gaveUp, retryPending, todo, values, Now, s)
               /\ violated = s.violated
  BY <1>1, InAttempt
<1> DEFINE x == Ins.target
           v == Result(Ins, values)
           e == Sequential!Effect(Head(todo), s)
<1>4. x \in STRING /\ v \in Words /\ DataTyped
  BY <1>2, CodeFields, ResultOfValues DEF RefinementInv, ExecutionInv
<1>5. SetVariable(x, v)
  BY <1>1
<1>6. IF Head(todo).op = "READ" THEN values # <<>> ELSE Len(values) = Len(Head(todo).args)
  BY <1>1, <1>2 DEF HasResult, Resolved
<1> HIDE DEF v, x
<1>7. /\ Names' = Placed(Names, x) /\ registered' = registered
      /\ \/ /\ retryPending' = retryPending
            /\ mem'[Self] = StoredFor(mem[Self], Names, x, v)
         \/ Self \in retryPending' /\ mem' = mem
  BY <1>4, <1>5, SetVariableMoves
<1>8. /\ Now'.names = Placed(Now.names, x) /\ Now'.shown = Now.shown /\ Now'.nap = Now.nap
      /\ \/ retryPending' = retryPending /\ Now'.mem = StoredFor(Now.mem, Now.names, x, v)
         \/ Self \in retryPending' /\ Now'.mem = Now.mem
  BY <1>1, <1>7, NowFields, NowFieldsNext
<1>9. Self \notin retryPending =>
         \A i \in DOMAIN values : i \in DOMAIN Head(todo).args /\ Head(todo).args[i].kind = "variable" =>
            values[i] = VariableIn(Now, Head(todo).args[i].name)
  BY <1>1, <1>2, CleanOperands
<1>10. /\ ~Violated(s) /\ Head(todo).op = "READ" => Head(todo).address + 2 <= VirtualBytes
       /\ Attempted(Command, committed, gaveUp, retryPending', Tail(todo), <<>>, Now', e)
  BY <1>1, <1>2, <1>3, <1>4, <1>6, <1>8, <1>9, AssignBeside DEF v, x
<1>11. s \in States
  BY <1>3 DEF Attempted
<1>12. e.violated = s.violated
  BY <1>1, <1>2, <1>10, <1>11, ViolatedEffect DEF Assigning
<1> HIDE DEF e
<1>13. DuringAttempt'
  <2>1. violated' = e.violated
    BY <1>1, <1>3, <1>12
  <2>2. Attempted(Command, committed, gaveUp, retryPending', todo', values', Now', e)
    BY <1>1, <1>10
  <2> QED
    BY <1>1, <2>1, <2>2, AttemptGoesOn
<1>14. Running'
  BY <1>1, <1>7, RunningStays DEF RefinementInv, Running
<1> QED
  BY <1>13, <1>14, AssignKeepsTable

\* READ reads the word, is skipped, or reads where there is no memory.
LEMMA ReadKeepsRefinement ==
  ASSUME AllCanBeRepeated, RefinementInv, ReadMemory
  PROVE  DuringAttempt' /\ TableRight' /\ Running'
<1>1. pc = "Execute" /\ todo # <<>> /\ Ins.op = "READ" /\ Resolved /\ Unmoved
      /\ table' = table /\ logs' = logs /\ nap' = nap
  BY DEF ReadMemory, At
<1>2. /\ Setting(Command, committed, Now)
      /\ Ins = Head(todo) /\ Ins \in Code /\ values \in Seq(Words) /\ todo \in Seq(Code)
      /\ Self \in registered
  BY <1>1, InAttempt
<1>3. PICK s : /\ Attempted(Command, committed, gaveUp, retryPending, todo, values, Now, s)
               /\ violated = s.violated
  BY <1>1, InAttempt
<1>4. DataTyped /\ Ins.address \in Nat
  BY <1>2, CodeFields DEF RefinementInv, ExecutionInv
<1> DEFINE a == Ins.address
<1>5. CASE Memory!Read(Self, a) /\ values' = FreshWord /\ UNCHANGED <<todo, violated>>
  <2>1. reply'.value = WordAt(a) /\ mem' = mem /\ retryPending' = retryPending
    BY <1>4, <1>5, ReadWord
  <2>2. a + 2 <= VirtualBytes /\ registered' = registered
    BY <1>5 DEF Memory!Read, Memory!InRange
  <2>3. Names' = Names /\ Now' = Now
    BY <1>1, <2>1, RememberedStays, NowStays
  <2>4. values = <<>>
    <3>1. Len(values) = Len(Ins.args)
      BY <1>1 DEF Resolved
    <3>2. Ins.args = <<>>
      BY <1>1, <1>2, CodeAssumption
    <3> QED
      BY <1>2, <3>1, <3>2
  <2> DEFINE w == WordIn(Now.mem, Head(todo).address)
  <2>5. reply'.value = w
    BY <1>2, <2>1, NowFields DEF WordAt, WordIn
  <2> HIDE DEF w
  <2>6. values' = <<w>>
    <3>1. values' = Append(<<>>, w)
      BY <1>5, <2>4, <2>5 DEF FreshWord
    <3> QED
      BY <3>1
  <2>7. Attempted(Command, committed, gaveUp, retryPending, todo, <<>>, Now, s)
    BY <1>3, <2>4
  <2>8. Attempted(Command, committed, gaveUp, retryPending, todo, <<w>>, Now, s)
    BY <1>1, <1>2, <2>2, <2>7, ReadBeside DEF w
  <2>9. DuringAttempt'
    <3>1. Attempted(Command, committed, gaveUp, retryPending', todo', values', Now', s)
      BY <1>5, <2>1, <2>3, <2>6, <2>8
    <3>2. violated' = s.violated
      BY <1>3, <1>5
    <3> QED
      BY <1>1, <3>1, <3>2, AttemptGoesOn
  <2>10. TableRight'
    <3>1. \A k \in Slot : Remembered(k) => Remembered(k)'
      BY <1>1, <2>1, RememberedStays
    <3>2. TableRight
      BY DEF RefinementInv
    <3>3. todo' = todo /\ violated' = violated
      BY <1>5
    <3> QED
      BY <1>1, <2>1, <2>3, <3>1, <3>2, <3>3, TableGoesOn
  <2>11. Running'
    BY <1>1, <1>5, <2>2, RunningStays DEF RefinementInv, Running
  <2> QED
    BY <2>9, <2>10, <2>11
<1>6. CASE Memory!Fault(Self, a) /\ Done /\ UNCHANGED violated
  <2>1. Self \in retryPending' /\ mem' = mem
    BY <1>6, FaultFlags
  <2>2. a + 2 <= VirtualBytes /\ registered' = registered
    BY <1>6 DEF Memory!Fault, Memory!InRange
  <2>3. Now' = Now
    BY <1>1, <2>1, RememberedStays, NowStays
  <2>4. todo' = Tail(todo) /\ values' = <<>> /\ violated' = violated
    BY <1>6 DEF Done
  <2> DEFINE e == Sequential!Effect(Head(todo), s)
  <2>5. Attempted(Command, committed, gaveUp, retryPending', Tail(todo), <<>>, Now, e)
    BY <1>1, <1>2, <1>3, <2>1, <2>2, SkipBeside
  <2>6. s \in States
    BY <1>3 DEF Attempted
  <2>7. e.violated = s.violated
    BY <1>1, <1>2, <2>2, <2>6, ViolatedEffect
  <2> HIDE DEF e
  <2>8. DuringAttempt'
    <3>1. Attempted(Command, committed, gaveUp, retryPending', todo', values', Now', e)
      BY <2>3, <2>4, <2>5
    <3>2. violated' = e.violated
      BY <1>3, <2>4, <2>7
    <3> QED
      BY <1>1, <3>1, <3>2, AttemptGoesOn
  <2>9. TableRight'
    <3>1. violated' = FALSE => violated = FALSE
      BY <2>4
    <3> QED
      BY <1>1, <2>1, <2>4, <3>1, ReturnKeepsTable
  <2>10. Running'
    BY <1>1, <2>2, <2>4, RunningStays DEF RefinementInv, Running
  <2> QED
    BY <2>8, <2>9, <2>10
<1>7. CASE Memory!Violate(Self, a) /\ Done /\ violated' = TRUE
  <2>1. mem' = mem /\ registered' = registered /\ retryPending' = retryPending
        /\ ~(a + 2 <= VirtualBytes)
    BY <1>2, <1>7 DEF Memory!Violate, Memory!InRange
  <2> QED
    BY <1>1, <1>7, <2>1, ViolationKeepsRefinement
<1> QED
  BY <1>5, <1>6, <1>7 DEF ReadMemory

\* A WRITE that leaves the slots alone.
LEMMA WriteRemembers ==
  ASSUME DataTyped, NEW a \in Nat, NEW v \in Words, Memory!Write(Self, a, v), table' = table,
         {a, a + 1} \cap SlotBytes = {}, NEW k \in Slot, Remembered(k)
  PROVE  Remembered(k)'
<1>1. mem'[Self] = Stored(mem[Self], a, v) /\ a + 2 <= VirtualBytes
  BY WrittenStored
<1>2. a \in Address /\ a + 1 \in Address
  BY <1>1, Fitting
<1>3. SlotAddress(k) \in Address /\ SlotAddress(k) + 1 \in Address
  BY SlotInMemory
<1>4. /\ SlotAddress(k) # a /\ SlotAddress(k) # a + 1
      /\ SlotAddress(k) + 1 # a /\ SlotAddress(k) + 1 # a + 1
  BY SlotBytesOf DEF WordBytes
<1>5. mem[Self] \in [Address -> 0..255]
  BY DEF DataTyped
<1>6. \A b \in Address : b # a /\ b # a + 1 => mem'[Self][b] = mem[Self][b]
  <2> DEFINE m == mem[Self]
  <2>1. m \in [Address -> 0..255]
    BY <1>5
  <2> HIDE DEF m
  <2>2. \A b \in Address : b # a /\ b # a + 1 => Stored(m, a, v)[b] = m[b]
    BY <1>2, <2>1, StoredTyped
  <2> QED
    BY <1>1, <2>2 DEF m
<1>7. mem'[Self][SlotAddress(k)] = mem[Self][SlotAddress(k)]
      /\ mem'[Self][SlotAddress(k) + 1] = mem[Self][SlotAddress(k) + 1]
  BY <1>3, <1>4, <1>6
<1> QED
  BY <1>7 DEF Remembered, WordAt

LEMMA WriteKeepsRefinement ==
  ASSUME AllCanBeRepeated, RefinementInv, WriteMemory
  PROVE  DuringAttempt' /\ TableRight' /\ Running'
<1>1. pc = "Execute" /\ todo # <<>> /\ Ins.op = "WRITE" /\ Resolved /\ Unmoved /\ Done
      /\ table' = table /\ logs' = logs /\ nap' = nap
  BY DEF WriteMemory, At
<1>2. /\ Setting(Command, committed, Now)
      /\ Ins = Head(todo) /\ Ins \in Code /\ Ins \in Parts[Command]
      /\ values \in Seq(Words) /\ todo \in Seq(Code) /\ Self \in registered
  BY <1>1, InAttempt
<1>3. PICK s : /\ Attempted(Command, committed, gaveUp, retryPending, todo, values, Now, s)
               /\ violated = s.violated
  BY <1>1, InAttempt
<1>4. DataTyped /\ Ins.address \in Nat
  BY <1>2, CodeFields DEF RefinementInv, ExecutionInv
<1>5. todo' = Tail(todo) /\ values' = <<>>
  BY <1>1 DEF Done
<1> DEFINE a == Ins.address
           v == values[1]
<1>6. v \in Words
  <2>1. Len(values) >= Arity("WRITE")
    BY <1>1, ResolvedOperands DEF RefinementInv
  <2>2. Arity("WRITE") = 1
    BY DEF Arity
  <2> QED
    BY <1>2, <2>1, <2>2, FirstValue
<1>7. CASE Memory!Violate(Self, a) /\ violated' = TRUE
  <2>1. mem' = mem /\ registered' = registered /\ retryPending' = retryPending
        /\ ~(a + 2 <= VirtualBytes)
    BY <1>2, <1>7 DEF Memory!Violate, Memory!InRange
  <2> QED
    BY <1>1, <1>7, <2>1, ViolationKeepsRefinement
<1>8. CASE (Memory!Write(Self, a, v) \/ Memory!Fault(Self, a)) /\ violated' = violated
  <2>1. a + 2 <= VirtualBytes /\ registered' = registered
        /\ (retryPending' = retryPending \/ Self \in retryPending')
    BY <1>8 DEF Memory!Write, Memory!Fault, Memory!InRange
  <2>2. Names' = Names
    BY <1>1 DEF Names
  <2> HIDE DEF v
  <2>3. \/ retryPending' = retryPending /\ mem'[Self] = Stored(mem[Self], a, v)
        \/ Self \in retryPending' /\ mem' = mem
    BY <1>4, <1>6, <1>8, WrittenStored, FaultFlags
  <2>4. /\ Now'.names = Now.names /\ Now'.shown = Now.shown /\ Now'.nap = Now.nap
        /\ \/ retryPending' = retryPending /\ Now'.mem = Stored(Now.mem, Head(todo).address, v)
           \/ Self \in retryPending' /\ Now'.mem = Now.mem
    BY <1>1, <1>2, <2>2, <2>3, NowFields, NowFieldsNext
  <2>5. Len(values) = Len(Head(todo).args)
    BY <1>1, <1>2 DEF Resolved
  <2>6. DOMAIN values = DOMAIN Head(todo).args
    BY <1>2, <2>5, CodeFields
  <2>7. Self \notin retryPending =>
           \A i \in DOMAIN values : Head(todo).args[i].kind = "variable" =>
              values[i] = VariableIn(Now, Head(todo).args[i].name)
    BY <1>1, <1>2, <2>6, CleanOperands
  <2> DEFINE e == Sequential!Effect(Head(todo), s)
  <2>8. Attempted(Command, committed, gaveUp, retryPending', Tail(todo), <<>>, Now', e)
    BY <1>1, <1>2, <1>3, <1>6, <2>1, <2>4, <2>5, <2>7, WriteBeside DEF v
  <2>9. s \in States
    BY <1>3 DEF Attempted
  <2>10. e.violated = s.violated
    BY <1>1, <1>2, <2>1, <2>9, ViolatedEffect
  <2> HIDE DEF e
  <2>11. DuringAttempt'
    <3>1. Attempted(Command, committed, gaveUp, retryPending', todo', values', Now', e)
      BY <1>5, <2>8
    <3>2. violated' = e.violated
      BY <1>3, <1>8, <2>10
    <3> QED
      BY <1>1, <3>1, <3>2, AttemptGoesOn
  <2>12. ASSUME gaveUp = {}, WrittenIn(PartsIn(program)) \cap SlotBytes = {}
         PROVE  \A k \in Slot : Remembered(k) => Remembered(k)'
    <3>1. HasRemainingCommands /\ ThreadTyped /\ Running
      BY <1>1 DEF RefinementInv, ExecutionInv, ThreadTyped
    <3>2. Ins \in PartsIn(program)
      BY <1>2, <3>1, InCommand
    <3>3. {a, a + 1} \cap SlotBytes = {}
      BY <1>1, <2>12, <3>2, WrittenByParts DEF WordBytes
    <3>4. CASE Memory!Fault(Self, a)
      BY <1>1, <3>4, FaultFlags, RememberedStays
    <3>5. CASE Memory!Write(Self, a, v)
      BY <1>1, <1>4, <1>6, <3>3, <3>5, WriteRemembers
    <3> QED
      BY <1>8, <3>4, <3>5 DEF v
  <2>13. TableRight'
    <3>1. Pending(todo) = {Ins} \cup Pending(todo')
      BY <1>1, <1>2, <1>5, PendingReturned
    <3>2. \A i \in Pending(todo) : i.op \in Assigning => i \in Pending(todo')
      BY <1>1, <3>1 DEF Assigning
    <3>3. TableRight
      BY DEF RefinementInv
    <3>4. Self \notin retryPending' => Self \notin retryPending
      BY <2>1
    <3>5. \A k \in Slot : Names'[k] = Names[k]
      BY <2>2
    <3>6. Self \notin retryPending' /\ violated' = FALSE =>
             /\ Self \notin retryPending /\ violated = FALSE
             /\ \A i \in Pending(todo) : i.op \in Assigning => i \in Pending(todo')
      BY <1>8, <3>2, <3>4
    <3> QED
      BY <1>1, <2>12, <3>3, <3>5, <3>6, TableGoesOn
  <2>14. Running'
    BY <1>1, <1>8, <2>1, RunningStays DEF RefinementInv, Running
  <2> QED
    BY <2>11, <2>13, <2>14
<1> QED
  BY <1>7, <1>8 DEF WriteMemory

\* PRINT, SLEEP and a null line do not touch the memory.
LEMMA OthersKeepRefinement ==
  ASSUME AllCanBeRepeated, RefinementInv, PrintMessage \/ SleepForTicks \/ SkipNull
  PROVE  DuringAttempt' /\ TableRight' /\ Running'
<1>1. pc = "Execute" /\ todo # <<>> /\ Ins.op \in {"PRINT", "SLEEP", "NULL"} /\ Unmoved /\ Done
      /\ table' = table /\ violated' = violated /\ UNCHANGED memory
      /\ (Ins.op # "NULL" => Len(values) = Len(Ins.args))
  BY DEF PrintMessage, SleepForTicks, SkipNull, At, Resolved, IsInstruction
<1>2. /\ Setting(Command, committed, Now)
      /\ Ins = Head(todo) /\ Ins \in Code /\ values \in Seq(Words) /\ todo \in Seq(Code)
  BY <1>1, InAttempt
<1>3. PICK s : /\ Attempted(Command, committed, gaveUp, retryPending, todo, values, Now, s)
               /\ violated = s.violated
  BY <1>1, InAttempt
<1>4. Names' = Names /\ todo' = Tail(todo) /\ values' = <<>>
  BY <1>1 DEF Done, Names
<1>5. /\ Now'.names = Now.names /\ Now'.mem = Now.mem
      /\ (logs' = logs => Now'.shown = Now.shown) /\ (nap' = nap => Now'.nap = Now.nap)
  BY <1>1, <1>4, NowFields, NowFieldsNext
<1>6. ASSUME Ins.op # "NULL", Self \notin retryPending
      PROVE  \A i \in DOMAIN values : Head(todo).args[i].kind = "variable" =>
                values[i] = VariableIn(Now, Head(todo).args[i].name)
  <2>1. DOMAIN values = DOMAIN Ins.args
    BY <1>1, <1>2, <1>6, CodeFields
  <2> QED
    BY <1>1, <1>2, <1>6, <2>1, CleanOperands
<1> DEFINE e == Sequential!Effect(Head(todo), s)
<1>7. /\ Attempted(Command, committed, gaveUp, retryPending, Tail(todo), <<>>, Now', e)
      /\ logs' \in Seq(Seq(Words))
  <2>1. logs \in Seq(Seq(Words))
    BY DEF RefinementInv, Running
  <2>2. CASE PrintMessage
    <3>1. logs' = Append(logs, values) /\ nap' = nap /\ Ins.op = "PRINT"
      BY <2>2 DEF PrintMessage, At
    <3> DEFINE W == Seq(Words)
    <3>2. values \in W /\ logs \in Seq(W)
      BY <1>2, <2>1
    <3> HIDE DEF W
    <3>3. logs' \in Seq(W) /\ logs' # <<>> /\ logs'[Len(logs')] = values
      BY <3>1, <3>2
    <3>4. Now'.shown = values
      BY <3>3, NowFieldsNext
    <3>5. logs' \in Seq(Seq(Words))
      BY <3>3 DEF W
    <3>6. Attempted(Command, committed, gaveUp, retryPending, Tail(todo), <<>>, Now', e)
      BY <1>1, <1>2, <1>3, <1>5, <1>6, <3>1, <3>4, PrintBeside
    <3> QED
      BY <3>5, <3>6
  <2>3. CASE SleepForTicks
    <3>1. logs' = logs /\ nap' = SleepAfter(nap, values[1]) /\ Ins.op = "SLEEP"
      BY <2>3 DEF SleepForTicks, At
    <3>2. Len(values) >= Arity("SLEEP")
      BY <1>1, <2>3, <3>1, ResolvedOperands DEF RefinementInv, SleepForTicks
    <3>3. Arity("SLEEP") = 1
      BY DEF Arity
    <3>4. values # <<>>
      BY <1>2, <3>2, <3>3
    <3>5. Now'.nap = SleepAfter(Now.nap, values[1]) /\ Now'.shown = Now.shown
      BY <1>5, <3>1, NowFields, NowFieldsNext
    <3>6. Attempted(Command, committed, gaveUp, retryPending, Tail(todo), <<>>, Now', e)
      BY <1>1, <1>2, <1>3, <1>5, <1>6, <3>1, <3>4, <3>5, SleepBeside
    <3> QED
      BY <2>1, <3>1, <3>6
  <2>4. CASE SkipNull
    <3>1. logs' = logs /\ nap' = nap /\ Ins.op = "NULL"
      BY <2>4 DEF SkipNull, IsInstruction
    <3>2. Now' = Now
      BY <1>1, <1>4, <3>1, NowStays
    <3>3. Attempted(Command, committed, gaveUp, retryPending, Tail(todo), <<>>, Now, e)
      BY <1>1, <1>2, <1>3, <3>1, NullBeside
    <3> QED
      BY <2>1, <3>1, <3>2, <3>3
  <2> QED
    BY <2>2, <2>3, <2>4
<1>8. s \in States
  BY <1>3 DEF Attempted
<1>9. e.violated = s.violated
  BY <1>1, <1>2, <1>8, ViolatedEffect
<1> HIDE DEF e
<1>10. DuringAttempt'
  <2>1. Attempted(Command, committed, gaveUp, retryPending', todo', values', Now', e)
    BY <1>1, <1>4, <1>7
  <2>2. violated' = e.violated
    BY <1>1, <1>3, <1>9
  <2> QED
    BY <1>1, <2>1, <2>2, AttemptGoesOn
<1>11. TableRight'
  <2>1. Ins.op # "FOR" /\ Ins.op \notin Assigning
    BY <1>1 DEF Assigning
  <2>2. violated' = FALSE => violated = FALSE
    BY <1>1
  <2> QED
    BY <1>1, <1>4, <2>1, <2>2, ReturnKeepsTable
<1>12. Running'
  <2>1. violated' \in BOOLEAN /\ registered' = registered
    BY <1>1 DEF RefinementInv, Running
  <2> QED
    BY <1>1, <1>7, <2>1, RunningStays DEF RefinementInv
<1> QED
  BY <1>10, <1>11, <1>12

LEMMA ForKeepsRefinement ==
  ASSUME AllCanBeRepeated, RefinementInv, UnrollFor
  PROVE  DuringAttempt' /\ TableRight' /\ Running'
<1>1. pc = "Execute" /\ todo # <<>> /\ Ins.op = "FOR" /\ Unmoved
      /\ Len(values) = Len(Ins.args) /\ values' = <<>>
      /\ todo' = Unrolled(Ins.body, values[1]) \o Tail(todo)
      /\ UNCHANGED effects /\ UNCHANGED memory
  BY DEF UnrollFor, At, Resolved
<1>2. /\ Setting(Command, committed, Now)
      /\ Ins = Head(todo) /\ Ins \in Code /\ values \in Seq(Words)
  BY <1>1, InAttempt
<1>3. PICK s : /\ Attempted(Command, committed, gaveUp, retryPending, todo, values, Now, s)
               /\ violated = s.violated
  BY <1>1, InAttempt
<1>4. table' = table /\ mem' = mem /\ Now' = Now /\ registered' = registered
      /\ retryPending' = retryPending /\ violated' = violated /\ logs' = logs
  BY <1>1, RememberedStays, NowStays
<1>5. /\ Attempted(Command, committed, gaveUp, retryPending, todo', <<>>, Now, s)
      /\ Pending(todo) \subseteq {Ins} \cup Pending(todo')
  BY <1>1, <1>2, <1>3, ForBeside
<1>6. DuringAttempt'
  <2>1. Attempted(Command, committed, gaveUp, retryPending', todo', values', Now', s)
    BY <1>1, <1>4, <1>5
  <2> QED
    BY <1>1, <1>3, <1>4, <2>1, AttemptGoesOn
<1>7. TableRight'
  <2>1. \A i \in Pending(todo) : i.op \in Assigning => i \in Pending(todo')
    BY <1>1, <1>5 DEF Assigning
  <2>2. Names' = Names /\ \A k \in Slot : Remembered(k) => Remembered(k)'
    BY <1>4, RememberedStays
  <2>3. TableRight
    BY DEF RefinementInv
  <2> QED
    BY <1>1, <1>4, <2>1, <2>2, <2>3, TableGoesOn
<1>8. Running'
  BY <1>1, <1>4, RunningStays DEF RefinementInv, Running
<1> QED
  BY <1>6, <1>7, <1>8

-----------------------------------------------------------------------------
(***************************************************************************)
(* The steps around an attempt keep the invariant.                         *)
(***************************************************************************)
LEMMA BytesOfZero == Memory!Word(0, 0) = 0
BY DEF Memory!Word

LEMMA InitMemory ==
  ASSUME Init
  PROVE  /\ mem[Self] = [a \in Address |-> 0] /\ Names = [k \in Slot |-> ""]
         /\ logs = <<>> /\ nap = 0 /\ committed = Now
         /\ \A k \in Slot : Remembered(k)
<1>1. mem = [p \in {Self} |-> [a \in Address |-> 0]]
  BY DEF Init, Memory!Init, Memory!Zeros, Address, Memory!Address
<1>2. table = [k \in Slot |-> [name |-> "", value |-> 0]] /\ committed = Now
      /\ logs = <<>> /\ nap = 0
  BY DEF Init, Now
<1>3. Names = [k \in Slot |-> ""] /\ \A k \in Slot : table[k].value = 0
  BY <1>2 DEF Names
<1>4. mem[Self] = [a \in Address |-> 0]
  BY <1>1
<1>5. ASSUME NEW k \in Slot PROVE Remembered(k)
  <2>1. SlotAddress(k) \in Address /\ SlotAddress(k) + 1 \in Address
    BY SlotInMemory
  <2>2. mem[Self][SlotAddress(k)] = 0 /\ mem[Self][SlotAddress(k) + 1] = 0
    BY <1>4, <2>1
  <2>3. WordAt(SlotAddress(k)) = 0
    BY <2>2, BytesOfZero DEF WordAt
  <2> QED
    BY <1>3, <2>3 DEF Remembered
<1> QED
  BY <1>2, <1>3, <1>4, <1>5

LEMMA InitRefinementInv == Init => RefinementInv
<1> SUFFICES ASSUME Init PROVE RefinementInv
  OBVIOUS
<1>1. ExecutionInv
  BY InitExecutionInv
<1>2. pc = "Create" /\ violated = FALSE /\ program \in Programs
  BY DEF Init
<1>3. logs \in Seq(Seq(Words))
  BY EmptyTyped DEF Init
<1>4. Now \in States
  BY <1>1, <1>3, NamesTyped, VisibleTyped DEF ExecutionInv, DataTyped, Now
<1>5. Running
  BY <1>2, <1>3, <1>4, InitMemory, NowFields DEF Running
<1>6. BetweenCommands /\ BeforeAttempt /\ DuringAttempt
  BY <1>2, InitMemory DEF BetweenCommands, BeforeAttempt, DuringAttempt
<1>7. TableRight
  BY <1>2, InitMemory DEF TableRight
<1> QED
  BY <1>1, <1>5, <1>6, <1>7 DEF RefinementInv

\* The conjuncts of the invariant that a step may disturb.
Refined == Running /\ BetweenCommands /\ BeforeAttempt /\ DuringAttempt /\ TableRight

LEMMA RegisterKeepsRefinement ==
  ASSUME RefinementInv, RegisterProcess
  PROVE  Refined'
<1>1. pc = "Create" /\ pc' \in {"Next", "Refused"}
      /\ (pc' = "Next" => Self \in registered')
      /\ UNCHANGED <<program, executed, effects, auxiliary, mem, retryPending>>
  BY DEF RegisterProcess, Memory!Register, Memory!Outcome, Memory!Result
<1>2. Names' = Names /\ Now' = Now /\ \A k \in Slot : Remembered(k) => Remembered(k)'
  BY <1>1, RememberedStays, NowStays
<1>3. Running'
  BY <1>1 DEF RefinementInv, Running
<1>4. BetweenCommands' /\ BeforeAttempt' /\ DuringAttempt'
  BY <1>1, <1>2 DEF RefinementInv, BetweenCommands, BeforeAttempt, DuringAttempt
<1>5. TableRight'
  <2> SUFFICES ASSUME gaveUp = {}, WrittenIn(PartsIn(program)) \cap SlotBytes = {}, NEW k \in Slot
               PROVE  Remembered(k)'
    BY <1>1 DEF TableRight
  <2>1. Remembered(k)
    BY <1>1 DEF RefinementInv, TableRight
  <2> QED
    BY <1>2, <2>1
<1> QED
  BY <1>3, <1>4, <1>5 DEF Refined

LEMMA BeginKeepsRefinement ==
  ASSUME AllCanBeRepeated, RefinementInv, ExecuteNextCommand
  PROVE  Refined'
<1>1. pc = "Next" /\ pc' = "Reset" /\ HasRemainingCommands /\ nap' = 0
      /\ UNCHANGED <<program, executed, table, logs, violated, auxiliary, memory>>
  BY DEF ExecuteNextCommand
<1>2. Names' = Names /\ mem' = mem /\ logs' = logs
      /\ \A k \in Slot : Remembered(k) => Remembered(k)'
  BY <1>1, RememberedStays
<1>3. committed = Now /\ violated = FALSE
  BY <1>1 DEF RefinementInv, BetweenCommands
<1>4. /\ Now'.names = committed.names /\ Now'.mem = committed.mem
      /\ Now'.shown = committed.shown /\ Now'.nap = 0
  BY <1>1, <1>2, <1>3, NowFields, NowFieldsNext
<1>5. Now' \in States
  <2>1. 0 \in 0..LongestSleep
    BY Numbers
  <2>2. DataTyped /\ logs \in Seq(Seq(Words))
    BY DEF RefinementInv, ExecutionInv, Running
  <2>3. Visible(mem[Self], Names, logs, 0) \in States
    BY <2>1, <2>2, NamesTyped, VisibleTyped DEF DataTyped
  <2> QED
    BY <1>1, <1>2, <2>3 DEF Now
<1>6. Setting(Command, committed, Now)
  BY <1>1, InSetting
<1>7. Setting(Command, committed, Now')
  BY <1>3, <1>4, <1>5, <1>6 DEF Setting
<1>8. /\ Framed(Parts[Command], committed, gaveUp, Now')
      /\ Along(Parts[Command], committed.names, Sequential!Begin(Command, committed), Now'.names)
  BY <1>4, <1>7, CommandBegins
<1>9. Command' = Command /\ committed' = committed /\ gaveUp' = gaveUp
  BY <1>1 DEF Command
<1>10. BetweenCommands' /\ BeforeAttempt' /\ DuringAttempt'
  BY <1>1, <1>3, <1>8, <1>9 DEF BetweenCommands, BeforeAttempt, DuringAttempt
<1>11. Running'
  BY <1>1 DEF RefinementInv, Running
<1>12. TableRight'
  <2> SUFFICES ASSUME gaveUp = {}, WrittenIn(PartsIn(program)) \cap SlotBytes = {}, NEW k \in Slot
               PROVE  Remembered(k)'
    BY <1>1 DEF TableRight
  <2>1. Remembered(k)
    BY <1>1 DEF RefinementInv, TableRight
  <2> QED
    BY <1>2, <2>1
<1> QED
  BY <1>10, <1>11, <1>12 DEF Refined

LEMMA ResetKeepsRefinement ==
  ASSUME AllCanBeRepeated, RefinementInv, ResetFlag
  PROVE  Refined'
<1>1. pc = "Reset" /\ pc' = "Execute" /\ todo' = <<Command>> /\ values' = <<>>
      /\ UNCHANGED <<program, executed, effects, auxiliary, mem, registered>>
  BY DEF ResetFlag, Memory!ResetFlag
<1>2. HasRemainingCommands
  BY <1>1 DEF RefinementInv, ExecutionInv, ThreadTyped
<1>3. Names' = Names /\ Now' = Now /\ \A k \in Slot : Remembered(k) => Remembered(k)'
  BY <1>1, RememberedStays, NowStays
<1>4. Setting(Command, committed, Now)
  BY <1>2, InSetting
<1>5. /\ violated = FALSE
      /\ Framed(Parts[Command], committed, gaveUp, Now)
      /\ Along(Parts[Command], committed.names, Sequential!Begin(Command, committed), Now.names)
  BY <1>1 DEF RefinementInv, BeforeAttempt
<1> DEFINE s == [committed EXCEPT !.nap = 0]
<1>6. /\ s.violated = committed.violated
      /\ Attempted(Command, committed, gaveUp, retryPending', <<Command>>, <<>>, Now, s)
  BY <1>4, <1>5, AttemptBegins
<1> HIDE DEF s
<1>7. Command' = Command /\ committed' = committed /\ gaveUp' = gaveUp
  BY <1>1 DEF Command
<1>8. DuringAttempt'
  <2>1. committed.violated = FALSE
    BY DEF RefinementInv, Running
  <2>2. violated' = s.violated
    BY <1>1, <1>5, <1>6, <2>1
  <2>3. Attempted(Command, committed, gaveUp, retryPending', todo', values', Now', s)
    BY <1>1, <1>3, <1>6
  <2> QED
    BY <1>7, <2>2, <2>3 DEF DuringAttempt
<1>9. BetweenCommands' /\ BeforeAttempt'
  BY <1>1 DEF BetweenCommands, BeforeAttempt
<1>10. Running'
  BY <1>1 DEF RefinementInv, Running
<1>11. TableRight'
  <2>1. Pending(todo') = Parts[Command]
    BY <1>1, <1>4, PendingEnds DEF Setting
  <2> SUFFICES ASSUME gaveUp = {}, WrittenIn(PartsIn(program)) \cap SlotBytes = {}, NEW k \in Slot
               PROVE  /\ Remembered(k)' \/ AssignedBy(Parts[Command], k)'
                      /\ Remembered(k)' \/ AssignedBy(Pending(todo), k)'
    BY <1>1 DEF TableRight
  <2>2. Remembered(k) \/ AssignedBy(Parts[Command], k)
    BY <1>1 DEF RefinementInv, TableRight
  <2>3. AssignedBy(Parts[Command], k) =>
           AssignedBy(Parts[Command], k)' /\ AssignedBy(Pending(todo), k)'
    BY <1>3, <1>7, <2>1 DEF AssignedBy
  <2> QED
    BY <1>3, <2>2, <2>3
<1> QED
  BY <1>8, <1>9, <1>10, <1>11 DEF Refined

LEMMA StopKeepsRefinement ==
  ASSUME RefinementInv, StopAfterViolation
  PROVE  Refined'
<1>1. pc' = "Stopped" /\ UNCHANGED <<program, executed, effects, auxiliary, memory>>
  BY DEF StopAfterViolation
<1>2. Running'
  BY <1>1 DEF RefinementInv, Running
<1>3. BetweenCommands' /\ BeforeAttempt' /\ DuringAttempt'
  BY <1>1 DEF BetweenCommands, BeforeAttempt, DuringAttempt
<1>4. TableRight'
  BY <1>1 DEF TableRight
<1> QED
  BY <1>2, <1>3, <1>4 DEF Refined

\* The attempt that has returned.
LEMMA AttemptReturned ==
  ASSUME AllCanBeRepeated, RefinementInv, pc = "Execute", todo = <<>>
  PROVE  /\ HasRemainingCommands /\ Setting(Command, committed, Now)
         /\ \E s : /\ Attempted(Command, committed, gaveUp, retryPending, <<>>, values, Now, s)
                   /\ violated = s.violated /\ s \in States
                   /\ Sequential!After(Command, committed) = s
<1>1. HasRemainingCommands
  BY DEF RefinementInv, ExecutionInv, ThreadTyped
<1>2. Setting(Command, committed, Now)
  BY <1>1, InSetting
<1>3. PICK s : /\ Attempted(Command, committed, gaveUp, retryPending, todo, values, Now, s)
               /\ violated = s.violated
  BY DEF RefinementInv, DuringAttempt
<1>4. s \in States
  BY <1>3 DEF Attempted
<1>5. Sequential!After(Command, committed) = s
  BY <1>2, <1>3, AttemptReturns
<1> QED
  BY <1>1, <1>2, <1>3, <1>4, <1>5

LEMMA ConsumeKeepsRefinement ==
  ASSUME AllCanBeRepeated, RefinementInv, ConsumeFlag
  PROVE  Refined'
<1>1. pc = "Execute" /\ todo = <<>> /\ ~violated
      /\ UNCHANGED <<program, todo, values, effects, mem, registered>>
      /\ reply'.result = IF Self \in retryPending THEN "True" ELSE "False"
  BY DEF ConsumeFlag, ExecuteReturns, Memory!ConsumeFlag, Memory!Outcome, Memory!Result
<1>2. Setting(Command, committed, Now)
  BY <1>1, AttemptReturned
<1>3. PICK s : /\ Attempted(Command, committed, gaveUp, retryPending, <<>>, values, Now, s)
               /\ violated = s.violated
  BY <1>1, AttemptReturned
<1>4. violated = FALSE /\ violated' = FALSE
  BY <1>1 DEF RefinementInv, Running
<1>5. ~Violated(s)
  BY <1>3, <1>4 DEF Violated
<1>6. Names' = Names /\ Now' = Now /\ \A k \in Slot : Remembered(k) => Remembered(k)'
  BY <1>1, RememberedStays, NowStays
<1>7. CASE pc' = "Reset" /\ UNCHANGED <<executed, auxiliary>>
  <2>1. Command' = Command /\ committed' = committed /\ gaveUp' = gaveUp
    BY <1>1, <1>7 DEF Command
  <2>2. /\ Framed(Parts[Command], committed, gaveUp, Now)
        /\ Along(Parts[Command], committed.names, Sequential!Begin(Command, committed), Now.names)
    BY <1>2, <1>3, <1>5, AttemptRepeated
  <2>3. BetweenCommands' /\ BeforeAttempt' /\ DuringAttempt'
    BY <1>4, <1>6, <1>7, <2>1, <2>2 DEF BetweenCommands, BeforeAttempt, DuringAttempt
  <2>4. Running'
    BY <1>1, <1>7 DEF RefinementInv, Running
  <2>5. TableRight'
    <3> SUFFICES ASSUME gaveUp = {}, WrittenIn(PartsIn(program)) \cap SlotBytes = {}, NEW k \in Slot
                 PROVE  Remembered(k)' \/ AssignedBy(Parts[Command], k)'
      BY <1>1, <1>7, <2>1 DEF TableRight
    <3>1. Remembered(k) \/ AssignedBy(Parts[Command], k)
      BY <1>1 DEF RefinementInv, TableRight
    <3>2. AssignedBy(Parts[Command], k) => AssignedBy(Parts[Command], k)'
      BY <1>6, <2>1 DEF AssignedBy
    <3> QED
      BY <1>6, <3>1, <3>2
  <2> QED
    BY <2>3, <2>4, <2>5 DEF Refined
<1>8. CASE /\ pc' = "Next" /\ committed' = Visible(mem[Self], Names, logs, nap)
           /\ gaveUp' = IF reply'.result = "True" THEN gaveUp \cup {executed + 1} ELSE gaveUp
  <2>1. committed' = Now
    BY <1>8 DEF Now
  <2>2. Now \in States /\ Now.violated = FALSE
    BY NowTyped, NowFields DEF RefinementInv, ExecutionInv
  <2>3. BetweenCommands' /\ BeforeAttempt' /\ DuringAttempt'
    BY <1>4, <1>6, <1>8, <2>1 DEF BetweenCommands, BeforeAttempt, DuringAttempt
  <2>4. Running'
    BY <1>1, <1>8, <2>1, <2>2 DEF RefinementInv, Running
  <2>5. TableRight'
    <3> SUFFICES ASSUME gaveUp' = {}, WrittenIn(PartsIn(program)) \cap SlotBytes = {}, NEW k \in Slot
                 PROVE  Remembered(k)'
      BY <1>1, <1>8 DEF TableRight
    <3>1. reply'.result # "True" /\ gaveUp = {}
      BY <1>8
    <3>2. Self \notin retryPending
      BY <1>1, <3>1
    <3>3. Remembered(k) \/ AssignedBy(Pending(todo), k)
      BY <1>1, <1>4, <3>1, <3>2 DEF RefinementInv, TableRight
    <3>4. Pending(todo) = {}
      BY <1>1, <1>2, PendingEnds DEF Setting
    <3>5. Remembered(k)
      BY <3>3, <3>4 DEF AssignedBy
    <3> QED
      BY <1>6, <3>5
  <2> QED
    BY <2>3, <2>4, <2>5 DEF Refined
<1> QED
  BY <1>7, <1>8 DEF ConsumeFlag

LEMMA NextRefinementInv ==
  ASSUME AllCanBeRepeated, RefinementInv, [Next]_vars
  PROVE  RefinementInv'
<1>1. ExecutionInv'
  BY NextExecutionInv DEF RefinementInv
<1>2. CASE Attempt
  <2>1. DuringAttempt' /\ TableRight' /\ Running'
    BY <1>2, ResolveKeepsRefinement, AssignKeepsRefinement, RejectKeepsRefinement,
       ReadKeepsRefinement, WriteKeepsRefinement, OthersKeepRefinement, ForKeepsRefinement
       DEF Attempt
  <2>2. pc = "Execute" /\ pc' = pc
    BY <1>2 DEF Attempt, ResolveOperand, AssignResult, RejectAddress, ReadMemory, WriteMemory,
       PrintMessage, SleepForTicks, UnrollFor, SkipNull, At, Unmoved
  <2>3. BetweenCommands' /\ BeforeAttempt'
    BY <2>2 DEF BetweenCommands, BeforeAttempt
  <2> QED
    BY <1>1, <2>1, <2>3 DEF RefinementInv
<1>3. CASE UNCHANGED vars
  <2>1. UNCHANGED <<program, executed, attempt, pc, todo, values, table, logs, nap, violated,
                    gaveUp, committed, mem, registered, retryPending>>
    BY <1>3 DEF vars
  <2>2. Names' = Names /\ Now' = Now /\ Command' = Command
        /\ \A k \in Slot : Remembered(k) => Remembered(k)'
    BY <2>1, RememberedStays, NowStays DEF Command
  <2>3. Running' /\ BetweenCommands' /\ BeforeAttempt' /\ DuringAttempt'
    BY <2>1, <2>2 DEF RefinementInv, Running, BetweenCommands, BeforeAttempt, DuringAttempt
  <2>4. TableRight'
    <3>1. TableRight
      BY DEF RefinementInv
    <3>2. \A k \in Slot : Remembered(k)' = Remembered(k)
      BY <2>1, <2>2 DEF Remembered, WordAt
    <3>3. \A k \in Slot : /\ AssignedBy(Parts[Command], k) => AssignedBy(Parts[Command], k)'
                          /\ AssignedBy(Pending(todo), k) => AssignedBy(Pending(todo), k)'
      BY <2>1, <2>2 DEF AssignedBy
    <3> QED
      BY <2>1, <2>2, <3>1, <3>3 DEF TableRight
  <2> QED
    BY <1>1, <2>3, <2>4 DEF RefinementInv
<1>4. CASE RegisterProcess \/ ExecuteNextCommand \/ ResetFlag \/ StopAfterViolation \/ ConsumeFlag
  <2>1. Refined'
    BY <1>4, RegisterKeepsRefinement, BeginKeepsRefinement, ResetKeepsRefinement,
       StopKeepsRefinement, ConsumeKeepsRefinement
  <2> QED
    BY <1>1, <2>1 DEF Refined, RefinementInv
<1> QED
  BY <1>2, <1>3, <1>4 DEF Next, Rest

-----------------------------------------------------------------------------
(***************************************************************************)
(* Every step is one of the interpreter's, or none.                        *)
(***************************************************************************)

\* States that differ in the sleep asked for only.
LEMMA NapReplaced ==
  ASSUME NEW M, NEW N, NEW L, NEW K, NEW B,
         NEW s \in [mem : M, names : N, shown : L, nap : K, violated : B],
         NEW n \in [mem : M, names : N, shown : L, nap : K, violated : B],
         n.mem = s.mem, n.names = s.names, n.shown = s.shown, n.violated = s.violated
  PROVE  n = [s EXCEPT !.nap = n.nap]
OBVIOUS

LEMMA NapApart ==
  ASSUME NEW s \in States, NEW n \in States,
         n.mem = s.mem, n.names = s.names, n.shown = s.shown, n.violated = s.violated
  PROVE  n = [s EXCEPT !.nap = n.nap] /\ n.nap \in 0..LongestSleep
<1> DEFINE M == [Address -> 0..255]
           N == [Slot -> STRING \cup {""}]
           L == Seq(Words)
           K == 0..LongestSleep
           B == BOOLEAN
<1>1. States = [mem : M, names : N, shown : L, nap : K, violated : B]
  BY DEF States
<1> HIDE DEF M, N, L, K, B
<1>2. n = [s EXCEPT !.nap = n.nap]
  BY <1>1, NapReplaced
<1>3. n.nap \in K
  BY <1>1
<1> QED
  BY <1>2, <1>3 DEF K

LEMMA InitImplements == Init => Sequential!Init(Programs)
<1> SUFFICES ASSUME Init PROVE Sequential!Init(Programs)
  OBVIOUS
<1>1. program \in Programs /\ executed = 0 /\ gaveUp = {} /\ (pc = "Stopped") = FALSE
  BY DEF Init
<1>2. committed = [mem |-> mem[Self], names |-> Names, nap |-> nap, violated |-> FALSE,
                   shown |-> IF logs = <<>> THEN <<>> ELSE logs[Len(logs)]]
  BY DEF Init, Visible
<1> DEFINE m == [a \in Address |-> 0]
           n == [k \in Slot |-> ""]
           z == <<>>
           f == FALSE
<1>3. mem[Self] = m /\ Names = n /\ logs = z /\ nap = 0
  BY InitMemory
<1>4. committed = [mem |-> m, names |-> n, nap |-> 0, violated |-> f, shown |-> z]
  BY <1>2, <1>3
<1>5. Sequential!InitialState = [mem |-> m, names |-> n, shown |-> z, nap |-> 0, violated |-> f]
  BY SharedSets DEF Sequential!InitialState
<1> HIDE DEF m, n, z, f
<1>6. committed = Sequential!InitialState
  BY <1>4, <1>5
<1> QED
  BY <1>1, <1>6 DEF Sequential!Init

\* The steps that the interpreter does not see.
Hidden == UNCHANGED <<program, executed, gaveUp, committed>> /\ pc # "Stopped" /\ pc' # "Stopped"

LEMMA HiddenStutters ==
  ASSUME Hidden
  PROVE  UNCHANGED Sequential!vars
BY DEF Hidden, Sequential!vars

LEMMA AttemptHidden ==
  ASSUME Attempt
  PROVE  Hidden
BY DEF Hidden, Attempt, ResolveOperand, AssignResult, RejectAddress, ReadMemory, WriteMemory,
       PrintMessage, SleepForTicks, UnrollFor, SkipNull, At, Unmoved

LEMMA AroundHidden ==
  ASSUME RegisterProcess \/ ExecuteNextCommand \/ ResetFlag
  PROVE  Hidden
BY DEF Hidden, RegisterProcess, ExecuteNextCommand, ResetFlag

LEMMA InterpreterCommand == Sequential!Command = Command
BY DEF Sequential!Command, Command

\* A violation ends the program, where the text says so.
LEMMA StopImplements ==
  ASSUME AllCanBeRepeated, RefinementInv, StopAfterViolation
  PROVE  Sequential!Violate
<1>1. pc = "Execute" /\ todo = <<>> /\ violated /\ pc' = "Stopped"
      /\ UNCHANGED <<program, executed, gaveUp, committed>>
  BY DEF StopAfterViolation, ExecuteReturns
<1>2. HasRemainingCommands
  BY <1>1, AttemptReturned
<1>3. PICK s : violated = s.violated /\ Sequential!After(Command, committed) = s
  BY <1>1, AttemptReturned
<1>4. Sequential!After(Sequential!Command, committed).violated
  BY <1>1, <1>3, InterpreterCommand
<1>5. Sequential!Active
  BY <1>1, <1>2 DEF Sequential!Active, HasRemainingCommands
<1>6. (pc' = "Stopped") = TRUE
  BY <1>1
<1> QED
  BY <1>1, <1>4, <1>5, <1>6 DEF Sequential!Violate

\* A command is counted: it took effect as a whole, or is given up.
LEMMA ConsumeImplements ==
  ASSUME AllCanBeRepeated, RefinementInv, ConsumeFlag
  PROVE  Sequential!Execute \/ Sequential!GiveUp \/ Hidden
<1>1. pc = "Execute" /\ todo = <<>> /\ ~violated
      /\ UNCHANGED <<program, todo, values, effects, mem, registered>>
      /\ reply'.result = IF Self \in retryPending THEN "True" ELSE "False"
  BY DEF ConsumeFlag, ExecuteReturns, Memory!ConsumeFlag, Memory!Outcome, Memory!Result
<1>2. HasRemainingCommands /\ Setting(Command, committed, Now)
  BY <1>1, AttemptReturned
<1>3. PICK s : /\ Attempted(Command, committed, gaveUp, retryPending, <<>>, values, Now, s)
               /\ violated = s.violated /\ s \in States
               /\ Sequential!After(Command, committed) = s
  BY <1>1, AttemptReturned
<1>4. violated = FALSE
  BY <1>1 DEF RefinementInv, Running
<1>5. ~Violated(s)
  BY <1>3, <1>4 DEF Violated
<1>6. Sequential!Active
  BY <1>1, <1>2 DEF Sequential!Active, HasRemainingCommands
<1>7. CASE pc' = "Reset" /\ UNCHANGED <<executed, auxiliary>>
  BY <1>1, <1>7 DEF Hidden
<1>8. CASE /\ pc' = "Next" /\ executed' = executed + 1
           /\ committed' = Visible(mem[Self], Names, logs, nap)
           /\ gaveUp' = IF reply'.result = "True" THEN gaveUp \cup {executed + 1} ELSE gaveUp
  <2>1. committed' = Now
    BY <1>8 DEF Now
  <2>2. Now \in States /\ Now.violated = FALSE
    BY NowTyped, NowFields DEF RefinementInv, ExecutionInv
  <2>3. (pc' = "Stopped") = (pc = "Stopped")
    BY <1>1, <1>8
  <2>4. CASE Self \in retryPending
    <3>1. gaveUp' = gaveUp \cup {executed + 1}
      BY <1>1, <1>8, <2>4
    <3>2. Framed(Parts[Command], committed, gaveUp, Now)
      BY <1>2, <1>3, <1>5, AttemptRepeated
    <3>3. /\ \A a \in Address \ Sequential!WrittenBy(Command, Now.names) :
                Now.mem[a] = committed.mem[a]
          /\ \A k \in Slot : \/ Now.names[k] = committed.names[k]
                             \/ /\ committed.names[k] = ""
                                /\ Now.names[k] \in Sequential!Targets(Command)
      BY <1>2, <3>2, CommandGivenUp
    <3>4. Sequential!GiveUp
      BY <1>1, <1>6, <1>8, <2>1, <2>3, <3>1, <3>3, SharedSets, InterpreterCommand
         DEF Sequential!GiveUp
    <3> QED
      BY <3>4
  <2>5. CASE Self \notin retryPending
    <3>1. gaveUp' = gaveUp
      BY <1>1, <1>8, <2>5
    <3>2. /\ s.mem = Now.mem /\ s.names = Now.names /\ s.shown = Now.shown
          /\ gaveUp = {} => s.nap = Now.nap
      BY <1>2, <1>3, <1>5, <2>5, CommandDone
    <3>3. Now.violated = s.violated
      BY <1>3, <1>4, <2>2
    <3>4. Now = [s EXCEPT !.nap = Now.nap] /\ Now.nap \in 0..LongestSleep
      BY <1>3, <2>2, <3>2, <3>3, NapApart
    <3> DEFINE S == 0..LongestSleep
               A == Sequential!After(Sequential!Command, committed)
    <3>5. A = s
      BY <1>3, InterpreterCommand
    <3>6. 0..Sequential!LongestSleep = S
      BY DEF LongestSleep, Sequential!LongestSleep
    <3> HIDE DEF S
    <3>7. \E ticks \in S : /\ gaveUp = {} => ticks = A.nap
                           /\ committed' = [A EXCEPT !.nap = ticks]
      <4>1. Now.nap \in S
        BY <3>4 DEF S
      <4> HIDE DEF A
      <4> QED
        BY <2>1, <3>2, <3>4, <3>5, <4>1
    <3>8. ~A.violated
      BY <1>1, <1>3, <3>5
    <3>9. Sequential!Execute
      BY <1>1, <1>6, <1>8, <2>3, <3>1, <3>6, <3>7, <3>8 DEF Sequential!Execute
    <3> QED
      BY <3>9
  <2> QED
    BY <2>4, <2>5
<1> QED
  BY <1>7, <1>8 DEF ConsumeFlag

LEMMA NextImplements ==
  ASSUME AllCanBeRepeated, RefinementInv, [Next]_vars
  PROVE  [Sequential!Next]_(Sequential!vars)
<1>1. CASE UNCHANGED vars
  BY <1>1 DEF vars, Sequential!vars
<1>2. CASE Attempt
  BY <1>2, AttemptHidden, HiddenStutters
<1>3. CASE RegisterProcess \/ ExecuteNextCommand \/ ResetFlag
  BY <1>3, AroundHidden, HiddenStutters
<1>4. CASE StopAfterViolation
  BY <1>4, StopImplements DEF Sequential!Next
<1>5. CASE ConsumeFlag
  BY <1>5, ConsumeImplements, HiddenStutters DEF Sequential!Next
<1> QED
  BY <1>1, <1>2, <1>3, <1>4, <1>5 DEF Next, Rest

\* What the refinement rests on holds throughout: the process and the run that
\* the text describes go side by side, and the table remembers what it should.
THEOREM RefinementInvAlways ==
  ASSUME AllCanBeRepeated
  PROVE  Spec => []RefinementInv
<1>1. Init => RefinementInv
  BY InitRefinementInv
<1>2. RefinementInv /\ [Next]_vars => RefinementInv'
  BY NextRefinementInv
<1> QED
  BY <1>1, <1>2, PTL DEF Spec

\* A program whose commands can be repeated takes effect as its text says,
\* however many accesses fault and however often its commands are begun
\* (Process::ExecuteNextCommand).
THEOREM ExecutionImplementsInterpreter ==
  ASSUME AllCanBeRepeated
  PROVE  Spec => ImplementsInterpreter
<1>1. Init => Sequential!Init(Programs)
  BY InitImplements
<1>2. RefinementInv /\ [Next]_vars => [Sequential!Next]_(Sequential!vars)
  BY NextImplements
<1>3. Spec => []RefinementInv
  BY RefinementInvAlways
<1> QED
  BY <1>1, <1>2, <1>3, PTL DEF Spec, ImplementsInterpreter
=============================================================================
