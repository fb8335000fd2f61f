--------------------------- MODULE ExecutionProofs ---------------------------
(***************************************************************************)
(* Proofs about Execution, for every program over every set of             *)
(* instructions, any size of the memory and of the symbol table, and any   *)
(* number of attempts: types, the shape of the symbol table, and that a    *)
(* stale operand is only used in an attempt that will be repeated.         *)
(***************************************************************************)
EXTENDS Execution, WellFoundedInduction, TLAPS

Words == 0..MaxWord

\* ("" is a string, but no prover here knows that.)
SlotEntry == [name : STRING \cup {""}, value : Words]

USE DEF thread, effects, auxiliary, memory

-----------------------------------------------------------------------------
(***************************************************************************)
(* The inductive invariant.                                                *)
(***************************************************************************)

\* Where the process is in its program.
ThreadTyped ==
    /\ program \in Seq(Code)
    /\ executed \in 0..Len(program)
    /\ attempt \in 0..MaxAttempts
    /\ pc \in {"Create", "Next", "Reset", "Execute", "Stopped", "Refused"}
    /\ pc \in {"Reset", "Execute"} => HasRemainingCommands
    /\ todo \in Seq(Code)
    /\ gaveUp \subseteq 1..executed

\* What it works on.
DataTyped ==
    /\ values \in Seq(Words)
    /\ table \in [Slot -> SlotEntry]
    /\ nap \in 0..LongestSleep
    /\ mem \in [{Self} -> [Address -> 0..255]]

ExecutionInv == ThreadTyped /\ DataTyped /\ SlotsExact /\ StaleIsRetried

-----------------------------------------------------------------------------
(***************************************************************************)
(* The operators.                                                          *)
(***************************************************************************)

\* Numbers, once and for all.
LEMMA Numbers == MaxWord \in Nat /\ LongestSleep \in Nat /\ 0 \in Words
BY DEF MaxWord, LongestSleep, Words

\* The first slot of a set of slots.
LEMMA FirstOfLeast ==
  ASSUME NEW S \in SUBSET Slot, S # {}
  PROVE  FirstOf(S) \in S /\ \A t \in S : FirstOf(S) <= t
<1>1. S \subseteq Nat
  BY DEF Slot
<1>2. \E x \in S : \A y \in S : ~ (<<y, x>> \in OpToRel(<, Nat))
  BY <1>1, NatLessThanWellFounded, WFMin, Zenon
<1>3. PICK x \in S : \A y \in S : ~(y < x)
  BY <1>1, <1>2 DEF OpToRel
<1>4. \A y \in S : x <= y
  BY <1>1, <1>3
<1> QED
  BY <1>4 DEF FirstOf

\* FindVariable returns a slot with that name, the first of them.
LEMMA FoundSlot ==
  ASSUME NEW names, NEW x, IsDeclared(names, x)
  PROVE  LET s == FindVariable(names, x)
         IN  s \in Slot /\ names[s] = x /\ \A t \in Slot : names[t] = x => s <= t
<1>1. SlotsNamed(names, x) \in SUBSET Slot /\ SlotsNamed(names, x) # {}
  BY DEF SlotsNamed, IsDeclared
<1>2. /\ FindVariable(names, x) \in SlotsNamed(names, x)
      /\ \A t \in SlotsNamed(names, x) : FindVariable(names, x) <= t
  BY <1>1, FirstOfLeast DEF FindVariable
<1> QED
  BY <1>2 DEF SlotsNamed

\* SetVariable puts a name in its own slot, else in the first free one.
LEMMA TargetSlot ==
  ASSUME NEW names, NEW x, NEW s \in TargetSlots(names, x)
  PROVE  /\ s \in Slot
         /\ \/ names[s] = x
            \/ /\ names[s] = "" /\ \A t \in Slot : names[t] # x
               /\ \A t \in Slot : names[t] = "" => s <= t
<1>1. CASE IsDeclared(names, x)
  BY <1>1, FoundSlot DEF TargetSlots
<1>2. CASE ~IsDeclared(names, x)
  <2>1. IsDeclared(names, "") /\ s = FindVariable(names, "")
    BY <1>2 DEF TargetSlots
  <2>2. \A t \in Slot : names[t] # x
    BY <1>2 DEF IsDeclared, SlotsNamed
  <2> QED
    BY <2>1, <2>2, FoundSlot
<1> QED
  BY <1>1, <1>2

\* A slot is two bytes of the memory of the process.
LEMMA SlotInMemory ==
  ASSUME NEW s \in Slot
  PROVE  SlotAddress(s) \in Address /\ SlotAddress(s) + 1 \in Address
BY InstructionsAssumption DEF Slot, Address, SlotAddress

\* Two bytes make a word, and a word two bytes.
LEMMA WordTyped ==
  ASSUME NEW low \in 0..255, NEW high \in 0..255
  PROVE  Memory!Word(low, high) \in Words
BY DEF Memory!Word, Words, MaxWord

LEMMA BytesTyped ==
  ASSUME NEW v \in Words
  PROVE  Memory!LowByte(v) \in 0..255 /\ Memory!HighByte(v) \in 0..255
<1>1. v \in Nat /\ v <= 65535
  BY DEF Words, MaxWord
<1>2. v % 256 \in 0..255
  BY <1>1
<1>3. v \div 256 \in 0..255
  BY <1>1
<1> QED
  BY <1>2, <1>3 DEF Memory!LowByte, Memory!HighByte

\* Sums and differences of words are words.
LEMMA SumTyped ==
  ASSUME NEW m \in Words, NEW n \in Words
  PROVE  Sum(m, n) \in Words
BY Numbers DEF Sum, Smaller, Words

LEMMA DifferenceTyped ==
  ASSUME NEW m \in Words, NEW n \in Words
  PROVE  Difference(m, n) \in Words
BY Numbers DEF Difference, Words

\* What instructions compute from words are words: nothing leaves 16 bits.
LEMMA ResultTyped ==
  ASSUME NEW ins \in Code, NEW v \in Seq(Words), Len(v) >= Arity(ins.op), v # <<>>
  PROVE  Result(ins, v) \in Words
<1>1. v[1] \in Words
  OBVIOUS
<1>2. CASE ins.op = "ADD"
  <2>1. v[2] \in Words
    BY <1>2 DEF Arity
  <2> QED
    <3>1. Result(ins, v) = Sum(v[1], v[2])
      BY <1>2 DEF Result
    <3>2. Sum(v[1], v[2]) \in Words
      BY <1>1, <2>1, SumTyped
    <3> QED
      BY <3>1, <3>2
<1>3. CASE ins.op = "SUBTRACT"
  <2>1. v[2] \in Words
    BY <1>3 DEF Arity
  <2> QED
    <3>1. Result(ins, v) = Difference(v[1], v[2])
      BY <1>3 DEF Result
    <3> QED
      BY <3>1, <1>1, <2>1, DifferenceTyped
<1>4. CASE ins.op \notin {"ADD", "SUBTRACT"}
  BY <1>1, <1>4 DEF Result
<1> QED
  BY <1>2, <1>3, <1>4

\* A literal is taken to 16 bits.
LEMMA LiteralTyped ==
  ASSUME NEW ins, NEW n \in Nat
  PROVE  LiteralValue(ins, n) \in Words
<1>1. n % (MaxWord + 1) \in Words
  BY Numbers DEF Words
<1>2. Smaller(n, MaxWord) \in Words
  BY Numbers DEF Smaller, Words
<1> QED
  BY <1>1, <1>2 DEF LiteralValue

\* The body of a FOR, repeated.
LEMMA UnrolledTyped ==
  ASSUME NEW b \in Seq(Code), NEW n \in Nat
  PROVE  Unrolled(b, n) \in Seq(Code)
<1> DEFINE m == n * Len(b)
<1>1. m \in Nat
  OBVIOUS
<1>2. ASSUME NEW i \in 1..m PROVE b[((i - 1) % Len(b)) + 1] \in Code
  <2>1. Len(b) \in Nat \ {0}
    <3>1. Len(b) \in Nat
      OBVIOUS
    <3>2. CASE Len(b) = 0
      BY <3>2, <1>2
    <3> QED
      BY <3>1, <3>2
  <2>2. (i - 1) \in Nat
    BY <1>1, <1>2
  <2> DEFINE k == (i - 1) % Len(b)
  <2>3. k \in 0..(Len(b) - 1)
    BY <2>1, <2>2
  <2> HIDE DEF k
  <2>4. b[k + 1] \in Code
    BY <2>1, <2>3
  <2> QED
    BY <2>4 DEF k
<1>3. Unrolled(b, n) = [i \in 1..m |-> b[((i - 1) % Len(b)) + 1]]
  BY DEF Unrolled
<1> HIDE DEF m
<1> QED
  BY <1>1, <1>2, <1>3

\* The operands of an instruction.
LEMMA CodeFields ==
  ASSUME NEW ins \in Code
  PROVE  /\ ins.op \in Operations /\ ins.target \in STRING /\ ins.address \in Nat
         /\ ins.args \in Seq(Operand) /\ ins.body \in Seq(Code)
         /\ Len(ins.args) \in Nat /\ Len(ins.args) >= Arity(ins.op)
BY CodeAssumption DEF InstructionOver

-----------------------------------------------------------------------------
(***************************************************************************)
(* The memory calls.                                                       *)
(***************************************************************************)

\* A read within range returns the word that is there and changes no byte.
LEMMA ReadWord ==
  ASSUME DataTyped, NEW a \in Nat, Memory!Read(Self, a)
  PROVE  /\ reply'.value \in Words /\ reply'.value = WordAt(a)
         /\ UNCHANGED <<mem, retryPending>>
<1>1. a \in Address /\ a + 1 \in Address
  BY InstructionsAssumption DEF Memory!Read, Memory!InRange, Address
<1>2. mem[Self][a] \in 0..255 /\ mem[Self][a + 1] \in 0..255
  BY <1>1 DEF DataTyped
<1>3. reply'.value = WordAt(a) /\ UNCHANGED <<mem, retryPending>>
  BY DEF Memory!Read, WordAt
<1>4. WordAt(a) \in Words
  BY <1>2, WordTyped DEF WordAt
<1> QED
  BY <1>3, <1>4

\* A fault raises the flag and changes no byte.
LEMMA FaultFlags ==
  ASSUME NEW a, Memory!Fault(Self, a)
  PROVE  Self \in retryPending' /\ mem' = mem
BY DEF Memory!Fault

\* A write stores bytes.
LEMMA WriteTyped ==
  ASSUME DataTyped, NEW a \in Nat, NEW v \in Words, Memory!Write(Self, a, v)
  PROVE  mem' \in [{Self} -> [Address -> 0..255]]
<1>1. a \in Address /\ a + 1 \in Address
  BY InstructionsAssumption DEF Memory!Write, Memory!InRange, Address
<1>2. Memory!LowByte(v) \in 0..255 /\ Memory!HighByte(v) \in 0..255
  BY BytesTyped
<1>3. mem' = [mem EXCEPT ![Self][a] = Memory!LowByte(v), ![Self][a + 1] = Memory!HighByte(v)]
  BY DEF Memory!Write
<1> QED
  BY <1>1, <1>2, <1>3 DEF DataTyped

\* A write to a slot of the table, which may fault.
LEMMA SlotWritten ==
  ASSUME DataTyped, NEW s \in Slot, NEW v \in Words, WriteSlot(s, v)
  PROVE  mem' \in [{Self} -> [Address -> 0..255]]
<1>1. SlotAddress(s) \in Nat
  BY SlotInMemory DEF Address
<1> QED
  BY <1>1, WriteTyped, FaultFlags DEF WriteSlot, DataTyped

-----------------------------------------------------------------------------
(***************************************************************************)
(* The symbol table.                                                       *)
(***************************************************************************)

\* The names of the slots.
LEMMA NamesOf == \A s \in Slot : Names[s] = table[s].name
BY DEF Names

\* The shape of the table depends on the names alone.
LEMMA SameNames ==
  ASSUME SlotsExact, \A s \in Slot : table'[s].name = table[s].name
  PROVE  SlotsExact'
BY DEF SlotsExact, Names

\* A name in the slot found for it leaves every name in one slot, and the free
\* slots behind those in use.
LEMMA TargetKeepsShape ==
  ASSUME DataTyped, SlotsExact, NEW x \in STRING, NEW v \in Words,
         NEW s \in TargetSlots(Names, x), table' = [table EXCEPT ![s] = Entry(x, v)]
  PROVE  table' \in [Slot -> SlotEntry] /\ SlotsExact'
<1>1. /\ s \in Slot
      /\ \/ Names[s] = x
         \/ /\ Names[s] = "" /\ \A t \in Slot : Names[t] # x
            /\ \A t \in Slot : Names[t] = "" => s <= t
  BY TargetSlot
<1>2. table \in [Slot -> SlotEntry] /\ Entry(x, v) \in SlotEntry
  BY DEF DataTyped, Entry, SlotEntry
<1>3. table' \in [Slot -> SlotEntry]
  BY <1>1, <1>2
<1>4. \A t \in Slot : Names'[t] = IF t = s THEN x ELSE Names[t]
  BY <1>1, <1>2 DEF Names, Entry
<1>5. Slot \subseteq Nat
  BY DEF Slot
<1>6. ASSUME NEW t \in Slot, NEW u \in Slot
      PROVE  /\ t # u /\ Names'[t] = Names'[u] => Names'[t] = ""
             /\ t < u /\ Names'[t] = "" => Names'[u] = ""
  <2>1. CASE Names[s] = x
    <3>1. Names'[t] = Names[t] /\ Names'[u] = Names[u]
      BY <2>1, <1>4
    <3> QED
      BY <3>1 DEF SlotsExact
  <2>2. CASE /\ Names[s] = "" /\ \A r \in Slot : Names[r] # x
             /\ \A r \in Slot : Names[r] = "" => s <= r
    <3>1. ASSUME t # u, Names'[t] = Names'[u] PROVE Names'[t] = ""
      <4>1. t # s /\ u # s
        BY <2>2, <3>1, <1>4
      <4> QED
        BY <4>1, <3>1, <1>4 DEF SlotsExact
    <3>2. ASSUME t < u, Names'[t] = "" PROVE Names'[u] = ""
      <4>1. t # s /\ Names[t] = ""
        BY <2>2, <3>2, <1>1, <1>4
      <4>2. s <= t
        BY <2>2, <4>1
      <4>3. s \in Nat /\ t \in Nat /\ u \in Nat
        BY <1>1, <1>5
      <4>4. t < u
        BY <3>2
      <4>5. u # s
        BY <4>2, <4>3, <4>4
      <4> QED
        BY <4>1, <4>5, <3>2, <1>4 DEF SlotsExact
    <3> QED
      BY <3>1, <3>2
  <2> QED
    BY <1>1, <2>1, <2>2
<1> QED
  BY <1>3, <1>6 DEF SlotsExact

\* SymbolTable::SetVariable: a slot is written, or a full table drops the name.
LEMMA SetVariableKeeps ==
  ASSUME DataTyped, SlotsExact, NEW x \in STRING, NEW v \in Words, SetVariable(x, v)
  PROVE  /\ table' \in [Slot -> SlotEntry] /\ SlotsExact'
         /\ mem' \in [{Self} -> [Address -> 0..255]]
<1>1. CASE UNCHANGED <<table, memory>>
  BY <1>1, SameNames DEF DataTyped
<1>2. ASSUME NEW s \in TargetSlots(Names, x), table' = [table EXCEPT ![s] = Entry(x, v)],
             WriteSlot(s, v)
      PROVE  /\ table' \in [Slot -> SlotEntry] /\ SlotsExact'
             /\ mem' \in [{Self} -> [Address -> 0..255]]
  BY <1>2, TargetKeepsShape, TargetSlot, SlotWritten
<1> QED
  BY <1>1, <1>2 DEF SetVariable

\* What GetVariable and Resolve do, for the value v they append: it is a word, the
\* names and the memory stay, and either it is the operand's value in memory or
\* the flag is set.
Yields(operand, v) ==
    /\ v \in Words /\ values' = Append(values, v)
    /\ table' \in [Slot -> SlotEntry] /\ \A s \in Slot : table'[s].name = table[s].name
    /\ mem' = mem
    /\ \/ Self \in retryPending'
       \/ /\ retryPending' = retryPending
          /\ operand.kind = "variable" => v = CurrentValue(operand.name)

\* Operand::Resolve.
LEMMA ResolveYields ==
  ASSUME DataTyped, NEW operand \in Operand, Resolve(operand)
  PROVE  \E v : Yields(operand, v)
<1>1. table \in [Slot -> SlotEntry]
  BY DEF DataTyped
<1>2. CASE operand.kind = "literal" /\ values' = Append(values, LiteralValue(Ins, operand.value))
           /\ UNCHANGED <<table, memory>>
  <2>1. operand.value \in Nat
    BY DEF Operand
  <2>2. LiteralValue(Ins, operand.value) \in Words
    BY <2>1, LiteralTyped
  <2> QED
    BY <1>1, <1>2, <2>2 DEF Yields
<1>3. CASE operand.kind = "variable" /\ ~IsDeclared(Names, operand.name)
           /\ values' = Append(values, 0) /\ UNCHANGED <<table, memory>>
  <2>1. CurrentValue(operand.name) = 0
    BY <1>3 DEF CurrentValue
  <2> QED
    BY <1>1, <1>3, <2>1, Numbers DEF Yields
<1>4. CASE operand.kind = "variable" /\ IsDeclared(Names, operand.name)
           /\ GetVariable(FindVariable(Names, operand.name))
  <2> DEFINE s == FindVariable(Names, operand.name)
  <2>1. s \in Slot
    BY <1>4, FoundSlot
  <2>2. SlotAddress(s) \in Nat
    BY <2>1, SlotInMemory DEF Address
  <2>3. CurrentValue(operand.name) = WordAt(SlotAddress(s))
    BY <1>4 DEF CurrentValue
  <2>4. GetVariable(s)
    BY <1>4
  <2> HIDE DEF s
  <2>5. CASE Memory!Read(Self, SlotAddress(s)) /\ values' = FreshWord
             /\ table' = [table EXCEPT ![s].value = reply'.value]
    <3>1. /\ reply'.value \in Words /\ reply'.value = WordAt(SlotAddress(s))
          /\ UNCHANGED <<mem, retryPending>>
      BY <2>2, <2>5, ReadWord
    <3>2. /\ table' \in [Slot -> SlotEntry]
          /\ \A t \in Slot : table'[t].name = table[t].name
      BY <1>1, <2>1, <2>5, <3>1 DEF SlotEntry
    <3>3. values' = Append(values, reply'.value)
      BY <2>5 DEF FreshWord
    <3> QED
      BY <2>3, <3>1, <3>2, <3>3 DEF Yields
  <2>6. CASE Memory!Fault(Self, SlotAddress(s)) /\ values' = Append(values, table[s].value)
             /\ UNCHANGED table
    <3>1. Self \in retryPending' /\ mem' = mem
      BY <2>6, FaultFlags
    <3>2. table[s].value \in Words
      BY <1>1, <2>1 DEF SlotEntry
    <3> QED
      BY <1>1, <2>6, <3>1, <3>2 DEF Yields
  <2> QED
    BY <2>4, <2>5, <2>6 DEF GetVariable
<1> QED
  BY <1>2, <1>3, <1>4 DEF Resolve

-----------------------------------------------------------------------------
(***************************************************************************)
(* The invariant is inductive.                                             *)
(***************************************************************************)

LEMMA InitExecutionInv == Init => ExecutionInv
<1> SUFFICES ASSUME Init PROVE ExecutionInv
  OBVIOUS
<1>1. ThreadTyped
  <2>1. program \in Seq(Code) /\ Len(program) \in Nat
    <3>1. program \in Programs
      BY DEF Init
    <3>2. program \in Seq(Code)
      BY <3>1, CodeAssumption
    <3> QED
      BY <3>2
  <2>2. 0 \in 0..MaxAttempts /\ 0 \in 0..Len(program)
    BY <2>1, ExecutionAssumption
  <2>3. executed = 0 /\ attempt = 0 /\ pc = "Create" /\ todo = <<>> /\ gaveUp = {}
    BY DEF Init
  <2>4. todo \in Seq(Code)
    BY <2>3
  <2> QED
    BY <2>1, <2>2, <2>3, <2>4 DEF ThreadTyped
<1>2. DataTyped
  <2>1. table = [s \in Slot |-> [name |-> "", value |-> 0]] /\ values = <<>> /\ nap = 0
    BY DEF Init
  <2>2. table \in [Slot -> SlotEntry]
    <3>1. [name |-> "", value |-> 0] \in SlotEntry
      BY Numbers DEF SlotEntry
    <3> QED
      BY <2>1, <3>1
  <2>3. Memory!Init
    BY DEF Init
  <2>4. mem \in [{Self} -> [Address -> 0..255]]
    BY <2>3 DEF Memory!Init, Memory!Zeros, Address, Memory!Address
  <2>5. 0 \in 0..LongestSleep
    BY Numbers
  <2>6. values \in Seq(Words)
    <3>1. values = <<>>
      BY <2>1
    <3> QED
      BY <3>1
  <2> QED
    BY <2>1, <2>2, <2>4, <2>5, <2>6 DEF DataTyped
<1>3. SlotsExact
  BY DEF Init, SlotsExact, Names
<1>4. StaleIsRetried
  BY DEF Init, StaleIsRetried
<1> QED
  BY <1>1, <1>2, <1>3, <1>4 DEF ExecutionInv

\* The instruction at the head of todo, and what follows it.
LEMMA HeadOfTodo ==
  ASSUME ThreadTyped, todo # <<>>
  PROVE  Ins \in Code /\ Tail(todo) \in Seq(Code)
BY DEF ThreadTyped, Ins

\* An instruction moves nothing of the thread but what is left to do.
LEMMA ThreadStays ==
  ASSUME ThreadTyped, Unmoved, todo' \in Seq(Code)
  PROVE  ThreadTyped'
BY DEF ThreadTyped, Unmoved, HasRemainingCommands

\* An instruction that has resolved nothing has nothing stale.
LEMMA NothingStale ==
  ASSUME todo' \in Seq(Code), values' = <<>>
  PROVE  StaleIsRetried'
<1>1. ASSUME todo' # <<>> PROVE 1..Smaller(Len(values'), Len(Ins'.args)) = {}
  <2>1. Ins' \in Code
    BY <1>1 DEF Ins
  <2>2. Len(Ins'.args) \in Nat
    BY <2>1, CodeFields
  <2>3. Len(values') = 0
    OBVIOUS
  <2> QED
    BY <2>2, <2>3 DEF Smaller
<1> QED
  BY <1>1 DEF StaleIsRetried

\* The rest of an attempt, once an instruction has returned.
LEMMA AfterDone ==
  ASSUME ThreadTyped, todo # <<>>, Done, Unmoved
  PROVE  ThreadTyped' /\ StaleIsRetried' /\ values' \in Seq(Words)
<1>1. todo' \in Seq(Code) /\ values' = <<>>
  BY HeadOfTodo DEF Done
<1> QED
  BY <1>1, ThreadStays, NothingStale

\* The table as it was.
LEMMA TableStays ==
  ASSUME DataTyped, SlotsExact, table' = table
  PROVE  table' \in [Slot -> SlotEntry] /\ SlotsExact'
BY SameNames DEF DataTyped

\* Resolving an operand: the values that were right stay right, because neither
\* the names nor the memory move, and the new one is right or flagged.
LEMMA ResolveStaleIsRetried ==
  ASSUME ExecutionInv, ResolveOperand
  PROVE  ExecutionInv'
<1>1. Ins \in Code /\ Len(values) < Len(Ins.args) /\ pc = "Execute" /\ todo # <<>>
  BY HeadOfTodo DEF ResolveOperand, ExecutionInv
<1>2. DataTyped /\ ThreadTyped /\ SlotsExact /\ StaleIsRetried
  BY DEF ExecutionInv
<1>3. values \in Seq(Words) /\ Len(values) \in Nat /\ Len(Ins.args) \in Nat
  BY <1>1, <1>2, CodeFields DEF DataTyped
<1> DEFINE n == Len(values)
           operand == Ins.args[n + 1]
<1>4. operand \in Operand
  <2>1. Ins.args \in Seq(Operand)
    BY <1>1, CodeFields
  <2>2. n + 1 \in 1..Len(Ins.args)
    BY <1>1, <1>3
  <2> HIDE DEF n
  <2> QED
    BY <2>1, <2>2
<1>5. Resolve(operand)
  BY DEF ResolveOperand
<1> HIDE DEF operand
<1>6. PICK v : Yields(operand, v)
  BY <1>2, <1>4, <1>5, ResolveYields
<1>7. todo' = todo /\ nap' = nap /\ Unmoved
  BY DEF ResolveOperand
<1>8. ThreadTyped'
  BY <1>2, <1>7, ThreadStays DEF ThreadTyped
<1>9. values' \in Seq(Words) /\ Len(values') = n + 1 /\ values'[n + 1] = v
      /\ \A i \in 1..n : values'[i] = values[i]
  BY <1>3, <1>6 DEF Yields
<1>10. DataTyped'
  BY <1>2, <1>6, <1>7, <1>9 DEF DataTyped, Yields
<1>11. SlotsExact'
  BY <1>2, <1>6, SameNames DEF Yields
<1>12. StaleIsRetried'
  <2> SUFFICES ASSUME Self \notin retryPending',
                      NEW i \in 1..Smaller(Len(values'), Len(Ins'.args)),
                      Ins'.args[i].kind = "variable"
               PROVE  values'[i] = (CurrentValue(Ins.args[i].name))'
    BY <1>7 DEF StaleIsRetried, Ins
  <2>1. Ins' = Ins
    BY <1>7 DEF Ins
  <2>2. i \in 1..(n + 1)
    BY <1>1, <1>3, <1>9, <2>1 DEF Smaller
  <2>3. retryPending' = retryPending /\ mem' = mem
        /\ (operand.kind = "variable" => v = CurrentValue(operand.name))
    BY <1>6 DEF Yields
  <2>4. \A s \in Slot : Names'[s] = Names[s]
    BY <1>6 DEF Yields, Names
  <2>5. ASSUME NEW x PROVE (CurrentValue(x))' = CurrentValue(x)
    BY <2>3, <2>4 DEF CurrentValue, IsDeclared, FindVariable, SlotsNamed, WordAt
  <2>6. (CurrentValue(Ins.args[i].name))' = CurrentValue(Ins.args[i].name)
    BY <2>1, <2>5
  <2>7. CASE i = n + 1
    <3>1. operand.kind = "variable" /\ operand = Ins.args[i]
      BY <2>7, <2>1 DEF operand
    <3> QED
      BY <1>9, <2>3, <2>6, <2>7, <3>1
  <2>8. CASE i \in 1..n
    <3>1. i \in 1..Smaller(Len(values), Len(Ins.args))
      BY <2>8, <1>1, <1>3 DEF Smaller
    <3>2. values[i] = CurrentValue(Ins.args[i].name)
      BY <1>1, <1>2, <2>1, <2>3, <3>1 DEF StaleIsRetried
    <3> QED
      BY <1>9, <2>6, <2>8, <3>2
  <2> QED
    BY <1>3, <2>2, <2>7, <2>8
<1> QED
  BY <1>8, <1>10, <1>11, <1>12 DEF ExecutionInv

\* An instruction that returns leaves the invariant, if it leaves the data typed.
LEMMA ReturnKeeps ==
  ASSUME ExecutionInv, todo # <<>>, Done, Unmoved, nap' \in 0..LongestSleep,
         table' \in [Slot -> SlotEntry], SlotsExact',
         mem' \in [{Self} -> [Address -> 0..255]]
  PROVE  ExecutionInv'
<1>1. ThreadTyped' /\ StaleIsRetried' /\ values' \in Seq(Words)
  BY AfterDone DEF ExecutionInv
<1> QED
  BY <1>1 DEF ExecutionInv, DataTyped

\* The operands an instruction uses, once they are resolved.
LEMMA ResolvedOperands ==
  ASSUME ExecutionInv, todo # <<>>, Resolved
  PROVE  Len(values) >= Arity(Ins.op)
<1>1. Ins \in Code
  BY HeadOfTodo DEF ExecutionInv
<1> QED
  BY <1>1, CodeFields DEF Resolved

\* DECLARE, ADD, SUBTRACT and READ.
LEMMA AssignKeeps ==
  ASSUME ExecutionInv, AssignResult
  PROVE  ExecutionInv'
<1>1. todo # <<>> /\ Done /\ Unmoved /\ nap' = nap /\ Ins \in Code
      /\ SetVariable(Ins.target, Result(Ins, values))
  BY HeadOfTodo DEF AssignResult, At, ExecutionInv
<1>2. values \in Seq(Words) /\ Len(values) \in Nat
  BY DEF ExecutionInv, DataTyped
<1>3. Len(values) >= Arity(Ins.op) /\ values # <<>>
  <2>1. CASE Ins.op = "READ" /\ values # <<>>
    BY <1>2, <2>1 DEF Arity
  <2>2. CASE Ins.op # "READ" /\ Resolved
    <3>1. Ins.op \in {"DECLARE", "ADD", "SUBTRACT"}
      BY <2>2 DEF AssignResult, At
    <3>2. Len(values) >= Arity(Ins.op)
      BY <1>1, <2>2, ResolvedOperands
    <3>3. Arity(Ins.op) \in {1, 2}
      BY <3>1 DEF Arity
    <3>4. Len(values) # 0
      BY <1>2, <3>2, <3>3
    <3> QED
      BY <3>2, <3>4
  <2> QED
    BY <2>1, <2>2 DEF AssignResult, HasResult
<1>4. Result(Ins, values) \in Words /\ Ins.target \in STRING
  BY <1>1, <1>2, <1>3, ResultTyped, CodeFields
<1>5. /\ table' \in [Slot -> SlotEntry] /\ SlotsExact'
      /\ mem' \in [{Self} -> [Address -> 0..255]]
  BY <1>1, <1>4, SetVariableKeeps DEF ExecutionInv
<1> QED
  BY <1>1, <1>5, ReturnKeeps DEF ExecutionInv, DataTyped

\* READ: what is read is appended behind the operands, all of which stay right.
LEMMA ReadKeeps ==
  ASSUME ExecutionInv, ReadMemory
  PROVE  ExecutionInv'
<1>1. /\ todo # <<>> /\ pc = "Execute" /\ Ins \in Code /\ Unmoved /\ Resolved
      /\ table' = table /\ nap' = nap
  BY HeadOfTodo DEF ReadMemory, At, ExecutionInv
<1>2. DataTyped /\ ThreadTyped /\ SlotsExact /\ StaleIsRetried
  BY DEF ExecutionInv
<1>3. table' \in [Slot -> SlotEntry] /\ SlotsExact'
  BY <1>1, <1>2, TableStays
<1>4. CASE Memory!Read(Self, Ins.address) /\ values' = FreshWord /\ UNCHANGED <<todo, violated>>
  <2> DEFINE n == Len(values)
  <2>1. n \in Nat /\ n = Len(Ins.args) /\ values \in Seq(Words)
    BY <1>1, <1>2 DEF Resolved, DataTyped
  <2>2. Ins.address \in Nat
    BY <1>1, CodeFields
  <2>3. reply'.value \in Words /\ UNCHANGED <<mem, retryPending>>
    BY <1>2, <1>4, <2>2, ReadWord
  <2> DEFINE v == reply'.value
  <2> HIDE DEF v
  <2>4. values' = Append(values, v) /\ v \in Words
    BY <1>4, <2>3 DEF FreshWord, v
  <2>5. values' \in Seq(Words) /\ Len(values') = n + 1 /\ \A i \in 1..n : values'[i] = values[i]
    BY <2>1, <2>4
  <2>6. ThreadTyped'
    BY <1>1, <1>2, <1>4, ThreadStays DEF ThreadTyped
  <2>7. DataTyped'
    BY <1>1, <1>2, <1>3, <2>3, <2>5 DEF DataTyped
  <2>8. StaleIsRetried'
    <3> SUFFICES ASSUME Self \notin retryPending',
                        NEW i \in 1..Smaller(Len(values'), Len(Ins'.args)),
                        Ins'.args[i].kind = "variable"
                 PROVE  values'[i] = (CurrentValue(Ins.args[i].name))'
      BY <1>1, <1>4 DEF StaleIsRetried, Ins
    <3>1. Ins' = Ins
      BY <1>4 DEF Ins
    <3>2. i \in 1..n /\ i \in 1..Smaller(Len(values), Len(Ins.args))
      BY <2>1, <2>5, <3>1 DEF Smaller
    <3>3. ASSUME NEW x PROVE (CurrentValue(x))' = CurrentValue(x)
      BY <1>1, <2>3 DEF CurrentValue, IsDeclared, FindVariable, SlotsNamed, WordAt, Names
    <3>4. (CurrentValue(Ins.args[i].name))' = CurrentValue(Ins.args[i].name)
      BY <3>1, <3>3
    <3>5. values[i] = CurrentValue(Ins.args[i].name)
      BY <1>1, <1>2, <2>3, <3>1, <3>2 DEF StaleIsRetried
    <3> QED
      BY <2>5, <3>2, <3>4, <3>5
  <2> QED
    BY <1>3, <2>6, <2>7, <2>8 DEF ExecutionInv
<1>5. CASE Done /\ (Memory!Fault(Self, Ins.address) \/ Memory!Violate(Self, Ins.address))
  <2>1. mem' = mem
    BY <1>5 DEF Memory!Fault, Memory!Violate
  <2> QED
    BY <1>1, <1>2, <1>3, <1>5, <2>1, ReturnKeeps DEF DataTyped
<1> QED
  BY <1>4, <1>5 DEF ReadMemory

\* WRITE: its one operand is a word.
LEMMA WriteKeeps ==
  ASSUME ExecutionInv, WriteMemory
  PROVE  ExecutionInv'
<1>1. /\ todo # <<>> /\ Ins \in Code /\ Ins.op = "WRITE" /\ Unmoved /\ Done /\ Resolved
      /\ table' = table /\ nap' = nap
  BY HeadOfTodo DEF WriteMemory, At, ExecutionInv
<1>2. DataTyped /\ SlotsExact
  BY DEF ExecutionInv
<1>3. table' \in [Slot -> SlotEntry] /\ SlotsExact'
  BY <1>1, <1>2, TableStays
<1>4. values[1] \in Words /\ Ins.address \in Nat
  <2>1. values \in Seq(Words)
    BY <1>2 DEF DataTyped
  <2>2. Len(values) >= 1
    BY <1>1, ResolvedOperands DEF Arity
  <2>3. Ins.address \in Nat
    BY <1>1, CodeFields
  <2> QED
    BY <2>1, <2>2, <2>3
<1>5. mem' \in [{Self} -> [Address -> 0..255]]
  <2>1. CASE Memory!Write(Self, Ins.address, values[1])
    BY <1>2, <1>4, <2>1, WriteTyped
  <2>2. CASE Memory!Fault(Self, Ins.address) \/ Memory!Violate(Self, Ins.address)
    BY <1>2, <2>2 DEF Memory!Fault, Memory!Violate, DataTyped
  <2> QED
    BY <2>1, <2>2 DEF WriteMemory
<1> QED
  BY <1>1, <1>2, <1>3, <1>5, ReturnKeeps DEF DataTyped

\* SLEEP: never longer than the longest sleep.
LEMMA SleepKeeps ==
  ASSUME ExecutionInv, SleepForTicks
  PROVE  ExecutionInv'
<1>1. /\ todo # <<>> /\ Ins.op = "SLEEP" /\ Unmoved /\ Done /\ Resolved
      /\ table' = table /\ mem' = mem /\ nap' = SleepAfter(nap, values[1])
  BY DEF SleepForTicks, At
<1>2. DataTyped /\ SlotsExact
  BY DEF ExecutionInv
<1>3. table' \in [Slot -> SlotEntry] /\ SlotsExact'
  BY <1>1, <1>2, TableStays
<1>4. values[1] \in Words
  <2>1. values \in Seq(Words)
    BY <1>2 DEF DataTyped
  <2>2. Len(values) >= 1
    BY <1>1, ResolvedOperands DEF Arity
  <2> QED
    BY <2>1, <2>2
<1>5. nap' \in 0..LongestSleep
  <2>1. values[1] \in Nat /\ nap \in 0..LongestSleep
    BY <1>2, <1>4, Numbers DEF Words, DataTyped
  <2> QED
    BY <1>1, <2>1, Numbers DEF SleepAfter, Smaller
<1> QED
  BY <1>1, <1>2, <1>3, <1>5, ReturnKeeps DEF DataTyped

\* FOR: the body, as often as the count says, before what follows.
LEMMA ForKeeps ==
  ASSUME ExecutionInv, UnrollFor
  PROVE  ExecutionInv'
<1>1. /\ todo # <<>> /\ Ins.op = "FOR" /\ Unmoved /\ Resolved /\ values' = <<>>
      /\ todo' = Unrolled(Ins.body, values[1]) \o Tail(todo)
      /\ table' = table /\ mem' = mem /\ nap' = nap
  BY DEF UnrollFor, At
<1>2. DataTyped /\ ThreadTyped /\ SlotsExact
  BY DEF ExecutionInv
<1>3. Ins \in Code /\ Tail(todo) \in Seq(Code)
  BY <1>1, <1>2, HeadOfTodo
<1>4. values[1] \in Nat
  <2>1. values \in Seq(Words)
    BY <1>2 DEF DataTyped
  <2>2. Len(values) >= 1
    BY <1>1, ResolvedOperands DEF Arity
  <2>3. values[1] \in Words
    BY <2>1, <2>2
  <2> QED
    BY <2>3, Numbers DEF Words
<1>5. Unrolled(Ins.body, values[1]) \in Seq(Code)
  BY <1>3, <1>4, CodeFields, UnrolledTyped
<1>6. todo' \in Seq(Code)
  BY <1>1, <1>3, <1>5
<1>7. ThreadTyped' /\ StaleIsRetried'
  BY <1>1, <1>2, <1>6, ThreadStays, NothingStale
<1>8. values' \in Seq(Words)
  <2>1. values' = <<>>
    BY <1>1
  <2> QED
    BY <2>1
<1>9. DataTyped' /\ SlotsExact'
  BY <1>1, <1>2, <1>8, TableStays DEF DataTyped
<1> QED
  BY <1>7, <1>9 DEF ExecutionInv

\* Instructions that touch neither the table nor the memory.
LEMMA OthersKeep ==
  ASSUME ExecutionInv, RejectAddress \/ PrintMessage \/ SkipNull
  PROVE  ExecutionInv'
<1>1. todo # <<>> /\ Done /\ Unmoved /\ table' = table /\ mem' = mem /\ nap' = nap
  BY DEF RejectAddress, PrintMessage, SkipNull, At
<1>2. DataTyped /\ SlotsExact
  BY DEF ExecutionInv
<1>3. table' \in [Slot -> SlotEntry] /\ SlotsExact'
  BY <1>1, <1>2, TableStays
<1> QED
  BY <1>1, <1>2, <1>3, ReturnKeeps DEF DataTyped

\* Between two attempts nothing is resolved, and no byte changes.
LEMMA BetweenAttemptsKeeps ==
  ASSUME ExecutionInv, ThreadTyped', StaleIsRetried', values' \in Seq(Words),
         table' = table, mem' = mem, nap' \in 0..LongestSleep
  PROVE  ExecutionInv'
<1>1. table' \in [Slot -> SlotEntry] /\ SlotsExact'
  BY TableStays DEF ExecutionInv
<1> QED
  BY <1>1 DEF ExecutionInv, DataTyped

\* The memory is registered, or refused.
LEMMA RegisterKeeps ==
  ASSUME ExecutionInv, RegisterProcess
  PROVE  ExecutionInv'
<1>1. /\ UNCHANGED <<program, executed, attempt, todo, values, effects, auxiliary>>
      /\ pc' \in {"Next", "Refused"} /\ mem' = mem
  BY DEF RegisterProcess, Memory!Register
<1>2. ThreadTyped' /\ StaleIsRetried'
  BY <1>1 DEF ExecutionInv, ThreadTyped, StaleIsRetried
<1> QED
  BY <1>1, <1>2, BetweenAttemptsKeeps DEF ExecutionInv, DataTyped

\* A command is begun.
LEMMA BeginKeeps ==
  ASSUME ExecutionInv, ExecuteNextCommand
  PROVE  ExecutionInv'
<1>1. /\ UNCHANGED <<program, executed, todo, values, table, auxiliary, mem>>
      /\ pc' = "Reset" /\ attempt' = 1 /\ nap' = 0 /\ HasRemainingCommands
  BY DEF ExecuteNextCommand
<1>2. attempt' \in 0..MaxAttempts /\ nap' \in 0..LongestSleep
  BY <1>1, ExecutionAssumption, Numbers
<1>3. ThreadTyped' /\ StaleIsRetried'
  BY <1>1, <1>2 DEF ExecutionInv, ThreadTyped, StaleIsRetried, HasRemainingCommands
<1> QED
  BY <1>1, <1>2, <1>3, BetweenAttemptsKeeps DEF ExecutionInv, DataTyped

\* An attempt is begun: the command is all there is to do.
LEMMA ResetKeeps ==
  ASSUME ExecutionInv, ResetFlag
  PROVE  ExecutionInv'
<1>1. /\ UNCHANGED <<program, executed, attempt, effects, auxiliary, mem>>
      /\ pc = "Reset" /\ pc' = "Execute" /\ todo' = <<Command>> /\ values' = <<>>
  BY DEF ResetFlag, Memory!ResetFlag
<1>2. todo' \in Seq(Code)
  <2>1. program \in Seq(Code) /\ executed \in 0..Len(program) /\ executed < Len(program)
    BY <1>1 DEF ExecutionInv, ThreadTyped, HasRemainingCommands
  <2>2. executed + 1 \in 1..Len(program)
    BY <2>1
  <2>3. Command \in Code
    BY <2>1, <2>2 DEF Command
  <2> QED
    BY <1>1, <2>3
<1>3. ThreadTyped'
  BY <1>1, <1>2 DEF ExecutionInv, ThreadTyped, HasRemainingCommands
<1>4. values' \in Seq(Words)
  <2>1. values' = <<>>
    BY <1>1
  <2> QED
    BY <2>1
<1> QED
  BY <1>1, <1>2, <1>3, <1>4, NothingStale, BetweenAttemptsKeeps DEF ExecutionInv, DataTyped

\* The command counts, or is tried again while attempts are left.
LEMMA ConsumeKeeps ==
  ASSUME ExecutionInv, ConsumeFlag
  PROVE  ExecutionInv'
<1>1. /\ UNCHANGED <<program, todo, values, effects, mem>>
      /\ pc = "Execute" /\ pc' \in {"Reset", "Next"} /\ ThreadTyped
  BY DEF ConsumeFlag, ExecuteReturns, Memory!ConsumeFlag, ExecutionInv
<1>2. CASE Retry /\ attempt' = NextAttempt /\ pc' = "Reset" /\ UNCHANGED <<executed, auxiliary>>
  <2>1. attempt' \in 0..MaxAttempts
    BY <1>1, <1>2, ExecutionAssumption DEF Retry, NextAttempt, ThreadTyped
  <2>2. ThreadTyped'
    BY <1>1, <1>2, <2>1 DEF ThreadTyped, HasRemainingCommands
  <2>3. StaleIsRetried'
    BY <1>2 DEF StaleIsRetried
  <2> QED
    BY <1>1, <2>2, <2>3, BetweenAttemptsKeeps DEF ExecutionInv, DataTyped
<1>3. CASE /\ executed' = executed + 1 /\ pc' = "Next" /\ UNCHANGED attempt
           /\ gaveUp' = IF reply'.result = "True" THEN gaveUp \cup {executed + 1} ELSE gaveUp
  <2>1. executed < Len(program) /\ executed \in Nat /\ Len(program) \in Nat
        /\ gaveUp \subseteq 1..executed
    BY <1>1 DEF ThreadTyped, HasRemainingCommands
  <2>2. executed' \in 0..Len(program') /\ gaveUp' \subseteq 1..executed'
    BY <1>1, <1>3, <2>1
  <2>3. ThreadTyped'
    BY <1>1, <1>3, <2>2 DEF ThreadTyped
  <2>4. StaleIsRetried'
    BY <1>3 DEF StaleIsRetried
  <2> QED
    BY <1>1, <2>3, <2>4, BetweenAttemptsKeeps DEF ExecutionInv, DataTyped
<1> QED
  BY <1>2, <1>3 DEF ConsumeFlag

\* After a violation nothing moves but the thread.
LEMMA StopKeeps ==
  ASSUME ExecutionInv, StopAfterViolation
  PROVE  ExecutionInv'
<1>1. /\ UNCHANGED <<program, executed, attempt, todo, values, effects, auxiliary, mem>>
      /\ pc' = "Stopped"
  BY DEF StopAfterViolation
<1>2. ThreadTyped' /\ StaleIsRetried'
  BY <1>1 DEF ExecutionInv, ThreadTyped, StaleIsRetried
<1> QED
  BY <1>1, <1>2, BetweenAttemptsKeeps DEF ExecutionInv, DataTyped

\* Nothing changes at all.
LEMMA StutterKeeps ==
  ASSUME ExecutionInv, UNCHANGED vars
  PROVE  ExecutionInv'
<1>1. ThreadTyped'
  BY DEF vars, ExecutionInv, ThreadTyped, HasRemainingCommands
<1>2. StaleIsRetried'
  <2>1. ASSUME NEW x PROVE (CurrentValue(x))' = CurrentValue(x)
    BY DEF vars, CurrentValue, IsDeclared, FindVariable, SlotsNamed, WordAt, Names
  <2>2. Ins' = Ins /\ UNCHANGED <<pc, todo, values, retryPending>>
    BY DEF vars, Ins
  <2> QED
    BY <2>1, <2>2 DEF ExecutionInv, StaleIsRetried
<1> QED
  BY <1>1, <1>2, BetweenAttemptsKeeps DEF vars, ExecutionInv, DataTyped

LEMMA NextExecutionInv == ExecutionInv /\ [Next]_vars => ExecutionInv'
<1> SUFFICES ASSUME ExecutionInv, [Next]_vars PROVE ExecutionInv'
  OBVIOUS
<1>1. CASE Attempt
  BY <1>1, ResolveStaleIsRetried, AssignKeeps, ReadKeeps, WriteKeeps, SleepKeeps, ForKeeps,
     OthersKeep DEF Attempt
<1>2. CASE RegisterProcess \/ ExecuteNextCommand \/ ResetFlag \/ StopAfterViolation \/ ConsumeFlag
  BY <1>2, RegisterKeeps, BeginKeeps, ResetKeeps, StopKeeps, ConsumeKeeps
<1>3. CASE Rest \/ UNCHANGED vars
  BY <1>3, StutterKeeps DEF Rest
<1> QED
  BY <1>1, <1>2, <1>3 DEF Next

THEOREM ExecutionInvAlways == Spec => []ExecutionInv
<1> QED
  BY InitExecutionInv, NextExecutionInv, PTL DEF Spec

-----------------------------------------------------------------------------
(***************************************************************************)
(* What the runs check.                                                    *)
(***************************************************************************)

LEMMA InvGivesTypeOK == ExecutionInv => TypeOK
<1> SUFFICES ASSUME ExecutionInv PROVE TypeOK
  OBVIOUS
<1>1. executed \in 0..Len(program) /\ attempt \in 0..MaxAttempts /\ gaveUp \subseteq 1..executed
  BY DEF ExecutionInv, ThreadTyped
<1>2. \A i \in DOMAIN values : values[i] \in 0..MaxWord
  <2>1. values \in Seq(Words)
    BY DEF ExecutionInv, DataTyped
  <2>2. \A i \in DOMAIN values : values[i] \in Words
    BY <2>1
  <2> QED
    BY <2>2 DEF Words
<1>3. \A s \in Slot : table[s].value \in 0..MaxWord
  BY DEF ExecutionInv, DataTyped, SlotEntry, Words
<1>4. SlotsExact /\ nap \in 0..LongestSleep /\ mem[Self] \in [Address -> 0..255]
  BY DEF ExecutionInv, DataTyped
<1> QED
  BY <1>1, <1>2, <1>3, <1>4 DEF TypeOK

\* Types, and the shape of the symbol table: no arithmetic of the instructions
\* leaves 16 bits, no sleep is longer than 20 ticks, no command is counted twice,
\* every name has one slot and the slots in use come first, however often commands
\* are retried and the writes to their slots fault.
THEOREM ExecutionTypeCorrect == Spec => []TypeOK
<1> QED
  BY ExecutionInvAlways, InvGivesTypeOK, PTL

\* Whatever pages are evicted under the process, an operand that differs from the
\* variable in memory is only used in an attempt whose retry flag is set, and which
\* Process::ExecuteNextCommand therefore executes again or, at the last attempt,
\* counts in gaveUp.
THEOREM StaleOperandsRetried == Spec => []StaleIsRetried
<1>1. ExecutionInv => StaleIsRetried
  BY DEF ExecutionInv
<1> QED
  BY <1>1, ExecutionInvAlways, PTL
=============================================================================
