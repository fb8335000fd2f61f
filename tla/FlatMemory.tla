----------------------------- MODULE FlatMemory -----------------------------
(***************************************************************************)
(* What MemoryManager promises to the instructions that call it: every     *)
(* registered process owns a flat, zero-initialised, byte-addressed        *)
(* memory.  An access either                                               *)
(*   - succeeds, and then reads or writes exactly the last written bytes,  *)
(*   - asks for a retry (a page fault was served) and changes no byte, or  *)
(*   - is an access violation and changes nothing at all.                  *)
(* Frames, page tables, eviction and the backing store do not appear here: *)
(* module Paging is shown to implement this specification.                 *)
(***************************************************************************)
EXTENDS Integers

CONSTANTS
    Pid,            \* process ids
    VirtualBytes,   \* DemandPager::MAX_PROCESS_VIRTUAL_BYTES
    Value           \* the 16-bit words the instructions write

Address == 0..(VirtualBytes - 1)
Byte == 0..255

\* The two bytes of a word, lowest address first, and the word they make up.
LowByte(val)  == val % 256
HighByte(val) == val \div 256
Word(low, high) == high * 256 + low

NoReply == [result |-> "None", value |-> 0]
Result(r) == [result |-> r, value |-> 0]
Outcome(b) == IF b THEN Result("True") ELSE Result("False")

VARIABLES
    mem,            \* [Pid -> [Address -> Byte]]
    registered,     \* the processes that own a page table
    retryPending,   \* the processes whose current instruction faulted
    reply           \* what the last call returned

vars == <<mem, registered, retryPending, reply>>

Zeros == [a \in Address |-> 0]

Init ==
    /\ mem = [p \in Pid |-> Zeros]
    /\ registered = {}
    /\ retryPending = {}
    /\ reply = NoReply

\* TRUE only if the process now has a page table; FALSE changes nothing.
Register(p) ==
    /\ \/ /\ registered' = registered \cup {p}
          /\ reply' = Outcome(TRUE)
       \/ /\ UNCHANGED registered
          /\ reply' = Outcome(FALSE)
    /\ UNCHANGED <<mem, retryPending>>

Release(p) ==
    /\ mem' = [mem EXCEPT ![p] = Zeros]
    /\ registered' = registered \ {p}
    /\ retryPending' = retryPending \ {p}
    /\ reply' = NoReply

ResetFlag(p) ==
    /\ retryPending' = retryPending \ {p}
    /\ reply' = NoReply
    /\ UNCHANGED <<mem, registered>>

\* TRUE exactly if an access of p faulted since the flag was last cleared.
ConsumeFlag(p) ==
    /\ reply' = Outcome(p \in retryPending)
    /\ retryPending' = retryPending \ {p}
    /\ UNCHANGED <<mem, registered>>

InRange(p, a) == p \in registered /\ a + 2 <= VirtualBytes

Violate(p, a) ==
    /\ ~InRange(p, a)
    /\ reply' = Result("AccessViolation")
    /\ UNCHANGED <<mem, registered, retryPending>>

Fault(p, a) ==
    /\ InRange(p, a)
    /\ reply' = Result("PageFaultRetry")
    /\ retryPending' = retryPending \cup {p}
    /\ UNCHANGED <<mem, registered>>

Read(p, a) ==
    /\ InRange(p, a)
    /\ reply' = [result |-> "Success", value |-> Word(mem[p][a], mem[p][a + 1])]
    /\ UNCHANGED <<mem, registered, retryPending>>

Write(p, a, val) ==
    /\ InRange(p, a)
    /\ mem' = [mem EXCEPT ![p][a] = LowByte(val), ![p][a + 1] = HighByte(val)]
    /\ reply' = Result("Success")
    /\ UNCHANGED <<registered, retryPending>>

Next ==
    \E p \in Pid :
        \/ Register(p)
        \/ Release(p)
        \/ ResetFlag(p)
        \/ ConsumeFlag(p)
        \/ \E a \in Address :
              \/ Violate(p, a)
              \/ Fault(p, a)
              \/ Read(p, a)
              \/ \E val \in Value : Write(p, a, val)

Spec == Init /\ [][Next]_vars
=============================================================================
