------------------------ MODULE FIFOPageReplacement -------------------------
(***************************************************************************)
(* The replacement policy: a queue of frame indices in the order in which  *)
(* pages were mapped into them.  The operators take and return the queue.  *)
(***************************************************************************)
EXTENDS Integers, Sequences

\* Faults: the last loaded frame is the next victim, a load is not recorded.
RecordFrameLoadInFront(q, f) == <<f>> \o q

RecordFrameLoadForgets(q, f) == q

RecordFrameLoad(q, f) == Append(q, f)

\* Fault: whatever is evicted, the head leaves the queue.
RecordFrameEvictionDropsHead(q, F) == IF q = << >> THEN q ELSE Tail(q)

(***************************************************************************)
(* The code empties the queue into a new one and leaves out every          *)
(* occurrence of the evicted frame.  Here F is the set of frames evicted by*)
(* successive calls: one for a page-out, all frames of the process for a   *)
(* release.  A recursive function rather than SelectSeq, so that its       *)
(* properties can be proved (PagingProofs).                                *)
(***************************************************************************)
RecordFrameEviction(q, F) ==
    LET kept[i \in 0..Len(q)] ==
            IF i = 0 THEN << >>
            ELSE IF q[i] \in F THEN kept[i - 1]
            ELSE Append(kept[i - 1], q[i])
    IN  kept[Len(q)]

\* Fault: the victim is the last entry.
SelectVictimAtBack(q) == q[Len(q)]

\* Throws std::runtime_error on an empty queue; the callers test that first.
SelectVictimFrame(q) == Head(q)
=============================================================================
