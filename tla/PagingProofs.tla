---------------------------- MODULE PagingProofs ----------------------------
(***************************************************************************)
(* The structures of the pager are consistent after every operation,       *)
(* nothing in memory or in the swap space belongs to a released process,   *)
(* and Paging implements FlatMemory, for every number of frames, processes *)
(* and pages.                                                              *)
(*                                                                         *)
(* One "Fields" lemma per operator of Paging gives the type of the pager it*)
(* returns and the value of each field, in terms of updates named below    *)
(* (Put, PutOne, Poke, Without) that stay folded where only their type     *)
(* matters.  One "Good" lemma per operator then shows that it preserves the*)
(* inductive invariant, using the Fields lemmas and what is shown of the   *)
(* queue first.                                                            *)
(***************************************************************************)
EXTENDS Paging, FiniteSetTheorems, SequenceTheorems, WellFoundedInduction, TLAPS

-----------------------------------------------------------------------------
(***************************************************************************)
(* The queue.  RecordFrameEviction, on a queue of any length, keeps the    *)
(* entries outside F, all of them, in their order.                         *)
(***************************************************************************)

\* Induction over the naturals with the property given as a set, for the loop of
\* RecordFrameEviction.
LEMMA SetInduction ==
  ASSUME NEW T \in SUBSET Nat, 0 \in T, \A n \in T : n + 1 \in T
  PROVE  T = Nat
<1> SUFFICES ASSUME Nat \ T # {} PROVE FALSE
  OBVIOUS
<1>1. \E x \in Nat \ T : \A y \in Nat \ T : ~ (<<y, x>> \in OpToRel(<, Nat))
  BY NatLessThanWellFounded, WFMin, Zenon
<1>2. PICK x \in Nat \ T : \A y \in Nat \ T : ~ (<<y, x>> \in OpToRel(<, Nat))
  BY <1>1
<1>3. \A y \in Nat \ T : ~(y < x)
  BY <1>2, Zenon DEF OpToRel
<1> QED
  BY <1>3, x - 1 \in Nat \/ x = 0

Kept(q, F, g) ==
    [i \in 0..Len(q) |->
        IF i = 0 THEN << >>
        ELSE IF q[i] \in F THEN g[i - 1] ELSE Append(g[i - 1], q[i])]

\* The recursion of RecordFrameEviction has a solution.
LEMMA KeptExists ==
  ASSUME NEW S, NEW q \in Seq(S), NEW F
  PROVE  \E g : g = Kept(q, F, g)
<1> DEFINE Step(g, i) == IF q[i] \in F THEN g[i - 1] ELSE Append(g[i - 1], q[i])
           Good(n) == \E g \in [0..n -> Seq(S)] :
                         g[0] = << >> /\ \A i \in 1..n : g[i] = Step(g, i)
           T == {n \in Nat : n <= Len(q) => Good(n)}
<1>len. Len(q) \in Nat
  OBVIOUS
<1>1. Good(0)
  <2> DEFINE g0 == [i \in 0..0 |-> << >>]
  <2>1. g0 \in [0..0 -> Seq(S)] /\ g0[0] = << >>
    OBVIOUS
  <2>2. \A i \in 1..0 : g0[i] = Step(g0, i)
    OBVIOUS
  <2> HIDE DEF g0, Step
  <2> QED
    BY <2>1, <2>2
<1>2. ASSUME NEW n \in Nat, n + 1 <= Len(q), Good(n) PROVE Good(n + 1)
  <2>1. PICK g \in [0..n -> Seq(S)] :
             g[0] = << >> /\ \A i \in 1..n : g[i] = Step(g, i)
    BY <1>2
  <2> DEFINE h == [i \in 0..(n + 1) |-> IF i = n + 1 THEN Step(g, n + 1) ELSE g[i]]
  <2>2. g[n] \in Seq(S) /\ q[n + 1] \in S
    BY <1>2, <1>len
  <2>3. Step(g, n + 1) \in Seq(S)
    BY <2>2, n + 1 - 1 = n
  <2> HIDE DEF Step
  <2>4. h \in [0..(n + 1) -> Seq(S)]
    BY <2>3
  <2>5. h[0] = << >>
    BY <2>1
  <2>6. ASSUME NEW i \in 1..(n + 1) PROVE h[i] = Step(h, i)
    <3>1. CASE i = n + 1
      <4>1. h[i] = Step(g, n + 1) /\ h[i - 1] = g[n]
        BY <3>1
      <4> QED
        BY <3>1, <4>1 DEF Step
    <3>2. CASE i # n + 1
      <4> HIDE DEF h
      <4>0. i \in 1..n /\ i - 1 \in 0..n /\ i \in 0..n
        BY <3>2
      <4>1. h[i] = g[i] /\ h[i - 1] = g[i - 1]
        BY <4>0 DEF h
      <4>2. g[i] = Step(g, i)
        BY <4>0, <2>1
      <4> QED
        BY <4>1, <4>2 DEF Step
    <3> QED
      BY <3>1, <3>2
  <2> QED
    BY <2>4, <2>5, <2>6
<1> HIDE DEF Good
<1>3. T = Nat
  <2>1. 0 \in T
    BY <1>1
  <2>2. ASSUME NEW n \in T PROVE n + 1 \in T
    BY <1>2, <1>len
  <2>3. T \in SUBSET Nat
    OBVIOUS
  <2> HIDE DEF T
  <2> QED
    BY <2>1, <2>2, <2>3, SetInduction
<1>4. Good(Len(q))
  <2>1. Len(q) \in T
    BY <1>3, <1>len
  <2> QED
    BY <2>1
<1>5. PICK g \in [0..Len(q) -> Seq(S)] :
           g[0] = << >> /\ \A i \in 1..Len(q) : g[i] = Step(g, i)
  BY <1>4 DEF Good
<1>6. ASSUME NEW i \in 0..Len(q) PROVE g[i] = Kept(q, F, g)[i]
  <2>1. CASE i = 0
    BY <2>1, <1>5, <1>len DEF Kept
  <2>2. CASE i # 0
    <3>1. i \in 1..Len(q)
      BY <2>2, <1>len
    <3>2. g[i] = Step(g, i)
      BY <3>1, <1>5
    <3> QED
      BY <2>2, <3>2 DEF Kept
  <2> QED
    BY <2>1, <2>2
<1>7. g = Kept(q, F, g)
  <2>1. DOMAIN g = 0..Len(q) /\ DOMAIN Kept(q, F, g) = 0..Len(q)
    BY DEF Kept
  <2>2. g = [i \in 0..Len(q) |-> g[i]]
    OBVIOUS
  <2>3. Kept(q, F, g) = [i \in 0..Len(q) |-> Kept(q, F, g)[i]]
    BY DEF Kept
  <2> QED
    BY <2>2, <2>3, <1>6
<1> QED
  BY <1>7

\* The solution, step by step.
LEMMA KeptDef ==
  ASSUME NEW S, NEW q \in Seq(S), NEW F
  PROVE  \E g :
           /\ g[0] = << >>
           /\ \A i \in 1..Len(q) :
                 g[i] = IF q[i] \in F THEN g[i - 1] ELSE Append(g[i - 1], q[i])
           /\ RecordFrameEviction(q, F) = g[Len(q)]
<1> DEFINE kept == CHOOSE g : g = Kept(q, F, g)
<1>len. Len(q) \in Nat
  OBVIOUS
<1>1. kept = Kept(q, F, kept)
  BY KeptExists, Zenon
<1>2. RecordFrameEviction(q, F) = kept[Len(q)]
  BY DEF RecordFrameEviction, Kept
<1> HIDE DEF kept
<1>3. kept[0] = << >>
  BY <1>1, <1>len DEF Kept
<1>4. ASSUME NEW i \in 1..Len(q)
      PROVE  kept[i] = IF q[i] \in F THEN kept[i - 1] ELSE Append(kept[i - 1], q[i])
  <2>1. i \in 0..Len(q) /\ i # 0
    BY <1>len
  <2>2. kept[i] = Kept(q, F, kept)[i]
    BY <1>1, Zenon
  <2> QED
    BY <2>1, <2>2 DEF Kept
<1> QED
  BY <1>2, <1>3, <1>4

\* h lists the positions of q whose entries make up r, in their order.
Selects(h, r, q, n, F) ==
    /\ h \in [1..Len(r) -> 1..n]
    /\ \A i \in 1..Len(r) : r[i] = q[h[i]] /\ q[h[i]] \notin F
    /\ \A i, j \in 1..Len(r) : i < j => h[i] < h[j]
    /\ \A k \in 1..n : q[k] \notin F => \E i \in 1..Len(r) : h[i] = k

\* RecordFrameEviction leaves out an entry that is evicted.
LEMMA SelectSkip ==
  ASSUME NEW S, NEW q \in Seq(S), NEW F, NEW n \in Nat, n + 1 <= Len(q),
         NEW r \in Seq(S), NEW h, Selects(h, r, q, n, F), q[n + 1] \in F
  PROVE  Selects(h, r, q, n + 1, F)
<1>1. h \in [1..Len(r) -> 1..(n + 1)]
  BY DEF Selects
<1>2. ASSUME NEW k \in 1..(n + 1), q[k] \notin F PROVE \E i \in 1..Len(r) : h[i] = k
  <2>1. k \in 1..n
    BY <1>2
  <2> QED
    BY <1>2, <2>1 DEF Selects
<1> QED
  BY <1>1, <1>2 DEF Selects

\* RecordFrameEviction appends an entry that is kept.
LEMMA SelectAppend ==
  ASSUME NEW S, NEW q \in Seq(S), NEW F, NEW n \in Nat, n + 1 <= Len(q),
         NEW r \in Seq(S), NEW h, Selects(h, r, q, n, F), q[n + 1] \notin F
  PROVE  \E hh : Selects(hh, Append(r, q[n + 1]), q, n + 1, F)
<1> DEFINE m == Len(r)
           rr == Append(r, q[n + 1])
           hh == [i \in 1..(m + 1) |-> IF i = m + 1 THEN n + 1 ELSE h[i]]
<1>1. m \in Nat /\ q[n + 1] \in S
  OBVIOUS
<1>2. /\ Len(rr) = m + 1
      /\ rr[m + 1] = q[n + 1]
      /\ \A i \in 1..m : rr[i] = r[i]
  BY <1>1, AppendProperties
<1>3. \A i \in 1..m : h[i] \in 1..n
  BY DEF Selects
<1> HIDE DEF m, rr
<1>4. /\ hh \in [1..(m + 1) -> 1..(n + 1)]
      /\ hh[m + 1] = n + 1
      /\ \A i \in 1..m : hh[i] = h[i]
  BY <1>1, <1>3
<1> HIDE DEF hh
<1>5. ASSUME NEW i \in 1..(m + 1) PROVE rr[i] = q[hh[i]] /\ q[hh[i]] \notin F
  <2>1. CASE i = m + 1
    BY <2>1, <1>2, <1>4
  <2>2. CASE i # m + 1
    <3>1. i \in 1..m
      BY <2>2, <1>1
    <3> QED
      BY <3>1, <1>2, <1>4 DEF Selects, m
  <2> QED
    BY <2>1, <2>2
<1>6. ASSUME NEW i \in 1..(m + 1), NEW j \in 1..(m + 1), i < j PROVE hh[i] < hh[j]
  <2>1. i \in 1..m
    BY <1>1, <1>6
  <2>2. CASE j = m + 1
    BY <2>1, <2>2, <1>3, <1>4
  <2>3. CASE j # m + 1
    <3>1. j \in 1..m
      BY <2>3, <1>1
    <3>2. h[i] < h[j]
      BY <2>1, <3>1, <1>6 DEF Selects, m
    <3> QED
      BY <2>1, <3>1, <3>2, <1>4
  <2> QED
    BY <2>2, <2>3
<1>7. ASSUME NEW k \in 1..(n + 1), q[k] \notin F PROVE \E i \in 1..(m + 1) : hh[i] = k
  <2>1. CASE k = n + 1
    BY <2>1, <1>1, <1>4
  <2>2. CASE k # n + 1
    <3>1. k \in 1..n
      BY <2>2
    <3>2. PICK i \in 1..m : h[i] = k
      BY <3>1, <1>7 DEF Selects, m
    <3> QED
      BY <3>2, <1>1, <1>4
  <2> QED
    BY <2>1, <2>2
<1>8. Selects(hh, rr, q, n + 1, F)
  BY <1>2, <1>4, <1>5, <1>6, <1>7 DEF Selects
<1> QED
  BY <1>8 DEF rr

\* The rebuilt queue is the old one without the entries in F: it is what a
\* strictly increasing choice of positions selects, and all of them.
THEOREM EvictionSelects ==
  ASSUME NEW S, NEW q \in Seq(S), NEW F
  PROVE  /\ RecordFrameEviction(q, F) \in Seq(S)
         /\ \E h : Selects(h, RecordFrameEviction(q, F), q, Len(q), F)
<1>len. Len(q) \in Nat
  OBVIOUS
<1>1. PICK g :
           /\ g[0] = << >>
           /\ \A i \in 1..Len(q) :
                 g[i] = IF q[i] \in F THEN g[i - 1] ELSE Append(g[i - 1], q[i])
           /\ RecordFrameEviction(q, F) = g[Len(q)]
  BY KeptDef
<1> DEFINE Good(n) == g[n] \in Seq(S) /\ \E h : Selects(h, g[n], q, n, F)
           T == {n \in Nat : n <= Len(q) => Good(n)}
<1>2. Good(0)
  <2>1. g[0] \in Seq(S) /\ Len(g[0]) = 0
    BY <1>1
  <2>2. Selects([i \in 1..0 |-> 1], g[0], q, 0, F)
    BY <2>1 DEF Selects
  <2> QED
    BY <2>1, <2>2
<1>3. ASSUME NEW n \in Nat, n + 1 <= Len(q), Good(n) PROVE Good(n + 1)
  <2>1. PICK h : Selects(h, g[n], q, n, F)
    BY <1>3
  <2>2. n + 1 \in 1..Len(q) /\ (n + 1) - 1 = n /\ q[n + 1] \in S
    BY <1>3, <1>len
  <2>3. g[n + 1] = IF q[n + 1] \in F THEN g[n] ELSE Append(g[n], q[n + 1])
    BY <2>2, <1>1
  <2>4. g[n] \in Seq(S)
    BY <1>3
  <2>5. CASE q[n + 1] \in F
    BY <2>1, <2>3, <2>4, <2>5, <1>3, SelectSkip
  <2>6. CASE q[n + 1] \notin F
    <3>1. \E hh : Selects(hh, Append(g[n], q[n + 1]), q, n + 1, F)
      BY <2>1, <2>4, <2>6, <1>3, SelectAppend
    <3>2. Append(g[n], q[n + 1]) \in Seq(S)
      BY <2>2, <2>4
    <3> QED
      BY <3>1, <3>2, <2>3, <2>6
  <2> QED
    BY <2>5, <2>6
<1> HIDE DEF Good
<1>4. T = Nat
  <2>1. 0 \in T
    BY <1>2
  <2>2. ASSUME NEW n \in T PROVE n + 1 \in T
    BY <1>3, <1>len
  <2>3. T \in SUBSET Nat
    OBVIOUS
  <2> HIDE DEF T
  <2> QED
    BY <2>1, <2>2, <2>3, SetInduction
<1>5. Good(Len(q))
  <2>1. Len(q) \in T
    BY <1>4, <1>len
  <2> QED
    BY <2>1
<1> QED
  BY <1>1, <1>5 DEF Good

-----------------------------------------------------------------------------
(***************************************************************************)
(* The pager.                                                              *)
(***************************************************************************)

\* A two-level map with one entry replaced.
Put(m, p, v, x) == [m EXCEPT ![p][v] = x]

\* The swap file after a rewrite that may fail.
FileIn(file, pages, before) == file = pages \/ file = before \/ file = Unstored

\* The queue without one frame.
Without(q, f) == RecordFrameEviction(q, {f})

\* A map with one entry replaced.
PutOne(m, f, x) == [m EXCEPT ![f] = x]

\* The frames with one byte replaced.
Poke(frames, f, o, byte) == [frames EXCEPT ![f].bytes[o] = byte]

\* What ReleaseProcessPages leaves of the frames and of the maps of the process.
Freed(frames, F) == [f \in Frame |-> IF f \in F THEN FreeFrame ELSE frames[f]]
NoFrames == [v \in Page |-> NoFrame]
NoPages == [v \in Page |-> NoPage]

\* A virtual memory has at least one page (DemandPager::MAX_PROCESS_VIRTUAL_BYTES).
LEMMA PageNotEmpty == 0 \in Page /\ PageLimit \in Nat \ {0} /\ Page \subseteq Nat
<1> DEFINE n == VirtualBytes \div FrameSize
<1>1. VirtualBytes \in Nat \ {0} /\ FrameSize \in Nat \ {0} /\ VirtualBytes = FrameSize * n
  BY FrameAssumption, VirtualAssumption
<1>2. n \in Int
  BY <1>1
<1>3. n > 0
  <2> HIDE DEF n
  <2> SUFFICES ASSUME n <= 0 PROVE FALSE
    BY <1>2
  <2>1. FrameSize * n <= 0
    BY <1>1, <1>2
  <2> QED
    BY <1>1, <2>1
<1> QED
  BY <1>2, <1>3 DEF Page, PageLimit

\* Zero is a byte and a word.
LEMMA Zeros == MaxByte \in Nat /\ MaxWord \in Nat /\ 0 \in Byte /\ 0 \in UInt16
<1>1. MaxByte \in Nat
  BY DEF MaxByte
<1>2. MaxWord \in Nat
  BY <1>1 DEF MaxWord
<1> QED
  BY <1>1, <1>2 DEF Byte, UInt16

\* What the pager starts with is in range.
LEMMA ConstantTypes == ZeroPage \in PageBytes /\ FreeFrame \in PageFrame /\ Unstored \in Store
<1>1. ZeroPage \in PageBytes
  BY Zeros DEF ZeroPage, PageBytes
<1>2. Unstored \in Store
  BY DEF Unstored, Store
<1>3. FreeFrame \in PageFrame
  BY <1>1, PageNotEmpty DEF FreeFrame, PageFrame
<1> QED
  BY <1>1, <1>2, <1>3

\* BackingStore::WriteFile changes the file and nothing else.
LEMMA WriteFileFields ==
  ASSUME NEW s \in PagerState, NEW w,
         NEW t, t = WriteFile(s, w)
  PROVE      /\ t \in PagerState
             /\ FileIn(t.file, s.pages, s.file)
             /\ t.frames = s.frames /\ t.pageTables = s.pageTables
             /\ t.residentPages = s.residentPages
             /\ t.loadedFrameQueue = s.loadedFrameQueue
             /\ t.frameClock = s.frameClock
             /\ t.pagesPagedIn = s.pagesPagedIn /\ t.pagesPagedOut = s.pagesPagedOut
             /\ t.pages = s.pages /\ t.thrown = s.thrown
BY ConstantTypes DEF PagerState, WriteFile, FileIn

\* DemandPager::ResetFrame changes the frames and nothing else.
LEMMA ResetFramesFields ==
  ASSUME NEW s \in PagerState, NEW F,
         NEW t, t = ResetFrames(s, F)
  PROVE      /\ t \in PagerState
             /\ t.frames = [f \in Frame |-> IF f \in F THEN FreeFrame ELSE s.frames[f]]
             /\ t.file = s.file /\ t.pageTables = s.pageTables
             /\ t.residentPages = s.residentPages
             /\ t.loadedFrameQueue = s.loadedFrameQueue
             /\ t.frameClock = s.frameClock
             /\ t.pagesPagedIn = s.pagesPagedIn /\ t.pagesPagedOut = s.pagesPagedOut
             /\ t.pages = s.pages /\ t.thrown = s.thrown
<1> DEFINE fr == [f \in Frame |-> IF f \in F THEN FreeFrame ELSE s.frames[f]]
<1>1. s.frames \in [Frame -> PageFrame]
  BY DEF PagerState
<1>2. fr \in [Frame -> PageFrame]
  BY <1>1, ConstantTypes
<1>3. ResetFrames(s, F) = [s EXCEPT !.frames = fr]
  BY DEF ResetFrames
<1> HIDE DEF fr
<1>4. [s EXCEPT !.frames = fr] \in PagerState
  BY <1>2 DEF PagerState
<1>5. LET r == [s EXCEPT !.frames = fr]
         IN  /\ r.frames = fr
             /\ r.file = s.file /\ r.pageTables = s.pageTables
             /\ r.residentPages = s.residentPages
             /\ r.loadedFrameQueue = s.loadedFrameQueue
             /\ r.frameClock = s.frameClock
             /\ r.pagesPagedIn = s.pagesPagedIn /\ r.pagesPagedOut = s.pagesPagedOut
             /\ r.pages = s.pages /\ r.thrown = s.thrown
  BY DEF PagerState
<1> QED
  BY <1>3, <1>4, <1>5 DEF fr

\* BackingStore::StoreEvictedPage: one page of the RAM store, then the file.
LEMMA StoreEvictedPageFields ==
  ASSUME NEW s \in PagerState, NEW p, NEW v, NEW bytes \in PageBytes, NEW w,
         NEW t, t = StoreEvictedPage(s, p, v, bytes, w)
  PROVE      /\ t \in PagerState
             /\ t.pages = Put(s.pages, p, v, bytes)
             /\ FileIn(t.file, t.pages, s.file)
             /\ t.frames = s.frames /\ t.pageTables = s.pageTables
             /\ t.residentPages = s.residentPages
             /\ t.loadedFrameQueue = s.loadedFrameQueue
             /\ t.frameClock = s.frameClock
             /\ t.pagesPagedIn = s.pagesPagedIn /\ t.pagesPagedOut = s.pagesPagedOut
             /\ t.thrown = s.thrown
<1> DEFINE pg == [s.pages EXCEPT ![p][v] = bytes]
           u == [s EXCEPT !.pages = pg]
<1>1. s.pages \in Store
  BY DEF PagerState
<1>2. pg \in Store
  BY <1>1 DEF Store
<1>3. StoreEvictedPage(s, p, v, bytes, w) = WriteFile(u, w)
  BY DEF StoreEvictedPage
<1> HIDE DEF pg
<1>4. /\ u \in PagerState
      /\ u.pages = pg
      /\ u.file = s.file /\ u.frames = s.frames /\ u.pageTables = s.pageTables
      /\ u.residentPages = s.residentPages
      /\ u.loadedFrameQueue = s.loadedFrameQueue
      /\ u.frameClock = s.frameClock
      /\ u.pagesPagedIn = s.pagesPagedIn /\ u.pagesPagedOut = s.pagesPagedOut
      /\ u.thrown = s.thrown
  BY <1>2 DEF PagerState
<1> HIDE DEF u
<1> QED
  BY <1>3, <1>4, WriteFileFields DEF pg, Put, FileIn

\* DemandPager::PageOut, field by field.
LEMMA PageOutFields ==
  ASSUME NEW s \in PagerState, NEW f \in Frame, NEW w,
         NEW t, t = PageOut(s, f, w)
  PROVE      /\ t \in PagerState
             /\ t.pages = Put(s.pages, s.frames[f].processId, s.frames[f].virtualPage,
                               s.frames[f].bytes)
             /\ FileIn(t.file, t.pages, s.file)
             /\ t.frames = PutOne(s.frames, f, FreeFrame)
             /\ t.residentPages = Put(s.residentPages, s.frames[f].processId,
                                       s.frames[f].virtualPage, NoFrame)
             /\ t.loadedFrameQueue = Without(s.loadedFrameQueue, f)
             /\ t.pageTables = s.pageTables
             /\ t.frameClock = s.frameClock
             /\ t.pagesPagedIn = s.pagesPagedIn
             /\ t.pagesPagedOut = s.pagesPagedOut + 1
             /\ t.thrown = s.thrown
<1> DEFINE p == s.frames[f].processId
           v == s.frames[f].virtualPage
           b == s.frames[f].bytes
           stored == StoreEvictedPage(s, p, v, b, w)
           rp == Put(s.residentPages, p, v, NoFrame)
           q == RecordFrameEviction(s.loadedFrameQueue, {f})
           gone == [stored EXCEPT !.residentPages = rp, !.loadedFrameQueue = q,
                                  !.pagesPagedOut = s.pagesPagedOut + 1]
<1>1. s.frames \in [Frame -> PageFrame]
  BY DEF PagerState
<1>2. b \in PageBytes
  BY <1>1 DEF PageFrame
<1>4. rp \in [Pid -> [Page -> Frame \cup {NoFrame}]]
  <2>1. s.residentPages \in [Pid -> [Page -> Frame \cup {NoFrame}]]
    BY DEF PagerState
  <2> QED
    BY <2>1 DEF Put
<1>5. q \in Seq(Frame) /\ s.pagesPagedOut + 1 \in Nat
  <2>1. s.loadedFrameQueue \in Seq(Frame) /\ s.pagesPagedOut \in Nat
    BY DEF PagerState
  <2> QED
    BY <2>1, EvictionSelects
<1>9. [g \in Frame |-> IF g \in {f} THEN FreeFrame ELSE s.frames[g]]
        = PutOne(s.frames, f, FreeFrame)
  BY <1>1 DEF PutOne
<1>6. PageOut(s, f, w) =
        ResetFrames([stored EXCEPT
                       !.residentPages[p][v] = NoFrame,
                       !.loadedFrameQueue = RecordFrameEviction(@, {f}),
                       !.pagesPagedOut = @ + 1], {f})
  BY Zenon DEF PageOut
<1> HIDE DEF p, v, b
<1>14. stored = StoreEvictedPage(s, p, v, b, w)
  OBVIOUS
<1> HIDE DEF stored
<1>3. /\ stored \in PagerState
      /\ stored.pages = Put(s.pages, p, v, b)
      /\ FileIn(stored.file, stored.pages, s.file)
      /\ stored.frames = s.frames /\ stored.pageTables = s.pageTables
      /\ stored.residentPages = s.residentPages
      /\ stored.loadedFrameQueue = s.loadedFrameQueue
      /\ stored.frameClock = s.frameClock
      /\ stored.pagesPagedIn = s.pagesPagedIn /\ stored.pagesPagedOut = s.pagesPagedOut
      /\ stored.thrown = s.thrown
  BY <1>2, <1>14, StoreEvictedPageFields
<1>7. [stored EXCEPT
                       !.residentPages[p][v] = NoFrame,
                       !.loadedFrameQueue = RecordFrameEviction(@, {f}),
                       !.pagesPagedOut = @ + 1] = gone
  BY <1>3 DEF PagerState, Put
<1> HIDE DEF rp, q
<1>8. gone \in PagerState
  BY <1>3, <1>4, <1>5 DEF PagerState
<1>10. /\ gone.pages = stored.pages
      /\ gone.file = stored.file
      /\ gone.frames = stored.frames /\ gone.pageTables = stored.pageTables
      /\ gone.residentPages = rp
      /\ gone.loadedFrameQueue = q
      /\ gone.frameClock = stored.frameClock
      /\ gone.pagesPagedIn = stored.pagesPagedIn
      /\ gone.pagesPagedOut = s.pagesPagedOut + 1
      /\ gone.thrown = stored.thrown
  BY <1>3 DEF PagerState
<1> HIDE DEF gone
<1>12. t = ResetFrames(gone, {f})
  BY <1>6, <1>7
<1>11. /\ t \in PagerState
       /\ t.frames = [g \in Frame |-> IF g \in {f} THEN FreeFrame ELSE gone.frames[g]]
       /\ t.file = gone.file /\ t.pageTables = gone.pageTables
       /\ t.residentPages = gone.residentPages
       /\ t.loadedFrameQueue = gone.loadedFrameQueue
       /\ t.frameClock = gone.frameClock
       /\ t.pagesPagedIn = gone.pagesPagedIn /\ t.pagesPagedOut = gone.pagesPagedOut
       /\ t.pages = gone.pages /\ t.thrown = gone.thrown
  BY <1>8, <1>12, ResetFramesFields
<1>13. /\ t.frames = PutOne(s.frames, f, FreeFrame)
       /\ t.pages = Put(s.pages, p, v, b)
       /\ FileIn(t.file, t.pages, s.file)
       /\ t.residentPages = rp
       /\ t.loadedFrameQueue = q
       /\ t.pageTables = s.pageTables
       /\ t.frameClock = s.frameClock
       /\ t.pagesPagedIn = s.pagesPagedIn
       /\ t.pagesPagedOut = s.pagesPagedOut + 1
       /\ t.thrown = s.thrown
  BY <1>3, <1>9, <1>10, <1>11 DEF FileIn
<1> QED
  BY <1>11, <1>12, <1>13 DEF p, v, b, rp, q, Without

\* EnsureVirtualPageMapped only grows the page table of the process.
LEMMA MappedFields ==
  ASSUME NEW s \in PagerState, NEW p \in Pid, NEW v \in Page,
         NEW t, t = EnsureVirtualPageMapped(s, p, v)
  PROVE  /\ t \in PagerState
         /\ \A o \in Pid : t.pageTables[o] >= s.pageTables[o]
         /\ t.pageTables[p] # 0
         /\ \A o \in Pid \ {p} : t.pageTables[o] = s.pageTables[o]
         /\ t.pages = s.pages /\ t.file = s.file /\ t.frames = s.frames
         /\ t.residentPages = s.residentPages
         /\ t.loadedFrameQueue = s.loadedFrameQueue
         /\ t.frameClock = s.frameClock
         /\ t.pagesPagedIn = s.pagesPagedIn /\ t.pagesPagedOut = s.pagesPagedOut
         /\ t.thrown = s.thrown
<1> DEFINE n == IF s.pageTables[p] < v + 1 THEN v + 1 ELSE s.pageTables[p]
           pt == [s.pageTables EXCEPT ![p] = n]
<1>1. s.pageTables \in [Pid -> Nat] /\ v \in Nat
  BY PageNotEmpty DEF PagerState
<1>2. pt \in [Pid -> Nat]
  BY <1>1
<1>3. /\ \A o \in Pid : pt[o] >= s.pageTables[o]
      /\ pt[p] # 0
      /\ \A o \in Pid \ {p} : pt[o] = s.pageTables[o]
  BY <1>1
<1>4. t = [s EXCEPT !.pageTables = pt]
  BY DEF EnsureVirtualPageMapped, PagerState
<1> HIDE DEF pt
<1> QED
  BY <1>2, <1>3, <1>4 DEF PagerState

\* The frame PageIn fills.
FilledFrame(s, p, v) ==
    [occupied |-> TRUE, processId |-> p, virtualPage |-> v,
     loadedAt |-> s.frameClock + 1,
     bytes |-> IF StoredPage(s, p, v) = NoPage THEN ZeroPage ELSE StoredPage(s, p, v)]

\* DemandPager::PageIn, field by field.
LEMMA PageInFields ==
  ASSUME NEW s \in PagerState, NEW p \in Pid, NEW v \in Page, NEW f \in Frame,
         NEW t, t = PageIn(s, p, v, f)
  PROVE  /\ t \in PagerState
         /\ t.frames = PutOne(s.frames, f, FilledFrame(s, p, v))
         /\ t.pages = Put(s.pages, p, v, StoredPage(s, p, v))
         /\ t.residentPages = Put(s.residentPages, p, v, f)
         /\ t.loadedFrameQueue = Append(s.loadedFrameQueue, f)
         /\ t.frameClock = s.frameClock + 1
         /\ t.pagesPagedIn = s.pagesPagedIn + 1
         /\ t.pagesPagedOut = s.pagesPagedOut
         /\ t.pageTables = s.pageTables
         /\ t.file = s.file /\ t.thrown = s.thrown
<1> DEFINE stored == StoredPage(s, p, v)
           filled == FilledFrame(s, p, v)
           fr == PutOne(s.frames, f, filled)
           pg == Put(s.pages, p, v, stored)
           rp == Put(s.residentPages, p, v, f)
           q == Append(s.loadedFrameQueue, f)
<1>1. stored \in PageBytes \cup {NoPage}
  BY DEF StoredPage, PagerState, Store
<1>2. filled \in PageFrame
  <2>1. s.frameClock + 1 \in Nat
    BY DEF PagerState
  <2> HIDE DEF stored
  <2> QED
    BY <1>1, <2>1, ConstantTypes DEF FilledFrame, PageFrame, stored
<1>3. t = [s EXCEPT !.frameClock = s.frameClock + 1, !.frames = fr, !.pages = pg,
                    !.residentPages = rp, !.loadedFrameQueue = q,
                    !.pagesPagedIn = s.pagesPagedIn + 1]
  BY DEF PageIn, PagerState, Put, PutOne, FilledFrame, RecordFrameLoad
<1> HIDE DEF stored, filled
<1>4. fr \in [Frame -> PageFrame]
  BY <1>2 DEF PagerState, PutOne
<1>5. pg \in Store
  BY <1>1 DEF PagerState, Store, Put
<1>6. rp \in [Pid -> [Page -> Frame \cup {NoFrame}]]
  BY DEF PagerState, Put
<1>7. q \in Seq(Frame) /\ s.frameClock + 1 \in Nat /\ s.pagesPagedIn + 1 \in Nat
  BY DEF PagerState
<1> HIDE DEF fr, pg, rp, q
<1>8. t \in PagerState
  BY <1>3, <1>4, <1>5, <1>6, <1>7 DEF PagerState
<1>9. /\ t.frames = fr /\ t.pages = pg /\ t.residentPages = rp
      /\ t.loadedFrameQueue = q
      /\ t.frameClock = s.frameClock + 1 /\ t.pagesPagedIn = s.pagesPagedIn + 1
      /\ t.pagesPagedOut = s.pagesPagedOut /\ t.pageTables = s.pageTables
      /\ t.file = s.file /\ t.thrown = s.thrown
  BY <1>3 DEF PagerState
<1> QED
  BY <1>8, <1>9 DEF fr, pg, rp, q, stored, filled

\* FindFreeFrameIndex returns a free frame when there is one.
LEMMA LowestFrameType ==
  ASSUME NEW F \in SUBSET Frame, F # {}
  PROVE  LowestFrame(F) \in F
<1>1. F \subseteq Nat /\ F # {}
  BY DEF Frame
<1>2. \E x \in F : \A y \in F : ~ (<<y, x>> \in OpToRel(<, Nat))
  BY <1>1, NatLessThanWellFounded, WFMin, Zenon
<1>3. PICK x \in F : \A y \in F : ~(y < x)
  BY <1>1, <1>2 DEF OpToRel
<1>4. \A y \in F : x <= y
  BY <1>1, <1>3
<1> QED
  BY <1>4 DEF LowestFrame

\* DemandPager::WriteByte changes one byte of a resident page.
LEMMA WriteByteFields ==
  ASSUME NEW s \in PagerState, NEW p \in Pid, NEW a, PageOf(a) \in Page,
         OffsetOf(a) \in Offset, IsPageResident(s, p, PageOf(a)), NEW byte \in Byte,
         NEW t, t = WriteByte(s, p, a, byte)
  PROVE  LET f == s.residentPages[p][PageOf(a)]
         IN  /\ t \in PagerState
             /\ f \in Frame
             /\ t.frames = Poke(s.frames, f, OffsetOf(a), byte)
             /\ t.pages = s.pages /\ t.file = s.file /\ t.pageTables = s.pageTables
             /\ t.residentPages = s.residentPages
             /\ t.loadedFrameQueue = s.loadedFrameQueue
             /\ t.frameClock = s.frameClock
             /\ t.pagesPagedIn = s.pagesPagedIn /\ t.pagesPagedOut = s.pagesPagedOut
             /\ t.thrown = s.thrown
<1> DEFINE f == s.residentPages[p][PageOf(a)]
           b == [s.frames[f].bytes EXCEPT ![OffsetOf(a)] = byte]
           fr == [s.frames EXCEPT ![f].bytes = b]
<1>1. f \in Frame
  BY DEF PagerState, IsPageResident
<1>2. s.frames \in [Frame -> PageFrame]
  BY DEF PagerState
<1>3. t = [s EXCEPT !.frames = fr]
  BY DEF WriteByte
<1>4. fr = Poke(s.frames, f, OffsetOf(a), byte)
  BY DEF Poke
<1> HIDE DEF f
<1>5. b \in PageBytes
  <2>1. s.frames[f].bytes \in PageBytes
    BY <1>1, <1>2 DEF PageFrame
  <2> QED
    BY <2>1 DEF PageBytes
<1> HIDE DEF b
<1>6. fr \in [Frame -> PageFrame]
  BY <1>1, <1>2, <1>5 DEF PageFrame
<1> HIDE DEF fr
<1>7. /\ t \in PagerState
      /\ t.frames = fr
      /\ t.pages = s.pages /\ t.file = s.file /\ t.pageTables = s.pageTables
      /\ t.residentPages = s.residentPages
      /\ t.loadedFrameQueue = s.loadedFrameQueue
      /\ t.frameClock = s.frameClock
      /\ t.pagesPagedIn = s.pagesPagedIn /\ t.pagesPagedOut = s.pagesPagedOut
      /\ t.thrown = s.thrown
  BY <1>3, <1>6 DEF PagerState
<1> QED
  BY <1>1, <1>4, <1>7 DEF f

\* DemandPager::ReleaseProcessPages, field by field.
LEMMA ReleaseFields ==
  ASSUME NEW s \in PagerState, NEW p \in Pid, NEW w,
         NEW t, t = ReleaseProcessPages(s, p, w)
  PROVE  /\ t \in PagerState
         /\ t.frames = Freed(s.frames, ResidentFrames(s, p))
         /\ t.pages = PutOne(s.pages, p, NoPages)
         /\ FileIn(t.file, t.pages, s.file)
         /\ t.residentPages = PutOne(s.residentPages, p, NoFrames)
         /\ t.loadedFrameQueue = RecordFrameEviction(s.loadedFrameQueue,
                                                     ResidentFrames(s, p))
         /\ t.pageTables = PutOne(s.pageTables, p, 0)
         /\ t.frameClock = s.frameClock
         /\ t.pagesPagedIn = s.pagesPagedIn /\ t.pagesPagedOut = s.pagesPagedOut
         /\ t.thrown = s.thrown
<1> DEFINE F == ResidentFrames(s, p)
           q == RecordFrameEviction(s.loadedFrameQueue, F)
           rp == [s.residentPages EXCEPT ![p] = [v \in Page |-> NoFrame]]
           pt == [s.pageTables EXCEPT ![p] = 0]
           pg == [s.pages EXCEPT ![p] = [v \in Page |-> NoPage]]
           gone == [s EXCEPT !.loadedFrameQueue = q, !.residentPages = rp,
                             !.pageTables = pt]
           reset == ResetFrames(gone, F)
           clean == [reset EXCEPT !.pages = pg]
<1>1. q \in Seq(Frame)
  BY EvictionSelects DEF PagerState
<1>2. rp \in [Pid -> [Page -> Frame \cup {NoFrame}]] /\ pt \in [Pid -> Nat]
  BY DEF PagerState
<1>3. pg \in Store
  BY DEF PagerState, Store
<1>4. t = WriteFile([ResetFrames(gone, F) EXCEPT !.pages[p] = [v \in Page |-> NoPage]], w)
  BY DEF ReleaseProcessPages, RemovePagesForProcess
<1> HIDE DEF F, q, rp, pt
<1>5. /\ gone \in PagerState
      /\ gone.frames = s.frames /\ gone.pages = s.pages /\ gone.file = s.file
      /\ gone.residentPages = rp /\ gone.loadedFrameQueue = q /\ gone.pageTables = pt
      /\ gone.frameClock = s.frameClock
      /\ gone.pagesPagedIn = s.pagesPagedIn /\ gone.pagesPagedOut = s.pagesPagedOut
      /\ gone.thrown = s.thrown
  BY <1>1, <1>2 DEF PagerState
<1> HIDE DEF gone
<1>6. reset = ResetFrames(gone, F)
  OBVIOUS
<1> HIDE DEF reset
<1>7. /\ reset \in PagerState
      /\ reset.frames = [f \in Frame |-> IF f \in F THEN FreeFrame ELSE gone.frames[f]]
      /\ reset.file = gone.file /\ reset.pageTables = gone.pageTables
      /\ reset.residentPages = gone.residentPages
      /\ reset.loadedFrameQueue = gone.loadedFrameQueue
      /\ reset.frameClock = gone.frameClock
      /\ reset.pagesPagedIn = gone.pagesPagedIn
      /\ reset.pagesPagedOut = gone.pagesPagedOut
      /\ reset.pages = gone.pages /\ reset.thrown = gone.thrown
  BY <1>5, <1>6, ResetFramesFields
<1>8. [reset EXCEPT !.pages[p] = [v \in Page |-> NoPage]] = clean
  BY <1>5, <1>7 DEF PagerState
<1> HIDE DEF pg
<1>9. /\ clean \in PagerState
      /\ clean.frames = reset.frames /\ clean.file = reset.file
      /\ clean.pages = pg
      /\ clean.residentPages = reset.residentPages
      /\ clean.loadedFrameQueue = reset.loadedFrameQueue
      /\ clean.pageTables = reset.pageTables
      /\ clean.frameClock = reset.frameClock
      /\ clean.pagesPagedIn = reset.pagesPagedIn
      /\ clean.pagesPagedOut = reset.pagesPagedOut
      /\ clean.thrown = reset.thrown
  BY <1>3, <1>7 DEF PagerState
<1>10. t = WriteFile(clean, w)
  BY <1>4, <1>6, <1>8
<1> HIDE DEF clean
<1>11. /\ t \in PagerState
       /\ FileIn(t.file, clean.pages, clean.file)
       /\ t.frames = clean.frames /\ t.pageTables = clean.pageTables
       /\ t.residentPages = clean.residentPages
       /\ t.loadedFrameQueue = clean.loadedFrameQueue
       /\ t.frameClock = clean.frameClock
       /\ t.pagesPagedIn = clean.pagesPagedIn
       /\ t.pagesPagedOut = clean.pagesPagedOut
       /\ t.pages = clean.pages /\ t.thrown = clean.thrown
  BY <1>9, <1>10, WriteFileFields
<1>12. /\ t.pages = pg /\ FileIn(t.file, t.pages, s.file)
       /\ t.frames = [f \in Frame |-> IF f \in F THEN FreeFrame ELSE s.frames[f]]
       /\ t.residentPages = rp /\ t.loadedFrameQueue = q /\ t.pageTables = pt
       /\ t.frameClock = s.frameClock
       /\ t.pagesPagedIn = s.pagesPagedIn /\ t.pagesPagedOut = s.pagesPagedOut
       /\ t.thrown = s.thrown
  BY <1>5, <1>7, <1>9, <1>11 DEF FileIn
<1> QED
  BY <1>11, <1>12 DEF F, q, rp, pt, pg, PutOne, Freed, NoFrames, NoPages

-----------------------------------------------------------------------------
Good(s) == s \in PagerState /\ Consistent(s) /\ Ordered(s)

\* Taking frames out of the queue and resetting them keeps the queue exact.
LEMMA EvictionOrdered ==
  ASSUME NEW s \in PagerState, Ordered(s), NEW F, NEW t \in PagerState,
         t.frames = [f \in Frame |-> IF f \in F THEN FreeFrame ELSE s.frames[f]],
         t.loadedFrameQueue = RecordFrameEviction(s.loadedFrameQueue, F),
         t.frameClock = s.frameClock
  PROVE  Ordered(t)
<1> DEFINE q == s.loadedFrameQueue
           r == t.loadedFrameQueue
<1>1. q \in Seq(Frame) /\ r \in Seq(Frame) /\ s.frameClock \in Nat
  BY DEF PagerState
<1>2. PICK h : Selects(h, r, q, Len(q), F)
  BY <1>1, EvictionSelects
<1>3. /\ h \in [1..Len(r) -> 1..Len(q)]
      /\ \A i \in 1..Len(r) : r[i] = q[h[i]] /\ q[h[i]] \notin F
      /\ \A i, j \in 1..Len(r) : i < j => h[i] < h[j]
      /\ \A k \in 1..Len(q) : q[k] \notin F => \E i \in 1..Len(r) : h[i] = k
  BY <1>2 DEF Selects
<1>4. /\ \A f \in Frame \ F : t.frames[f] = s.frames[f]
      /\ \A f \in Frame \cap F : t.frames[f] = FreeFrame
  OBVIOUS
<1>5. FreeFrame.occupied = FALSE /\ FreeFrame.loadedAt = 0
  BY DEF FreeFrame
<1>6. /\ \A i, j \in 1..Len(q) : i < j => s.frames[q[i]].loadedAt < s.frames[q[j]].loadedAt
      /\ \A f \in Frame : s.frames[f].occupied <=> \E i \in 1..Len(q) : q[i] = f
      /\ \A f \in Frame : s.frames[f].loadedAt <= s.frameClock
  BY DEF Ordered
<1>7. \A i \in 1..Len(r) : r[i] \in Frame /\ h[i] \in 1..Len(q)
  BY <1>1, <1>3
<1> HIDE DEF q, r
<1>8. ASSUME NEW i \in 1..Len(r), NEW j \in 1..Len(r), i < j
      PROVE  t.frames[r[i]].loadedAt < t.frames[r[j]].loadedAt
  <2>1. t.frames[r[i]] = s.frames[q[h[i]]] /\ t.frames[r[j]] = s.frames[q[h[j]]]
    BY <1>3, <1>4, <1>7
  <2> QED
    BY <2>1, <1>3, <1>6, <1>7, <1>8
<1>9. ASSUME NEW f \in Frame
      PROVE  t.frames[f].occupied <=> \E i \in 1..Len(r) : r[i] = f
  <2>1. CASE f \in F
    <3>1. ~t.frames[f].occupied
      BY <2>1, <1>4, <1>5
    <3>2. \A i \in 1..Len(r) : r[i] # f
      BY <2>1, <1>3
    <3> QED
      BY <3>1, <3>2
  <2>2. CASE f \notin F
    <3>1. t.frames[f].occupied <=> \E k \in 1..Len(q) : q[k] = f
      BY <2>2, <1>4, <1>6
    <3>2. ASSUME NEW k \in 1..Len(q), q[k] = f PROVE \E i \in 1..Len(r) : r[i] = f
      BY <2>2, <3>2, <1>3
    <3>3. ASSUME NEW i \in 1..Len(r), r[i] = f PROVE \E k \in 1..Len(q) : q[k] = f
      BY <3>3, <1>3, <1>7
    <3> QED
      BY <3>1, <3>2, <3>3
  <2> QED
    BY <2>1, <2>2
<1>10. ASSUME NEW f \in Frame PROVE t.frames[f].loadedAt <= t.frameClock
  BY <1>1, <1>4, <1>5, <1>6
<1> QED
  BY <1>8, <1>9, <1>10 DEF Ordered, r

\* PageOut of an occupied frame.
LEMMA PageOutGood ==
  ASSUME NEW s, Good(s), NEW f \in Frame, s.frames[f].occupied, NEW w,
         NEW t, t = PageOut(s, f, w)
  PROVE  /\ Good(t)
         /\ ~t.frames[f].occupied
         /\ \A p \in Pid, v \in Page :
               s.residentPages[p][v] = NoFrame => t.residentPages[p][v] = NoFrame
<1> DEFINE p == s.frames[f].processId
           v == s.frames[f].virtualPage
<1>1. s \in PagerState /\ Consistent(s) /\ Ordered(s)
  BY DEF Good
<1>2. /\ t \in PagerState
      /\ t.frames = PutOne(s.frames, f, FreeFrame)
      /\ t.residentPages = Put(s.residentPages, p, v, NoFrame)
      /\ t.loadedFrameQueue = Without(s.loadedFrameQueue, f)
      /\ t.frameClock = s.frameClock
  BY <1>1, PageOutFields
<1>3. /\ s.frames \in [Frame -> PageFrame]
      /\ s.residentPages \in [Pid -> [Page -> Frame \cup {NoFrame}]]
  BY <1>1 DEF PagerState
<1>4. p \in Pid /\ v \in Page /\ s.residentPages[p][v] = f
  BY <1>1, <1>3 DEF Consistent, Occupied, PageFrame
<1>5. FreeFrame.occupied = FALSE
  BY DEF FreeFrame
<1> HIDE DEF p, v
<1>6. /\ t.residentPages[p][v] = NoFrame
      /\ \A p1 \in Pid, v1 \in Page :
            p1 # p \/ v1 # v => t.residentPages[p1][v1] = s.residentPages[p1][v1]
  BY <1>2, <1>3, <1>4 DEF Put
<1>7. /\ t.frames[f] = FreeFrame
      /\ \A g \in Frame \ {f} : t.frames[g] = s.frames[g]
  BY <1>2, <1>3 DEF PutOne
<1>8. ASSUME NEW p1 \in Pid, NEW v1 \in Page, t.residentPages[p1][v1] # NoFrame
      PROVE  /\ t.frames[t.residentPages[p1][v1]].occupied
             /\ t.frames[t.residentPages[p1][v1]].processId = p1
             /\ t.frames[t.residentPages[p1][v1]].virtualPage = v1
  <2> DEFINE g == s.residentPages[p1][v1]
  <2>1. t.residentPages[p1][v1] = g /\ (p1 # p \/ v1 # v) /\ g # NoFrame
    BY <1>6, <1>8
  <2>2. s.frames[g].occupied /\ s.frames[g].processId = p1 /\ s.frames[g].virtualPage = v1
    BY <2>1, <1>1 DEF Consistent
  <2>3. g # f
    BY <2>1, <2>2 DEF p, v
  <2>4. g \in Frame
    BY <2>1, <1>3
  <2> QED
    BY <2>1, <2>2, <2>3, <2>4, <1>7
<1>9. ASSUME NEW g \in Frame, t.frames[g].occupied
      PROVE  /\ t.frames[g].processId \in Pid
             /\ t.residentPages[t.frames[g].processId][t.frames[g].virtualPage] = g
  <2>1. g # f
    BY <1>5, <1>7, <1>9
  <2>2. t.frames[g] = s.frames[g]
    BY <2>1, <1>7
  <2>3. /\ s.frames[g].processId \in Pid
        /\ s.residentPages[s.frames[g].processId][s.frames[g].virtualPage] = g
    BY <2>2, <1>1, <1>9 DEF Consistent, Occupied
  <2>4. s.frames[g].virtualPage \in Page
    BY <1>3 DEF PageFrame
  <2>5. s.frames[g].processId # p \/ s.frames[g].virtualPage # v
    BY <2>1, <2>3, <1>4
  <2> QED
    BY <2>2, <2>3, <2>4, <2>5, <1>6
<1>10. Consistent(t)
  BY <1>8, <1>9 DEF Consistent, Occupied
<1>11. Ordered(t)
  <2>1. t.frames = [g \in Frame |-> IF g \in {f} THEN FreeFrame ELSE s.frames[g]]
    BY <1>2, <1>3 DEF PutOne
  <2> QED
    BY <2>1, <1>1, <1>2, EvictionOrdered DEF Without
<1> QED
  BY <1>2, <1>5, <1>6, <1>7, <1>10, <1>11 DEF Good

\* PageIn of a page that is not resident into a free frame.
LEMMA PageInGood ==
  ASSUME NEW s, Good(s), NEW p \in Pid, NEW v \in Page, NEW f \in Frame,
         ~s.frames[f].occupied, s.residentPages[p][v] = NoFrame,
         NEW t, t = PageIn(s, p, v, f)
  PROVE  /\ Good(t)
         /\ t.residentPages[p][v] = f
<1>1. s \in PagerState /\ Consistent(s) /\ Ordered(s)
  BY DEF Good
<1>2. /\ t \in PagerState
      /\ t.frames = PutOne(s.frames, f, FilledFrame(s, p, v))
      /\ t.residentPages = Put(s.residentPages, p, v, f)
      /\ t.loadedFrameQueue = Append(s.loadedFrameQueue, f)
      /\ t.frameClock = s.frameClock + 1
  BY <1>1, PageInFields
<1>3. /\ s.frames \in [Frame -> PageFrame]
      /\ s.residentPages \in [Pid -> [Page -> Frame \cup {NoFrame}]]
      /\ s.loadedFrameQueue \in Seq(Frame)
      /\ s.frameClock \in Nat
  BY <1>1 DEF PagerState
<1>4. /\ t.residentPages[p][v] = f
      /\ \A p1 \in Pid, v1 \in Page :
            p1 # p \/ v1 # v => t.residentPages[p1][v1] = s.residentPages[p1][v1]
  BY <1>2, <1>3 DEF Put
<1>5. /\ t.frames[f].occupied /\ t.frames[f].processId = p /\ t.frames[f].virtualPage = v
      /\ t.frames[f].loadedAt = s.frameClock + 1
      /\ \A g \in Frame \ {f} : t.frames[g] = s.frames[g]
  BY <1>2, <1>3 DEF FilledFrame, PutOne
<1>6. ASSUME NEW p1 \in Pid, NEW v1 \in Page, t.residentPages[p1][v1] # NoFrame
      PROVE  /\ t.frames[t.residentPages[p1][v1]].occupied
             /\ t.frames[t.residentPages[p1][v1]].processId = p1
             /\ t.frames[t.residentPages[p1][v1]].virtualPage = v1
  <2>1. CASE p1 = p /\ v1 = v
    BY <2>1, <1>4, <1>5
  <2>2. CASE p1 # p \/ v1 # v
    <3> DEFINE g == s.residentPages[p1][v1]
    <3>1. t.residentPages[p1][v1] = g /\ g # NoFrame
      BY <2>2, <1>4, <1>6
    <3>2. s.frames[g].occupied /\ s.frames[g].processId = p1 /\ s.frames[g].virtualPage = v1
      BY <3>1, <1>1 DEF Consistent
    <3>3. g # f /\ g \in Frame
      BY <3>1, <3>2, <1>3
    <3> QED
      BY <3>1, <3>2, <3>3, <1>5
  <2> QED
    BY <2>1, <2>2
<1>7. ASSUME NEW g \in Frame, t.frames[g].occupied
      PROVE  /\ t.frames[g].processId \in Pid
             /\ t.residentPages[t.frames[g].processId][t.frames[g].virtualPage] = g
  <2>1. CASE g = f
    BY <2>1, <1>4, <1>5
  <2>2. CASE g # f
    <3>1. t.frames[g] = s.frames[g]
      BY <2>2, <1>5
    <3>2. /\ s.frames[g].processId \in Pid
          /\ s.residentPages[s.frames[g].processId][s.frames[g].virtualPage] = g
      BY <3>1, <1>1, <1>7 DEF Consistent, Occupied
    <3>3. s.frames[g].virtualPage \in Page
      BY <1>3 DEF PageFrame
    <3>4. s.frames[g].processId # p \/ s.frames[g].virtualPage # v
      BY <3>2, <1>3 DEF NoFrame, Frame
    <3> QED
      BY <3>1, <3>2, <3>3, <3>4, <1>4
  <2> QED
    BY <2>1, <2>2
<1>8. Consistent(t)
  BY <1>6, <1>7 DEF Consistent, Occupied
<1> DEFINE q == s.loadedFrameQueue
           r == t.loadedFrameQueue
           n == Len(q)
<1>9. /\ n \in Nat /\ Len(r) = n + 1 /\ r[n + 1] = f
      /\ \A i \in 1..n : r[i] = q[i] /\ q[i] \in Frame
  BY <1>2, <1>3, AppendProperties
<1>10. /\ \A i, j \in 1..n : i < j => s.frames[q[i]].loadedAt < s.frames[q[j]].loadedAt
       /\ \A g \in Frame : s.frames[g].occupied <=> \E i \in 1..n : q[i] = g
       /\ \A g \in Frame : s.frames[g].loadedAt <= s.frameClock
       /\ \A g \in Frame : s.frames[g].loadedAt \in Nat
  BY <1>1, <1>3 DEF Ordered, PageFrame
<1> HIDE DEF q, r, n
<1>11. \A i \in 1..n : q[i] # f
  BY <1>10
<1>12. ASSUME NEW i \in 1..(n + 1), NEW j \in 1..(n + 1), i < j
       PROVE  t.frames[r[i]].loadedAt < t.frames[r[j]].loadedAt
  <2>1. i \in 1..n
    BY <1>9, <1>12
  <2>2. t.frames[r[i]] = s.frames[q[i]] /\ q[i] \in Frame
    BY <2>1, <1>5, <1>9, <1>11
  <2>3. CASE j = n + 1
    <3>1. t.frames[r[j]].loadedAt = s.frameClock + 1
      BY <2>3, <1>5, <1>9
    <3> QED
      BY <2>2, <3>1, <1>3, <1>10
  <2>4. CASE j # n + 1
    <3>1. j \in 1..n
      BY <2>4, <1>9
    <3>2. t.frames[r[j]] = s.frames[q[j]]
      BY <3>1, <1>5, <1>9, <1>11
    <3> QED
      BY <2>1, <2>2, <3>1, <3>2, <1>10, <1>12
  <2> QED
    BY <2>3, <2>4
<1>13. ASSUME NEW g \in Frame
       PROVE  t.frames[g].occupied <=> \E i \in 1..(n + 1) : r[i] = g
  <2>1. CASE g = f
    BY <2>1, <1>5, <1>9
  <2>2. CASE g # f
    <3>1. t.frames[g].occupied <=> \E i \in 1..n : q[i] = g
      BY <2>2, <1>5, <1>10
    <3>2. ASSUME NEW i \in 1..n, q[i] = g PROVE \E j \in 1..(n + 1) : r[j] = g
      BY <3>2, <1>9
    <3>3. ASSUME NEW j \in 1..(n + 1), r[j] = g PROVE \E i \in 1..n : q[i] = g
      <4>1. j \in 1..n
        BY <2>2, <3>3, <1>9
      <4> QED
        BY <4>1, <3>3, <1>9
    <3> QED
      BY <3>1, <3>2, <3>3
  <2> QED
    BY <2>1, <2>2
<1>14. ASSUME NEW g \in Frame PROVE t.frames[g].loadedAt <= t.frameClock
  BY <1>2, <1>3, <1>5, <1>10
<1>15. Ordered(t)
  BY <1>9, <1>12, <1>13, <1>14 DEF Ordered, r
<1> QED
  BY <1>2, <1>4, <1>8, <1>15 DEF Good

\* Every frame is in use, and this one was loaded before all others.
Oldest(s, f) ==
  /\ \A g \in Frame : s.frames[g].occupied
  /\ \A g \in Frame : g # f => s.frames[f].loadedAt < s.frames[g].loadedAt

\* With every frame in use SelectVictimFrame takes the one that was loaded first.
LEMMA HeadIsOldest ==
  ASSUME NEW s \in PagerState, Ordered(s), FreeFrames(s) = {}
  PROVE  Oldest(s, SelectVictimFrame(s.loadedFrameQueue))
<1> DEFINE q == s.loadedFrameQueue
<1>1. q \in Seq(Frame)
  BY DEF PagerState
<1>2. \A g \in Frame : s.frames[g].occupied
  BY DEF FreeFrames
<1>3. ASSUME NEW g \in Frame, g # Head(q)
      PROVE  s.frames[Head(q)].loadedAt < s.frames[g].loadedAt
  <2>1. PICK j \in 1..Len(q) : q[j] = g
    BY <1>2 DEF Ordered
  <2>2. Head(q) = q[1] /\ 1 \in 1..Len(q) /\ 1 < j
    BY <1>1, <1>3, <2>1
  <2> QED
    BY <2>1, <2>2 DEF Ordered
<1> QED
  BY <1>2, <1>3 DEF Oldest, SelectVictimFrame

\* With every frame in use the queue is not empty, so that LoadPage always finds
\* a frame and SelectVictimFrame is not called on an empty queue: the page is
\* mapped (m), the frame f is free or freed (o), and the page is loaded into it.
LEMMA LoadPageCases ==
  ASSUME NEW s, Good(s), NEW p \in Pid, NEW v \in Page,
         s.residentPages[p][v] = NoFrame, NEW w, NEW t, t = LoadPage(s, p, v, w)
  PROVE  \E f \in Frame : \E m, o :
            /\ m = EnsureVirtualPageMapped(s, p, v) /\ Good(m)
            /\ \/ ~m.frames[f].occupied /\ o = m
               \/ Oldest(m, f) /\ m.frames[f].occupied /\ o = PageOut(m, f, w)
            /\ Good(o) /\ ~o.frames[f].occupied /\ o.residentPages[p][v] = NoFrame
            /\ t = PageIn(o, p, v, f)
<1> DEFINE m == EnsureVirtualPageMapped(s, p, v)
<1>1. s \in PagerState /\ Consistent(s) /\ Ordered(s)
  BY DEF Good
<1>2. m = EnsureVirtualPageMapped(s, p, v)
  OBVIOUS
<1>3. t = IF FreeFrames(s) # {} THEN PageIn(m, p, v, LowestFrame(FreeFrames(s)))
          ELSE IF s.loadedFrameQueue = << >> THEN [m EXCEPT !.thrown = TRUE]
          ELSE PageIn(PageOut(m, SelectVictimFrame(s.loadedFrameQueue), w), p, v,
                      SelectVictimFrame(s.loadedFrameQueue))
  BY DEF LoadPage
<1> HIDE DEF m
<1>4. /\ m \in PagerState /\ m.frames = s.frames
      /\ m.residentPages = s.residentPages
      /\ m.loadedFrameQueue = s.loadedFrameQueue
      /\ m.frameClock = s.frameClock /\ m.thrown = s.thrown
  BY <1>1, <1>2, MappedFields
<1>5. Good(m)
  <2>1. Consistent(m)
    BY <1>1, <1>4 DEF Consistent, Occupied
  <2>2. Ordered(m)
    BY <1>1, <1>4 DEF Ordered
  <2> QED
    BY <2>1, <2>2, <1>4 DEF Good
<1>6. CASE FreeFrames(s) # {}
  <2> DEFINE f == LowestFrame(FreeFrames(s))
  <2>1. f \in Frame /\ ~s.frames[f].occupied
    <3>1. FreeFrames(s) \in SUBSET Frame
      BY DEF FreeFrames
    <3>2. f \in FreeFrames(s)
      BY <3>1, <1>6, LowestFrameType
    <3> QED
      BY <3>2 DEF FreeFrames
  <2>2. t = PageIn(m, p, v, f)
    BY <1>3, <1>6
  <2> HIDE DEF f
  <2> QED
    BY <2>1, <2>2, <1>2, <1>4, <1>5
<1>7. CASE FreeFrames(s) = {}
  <2> DEFINE q == s.loadedFrameQueue
             f == SelectVictimFrame(q)
             o == PageOut(m, f, w)
  <2>1. q \in Seq(Frame)
    BY <1>1 DEF PagerState
  <2>2. q # << >>
    <3>1. 0 \in Frame
      BY FrameAssumption DEF Frame
    <3>2. s.frames[0].occupied
      BY <3>1, <1>7 DEF FreeFrames
    <3>3. \E i \in 1..Len(q) : q[i] = 0
      BY <3>1, <3>2, <1>1 DEF Ordered
    <3> QED
      BY <3>3, <2>1
  <2>3. t = PageIn(o, p, v, f) /\ o = PageOut(m, f, w)
    BY <1>3, <1>7, <2>2
  <2>4. f \in Frame
    BY <2>1, <2>2 DEF SelectVictimFrame
  <2>7. Oldest(s, f)
    BY <1>1, <1>7, HeadIsOldest
  <2> HIDE DEF q, f, o
  <2>8. Oldest(m, f)
    BY <2>7, <1>4 DEF Oldest
  <2>5. m.frames[f].occupied
    BY <2>4, <1>4, <1>7 DEF FreeFrames
  <2>6. Good(o) /\ ~o.frames[f].occupied /\ o.residentPages[p][v] = NoFrame
    BY <2>3, <2>4, <2>5, <1>4, <1>5, PageOutGood
  <2> QED
    BY <2>3, <2>4, <2>5, <2>6, <2>8, <1>2, <1>5
<1> QED
  BY <1>6, <1>7

\* DemandPager::LoadPage loads the page and throws nothing.
LEMMA LoadPageGood ==
  ASSUME NEW s, Good(s), NEW p \in Pid, NEW v \in Page,
         s.residentPages[p][v] = NoFrame, NEW w, NEW t, t = LoadPage(s, p, v, w)
  PROVE  /\ Good(t)
         /\ t.thrown = s.thrown
         /\ t.residentPages[p][v] # NoFrame
<1>1. PICK f \in Frame : \E m, o :
            /\ m = EnsureVirtualPageMapped(s, p, v) /\ Good(m)
            /\ o = m \/ (m.frames[f].occupied /\ o = PageOut(m, f, w))
            /\ Good(o) /\ ~o.frames[f].occupied /\ o.residentPages[p][v] = NoFrame
            /\ t = PageIn(o, p, v, f)
  BY LoadPageCases
<1>2. PICK m, o :
            /\ m = EnsureVirtualPageMapped(s, p, v) /\ Good(m)
            /\ o = m \/ (m.frames[f].occupied /\ o = PageOut(m, f, w))
            /\ Good(o) /\ ~o.frames[f].occupied /\ o.residentPages[p][v] = NoFrame
            /\ t = PageIn(o, p, v, f)
  BY <1>1
<1>3. s \in PagerState /\ m \in PagerState /\ o \in PagerState
  BY <1>2 DEF Good
<1>4. m.thrown = s.thrown
  BY <1>2, <1>3, MappedFields
<1>5. o.thrown = m.thrown
  BY <1>2, <1>3, PageOutFields
<1>6. t.thrown = o.thrown
  BY <1>2, <1>3, PageInFields
<1>7. Good(t) /\ t.residentPages[p][v] = f
  BY <1>2, PageInGood
<1>8. f # NoFrame
  BY DEF NoFrame, Frame
<1> QED
  BY <1>4, <1>5, <1>6, <1>7, <1>8

\* An address splits into a page of the virtual memory and an offset in a frame.
LEMMA AddressSplit ==
  ASSUME NEW a \in Address
  PROVE  PageOf(a) \in Page /\ OffsetOf(a) \in Offset
<1> DEFINE n == VirtualBytes \div FrameSize
           d == a \div FrameSize
           m == a % FrameSize
<1>1. FrameSize \in Nat \ {0} /\ VirtualBytes \in Nat \ {0}
  BY FrameAssumption, VirtualAssumption
<1>2. a \in Nat /\ a < VirtualBytes
  BY <1>1 DEF Address
<1>3. d \in Nat /\ m \in 0..(FrameSize - 1) /\ a = FrameSize * d + m
  BY <1>1, <1>2
<1>4. n \in Nat /\ VirtualBytes = FrameSize * n
  BY PageNotEmpty, VirtualAssumption DEF PageLimit
<1> HIDE DEF n, d, m
<1>5. d < n
  <2> SUFFICES ASSUME n <= d PROVE FALSE
    BY <1>3, <1>4
  <2>1. PICK k \in Nat : d = n + k
    BY <1>3, <1>4, d - n \in Nat
  <2>2. FrameSize * d = FrameSize * n + FrameSize * k
    BY <2>1, <1>1, <1>4
  <2>3. FrameSize * k >= 0
    BY <2>1, <1>1
  <2> QED
    BY <2>2, <2>3, <1>1, <1>2, <1>3, <1>4
<1> QED
  BY <1>3, <1>4, <1>5 DEF PageOf, OffsetOf, Page, PageLimit, Offset, n, d, m

\* One round of the loop of EnsurePagesResident.
LEMMA TouchGood ==
  ASSUME NEW s, Good(s), NEW p \in Pid, NEW v \in Page, NEW w,
         NEW t, t = Touch(s, p, v, w)
  PROVE  Good(t) /\ t.thrown = s.thrown
<1>1. CASE s.residentPages[p][v] # NoFrame
  BY <1>1 DEF Touch, IsPageResident
<1>2. CASE s.residentPages[p][v] = NoFrame
  <2>1. t = LoadPage(s, p, v, w)
    BY <1>2 DEF Touch, IsPageResident
  <2> QED
    BY <1>2, <2>1, LoadPageGood
<1> QED
  BY <1>1, <1>2

\* EnsurePagesResident for the two pages of a word.
LEMMA TouchBothGood ==
  ASSUME NEW s, Good(s), NEW p \in Pid, NEW a \in Address, a + 1 \in Address,
         NEW w1, NEW w2, NEW t, t = TouchBoth(s, p, a, w1, w2)
  PROVE  Good(t) /\ t.thrown = s.thrown
<1> DEFINE u == TouchFirst(s, p, a, w1)
<1>1. PageOf(a) \in Page /\ PageOf(a + 1) \in Page
  BY AddressSplit
<1>2. u = Touch(s, p, PageOf(a), w1)
  BY DEF TouchFirst, FirstPage
<1>3. t = u \/ t = Touch(u, p, PageOf(a + 1), w2)
  BY DEF TouchBoth, LastPage
<1> HIDE DEF u
<1>4. Good(u) /\ u.thrown = s.thrown
  BY <1>1, <1>2, TouchGood
<1> QED
  BY <1>1, <1>3, <1>4, TouchGood

\* The mapping and the queue do not depend on the bytes in the frames.
LEMMA WriteByteGood ==
  ASSUME NEW s, Good(s), NEW p \in Pid, NEW a \in Address, NEW byte \in Byte,
         IsPageResident(s, p, PageOf(a)), NEW t, t = WriteByte(s, p, a, byte)
  PROVE  Good(t) /\ t.thrown = s.thrown /\ t.residentPages = s.residentPages
<1> DEFINE f == s.residentPages[p][PageOf(a)]
<1>1. s \in PagerState /\ Consistent(s) /\ Ordered(s)
  BY DEF Good
<1>2. PageOf(a) \in Page /\ OffsetOf(a) \in Offset
  BY AddressSplit
<1>3. /\ t \in PagerState
      /\ f \in Frame
      /\ t.frames = Poke(s.frames, f, OffsetOf(a), byte)
      /\ t.residentPages = s.residentPages
      /\ t.loadedFrameQueue = s.loadedFrameQueue
      /\ t.frameClock = s.frameClock
      /\ t.thrown = s.thrown
  BY <1>1, <1>2, WriteByteFields
<1> HIDE DEF f
<1>4. ASSUME NEW g \in Frame
      PROVE  /\ t.frames[g].occupied = s.frames[g].occupied
             /\ t.frames[g].processId = s.frames[g].processId
             /\ t.frames[g].virtualPage = s.frames[g].virtualPage
             /\ t.frames[g].loadedAt = s.frames[g].loadedAt
  <2>1. s.frames \in [Frame -> PageFrame]
    BY <1>1 DEF PagerState
  <2> QED
    BY <1>3, <2>1 DEF Poke, PageFrame
<1>5. s.residentPages \in [Pid -> [Page -> Frame \cup {NoFrame}]] /\ s.loadedFrameQueue \in Seq(Frame)
  BY <1>1 DEF PagerState
<1>6. Consistent(t)
  <2>1. ASSUME NEW p1 \in Pid, NEW v1 \in Page, t.residentPages[p1][v1] # NoFrame
        PROVE  /\ t.frames[t.residentPages[p1][v1]].occupied
               /\ t.frames[t.residentPages[p1][v1]].processId = p1
               /\ t.frames[t.residentPages[p1][v1]].virtualPage = v1
    <3>1. s.residentPages[p1][v1] \in Frame
      BY <2>1, <1>3, <1>5
    <3> QED
      BY <2>1, <3>1, <1>1, <1>3, <1>4 DEF Consistent
  <2>2. ASSUME NEW g \in Frame, t.frames[g].occupied
        PROVE  /\ t.frames[g].processId \in Pid
               /\ t.residentPages[t.frames[g].processId][t.frames[g].virtualPage] = g
    BY <2>2, <1>1, <1>3, <1>4 DEF Consistent, Occupied
  <2> QED
    BY <2>1, <2>2 DEF Consistent, Occupied
<1>7. Ordered(t)
  BY <1>1, <1>3, <1>4, <1>5 DEF Ordered
<1> QED
  BY <1>3, <1>6, <1>7 DEF Good

\* Release takes exactly the frames of the process, by Consistent.
LEMMA ReleaseGood ==
  ASSUME NEW s, Good(s), NEW p \in Pid, NEW w,
         NEW t, t = ReleaseProcessPages(s, p, w)
  PROVE  Good(t) /\ t.thrown = s.thrown
<1> DEFINE F == ResidentFrames(s, p)
<1>1. s \in PagerState /\ Consistent(s) /\ Ordered(s)
  BY DEF Good
<1>2. /\ t \in PagerState
      /\ t.frames = Freed(s.frames, F)
      /\ t.residentPages = PutOne(s.residentPages, p, NoFrames)
      /\ t.loadedFrameQueue = RecordFrameEviction(s.loadedFrameQueue, F)
      /\ t.frameClock = s.frameClock
      /\ t.thrown = s.thrown
  BY <1>1, ReleaseFields
<1>3. Ordered(t)
  BY <1>1, <1>2, EvictionOrdered DEF Freed
<1>4. /\ s.residentPages \in [Pid -> [Page -> Frame \cup {NoFrame}]]
      /\ s.frames \in [Frame -> PageFrame]
  BY <1>1 DEF PagerState
<1>5. /\ \A v \in Page : t.residentPages[p][v] = NoFrame
      /\ \A p1 \in Pid \ {p} : t.residentPages[p1] = s.residentPages[p1]
  BY <1>2, <1>4 DEF PutOne, NoFrames
<1>6. /\ \A f \in Frame \cap F : ~t.frames[f].occupied
      /\ \A f \in Frame \ F : t.frames[f] = s.frames[f]
  BY <1>2 DEF FreeFrame, Freed
<1>7. \A f \in Frame : f \in F => s.frames[f].processId = p
  BY <1>1 DEF ResidentFrames, Consistent
<1>8. \A f \in Frame : s.frames[f].occupied /\ s.frames[f].processId = p => f \in F
  <2> SUFFICES ASSUME NEW f \in Frame, s.frames[f].occupied, s.frames[f].processId = p
               PROVE  f \in F
    OBVIOUS
  <2>1. s.residentPages[p][s.frames[f].virtualPage] = f
    BY <1>1 DEF Consistent, Occupied
  <2>2. s.frames[f].virtualPage \in Page
    BY <1>4 DEF PageFrame
  <2>3. f # NoFrame
    BY DEF NoFrame, Frame
  <2> QED
    BY <2>1, <2>2, <2>3 DEF ResidentFrames
<1> HIDE DEF F
<1>9. ASSUME NEW p1 \in Pid, NEW v1 \in Page, t.residentPages[p1][v1] # NoFrame
      PROVE  /\ t.frames[t.residentPages[p1][v1]].occupied
             /\ t.frames[t.residentPages[p1][v1]].processId = p1
             /\ t.frames[t.residentPages[p1][v1]].virtualPage = v1
  <2> DEFINE g == s.residentPages[p1][v1]
  <2>1. p1 # p /\ t.residentPages[p1][v1] = g /\ g # NoFrame
    BY <1>5, <1>9
  <2>2. s.frames[g].occupied /\ s.frames[g].processId = p1 /\ s.frames[g].virtualPage = v1
    BY <2>1, <1>1 DEF Consistent
  <2>3. g \in Frame
    BY <2>1, <1>4
  <2> QED
    BY <2>1, <2>2, <2>3, <1>6, <1>7
<1>10. ASSUME NEW g \in Frame, t.frames[g].occupied
       PROVE  /\ t.frames[g].processId \in Pid
              /\ t.residentPages[t.frames[g].processId][t.frames[g].virtualPage] = g
  <2>1. g \notin F /\ t.frames[g] = s.frames[g]
    BY <1>6, <1>10
  <2>2. /\ s.frames[g].processId \in Pid
        /\ s.residentPages[s.frames[g].processId][s.frames[g].virtualPage] = g
    BY <2>1, <1>1, <1>10 DEF Consistent, Occupied
  <2>3. s.frames[g].processId # p
    BY <2>1, <1>8, <1>10
  <2> QED
    BY <2>1, <2>2, <2>3, <1>5
<1>11. Consistent(t)
  BY <1>9, <1>10 DEF Consistent, Occupied
<1> QED
  BY <1>2, <1>3, <1>11 DEF Good

-----------------------------------------------------------------------------
\* The inductive invariant.  The queue decides which frame is evicted, residentPages
\* which frames a release frees, so neither half is inductive without the other.
PagingInv == TypeOK /\ Good(pager) /\ ~pager.thrown

\* The program starts with every frame free and an empty queue.
LEMMA InitPagingInv == Init => PagingInv
<1> SUFFICES ASSUME Init PROVE PagingInv
  OBVIOUS
<1>1. pager = InitPager /\ instructionRetryPending = {} /\ retired = {} /\ reply = NoReply
  BY DEF Init
<1>2. pager \in PagerState
  <2>1. [f \in Frame |-> FreeFrame] \in [Frame -> PageFrame]
    BY ConstantTypes
  <2>2. [p \in Pid |-> [v \in Page |-> NoFrame]] \in [Pid -> [Page -> Frame \cup {NoFrame}]]
    OBVIOUS
  <2>3. << >> \in Seq(Frame)
    OBVIOUS
  <2> QED
    BY <1>1, <2>1, <2>2, <2>3, ConstantTypes DEF InitPager, PagerState
<1>3. /\ \A f \in Frame : ~pager.frames[f].occupied /\ pager.frames[f].loadedAt = 0
      /\ \A p \in Pid, v \in Page : pager.residentPages[p][v] = NoFrame
      /\ pager.loadedFrameQueue = << >> /\ pager.frameClock = 0
      /\ pager.thrown = FALSE
  BY <1>1 DEF InitPager, FreeFrame
<1>4. Consistent(pager)
  BY <1>3 DEF Consistent, Occupied
<1>5. Ordered(pager)
  BY <1>3 DEF Ordered
<1>6. TypeOK
  BY <1>1, <1>2, Zeros DEF TypeOK, Replies, NoReply
<1> QED
  BY <1>2, <1>3, <1>4, <1>5, <1>6 DEF PagingInv, Good

\* Whatever MemoryManager answers is a known result with a 16-bit value.
LEMMA ReplyTypes ==
  /\ NoReply \in Replies
  /\ \A b \in BOOLEAN : Outcome(b) \in Replies
  /\ Result("AccessViolation") \in Replies
  /\ Result("PageFaultRetry") \in Replies
  /\ Result("Success") \in Replies
BY Zeros DEF NoReply, Outcome, Result, Replies

\* A valid access touches two addresses of the virtual memory.
LEMMA ValidAddress ==
  ASSUME NEW s, NEW p \in Pid, NEW a \in Address, IsAddressValid(s, p, a)
  PROVE  a + 1 \in Address
BY VirtualAssumption DEF IsAddressValid, Address

\* The bytes read are bytes, so the word they make up has 16 bits.
LEMMA WordType ==
  ASSUME NEW low \in Byte, NEW high \in Byte
  PROVE  Word(low, high) \in UInt16
<1>1. MaxByte = 255
  BY DEF MaxByte
<1> HIDE DEF MaxByte
<1>2. /\ low \in Int /\ 0 <= low /\ low <= MaxByte
      /\ high \in Int /\ 0 <= high /\ high <= MaxByte
  BY <1>1 DEF Byte
<1>3. /\ high * 256 + low \in Int
      /\ 0 <= high * 256 + low /\ high * 256 + low <= 256 * MaxByte + MaxByte
  BY <1>1, <1>2
<1>4. /\ Word(low, high) \in Int
      /\ 0 <= Word(low, high) /\ Word(low, high) <= MaxWord
  BY <1>3 DEF Word, MaxWord
<1> QED
  BY <1>4, Zeros DEF UInt16

\* A written word splits into two bytes.
LEMMA ByteTypes ==
  ASSUME NEW val \in Value
  PROVE  LowByte(val) \in Byte /\ HighByte(val) \in Byte
<1>1. MaxByte = 255
  BY DEF MaxByte
<1>2. val \in Int /\ 0 <= val /\ val <= MaxWord
  <2>1. MaxWord \in Int
    BY <1>1 DEF MaxWord
  <2> QED
    BY <2>1, ValueAssumption DEF UInt16
<1>3. val <= 65535
  BY <1>1, <1>2 DEF MaxWord
<1>4. /\ val % 256 \in Int /\ 0 <= val % 256 /\ val % 256 <= 255
      /\ val \div 256 \in Int /\ 0 <= val \div 256 /\ val \div 256 <= 255
  BY <1>2, <1>3
<1>5. ASSUME NEW n \in Int, 0 <= n, n <= MaxByte PROVE n \in 0..MaxByte
  BY <1>1, <1>5
<1> QED
  BY <1>1, <1>4, <1>5 DEF LowByte, HighByte, Byte

\* What an access reads is a byte.
LEMMA ReadByteType ==
  ASSUME NEW s \in PagerState, NEW p \in Pid, NEW a \in Address,
         IsPageResident(s, p, PageOf(a))
  PROVE  ReadByte(s, p, a) \in Byte
<1>1. PageOf(a) \in Page /\ OffsetOf(a) \in Offset
  BY AddressSplit
<1>2. s.residentPages[p][PageOf(a)] \in Frame
  BY <1>1 DEF IsPageResident, PagerState
<1>3. s.frames[s.residentPages[p][PageOf(a)]].bytes \in PageBytes
  BY <1>2 DEF PagerState, PageFrame
<1> QED
  BY <1>1, <1>3 DEF ReadByte, PageBytes

\* Every operation of MemoryManager preserves the invariant.
LEMMA NextPagingInv == PagingInv /\ [Next]_vars => PagingInv'
<1> SUFFICES ASSUME PagingInv, [Next]_vars PROVE PagingInv'
  OBVIOUS
<1>1. /\ Good(pager) /\ pager \in PagerState /\ ~pager.thrown
      /\ instructionRetryPending \subseteq Pid /\ retired \subseteq Pid
      /\ reply \in Replies
  BY DEF PagingInv, TypeOK
\* An action that leaves the pager good and the rest in range.
<1>2. ASSUME Good(pager'), pager'.thrown = pager.thrown,
             instructionRetryPending' \subseteq Pid, retired' \subseteq Pid,
             reply' \in Replies
      PROVE  PagingInv'
  BY <1>1, <1>2 DEF PagingInv, TypeOK, Good
<1>3. CASE UNCHANGED vars
  BY <1>3 DEF PagingInv, TypeOK, Good, vars
<1>4. ASSUME NEW p \in Pid, NEW m \in MemorySize, RegisterProcess(p, m)
      PROVE  PagingInv'
  <2>1. CASE pager' = pager
    BY <2>1, <1>1, <1>2, <1>4, ReplyTypes DEF RegisterProcess
  <2>2. CASE pager' # pager
    <3> DEFINE n == m \div FrameSize
    <3>1. pager' = [pager EXCEPT !.pageTables[p] = n] /\ n > 0
      BY <2>2, <1>4 DEF RegisterProcess
    <3>2. n \in Nat
      <4>1. m \in Nat /\ FrameSize \in Nat \ {0}
        BY MemorySizeAssumption, FrameAssumption
      <4> QED
        BY <4>1
    <3> HIDE DEF n
    <3>3. /\ pager' \in PagerState
          /\ pager'.frames = pager.frames /\ pager'.residentPages = pager.residentPages
          /\ pager'.loadedFrameQueue = pager.loadedFrameQueue
          /\ pager'.frameClock = pager.frameClock
          /\ pager'.thrown = pager.thrown
      BY <3>1, <3>2, <1>1 DEF PagerState
    <3>4. Good(pager')
      BY <3>3, <1>1 DEF Good, Consistent, Occupied, Ordered
    <3>5. reply' \in Replies
      BY <1>4, ReplyTypes DEF RegisterProcess
    <3> QED
      BY <3>3, <3>4, <3>5, <1>1, <1>2, <1>4 DEF RegisterProcess
  <2> QED
    BY <2>1, <2>2
<1>5. ASSUME NEW p \in Pid, NEW w \in FileOutcome, ReleaseProcessMemory(p, w)
      PROVE  PagingInv'
  <2>1. pager' = ReleaseProcessPages(pager, p, w)
    BY <1>5 DEF ReleaseProcessMemory
  <2>2. Good(pager') /\ pager'.thrown = pager.thrown
    BY <2>1, <1>1, ReleaseGood
  <2> QED
    BY <2>2, <1>1, <1>2, <1>5, ReplyTypes DEF ReleaseProcessMemory
<1>6. ASSUME NEW p \in Pid, ResetPageFaultRetryFlag(p) PROVE PagingInv'
  BY <1>1, <1>2, <1>6, ReplyTypes DEF ResetPageFaultRetryFlag
<1>7. ASSUME NEW p \in Pid, ConsumePageFaultRetryFlag(p) PROVE PagingInv'
  <2>1. /\ pager' = pager /\ retired' = retired
        /\ instructionRetryPending' = instructionRetryPending \ {p}
        /\ reply' = Outcome(p \in instructionRetryPending)
    BY <1>7 DEF ConsumePageFaultRetryFlag
  <2>2. reply' \in Replies
    BY <2>1, Zeros DEF Outcome, Result, Replies
  <2>3. Good(pager') /\ pager'.thrown = pager.thrown
    BY <2>1, <1>1
  <2> QED
    BY <2>1, <2>2, <2>3, <1>1, <1>2
<1>8. ASSUME NEW p \in Pid, NEW a \in Address, RefuseAccess(p, a) PROVE PagingInv'
  BY <1>1, <1>2, <1>8, ReplyTypes DEF RefuseAccess
<1>9. ASSUME NEW p \in Pid, NEW a \in Address, NEW w1 \in FileOutcome,
             NEW w2 \in FileOutcome, FaultAccess(p, a, w1, w2)
      PROVE  PagingInv'
  <2>1. pager' = TouchBoth(pager, p, a, w1, w2) /\ a + 1 \in Address
    BY <1>9, ValidAddress DEF FaultAccess
  <2>2. Good(pager') /\ pager'.thrown = pager.thrown
    BY <2>1, <1>1, TouchBothGood
  <2> QED
    BY <2>2, <1>1, <1>2, <1>9, ReplyTypes DEF FaultAccess
<1>10. ASSUME NEW p \in Pid, NEW a \in Address, ReadProcessMemory(p, a)
       PROVE  PagingInv'
  <2>1. /\ a + 1 \in Address
        /\ IsPageResident(pager, p, PageOf(a)) /\ IsPageResident(pager, p, PageOf(a + 1))
    BY <1>10, ValidAddress DEF ReadProcessMemory, CanAccess, FirstPage, LastPage
  <2>2. ReadByte(pager, p, a) \in Byte /\ ReadByte(pager, p, a + 1) \in Byte
    BY <2>1, <1>1, ReadByteType
  <2>3. Word(ReadByte(pager, p, a), ReadByte(pager, p, a + 1)) \in UInt16
    BY <2>2, WordType
  <2>4. reply' \in Replies
    <3> DEFINE n == Word(ReadByte(pager, p, a), ReadByte(pager, p, a + 1))
    <3>1. reply' = [result |-> "Success", value |-> n]
      BY <1>10 DEF ReadProcessMemory
    <3>2. n \in UInt16
      BY <2>3
    <3> HIDE DEF n
    <3> QED
      BY <3>1, <3>2 DEF Replies
  <2> QED
    BY <2>4, <1>1, <1>2, <1>10 DEF ReadProcessMemory
<1>11. ASSUME NEW p \in Pid, NEW a \in Address, NEW val \in Value,
              WriteProcessMemory(p, a, val)
       PROVE  PagingInv'
  <2> DEFINE u == WriteByte(pager, p, a, LowByte(val))
  <2>1. /\ a + 1 \in Address
        /\ IsPageResident(pager, p, PageOf(a)) /\ IsPageResident(pager, p, PageOf(a + 1))
    BY <1>11, ValidAddress DEF WriteProcessMemory, CanAccess, FirstPage, LastPage
  <2>2. LowByte(val) \in Byte /\ HighByte(val) \in Byte
    BY ByteTypes
  <2>3. pager' = WriteByte(u, p, a + 1, HighByte(val)) /\ u = WriteByte(pager, p, a, LowByte(val))
    BY <1>11 DEF WriteProcessMemory
  <2> HIDE DEF u
  <2>4. Good(u) /\ u.thrown = pager.thrown /\ u.residentPages = pager.residentPages
    BY <2>1, <2>2, <2>3, <1>1, WriteByteGood
  <2>5. IsPageResident(u, p, PageOf(a + 1))
    BY <2>1, <2>4 DEF IsPageResident
  <2>6. Good(pager') /\ pager'.thrown = u.thrown
    BY <2>1, <2>2, <2>3, <2>4, <2>5, WriteByteGood
  <2> QED
    BY <2>4, <2>6, <1>1, <1>2, <1>11, ReplyTypes DEF WriteProcessMemory
<1> QED
  BY <1>3, <1>4, <1>5, <1>6, <1>7, <1>8, <1>9, <1>10, <1>11 DEF Next

\* Every operation of MemoryManager keeps the invariant, from the start.
LEMMA PagingInvariant == Spec => []PagingInv
BY InitPagingInv, NextPagingInv, PTL DEF Spec

\* Type correctness: every structure of the pager stays in its range, every reply
\* is one the instructions know.
THEOREM TypeCorrect == Spec => []TypeOK
BY PagingInvariant, PTL DEF PagingInv

\* DemandPager's two structures, the frames and residentPages, describe the same
\* mapping after every operation.
THEOREM MappingConsistent == Spec => []ResidencyConsistent
<1>1. PagingInv => ResidencyConsistent
  BY DEF PagingInv, Good, ResidencyConsistent
<1> QED
  BY <1>1, PagingInvariant, PTL

\* The queue of FIFOPageReplacement holds the occupied frames in load order.
THEOREM QueueCorrect == Spec => []QueueExact
<1>1. PagingInv => QueueExact
  BY DEF PagingInv, Good, QueueExact
<1> QED
  BY <1>1, PagingInvariant, PTL

\* SelectVictimFrame's exception, which nothing catches, is never thrown.
THEOREM NoUncaughtException == Spec => []NeverThrows
<1>1. PagingInv => NeverThrows
  BY DEF PagingInv, NeverThrows
<1> QED
  BY <1>1, PagingInvariant, PTL

-----------------------------------------------------------------------------
(***************************************************************************)
(* The replacement policy and the statistics.  Loaded(s, t, p, v, f) says  *)
(* what one LoadPage from s to t does to the frames, the mapping and the   *)
(* counters: the frame f, which was free or the oldest, is the newest and  *)
(* holds page v of p.                                                      *)
(***************************************************************************)
Loaded(s, t, p, v, f) ==
  /\ s.frames[f].occupied => Oldest(s, f)
  /\ \A g \in Frame :
        /\ t.frames[g].loadedAt = IF g = f THEN s.frameClock + 1
                                  ELSE s.frames[g].loadedAt
        /\ t.frames[g].occupied <=> g = f \/ s.frames[g].occupied
  /\ t.residentPages[p][v] = f
  /\ \A x \in Page : s.residentPages[p][x] \notin {f, NoFrame} =>
        t.residentPages[p][x] # NoFrame
  /\ t.frameClock = s.frameClock + 1
  /\ t.pagesPagedIn = s.pagesPagedIn + 1
  /\ t.pagesPagedOut = s.pagesPagedOut + (IF s.frames[f].occupied THEN 1 ELSE 0)

\* DemandPager::LoadPage takes a free frame, or else the frame loaded first.
LEMMA LoadPageStep ==
  ASSUME NEW s, Good(s), NEW p \in Pid, NEW v \in Page,
         s.residentPages[p][v] = NoFrame, NEW w, NEW t, t = LoadPage(s, p, v, w)
  PROVE  \E f \in Frame : Loaded(s, t, p, v, f)
<1>1. PICK f \in Frame : \E m, o :
            /\ m = EnsureVirtualPageMapped(s, p, v) /\ Good(m)
            /\ \/ ~m.frames[f].occupied /\ o = m
               \/ Oldest(m, f) /\ m.frames[f].occupied /\ o = PageOut(m, f, w)
            /\ Good(o) /\ ~o.frames[f].occupied /\ o.residentPages[p][v] = NoFrame
            /\ t = PageIn(o, p, v, f)
  BY LoadPageCases
<1>2. PICK m, o :
            /\ m = EnsureVirtualPageMapped(s, p, v) /\ Good(m)
            /\ \/ ~m.frames[f].occupied /\ o = m
               \/ Oldest(m, f) /\ m.frames[f].occupied /\ o = PageOut(m, f, w)
            /\ Good(o) /\ ~o.frames[f].occupied /\ o.residentPages[p][v] = NoFrame
            /\ t = PageIn(o, p, v, f)
  BY <1>1
<1>3. s \in PagerState /\ m \in PagerState /\ o \in PagerState
  BY <1>2 DEF Good
<1>4. /\ m.frames = s.frames /\ m.residentPages = s.residentPages
      /\ m.frameClock = s.frameClock
      /\ m.pagesPagedIn = s.pagesPagedIn /\ m.pagesPagedOut = s.pagesPagedOut
  BY <1>2, <1>3, MappedFields
<1>5. /\ t.frames = PutOne(o.frames, f, FilledFrame(o, p, v))
      /\ t.residentPages = Put(o.residentPages, p, v, f)
      /\ t.frameClock = o.frameClock + 1
      /\ t.pagesPagedIn = o.pagesPagedIn + 1
      /\ t.pagesPagedOut = o.pagesPagedOut
  BY <1>2, <1>3, PageInFields
<1>6. /\ \A u \in {s, o} : /\ u.frames \in [Frame -> PageFrame]
                           /\ u.residentPages \in [Pid -> [Page -> Frame \cup {NoFrame}]]
                           /\ u.frameClock \in Nat
                           /\ u.pagesPagedIn \in Nat /\ u.pagesPagedOut \in Nat
  BY <1>3 DEF PagerState
<1>7. f # NoFrame
  BY DEF NoFrame, Frame
<1>8. /\ \A g \in Frame : g # f => o.frames[g] = s.frames[g]
      /\ o.frameClock = s.frameClock /\ o.pagesPagedIn = s.pagesPagedIn
      /\ o.pagesPagedOut = s.pagesPagedOut + (IF s.frames[f].occupied THEN 1 ELSE 0)
      /\ s.frames[f].occupied => Oldest(s, f)
      /\ \A x \in Page : s.residentPages[p][x] \notin {f, NoFrame} =>
            o.residentPages[p][x] = s.residentPages[p][x]
  <2>1. CASE ~m.frames[f].occupied /\ o = m
    BY <2>1, <1>4, <1>6
  <2>2. CASE Oldest(m, f) /\ m.frames[f].occupied /\ o = PageOut(m, f, w)
    <3> DEFINE q == s.frames[f].processId
               y == s.frames[f].virtualPage
    <3>1. /\ o.frames = PutOne(s.frames, f, FreeFrame)
          /\ o.residentPages = Put(s.residentPages, q, y, NoFrame)
          /\ o.frameClock = s.frameClock
          /\ o.pagesPagedIn = s.pagesPagedIn
          /\ o.pagesPagedOut = s.pagesPagedOut + 1
      BY <2>2, <1>3, <1>4, PageOutFields
    <3>2. q \in Pid /\ y \in Page /\ s.residentPages[q][y] = f
      <4>1. Consistent(s) /\ f \in Occupied(s)
        BY <2>2, <1>4 DEF Good, Occupied
      <4>2. y \in Page
        BY <1>6 DEF PageFrame
      <4> QED
        BY <4>1, <4>2 DEF Consistent
    <3> HIDE DEF q, y
    <3>3. ASSUME NEW x \in Page, s.residentPages[p][x] \notin {f, NoFrame}
          PROVE  o.residentPages[p][x] = s.residentPages[p][x]
      <4>1. ~(q = p /\ y = x)
        BY <3>2, <3>3
      <4> QED
        BY <4>1, <3>1, <3>2, <1>6 DEF Put
    <3>4. \A g \in Frame : g # f => o.frames[g] = s.frames[g]
      BY <3>1, <1>6 DEF PutOne
    <3>5. Oldest(s, f) /\ s.frames[f].occupied
      BY <2>2, <1>4 DEF Oldest
    <3> QED
      BY <3>1, <3>3, <3>4, <3>5
  <2> QED
    BY <1>2, <2>1, <2>2
<1>9. ASSUME NEW g \in Frame
      PROVE  /\ t.frames[g].loadedAt = IF g = f THEN s.frameClock + 1
                                       ELSE s.frames[g].loadedAt
             /\ t.frames[g].occupied <=> g = f \/ s.frames[g].occupied
  <2>1. t.frames[g] = IF g = f THEN FilledFrame(o, p, v) ELSE s.frames[g]
    BY <1>5, <1>6, <1>8 DEF PutOne
  <2>2. FilledFrame(o, p, v).loadedAt = s.frameClock + 1 /\ FilledFrame(o, p, v).occupied
    BY <1>8 DEF FilledFrame
  <2> QED
    BY <2>1, <2>2
<1>10. t.residentPages[p][v] = f
  BY <1>5, <1>6 DEF Put
<1>11. ASSUME NEW x \in Page, s.residentPages[p][x] \notin {f, NoFrame}
       PROVE  t.residentPages[p][x] # NoFrame
  BY <1>5, <1>6, <1>7, <1>8, <1>11 DEF Put
<1> QED
  BY <1>5, <1>8, <1>9, <1>10, <1>11 DEF Loaded

\* One round of EnsurePagesResident: nothing, or a LoadPage.
LEMMA TouchStep ==
  ASSUME NEW s, Good(s), NEW p \in Pid, NEW v \in Page, NEW w,
         NEW t, t = Touch(s, p, v, w)
  PROVE  /\ Good(t)
         /\ \/ t = s /\ s.residentPages[p][v] # NoFrame
            \/ s.residentPages[p][v] = NoFrame /\ \E f \in Frame : Loaded(s, t, p, v, f)
<1>1. Good(t)
  BY TouchGood
<1>2. CASE s.residentPages[p][v] # NoFrame
  BY <1>1, <1>2 DEF Touch, IsPageResident
<1>3. CASE s.residentPages[p][v] = NoFrame
  <2>1. t = LoadPage(s, p, v, w)
    BY <1>3 DEF Touch, IsPageResident
  <2> QED
    BY <1>1, <1>3, <2>1, LoadPageStep
<1> QED
  BY <1>2, <1>3

\* EnsurePagesResident is one or two such rounds.
LEMMA TouchBothSteps ==
  ASSUME NEW s, NEW p \in Pid, NEW a \in Address, a + 1 \in Address,
         NEW w1, NEW w2, NEW t, t = TouchBoth(s, p, a, w1, w2)
  PROVE  \E u : /\ u = Touch(s, p, PageOf(a), w1)
                /\ t = u \/ t = Touch(u, p, PageOf(a + 1), w2)
BY DEF TouchBoth, TouchFirst, FirstPage, LastPage

-----------------------------------------------------------------------------
\* A frame whose load time differs was taken for another page, or freed.
Taken(s, t, f) == t.frames[f].loadedAt # s.frames[f].loadedAt

\* From s to t no frame is taken before a frame that was loaded earlier, a frame
\* that is taken gets a later load time, and no frame is freed.
TakesOldest(s, t) ==
  /\ \A f, g \in Occupied(s) :
        Taken(s, t, f) /\ s.frames[g].loadedAt < s.frames[f].loadedAt => Taken(s, t, g)
  /\ \A f \in Occupied(s) :
        f \in Occupied(t) /\ s.frames[f].loadedAt <= t.frames[f].loadedAt

\* One fault takes a free frame or the oldest one.
LEMMA TouchTakesOldest ==
  ASSUME NEW s, Good(s), NEW p \in Pid, NEW v \in Page, NEW w,
         NEW t, t = Touch(s, p, v, w)
  PROVE  TakesOldest(s, t)
<1>1. /\ \A f \in Frame : s.frames[f].loadedAt \in Nat /\ s.frames[f].loadedAt <= s.frameClock
      /\ s.frameClock \in Nat
  <2>1. s \in PagerState /\ Ordered(s)
    BY DEF Good
  <2>2. s.frames \in [Frame -> PageFrame] /\ s.frameClock \in Nat
    BY <2>1 DEF PagerState
  <2> QED
    BY <2>1, <2>2 DEF Ordered, PageFrame
<1>2. CASE t = s
  BY <1>1, <1>2 DEF TakesOldest, Taken, Occupied
<1>3. ASSUME NEW f \in Frame, Loaded(s, t, p, v, f) PROVE TakesOldest(s, t)
  <2>1. \A g \in Frame :
          /\ t.frames[g].loadedAt = IF g = f THEN s.frameClock + 1 ELSE s.frames[g].loadedAt
          /\ t.frames[g].occupied <=> g = f \/ s.frames[g].occupied
    BY <1>3 DEF Loaded
  <2>2. ASSUME NEW h \in Occupied(s), NEW g \in Occupied(s), Taken(s, t, h),
               s.frames[g].loadedAt < s.frames[h].loadedAt
        PROVE  FALSE
    <3>1. h = f /\ h \in Frame /\ g \in Frame /\ s.frames[h].occupied
      BY <2>1, <2>2 DEF Taken, Occupied
    <3>2. Oldest(s, f)
      BY <3>1, <1>3 DEF Loaded
    <3>3. s.frames[f].loadedAt < s.frames[g].loadedAt
      BY <3>1, <3>2, <2>2, <1>1 DEF Oldest
    <3> QED
      BY <3>1, <3>3, <2>2, <1>1
  <2>3. ASSUME NEW h \in Occupied(s)
        PROVE  h \in Occupied(t) /\ s.frames[h].loadedAt <= t.frames[h].loadedAt
    BY <2>1, <2>3, <1>1 DEF Occupied
  <2> QED
    BY <2>2, <2>3 DEF TakesOldest
<1> QED
  BY <1>2, <1>3, TouchStep

\* Two faults in a row: the second takes the oldest of what the first left.
LEMMA TakesOldestTwice ==
  ASSUME NEW s \in PagerState, NEW u \in PagerState, NEW t \in PagerState,
         TakesOldest(s, u), TakesOldest(u, t)
  PROVE  TakesOldest(s, t)
<1>1. \A f \in Frame : /\ s.frames[f].loadedAt \in Nat /\ u.frames[f].loadedAt \in Nat
                       /\ t.frames[f].loadedAt \in Nat
  <2>1. \A x \in {s, u, t} : x.frames \in [Frame -> PageFrame]
    BY DEF PagerState
  <2> QED
    BY <2>1 DEF PageFrame
<1>2. \A f \in Occupied(s) : f \in Frame /\ f \in Occupied(u)
  BY DEF TakesOldest, Occupied
<1>3. ASSUME NEW f \in Occupied(s), NEW g \in Occupied(s), Taken(s, t, f),
             s.frames[g].loadedAt < s.frames[f].loadedAt
      PROVE  Taken(s, t, g)
  <2>1. /\ s.frames[g].loadedAt <= u.frames[g].loadedAt
        /\ u.frames[g].loadedAt <= t.frames[g].loadedAt
    BY <1>2 DEF TakesOldest
  <2>2. CASE Taken(s, u, g)
    BY <2>1, <2>2, <1>1, <1>2 DEF Taken
  <2>3. CASE ~Taken(s, u, g)
    <3>1. ~Taken(s, u, f)
      BY <2>3, <1>3 DEF TakesOldest
    <3>2. Taken(u, t, f) /\ u.frames[g].loadedAt < u.frames[f].loadedAt
      BY <3>1, <2>3, <1>3 DEF Taken
    <3>3. Taken(u, t, g)
      BY <3>2, <1>2 DEF TakesOldest
    <3> QED
      BY <3>3, <2>3 DEF Taken
  <2> QED
    BY <2>2, <2>3
<1>4. ASSUME NEW f \in Occupied(s)
      PROVE  f \in Occupied(t) /\ s.frames[f].loadedAt <= t.frames[f].loadedAt
  <2>1. /\ f \in Occupied(u) /\ s.frames[f].loadedAt <= u.frames[f].loadedAt
        /\ f \in Occupied(t) /\ u.frames[f].loadedAt <= t.frames[f].loadedAt
    BY <1>2 DEF TakesOldest
  <2> QED
    BY <2>1, <1>1, <1>2
<1> QED
  BY <1>3, <1>4 DEF TakesOldest

\* The faults of one access.
LEMMA TouchBothTakesOldest ==
  ASSUME NEW s, Good(s), NEW p \in Pid, NEW a \in Address, a + 1 \in Address,
         NEW w1, NEW w2, NEW t, t = TouchBoth(s, p, a, w1, w2)
  PROVE  TakesOldest(s, t)
<1>1. PICK u : u = Touch(s, p, PageOf(a), w1) /\ (t = u \/ t = Touch(u, p, PageOf(a + 1), w2))
  BY TouchBothSteps
<1>2. PageOf(a) \in Page /\ PageOf(a + 1) \in Page
  BY AddressSplit
<1>3. Good(u) /\ TakesOldest(s, u)
  BY <1>1, <1>2, TouchGood, TouchTakesOldest
<1>4. CASE t = u
  BY <1>3, <1>4
<1>5. CASE t = Touch(u, p, PageOf(a + 1), w2)
  <2>1. Good(t) /\ TakesOldest(u, t)
    BY <1>2, <1>3, <1>5, TouchGood, TouchTakesOldest
  <2> QED
    BY <1>3, <2>1, TakesOldestTwice DEF Good
<1> QED
  BY <1>1, <1>4, <1>5

\* A step that keeps the load times takes nothing.
LEMMA NothingTaken ==
  ASSUME \A f \in Frame : pager'.frames[f].loadedAt = pager.frames[f].loadedAt
  PROVE  EvictsOldest
BY DEF EvictsOldest, Occupied

\* WriteProcessMemory changes bytes, not load times.
LEMMA WriteByteKeepsTimes ==
  ASSUME NEW s, Good(s), NEW p \in Pid, NEW a \in Address, NEW byte \in Byte,
         IsPageResident(s, p, PageOf(a)), NEW t, t = WriteByte(s, p, a, byte)
  PROVE  \A f \in Frame : /\ t.frames[f].loadedAt = s.frames[f].loadedAt
                          /\ t.frames[f].occupied = s.frames[f].occupied
<1> DEFINE g == s.residentPages[p][PageOf(a)]
<1>1. s \in PagerState
  BY DEF Good
<1>2. PageOf(a) \in Page /\ OffsetOf(a) \in Offset
  BY AddressSplit
<1>3. g \in Frame /\ t.frames = Poke(s.frames, g, OffsetOf(a), byte)
  BY <1>1, <1>2, WriteByteFields
<1>4. s.frames \in [Frame -> PageFrame]
  BY <1>1 DEF PagerState
<1> HIDE DEF g
<1> QED
  BY <1>3, <1>4 DEF Poke, PageFrame

\* Every operation of MemoryManager evicts in load order.
LEMMA NextEvictsOldest == PagingInv /\ [Next]_vars => EvictsOldest
<1> SUFFICES ASSUME PagingInv, [Next]_vars PROVE EvictsOldest
  OBVIOUS
<1>1. Good(pager) /\ pager \in PagerState
  BY DEF PagingInv, Good
<1>2. CASE UNCHANGED vars
  BY <1>2, NothingTaken DEF vars
<1>3. ASSUME NEW p \in Pid, NEW m \in MemorySize, RegisterProcess(p, m) PROVE EvictsOldest
  <2>1. pager'.frames = pager.frames
    BY <1>1, <1>3 DEF RegisterProcess, PagerState
  <2> QED
    BY <2>1, NothingTaken
<1>4. ASSUME NEW p \in Pid, NEW w \in FileOutcome, ReleaseProcessMemory(p, w)
      PROVE  EvictsOldest
  <2> DEFINE F == ResidentFrames(pager, p)
             t == pager'
  <2>1. t = ReleaseProcessPages(pager, p, w)
    BY <1>4 DEF ReleaseProcessMemory
  <2>2. t.frames = Freed(pager.frames, F) /\ t.pageTables = PutOne(pager.pageTables, p, 0)
    BY <2>1, <1>1, ReleaseFields
  <2>3. pager.pageTables \in [Pid -> Nat]
    BY <1>1 DEF PagerState
  <2>4. \A f \in F : pager.frames[f].processId = p
    BY <1>1 DEF Good, Consistent, ResidentFrames
  <2>5. ASSUME NEW f \in Occupied(pager), t.frames[f].loadedAt # pager.frames[f].loadedAt
        PROVE  ~IsRegistered(t, pager.frames[f].processId)
    <3>1. f \in Frame /\ f \in F
      BY <2>2, <2>5 DEF Freed, Occupied
    <3> QED
      BY <3>1, <2>2, <2>3, <2>4 DEF IsRegistered, PutOne
  <2> QED
    BY <2>5 DEF EvictsOldest
<1>5. ASSUME NEW p \in Pid, ResetPageFaultRetryFlag(p) PROVE EvictsOldest
  BY <1>5, NothingTaken DEF ResetPageFaultRetryFlag
<1>6. ASSUME NEW p \in Pid, ConsumePageFaultRetryFlag(p) PROVE EvictsOldest
  BY <1>6, NothingTaken DEF ConsumePageFaultRetryFlag
<1>7. ASSUME NEW p \in Pid, NEW a \in Address, RefuseAccess(p, a) PROVE EvictsOldest
  BY <1>7, NothingTaken DEF RefuseAccess
<1>8. ASSUME NEW p \in Pid, NEW a \in Address, NEW w1 \in FileOutcome,
             NEW w2 \in FileOutcome, FaultAccess(p, a, w1, w2)
      PROVE  EvictsOldest
  <2>1. pager' = TouchBoth(pager, p, a, w1, w2) /\ a + 1 \in Address
    BY <1>8, ValidAddress DEF FaultAccess
  <2>2. TakesOldest(pager, pager')
    BY <2>1, <1>1, TouchBothTakesOldest
  <2> QED
    BY <2>2 DEF TakesOldest, Taken, EvictsOldest
<1>9. ASSUME NEW p \in Pid, NEW a \in Address, ReadProcessMemory(p, a) PROVE EvictsOldest
  BY <1>9, NothingTaken DEF ReadProcessMemory
<1>10. ASSUME NEW p \in Pid, NEW a \in Address, NEW val \in Value,
              WriteProcessMemory(p, a, val)
       PROVE  EvictsOldest
  <2> DEFINE u == WriteByte(pager, p, a, LowByte(val))
  <2>1. /\ a + 1 \in Address
        /\ IsPageResident(pager, p, PageOf(a)) /\ IsPageResident(pager, p, PageOf(a + 1))
    BY <1>10, ValidAddress DEF WriteProcessMemory, CanAccess, FirstPage, LastPage
  <2>2. LowByte(val) \in Byte /\ HighByte(val) \in Byte
    BY ByteTypes
  <2>3. pager' = WriteByte(u, p, a + 1, HighByte(val)) /\ u = WriteByte(pager, p, a, LowByte(val))
    BY <1>10 DEF WriteProcessMemory
  <2> HIDE DEF u
  <2>4. Good(u) /\ u.residentPages = pager.residentPages
    BY <2>1, <2>2, <2>3, <1>1, WriteByteGood
  <2>5. IsPageResident(u, p, PageOf(a + 1))
    BY <2>1, <2>4 DEF IsPageResident
  <2>6. \A f \in Frame : u.frames[f].loadedAt = pager.frames[f].loadedAt
    BY <2>1, <2>2, <2>3, <1>1, WriteByteKeepsTimes
  <2>7. \A f \in Frame : pager'.frames[f].loadedAt = u.frames[f].loadedAt
    BY <2>1, <2>2, <2>3, <2>4, <2>5, WriteByteKeepsTimes
  <2> QED
    BY <2>6, <2>7, NothingTaken
<1> QED
  BY <1>2, <1>3, <1>4, <1>5, <1>6, <1>7, <1>8, <1>9, <1>10 DEF Next

\* "evict the frame that was loaded earliest" (FIFOPageReplacement.h): pages of
\* processes that stay registered leave memory in load order, through any mix of
\* faults, also when one access faults twice.
THEOREM EvictionInLoadOrder == Spec => EvictsOldestFirst
<1>1. PagingInv /\ [Next]_vars => [EvictsOldest]_vars
  BY NextEvictsOldest
<1> QED
  BY <1>1, PagingInvariant, PTL DEF Spec, EvictsOldestFirst

-----------------------------------------------------------------------------
\* The pages paged in that were neither paged out nor are in a frame: those that
\* went with their process.
Lost(s) == s.pagesPagedIn - s.pagesPagedOut - Cardinality(Occupied(s))

\* Nothing is lost from s to t, and the clock counts what is paged in.
Balanced(s, t) ==
  Lost(t) = Lost(s) /\ t.frameClock - t.pagesPagedIn = s.frameClock - s.pagesPagedIn

\* There are finitely many frames in use.
LEMMA OccupiedFinite ==
  ASSUME NEW s
  PROVE  IsFiniteSet(Occupied(s)) /\ Cardinality(Occupied(s)) \in Nat
<1>1. 0 \in Int /\ FrameCount - 1 \in Int
  BY FrameAssumption
<1>2. IsFiniteSet(Frame)
  BY <1>1, FS_Interval DEF Frame
<1>3. Occupied(s) \in SUBSET Frame
  BY DEF Occupied
<1>4. IsFiniteSet(Occupied(s))
  BY <1>2, <1>3, FS_Subset
<1> QED
  BY <1>4, FS_CardinalityType

\* The counters are numbers.
LEMMA CounterTypes ==
  ASSUME NEW s \in PagerState
  PROVE  s.pagesPagedIn \in Nat /\ s.pagesPagedOut \in Nat /\ s.frameClock \in Nat
BY DEF PagerState

\* A fault either takes a free frame or pages out what it replaces.
LEMMA TouchBalanced ==
  ASSUME NEW s, Good(s), NEW p \in Pid, NEW v \in Page, NEW w,
         NEW t, t = Touch(s, p, v, w)
  PROVE  Balanced(s, t)
<1>1. CASE t = s
  BY <1>1 DEF Balanced
<1>2. ASSUME NEW f \in Frame, Loaded(s, t, p, v, f) PROVE Balanced(s, t)
  <2> DEFINE n == Cardinality(Occupied(s))
  <2>1. Occupied(t) = Occupied(s) \cup {f}
    BY <1>2 DEF Loaded, Occupied
  <2>2. Cardinality(Occupied(t)) = IF f \in Occupied(s) THEN n ELSE n + 1
    BY <2>1, OccupiedFinite, FS_AddElement
  <2>3. s.frames[f].occupied <=> f \in Occupied(s)
    BY DEF Occupied
  <2>4. /\ t.frameClock = s.frameClock + 1
        /\ t.pagesPagedIn = s.pagesPagedIn + 1
        /\ t.pagesPagedOut = s.pagesPagedOut + (IF f \in Occupied(s) THEN 1 ELSE 0)
    BY <1>2, <2>3 DEF Loaded
  <2>5. s \in PagerState /\ n \in Nat
    BY OccupiedFinite DEF Good
  <2>6. s.pagesPagedIn \in Nat /\ s.pagesPagedOut \in Nat /\ s.frameClock \in Nat
    BY <2>5, CounterTypes
  <2> QED
    BY <2>2, <2>4, <2>5, <2>6 DEF Balanced, Lost
<1> QED
  BY <1>1, <1>2, TouchStep

\* The faults of one access.
LEMMA TouchBothBalanced ==
  ASSUME NEW s, Good(s), NEW p \in Pid, NEW a \in Address, a + 1 \in Address,
         NEW w1, NEW w2, NEW t, t = TouchBoth(s, p, a, w1, w2)
  PROVE  Balanced(s, t)
<1>1. PICK u : u = Touch(s, p, PageOf(a), w1) /\ (t = u \/ t = Touch(u, p, PageOf(a + 1), w2))
  BY TouchBothSteps
<1>2. PageOf(a) \in Page /\ PageOf(a + 1) \in Page
  BY AddressSplit
<1>3. Good(u) /\ Balanced(s, u)
  BY <1>1, <1>2, TouchGood, TouchBalanced
<1>4. CASE t = u
  BY <1>3, <1>4
<1>5. CASE t = Touch(u, p, PageOf(a + 1), w2)
  <2>1. Balanced(u, t)
    BY <1>2, <1>3, <1>5, TouchBalanced
  <2> QED
    BY <1>3, <2>1 DEF Balanced
<1> QED
  BY <1>1, <1>4, <1>5

\* PagingCounters, in terms of what was lost with a process.
LEMMA CountersAsLost ==
  ASSUME PagingInv
  PROVE  PagingCounters <=> /\ pager.frameClock - pager.pagesPagedIn = 0
                            /\ Lost(pager) >= 0
                            /\ retired = {} => Lost(pager) = 0
<1>1. pager \in PagerState
  BY DEF PagingInv, Good
<1>2. /\ pager.pagesPagedIn \in Nat /\ pager.pagesPagedOut \in Nat /\ pager.frameClock \in Nat
      /\ Cardinality(Occupied(pager)) \in Nat
  BY <1>1, CounterTypes, OccupiedFinite
<1> QED
  BY <1>2 DEF PagingCounters, Lost

\* A step that is balanced and retires no process keeps the counters right.
LEMMA BalancedKeepsCounters ==
  ASSUME PagingInv, PagingInv', PagingCounters, Balanced(pager, pager'), retired' = retired
  PROVE  PagingCounters'
<1>1. /\ pager.frameClock - pager.pagesPagedIn = 0 /\ Lost(pager) >= 0
      /\ retired = {} => Lost(pager) = 0
  BY CountersAsLost
<1>2. /\ pager'.frameClock - pager'.pagesPagedIn = 0 /\ Lost(pager') >= 0
      /\ retired' = {} => Lost(pager') = 0
  BY <1>1 DEF Balanced
<1>3. PagingCounters' <=> /\ pager'.frameClock - pager'.pagesPagedIn = 0
                          /\ Lost(pager') >= 0
                          /\ retired' = {} => Lost(pager') = 0
  <2>1. pager' \in PagerState
    BY DEF PagingInv, Good
  <2>2. /\ pager'.pagesPagedIn \in Nat /\ pager'.pagesPagedOut \in Nat
        /\ pager'.frameClock \in Nat /\ Cardinality(Occupied(pager')) \in Nat
    BY <2>1, CounterTypes, OccupiedFinite
  <2> QED
    BY <2>2 DEF PagingCounters, Lost
<1> QED
  BY <1>2, <1>3

\* A step that keeps the counters and the frames in use.
LEMMA SameCounts ==
  ASSUME NEW s, NEW t, t.frameClock = s.frameClock, t.pagesPagedIn = s.pagesPagedIn,
         t.pagesPagedOut = s.pagesPagedOut,
         \A f \in Frame : t.frames[f].occupied = s.frames[f].occupied
  PROVE  Balanced(s, t)
<1>1. Occupied(t) = Occupied(s)
  BY DEF Occupied
<1> QED
  BY <1>1 DEF Balanced, Lost

\* A byte written changes neither.
LEMMA WriteByteBalanced ==
  ASSUME NEW s, Good(s), NEW p \in Pid, NEW a \in Address, NEW byte \in Byte,
         IsPageResident(s, p, PageOf(a)), NEW t, t = WriteByte(s, p, a, byte)
  PROVE  Balanced(s, t)
<1>1. \A f \in Frame : t.frames[f].occupied = s.frames[f].occupied
  BY WriteByteKeepsTimes
<1>2. PageOf(a) \in Page /\ OffsetOf(a) \in Offset /\ s \in PagerState
  BY AddressSplit DEF Good
<1>3. /\ t.frameClock = s.frameClock
      /\ t.pagesPagedIn = s.pagesPagedIn /\ t.pagesPagedOut = s.pagesPagedOut
  BY <1>2, WriteByteFields
<1> QED
  BY <1>1, <1>3, SameCounts

\* A release frees frames without paging anything out.
LEMMA ReleaseKeepsCounters ==
  ASSUME PagingInv, PagingCounters, NEW p \in Pid, NEW w \in FileOutcome,
         ReleaseProcessMemory(p, w)
  PROVE  PagingCounters'
<1> DEFINE t == pager'
<1>1. pager \in PagerState /\ Good(pager)
  BY DEF PagingInv, Good
<1>2. /\ t.frames = Freed(pager.frames, ResidentFrames(pager, p))
      /\ t.frameClock = pager.frameClock
      /\ t.pagesPagedIn = pager.pagesPagedIn /\ t.pagesPagedOut = pager.pagesPagedOut
  BY <1>1, ReleaseFields DEF ReleaseProcessMemory
<1>3. Occupied(t) \in SUBSET Occupied(pager)
  BY <1>2 DEF Occupied, Freed, FreeFrame
<1>4. /\ Cardinality(Occupied(t)) \in Nat /\ Cardinality(Occupied(pager)) \in Nat
      /\ Cardinality(Occupied(t)) <= Cardinality(Occupied(pager))
  BY <1>3, OccupiedFinite, FS_Subset
<1>5. retired' # {}
  BY DEF ReleaseProcessMemory
<1>6. pager.pagesPagedIn \in Nat /\ pager.pagesPagedOut \in Nat
  BY <1>1, CounterTypes
<1> HIDE DEF t
<1>7. /\ t.frameClock = t.pagesPagedIn
      /\ t.pagesPagedIn - t.pagesPagedOut >= Cardinality(Occupied(t))
  BY <1>2, <1>4, <1>6 DEF PagingCounters
<1> QED
  BY <1>5, <1>7 DEF PagingCounters, t

\* Every operation of MemoryManager keeps the counters right.
LEMMA NextPagingCounters == PagingInv /\ PagingInv' /\ PagingCounters /\ [Next]_vars => PagingCounters'
<1> SUFFICES ASSUME PagingInv, PagingInv', PagingCounters, [Next]_vars PROVE PagingCounters'
  OBVIOUS
<1>1. Good(pager) /\ pager \in PagerState
  BY DEF PagingInv, Good
<1>2. CASE UNCHANGED <<pager, retired>>
  BY <1>2 DEF PagingCounters
<1>3. ASSUME NEW p \in Pid, NEW m \in MemorySize, RegisterProcess(p, m) PROVE PagingCounters'
  <2>1. /\ pager'.frames = pager.frames /\ pager'.frameClock = pager.frameClock
        /\ pager'.pagesPagedIn = pager.pagesPagedIn
        /\ pager'.pagesPagedOut = pager.pagesPagedOut /\ retired' = retired
    BY <1>1, <1>3 DEF RegisterProcess, PagerState
  <2> QED
    BY <2>1, SameCounts, BalancedKeepsCounters
<1>4. ASSUME NEW p \in Pid, NEW w \in FileOutcome, ReleaseProcessMemory(p, w)
      PROVE  PagingCounters'
  BY <1>4, ReleaseKeepsCounters
<1>5. ASSUME NEW p \in Pid, ResetPageFaultRetryFlag(p) PROVE UNCHANGED <<pager, retired>>
  BY <1>5 DEF ResetPageFaultRetryFlag
<1>6. ASSUME NEW p \in Pid, ConsumePageFaultRetryFlag(p) PROVE UNCHANGED <<pager, retired>>
  BY <1>6 DEF ConsumePageFaultRetryFlag
<1>7. ASSUME NEW p \in Pid, NEW a \in Address, RefuseAccess(p, a)
      PROVE  UNCHANGED <<pager, retired>>
  BY <1>7 DEF RefuseAccess
<1>8. ASSUME NEW p \in Pid, NEW a \in Address, NEW w1 \in FileOutcome,
             NEW w2 \in FileOutcome, FaultAccess(p, a, w1, w2)
      PROVE  PagingCounters'
  <2>1. pager' = TouchBoth(pager, p, a, w1, w2) /\ a + 1 \in Address /\ retired' = retired
    BY <1>8, ValidAddress DEF FaultAccess
  <2>2. Balanced(pager, pager')
    BY <2>1, <1>1, TouchBothBalanced
  <2> QED
    BY <2>1, <2>2, BalancedKeepsCounters
<1>9. ASSUME NEW p \in Pid, NEW a \in Address, ReadProcessMemory(p, a)
      PROVE  UNCHANGED <<pager, retired>>
  BY <1>9 DEF ReadProcessMemory
<1>10. ASSUME NEW p \in Pid, NEW a \in Address, NEW val \in Value,
              WriteProcessMemory(p, a, val)
       PROVE  PagingCounters'
  <2> DEFINE u == WriteByte(pager, p, a, LowByte(val))
  <2>1. /\ a + 1 \in Address /\ retired' = retired
        /\ IsPageResident(pager, p, PageOf(a)) /\ IsPageResident(pager, p, PageOf(a + 1))
    BY <1>10, ValidAddress DEF WriteProcessMemory, CanAccess, FirstPage, LastPage
  <2>2. LowByte(val) \in Byte /\ HighByte(val) \in Byte
    BY ByteTypes
  <2>3. pager' = WriteByte(u, p, a + 1, HighByte(val)) /\ u = WriteByte(pager, p, a, LowByte(val))
    BY <1>10 DEF WriteProcessMemory
  <2> HIDE DEF u
  <2>4. Good(u) /\ u.residentPages = pager.residentPages
    BY <2>1, <2>2, <2>3, <1>1, WriteByteGood
  <2>5. IsPageResident(u, p, PageOf(a + 1))
    BY <2>1, <2>4 DEF IsPageResident
  <2>6. Balanced(pager, u)
    BY <2>1, <2>2, <2>3, <1>1, WriteByteBalanced
  <2>7. Balanced(u, pager')
    BY <2>1, <2>2, <2>3, <2>4, <2>5, WriteByteBalanced
  <2>8. Balanced(pager, pager')
    BY <2>6, <2>7 DEF Balanced
  <2> QED
    BY <2>1, <2>8, BalancedKeepsCounters
<1> QED
  BY <1>2, <1>3, <1>4, <1>5, <1>6, <1>7, <1>8, <1>9, <1>10 DEF Next, vars

\* vmstat's statistics are right: the clock counts the pages paged in, and each of
\* them is in a frame, was paged out, or went with its process; while no process
\* was released the three agree exactly.
THEOREM StatisticsRight == Spec => []PagingCounters
<1>1. Init => PagingCounters
  <2> SUFFICES ASSUME Init PROVE PagingCounters
    OBVIOUS
  <2>1. /\ pager.frameClock = 0 /\ pager.pagesPagedIn = 0 /\ pager.pagesPagedOut = 0
        /\ pager.frames = [f \in Frame |-> FreeFrame]
    BY DEF Init, InitPager
  <2>2. Occupied(pager) = {}
    BY <2>1 DEF Occupied, FreeFrame
  <2>3. Cardinality(Occupied(pager)) = 0
    BY <2>2, FS_EmptySet
  <2> QED
    BY <2>1, <2>3 DEF PagingCounters
<1> QED
  BY <1>1, PagingInvariant, NextPagingCounters, PTL DEF Spec

-----------------------------------------------------------------------------
\* A page in the frame that was loaded last.
Newest(s, p, v) ==
  /\ s.residentPages[p][v] # NoFrame
  /\ s.frames[s.residentPages[p][v]].loadedAt = s.frameClock

\* A fault loads its page into the newest frame.
LEMMA TouchLoads ==
  ASSUME NEW s, Good(s), NEW p \in Pid, NEW v \in Page, NEW w,
         NEW t, t = Touch(s, p, v, w)
  PROVE  /\ t.residentPages[p][v] # NoFrame
         /\ s.residentPages[p][v] = NoFrame => Newest(t, p, v)
         /\ s.residentPages[p][v] # NoFrame => t = s
<1>1. CASE t = s /\ s.residentPages[p][v] # NoFrame
  BY <1>1
<1>2. ASSUME s.residentPages[p][v] = NoFrame, NEW f \in Frame, Loaded(s, t, p, v, f)
      PROVE  Newest(t, p, v)
  <2>1. /\ t.residentPages[p][v] = f /\ t.frames[f].loadedAt = s.frameClock + 1
        /\ t.frameClock = s.frameClock + 1
    BY <1>2 DEF Loaded
  <2>2. f # NoFrame
    BY DEF Frame, NoFrame
  <2> QED
    BY <2>1, <2>2 DEF Newest
<1> QED
  BY <1>1, <1>2, TouchStep DEF Newest

\* With two frames a fault does not evict the newest page.
LEMMA NewestStays ==
  ASSUME FrameCount >= 2, NEW s, Good(s), NEW p \in Pid, NEW v \in Page, Newest(s, p, v),
         NEW x \in Page, NEW w, NEW t, t = Touch(s, p, x, w)
  PROVE  t.residentPages[p][v] # NoFrame
<1>1. CASE t = s
  BY <1>1 DEF Newest
<1>2. ASSUME NEW f \in Frame, Loaded(s, t, p, x, f)
      PROVE  t.residentPages[p][v] # NoFrame
  <2> DEFINE g == s.residentPages[p][v]
  <2>1. s \in PagerState /\ Consistent(s) /\ Ordered(s)
    BY DEF Good
  <2>2. g \in Frame /\ s.frames[g].occupied /\ s.frames[g].loadedAt = s.frameClock
    <3>1. s.residentPages \in [Pid -> [Page -> Frame \cup {NoFrame}]]
      BY <2>1 DEF PagerState
    <3> QED
      BY <3>1, <2>1 DEF Newest, Consistent
  <2>3. g # f
    <3> SUFFICES ASSUME g = f PROVE FALSE
      OBVIOUS
    <3>1. Oldest(s, f)
      BY <2>2, <1>2 DEF Loaded
    <3>2. 0 \in Frame /\ 1 \in Frame
      BY FrameAssumption DEF Frame
    <3>3. PICK h \in Frame : h # f
      BY <3>2
    <3>4. s.frames[f].loadedAt < s.frames[h].loadedAt
      BY <3>1, <3>3 DEF Oldest
    <3>5. s.frames[h].loadedAt <= s.frameClock
      BY <2>1, <3>3 DEF Ordered
    <3>6. s.frames \in [Frame -> PageFrame] /\ s.frameClock \in Nat
      BY <2>1 DEF PagerState
    <3>7. s.frames[h].loadedAt \in Nat
      BY <3>3, <3>6 DEF PageFrame
    <3> QED
      BY <3>4, <3>5, <3>6, <3>7, <2>2
  <2>4. s.residentPages[p][v] \notin {f, NoFrame}
    BY <2>3 DEF Newest
  <2> QED
    BY <2>4, <1>2 DEF Loaded
<1> QED
  BY <1>1, <1>2, TouchStep

\* Two rounds of the faults of one access leave both pages resident: the second
\* page loaded in the first round is the newest when the first one comes back.
LEMMA TwoRoundsSettle ==
  ASSUME FrameCount >= 2, NEW s, Good(s), NEW p \in Pid, NEW a \in Address, a + 1 \in Address,
         NEW w, NEW t, t = TouchBoth(s, p, a, w, w), NEW u, u = TouchBoth(t, p, a, w, w)
  PROVE  u.residentPages[p][PageOf(a)] # NoFrame /\ u.residentPages[p][PageOf(a + 1)] # NoFrame
<1> DEFINE v == PageOf(a)
           x == PageOf(a + 1)
           s1 == Touch(s, p, v, w)
           t1 == Touch(t, p, v, w)
<1>1. v \in Page /\ x \in Page
  BY AddressSplit
<1>2. /\ t = IF x = v THEN s1 ELSE Touch(s1, p, x, w)
      /\ u = IF x = v THEN t1 ELSE Touch(t1, p, x, w)
  BY DEF TouchBoth, TouchFirst, FirstPage, LastPage
<1>3. s1 = Touch(s, p, v, w) /\ t1 = Touch(t, p, v, w)
  OBVIOUS
<1> HIDE DEF v, x, s1, t1
<1>4. Good(t)
  BY TouchBothGood
<1>5. Good(s1) /\ s1.residentPages[p][v] # NoFrame
  BY <1>1, <1>3, TouchGood, TouchLoads
<1>6. Good(t1) /\ t1.residentPages[p][v] # NoFrame
      /\ (t.residentPages[p][v] # NoFrame => t1 = t)
  BY <1>1, <1>3, <1>4, TouchGood, TouchLoads
<1>7. CASE x = v
  BY <1>2, <1>6, <1>7 DEF v, x
<1>8. CASE x # v
  <2>1. t = Touch(s1, p, x, w) /\ u = Touch(t1, p, x, w)
    BY <1>2, <1>8
  <2>2. /\ t.residentPages[p][x] # NoFrame
        /\ s1.residentPages[p][x] = NoFrame => Newest(t, p, x)
        /\ s1.residentPages[p][x] # NoFrame => t = s1
    BY <2>1, <1>1, <1>5, TouchLoads
  <2>3. t1.residentPages[p][x] # NoFrame
    <3>1. CASE t.residentPages[p][v] # NoFrame
      BY <3>1, <2>2, <1>6
    <3>2. CASE t.residentPages[p][v] = NoFrame
      <4>1. Newest(t, p, x)
        BY <3>2, <2>2, <1>5
      <4> QED
        BY <4>1, <1>1, <1>3, <1>4, NewestStays
    <3> QED
      BY <3>1, <3>2
  <2>4. u = t1
    BY <2>1, <2>3, <1>1, <1>6, TouchLoads
  <2> QED
    BY <2>3, <2>4, <1>6 DEF v, x
<1> QED
  BY <1>7, <1>8

\* "PageFaultRetry" (MemoryManager): with two frames, from any reachable state of
\* the pool, a word that straddles two pages or not, an access that is retried
\* undisturbed is served after at most two faults.
THEOREM RetriedAccessSettles == Spec => []RetrySettles
<1>1. PagingInv => RetrySettles
  <2> SUFFICES ASSUME PagingInv, FrameCount >= 2, NEW p \in Pid, NEW a \in Address,
                      IsAddressValid(pager, p, a),
                      NEW t, t = TouchBoth(pager, p, a, "written", "written"),
                      NEW u, u = TouchBoth(t, p, a, "written", "written")
               PROVE  ~PageFaultOccurred(u, p, a, "written")
    BY DEF RetrySettles
  <2>1. Good(pager) /\ a + 1 \in Address
    BY ValidAddress DEF PagingInv
  <2>2. u.residentPages[p][PageOf(a)] # NoFrame /\ u.residentPages[p][PageOf(a + 1)] # NoFrame
    BY <2>1, TwoRoundsSettle
  <2>3. TouchFirst(u, p, a, "written") = u
    BY <2>2 DEF TouchFirst, FirstPage, Touch, IsPageResident
  <2> QED
    BY <2>2, <2>3 DEF PageFaultOccurred, IsPageResident, FirstPage, LastPage
<1> QED
  BY <1>1, PagingInvariant, PTL

-----------------------------------------------------------------------------
(***************************************************************************)
(* Nothing leaks, and Paging implements FlatMemory, wherever the rewrites  *)
(* of the swap file fail.                                                  *)
(*                                                                         *)
(* The invariant is Owned of Paging, which is preserved together with Good:*)
(* a page is swapped out for the process its frame names, and that this    *)
(* process has a page table follows from the consistency of the frames.    *)
(***************************************************************************)
\* One entry of a map with another entry replaced.
LEMMA PutEntry ==
  ASSUME NEW m, DOMAIN m = Pid, \A o \in Pid : DOMAIN m[o] = Page,
         NEW p \in Pid, NEW v \in Page, NEW x, NEW q \in Pid, NEW u \in Page
  PROVE  Put(m, p, v, x)[q][u] = IF q = p /\ u = v THEN x ELSE m[q][u]
BY DEF Put

\* A line of the file after a rewrite comes from the RAM store or was there before.
LEMMA FileEntry ==
  ASSUME NEW file, NEW pages, NEW before, FileIn(file, pages, before),
         NEW q \in Pid, NEW u \in Page, file[q][u] # NoPage
  PROVE  file[q][u] = pages[q][u] \/ file[q][u] = before[q][u]
BY DEF FileIn, Unstored

\* What a process with pages or frames has, one page at a time.
OwnedPage(s, gone, q, u) ==
  /\ s.residentPages[q][u] # NoFrame => s.pageTables[q] # 0
  /\ s.pages[q][u] # NoPage => s.pageTables[q] # 0
  /\ s.file[q][u] # NoPage /\ s.pages[q][u] = NoPage => q \in gone

\* Owned, split into the page tables and the single pages.
LEMMA OwnedSplit ==
  ASSUME NEW s, NEW gone
  PROVE  Owned(s, gone) <=>
            /\ \A q \in Pid : q \in gone => s.pageTables[q] = 0
            /\ \A q \in Pid, u \in Page : OwnedPage(s, gone, q, u)
BY DEF Owned, OwnedPage

\* PageOut stores a page of a process that has a page table.
LEMMA PageOutOwned ==
  ASSUME NEW s, Good(s), NEW gone, Owned(s, gone),
         NEW f \in Frame, s.frames[f].occupied, NEW w, NEW t, t = PageOut(s, f, w)
  PROVE  Owned(t, gone) /\ t.pageTables = s.pageTables
<1> DEFINE p == s.frames[f].processId
           v == s.frames[f].virtualPage
           b == s.frames[f].bytes
<1>1. s \in PagerState /\ Consistent(s)
  BY DEF Good
<1>2. /\ t.pages = Put(s.pages, p, v, b)
      /\ FileIn(t.file, t.pages, s.file)
      /\ t.residentPages = Put(s.residentPages, p, v, NoFrame)
      /\ t.pageTables = s.pageTables
  BY <1>1, PageOutFields
<1>3. /\ s.frames \in [Frame -> PageFrame]
      /\ DOMAIN s.residentPages = Pid
      /\ \A o \in Pid : DOMAIN s.residentPages[o] = Page
      /\ DOMAIN s.pages = Pid /\ \A o \in Pid : DOMAIN s.pages[o] = Page
  BY <1>1 DEF PagerState, Store
<1>4. p \in Pid /\ v \in Page /\ s.residentPages[p][v] = f /\ b # NoPage
  BY <1>1, <1>3, NoPageAssumption DEF Consistent, Occupied, PageFrame
<1>5. f # NoFrame
  BY DEF NoFrame, Frame
<1> HIDE DEF p, v, b
<1>6. ASSUME NEW q \in Pid, NEW u \in Page
      PROVE  OwnedPage(t, gone, q, u)
  <2>1. OwnedPage(s, gone, q, u) /\ OwnedPage(s, gone, p, v)
    BY <1>4, OwnedSplit
  <2>2. t.residentPages[q][u] = IF q = p /\ u = v THEN NoFrame ELSE s.residentPages[q][u]
    BY <1>2, <1>3, <1>4, PutEntry
  <2>3. t.pages[q][u] = IF q = p /\ u = v THEN b ELSE s.pages[q][u]
    BY <1>2, <1>3, <1>4, PutEntry
  <2>4. t.file[q][u] # NoPage => t.file[q][u] = t.pages[q][u] \/ t.file[q][u] = s.file[q][u]
    BY <1>2, FileEntry
  <2> QED
    BY <2>1, <2>2, <2>3, <2>4, <1>2, <1>4, <1>5 DEF OwnedPage
<1> QED
  BY <1>2, <1>6, OwnedSplit

\* PageIn for a process that has a page table.
LEMMA PageInOwned ==
  ASSUME NEW s \in PagerState, NEW gone, Owned(s, gone),
         NEW p \in Pid, NEW v \in Page, NEW f \in Frame, s.pageTables[p] # 0,
         NEW t, t = PageIn(s, p, v, f)
  PROVE  Owned(t, gone) /\ t.pageTables = s.pageTables
<1>1. /\ t.pages = Put(s.pages, p, v, StoredPage(s, p, v))
      /\ t.residentPages = Put(s.residentPages, p, v, f)
      /\ t.pageTables = s.pageTables /\ t.file = s.file
  BY PageInFields
<1>2. /\ DOMAIN s.residentPages = Pid
      /\ \A o \in Pid : DOMAIN s.residentPages[o] = Page
      /\ DOMAIN s.pages = Pid /\ \A o \in Pid : DOMAIN s.pages[o] = Page
  BY DEF PagerState, Store
<1>3. ASSUME NEW q \in Pid, NEW u \in Page
      PROVE  OwnedPage(t, gone, q, u)
  <2>1. OwnedPage(s, gone, q, u)
    BY OwnedSplit
  <2>2. t.residentPages[q][u] = IF q = p /\ u = v THEN f ELSE s.residentPages[q][u]
    BY <1>1, <1>2, PutEntry
  <2>3. t.pages[q][u] = IF q = p /\ u = v THEN StoredPage(s, p, v) ELSE s.pages[q][u]
    BY <1>1, <1>2, PutEntry
  <2> QED
    BY <2>1, <2>2, <2>3, <1>1 DEF OwnedPage, StoredPage
<1> QED
  BY <1>1, <1>3, OwnedSplit

\* Mapping one more page for a process that has a page table.
LEMMA MappedOwned ==
  ASSUME NEW s \in PagerState, NEW gone, Owned(s, gone), NEW p \in Pid, NEW v \in Page,
         s.pageTables[p] # 0, NEW t, t = EnsureVirtualPageMapped(s, p, v)
  PROVE  Owned(t, gone) /\ t.pageTables[p] # 0
<1>1. /\ t.residentPages = s.residentPages /\ t.pages = s.pages /\ t.file = s.file
      /\ t.pageTables[p] # 0
      /\ \A o \in Pid \ {p} : t.pageTables[o] = s.pageTables[o]
  BY MappedFields
<1>2. p \notin gone
  BY OwnedSplit
<1> QED
  BY <1>1, <1>2, OwnedSplit DEF OwnedPage

\* A frame is found, by eviction if need be, and the page is loaded into it.
LEMMA LoadPageOwned ==
  ASSUME NEW s, Good(s), NEW gone, Owned(s, gone), NEW p \in Pid, NEW v \in Page,
         s.residentPages[p][v] = NoFrame, s.pageTables[p] # 0,
         NEW w, NEW t, t = LoadPage(s, p, v, w)
  PROVE  Owned(t, gone) /\ t.pageTables[p] # 0
<1>1. PICK f \in Frame : \E m, o :
            /\ m = EnsureVirtualPageMapped(s, p, v) /\ Good(m)
            /\ o = m \/ (m.frames[f].occupied /\ o = PageOut(m, f, w))
            /\ Good(o) /\ ~o.frames[f].occupied /\ o.residentPages[p][v] = NoFrame
            /\ t = PageIn(o, p, v, f)
  BY LoadPageCases
<1>2. PICK m, o :
            /\ m = EnsureVirtualPageMapped(s, p, v) /\ Good(m)
            /\ o = m \/ (m.frames[f].occupied /\ o = PageOut(m, f, w))
            /\ Good(o) /\ ~o.frames[f].occupied /\ o.residentPages[p][v] = NoFrame
            /\ t = PageIn(o, p, v, f)
  BY <1>1
<1>3. s \in PagerState /\ m \in PagerState /\ o \in PagerState
  BY <1>2 DEF Good
<1>4. Owned(m, gone) /\ m.pageTables[p] # 0
  BY <1>2, <1>3, MappedOwned
<1>5. Owned(o, gone) /\ o.pageTables[p] # 0
  BY <1>2, <1>4, PageOutOwned
<1> QED
  BY <1>2, <1>3, <1>5, PageInOwned

\* One round of the loop of EnsurePagesResident.
LEMMA TouchOwned ==
  ASSUME NEW s, Good(s), NEW gone, Owned(s, gone), NEW p \in Pid, NEW v \in Page,
         s.pageTables[p] # 0, NEW w, NEW t, t = Touch(s, p, v, w)
  PROVE  Owned(t, gone) /\ t.pageTables[p] # 0
<1>1. CASE s.residentPages[p][v] # NoFrame
  BY <1>1 DEF Touch, IsPageResident
<1>2. CASE s.residentPages[p][v] = NoFrame
  <2>1. t = LoadPage(s, p, v, w)
    BY <1>2 DEF Touch, IsPageResident
  <2> QED
    BY <1>2, <2>1, LoadPageOwned
<1> QED
  BY <1>1, <1>2

\* EnsurePagesResident for the two pages of a word.
LEMMA TouchBothOwned ==
  ASSUME NEW s, Good(s), NEW gone, Owned(s, gone), NEW p \in Pid,
         NEW a \in Address, a + 1 \in Address, s.pageTables[p] # 0,
         NEW w1, NEW w2, NEW t, t = TouchBoth(s, p, a, w1, w2)
  PROVE  Owned(t, gone)
<1> DEFINE u == TouchFirst(s, p, a, w1)
<1>1. PageOf(a) \in Page /\ PageOf(a + 1) \in Page
  BY AddressSplit
<1>2. u = Touch(s, p, PageOf(a), w1)
  BY DEF TouchFirst, FirstPage
<1>3. t = u \/ t = Touch(u, p, PageOf(a + 1), w2)
  BY DEF TouchBoth, LastPage
<1> HIDE DEF u
<1>4. Good(u) /\ Owned(u, gone) /\ u.pageTables[p] # 0
  BY <1>1, <1>2, TouchGood, TouchOwned
<1> QED
  BY <1>1, <1>3, <1>4, TouchOwned

\* Release leaves nothing of the process but, if the rewrite fails, its lines in
\* the file; from then on it is gone.
LEMMA ReleaseOwned ==
  ASSUME NEW s, Good(s), NEW gone, Owned(s, gone), NEW p \in Pid, NEW w,
         NEW t, t = ReleaseProcessPages(s, p, w)
  PROVE  Owned(t, gone \cup {p})
<1>1. s \in PagerState
  BY DEF Good
<1>2. /\ t.pages = PutOne(s.pages, p, NoPages)
      /\ FileIn(t.file, t.pages, s.file)
      /\ t.residentPages = PutOne(s.residentPages, p, NoFrames)
      /\ t.pageTables = PutOne(s.pageTables, p, 0)
  BY <1>1, ReleaseFields
<1>3. /\ DOMAIN s.pages = Pid /\ DOMAIN s.residentPages = Pid
      /\ s.pageTables \in [Pid -> Nat]
  BY <1>1 DEF PagerState, Store
<1>4. \A q \in Pid : t.pageTables[q] = IF q = p THEN 0 ELSE s.pageTables[q]
  BY <1>2, <1>3 DEF PutOne
<1>5. ASSUME NEW q \in Pid, NEW u \in Page
      PROVE  OwnedPage(t, gone \cup {p}, q, u)
  <2>1. OwnedPage(s, gone, q, u)
    BY OwnedSplit
  <2>2. t.pages[q][u] = IF q = p THEN NoPage ELSE s.pages[q][u]
    BY <1>2, <1>3 DEF PutOne, NoPages
  <2>3. t.residentPages[q][u] = IF q = p THEN NoFrame ELSE s.residentPages[q][u]
    BY <1>2, <1>3 DEF PutOne, NoFrames
  <2>4. t.file[q][u] # NoPage => t.file[q][u] = t.pages[q][u] \/ t.file[q][u] = s.file[q][u]
    BY <1>2, FileEntry
  <2> QED
    BY <2>1, <2>2, <2>3, <2>4, <1>4 DEF OwnedPage
<1>6. \A q \in Pid : q \in gone \cup {p} => t.pageTables[q] = 0
  BY <1>4, OwnedSplit
<1> QED
  BY <1>5, <1>6, OwnedSplit

\* Ownership depends on four fields of the pager only.
LEMMA OwnedKept ==
  ASSUME NEW s, NEW t, NEW gone, Owned(s, gone),
         t.pageTables = s.pageTables, t.residentPages = s.residentPages,
         t.pages = s.pages, t.file = s.file
  PROVE  Owned(t, gone)
BY DEF Owned

LeakInv == PagingInv /\ NothingLeaks

\* The program starts with nothing in memory or in the swap space.
LEMMA InitNothingLeaks == Init => NothingLeaks
BY DEF Init, InitPager, Unstored, NothingLeaks, Owned

\* Every operation of MemoryManager keeps what is left of a process with a process
\* that still owns it.
LEMMA NextNothingLeaks == LeakInv /\ [Next]_vars => NothingLeaks'
<1> SUFFICES ASSUME LeakInv, [Next]_vars PROVE NothingLeaks'
  OBVIOUS
<1>1. Good(pager) /\ pager \in PagerState /\ Owned(pager, retired)
  BY DEF LeakInv, PagingInv, TypeOK, NothingLeaks
<1>2. ASSUME pager' = pager, retired' = retired PROVE NothingLeaks'
  BY <1>1, <1>2 DEF NothingLeaks
<1>3. CASE UNCHANGED vars
  BY <1>2, <1>3 DEF vars
<1>4. ASSUME NEW p \in Pid, NEW m \in MemorySize, RegisterProcess(p, m)
      PROVE  NothingLeaks'
  <2>1. CASE pager' = pager
    BY <2>1, <1>2, <1>4 DEF RegisterProcess
  <2>2. CASE pager' # pager
    <3> DEFINE n == m \div FrameSize
    <3>1. /\ pager' = [pager EXCEPT !.pageTables[p] = n] /\ n > 0
          /\ p \notin retired /\ retired' = retired
      BY <2>2, <1>4 DEF RegisterProcess
    <3>2. n # 0
      <4>1. m \in Nat /\ FrameSize \in Nat \ {0}
        BY MemorySizeAssumption, FrameAssumption
      <4> QED
        BY <4>1, <3>1
    <3> HIDE DEF n
    <3>3. /\ pager'.pageTables[p] = n
          /\ \A q \in Pid \ {p} : pager'.pageTables[q] = pager.pageTables[q]
          /\ pager'.residentPages = pager.residentPages
          /\ pager'.pages = pager.pages /\ pager'.file = pager.file
      BY <3>1, <1>1 DEF PagerState
    <3>4. ASSUME NEW q \in Pid
          PROVE  /\ q \in retired => pager'.pageTables[q] = 0
                 /\ \A u \in Page : OwnedPage(pager', retired, q, u)
      <4>1. q \in retired => pager.pageTables[q] = 0
        BY <1>1, OwnedSplit
      <4>2. \A u \in Page : OwnedPage(pager, retired, q, u)
        BY <1>1, OwnedSplit
      <4> QED
        BY <4>1, <4>2, <3>1, <3>2, <3>3 DEF OwnedPage
    <3>5. Owned(pager', retired)
      BY <3>4, OwnedSplit
    <3> QED
      BY <3>1, <3>5 DEF NothingLeaks
  <2> QED
    BY <2>1, <2>2
<1>5. ASSUME NEW p \in Pid, NEW w \in FileOutcome, ReleaseProcessMemory(p, w)
      PROVE  NothingLeaks'
  <2>1. pager' = ReleaseProcessPages(pager, p, w) /\ retired' = retired \cup {p}
    BY <1>5 DEF ReleaseProcessMemory
  <2> QED
    BY <2>1, <1>1, ReleaseOwned DEF NothingLeaks
<1>6. ASSUME NEW p \in Pid, ResetPageFaultRetryFlag(p) PROVE NothingLeaks'
  BY <1>2, <1>6 DEF ResetPageFaultRetryFlag
<1>7. ASSUME NEW p \in Pid, ConsumePageFaultRetryFlag(p) PROVE NothingLeaks'
  BY <1>2, <1>7 DEF ConsumePageFaultRetryFlag
<1>8. ASSUME NEW p \in Pid, NEW a \in Address, RefuseAccess(p, a) PROVE NothingLeaks'
  BY <1>2, <1>8 DEF RefuseAccess
<1>9. ASSUME NEW p \in Pid, NEW a \in Address, NEW w1 \in FileOutcome,
             NEW w2 \in FileOutcome, FaultAccess(p, a, w1, w2)
      PROVE  NothingLeaks'
  <2>1. /\ pager' = TouchBoth(pager, p, a, w1, w2) /\ a + 1 \in Address
        /\ retired' = retired /\ pager.pageTables[p] # 0
    BY <1>9, ValidAddress DEF FaultAccess, IsAddressValid, IsRegistered
  <2> QED
    BY <2>1, <1>1, TouchBothOwned DEF NothingLeaks
<1>10. ASSUME NEW p \in Pid, NEW a \in Address, ReadProcessMemory(p, a)
       PROVE  NothingLeaks'
  BY <1>2, <1>10 DEF ReadProcessMemory
<1>11. ASSUME NEW p \in Pid, NEW a \in Address, NEW val \in Value,
              WriteProcessMemory(p, a, val)
       PROVE  NothingLeaks'
  <2> DEFINE u == WriteByte(pager, p, a, LowByte(val))
  <2>1. /\ a + 1 \in Address
        /\ IsPageResident(pager, p, PageOf(a)) /\ IsPageResident(pager, p, PageOf(a + 1))
    BY <1>11, ValidAddress DEF WriteProcessMemory, CanAccess, FirstPage, LastPage
  <2>2. /\ LowByte(val) \in Byte /\ HighByte(val) \in Byte
        /\ PageOf(a) \in Page /\ OffsetOf(a) \in Offset
        /\ PageOf(a + 1) \in Page /\ OffsetOf(a + 1) \in Offset
    BY <2>1, ByteTypes, AddressSplit
  <2>3. /\ pager' = WriteByte(u, p, a + 1, HighByte(val))
        /\ u = WriteByte(pager, p, a, LowByte(val)) /\ retired' = retired
    BY <1>11 DEF WriteProcessMemory
  <2> HIDE DEF u
  <2>4. /\ u \in PagerState /\ u.pageTables = pager.pageTables
        /\ u.residentPages = pager.residentPages
        /\ u.pages = pager.pages /\ u.file = pager.file
    BY <2>1, <2>2, <2>3, <1>1, WriteByteFields
  <2>5. IsPageResident(u, p, PageOf(a + 1))
    BY <2>1, <2>4 DEF IsPageResident
  <2>6. /\ pager'.pageTables = u.pageTables /\ pager'.residentPages = u.residentPages
        /\ pager'.pages = u.pages /\ pager'.file = u.file
    BY <2>1, <2>2, <2>3, <2>4, <2>5, WriteByteFields
  <2>7. Owned(pager', retired)
    BY <2>4, <2>6, <1>1, OwnedKept
  <2> QED
    BY <2>3, <2>7 DEF NothingLeaks
<1> QED
  BY <1>3, <1>4, <1>5, <1>6, <1>7, <1>8, <1>9, <1>10, <1>11 DEF Next

\* The invariant of the pager together with the ownership of pages.
LEMMA LeakInvariant == Spec => []LeakInv
<1>1. Init => LeakInv
  BY InitPagingInv, InitNothingLeaks DEF LeakInv
<1>2. LeakInv /\ [Next]_vars => LeakInv'
  BY NextPagingInv, NextNothingLeaks DEF LeakInv
<1> QED
  BY <1>1, <1>2, PTL DEF Spec

\* Whatever is resident or swapped out belongs to a process with a page table; a
\* line of the swap file unknown to RAM belongs to a released process.
THEOREM ReleaseIsComplete == Spec => []NothingLeaks
<1>1. LeakInv => NothingLeaks
  BY DEF LeakInv
<1> QED
  BY <1>1, LeakInvariant, PTL

-----------------------------------------------------------------------------
(***************************************************************************)
(* Loading and evicting pages move the content of a page between a frame   *)
(* and the store and change nothing that a process can read (SameContent). *)
(* The case that needs an argument is a page unknown to the store in RAM:  *)
(* LoadStoredPage then takes what the file has, and only NothingLeaks says *)
(* that the file has nothing for a process that still has a page table.    *)
(***************************************************************************)
\* No page changes its content.
SameContent(s, t) ==
  \A q \in Pid, u \in Page : PageContent(t, q, u) = PageContent(s, q, u)

\* Where the content of a page is found.
LEMMA ContentCases ==
  ASSUME NEW s, NEW q, NEW u
  PROVE  /\ s.residentPages[q][u] # NoFrame =>
              PageContent(s, q, u) = s.frames[s.residentPages[q][u]].bytes
         /\ s.residentPages[q][u] = NoFrame /\ s.pages[q][u] # NoPage =>
              PageContent(s, q, u) = s.pages[q][u]
         /\ s.residentPages[q][u] = NoFrame /\ s.pages[q][u] = NoPage =>
              PageContent(s, q, u) = ZeroPage
BY DEF PageContent

\* The content of a page does not depend on anything but the frame it is in, or
\* the page of the RAM store.
LEMMA ContentKept ==
  ASSUME NEW s, NEW t, NEW q, NEW u,
         t.residentPages[q][u] = s.residentPages[q][u],
         t.pages[q][u] = s.pages[q][u],
         s.residentPages[q][u] # NoFrame =>
            t.frames[s.residentPages[q][u]] = s.frames[s.residentPages[q][u]]
  PROVE  PageContent(t, q, u) = PageContent(s, q, u)
BY DEF PageContent

\* The maps of the pager have an entry for every page of every process.
LEMMA MapDomains ==
  ASSUME NEW s \in PagerState
  PROVE  /\ s.frames \in [Frame -> PageFrame]
         /\ s.residentPages \in [Pid -> [Page -> Frame \cup {NoFrame}]]
         /\ DOMAIN s.residentPages = Pid
         /\ \A o \in Pid : DOMAIN s.residentPages[o] = Page
         /\ DOMAIN s.pages = Pid
         /\ \A o \in Pid : DOMAIN s.pages[o] = Page
BY DEF PagerState, Store

\* DemandPager::PageOut moves the content of the victim to the RAM store.
LEMMA PageOutContent ==
  ASSUME NEW s, Good(s), NEW f \in Frame, s.frames[f].occupied, NEW w,
         NEW t, t = PageOut(s, f, w)
  PROVE  SameContent(s, t)
<1> DEFINE p == s.frames[f].processId
           v == s.frames[f].virtualPage
           b == s.frames[f].bytes
<1>1. s \in PagerState /\ Consistent(s)
  BY DEF Good
<1>2. /\ t.pages = Put(s.pages, p, v, b)
      /\ t.frames = PutOne(s.frames, f, FreeFrame)
      /\ t.residentPages = Put(s.residentPages, p, v, NoFrame)
  BY <1>1, PageOutFields
<1>3. /\ s.frames \in [Frame -> PageFrame]
      /\ s.residentPages \in [Pid -> [Page -> Frame \cup {NoFrame}]]
  BY <1>1, MapDomains
<1>4. p \in Pid /\ v \in Page /\ s.residentPages[p][v] = f /\ b # NoPage
  BY <1>1, <1>3, NoPageAssumption DEF Consistent, Occupied, PageFrame
<1>5. f # NoFrame
  BY DEF NoFrame, Frame
<1> SUFFICES ASSUME NEW q \in Pid, NEW u \in Page
             PROVE  PageContent(t, q, u) = PageContent(s, q, u)
  BY DEF SameContent
<1>6. t.residentPages[q][u] = IF q = p /\ u = v THEN NoFrame ELSE s.residentPages[q][u]
  BY <1>1, <1>2, <1>4, MapDomains, PutEntry
<1>7. t.pages[q][u] = IF q = p /\ u = v THEN b ELSE s.pages[q][u]
  BY <1>1, <1>2, <1>4, MapDomains, PutEntry
<1>8. CASE q = p /\ u = v
  <2>1. PageContent(t, q, u) = b
    BY <1>4, <1>6, <1>7, <1>8, ContentCases
  <2>2. PageContent(s, q, u) = b
    BY <1>4, <1>5, <1>8, ContentCases
  <2> QED
    BY <2>1, <2>2
<1>9. CASE ~(q = p /\ u = v)
  <2>1. s.residentPages[q][u] # NoFrame => s.residentPages[q][u] # f
    BY <1>1, <1>9 DEF Consistent
  <2>2. s.residentPages[q][u] # NoFrame => s.residentPages[q][u] \in Frame
    BY <1>3
  <2>3. \A g \in Frame : g # f => t.frames[g] = s.frames[g]
    BY <1>2, <1>3 DEF PutOne
  <2>4. s.residentPages[q][u] # NoFrame =>
           t.frames[s.residentPages[q][u]] = s.frames[s.residentPages[q][u]]
    BY <2>1, <2>2, <2>3
  <2>5. t.residentPages[q][u] = s.residentPages[q][u] /\ t.pages[q][u] = s.pages[q][u]
    BY <1>6, <1>7, <1>9
  <2> QED
    BY <2>4, <2>5, ContentKept
<1> QED
  BY <1>8, <1>9

\* DemandPager::PageIn loads what the page contained: the page in RAM if there is
\* one, and zeros otherwise, since the file knows no page of this process that RAM
\* does not know.
LEMMA PageInContent ==
  ASSUME NEW s, Good(s), NEW gone, Owned(s, gone), NEW p \in Pid, NEW v \in Page,
         s.pageTables[p] # 0, NEW f \in Frame, ~s.frames[f].occupied,
         s.residentPages[p][v] = NoFrame, NEW t, t = PageIn(s, p, v, f)
  PROVE  SameContent(s, t)
<1> DEFINE stored == StoredPage(s, p, v)
<1>1. s \in PagerState /\ Consistent(s)
  BY DEF Good
<1>2. /\ t.frames = PutOne(s.frames, f, FilledFrame(s, p, v))
      /\ t.pages = Put(s.pages, p, v, stored)
      /\ t.residentPages = Put(s.residentPages, p, v, f)
  BY <1>1, PageInFields
<1>3. /\ s.frames \in [Frame -> PageFrame]
      /\ s.residentPages \in [Pid -> [Page -> Frame \cup {NoFrame}]]
  BY <1>1, MapDomains
<1>4. f # NoFrame
  BY DEF NoFrame, Frame
<1>5. stored = s.pages[p][v]
  <2>1. p \notin gone /\ OwnedPage(s, gone, p, v)
    BY OwnedSplit
  <2> QED
    BY <2>1 DEF OwnedPage, StoredPage
<1>6. t.frames[f].bytes = IF stored = NoPage THEN ZeroPage ELSE stored
  <2>1. FilledFrame(s, p, v).bytes = IF stored = NoPage THEN ZeroPage ELSE stored
    BY DEF FilledFrame
  <2>2. t.frames[f] = FilledFrame(s, p, v)
    BY <1>2, <1>3 DEF PutOne
  <2> QED
    BY <2>1, <2>2
<1> HIDE DEF stored
<1> SUFFICES ASSUME NEW q \in Pid, NEW u \in Page
             PROVE  PageContent(t, q, u) = PageContent(s, q, u)
  BY DEF SameContent
<1>7. t.residentPages[q][u] = IF q = p /\ u = v THEN f ELSE s.residentPages[q][u]
  BY <1>1, <1>2, MapDomains, PutEntry
<1>8. t.pages[q][u] = IF q = p /\ u = v THEN stored ELSE s.pages[q][u]
  BY <1>1, <1>2, MapDomains, PutEntry
<1>9. CASE q = p /\ u = v
  <2>1. PageContent(t, q, u) = IF stored = NoPage THEN ZeroPage ELSE stored
    BY <1>4, <1>6, <1>7, <1>9, ContentCases
  <2>2. PageContent(s, q, u) = IF stored = NoPage THEN ZeroPage ELSE stored
    BY <1>5, <1>9, ContentCases
  <2> QED
    BY <2>1, <2>2
<1>10. CASE ~(q = p /\ u = v)
  <2>1. s.residentPages[q][u] # NoFrame => s.residentPages[q][u] # f
    BY <1>1 DEF Consistent
  <2>2. s.residentPages[q][u] # NoFrame => s.residentPages[q][u] \in Frame
    BY <1>3
  <2>3. \A g \in Frame : g # f => t.frames[g] = s.frames[g]
    BY <1>2, <1>3 DEF PutOne
  <2>4. s.residentPages[q][u] # NoFrame =>
           t.frames[s.residentPages[q][u]] = s.frames[s.residentPages[q][u]]
    BY <2>1, <2>2, <2>3
  <2>5. t.residentPages[q][u] = s.residentPages[q][u] /\ t.pages[q][u] = s.pages[q][u]
    BY <1>7, <1>8, <1>10
  <2> QED
    BY <2>4, <2>5, ContentKept
<1> QED
  BY <1>9, <1>10

\* The same processes have a page table.
SameTables(s, t) == \A q \in Pid : t.pageTables[q] # 0 <=> s.pageTables[q] # 0

\* DemandPager::LoadPage, whichever way it finds a frame.
LEMMA LoadPageContent ==
  ASSUME NEW s, Good(s), NEW gone, Owned(s, gone), NEW p \in Pid, NEW v \in Page,
         s.residentPages[p][v] = NoFrame, s.pageTables[p] # 0,
         NEW w, NEW t, t = LoadPage(s, p, v, w)
  PROVE  SameContent(s, t) /\ SameTables(s, t)
<1>1. PICK f \in Frame : \E m, o :
            /\ m = EnsureVirtualPageMapped(s, p, v) /\ Good(m)
            /\ o = m \/ (m.frames[f].occupied /\ o = PageOut(m, f, w))
            /\ Good(o) /\ ~o.frames[f].occupied /\ o.residentPages[p][v] = NoFrame
            /\ t = PageIn(o, p, v, f)
  BY LoadPageCases
<1>2. PICK m, o :
            /\ m = EnsureVirtualPageMapped(s, p, v) /\ Good(m)
            /\ o = m \/ (m.frames[f].occupied /\ o = PageOut(m, f, w))
            /\ Good(o) /\ ~o.frames[f].occupied /\ o.residentPages[p][v] = NoFrame
            /\ t = PageIn(o, p, v, f)
  BY <1>1
<1>3. s \in PagerState /\ m \in PagerState /\ o \in PagerState
  BY <1>2 DEF Good
<1>4. /\ m.frames = s.frames /\ m.residentPages = s.residentPages /\ m.pages = s.pages
      /\ m.pageTables[p] # 0
      /\ \A q \in Pid \ {p} : m.pageTables[q] = s.pageTables[q]
  BY <1>2, <1>3, MappedFields
<1>5. Owned(m, gone)
  BY <1>2, <1>3, MappedOwned
<1>6. Owned(o, gone) /\ o.pageTables = m.pageTables
  BY <1>2, <1>5, PageOutOwned
<1>7. SameContent(s, m)
  BY <1>4 DEF SameContent, PageContent
<1>8. SameContent(m, o)
  <2>1. CASE o = m
    BY <2>1 DEF SameContent
  <2>2. CASE o # m
    BY <2>2, <1>2, PageOutContent
  <2> QED
    BY <2>1, <2>2
<1>9. SameContent(o, t)
  BY <1>2, <1>4, <1>6, PageInContent
<1>10. t.pageTables = o.pageTables
  BY <1>2, <1>3, PageInFields
<1>11. SameContent(s, t)
  BY <1>7, <1>8, <1>9 DEF SameContent
<1> QED
  BY <1>4, <1>6, <1>10, <1>11 DEF SameTables

\* One round of the loop of EnsurePagesResident.
LEMMA TouchContent ==
  ASSUME NEW s, Good(s), NEW gone, Owned(s, gone), NEW p \in Pid, NEW v \in Page,
         s.pageTables[p] # 0, NEW w, NEW t, t = Touch(s, p, v, w)
  PROVE  SameContent(s, t) /\ SameTables(s, t)
<1>1. CASE s.residentPages[p][v] # NoFrame
  BY <1>1 DEF Touch, IsPageResident, SameContent, SameTables
<1>2. CASE s.residentPages[p][v] = NoFrame
  <2>1. t = LoadPage(s, p, v, w)
    BY <1>2 DEF Touch, IsPageResident
  <2> QED
    BY <1>2, <2>1, LoadPageContent
<1> QED
  BY <1>1, <1>2

\* Serving a page fault changes no byte of any process.
LEMMA TouchBothContent ==
  ASSUME NEW s, Good(s), NEW gone, Owned(s, gone), NEW p \in Pid,
         NEW a \in Address, a + 1 \in Address, s.pageTables[p] # 0,
         NEW w1, NEW w2, NEW t, t = TouchBoth(s, p, a, w1, w2)
  PROVE  SameContent(s, t) /\ SameTables(s, t)
<1> DEFINE u == TouchFirst(s, p, a, w1)
<1>1. PageOf(a) \in Page /\ PageOf(a + 1) \in Page
  BY AddressSplit
<1>2. u = Touch(s, p, PageOf(a), w1)
  BY DEF TouchFirst, FirstPage
<1>3. t = u \/ t = Touch(u, p, PageOf(a + 1), w2)
  BY DEF TouchBoth, LastPage
<1> HIDE DEF u
<1>4. Good(u) /\ Owned(u, gone) /\ u.pageTables[p] # 0
  BY <1>1, <1>2, TouchGood, TouchOwned
<1>5. SameContent(s, u) /\ SameTables(s, u)
  BY <1>1, <1>2, TouchContent
<1>6. CASE t = u
  BY <1>5, <1>6
<1>7. CASE t = Touch(u, p, PageOf(a + 1), w2)
  <2>1. SameContent(u, t) /\ SameTables(u, t)
    BY <1>1, <1>4, <1>7, TouchContent
  <2> QED
    BY <2>1, <1>5 DEF SameContent, SameTables
<1> QED
  BY <1>3, <1>6, <1>7

-----------------------------------------------------------------------------
\* The flat memory and the registered processes a pager stands for.
MemOf(s) == [p \in Pid |-> [a \in Address |-> Content(s, p, a)]]
RegOf(s) == {p \in Pid : IsRegistered(s, p)}

\* Moving pages does not change the flat memory.
LEMMA SameMem ==
  ASSUME NEW s, NEW t, SameContent(s, t)
  PROVE  MemOf(t) = MemOf(s)
<1>1. ASSUME NEW q \in Pid, NEW b \in Address
      PROVE  Content(t, q, b) = Content(s, q, b)
  BY AddressSplit DEF SameContent, Content
<1> QED
  BY <1>1 DEF MemOf

\* The processes registered do not change.
LEMMA SameReg ==
  ASSUME NEW s, NEW t, SameTables(s, t)
  PROVE  RegOf(t) = RegOf(s)
BY DEF SameTables, RegOf, IsRegistered

\* Page and offset determine the address.
LEMMA AddressUnique ==
  ASSUME NEW a \in Address, NEW b \in Address,
         PageOf(a) = PageOf(b), OffsetOf(a) = OffsetOf(b)
  PROVE  a = b
<1>1. FrameSize \in Nat \ {0} /\ a \in Nat /\ b \in Nat
  BY FrameAssumption, VirtualAssumption DEF Address
<1>2. /\ a = FrameSize * PageOf(a) + OffsetOf(a)
      /\ b = FrameSize * PageOf(b) + OffsetOf(b)
  BY <1>1 DEF PageOf, OffsetOf
<1> QED
  BY <1>2

\* DemandPager::WriteByte writes one byte of the flat memory.
LEMMA WriteByteMem ==
  ASSUME NEW s, Good(s), NEW p \in Pid, NEW a \in Address, NEW byte \in Byte,
         IsPageResident(s, p, PageOf(a)), NEW t, t = WriteByte(s, p, a, byte)
  PROVE  /\ MemOf(t) = [MemOf(s) EXCEPT ![p][a] = byte]
         /\ t.pageTables = s.pageTables
<1> DEFINE f == s.residentPages[p][PageOf(a)]
<1>1. s \in PagerState /\ Consistent(s)
  BY DEF Good
<1>2. PageOf(a) \in Page /\ OffsetOf(a) \in Offset
  BY AddressSplit
<1>3. /\ f \in Frame
      /\ t.frames = Poke(s.frames, f, OffsetOf(a), byte)
      /\ t.residentPages = s.residentPages /\ t.pages = s.pages
      /\ t.pageTables = s.pageTables
  BY <1>1, <1>2, WriteByteFields
<1>4. f # NoFrame /\ f = s.residentPages[p][PageOf(a)]
  BY DEF IsPageResident
<1> HIDE DEF f
<1>5. s.frames \in [Frame -> PageFrame] /\ s.residentPages \in [Pid -> [Page -> Frame \cup {NoFrame}]]
  BY <1>1, MapDomains
<1>6. /\ \A g \in Frame \ {f} : t.frames[g] = s.frames[g]
      /\ \A o \in Offset : t.frames[f].bytes[o] =
            IF o = OffsetOf(a) THEN byte ELSE s.frames[f].bytes[o]
  BY <1>2, <1>3, <1>5 DEF Poke, PageFrame, PageBytes
<1>7. ASSUME NEW q \in Pid, NEW b \in Address
      PROVE  Content(t, q, b) = IF q = p /\ b = a THEN byte ELSE Content(s, q, b)
  <2> DEFINE g == s.residentPages[q][PageOf(b)]
  <2>1. PageOf(b) \in Page /\ OffsetOf(b) \in Offset
    BY AddressSplit
  <2>2. g \in Frame \cup {NoFrame} /\ t.residentPages[q][PageOf(b)] = g
    BY <2>1, <1>3, <1>5
  <2>3. g = s.residentPages[q][PageOf(b)]
    OBVIOUS
  <2> HIDE DEF g
  <2>4. CASE g # f
    <3>1. ~(q = p /\ b = a)
      BY <2>3, <2>4, <1>4
    <3>2. PageContent(t, q, PageOf(b)) = PageContent(s, q, PageOf(b))
      BY <2>2, <2>3, <2>4, <1>3, <1>6, ContentKept
    <3> QED
      BY <3>1, <3>2 DEF Content
  <2>5. CASE g = f
    <3>1. q = p /\ PageOf(b) = PageOf(a)
      <4>1. \A o \in Pid, u \in Page : s.residentPages[o][u] = f =>
               s.frames[f].processId = o /\ s.frames[f].virtualPage = u
        BY <1>1, <1>4 DEF Consistent
      <4>2. s.frames[f].processId = q /\ s.frames[f].virtualPage = PageOf(b)
        BY <4>1, <2>1, <2>3, <2>5
      <4>3. s.frames[f].processId = p /\ s.frames[f].virtualPage = PageOf(a)
        BY <4>1, <1>2, <1>4
      <4> QED
        BY <4>2, <4>3
    <3>2. b = a <=> OffsetOf(b) = OffsetOf(a)
      BY <3>1, AddressUnique
    <3>3. PageContent(t, q, PageOf(b)) = t.frames[f].bytes
      <4>1. t.residentPages[q][PageOf(b)] = f /\ f # NoFrame
        BY <2>2, <2>5, <1>4
      <4> QED
        BY <4>1 DEF PageContent
    <3>4. PageContent(s, q, PageOf(b)) = s.frames[f].bytes
      <4>1. s.residentPages[q][PageOf(b)] = f /\ f # NoFrame
        BY <2>3, <2>5, <1>4
      <4> QED
        BY <4>1 DEF PageContent
    <3> QED
      BY <3>1, <3>2, <3>3, <3>4, <2>1, <1>6 DEF Content
  <2> QED
    BY <2>4, <2>5
<1> QED
  BY <1>3, <1>7 DEF MemOf

\* DemandPager::ReleaseProcessPages zeroes the memory of the process and leaves the
\* others alone.
LEMMA ReleaseMem ==
  ASSUME NEW s, Good(s), NEW p \in Pid, NEW w,
         NEW t, t = ReleaseProcessPages(s, p, w)
  PROVE  /\ MemOf(t) = [MemOf(s) EXCEPT ![p] = [a \in Address |-> 0]]
         /\ RegOf(t) = RegOf(s) \ {p}
<1> DEFINE F == ResidentFrames(s, p)
<1>1. s \in PagerState /\ Consistent(s)
  BY DEF Good
<1>2. /\ t.frames = Freed(s.frames, F)
      /\ t.pages = PutOne(s.pages, p, NoPages)
      /\ t.residentPages = PutOne(s.residentPages, p, NoFrames)
      /\ t.pageTables = PutOne(s.pageTables, p, 0)
  BY <1>1, ReleaseFields
<1>3. /\ s.frames \in [Frame -> PageFrame]
      /\ s.residentPages \in [Pid -> [Page -> Frame \cup {NoFrame}]]
      /\ DOMAIN s.pages = Pid /\ DOMAIN s.residentPages = Pid
      /\ DOMAIN s.pageTables = Pid
  BY <1>1, MapDomains DEF PagerState
<1>4. \A g \in Frame : g \in F => s.frames[g].processId = p
  BY <1>1 DEF ResidentFrames, Consistent
<1> HIDE DEF F
<1>5. ASSUME NEW q \in Pid, NEW b \in Address
      PROVE  Content(t, q, b) = IF q = p THEN 0 ELSE Content(s, q, b)
  <2>1. PageOf(b) \in Page /\ OffsetOf(b) \in Offset
    BY AddressSplit
  <2>2. CASE q = p
    <3>1. t.residentPages[q][PageOf(b)] = NoFrame /\ t.pages[q][PageOf(b)] = NoPage
      BY <2>1, <2>2, <1>2, <1>3 DEF PutOne, NoPages, NoFrames
    <3>2. PageContent(t, q, PageOf(b)) = ZeroPage
      BY <3>1, ContentCases
    <3> QED
      BY <2>1, <2>2, <3>2 DEF Content, ZeroPage
  <2>3. CASE q # p
    <3>1. /\ t.residentPages[q][PageOf(b)] = s.residentPages[q][PageOf(b)]
          /\ t.pages[q][PageOf(b)] = s.pages[q][PageOf(b)]
      BY <2>3, <1>2, <1>3 DEF PutOne
    <3>2. s.residentPages[q][PageOf(b)] # NoFrame =>
             /\ s.residentPages[q][PageOf(b)] \in Frame
             /\ s.frames[s.residentPages[q][PageOf(b)]].processId = q
      BY <2>1, <1>1, <1>3 DEF Consistent
    <3>3. \A g \in Frame \ F : t.frames[g] = s.frames[g]
      BY <1>2 DEF Freed
    <3>4. s.residentPages[q][PageOf(b)] # NoFrame =>
             t.frames[s.residentPages[q][PageOf(b)]] = s.frames[s.residentPages[q][PageOf(b)]]
      BY <2>3, <3>2, <3>3, <1>4
    <3>5. PageContent(t, q, PageOf(b)) = PageContent(s, q, PageOf(b))
      BY <3>1, <3>4, ContentKept
    <3> QED
      BY <2>3, <3>5 DEF Content
  <2> QED
    BY <2>2, <2>3
<1>6. MemOf(t) = [MemOf(s) EXCEPT ![p] = [a \in Address |-> 0]]
  BY <1>5 DEF MemOf
<1>7. RegOf(t) = RegOf(s) \ {p}
  BY <1>2, <1>3 DEF RegOf, IsRegistered, PutOne
<1> QED
  BY <1>6, <1>7

-----------------------------------------------------------------------------
\* The two modules name the same addresses, bytes and replies.
LEMMA SameVocabulary ==
  /\ Flat!Address = Address /\ Flat!NoReply = NoReply
  /\ \A r : Flat!Result(r) = Result(r)
  /\ \A b \in BOOLEAN : Flat!Outcome(b) = Outcome(b)
  /\ \A val : Flat!LowByte(val) = LowByte(val) /\ Flat!HighByte(val) = HighByte(val)
  /\ \A low, high : Flat!Word(low, high) = Word(low, high)
  /\ Flat!Zeros = [a \in Address |-> 0]
  /\ \A p, a : Flat!InRange(p, a) <=> p \in RegOf(pager) /\ a + 2 <= VirtualBytes
BY DEF Flat!Address, Address, Flat!NoReply, NoReply, Flat!Result, Result,
       Flat!Outcome, Outcome, Flat!LowByte, LowByte, Flat!HighByte, HighByte,
       Flat!Word, Word, Flat!Zeros, Flat!InRange, RegOf

\* Only the pages of a registered process can be accessed.
LEMMA RangeOf ==
  ASSUME NEW p \in Pid, NEW a \in Address
  PROVE  IsAddressValid(pager, p, a) <=> Flat!InRange(p, a)
BY SameVocabulary DEF IsAddressValid, RegOf

\* A byte read from a frame is the byte of the flat memory.
LEMMA ReadByteMem ==
  ASSUME NEW s, NEW p \in Pid, NEW a \in Address, IsPageResident(s, p, PageOf(a))
  PROVE  ReadByte(s, p, a) = MemOf(s)[p][a]
BY DEF ReadByte, MemOf, Content, PageContent, IsPageResident

\* RegisterProcess answers TRUE exactly if the process has a page table.
LEMMA RegisterFlat ==
  ASSUME LeakInv, NEW p \in Pid, NEW m \in MemorySize, RegisterProcess(p, m)
  PROVE  Flat!Register(p)
<1> DEFINE n == m \div FrameSize
           accepted == m > 0 /\ m <= TotalMemory /\ n > 0
           now == m > 0 /\ m <= TotalMemory /\ IsRegistered(pager', p)
<1>1. pager \in PagerState /\ n \in Int
  <2>1. m \in Nat /\ FrameSize \in Nat \ {0}
    BY MemorySizeAssumption, FrameAssumption
  <2> QED
    BY <2>1 DEF LeakInv, PagingInv, TypeOK
<1>2. /\ pager' = IF accepted THEN [pager EXCEPT !.pageTables[p] = n] ELSE pager
      /\ reply' = Outcome(now) /\ UNCHANGED instructionRetryPending
  BY DEF RegisterProcess
<1>3. now \in BOOLEAN
  BY DEF IsRegistered
<1> HIDE DEF now
<1>4. CASE accepted
  <2>1. pager' = [pager EXCEPT !.pageTables[p] = n] /\ n # 0
    BY <1>1, <1>2, <1>4
  <2> HIDE DEF n
  <2>2. /\ pager'.frames = pager.frames /\ pager'.residentPages = pager.residentPages
        /\ pager'.pages = pager.pages
        /\ pager'.pageTables[p] = n
        /\ \A q \in Pid \ {p} : pager'.pageTables[q] = pager.pageTables[q]
    BY <2>1, <1>1 DEF PagerState
  <2>3. MemOf(pager') = MemOf(pager)
    <3>1. SameContent(pager, pager')
      BY <2>2 DEF SameContent, PageContent
    <3> QED
      BY <3>1, SameMem
  <2>4. RegOf(pager') = RegOf(pager) \cup {p}
    BY <2>1, <2>2 DEF RegOf, IsRegistered
  <2>5. now
    BY <1>4, <2>1, <2>2 DEF now, n, IsRegistered
  <2>6. reply' = Flat!Outcome(TRUE)
    BY <1>2, <2>5, SameVocabulary
  <2> QED
    BY <1>2, <2>3, <2>4, <2>6 DEF Flat!Register, MemOf, RegOf
<1>5. CASE ~accepted
  <2>1. pager' = pager
    BY <1>2, <1>5
  <2>2. CASE now
    <3>1. RegOf(pager) = RegOf(pager) \cup {p}
      BY <2>1, <2>2 DEF now, RegOf
    <3>2. reply' = Flat!Outcome(TRUE)
      BY <1>2, <2>2, SameVocabulary
    <3>3. RegOf(pager') = RegOf(pager) \cup {p}
      BY <3>1, <2>1
    <3> QED
      BY <1>2, <2>1, <3>2, <3>3 DEF Flat!Register, RegOf
  <2>3. CASE ~now
    <3>1. reply' = Flat!Outcome(FALSE)
      BY <1>2, <1>3, <2>3, SameVocabulary
    <3> QED
      BY <1>2, <2>1, <3>1 DEF Flat!Register
  <2> QED
    BY <2>2, <2>3
<1> QED
  BY <1>4, <1>5

\* The written word is read back from the two addresses, even if they lie in two
\* pages.
LEMMA WriteFlat ==
  ASSUME LeakInv, NEW p \in Pid, NEW a \in Address, NEW val \in Value,
         WriteProcessMemory(p, a, val)
  PROVE  Flat!Write(p, a, val)
<1> DEFINE u == WriteByte(pager, p, a, LowByte(val))
<1>1. /\ a + 1 \in Address /\ IsAddressValid(pager, p, a)
      /\ IsPageResident(pager, p, PageOf(a)) /\ IsPageResident(pager, p, PageOf(a + 1))
  BY ValidAddress DEF WriteProcessMemory, CanAccess, FirstPage, LastPage
<1>2. LowByte(val) \in Byte /\ HighByte(val) \in Byte
  BY ByteTypes
<1>3. /\ pager' = WriteByte(u, p, a + 1, HighByte(val))
      /\ u = WriteByte(pager, p, a, LowByte(val))
      /\ reply' = Result("Success") /\ UNCHANGED instructionRetryPending
  BY DEF WriteProcessMemory
<1> HIDE DEF u
<1>4. Good(pager)
  BY DEF LeakInv, PagingInv
<1>5. Good(u) /\ u.residentPages = pager.residentPages
  BY <1>1, <1>2, <1>3, <1>4, WriteByteGood
<1>6. MemOf(u) = [MemOf(pager) EXCEPT ![p][a] = LowByte(val)] /\ u.pageTables = pager.pageTables
  BY <1>1, <1>2, <1>3, <1>4, WriteByteMem
<1>7. IsPageResident(u, p, PageOf(a + 1))
  BY <1>1, <1>5 DEF IsPageResident
<1>8. /\ MemOf(pager') = [MemOf(u) EXCEPT ![p][a + 1] = HighByte(val)]
      /\ pager'.pageTables = u.pageTables
  BY <1>1, <1>2, <1>3, <1>5, <1>7, WriteByteMem
<1>9. MemOf(pager') = [MemOf(pager) EXCEPT ![p][a] = Flat!LowByte(val),
                                           ![p][a + 1] = Flat!HighByte(val)]
  BY <1>6, <1>8, SameVocabulary
<1>10. RegOf(pager') = RegOf(pager)
  BY <1>6, <1>8 DEF RegOf, IsRegistered
<1>11. Flat!InRange(p, a) /\ reply' = Flat!Result("Success")
  BY <1>1, <1>3, RangeOf, SameVocabulary
<1> QED
  BY <1>3, <1>9, <1>10, <1>11 DEF Flat!Write, MemOf, RegOf

\* The program starts with zero-filled memories and no process registered.
LEMMA InitFlat == Init => Flat!Init
<1> SUFFICES ASSUME Init PROVE Flat!Init
  OBVIOUS
<1>1. /\ pager.residentPages = [p \in Pid |-> NoFrames] /\ pager.pages = Unstored
      /\ pager.pageTables = [p \in Pid |-> 0]
  BY DEF Init, InitPager, NoFrames
<1>2. ASSUME NEW p \in Pid, NEW a \in Address PROVE Content(pager, p, a) = 0
  <2>1. PageOf(a) \in Page /\ OffsetOf(a) \in Offset
    BY AddressSplit
  <2>2. PageContent(pager, p, PageOf(a)) = ZeroPage
    BY <1>1, <2>1 DEF PageContent, NoFrames, Unstored
  <2> QED
    BY <2>1, <2>2 DEF Content, ZeroPage
<1>3. MemOf(pager) = [p \in Pid |-> Flat!Zeros]
  BY <1>2, SameVocabulary DEF MemOf
<1>4. RegOf(pager) = {}
  BY <1>1 DEF RegOf, IsRegistered
<1>5. instructionRetryPending = {} /\ reply = Flat!NoReply
  BY SameVocabulary DEF Init
<1> QED
  BY <1>3, <1>4, <1>5 DEF Flat!Init, MemOf, RegOf

\* Every operation of MemoryManager is the operation of the flat memory of the
\* same name.
LEMMA NextFlat == LeakInv /\ [Next]_vars => [Flat!Next]_(Flat!vars)
<1> SUFFICES ASSUME LeakInv, [Next]_vars PROVE Flat!Next \/ UNCHANGED Flat!vars
  OBVIOUS
<1>1. Good(pager) /\ Owned(pager, retired)
  BY DEF LeakInv, PagingInv, NothingLeaks
<1>2. CASE UNCHANGED vars
  BY <1>2 DEF vars, Flat!vars
<1>3. ASSUME NEW p \in Pid, NEW m \in MemorySize, RegisterProcess(p, m)
      PROVE  Flat!Next
  BY <1>3, RegisterFlat DEF Flat!Next
<1>4. ASSUME NEW p \in Pid, NEW w \in FileOutcome, ReleaseProcessMemory(p, w)
      PROVE  Flat!Next
  <2>1. /\ pager' = ReleaseProcessPages(pager, p, w)
        /\ instructionRetryPending' = instructionRetryPending \ {p}
        /\ reply' = Flat!NoReply
    BY <1>4, SameVocabulary DEF ReleaseProcessMemory
  <2>2. /\ MemOf(pager') = [MemOf(pager) EXCEPT ![p] = Flat!Zeros]
        /\ RegOf(pager') = RegOf(pager) \ {p}
    BY <2>1, <1>1, ReleaseMem, SameVocabulary
  <2>3. Flat!Release(p)
    BY <2>1, <2>2 DEF Flat!Release, MemOf, RegOf
  <2> QED
    BY <2>3 DEF Flat!Next
<1>5. ASSUME NEW p \in Pid, ResetPageFaultRetryFlag(p) PROVE Flat!Next
  <2>1. Flat!ResetFlag(p)
    BY <1>5, SameVocabulary DEF ResetPageFaultRetryFlag, Flat!ResetFlag
  <2> QED
    BY <2>1 DEF Flat!Next
<1>6. ASSUME NEW p \in Pid, ConsumePageFaultRetryFlag(p) PROVE Flat!Next
  <2>1. Outcome(p \in instructionRetryPending) = Flat!Outcome(p \in instructionRetryPending)
    BY DEF Outcome, Result, Flat!Outcome, Flat!Result
  <2>2. Flat!ConsumeFlag(p)
    BY <1>6, <2>1 DEF ConsumePageFaultRetryFlag, Flat!ConsumeFlag
  <2> QED
    BY <2>2 DEF Flat!Next
<1>7. ASSUME NEW p \in Pid, NEW a \in Address, RefuseAccess(p, a) PROVE Flat!Next
  <2>1. Flat!Violate(p, a)
    BY <1>7, SameVocabulary, RangeOf DEF RefuseAccess, Flat!Violate
  <2> QED
    BY <2>1, SameVocabulary DEF Flat!Next
<1>8. ASSUME NEW p \in Pid, NEW a \in Address, NEW w1 \in FileOutcome,
             NEW w2 \in FileOutcome, FaultAccess(p, a, w1, w2)
      PROVE  Flat!Next
  <2>1. /\ pager' = TouchBoth(pager, p, a, w1, w2) /\ a + 1 \in Address
        /\ pager.pageTables[p] # 0 /\ Flat!InRange(p, a)
        /\ instructionRetryPending' = instructionRetryPending \cup {p}
        /\ reply' = Flat!Result("PageFaultRetry")
    BY <1>8, ValidAddress, RangeOf, SameVocabulary
       DEF FaultAccess, IsAddressValid, IsRegistered
  <2>2. SameContent(pager, pager') /\ SameTables(pager, pager')
    BY <2>1, <1>1, TouchBothContent
  <2>3. MemOf(pager') = MemOf(pager) /\ RegOf(pager') = RegOf(pager)
    BY <2>2, SameMem, SameReg
  <2>4. Flat!Fault(p, a)
    BY <2>1, <2>3 DEF Flat!Fault, MemOf, RegOf
  <2> QED
    BY <2>4, SameVocabulary DEF Flat!Next
<1>9. ASSUME NEW p \in Pid, NEW a \in Address, ReadProcessMemory(p, a) PROVE Flat!Next
  <2>1. /\ a + 1 \in Address /\ Flat!InRange(p, a)
        /\ IsPageResident(pager, p, PageOf(a)) /\ IsPageResident(pager, p, PageOf(a + 1))
    BY <1>9, ValidAddress, RangeOf DEF ReadProcessMemory, CanAccess, FirstPage, LastPage
  <2>2. reply' = [result |-> "Success",
                  value |-> Flat!Word(MemOf(pager)[p][a], MemOf(pager)[p][a + 1])]
    BY <1>9, <2>1, ReadByteMem, SameVocabulary DEF ReadProcessMemory
  <2>3. UNCHANGED <<pager, instructionRetryPending>>
    BY <1>9 DEF ReadProcessMemory
  <2>4. Flat!Read(p, a)
    BY <2>1, <2>2, <2>3 DEF Flat!Read, MemOf
  <2> QED
    BY <2>4, SameVocabulary DEF Flat!Next
<1>10. ASSUME NEW p \in Pid, NEW a \in Address, NEW val \in Value,
              WriteProcessMemory(p, a, val)
       PROVE  Flat!Next
  BY <1>10, WriteFlat, SameVocabulary DEF Flat!Next
<1> QED
  BY <1>2, <1>3, <1>4, <1>5, <1>6, <1>7, <1>8, <1>9, <1>10 DEF Next

\* Demand paging, replacement, swapping and a failing swap file are invisible to the
\* instructions: what they read from their memory is what they last wrote to it.
THEOREM PagingImplementsFlatMemory == Spec => ImplementsFlatMemory
<1>1. Init => Flat!Init
  BY InitFlat
<1>2. LeakInv /\ [Next]_vars => [Flat!Next]_(Flat!vars)
  BY NextFlat
<1>3. Spec => []LeakInv
  BY LeakInvariant
<1> QED
  BY <1>1, <1>2, <1>3, PTL DEF Spec, ImplementsFlatMemory, Flat!Spec

=============================================================================
