--------------------------- MODULE AclMatchProofs ---------------------------
(***************************************************************************)
(* Proofs about AclMatch, for every request, every set of labels and every *)
(* match condition.  The argument is in three parts: what append does to a *)
(* memory of arrays; that every goroutine keeps the slices of its own      *)
(* recursion apart; and that a combination which matches is never passed   *)
(* over while the matcher waits.                                           *)
(***************************************************************************)
EXTENDS AclMatch, FiniteSetTheorems, TLAPS

----------------------------------------------------------------------------
(* Slices and arrays *)

\* A memory: arrays of cells.
Memories == Seq(Seq(Cells))

\* s is a slice of m: it lies within an array.
SliceOf(m, s) ==
    /\ s \in Slices
    /\ s.len = 0 \/ (s.arr \in DOMAIN m /\ s.len <= Len(m[s.arr]))

\* The elements of a slice are those of its array, as many as its length.
LEMMA ElementsOfSlice ==
    ASSUME NEW m \in Memories, NEW s, SliceOf(m, s)
    PROVE  /\ Elements(m, s) \in Seq(Cells)
           /\ Len(Elements(m, s)) = s.len
           /\ \A k \in 1 .. s.len : Elements(m, s)[k] = m[s.arr][k]
<1>1. CASE s.len = 0
  BY <1>1 DEF Elements
<1>2. CASE s.len # 0
  <2>1. s.arr \in DOMAIN m /\ s.len <= Len(m[s.arr]) /\ s.len \in Nat
    BY <1>2 DEF SliceOf, Slices
  <2>2. m[s.arr] \in Seq(Cells)
    BY <2>1 DEF Memories
  <2> QED BY <1>2, <2>1, <2>2 DEF Elements
<1> QED BY <1>1, <1>2

\* A new array leaves the others as they are and begins with what it was given.
Allocated(m, seq, c, a) ==
    /\ a.mem \in Memories /\ Len(a.mem) = Len(m) + 1
    /\ \A i \in DOMAIN m : a.mem[i] = m[i]
    /\ a.slice = [arr |-> Len(m) + 1, len |-> Len(seq)]
    /\ Len(a.mem[Len(m) + 1]) = c
    /\ \A k \in 1 .. Len(seq) : a.mem[Len(m) + 1][k] = seq[k]

\* So does Alloc's.
LEMMA AllocFresh ==
    ASSUME NEW m \in Memories, NEW seq \in Seq(Cells), NEW c \in Nat, Len(seq) <= c,
           NEW a, a = Alloc(m, seq, c)
    PROVE  Allocated(m, seq, c, a)
<1> USE DEF Allocated
<1> DEFINE room == Room(c - Len(seq))
           new == seq \o room
<1>1. room \in Seq(Cells) /\ Len(room) = c - Len(seq)
  BY DEF Room, Cells
<1>2. new \in Seq(Cells) /\ Len(new) = c /\ \A k \in 1 .. Len(seq) : new[k] = seq[k]
  BY <1>1
<1> HIDE DEF new
<1>3. /\ Append(m, new) \in Memories /\ Len(Append(m, new)) = Len(m) + 1
      /\ \A i \in DOMAIN m : Append(m, new)[i] = m[i]
      /\ Append(m, new)[Len(m) + 1] = new
  BY <1>2 DEF Memories
<1>4. Alloc(m, seq, c) = [mem |-> Append(m, new), slice |-> [arr |-> Len(m) + 1, len |-> Len(seq)]]
  BY DEF Alloc, new
<1> QED BY <1>2, <1>3, <1>4

\* append on a copy: the old arrays are as they were, the new slice is apart
\* from all of them and ends with the new element.
CopyAppended(m, s, x, a) ==
    /\ a.mem \in Memories /\ Len(a.mem) = Len(m) + 1
    /\ \A i \in DOMAIN m : a.mem[i] = m[i]
    /\ a.slice \in Slices /\ a.slice.arr = Len(m) + 1 /\ a.slice.len = s.len + 1
    /\ Len(a.mem[a.slice.arr]) = s.len + 1
    /\ \A k \in 1 .. s.len : a.mem[a.slice.arr][k] = m[s.arr][k]
    /\ a.mem[a.slice.arr][s.len + 1] = x

\* The append in the innermost loop, to a copy of the prefix, does that.
LEMMA AppendCopyFresh ==
    ASSUME NEW m \in Memories, NEW s, SliceOf(m, s), NEW x \in Cells
    PROVE  CopyAppended(m, s, x, AppendCopy(m, s, x))
<1> DEFINE a == AppendCopy(m, s, x)
<1>a. a = AppendCopy(m, s, x)
  OBVIOUS
<1> HIDE DEF a
<1> DEFINE seq == Append(Elements(m, s), x)
<1>1. s.len \in Nat
  BY DEF SliceOf, Slices
<1>2. /\ seq \in Seq(Cells) /\ Len(seq) = s.len + 1 /\ seq[s.len + 1] = x
      /\ \A k \in 1 .. s.len : seq[k] = m[s.arr][k]
  BY <1>1, ElementsOfSlice
<1>3. a = Alloc(m, seq, s.len + 1)
  BY <1>a DEF AppendCopy
<1> HIDE DEF seq
<1>4. /\ a.mem \in Memories /\ Len(a.mem) = Len(m) + 1
      /\ \A i \in DOMAIN m : a.mem[i] = m[i]
      /\ a.slice = [arr |-> Len(m) + 1, len |-> Len(seq)]
      /\ Len(a.mem[Len(m) + 1]) = s.len + 1
      /\ \A k \in 1 .. Len(seq) : a.mem[Len(m) + 1][k] = seq[k]
  <2>1. s.len + 1 \in Nat /\ Len(seq) <= s.len + 1
    BY ONLY <1>1, <1>2
  <2>2. Allocated(m, seq, s.len + 1, a)
    BY ONLY m \in Memories, <1>2, <1>3, <2>1, AllocFresh
  <2> QED BY ONLY <2>2 DEF Allocated
<1>5. a.slice.arr = Len(m) + 1 /\ a.slice.len = s.len + 1 /\ Len(m) \in Nat
  BY <1>2, <1>4 DEF Memories
<1>6. a.slice \in Slices
  BY <1>1, <1>2, <1>4, <1>5 DEF Slices
<1>7. /\ Len(a.mem[a.slice.arr]) = s.len + 1
      /\ \A k \in 1 .. s.len : a.mem[a.slice.arr][k] = m[s.arr][k]
      /\ a.mem[a.slice.arr][s.len + 1] = x
  <2>1. s.len + 1 \in 1 .. Len(seq) /\ \A k \in 1 .. s.len : k \in 1 .. Len(seq)
    BY ONLY <1>1, <1>2
  <2> QED BY ONLY <1>2, <1>4, <1>5, <2>1, Zenon
<1> QED BY <1>a, <1>4, <1>5, <1>6, <1>7 DEF CopyAppended

\* append writes one cell, the one behind the slice, or allocates: every cell of
\* the old arrays but that one keeps its value, and the new slice is the old one
\* with the new element.
Appended(m, s, x, a) ==
    /\ a.mem \in Memories /\ Len(a.mem) >= Len(m)
    /\ \A i \in DOMAIN m : Len(a.mem[i]) = Len(m[i])
    /\ \A i \in DOMAIN m : \A k \in 1 .. Len(m[i]) :
         i # s.arr \/ k <= s.len => a.mem[i][k] = m[i][k]
    /\ a.slice \in Slices /\ a.slice.len = s.len + 1
    /\ a.slice.arr \in DOMAIN a.mem /\ s.len + 1 <= Len(a.mem[a.slice.arr])
    /\ \A k \in 1 .. s.len : a.mem[a.slice.arr][k] = m[s.arr][k]
    /\ a.mem[a.slice.arr][s.len + 1] = x
    /\ a.slice.arr = s.arr \/ a.slice.arr \notin DOMAIN m

\* Append writes the new element behind the slice, in its array or in a new
\* one, and changes nothing before it.
LEMMA AppendToWrites ==
    ASSUME NEW m \in Memories, NEW s, SliceOf(m, s), s.len = 0 => s.arr = 0, NEW x \in Cells
    PROVE  Appended(m, s, x, AppendTo(m, s, x))
<1> DEFINE a == AppendTo(m, s, x)
<1>a. a = AppendTo(m, s, x)
  OBVIOUS
<1> HIDE DEF a
<1>1. s.len \in Nat /\ s.arr \in Nat
  BY DEF SliceOf, Slices
<1>2. CASE s.len < Cap(m, s)
  <2> DEFINE n == [m EXCEPT ![s.arr][s.len + 1] = x]
             row == [m[s.arr] EXCEPT ![s.len + 1] = x]
  <2>1. s.arr # 0 /\ s.arr \in DOMAIN m
    BY <1>1, <1>2 DEF Cap, SliceOf
  <2>2. m[s.arr] \in Seq(Cells) /\ s.len + 1 \in 1 .. Len(m[s.arr])
    BY <1>1, <1>2, <2>1 DEF Cap, Memories
  <2>3. /\ row \in Seq(Cells) /\ Len(row) = Len(m[s.arr]) /\ row[s.len + 1] = x
        /\ \A k \in 1 .. Len(m[s.arr]) : k # s.len + 1 => row[k] = m[s.arr][k]
    BY <1>1, <2>2
  <2>4. n = [m EXCEPT ![s.arr] = row]
    OBVIOUS
  <2> HIDE DEF row, n
  <2>5. /\ n \in Memories /\ Len(n) = Len(m) /\ n[s.arr] = row
        /\ \A i \in DOMAIN m : i # s.arr => n[i] = m[i]
    BY <2>1, <2>3, <2>4 DEF Memories
  <2>6. a = [mem |-> n, slice |-> [s EXCEPT !.len = s.len + 1]]
    BY <1>2, <1>a DEF AppendTo, n
  <2>7. a.mem = n /\ a.slice \in Slices /\ a.slice.len = s.len + 1 /\ a.slice.arr = s.arr
    BY <1>1, <2>6 DEF SliceOf, Slices
  <2>8. DOMAIN m = 1 .. Len(m) /\ DOMAIN n = 1 .. Len(n)
    BY <2>5 DEF Memories
  <2>9. \A i \in DOMAIN m : Len(n[i]) = Len(m[i])
    BY <2>5, <2>3
  <2>10. \A i \in DOMAIN m : \A k \in 1 .. Len(m[i]) :
           i # s.arr \/ k <= s.len => n[i][k] = m[i][k]
    <3> SUFFICES ASSUME NEW i \in DOMAIN m, NEW k \in 1 .. Len(m[i]), i # s.arr \/ k <= s.len
                 PROVE  n[i][k] = m[i][k]
      OBVIOUS
    <3>1. CASE i # s.arr
      BY <3>1, <2>5
    <3>2. CASE i = s.arr
      <4>1. k # s.len + 1 /\ k \in 1 .. Len(m[s.arr])
        BY <3>2, <1>1
      <4> QED BY <3>2, <4>1, <2>3, <2>5
    <3> QED BY <3>1, <3>2
  <2>11. /\ \A k \in 1 .. s.len : n[s.arr][k] = m[s.arr][k]
         /\ n[s.arr][s.len + 1] = x /\ s.len + 1 <= Len(n[s.arr])
    <3>1. s.len + 1 <= Len(row) /\ \A k \in 1 .. s.len : k \in 1 .. Len(m[s.arr]) /\ k # s.len + 1
      BY ONLY <1>1, <2>2, <2>3
    <3> QED BY ONLY <2>3, <2>5, <3>1
  <2>12. Len(n) >= Len(m)
    BY <2>5 DEF Memories
  <2>13. s.arr \in DOMAIN n
    BY <2>1, <2>5, <2>8
  <2>a. a.slice.arr = s.arr /\ a.slice.len = s.len + 1
    BY ONLY <2>7
  <2>b. \A i \in DOMAIN m : Len(a.mem[i]) = Len(m[i])
    BY ONLY <2>7, <2>9
  <2>c. \A i \in DOMAIN m : \A k \in 1 .. Len(m[i]) :
           i # s.arr \/ k <= s.len => a.mem[i][k] = m[i][k]
    BY ONLY <2>7, <2>10
  <2>d. /\ \A k \in 1 .. s.len : a.mem[a.slice.arr][k] = m[s.arr][k]
        /\ a.mem[a.slice.arr][s.len + 1] = x /\ s.len + 1 <= Len(a.mem[a.slice.arr])
    BY ONLY <2>7, <2>11
  <2>e. a.mem \in Memories /\ Len(a.mem) >= Len(m) /\ a.slice.arr \in DOMAIN a.mem
    BY ONLY <2>5, <2>7, <2>12, <2>13
  <2> QED BY ONLY <1>a, <2>a, <2>b, <2>c, <2>d, <2>e, <2>7 DEF Appended
<1>3. CASE ~(s.len < Cap(m, s))
  <2> DEFINE seq == Append(Elements(m, s), x)
             c == IF s.len = 0 THEN 1 ELSE 2 * s.len
  <2>1. /\ seq \in Seq(Cells) /\ Len(seq) = s.len + 1 /\ seq[s.len + 1] = x
        /\ \A k \in 1 .. s.len : seq[k] = m[s.arr][k]
    BY <1>1, ElementsOfSlice
  <2>2. c \in Nat /\ s.len + 1 <= c
    BY <1>1
  <2>3. a = Alloc(m, seq, c)
    BY <1>3, <1>a DEF AppendTo
  <2> HIDE DEF seq, c
  <2>4. /\ a.mem \in Memories /\ Len(a.mem) = Len(m) + 1
        /\ \A i \in DOMAIN m : a.mem[i] = m[i]
        /\ a.slice = [arr |-> Len(m) + 1, len |-> Len(seq)]
        /\ Len(a.mem[Len(m) + 1]) = c
        /\ \A k \in 1 .. Len(seq) : a.mem[Len(m) + 1][k] = seq[k]
    <3>1. Len(seq) <= c
      BY ONLY <2>1, <2>2
    <3>2. Allocated(m, seq, c, a)
      BY ONLY m \in Memories, <2>1, <2>2, <2>3, <3>1, AllocFresh
    <3> QED BY ONLY <3>2 DEF Allocated
  <2>5. DOMAIN m = 1 .. Len(m) /\ Len(m) \in Nat /\ DOMAIN a.mem = 1 .. (Len(m) + 1)
    BY <2>4 DEF Memories
  <2>6. a.slice \in Slices /\ a.slice.len = s.len + 1 /\ a.slice.arr = Len(m) + 1
    BY <1>1, <2>1, <2>4, <2>5 DEF Slices
  <2>7. /\ \A k \in 1 .. s.len : a.mem[a.slice.arr][k] = m[s.arr][k]
        /\ a.mem[a.slice.arr][s.len + 1] = x
        /\ s.len + 1 <= Len(a.mem[a.slice.arr])
    BY <1>1, <2>1, <2>2, <2>4, <2>6
  <2>8. /\ a.slice.arr \in DOMAIN a.mem /\ a.slice.arr \notin DOMAIN m
        /\ Len(a.mem) >= Len(m)
    BY <2>4, <2>5, <2>6
  <2> QED BY <1>a, <2>4, <2>6, <2>7, <2>8 DEF Appended
<1> QED BY <1>2, <1>3

----------------------------------------------------------------------------
(* What the inductive invariant says of one goroutine *)

Frames == [i : Nat, result : Slices]

\* What the proofs below use of a goroutine, read off IndInv.
LEMMA GoroutineFacts ==
    ASSUME IndInv, NEW f \in FieldNames
    PROVE  /\ prod[f] \in Goroutines /\ mem[f] \in Memories
           /\ prod[f].stack \in Seq(Frames) /\ prod[f].order \in Seq(DOMAIN Labels)
           /\ prod[f].out \in Slices \cup {None}
           /\ Depth(f) \in Nat /\ Len(prod[f].order) \in Nat /\ Depth(f) <= Len(prod[f].order)
           /\ DOMAIN prod[f].stack = 1 .. Depth(f)
           /\ DOMAIN prod[f].order = 1 .. Len(prod[f].order)
           /\ GoroutineOK(f)
<1>1. prod[f] \in Goroutines /\ mem[f] \in Memories /\ GoroutineOK(f)
  BY DEF IndInv, Memories
<1>2. /\ prod[f].stack \in Seq(Frames) /\ prod[f].order \in Seq(DOMAIN Labels)
      /\ prod[f].out \in Slices \cup {None}
  BY <1>1 DEF Goroutines, Frames
<1> QED BY <1>1, <1>2 DEF GoroutineOK, Depth

\* The loop that runs: its slice is a slice of the memory, as long as the loops
\* around it are many, and its element is a label.
LEMMA RunningFacts ==
    ASSUME IndInv, NEW f \in FieldNames, Running(f)
    PROVE  /\ Depth(f) \in 1 .. Len(prod[f].order) /\ Depth(f) \in Nat /\ Depth(f) > 0
           /\ prod[f].order[Depth(f)] \in DOMAIN Labels /\ TopLevel(f) \in Seq(Nat)
           /\ Frame(f) \in Frames /\ Frame(f).i > 0 /\ Frame(f).result.len = Depth(f) - 1
           /\ SliceOf(mem[f], Frame(f).result)
           /\ Frame(f).result.len = 0 => Frame(f).result.arr = 0
           /\ HasNext(f) => Frame(f).i \in DOMAIN TopLevel(f) /\ Element(f) \in Cells
           /\ ~HasNext(f) => Len(TopLevel(f)) < Frame(f).i
<1> DEFINE D == Depth(f)
<1>1. D \in 1 .. Len(prod[f].order) /\ D \in Nat /\ D > 0 /\ D \in DOMAIN prod[f].order
      /\ D \in DOMAIN prod[f].stack /\ D \in 1 .. D
  BY GoroutineFacts DEF Running
<1>2. prod[f].order[D] \in DOMAIN Labels
  BY <1>1, GoroutineFacts
<1>3. TopLevel(f) \in Seq(Nat)
  BY <1>2, LabelsAssumption DEF TopLevel
<1>4. Frame(f) \in Frames
  BY <1>1, GoroutineFacts DEF Frame
<1>5. FramesOK(f)
  BY GoroutineFacts DEF GoroutineOK
<1>6. /\ Frame(f).i > 0 /\ Frame(f).result.len = D - 1
      /\ IF D = 1 THEN Frame(f).result.arr = 0
         ELSE Frame(f).result.arr \in DOMAIN mem[f] /\ D - 1 <= Len(mem[f][Frame(f).result.arr])
  BY <1>1, <1>5 DEF FramesOK, Frame
<1>7. Frame(f).i \in Nat /\ Frame(f).result \in Slices
  BY <1>4 DEF Frames
<1>8. SliceOf(mem[f], Frame(f).result) /\ (Frame(f).result.len = 0 => Frame(f).result.arr = 0)
  BY <1>1, <1>6, <1>7 DEF SliceOf
<1>9. HasNext(f) => Frame(f).i \in DOMAIN TopLevel(f) /\ Element(f) \in Cells
  <2> SUFFICES ASSUME HasNext(f) PROVE Frame(f).i \in DOMAIN TopLevel(f) /\ Element(f) \in Cells
    OBVIOUS
  <2>1. Frame(f).i \in DOMAIN TopLevel(f)
    BY <1>3, <1>6, <1>7 DEF HasNext
  <2>2. TopLevel(f)[Frame(f).i] \in Nat
    BY <1>3, <2>1
  <2> QED BY <2>1, <2>2, <1>2 DEF Element, Cells
<1>10. ~HasNext(f) => Len(TopLevel(f)) < Frame(f).i
  BY <1>3, <1>7 DEF HasNext
<1> QED BY <1>1, <1>2, <1>3, <1>4, <1>6, <1>8, <1>9, <1>10

\* The next turn of the innermost loop changes nothing but that loop's index.
LEMMA AdvancedFacts ==
    ASSUME IndInv, NEW f \in FieldNames, Running(f)
    PROVE  /\ Advanced(f) \in Seq(Frames) /\ Len(Advanced(f)) = Depth(f)
           /\ \A d \in 1 .. Depth(f) - 1 : Advanced(f)[d] = prod[f].stack[d]
           /\ Advanced(f)[Depth(f)].i = Frame(f).i + 1
           /\ Advanced(f)[Depth(f)].result = Frame(f).result
<1> DEFINE D == Depth(f)
           st == prod[f].stack
           top == [st[D] EXCEPT !.i = @ + 1]
<1>1. D \in Nat /\ D > 0 /\ st \in Seq(Frames) /\ Len(st) = D /\ st[D] = Frame(f) /\ Frame(f) \in Frames
  BY GoroutineFacts, RunningFacts DEF Depth, Frame
<1>2. top \in Frames /\ top.i = Frame(f).i + 1 /\ top.result = Frame(f).result
  BY <1>1 DEF Frames
<1>3. Advanced(f) = [st EXCEPT ![D] = top]
  BY DEF Advanced
<1> HIDE DEF D, st, top
<1>4. /\ [st EXCEPT ![D] = top] \in Seq(Frames) /\ Len([st EXCEPT ![D] = top]) = D
      /\ [st EXCEPT ![D] = top][D] = top
      /\ \A d \in 1 .. D - 1 : [st EXCEPT ![D] = top][d] = st[d]
  BY <1>1, <1>2
<1> QED BY <1>2, <1>3, <1>4 DEF D, st

\* FramesOK, as a fact about a stack, an order of the labels and a memory.
Loops(D, stack, order, m) ==
    \A d \in 1 .. D :
        LET fr == stack[d] IN
        /\ fr.i > 0 /\ fr.result.len = d - 1
        /\ IF d = 1 THEN fr.result.arr = 0
           ELSE fr.result.arr \in DOMAIN m /\ d - 1 <= Len(m[fr.result.arr])
        /\ d < D => fr.i - 1 \in DOMAIN Labels[order[d]]
        /\ \A k \in 1 .. d - 1 :
             m[fr.result.arr][k] = <<order[k], Labels[order[k]][stack[k].i - 1]>>

\* It depends on nothing else.
LEMMA FramesAreLoops ==
    ASSUME NEW f \in FieldNames
    PROVE  /\ FramesOK(f) <=> Loops(Depth(f), prod[f].stack, prod[f].order, mem[f])
           /\ FramesOK(f)' <=> Loops(Depth(f)', prod'[f].stack, prod'[f].order, mem'[f])
<1>1. FramesOK(f) <=> Loops(Depth(f), prod[f].stack, prod[f].order, mem[f])
  BY ONLY DEF FramesOK, Chosen, Loops
<1>2. FramesOK(f)' <=> Loops(Depth(f)', prod'[f].stack, prod'[f].order, mem'[f])
  BY ONLY DEF FramesOK, Chosen, Loops
<1> QED BY <1>1, <1>2

\* A goroutine that a step leaves alone, or only cancels, keeps its part of the
\* invariant.
LEMMA SameLoops ==
    ASSUME NEW g \in FieldNames, GoroutineOK(g), mem'[g] = mem[g],
           prod'[g].state = prod[g].state, prod'[g].order = prod[g].order,
           prod'[g].stack = prod[g].stack, prod'[g].out = prod[g].out
    PROVE  GoroutineOK(g)'
<1>1. Depth(g)' = Depth(g) /\ Leaf(g)' = Leaf(g) /\ TopLevel(g)' = TopLevel(g)
      /\ Frame(g)' = Frame(g)
  BY DEF Depth, Leaf, TopLevel, Frame
<1>2. HasNext(g)' = HasNext(g) /\ Element(g)' = Element(g)
  BY <1>1 DEF HasNext, Element, Depth, TopLevel, Frame
<1>3. \A k : Chosen(g, k)' = Chosen(g, k)
  BY DEF Chosen
<1>4. FramesOK(g)'
  <2>1. FramesOK(g)
    BY DEF GoroutineOK
  <2> QED BY <1>1, <2>1, FramesAreLoops
<1>5. OutOK(g)'
  BY <1>1, <1>2, <1>3 DEF GoroutineOK, OutOK, Apart
<1> QED BY <1>1, <1>4, <1>5 DEF GoroutineOK

\* The other fields' goroutines are not concerned by a step of one.
LEMMA Untouched ==
    ASSUME NEW g \in FieldNames, GoroutineOK(g), prod'[g] = prod[g], mem'[g] = mem[g]
    PROVE  GoroutineOK(g)'
BY SameLoops

----------------------------------------------------------------------------
(* A goroutine's steps keep its slices apart *)

\* A prefix of the stack: what a loop that ends leaves behind.
LEMMA PopFacts ==
    ASSUME IndInv, NEW f \in FieldNames, Running(f), Pop(f)
    PROVE  /\ prod' \in [FieldNames -> Goroutines]
           /\ \A g \in FieldNames : g # f => prod'[g] = prod[g]
           /\ prod'[f].state = prod[f].state /\ prod'[f].order = prod[f].order
           /\ prod'[f].out = None /\ prod'[f].cancelled = prod[f].cancelled
           /\ Len(prod'[f].stack) = Depth(f) - 1
           /\ \A d \in 1 .. Depth(f) - 1 : prod'[f].stack[d] = prod[f].stack[d]
<1> DEFINE st == SubSeq(prod[f].stack, 1, Len(prod[f].stack) - 1)
<1>1. /\ st \in Seq(Frames) /\ Len(st) = Depth(f) - 1
      /\ \A d \in 1 .. Depth(f) - 1 : st[d] = prod[f].stack[d]
  BY GoroutineFacts, RunningFacts DEF Depth
<1>2. prod' = [prod EXCEPT ![f].stack = st, ![f].out = None]
  BY DEF Pop
<1>3. prod \in [FieldNames -> Goroutines]
  BY DEF IndInv
<1> HIDE DEF st
<1>4. /\ prod' \in [FieldNames -> Goroutines]
      /\ \A g \in FieldNames : g # f => prod'[g] = prod[g]
      /\ prod'[f].state = prod[f].state /\ prod'[f].order = prod[f].order
      /\ prod'[f].out = None /\ prod'[f].cancelled = prod[f].cancelled
      /\ prod'[f].stack = st
  BY <1>1, <1>2, <1>3 DEF Goroutines, Frames
<1> QED BY <1>1, <1>4

\* A loop of iterate that ends leaves the enclosing ones as they were.
LEMMA PopKeepsGoroutine ==
    ASSUME IndInv, NEW f \in FieldNames, Running(f), Pop(f), mem' = mem
    PROVE  \A g \in FieldNames : GoroutineOK(g)'
<1>1. \A g \in FieldNames : g # f => GoroutineOK(g)'
  BY PopFacts, Untouched DEF IndInv
<1>2. Depth(f)' = Depth(f) - 1 /\ Depth(f) \in Nat /\ Depth(f) > 0
  BY PopFacts, RunningFacts DEF Depth
<1>3. FramesOK(f)'
  <2> SUFFICES ASSUME NEW d \in 1 .. Depth(f) - 1
               PROVE  LET fr == prod'[f].stack[d] IN
                      /\ fr.i > 0 /\ fr.result.len = d - 1
                      /\ IF d = 1 THEN fr.result.arr = 0
                         ELSE fr.result.arr \in DOMAIN mem[f] /\ d - 1 <= Len(mem[f][fr.result.arr])
                      /\ d < Depth(f) - 1 => fr.i - 1 \in DOMAIN Labels[prod'[f].order[d]]
                      /\ \A k \in 1 .. d - 1 : mem[f][fr.result.arr][k] = Chosen(f, k)'
    BY <1>2 DEF FramesOK
  <2>1. d \in 1 .. Depth(f) /\ d < Depth(f) /\ prod'[f].stack[d] = prod[f].stack[d]
        /\ prod'[f].order = prod[f].order
    BY <1>2, PopFacts
  <2>2. \A k \in 1 .. d - 1 : Chosen(f, k)' = Chosen(f, k)
    <3> SUFFICES ASSUME NEW k \in 1 .. d - 1 PROVE Chosen(f, k)' = Chosen(f, k)
      OBVIOUS
    <3>1. prod'[f].stack[k] = prod[f].stack[k]
      BY <2>1, <1>2, PopFacts
    <3> QED BY <3>1, <2>1 DEF Chosen
  <2>3. FramesOK(f)
    BY GoroutineFacts DEF GoroutineOK
  <2>4. LET fr == prod[f].stack[d] IN
        /\ fr.i > 0 /\ fr.result.len = d - 1
        /\ IF d = 1 THEN fr.result.arr = 0
           ELSE fr.result.arr \in DOMAIN mem[f] /\ d - 1 <= Len(mem[f][fr.result.arr])
        /\ fr.i - 1 \in DOMAIN Labels[prod[f].order[d]]
        /\ \A k \in 1 .. d - 1 : mem[f][fr.result.arr][k] = Chosen(f, k)
    BY ONLY <2>1, <2>3 DEF FramesOK
  <2> QED BY ONLY <2>1, <2>2, <2>4
<1>4. OutOK(f)'
  BY PopFacts DEF OutOK
<1>5. GoroutineOK(f)'
  <2>1. Depth(f)' <= Len(prod'[f].order)
    BY <1>2, GoroutineFacts, PopFacts
  <2>2. prod'[f].state = "run"
    BY PopFacts DEF Running
  <2> QED BY <1>3, <1>4, <2>1, <2>2 DEF GoroutineOK
<1> QED BY <1>1, <1>5
\* What Prepare does to its goroutine and to its memory.
LEMMA PrepareFacts ==
    ASSUME IndInv, NEW f \in FieldNames, Prepare(f)
    PROVE  /\ prod' \in [FieldNames -> Goroutines] /\ mem' \in [FieldNames -> Memories]
           /\ \A g \in FieldNames : g # f => prod'[g] = prod[g] /\ mem'[g] = mem[g]
           /\ prod'[f].state = prod[f].state /\ prod'[f].order = prod[f].order
           /\ prod'[f].stack = prod[f].stack /\ prod'[f].cancelled = prod[f].cancelled
           /\ prod'[f].out \in Slices /\ prod'[f].out.arr = Len(mem[f]) + 1 /\ prod'[f].out.len = Depth(f)
           /\ Len(mem'[f]) = Len(mem[f]) + 1 /\ Len(mem'[f][prod'[f].out.arr]) = Depth(f)
           /\ \A i \in DOMAIN mem[f] : mem'[f][i] = mem[f][i]
           /\ \A k \in 1 .. Depth(f) - 1 : mem'[f][prod'[f].out.arr][k] = mem[f][Frame(f).result.arr][k]
           /\ mem'[f][prod'[f].out.arr][Depth(f)] = Element(f)
<1> DEFINE D == Depth(f)
           s == Frame(f).result
           a == AppendCopy(mem[f], s, Element(f))
<1>1. Running(f) /\ HasNext(f) /\ mem' = [mem EXCEPT ![f] = a.mem] /\ prod' = [prod EXCEPT ![f].out = a.slice]
  BY DEF Prepare
<1>2. D \in Nat /\ D > 0 /\ s.len = D - 1 /\ SliceOf(mem[f], s) /\ Element(f) \in Cells
  BY <1>1, RunningFacts
<1>3. mem[f] \in Memories
  BY GoroutineFacts DEF Memories
<1>a. a = AppendCopy(mem[f], s, Element(f))
  OBVIOUS
<1> HIDE DEF D, s, a
<1>4. /\ a.mem \in Memories /\ Len(a.mem) = Len(mem[f]) + 1
      /\ \A i \in DOMAIN mem[f] : a.mem[i] = mem[f][i]
      /\ a.slice \in Slices /\ a.slice.arr = Len(mem[f]) + 1 /\ a.slice.len = s.len + 1
      /\ Len(a.mem[a.slice.arr]) = s.len + 1
      /\ \A k \in 1 .. s.len : a.mem[a.slice.arr][k] = mem[f][s.arr][k]
      /\ a.mem[a.slice.arr][s.len + 1] = Element(f)
  <2>1. CopyAppended(mem[f], s, Element(f), a)
    BY <1>2, <1>3, <1>a, AppendCopyFresh
  <2> QED BY ONLY <2>1 DEF CopyAppended
<1>5. s.len + 1 = D
  BY <1>2
<1>6. /\ a.slice.len = D /\ Len(a.mem[a.slice.arr]) = D
      /\ a.mem[a.slice.arr][D] = Element(f)
  BY ONLY <1>4, <1>5
<1>6a. \A k \in 1 .. D - 1 : a.mem[a.slice.arr][k] = mem[f][s.arr][k]
  BY ONLY <1>2, <1>4
<1>7. prod \in [FieldNames -> Goroutines] /\ mem \in [FieldNames -> Memories]
  BY DEF IndInv, Memories
<1>9. /\ prod' \in [FieldNames -> Goroutines]
      /\ \A g \in FieldNames : g # f => prod'[g] = prod[g]
      /\ prod'[f].state = prod[f].state /\ prod'[f].order = prod[f].order
      /\ prod'[f].stack = prod[f].stack /\ prod'[f].cancelled = prod[f].cancelled
      /\ prod'[f].out = a.slice
  BY ONLY <1>1, <1>4, <1>7, f \in FieldNames DEF Goroutines
<1>10. /\ mem' \in [FieldNames -> Memories] /\ mem'[f] = a.mem
       /\ \A g \in FieldNames : g # f => mem'[g] = mem[g]
  BY ONLY <1>1, <1>4, <1>7, f \in FieldNames
<1>11. /\ Len(mem'[f]) = Len(mem[f]) + 1 /\ \A i \in DOMAIN mem[f] : mem'[f][i] = mem[f][i]
       /\ prod'[f].out \in Slices /\ prod'[f].out.arr = Len(mem[f]) + 1
  BY ONLY <1>4, <1>9, <1>10
<1>12. /\ prod'[f].out.len = D /\ Len(mem'[f][prod'[f].out.arr]) = D
       /\ mem'[f][prod'[f].out.arr][D] = Element(f)
       /\ \A k \in 1 .. D - 1 : mem'[f][prod'[f].out.arr][k] = mem[f][s.arr][k]
  BY ONLY <1>6, <1>6a, <1>9, <1>10
<1> QED BY ONLY <1>9, <1>10, <1>11, <1>12, Zenon DEF D, s

\* The innermost loop copies what it appends to, so no frame's slice changes.
LEMMA PrepareKeepsGoroutine ==
    ASSUME IndInv, NEW f \in FieldNames, Prepare(f)
    PROVE  \A g \in FieldNames : GoroutineOK(g)'
<1> DEFINE D == Depth(f)
           n == prod'[f].out.arr
<1>1. \A g \in FieldNames : g # f => GoroutineOK(g)'
  BY PrepareFacts, Untouched DEF IndInv
<1>2. /\ D \in Nat /\ D > 0 /\ Depth(f)' = D /\ prod'[f].order = prod[f].order
      /\ prod'[f].stack = prod[f].stack /\ prod'[f].state = "run" /\ Running(f) /\ HasNext(f) /\ Leaf(f)
  BY PrepareFacts, RunningFacts DEF Depth, Prepare, Running
<1>3a. n = Len(mem[f]) + 1 /\ Len(mem[f]) \in Nat /\ n \in Nat
  BY GoroutineFacts, PrepareFacts DEF Memories
<1>3. /\ DOMAIN mem[f] = 1 .. Len(mem[f]) /\ DOMAIN mem'[f] = 1 .. Len(mem[f]) + 1
      /\ n \notin DOMAIN mem[f]
  <2>1. DOMAIN mem[f] = 1 .. Len(mem[f])
    BY GoroutineFacts DEF Memories
  <2>2. DOMAIN mem'[f] = 1 .. Len(mem'[f]) /\ Len(mem'[f]) = Len(mem[f]) + 1
    BY PrepareFacts DEF Memories
  <2> QED BY ONLY <1>3a, <2>1, <2>2
<1>4. \A k : Chosen(f, k)' = Chosen(f, k)
  BY <1>2 DEF Chosen
<1>5. FramesOK(f)
  BY GoroutineFacts DEF GoroutineOK
<1>6. FramesOK(f)'
  <2> SUFFICES ASSUME NEW d \in 1 .. D
               PROVE  LET fr == prod[f].stack[d] IN
                      /\ fr.i > 0 /\ fr.result.len = d - 1
                      /\ IF d = 1 THEN fr.result.arr = 0
                         ELSE fr.result.arr \in DOMAIN mem'[f] /\ d - 1 <= Len(mem'[f][fr.result.arr])
                      /\ d < D => fr.i - 1 \in DOMAIN Labels[prod[f].order[d]]
                      /\ \A k \in 1 .. d - 1 : mem'[f][fr.result.arr][k] = Chosen(f, k)
    <3>1. FramesOK(f)' <=> Loops(D, prod[f].stack, prod[f].order, mem'[f])
      BY <1>2, FramesAreLoops
    <3> QED BY <3>1 DEF Loops, Chosen
  <2> DEFINE fr == prod[f].stack[d]
  <2>1. /\ fr.i > 0 /\ fr.result.len = d - 1
        /\ d < D => fr.i - 1 \in DOMAIN Labels[prod[f].order[d]]
        /\ IF d = 1 THEN fr.result.arr = 0
           ELSE fr.result.arr \in DOMAIN mem[f] /\ d - 1 <= Len(mem[f][fr.result.arr])
        /\ \A k \in 1 .. d - 1 : mem[f][fr.result.arr][k] = Chosen(f, k)
    BY <1>5 DEF FramesOK
  <2>2. CASE d = 1
    BY <2>1, <2>2
  <2>3. CASE d # 1
    <3>1. fr.result.arr \in DOMAIN mem[f]
      BY <2>1, <2>3
    <3>2. mem'[f][fr.result.arr] = mem[f][fr.result.arr]
      BY <3>1, PrepareFacts
    <3>3. fr.result.arr \in DOMAIN mem'[f]
      BY ONLY <3>1, <1>3
    <3> QED BY <2>1, <2>3, <3>1, <3>2, <3>3
  <2> QED BY <2>2, <2>3
<1>7. prod'[f].out.len = D /\ prod'[f].out.arr = n /\ Len(mem'[f][n]) = D
  BY PrepareFacts
<1>8. Apart(f, prod[f].out)'
  <2>1. n # 0
    BY ONLY <1>3a
  <2>2. \A d \in 1 .. D : prod[f].stack[d].result.arr = 0 \/ prod[f].stack[d].result.arr \in DOMAIN mem[f]
    BY <1>5 DEF FramesOK
  <2>3. \A d \in 1 .. D : prod[f].stack[d].result.arr # n
    BY ONLY <2>1, <2>2, <1>3, Zenon
  <2>4. n \in DOMAIN mem'[f]
    BY ONLY <1>3, <1>3a
  <2>5. prod'[f].out.len <= Len(mem'[f][n])
    BY <1>2, <1>7
  <2> QED BY <1>2, <1>7, <2>3, <2>4, <2>5 DEF Apart
<1>9. \A k \in 1 .. D : mem'[f][n][k] = IF k < D THEN Chosen(f, k) ELSE Element(f)
  <2> SUFFICES ASSUME NEW k \in 1 .. D
               PROVE  mem'[f][n][k] = IF k < D THEN Chosen(f, k) ELSE Element(f)
    OBVIOUS
  <2>1. CASE k < D
    <3>1. mem'[f][n][k] = mem[f][Frame(f).result.arr][k]
      BY <2>1, <1>2, PrepareFacts
    <3>2. mem[f][Frame(f).result.arr][k] = Chosen(f, k)
      <4>1. k \in 1 .. D - 1 /\ D \in 1 .. D
        BY ONLY <2>1, <1>2, k \in 1 .. D
      <4> QED BY ONLY <1>5, <4>1 DEF FramesOK, Frame
    <3> QED BY <2>1, <3>1, <3>2
  <2>2. CASE k = D
    BY <2>2, <1>2, PrepareFacts
  <2> QED BY <1>2, <2>1, <2>2
<1>10. OutOK(f)'
  <2>1. Element(f)' = Element(f) /\ HasNext(f)' = HasNext(f) /\ Leaf(f)' = Leaf(f)
    BY <1>2 DEF Element, HasNext, Leaf, Depth, TopLevel, Frame
  <2> QED BY <1>2, <1>4, <1>7, <1>8, <1>9, <2>1 DEF OutOK
<1>11. GoroutineOK(f)'
  BY <1>2, <1>6, <1>10, GoroutineFacts DEF GoroutineOK
<1> QED BY <1>1, <1>11

\* What Descend does to its goroutine and to its memory: the loop's own cell
\* behind its slice may be written, no other cell of an array is.
Descended(f, D, s, r) ==
    /\ prod' \in [FieldNames -> Goroutines] /\ mem' \in [FieldNames -> Memories]
    /\ \A g \in FieldNames : g # f => prod'[g] = prod[g] /\ mem'[g] = mem[g]
    /\ prod'[f].state = prod[f].state /\ prod'[f].order = prod[f].order
    /\ prod'[f].out = prod[f].out /\ prod'[f].cancelled = prod[f].cancelled
    /\ Len(prod'[f].stack) = D + 1
    /\ \A d \in 1 .. D - 1 : prod'[f].stack[d] = prod[f].stack[d]
    /\ prod'[f].stack[D].i = Frame(f).i + 1 /\ prod'[f].stack[D].result = s
    /\ prod'[f].stack[D + 1].i = 1
    /\ Len(mem'[f]) >= Len(mem[f])
    /\ \A i \in DOMAIN mem[f] : Len(mem'[f][i]) = Len(mem[f][i])
    /\ \A i \in DOMAIN mem[f] : \A k \in 1 .. Len(mem[f][i]) :
         i # s.arr \/ k <= D - 1 => mem'[f][i][k] = mem[f][i][k]
    /\ r.len = D /\ r.arr \in DOMAIN mem'[f] /\ D <= Len(mem'[f][r.arr])
    /\ \A k \in 1 .. D - 1 : mem'[f][r.arr][k] = mem[f][s.arr][k]
    /\ mem'[f][r.arr][D] = Element(f)
    /\ r.arr = s.arr \/ r.arr \notin DOMAIN mem[f]

\* The recursive call's slice: the caller's and one more value, behind it in the
\* same array or in a new one.
LEMMA DescendFacts ==
    ASSUME IndInv, NEW f \in FieldNames, Descend(f)
    PROVE  Descended(f, Depth(f), Frame(f).result, prod'[f].stack[Depth(f) + 1].result)
<1> DEFINE D == Depth(f)
           s == Frame(f).result
           r == prod'[f].stack[D + 1].result
<1>d. D = Depth(f) /\ s = Frame(f).result /\ r = prod'[f].stack[D + 1].result
  OBVIOUS
<1> HIDE DEF D, s, r
<1> DEFINE a == AppendTo(mem[f], s, Element(f))
           st == Append(Advanced(f), [i |-> 1, result |-> a.slice])
<1>1. Running(f) /\ HasNext(f) /\ mem' = [mem EXCEPT ![f] = a.mem] /\ prod' = [prod EXCEPT ![f].stack = st]
  BY <1>d DEF Descend
<1>2. D \in Nat /\ D > 0 /\ s.len = D - 1 /\ SliceOf(mem[f], s) /\ Element(f) \in Cells
      /\ (s.len = 0 => s.arr = 0)
  BY <1>1, <1>d, RunningFacts
<1>3. mem[f] \in Memories
  BY GoroutineFacts
<1>a. a = AppendTo(mem[f], s, Element(f))
  OBVIOUS
<1> HIDE DEF a
<1>4. /\ a.mem \in Memories /\ Len(a.mem) >= Len(mem[f])
      /\ \A i \in DOMAIN mem[f] : Len(a.mem[i]) = Len(mem[f][i])
      /\ \A i \in DOMAIN mem[f] : \A k \in 1 .. Len(mem[f][i]) :
           i # s.arr \/ k <= s.len => a.mem[i][k] = mem[f][i][k]
      /\ a.slice \in Slices /\ a.slice.len = s.len + 1
      /\ a.slice.arr \in DOMAIN a.mem /\ s.len + 1 <= Len(a.mem[a.slice.arr])
      /\ \A k \in 1 .. s.len : a.mem[a.slice.arr][k] = mem[f][s.arr][k]
      /\ a.mem[a.slice.arr][s.len + 1] = Element(f)
      /\ a.slice.arr = s.arr \/ a.slice.arr \notin DOMAIN mem[f]
  <2>1. Appended(mem[f], s, Element(f), a)
    BY <1>2, <1>3, <1>a, AppendToWrites
  <2> QED BY ONLY <2>1 DEF Appended
<1>5. s.len + 1 = D
  BY <1>2
<1>6. /\ a.slice.len = D /\ D <= Len(a.mem[a.slice.arr])
      /\ a.mem[a.slice.arr][D] = Element(f)
  BY ONLY <1>4, <1>5
<1>7. \A k \in 1 .. D - 1 : a.mem[a.slice.arr][k] = mem[f][s.arr][k]
  BY ONLY <1>2, <1>4
<1>8. \A i \in DOMAIN mem[f] : \A k \in 1 .. Len(mem[f][i]) :
           i # s.arr \/ k <= D - 1 => a.mem[i][k] = mem[f][i][k]
  BY ONLY <1>2, <1>4
<1>9. /\ Advanced(f) \in Seq(Frames) /\ Len(Advanced(f)) = D
      /\ \A d \in 1 .. D - 1 : Advanced(f)[d] = prod[f].stack[d]
      /\ Advanced(f)[D].i = Frame(f).i + 1 /\ Advanced(f)[D].result = s
  BY <1>1, <1>d, AdvancedFacts
<1> DEFINE fr == [i |-> 1, result |-> a.slice]
<1>10. fr \in Frames /\ fr.i = 1 /\ fr.result = a.slice
  BY <1>4 DEF Frames
<1> HIDE DEF fr
<1>11. /\ Append(Advanced(f), fr) \in Seq(Frames) /\ Len(Append(Advanced(f), fr)) = D + 1
       /\ \A d \in 1 .. D : Append(Advanced(f), fr)[d] = Advanced(f)[d]
       /\ Append(Advanced(f), fr)[D + 1] = fr
  BY ONLY <1>2, <1>9, <1>10
<1>12. st = Append(Advanced(f), fr)
  BY DEF fr
<1> HIDE DEF st
<1>13. /\ st \in Seq(Frames) /\ Len(st) = D + 1 /\ st[D + 1].i = 1 /\ st[D + 1].result = a.slice
  BY <1>10, <1>11, <1>12
<1>14. /\ \A d \in 1 .. D - 1 : st[d] = prod[f].stack[d]
       /\ st[D].i = Frame(f).i + 1 /\ st[D].result = s
  <2>1. \A d \in 1 .. D - 1 : d \in 1 .. D
    BY <1>2
  <2>2. D \in 1 .. D
    BY <1>2
  <2> QED BY ONLY <2>1, <2>2, <1>9, <1>11, <1>12
<1>15. prod \in [FieldNames -> Goroutines] /\ mem \in [FieldNames -> Memories]
  BY DEF IndInv, Memories
<1>16. /\ prod' \in [FieldNames -> Goroutines]
       /\ \A g \in FieldNames : g # f => prod'[g] = prod[g]
       /\ prod'[f].state = prod[f].state /\ prod'[f].order = prod[f].order
       /\ prod'[f].out = prod[f].out /\ prod'[f].cancelled = prod[f].cancelled
  BY ONLY <1>1, <1>13, <1>15, f \in FieldNames DEF Goroutines, Frames
<1>17. /\ mem' \in [FieldNames -> Memories] /\ mem'[f] = a.mem
       /\ \A g \in FieldNames : g # f => mem'[g] = mem[g]
  BY ONLY <1>1, <1>4, <1>15, f \in FieldNames
<1>b. prod'[f].stack = st
  BY ONLY <1>1, <1>13, <1>15, f \in FieldNames DEF Goroutines, Frames
<1>18. prod'[f].stack[D + 1].result = a.slice
  BY ONLY <1>13, <1>b, Zenon
<1>19. Len(prod'[f].stack) = D + 1 /\ prod'[f].stack[D + 1].i = 1
  BY ONLY <1>13, <1>b, Zenon
<1>20. r = a.slice
  BY <1>18, <1>d
<1>21. /\ \A d \in 1 .. D - 1 : prod'[f].stack[d] = prod[f].stack[d]
       /\ prod'[f].stack[D].i = Frame(f).i + 1 /\ prod'[f].stack[D].result = s
  BY ONLY <1>14, <1>b, Zenon
<1>22. /\ Len(mem'[f]) >= Len(mem[f])
       /\ \A i \in DOMAIN mem[f] : Len(mem'[f][i]) = Len(mem[f][i])
       /\ \A i \in DOMAIN mem[f] : \A k \in 1 .. Len(mem[f][i]) :
            i # s.arr \/ k <= D - 1 => mem'[f][i][k] = mem[f][i][k]
  BY ONLY <1>4, <1>8, <1>17
<1>23. /\ r.len = D /\ r.arr \in DOMAIN mem'[f] /\ D <= Len(mem'[f][r.arr])
       /\ \A k \in 1 .. D - 1 : mem'[f][r.arr][k] = mem[f][s.arr][k]
       /\ mem'[f][r.arr][D] = Element(f)
       /\ r.arr = s.arr \/ r.arr \notin DOMAIN mem[f]
  BY ONLY <1>4, <1>6, <1>7, <1>17, <1>20
<1>24. Descended(f, D, s, r)
  BY ONLY <1>16, <1>17, <1>19, <1>21, <1>22, <1>23, Zenon DEF Descended
<1> QED BY <1>24, <1>d
\* A recursive call may write into the array of the loops around it, but behind
\* what they use.
LEMMA DescendKeepsGoroutine ==
    ASSUME IndInv, NEW f \in FieldNames, Descend(f)
    PROVE  \A g \in FieldNames : GoroutineOK(g)'
<1> DEFINE D == Depth(f)
           s == Frame(f).result
           r == prod'[f].stack[D + 1].result
           st == prod[f].stack
           order == prod[f].order
<1>0. Descended(f, D, s, r)
  BY DescendFacts
<1>1. \A g \in FieldNames : g # f => GoroutineOK(g)'
  BY <1>0, Untouched DEF IndInv, Descended
<1>2. /\ Running(f) /\ HasNext(f) /\ ~Leaf(f) /\ D \in Nat /\ D > 0 /\ D <= Len(order)
      /\ Len(order) \in Nat
  BY GoroutineFacts, RunningFacts DEF Descend
<1>3. prod[f].state = "run" /\ prod[f].out = None /\ D + 1 <= Len(order)
  <2>1. OutOK(f)
    BY GoroutineFacts DEF GoroutineOK
  <2>2. D # Len(order)
    BY <1>2 DEF Leaf
  <2> QED BY <1>2, <2>1, <2>2 DEF OutOK, Running
<1>4. s.len = D - 1 /\ (D = 1 => s.arr = 0) /\ Frame(f) = st[D]
  BY <1>2, RunningFacts DEF Frame
<1>5. Frame(f).i \in DOMAIN TopLevel(f) /\ Frame(f).i \in Nat /\ TopLevel(f) = Labels[order[D]]
  BY <1>2, RunningFacts DEF Frames, TopLevel
<1>6. /\ prod'[f].state = "run" /\ prod'[f].out = None /\ prod'[f].order = order
      /\ Len(prod'[f].stack) = D + 1
      /\ \A d \in 1 .. D - 1 : prod'[f].stack[d] = st[d]
      /\ prod'[f].stack[D].i = Frame(f).i + 1 /\ prod'[f].stack[D].result = s
      /\ prod'[f].stack[D + 1].i = 1
  BY <1>0, <1>3 DEF Descended
<1>7. /\ \A i \in DOMAIN mem[f] : Len(mem'[f][i]) = Len(mem[f][i])
      /\ \A i \in DOMAIN mem[f] : \A k \in 1 .. Len(mem[f][i]) :
           i # s.arr \/ k <= D - 1 => mem'[f][i][k] = mem[f][i][k]
      /\ r.len = D /\ r.arr \in DOMAIN mem'[f] /\ D <= Len(mem'[f][r.arr])
      /\ \A k \in 1 .. D - 1 : mem'[f][r.arr][k] = mem[f][s.arr][k]
      /\ mem'[f][r.arr][D] = Element(f)
  BY ONLY <1>0 DEF Descended
<1>8. \A i \in DOMAIN mem[f] : i \in DOMAIN mem'[f]
  <2>1. Len(mem'[f]) >= Len(mem[f]) /\ mem'[f] \in Memories
    BY <1>0 DEF Descended
  <2>2. mem[f] \in Memories
    BY GoroutineFacts
  <2> QED BY <2>1, <2>2 DEF Memories
<1>9. FramesOK(f)
  BY GoroutineFacts DEF GoroutineOK
<1> HIDE DEF D, s, r, st, order
<1>10. \A k \in 1 .. D - 1 : Chosen(f, k)' = Chosen(f, k)
  BY <1>6 DEF Chosen, st, order
<1>11. ASSUME NEW k, k = D PROVE Chosen(f, k)' = Element(f)
  <2>0. (Frame(f).i + 1) - 1 = Frame(f).i
    BY ONLY <1>5
  <2>1. prod'[f].stack[k].i - 1 = Frame(f).i
    BY ONLY <2>0, <1>6, <1>11, Zenon
  <2>2. Chosen(f, k)' = <<order[k], Labels[order[k]][prod'[f].stack[k].i - 1]>>
    BY <1>6 DEF Chosen
  <2>3. Element(f) = <<order[D], Labels[order[D]][Frame(f).i]>>
    BY <1>5 DEF Element, D, order
  <2> QED BY <1>11, <2>1, <2>2, <2>3
<1>12. \A d \in 1 .. D :
          /\ st[d].i > 0 /\ st[d].result.len = d - 1
          /\ IF d = 1 THEN st[d].result.arr = 0
             ELSE st[d].result.arr \in DOMAIN mem[f] /\ d - 1 <= Len(mem[f][st[d].result.arr])
          /\ d < D => st[d].i - 1 \in DOMAIN Labels[order[d]]
          /\ \A k \in 1 .. d - 1 : mem[f][st[d].result.arr][k] = Chosen(f, k)
  BY <1>9 DEF FramesOK, st, order, D
<1>13. ASSUME NEW d \in 1 .. D
       PROVE  LET fr == prod'[f].stack[d] IN
              /\ fr.i > 0 /\ fr.result.len = d - 1 /\ fr.result = st[d].result
              /\ fr.i - 1 \in DOMAIN Labels[order[d]]
  <2>1. CASE d = D
    <3>0. Frame(f).i + 1 > 0 /\ (Frame(f).i + 1) - 1 = Frame(f).i
      BY ONLY <1>5
    <3>1. prod'[f].stack[d].i > 0 /\ prod'[f].stack[d].i - 1 = Frame(f).i
          /\ prod'[f].stack[d].result = st[d].result /\ st[d].result.len = d - 1
      BY ONLY <1>4, <1>6, <2>1, <3>0 DEF s
    <3>2. Frame(f).i \in DOMAIN Labels[order[d]]
      BY ONLY <1>5, <2>1
    <3> QED BY ONLY <3>1, <3>2
  <2>2. CASE d # D
    <3>1. d \in 1 .. D - 1 /\ d < D
      BY <1>2, <2>2
    <3> QED BY ONLY <3>1, <1>6, <1>12, d \in 1 .. D
  <2> QED BY <2>1, <2>2
<1>14. ASSUME NEW d \in 1 .. D, d # 1
       PROVE  LET a == st[d].result.arr IN
              /\ a \in DOMAIN mem'[f] /\ d - 1 <= Len(mem'[f][a])
              /\ \A k \in 1 .. d - 1 : mem'[f][a][k] = Chosen(f, k)'
  <2> DEFINE a == st[d].result.arr
  <2>1. /\ a \in DOMAIN mem[f] /\ d - 1 <= Len(mem[f][a])
        /\ \A k \in 1 .. d - 1 : mem[f][a][k] = Chosen(f, k)
    BY <1>12, <1>14
  <2> HIDE DEF a
  <2>2. a \in DOMAIN mem'[f] /\ d - 1 <= Len(mem'[f][a])
    BY <2>1, <1>7, <1>8
  <2>3. Len(mem[f][a]) \in Nat
    BY <2>1, GoroutineFacts DEF Memories
  <2>4. ASSUME NEW k \in 1 .. d - 1 PROVE mem'[f][a][k] = Chosen(f, k)'
    <3>1. k \in 1 .. Len(mem[f][a]) /\ k <= D - 1 /\ k \in 1 .. D - 1
      BY ONLY <1>2, <2>1, <2>3, k \in 1 .. d - 1, d \in 1 .. D
    <3>2. mem'[f][a][k] = mem[f][a][k]
      BY ONLY <1>7, <2>1, <3>1
    <3> QED BY <2>1, <3>1, <3>2, <1>10
  <2> QED BY <2>2, <2>4 DEF a
<1>15. /\ r.arr \in DOMAIN mem'[f] /\ (D + 1) - 1 <= Len(mem'[f][r.arr]) /\ r.len = (D + 1) - 1
       /\ \A k \in 1 .. (D + 1) - 1 : mem'[f][r.arr][k] = Chosen(f, k)'
  <2>1. (D + 1) - 1 = D
    BY <1>2
  <2>2. ASSUME NEW k \in 1 .. D PROVE mem'[f][r.arr][k] = Chosen(f, k)'
    <3>1. CASE k = D
      BY ONLY <3>1, <1>7, <1>11, Zenon
    <3>2. CASE k # D
      <4>1. k \in 1 .. D - 1 /\ D # 1 /\ D \in 1 .. D
        BY ONLY <3>2, <1>2, k \in 1 .. D
      <4>2. mem[f][st[D].result.arr][k] = Chosen(f, k) /\ st[D].result = s
        BY <4>1, <1>4, <1>12 DEF s
      <4> QED BY ONLY <4>1, <4>2, <1>7, <1>10
    <3> QED BY <3>1, <3>2
  <2> QED BY ONLY <2>1, <2>2, <1>7
<1>16. Depth(f)' = D + 1
  BY <1>6 DEF Depth
<1>17. FramesOK(f)'
  <2> SUFFICES ASSUME NEW d \in 1 .. D + 1
               PROVE  LET fr == prod'[f].stack[d] IN
                      /\ fr.i > 0 /\ fr.result.len = d - 1
                      /\ IF d = 1 THEN fr.result.arr = 0
                         ELSE fr.result.arr \in DOMAIN mem'[f] /\ d - 1 <= Len(mem'[f][fr.result.arr])
                      /\ d < D + 1 => fr.i - 1 \in DOMAIN Labels[order[d]]
                      /\ \A k \in 1 .. d - 1 : mem'[f][fr.result.arr][k] = Chosen(f, k)'
    BY <1>6, <1>16 DEF FramesOK
  <2>1. CASE d = D + 1
    <3>1. d # 1 /\ ~(d < D + 1) /\ prod'[f].stack[d].i > 0 /\ prod'[f].stack[d].result = r
      BY <2>1, <1>2, <1>6 DEF r
    <3> QED BY ONLY <2>1, <3>1, <1>15
  <2>2. CASE d # D + 1
    <3>1. d \in 1 .. D
      BY ONLY <2>2, <1>2, d \in 1 .. D + 1
    <3>2. CASE d = 1
      <4>1. st[d].result.arr = 0
        BY ONLY <3>1, <3>2, <1>12
      <4> QED BY <3>1, <3>2, <4>1, <1>13
    <3>3. CASE d # 1
      BY <3>1, <3>3, <1>13, <1>14
    <3> QED BY <3>2, <3>3
  <2> QED BY <2>1, <2>2
<1>18. OutOK(f)'
  BY <1>6 DEF OutOK
<1>19. GoroutineOK(f)'
  BY <1>3, <1>6, <1>16, <1>17, <1>18 DEF GoroutineOK
<1> QED BY <1>1, <1>19

\* What Send does to its goroutine: the innermost loop goes on.
LEMMA SendFacts ==
    ASSUME IndInv, NEW f \in FieldNames, Send(f)
    PROVE  /\ prod' \in [FieldNames -> Goroutines]
           /\ \A g \in FieldNames : g # f => prod'[g] = prod[g]
           /\ prod'[f].state = prod[f].state /\ prod'[f].order = prod[f].order
           /\ prod'[f].out = None /\ prod'[f].cancelled = prod[f].cancelled
           /\ Len(prod'[f].stack) = Depth(f)
           /\ \A d \in 1 .. Depth(f) - 1 : prod'[f].stack[d] = prod[f].stack[d]
           /\ prod'[f].stack[Depth(f)].i = Frame(f).i + 1
           /\ prod'[f].stack[Depth(f)].result = Frame(f).result
<1> DEFINE st == Advanced(f)
<1>1. Running(f) /\ prod' = [prod EXCEPT ![f].out = None, ![f].stack = st]
  BY DEF Send
<1>2. /\ st \in Seq(Frames) /\ Len(st) = Depth(f)
      /\ \A d \in 1 .. Depth(f) - 1 : st[d] = prod[f].stack[d]
      /\ st[Depth(f)].i = Frame(f).i + 1
      /\ st[Depth(f)].result = Frame(f).result
  BY <1>1, AdvancedFacts
<1>3. prod \in [FieldNames -> Goroutines]
  BY DEF IndInv
<1> HIDE DEF st
<1>4. /\ prod' \in [FieldNames -> Goroutines]
      /\ \A g \in FieldNames : g # f => prod'[g] = prod[g]
      /\ prod'[f].state = prod[f].state /\ prod'[f].order = prod[f].order
      /\ prod'[f].out = None /\ prod'[f].cancelled = prod[f].cancelled
      /\ prod'[f].stack = st
  BY ONLY <1>1, <1>2, <1>3, f \in FieldNames DEF Goroutines, Frames
<1> QED BY ONLY <1>2, <1>4, Zenon

\* Sending only hands a slice over.
LEMMA SendKeepsGoroutine ==
    ASSUME IndInv, NEW f \in FieldNames, Send(f)
    PROVE  \A g \in FieldNames : GoroutineOK(g)'
<1> DEFINE D == Depth(f)
           st == prod[f].stack
           order == prod[f].order
<1>0. mem' = mem /\ Running(f)
  BY DEF Send
<1>1. \A g \in FieldNames : g # f => GoroutineOK(g)'
  BY <1>0, SendFacts, Untouched DEF IndInv
<1>2. D \in Nat /\ D > 0 /\ D <= Len(order) /\ Frame(f).i \in Nat /\ Frame(f) = st[D]
  BY <1>0, GoroutineFacts, RunningFacts DEF Frames, Frame
<1>3. /\ prod'[f].state = "run" /\ prod'[f].out = None /\ prod'[f].order = order
      /\ Len(prod'[f].stack) = D
      /\ \A d \in 1 .. D - 1 : prod'[f].stack[d] = st[d]
      /\ prod'[f].stack[D].i = Frame(f).i + 1 /\ prod'[f].stack[D].result = st[D].result
  BY <1>0, <1>2, SendFacts DEF Running
<1>4. FramesOK(f)
  BY GoroutineFacts DEF GoroutineOK
<1> HIDE DEF D, st, order
<1>5. \A k \in 1 .. D - 1 : Chosen(f, k)' = Chosen(f, k)
  BY <1>3 DEF Chosen, st, order
<1>6. Depth(f)' = D
  BY <1>3 DEF Depth
<1>7. FramesOK(f)'
  <2> SUFFICES ASSUME NEW d \in 1 .. D
               PROVE  LET fr == prod'[f].stack[d] IN
                      /\ fr.i > 0 /\ fr.result.len = d - 1
                      /\ IF d = 1 THEN fr.result.arr = 0
                         ELSE fr.result.arr \in DOMAIN mem[f] /\ d - 1 <= Len(mem[f][fr.result.arr])
                      /\ d < D => fr.i - 1 \in DOMAIN Labels[order[d]]
                      /\ \A k \in 1 .. d - 1 : mem[f][fr.result.arr][k] = Chosen(f, k)'
    BY <1>0, <1>3, <1>6 DEF FramesOK
  <2>1. /\ st[d].i > 0 /\ st[d].result.len = d - 1
        /\ IF d = 1 THEN st[d].result.arr = 0
           ELSE st[d].result.arr \in DOMAIN mem[f] /\ d - 1 <= Len(mem[f][st[d].result.arr])
        /\ d < D => st[d].i - 1 \in DOMAIN Labels[order[d]]
        /\ \A k \in 1 .. d - 1 : mem[f][st[d].result.arr][k] = Chosen(f, k)
    BY <1>4 DEF FramesOK, st, order, D
  <2>2. \A k \in 1 .. d - 1 : Chosen(f, k)' = Chosen(f, k)
    BY <1>2, <1>5
  <2>3. prod'[f].stack[d].result = st[d].result /\ prod'[f].stack[d].i > 0
        /\ (d < D => prod'[f].stack[d].i = st[d].i)
    <3>1. CASE d = D
      BY ONLY <3>1, <1>2, <1>3
    <3>2. CASE d # D
      <4>1. d \in 1 .. D - 1
        BY ONLY <3>2, <1>2, d \in 1 .. D
      <4> QED BY ONLY <4>1, <2>1, <1>3
    <3> QED BY <3>1, <3>2
  <2> QED BY ONLY <2>1, <2>2, <2>3
<1>8. OutOK(f)'
  BY <1>3 DEF OutOK
<1>9. GoroutineOK(f)'
  BY <1>2, <1>3, <1>6, <1>7, <1>8 DEF GoroutineOK
<1> QED BY <1>1, <1>9

\* The deferred close comes when all loops have ended.
LEMMA CloseFacts ==
    ASSUME IndInv, NEW f \in FieldNames, Close(f)
    PROVE  /\ prod' \in [FieldNames -> Goroutines]
           /\ \A g \in FieldNames : g # f => prod'[g] = prod[g]
           /\ prod'[f].state = "closed" /\ prod'[f].order = prod[f].order
           /\ prod'[f].out = prod[f].out /\ prod'[f].cancelled = prod[f].cancelled
           /\ prod'[f].stack = prod[f].stack
<1>1. prod' = [prod EXCEPT ![f].state = "closed"]
  BY DEF Close
<1>2. prod \in [FieldNames -> Goroutines]
  BY DEF IndInv
<1> QED BY ONLY <1>1, <1>2, f \in FieldNames DEF Goroutines

\* A goroutine that ends, at the end of its loops or cancelled, leaves no slice.
LEMMA CloseKeepsGoroutine ==
    ASSUME IndInv, NEW f \in FieldNames, Close(f)
    PROVE  \A g \in FieldNames : GoroutineOK(g)'
<1>1. mem' = mem /\ Depth(f) = 0
  BY DEF Close
<1>2. \A g \in FieldNames : g # f => GoroutineOK(g)'
  BY <1>1, CloseFacts, Untouched DEF IndInv
<1>3. prod[f].out = None
  BY <1>1, GoroutineFacts DEF GoroutineOK, OutOK
<1>4. Depth(f)' = 0
  BY <1>1, CloseFacts DEF Depth
<1>5. FramesOK(f)'
  BY <1>4 DEF FramesOK
<1>6. OutOK(f)'
  BY <1>3, CloseFacts DEF OutOK
<1>7. GoroutineOK(f)'
  BY <1>1, <1>4, <1>5, <1>6, CloseFacts, GoroutineFacts DEF GoroutineOK
<1> QED BY <1>2, <1>7
----------------------------------------------------------------------------
(* The matcher's view of the goroutine's steps *)

LEMMA FieldFacts ==
    ASSUME IndInv
    PROVE  F \in FieldNames /\ at \in 1 .. 4 /\ mc \in Conditions
  BY DEF IndInv, TypeOK, F, FieldNames, Fields

\* The placeholders of the pattern are labels, one loop for each, and a choice
\* picks a label of each.
LEMMA TryingFacts ==
    ASSUME IndInv, pc \in {"receive", "try"}
    PROVE  /\ Pattern.uses \subseteq DOMAIN Labels
           /\ ~prod[F].cancelled
           /\ prod[F].order \in [1 .. Cardinality(Pattern.uses) -> Pattern.uses]
           /\ Len(prod[F].order) = Cardinality(Pattern.uses)
           /\ \A k \in 1 .. Len(prod[F].order) : prod[F].order[k] \in Pattern.uses
           /\ \A ix \in Picks(Pattern.uses) : \A k \in 1 .. Len(prod[F].order) :
                /\ ix[prod[F].order[k]] \in DOMAIN Labels[prod[F].order[k]]
                /\ ix[prod[F].order[k]] \in Nat /\ ix[prod[F].order[k]] >= 1
<1> DEFINE S == Pattern.uses
           o == prod[F].order
<1>1. S \subseteq DOMAIN Labels
  BY FieldFacts, ConditionsAssumption DEF Pattern
<1>2. TryingOK
  BY DEF IndInv
<1>3. ~prod[F].cancelled /\ o \in Orders(S)
  BY <1>2 DEF TryingOK
<1>4. o \in [1 .. Cardinality(S) -> S]
  BY <1>3 DEF Orders
<1>5. o \in Seq(DOMAIN Labels) /\ DOMAIN o = 1 .. Len(o) /\ Len(o) \in Nat
  BY FieldFacts, GoroutineFacts
<1>6. IsFiniteSet(S)
  BY <1>1, LabelsAssumption, FS_Subset
<1>7. Cardinality(S) \in Nat
  BY <1>6, FS_CardinalityType
<1> HIDE DEF S, o
<1>8. 1 .. Len(o) = 1 .. Cardinality(S)
  BY ONLY <1>4, <1>5
<1>9. Len(o) = Cardinality(S)
  BY ONLY <1>5, <1>7, <1>8
<1>10. \A k \in 1 .. Len(o) : o[k] \in S
  BY ONLY <1>4, <1>8
<1>11. ASSUME NEW ix \in Picks(S), NEW k \in 1 .. Len(o)
       PROVE  ix[o[k]] \in DOMAIN Labels[o[k]] /\ ix[o[k]] \in Nat /\ ix[o[k]] >= 1
  <2>1. o[k] \in S /\ o[k] \in DOMAIN Labels
    BY <1>1, <1>10
  <2>2. ix[o[k]] \in DOMAIN Labels[o[k]]
    BY <2>1 DEF Picks
  <2>3. Labels[o[k]] \in Seq(Nat)
    BY <2>1, LabelsAssumption
  <2> QED BY <2>2, <2>3
<1> QED BY <1>1, <1>3, <1>4, <1>9, <1>10, <1>11 DEF S, o

\* A step of the goroutine that spares the slice received last.
LEMMA GotKept ==
    ASSUME IndInv, UNCHANGED <<mc, at, pc, got>>, prod'[F].order = prod[F].order,
           pc = "try" => Apart(F, got)',
           pc = "try" => \A k \in 1 .. got.len : mem'[F][got.arr][k] = mem[F][got.arr][k]
    PROVE  GotOK'
<1> SUFFICES ASSUME pc = "try" PROVE GotOK'
  BY DEF GotOK
<1>1. GotOK /\ F' = F
  BY DEF IndInv, F
<1>2. /\ got \in Slices /\ got.len = Len(prod[F].order)
      /\ \A k \in 1 .. got.len :
           \E j \in DOMAIN Labels[prod[F].order[k]] :
               mem[F][got.arr][k] = <<prod[F].order[k], Labels[prod[F].order[k]][j]>>
  BY <1>1 DEF GotOK
<1> QED BY <1>1, <1>2 DEF GotOK

\* A step of the goroutine that passes no combination over.
LEMMA TryingKept ==
    ASSUME IndInv, UNCHANGED <<mc, at>>, pc' \in {"receive", "try"} => pc \in {"receive", "try"},
           prod'[F].order = prod[F].order, prod'[F].cancelled = prod[F].cancelled,
           pc \in {"receive", "try"} =>
               \A ix \in Picks(Pattern.uses) :
                   Picked(Pattern.uses, ix) \in Pattern.accepts =>
                       (Received(ix) \/ Pending(ix) => (Received(ix) \/ Pending(ix))')
    PROVE  TryingOK'
<1> SUFFICES ASSUME pc \in {"receive", "try"} PROVE TryingOK'
  BY DEF TryingOK
<1>1. TryingOK /\ F' = F /\ Pattern' = Pattern
  BY DEF IndInv, F, Pattern
<1>2. /\ ~Pattern.plain /\ Pattern.uses # {} /\ prod[F].order \in Orders(Pattern.uses)
      /\ ~prod[F].cancelled
      /\ \A ix \in Picks(Pattern.uses) : Picked(Pattern.uses, ix) \in Pattern.accepts => Received(ix) \/ Pending(ix)
  BY <1>1 DEF TryingOK
<1>3. \A ix \in Picks(Pattern.uses) : Picked(Pattern.uses, ix) \in Pattern.accepts => (Received(ix) \/ Pending(ix))'
  BY <1>2
<1>4. Orders(Pattern.uses)' = Orders(Pattern.uses) /\ Picks(Pattern.uses)' = Picks(Pattern.uses)
  BY <1>1 DEF Orders, Picks, Positions
<1>5. \A ix : Picked(Pattern.uses, ix)' = Picked(Pattern.uses, ix)
  BY <1>1 DEF Picked
<1> QED BY <1>1, <1>2, <1>3, <1>4, <1>5 DEF TryingOK

\* A step of another field's goroutine.
LEMMA OtherField ==
    ASSUME IndInv, UNCHANGED <<mc, at, pc, got>>, prod'[F] = prod[F], mem'[F] = mem[F]
    PROVE  GotOK' /\ TryingOK'
<1>1. F' = F /\ Depth(F)' = Depth(F)
  BY DEF F, Depth
<1>2. pc = "try" => Apart(F, got)'
  BY <1>1 DEF IndInv, GotOK, Apart
<1>3. \A ix : Received(ix)' = Received(ix)
  BY <1>1 DEF Received
<1>4. \A ix : Pending(ix)' = Pending(ix)
  BY <1>1 DEF Pending
<1>5. GotOK'
  BY <1>2, GotKept
<1>6. TryingOK'
  BY <1>3, <1>4, TryingKept
<1> QED BY <1>5, <1>6
\* The copy is a new array: what the matcher tries stays, and the new combination
\* is pending.
LEMMA PrepareSparesGot ==
    ASSUME IndInv, NEW f \in FieldNames, Prepare(f)
    PROVE  GotOK' /\ TryingOK'
<1>1. UNCHANGED <<mc, at, pc, got>> /\ F \in FieldNames /\ F' = F
  BY FieldFacts DEF Prepare, F
<1>2. CASE f # F
  BY <1>1, <1>2, PrepareFacts, OtherField
<1>3. CASE f = F
  <2>1. /\ prod'[F].order = prod[F].order /\ prod'[F].stack = prod[F].stack
        /\ prod'[F].cancelled = prod[F].cancelled
        /\ \A i \in DOMAIN mem[F] : mem'[F][i] = mem[F][i]
        /\ Len(mem'[F]) = Len(mem[F]) + 1 /\ mem'[F] \in Memories /\ mem[F] \in Memories
    BY <1>3, PrepareFacts, GoroutineFacts
  <2>2. \A i \in DOMAIN mem[F] : i \in DOMAIN mem'[F]
    BY <2>1 DEF Memories
  <2>3. Depth(F)' = Depth(F)
    BY <1>1, <2>1 DEF Depth
  <2>4. pc = "try" => Apart(F, got)
    BY DEF IndInv, GotOK
  <2>5. pc = "try" => got.arr \in DOMAIN mem[F]
    BY <2>4 DEF Apart
  <2>6. pc = "try" => Apart(F, got)'
    BY <1>1, <2>1, <2>2, <2>3, <2>4 DEF Apart
  <2>7. GotOK'
    BY <1>1, <2>1, <2>5, <2>6, GotKept
  <2>8. \A ix : Received(ix) => Received(ix)'
    BY <1>1, <2>1, <2>5 DEF Received
  <2>9. \A ix : Pending(ix) => Pending(ix)'
    BY <1>1, <2>1, <2>3 DEF Pending
  <2>10. TryingOK'
    BY <1>1, <2>1, <2>8, <2>9, TryingKept
  <2> QED BY <2>7, <2>10
<1> QED BY <1>2, <1>3

\* A loop that ends has come to all its labels, unless it was cancelled, and
\* while combinations are tried it is not.
LEMMA PopSparesGot ==
    ASSUME IndInv, NEW f \in FieldNames, LoopEnds(f) \/ LeafCancelled(f)
    PROVE  GotOK' /\ TryingOK'
<1>1. UNCHANGED <<mc, at, pc, got, mem>> /\ F \in FieldNames /\ F' = F /\ Running(f) /\ Pop(f)
  BY FieldFacts DEF LoopEnds, LeafCancelled, F
<1>2. CASE f # F
  BY <1>1, <1>2, PopFacts, OtherField
<1>3. CASE f = F
  <2> DEFINE D == Depth(F)
  <2>1. /\ prod'[F].order = prod[F].order /\ prod'[F].cancelled = prod[F].cancelled
        /\ \A d \in 1 .. D - 1 : prod'[F].stack[d] = prod[F].stack[d]
        /\ Len(prod'[F].stack) = D - 1
    BY <1>1, <1>3, PopFacts
  <2>2. D \in Nat /\ D > 0 /\ D \in 1 .. Len(prod[F].order) /\ Depth(F)' = D - 1
    BY <1>1, <1>3, <2>1, RunningFacts DEF Depth
  <2>3. pc = "try" => Apart(F, got)'
    <3> SUFFICES ASSUME pc = "try" PROVE Apart(F, got)'
      OBVIOUS
    <3>1. Apart(F, got)
      BY DEF IndInv, GotOK
    <3>2. /\ got.arr \in DOMAIN mem[F] /\ got.len <= Len(mem[F][got.arr])
          /\ \A d \in 1 .. D : prod[F].stack[d].result.arr # got.arr
      BY <3>1 DEF Apart
    <3>3. \A d \in 1 .. D - 1 : prod'[F].stack[d].result.arr # got.arr
      <4>1. \A d \in 1 .. D - 1 : d \in 1 .. D
        BY <2>2
      <4> QED BY <2>1, <3>2, <4>1
    <3> QED BY <1>1, <2>2, <3>2, <3>3 DEF Apart
  <2>4. GotOK'
    BY <1>1, <2>1, <2>3, GotKept
  <2>5. \A ix : Received(ix) => Received(ix)'
    BY <1>1, <2>1 DEF Received
  <2>6. ASSUME pc \in {"receive", "try"}, NEW ix \in Picks(Pattern.uses), Pending(ix)
        PROVE  Pending(ix)'
    <3>1. PICK d \in 1 .. D :
             /\ \A k \in 1 .. d - 1 : ix[prod[F].order[k]] = prod[F].stack[k].i - 1
             /\ ix[prod[F].order[d]] >= prod[F].stack[d].i
      BY <2>6 DEF Pending
    <3>2. ~prod[F].cancelled
      BY <2>6, TryingFacts
    <3>3. ~HasNext(F)
      BY <1>3, <3>2 DEF LoopEnds, LeafCancelled
    <3>4. Len(Labels[prod[F].order[D]]) < prod[F].stack[D].i
      BY <1>1, <1>3, <3>3, RunningFacts DEF Frame, TopLevel
    <3>5. ix[prod[F].order[D]] \in DOMAIN Labels[prod[F].order[D]] /\ ix[prod[F].order[D]] \in Nat
      BY <2>2, <2>6, TryingFacts
    <3>6. Labels[prod[F].order[D]] \in Seq(Nat) /\ prod[F].stack[D].i \in Nat
      BY <1>1, <1>3, RunningFacts DEF TopLevel, Frame, Frames
    <3>7. ~(ix[prod[F].order[D]] >= prod[F].stack[D].i)
      BY ONLY <3>4, <3>5, <3>6
    <3>8. d # D
      BY <3>1, <3>7
    <3>9. d \in 1 .. D - 1 /\ \A k \in 1 .. d - 1 : k \in 1 .. D - 1
      BY <2>2, <3>8
    <3>10. /\ \A k \in 1 .. d - 1 : ix[prod'[F].order[k]] = prod'[F].stack[k].i - 1
           /\ ix[prod'[F].order[d]] >= prod'[F].stack[d].i
      BY <2>1, <3>1, <3>9
    <3> QED BY <1>1, <2>2, <3>9, <3>10 DEF Pending
  <2>7. TryingOK'
    BY <1>1, <2>1, <2>5, <2>6, TryingKept
  <2> QED BY <2>4, <2>7
<1> QED BY <1>2, <1>3

\* A goroutine closes its channel after its last combination or when the matcher
\* no longer wants any.
LEMMA CloseSparesGot ==
    ASSUME IndInv, NEW f \in FieldNames, Close(f)
    PROVE  GotOK' /\ TryingOK'
<1>1. UNCHANGED <<mc, at, pc, got, mem>> /\ F \in FieldNames /\ F' = F
  BY FieldFacts DEF Close, F
<1>2. CASE f # F
  BY <1>1, <1>2, CloseFacts, OtherField
<1>3. CASE f = F
  <2>1. /\ prod'[F].order = prod[F].order /\ prod'[F].cancelled = prod[F].cancelled
        /\ prod'[F].stack = prod[F].stack
    BY <1>3, CloseFacts
  <2>2. Depth(F)' = Depth(F)
    BY <1>1, <2>1 DEF Depth
  <2>3. pc = "try" => Apart(F, got)'
    BY <1>1, <2>1, <2>2 DEF IndInv, GotOK, Apart
  <2>4. GotOK'
    BY <1>1, <2>1, <2>3, GotKept
  <2>5. \A ix : Received(ix) => Received(ix)'
    BY <1>1, <2>1 DEF Received
  <2>6. \A ix : Pending(ix) => Pending(ix)'
    BY <1>1, <2>1, <2>2 DEF Pending
  <2>7. TryingOK'
    BY <1>1, <2>1, <2>5, <2>6, TryingKept
  <2> QED BY <2>4, <2>7
<1> QED BY <1>2, <1>3

\* An outer loop that descends comes to its label: what was pending at that label
\* is pending at the first label of the loop below.
LEMMA DescendSparesGot ==
    ASSUME IndInv, NEW f \in FieldNames, Descend(f)
    PROVE  GotOK' /\ TryingOK'
<1>1. UNCHANGED <<mc, at, pc, got>> /\ F \in FieldNames /\ F' = F /\ Running(f)
  BY FieldFacts DEF Descend, F
<1>2. CASE f # F
  BY <1>1, <1>2, DescendFacts, OtherField DEF Descended
<1>3. CASE f = F
  <2> DEFINE D == Depth(F)
             s == Frame(F).result
             r == prod'[F].stack[D + 1].result
             st == prod[F].stack
             o == prod[F].order
  <2>0. Descended(F, D, s, r)
    BY <1>3, DescendFacts
  <2>1. /\ D \in Nat /\ D > 0 /\ D + 1 <= Len(o) /\ Len(o) \in Nat /\ st[D] = Frame(F)
        /\ st[D].i \in Nat
    <3>1. Depth(F) # Len(o) /\ Depth(F) <= Len(o)
      BY <1>3, GoroutineFacts DEF Descend, Leaf
    <3> QED BY <1>1, <1>3, <3>1, RunningFacts, GoroutineFacts DEF Frame, Frames
  <2>2. mem[F] \in Memories /\ mem'[F] \in Memories /\ Len(mem'[F]) >= Len(mem[F])
    BY <1>1, <2>0, GoroutineFacts DEF Descended
  <2> HIDE DEF D, s, r, st, o
  <2>3. /\ prod'[F].order = o /\ prod'[F].cancelled = prod[F].cancelled /\ Len(prod'[F].stack) = D + 1
        /\ \A d \in 1 .. D - 1 : prod'[F].stack[d] = st[d]
        /\ prod'[F].stack[D].i = st[D].i + 1 /\ prod'[F].stack[D].result = s
        /\ prod'[F].stack[D + 1].i = 1 /\ prod'[F].stack[D + 1].result = r
    BY <2>0, <2>1 DEF Descended, o, st, r
  <2>4. /\ \A i \in DOMAIN mem[F] : Len(mem'[F][i]) = Len(mem[F][i])
        /\ \A i \in DOMAIN mem[F] : \A k \in 1 .. Len(mem[F][i]) :
             i # s.arr \/ k <= D - 1 => mem'[F][i][k] = mem[F][i][k]
        /\ r.arr = s.arr \/ r.arr \notin DOMAIN mem[F]
    BY ONLY <2>0 DEF Descended
  <2>5. \A i \in DOMAIN mem[F] : i \in DOMAIN mem'[F] /\ Len(mem[F][i]) \in Nat
    BY <2>2 DEF Memories
  <2>6. Depth(F)' = D + 1
    BY <1>1, <2>3 DEF Depth
  <2>7. ASSUME pc = "try"
        PROVE  /\ got.arr \in DOMAIN mem[F] /\ got.len <= Len(mem[F][got.arr]) /\ got.len \in Nat
               /\ \A d \in 1 .. D : st[d].result.arr # got.arr
    BY <2>7 DEF IndInv, GotOK, Apart, D, st, Slices
  <2>8. ASSUME pc = "try", NEW d \in 1 .. D + 1
        PROVE  prod'[F].stack[d].result.arr # got.arr
    <3>1. CASE d = D + 1
      <4>1. s.arr # got.arr
        BY <2>1, <2>7, <2>8 DEF s
      <4> QED BY ONLY <3>1, <4>1, <2>3, <2>4, <2>7, <2>8
    <3>2. CASE d = D
      <4>1. s.arr # got.arr
        BY <2>1, <2>7, <2>8 DEF s
      <4> QED BY ONLY <3>2, <4>1, <2>3
    <3>3. CASE d # D /\ d # D + 1
      <4>1. d \in 1 .. D - 1 /\ d \in 1 .. D
        BY ONLY <3>3, <2>1, d \in 1 .. D + 1
      <4> QED BY ONLY <4>1, <2>3, <2>7, <2>8
    <3> QED BY <3>1, <3>2, <3>3
  <2>9. pc = "try" => Apart(F, got)'
    <3> SUFFICES ASSUME pc = "try" PROVE Apart(F, got)'
      OBVIOUS
    <3>1. got.arr \in DOMAIN mem'[F] /\ got.len <= Len(mem'[F][got.arr])
      BY <2>4, <2>5, <2>7
    <3> QED BY <1>1, <2>6, <2>8, <3>1 DEF Apart
  <2>10. ASSUME pc = "try", NEW k \in 1 .. got.len
         PROVE  mem'[F][got.arr][k] = mem[F][got.arr][k]
    <3>1. s.arr # got.arr
      BY <2>1, <2>7, <2>10 DEF s
    <3>2. k \in 1 .. Len(mem[F][got.arr])
      BY <2>5, <2>7, <2>10
    <3> QED BY ONLY <3>1, <3>2, <2>4, <2>7, <2>10
  <2>11. GotOK'
    BY <1>1, <2>3, <2>9, <2>10, GotKept DEF o
  <2>12. \A ix : Received(ix) => Received(ix)'
    BY <1>1, <2>3, <2>10 DEF Received, o
  <2>13. ASSUME pc \in {"receive", "try"}, NEW ix \in Picks(Pattern.uses), Pending(ix)
         PROVE  Pending(ix)'
    <3>1. PICK d \in 1 .. D :
             (\A k \in 1 .. d - 1 : ix[o[k]] = st[k].i - 1) /\ ix[o[d]] >= st[d].i
      BY <2>13 DEF Pending, D, st, o
    <3>2. SUFFICES ASSUME NEW e \in 1 .. D + 1,
                          \A k \in 1 .. e - 1 : ix[o[k]] = prod'[F].stack[k].i - 1,
                          ix[o[e]] >= prod'[F].stack[e].i
                   PROVE  Pending(ix)'
      <4>1. CASE d # D
        <5>1. d \in 1 .. D - 1 /\ d \in 1 .. D + 1 /\ \A k \in 1 .. d - 1 : k \in 1 .. D - 1
          BY ONLY <2>1, <4>1, d \in 1 .. D
        <5>2. (\A k \in 1 .. d - 1 : ix[o[k]] = prod'[F].stack[k].i - 1) /\ ix[o[d]] >= prod'[F].stack[d].i
          BY ONLY <2>3, <3>1, <5>1
        <5> QED BY <5>1, <5>2
      <4>2. CASE d = D /\ ix[o[D]] = st[D].i
        <5>1. D + 1 \in 1 .. D + 1 /\ (D + 1) - 1 = D
          BY ONLY <2>1
        <5>2. ix[o[D + 1]] >= 1
          BY <2>1, <2>13, TryingFacts DEF o
        <5>3. ASSUME NEW k \in 1 .. D PROVE ix[o[k]] = prod'[F].stack[k].i - 1
          <6>1. CASE k = D
            <7>1. (st[D].i + 1) - 1 = st[D].i
              BY ONLY <2>1
            <7> QED BY ONLY <7>1, <2>3, <4>2, <6>1, Zenon
          <6>2. CASE k # D
            <7>1. k \in 1 .. D - 1
              BY ONLY <2>1, <6>2, k \in 1 .. D
            <7> QED BY ONLY <7>1, <2>3, <3>1, <4>2
          <6> QED BY <6>1, <6>2
        <5>4. ix[o[D + 1]] >= prod'[F].stack[D + 1].i
          BY ONLY <5>2, <2>3
        <5> QED BY <5>1, <5>3, <5>4
      <4>3. CASE d = D /\ ix[o[D]] # st[D].i
        <5>1. D \in 1 .. D + 1 /\ D \in 1 .. Len(o)
          BY ONLY <2>1
        <5>2. ix[o[D]] \in Nat
          BY <5>1, <2>13, TryingFacts DEF o
        <5>3. ix[o[D]] >= st[D].i + 1
          BY ONLY <5>2, <2>1, <3>1, <4>3
        <5>4. ix[o[D]] >= prod'[F].stack[D].i
          BY ONLY <5>3, <2>3
        <5>5. \A k \in 1 .. D - 1 : ix[o[k]] = prod'[F].stack[k].i - 1
          BY ONLY <2>3, <3>1, <4>3
        <5> QED BY <5>1, <5>4, <5>5
      <4> QED BY <4>1, <4>2, <4>3
    <3>3. Pending(ix)' = \E d1 \in 1 .. D + 1 :
             (\A k \in 1 .. d1 - 1 : ix[o[k]] = prod'[F].stack[k].i - 1) /\ ix[o[d1]] >= prod'[F].stack[d1].i
      BY <1>1, <2>3, <2>6 DEF Pending
    <3> QED BY <3>2, <3>3
  <2>14. TryingOK'
    BY <1>1, <2>3, <2>12, <2>13, TryingKept DEF o
  <2> QED BY <2>11, <2>14
<1> QED BY <1>2, <1>3
\* What is sent is received: a combination that was pending at the label of the
\* innermost loop is the one received, every other one is still pending.
LEMMA SendSparesGot ==
    ASSUME IndInv, NEW f \in FieldNames, Send(f)
    PROVE  GotOK' /\ TryingOK'
<1> DEFINE D == Depth(F)
           st == prod[F].stack
           o == prod[F].order
           out == prod[F].out
<1>1. /\ UNCHANGED <<mc, at, mem>> /\ F \in FieldNames /\ F' = F /\ f = F /\ Running(F)
      /\ pc = "receive" /\ pc' = "try" /\ out # None /\ got' = out
  BY FieldFacts DEF Send, F
<1>2. /\ prod'[F].order = o /\ prod'[F].cancelled = prod[F].cancelled
      /\ Len(prod'[F].stack) = D
      /\ \A d \in 1 .. D - 1 : prod'[F].stack[d] = st[d]
      /\ prod'[F].stack[D].i = Frame(F).i + 1
      /\ prod'[F].stack[D].result = Frame(F).result
  BY <1>1, SendFacts
<1>3. /\ D \in Nat /\ D > 0 /\ D \in 1 .. Len(o) /\ Len(o) \in Nat /\ Frame(F) = st[D]
      /\ st[D].i \in Nat /\ TopLevel(F) = Labels[o[D]]
  BY <1>1, RunningFacts, GoroutineFacts DEF Frame, Frames, TopLevel
<1>4. OutOK(F) /\ FramesOK(F)
  BY <1>1, GoroutineFacts DEF GoroutineOK
<1>5. /\ D = Len(o) /\ out.len = D /\ Apart(F, out) /\ HasNext(F)
      /\ \A k \in 1 .. D : mem[F][out.arr][k] = IF k < D THEN Chosen(F, k) ELSE Element(F)
  BY <1>1, <1>4 DEF OutOK, Leaf
<1>6. out \in Slices
  BY <1>1, GoroutineFacts
<1>7. st[D].i \in DOMAIN Labels[o[D]]
  BY <1>1, <1>3, <1>5, RunningFacts
<1>8. \A k \in 1 .. D - 1 : st[k].i - 1 \in DOMAIN Labels[o[k]]
  <2>1. \A k \in 1 .. D - 1 : k \in 1 .. D /\ k < D
    BY ONLY <1>3
  <2> QED BY ONLY <1>4, <2>1 DEF FramesOK
<1>9. /\ out.arr \in DOMAIN mem[F] /\ out.len <= Len(mem[F][out.arr])
      /\ \A d \in 1 .. D : st[d].result.arr # out.arr
  BY <1>5 DEF Apart
<1> HIDE DEF D, st, o, out
<1>10. \A k \in 1 .. D - 1 : mem[F][out.arr][k] = <<o[k], Labels[o[k]][st[k].i - 1]>>
  <2>1. \A k \in 1 .. D - 1 : k \in 1 .. D /\ k < D
    BY <1>3
  <2> QED BY <1>5, <2>1 DEF Chosen, st, o
<1>11. mem[F][out.arr][D] = <<o[D], Labels[o[D]][st[D].i]>>
  <2>1. D \in 1 .. D /\ ~(D < D)
    BY <1>3
  <2>2. Element(F) = <<o[D], Labels[o[D]][st[D].i]>>
    BY <1>3 DEF Element, D, o
  <2> QED BY <1>5, <2>1, <2>2
<1>12. Depth(F)' = D
  BY <1>1, <1>2 DEF Depth
<1>13. \A d \in 1 .. D : prod'[F].stack[d].result.arr # out.arr
  <2> SUFFICES ASSUME NEW d \in 1 .. D PROVE prod'[F].stack[d].result.arr # out.arr
    OBVIOUS
  <2>1. CASE d = D
    BY ONLY <2>1, <1>2, <1>3, <1>9, d \in 1 .. D
  <2>2. CASE d # D
    <3>1. d \in 1 .. D - 1
      BY ONLY <2>2, <1>3, d \in 1 .. D
    <3> QED BY ONLY <3>1, <1>2, <1>9, d \in 1 .. D
  <2> QED BY <2>1, <2>2
<1>14. Apart(F, got)'
  BY <1>1, <1>9, <1>12, <1>13 DEF Apart
<1>15. ASSUME NEW k \in 1 .. D
       PROVE  \E j \in DOMAIN Labels[o[k]] : mem[F][out.arr][k] = <<o[k], Labels[o[k]][j]>>
  <2>1. CASE k = D
    BY ONLY <2>1, <1>7, <1>11
  <2>2. CASE k # D
    <3>1. k \in 1 .. D - 1
      BY ONLY <2>2, <1>3, k \in 1 .. D
    <3> QED BY ONLY <3>1, <1>8, <1>10
  <2> QED BY <2>1, <2>2
<1>16. GotOK'
  <2>1. got' \in Slices /\ got'.len = Len(prod'[F].order)
    BY <1>1, <1>2, <1>5, <1>6
  <2>2. \A k \in 1 .. got'.len :
             \E j \in DOMAIN Labels[prod'[F].order[k]] :
                 mem'[F][got'.arr][k] = <<prod'[F].order[k], Labels[prod'[F].order[k]][j]>>
    BY <1>1, <1>2, <1>5, <1>15
  <2> QED BY <1>1, <1>14, <2>1, <2>2 DEF GotOK
<1>17. ASSUME NEW ix \in Picks(Pattern.uses), Received(ix) \/ Pending(ix)
       PROVE  (Received(ix) \/ Pending(ix))'
  <2>1. ~Received(ix)
    BY <1>1 DEF Received
  <2>2. PICK d \in 1 .. D :
           (\A k \in 1 .. d - 1 : ix[o[k]] = st[k].i - 1) /\ ix[o[d]] >= st[d].i
    BY <1>17, <2>1 DEF Pending, D, st, o
  <2>3. Pending(ix)' = \E e \in 1 .. D :
           (\A k \in 1 .. e - 1 : ix[o[k]] = prod'[F].stack[k].i - 1) /\ ix[o[e]] >= prod'[F].stack[e].i
    BY <1>1, <1>2, <1>12 DEF Pending
  <2>4. CASE d # D
    <3>1. d \in 1 .. D - 1 /\ \A k \in 1 .. d - 1 : k \in 1 .. D - 1
      BY ONLY <1>3, <2>4, d \in 1 .. D
    <3>2. (\A k \in 1 .. d - 1 : ix[o[k]] = prod'[F].stack[k].i - 1) /\ ix[o[d]] >= prod'[F].stack[d].i
      BY ONLY <1>2, <2>2, <3>1
    <3> QED BY <2>3, <3>2
  <2>5. CASE d = D /\ ix[o[D]] = st[D].i
    <3>1. ASSUME NEW k \in 1 .. D
          PROVE  mem[F][out.arr][k] = <<o[k], Labels[o[k]][ix[o[k]]]>>
      <4>1. CASE k = D
        BY ONLY <4>1, <2>5, <1>11
      <4>2. CASE k # D
        <5>1. k \in 1 .. D - 1
          BY ONLY <4>2, <1>3, k \in 1 .. D
        <5> QED BY ONLY <5>1, <1>10, <2>2, <2>5
      <4> QED BY <4>1, <4>2
    <3> QED BY <1>1, <1>2, <1>5, <3>1 DEF Received
  <2>6. CASE d = D /\ ix[o[D]] # st[D].i
    <3>1. ix[o[D]] \in Nat
      BY <1>1, <1>3, TryingFacts DEF o
    <3>2. ix[o[D]] >= st[D].i + 1
      <4>1. ix[o[D]] >= st[D].i /\ ix[o[D]] # st[D].i
        BY ONLY <2>2, <2>6
      <4>2. st[D].i \in Nat
        BY ONLY <1>3
      <4> QED BY ONLY <3>1, <4>1, <4>2
    <3>3. ix[o[D]] >= prod'[F].stack[D].i
      BY ONLY <3>2, <1>2, <1>3
    <3>4. \A k \in 1 .. D - 1 : ix[o[k]] = prod'[F].stack[k].i - 1
      BY ONLY <1>2, <2>2, <2>6
    <3> QED BY <2>3, <2>6, <3>3, <3>4
  <2> QED BY <2>4, <2>5, <2>6
<1>18. TryingOK'
  BY <1>1, <1>2, <1>17, TryingKept DEF o
<1> QED BY <1>16, <1>18
----------------------------------------------------------------------------
(* Combinations and choices *)

\* An order of the placeholders leaves none out.
LEMMA OrderOnto ==
    ASSUME NEW S, IsFiniteSet(S), NEW o \in Orders(S)
    PROVE  \A p \in S : \E k \in 1 .. Cardinality(S) : o[k] = p
<1> DEFINE n == Cardinality(S)
<1>1. n \in Nat
  BY FS_CardinalityType
<1>2. IsFiniteSet(1 .. n) /\ Cardinality(1 .. n) = n
  BY <1>1, FS_Interval
<1>3. o \in [1 .. n -> S] /\ \A i, j \in 1 .. n : o[i] = o[j] => i = j
  BY DEF Orders
<1>4. o \in Injection(1 .. n, S)
  BY <1>3 DEF Injection, IsInjective
<1>5. o \in Surjection(1 .. n, S)
  BY <1>2, <1>4, FS_Injection
<1> QED BY <1>5 DEF Surjection

\* A combination that was received as ix is the set ix picks.
LEMMA ReceivedIsPicked ==
    ASSUME IndInv, pc = "try", NEW ix, Received(ix)
    PROVE  Combination = Picked(Pattern.uses, ix)
<1> DEFINE S == Pattern.uses
           o == prod[F].order
           m == mem[F]
<1>1. F \in FieldNames /\ m \in Memories
  BY FieldFacts, GoroutineFacts
<1>2. got \in Slices /\ got.len = Len(o) /\ Apart(F, got)
  BY DEF IndInv, GotOK
<1>3. SliceOf(m, got)
  BY <1>2 DEF SliceOf, Apart
<1>4. \A k \in 1 .. got.len : Elements(m, got)[k] = m[got.arr][k]
  BY <1>1, <1>3, ElementsOfSlice
<1>5. \A k \in 1 .. got.len : m[got.arr][k] = <<o[k], Labels[o[k]][ix[o[k]]]>>
  BY DEF Received
<1>6. Len(o) = Cardinality(S) /\ \A k \in 1 .. Len(o) : o[k] \in S
  BY TryingFacts
<1>7. o \in Orders(S) /\ IsFiniteSet(S)
  BY TryingFacts, LabelsAssumption, FS_Subset DEF IndInv, TryingOK
<1>8. \A p \in S : \E k \in 1 .. Len(o) : o[k] = p
  BY <1>6, <1>7, OrderOnto
<1> HIDE DEF S, o, m
<1>9. Combination = {Elements(m, got)[i] : i \in 1 .. got.len}
  BY DEF Combination, m
<1>10. Picked(S, ix) = {<<p, Labels[p][ix[p]]>> : p \in S}
  BY DEF Picked
<1>11. \A k \in 1 .. got.len : Elements(m, got)[k] = <<o[k], Labels[o[k]][ix[o[k]]]>>
  BY ONLY <1>4, <1>5, Zenon
<1>12. ASSUME NEW e \in Combination PROVE e \in Picked(S, ix)
  <2>1. PICK k \in 1 .. got.len : e = Elements(m, got)[k]
    BY <1>9
  <2>2. o[k] \in S
    BY <1>2, <1>6
  <2> QED BY ONLY <1>10, <1>11, <2>1, <2>2, k \in 1 .. got.len, Zenon
<1>13. ASSUME NEW e \in Picked(S, ix) PROVE e \in Combination
  <2>1. PICK p \in S : e = <<p, Labels[p][ix[p]]>>
    BY <1>10
  <2>2. PICK k \in 1 .. Len(o) : o[k] = p
    BY <1>8
  <2>3. k \in 1 .. got.len
    BY <1>2
  <2> QED BY ONLY <1>9, <1>11, <2>1, <2>2, <2>3, Zenon
<1> QED BY <1>12, <1>13 DEF S

\* Every combination that is received is a choice of labels.
LEMMA CombinationIsChoice ==
    ASSUME IndInv, pc = "try"
    PROVE  Combination \in Choices(Pattern.uses)
<1> DEFINE S == Pattern.uses
           o == prod[F].order
           c == mem[F][got.arr]
           Pos(p) == CHOOSE k \in 1 .. Len(o) : o[k] = p
           At(p) == CHOOSE j \in DOMAIN Labels[p] : c[Pos(p)] = <<p, Labels[p][j]>>
           ix == [p \in S |-> At(p)]
<1>1. got.len = Len(o) /\ \A k \in 1 .. Len(o) :
             \E j \in DOMAIN Labels[o[k]] : c[k] = <<o[k], Labels[o[k]][j]>>
  BY DEF IndInv, GotOK
<1>2. S \subseteq DOMAIN Labels /\ Len(o) = Cardinality(S) /\ \A k \in 1 .. Len(o) : o[k] \in S
  BY TryingFacts
<1>3. o \in Orders(S) /\ IsFiniteSet(S)
  BY <1>2, LabelsAssumption, FS_Subset DEF IndInv, TryingOK
<1>4. \A p \in S : \E k \in 1 .. Len(o) : o[k] = p
  BY <1>2, <1>3, OrderOnto
<1>5. \A k, l \in 1 .. Len(o) : o[k] = o[l] => k = l
  BY <1>2, <1>3 DEF Orders
<1>6. Pattern.uses = S /\ prod[F].order = o /\ mem[F][got.arr] = c
  OBVIOUS
<1> HIDE DEF S, o, c
<1>7. ASSUME NEW p \in S PROVE Pos(p) \in 1 .. Len(o) /\ o[Pos(p)] = p
  BY <1>4
<1>8. ASSUME NEW p \in S PROVE At(p) \in DOMAIN Labels[p] /\ c[Pos(p)] = <<p, Labels[p][At(p)]>>
  <2> HIDE DEF Pos
  <2>1. Pos(p) \in 1 .. Len(o) /\ o[Pos(p)] = p
    BY <1>7
  <2>2. \E j \in DOMAIN Labels[p] : c[Pos(p)] = <<p, Labels[p][j]>>
    BY ONLY <1>1, <2>1, Zenon
  <2> QED BY ONLY <2>2, Zenon
<1> HIDE DEF At
<1>9. ix \in Picks(S)
  <2>1. \A p \in S : At(p) \in Positions
    BY <1>2, <1>8 DEF Positions
  <2> QED BY <1>8, <2>1 DEF Picks
<1>10. ASSUME NEW k \in 1 .. Len(o) PROVE c[k] = <<o[k], Labels[o[k]][ix[o[k]]]>>
  <2>1. o[k] \in S
    BY <1>2
  <2>2. ix[o[k]] = At(o[k])
    BY <2>1
  <2>3. Pos(o[k]) = k
    BY <1>5, <1>7, <2>1
  <2>4. c[Pos(o[k])] = <<o[k], Labels[o[k]][At(o[k])]>>
    BY <1>8, <2>1
  <2> QED BY ONLY <2>2, <2>3, <2>4, Zenon
<1> HIDE DEF ix
<1>11. Received(ix)
  BY <1>1, <1>6, <1>10 DEF Received
<1>12. Combination = Picked(S, ix)
  BY <1>6, <1>11, ReceivedIsPicked
<1> QED BY <1>6, <1>9, <1>12 DEF Choices
----------------------------------------------------------------------------
(* The matcher's steps *)

\* The fields matched so far, and the result.
Progress ==
    /\ mc \in Conditions /\ at \in DOMAIN Fields /\ result \in BOOLEAN
    /\ pc # "done" => ~result /\ \A i \in 1 .. at - 1 : Satisfied(mc.patterns[Fields[i]])
    /\ MatchExact

\* The four fields Matches goes through.
LEMMA FieldsFacts ==
    /\ DOMAIN Fields = 1 .. 4 /\ Len(Fields) = 4
    /\ \A f \in FieldNames : \E i \in 1 .. 4 : f = Fields[i]
    /\ \A i \in 1 .. 4 : Fields[i] \in FieldNames
BY DEF Fields, FieldNames

\* The other conditions are what MatchExact says of them.
LEMMA OtherConditions ==
    ASSUME NEW c \in Conditions
    PROVE  (MatchIP(c.ip) /\ MatchLabels(c.labels)) <=>
             /\ c.ip \in {"any", "own"}
             /\ \A l \in DOMAIN c.labels :
                  c.labels[l] \cap {Labels[l][i] : i \in DOMAIN Labels[l]} # {}
<1>1. MatchIP(c.ip) <=> c.ip \in {"any", "own"}
  BY ConditionsAssumption DEF MatchIP
<1>2. ASSUME NEW l
      PROVE  (\E i \in DOMAIN Labels[l] : Labels[l][i] \in c.labels[l]) <=>
               c.labels[l] \cap {Labels[l][i] : i \in DOMAIN Labels[l]} # {}
  OBVIOUS
<1> QED BY <1>1, <1>2 DEF MatchLabels

\* A field that matches lets Matches go on to the next one, or to its other
\* conditions after the last.
LEMMA FieldMatchedKeeps ==
    ASSUME IndInv, pc # "done", Satisfied(Pattern), FieldMatched, mc' = mc
    PROVE  Progress' /\ pc' \in {"basic", "done"}
<1>1. at \in 1 .. 4 /\ mc \in Conditions /\ Pattern = mc.patterns[Fields[at]]
  BY FieldFacts DEF Pattern, F
<1>2. ~result /\ result \in BOOLEAN /\ \A i \in 1 .. at - 1 : Satisfied(mc.patterns[Fields[i]])
  BY DEF IndInv, TypeOK
<1>3. \A i \in 1 .. at : Satisfied(mc.patterns[Fields[i]])
  <2> SUFFICES ASSUME NEW i \in 1 .. at PROVE Satisfied(mc.patterns[Fields[i]])
    OBVIOUS
  <2>1. CASE i = at
    BY <2>1, <1>1
  <2>2. CASE i # at
    <3>1. i \in 1 .. at - 1
      BY <2>2, <1>1
    <3> QED BY <3>1, <1>2
  <2> QED BY <2>1, <2>2
<1>4. CASE at < Len(Fields)
  <2>1. at' = at + 1 /\ pc' = "basic" /\ result' = result
    BY <1>4 DEF FieldMatched
  <2>2. at' \in DOMAIN Fields /\ 1 .. at' - 1 = 1 .. at
    BY <1>1, <1>4, <2>1, FieldsFacts
  <2>3. ~result' /\ result' \in BOOLEAN
    BY ONLY <1>2, <2>1, Zenon
  <2>4. \A i \in 1 .. at' - 1 : Satisfied(mc'.patterns[Fields[i]])
    BY ONLY <1>3, <2>2, mc' = mc, Zenon
  <2>5. (\A i \in 1 .. at - 1 : Satisfied(mc.patterns[Fields[i]]))'
    BY <2>4 DEF Satisfied
  <2>6. MatchExact'
    BY <2>1 DEF MatchExact
  <2>7. pc' # "done" /\ pc' \in {"basic", "done"}
    BY ONLY <2>1
  <2>8. mc' \in Conditions
    BY <1>1
  <2> QED BY <2>2, <2>3, <2>5, <2>6, <2>7, <2>8 DEF Progress
<1>5. CASE ~(at < Len(Fields))
  <2>1. pc' = "done" /\ at' = at /\ result' = (MatchIP(mc.ip) /\ MatchLabels(mc.labels))
    BY <1>5 DEF FieldMatched
  <2>2. at = 4
    BY <1>1, <1>5, FieldsFacts
  <2>3. \A f \in FieldNames : Satisfied(mc.patterns[f])
    BY <1>3, <2>2, FieldsFacts
  <2>4. result' = (/\ mc.ip \in {"any", "own"}
                   /\ \A l \in DOMAIN mc.labels :
                        mc.labels[l] \cap {Labels[l][i] : i \in DOMAIN Labels[l]} # {})
    BY ONLY <1>1, <2>1, OtherConditions
  <2>5. result' = (/\ \A f \in FieldNames : Satisfied(mc'.patterns[f])
                   /\ mc'.ip \in {"any", "own"}
                   /\ \A l \in DOMAIN mc'.labels :
                        mc'.labels[l] \cap {Labels[l][i] : i \in DOMAIN Labels[l]} # {})
    BY ONLY <2>3, <2>4, mc' = mc, Zenon
  <2>6. MatchExact'
    BY <2>5 DEF MatchExact, Satisfied
  <2>7. result' \in BOOLEAN
    BY ONLY <2>1, Zenon
  <2>8. pc' \in {"basic", "done"} /\ ~(pc' # "done") /\ at' \in DOMAIN Fields /\ mc' \in Conditions
    BY <1>1, <2>1, FieldsFacts
  <2> QED BY <2>6, <2>7, <2>8 DEF Progress
<1> QED BY <1>4, <1>5

\* A field that does not match ends Matches with false.
LEMMA FieldFailedKeeps ==
    ASSUME IndInv, pc # "done", ~Satisfied(Pattern), FieldFailed, mc' = mc
    PROVE  Progress' /\ pc' = "done"
<1>1. at \in 1 .. 4 /\ mc \in Conditions /\ Pattern = mc.patterns[F] /\ F \in FieldNames
  BY FieldFacts DEF Pattern
<1>2. ~result /\ result \in BOOLEAN
  BY DEF IndInv, TypeOK
<1>3. pc' = "done" /\ at' = at /\ result' = result
  BY DEF FieldFailed
<1>4. ~(\A f \in FieldNames : Satisfied(mc.patterns[f]))
  BY <1>1
<1>5. ~result' /\ result' \in BOOLEAN
  BY ONLY <1>2, <1>3, Zenon
<1>6. result' = (/\ \A f \in FieldNames : Satisfied(mc'.patterns[f])
                 /\ mc'.ip \in {"any", "own"}
                 /\ \A l \in DOMAIN mc'.labels :
                      mc'.labels[l] \cap {Labels[l][i] : i \in DOMAIN Labels[l]} # {})
  BY ONLY <1>4, <1>5, mc' = mc, Zenon
<1>7. MatchExact'
  BY <1>6 DEF MatchExact, Satisfied
<1>8. at' \in DOMAIN Fields /\ mc' \in Conditions /\ ~(pc' # "done")
  BY <1>1, <1>3, FieldsFacts
<1> QED BY <1>3, <1>5, <1>7, <1>8 DEF Progress
\* The parts of the inductive invariant.
LEMMA Assemble ==
    ASSUME Progress', pc' \in {"basic", "receive", "try", "done"}, pc' = "try" <=> got' # None,
           prod' \in [FieldNames -> Goroutines], mem' \in [FieldNames -> Memories],
           \A g \in FieldNames : GoroutineOK(g)', GotOK', TryingOK'
    PROVE  IndInv'
<1>1. ASSUME NEW f \in FieldNames
      PROVE  /\ prod'[f].state \in {"none", "run", "closed"}
             /\ Depth(f)' <= Len(prod'[f].order)
             /\ prod'[f].out # None => prod'[f].out.len = Len(prod'[f].order)
  <2>1. prod'[f].state \in {"none", "run", "closed"}
    BY DEF Goroutines
  <2>2. GoroutineOK(f)'
    OBVIOUS
  <2>3. Depth(f)' <= Len(prod'[f].order) /\ OutOK(f)'
    BY <2>2 DEF GoroutineOK
  <2>4. prod'[f].out # None => prod'[f].out.len = Len(prod'[f].order)
    BY <2>3 DEF OutOK, Leaf
  <2> QED BY <2>1, <2>3, <2>4
<1>2. TypeOK'
  BY <1>1 DEF TypeOK, Progress
<1> QED BY <1>2 DEF IndInv, Progress, Memories

\* The matcher leaves every goroutine alone, or cancels its own.
LEMMA CancelKeepsGoroutines ==
    ASSUME IndInv, prod' = [prod EXCEPT ![F] = Cancel(@)], mem' = mem
    PROVE  /\ prod' \in [FieldNames -> Goroutines] /\ mem' \in [FieldNames -> Memories]
           /\ \A g \in FieldNames : GoroutineOK(g)'
<1>1. prod \in [FieldNames -> Goroutines] /\ mem \in [FieldNames -> Memories] /\ F \in FieldNames
  BY FieldFacts DEF IndInv, Memories
<1> DEFINE p == [prod[F] EXCEPT !.cancelled = TRUE]
<1>2. prod' = [prod EXCEPT ![F] = p]
  BY DEF Cancel
<1>3. prod[F] \in Goroutines
  BY <1>1
<1>4. /\ p \in Goroutines /\ p.state = prod[F].state /\ p.order = prod[F].order
      /\ p.stack = prod[F].stack /\ p.out = prod[F].out
  BY ONLY <1>3 DEF Goroutines
<1> HIDE DEF p
<1>5. prod' \in [FieldNames -> Goroutines] /\ prod'[F] = p /\ \A g \in FieldNames : g # F => prod'[g] = prod[g]
  BY ONLY <1>1, <1>2, <1>4
<1>6. \A g \in FieldNames : /\ prod'[g].state = prod[g].state /\ prod'[g].order = prod[g].order
                            /\ prod'[g].stack = prod[g].stack /\ prod'[g].out = prod[g].out
  BY ONLY <1>4, <1>5, Zenon
<1>7. \A g \in FieldNames : GoroutineOK(g)'
  BY <1>6, SameLoops DEF IndInv
<1> QED BY <1>1, <1>5, <1>7

\* Between fields there is nothing to try.
LEMMA NothingToTry ==
    ASSUME pc' \in {"basic", "done"}
    PROVE  GotOK' /\ TryingOK' /\ pc' \in {"basic", "receive", "try", "done"} /\ pc' # "try"
BY DEF GotOK, TryingOK

\* A pattern that matches as it stands, or does not and has no placeholder.
LEMMA BasicStep ==
    ASSUME IndInv, BasicMatch \/ NoPlaceholder
    PROVE  IndInv'
<1>1. pc = "basic" /\ pc # "done" /\ UNCHANGED <<mc, got, prod, mem>> /\ got = None
  BY DEF BasicMatch, NoPlaceholder, IndInv, TypeOK
<1>2. Progress' /\ pc' \in {"basic", "done"}
  <2>1. CASE BasicMatch
    <3>1. Satisfied(Pattern) /\ FieldMatched
      BY <2>1 DEF BasicMatch, Satisfied
    <3> QED BY <1>1, <3>1, FieldMatchedKeeps
  <2>2. CASE NoPlaceholder
    <3>1. ~Satisfied(Pattern) /\ FieldFailed
      BY <2>2 DEF NoPlaceholder, Satisfied
    <3> QED BY <1>1, <3>1, FieldFailedKeeps
  <2> QED BY <2>1, <2>2
<1>3. \A g \in FieldNames : GoroutineOK(g)'
  BY <1>1, Untouched DEF IndInv
<1>4. prod' \in [FieldNames -> Goroutines] /\ mem' \in [FieldNames -> Memories]
  BY <1>1 DEF IndInv, Memories
<1>5. got' = None
  BY <1>1
<1> QED BY <1>2, <1>3, <1>4, <1>5, NothingToTry, Assemble

\* IterWithContext starts its goroutine with the labels in any order.
LEMMA StartStep ==
    ASSUME IndInv, StartIterating
    PROVE  IndInv'
<1>1. /\ pc = "basic" /\ pc' = "receive" /\ UNCHANGED <<mc, at, got, mem, result>> /\ got = None
      /\ ~Pattern.plain /\ Pattern.uses # {}
  BY DEF StartIterating, IndInv, TypeOK
<1> DEFINE S == Pattern.uses
           st == <<[i |-> 1, result |-> EmptySlice]>>
<1>2. PICK o \in Orders(S) :
         prod' = [prod EXCEPT ![F] = [NoGoroutine EXCEPT !.state = "run", !.order = o, !.stack = st]]
  BY DEF StartIterating
<1> DEFINE p == [NoGoroutine EXCEPT !.state = "run", !.order = o, !.stack = st]
<1>3. F \in FieldNames /\ mc \in Conditions /\ at \in 1 .. 4
  BY FieldFacts
<1>4. S \subseteq DOMAIN Labels
  BY <1>3, ConditionsAssumption DEF Pattern
<1>5. IsFiniteSet(S) /\ Cardinality(S) \in Nat /\ Cardinality(S) # 0
  BY <1>1, <1>4, LabelsAssumption, FS_Subset, FS_CardinalityType, FS_EmptySet
<1>6. o \in [1 .. Cardinality(S) -> S]
  BY DEF Orders
<1>7. o \in Seq(DOMAIN Labels) /\ Len(o) = Cardinality(S) /\ 1 <= Len(o)
  BY <1>4, <1>5, <1>6
<1>8. st \in Seq(Frames) /\ Len(st) = 1 /\ st[1].i = 1 /\ st[1].result.arr = 0 /\ st[1].result.len = 0
  BY DEF EmptySlice, Frames, Slices
<1> HIDE DEF st, S
<1>9. /\ p \in Goroutines /\ p.state = "run" /\ p.order = o /\ p.stack = st /\ p.out = None
      /\ p.cancelled = FALSE
  BY <1>7, <1>8 DEF NoGoroutine, Goroutines, Frames
<1> HIDE DEF p
<1>10. prod \in [FieldNames -> Goroutines] /\ mem \in [FieldNames -> Memories]
  BY DEF IndInv, Memories
<1>11. prod' \in [FieldNames -> Goroutines] /\ prod'[F] = p /\ \A g \in FieldNames : g # F => prod'[g] = prod[g]
  BY <1>2, <1>3, <1>9, <1>10 DEF p
<1>12. /\ prod'[F].state = "run" /\ prod'[F].order = o /\ prod'[F].stack = st /\ prod'[F].out = None
       /\ prod'[F].cancelled = FALSE
  BY ONLY <1>9, <1>11, Zenon
<1>13. F' = F /\ Pattern' = Pattern
  BY <1>1 DEF F, Pattern
<1>14. ASSUME NEW g \in FieldNames PROVE GoroutineOK(g)'
  <2>1. CASE g # F
    BY <2>1, <1>1, <1>11, Untouched DEF IndInv
  <2>2. CASE g = F
    <3>1. prod'[g].stack = st /\ prod'[g].out = None /\ prod'[g].order = o /\ prod'[g].state = "run"
      BY <2>2, <1>12
    <3>2. Depth(g)' = 1
      BY <3>1, <1>8 DEF Depth
    <3>3. FramesOK(g)'
      BY <3>1, <3>2, <1>8 DEF FramesOK
    <3>4. OutOK(g)'
      BY <3>1 DEF OutOK
    <3> QED BY <3>1, <3>2, <3>3, <3>4, <1>7 DEF GoroutineOK
  <2> QED BY <2>1, <2>2
<1>15. ASSUME NEW ix \in Picks(S) PROVE Pending(ix)'
  <2>1. o[1] \in S
    BY <1>5, <1>6
  <2>2. ix[o[1]] \in DOMAIN Labels[o[1]] /\ Labels[o[1]] \in Seq(Nat)
    BY <2>1, <1>4, LabelsAssumption DEF Picks
  <2>3. ix[o[1]] >= 1
    BY <2>2
  <2>4. Depth(F)' = 1
    BY <1>13, <1>12, <1>8 DEF Depth
  <2> QED BY <1>12, <1>13, <1>8, <2>3, <2>4 DEF Pending
<1>16. TryingOK'
  <2>1. ~prod'[F].cancelled
    BY ONLY <1>12, Zenon
  <2>2. Orders(Pattern.uses)' = Orders(S) /\ Picks(Pattern.uses)' = Picks(S)
    BY <1>13 DEF Orders, Picks, Positions, S
  <2> QED BY <1>1, <1>12, <1>13, <1>15, <2>1, <2>2 DEF TryingOK
<1>17. GotOK'
  BY <1>1 DEF GotOK
<1>18. Progress'
  <2>1. ~result /\ result \in BOOLEAN /\ \A i \in 1 .. at - 1 : Satisfied(mc.patterns[Fields[i]])
    BY <1>1 DEF IndInv, TypeOK
  <2>2. ~result' /\ result' \in BOOLEAN
    BY ONLY <2>1, <1>1, Zenon
  <2>3. (\A i \in 1 .. at - 1 : Satisfied(mc.patterns[Fields[i]]))'
    BY <1>1, <2>1 DEF Satisfied
  <2>4. MatchExact'
    BY <1>1 DEF MatchExact
  <2> QED BY <1>1, <1>3, <2>2, <2>3, <2>4, FieldsFacts DEF Progress
<1>19. pc' \in {"basic", "receive", "try", "done"} /\ (pc' = "try" <=> got' # None) /\ mem' \in [FieldNames -> Memories]
  BY <1>1, <1>10
<1> QED BY <1>11, <1>14, <1>16, <1>17, <1>18, <1>19, Assemble
\* The matcher tries the combination received and stops or asks for the next.
LEMMA TryStep ==
    ASSUME IndInv, TryMatches \/ TryFails
    PROVE  IndInv'
<1>1. pc = "try" /\ pc # "done" /\ got' = None /\ UNCHANGED <<mc, mem>>
  BY DEF TryMatches, TryFails
<1>2. CASE TryMatches
  <2>1. Combination \in Choices(Pattern.uses) /\ Pattern.uses # {}
    BY <1>1, CombinationIsChoice DEF IndInv, TryingOK
  <2>2. Satisfied(Pattern) /\ FieldMatched
    BY <1>2, <2>1 DEF TryMatches, Satisfied
  <2>3. Progress' /\ pc' \in {"basic", "done"}
    BY <1>1, <2>2, FieldMatchedKeeps
  <2>4. prod' = [prod EXCEPT ![F] = Cancel(@)]
    BY <1>2 DEF TryMatches
  <2> QED BY <1>1, <2>3, <2>4, CancelKeepsGoroutines, NothingToTry, Assemble
<1>3. CASE TryFails
  <2>1. Combination \notin Pattern.accepts /\ pc' = "receive" /\ UNCHANGED <<mc, at, prod, mem, result>>
    BY <1>3 DEF TryFails
  <2>2. F' = F /\ Depth(F)' = Depth(F)
    BY <2>1 DEF F, Depth
  <2>3. \A ix : Pending(ix) => Pending(ix)'
    BY <2>1, <2>2 DEF Pending
  <2>4. \A ix : Picked(Pattern.uses, ix) \in Pattern.accepts => ~Received(ix)
    BY <1>1, <2>1, ReceivedIsPicked
  <2>5. TryingOK'
    BY <1>1, <2>1, <2>3, <2>4, TryingKept
  <2>6. GotOK'
    BY <2>1 DEF GotOK
  <2>7. Progress'
    <3>1. ~result /\ result \in BOOLEAN /\ \A i \in 1 .. at - 1 : Satisfied(mc.patterns[Fields[i]])
      BY <1>1 DEF IndInv, TypeOK
    <3>2. ~result' /\ result' \in BOOLEAN
      BY ONLY <3>1, <2>1, Zenon
    <3>3. (\A i \in 1 .. at - 1 : Satisfied(mc.patterns[Fields[i]]))'
      BY <2>1, <3>1 DEF Satisfied
    <3>4. MatchExact'
      BY <2>1 DEF MatchExact
    <3> QED BY <2>1, <3>2, <3>3, <3>4, FieldFacts, FieldsFacts DEF Progress
  <2>8. \A g \in FieldNames : GoroutineOK(g)'
    BY <2>1, Untouched DEF IndInv
  <2>9. prod' \in [FieldNames -> Goroutines] /\ mem' \in [FieldNames -> Memories]
    BY <2>1 DEF IndInv, Memories
  <2> QED BY <1>1, <2>1, <2>5, <2>6, <2>7, <2>8, <2>9, Assemble
<1> QED BY <1>2, <1>3

\* The channel is closed when no loop is left: nothing is pending.
LEMMA ClosedStep ==
    ASSUME IndInv, ChannelClosed
    PROVE  IndInv'
<1>1. /\ pc = "receive" /\ pc # "done" /\ UNCHANGED <<mc, got, mem>> /\ prod[F].state = "closed" /\ got = None
      /\ prod' = [prod EXCEPT ![F] = Cancel(@)] /\ FieldFailed
  BY DEF ChannelClosed, IndInv, TypeOK
<1>2. Depth(F) = 0
  BY <1>1, FieldFacts, GoroutineFacts DEF GoroutineOK
<1>3. \A ix : ~Received(ix) /\ ~Pending(ix)
  BY <1>1, <1>2 DEF Received, Pending
<1>4. ~Pattern.plain /\ \A ix \in Picks(Pattern.uses) : Picked(Pattern.uses, ix) \notin Pattern.accepts
  BY <1>1, <1>3 DEF IndInv, TryingOK
<1>5. ~Satisfied(Pattern)
  BY <1>4 DEF Satisfied, Choices
<1>6. Progress' /\ pc' = "done"
  BY <1>1, <1>5, FieldFailedKeeps
<1>7. pc' \in {"basic", "done"} /\ got' = None
  BY <1>1, <1>6
<1> QED BY <1>1, <1>6, <1>7, CancelKeepsGoroutines, NothingToTry, Assemble

----------------------------------------------------------------------------
(* The goroutines' steps and the theorems *)

LEMMA GoroutineStep ==
    ASSUME IndInv, NEW f \in FieldNames, Goroutine(f)
    PROVE  IndInv'
<1>1. prod' \in [FieldNames -> Goroutines] /\ \A g \in FieldNames : GoroutineOK(g)'
  <2>1. CASE Prepare(f)
    BY <2>1, PrepareFacts, PrepareKeepsGoroutine
  <2>2. CASE Send(f)
    BY <2>2, SendFacts, SendKeepsGoroutine
  <2>3. CASE LeafCancelled(f)
    <3>1. Running(f) /\ Pop(f) /\ mem' = mem
      BY <2>3 DEF LeafCancelled
    <3> QED BY <3>1, PopFacts, PopKeepsGoroutine
  <2>4. CASE Descend(f)
    <3>1. prod' \in [FieldNames -> Goroutines]
      BY <2>4, DescendFacts DEF Descended
    <3> QED BY <2>4, <3>1, DescendKeepsGoroutine
  <2>5. CASE LoopEnds(f)
    <3>1. Running(f) /\ Pop(f) /\ mem' = mem
      BY <2>5 DEF LoopEnds
    <3> QED BY <3>1, PopFacts, PopKeepsGoroutine
  <2>6. CASE Close(f)
    BY <2>6, CloseFacts, CloseKeepsGoroutine
  <2> QED BY <2>1, <2>2, <2>3, <2>4, <2>5, <2>6 DEF Goroutine
<1>2. GotOK' /\ TryingOK'
  BY PrepareSparesGot, SendSparesGot, PopSparesGot, DescendSparesGot, CloseSparesGot DEF Goroutine
<1>3. mem' \in [FieldNames -> Memories]
  <2>1. mem \in [FieldNames -> Memories]
    BY DEF IndInv, Memories
  <2>2. CASE Prepare(f)
    BY <2>2, PrepareFacts
  <2>3. CASE Descend(f)
    BY <2>3, DescendFacts DEF Descended
  <2>4. CASE mem' = mem
    BY <2>1, <2>4
  <2> QED BY <2>2, <2>3, <2>4 DEF Goroutine, Send, LeafCancelled, LoopEnds, Close
<1>4. UNCHANGED <<mc, at, result>>
  BY DEF Goroutine, Prepare, Send, LeafCancelled, Descend, LoopEnds, Close
<1>5. \/ UNCHANGED <<pc, got>>
      \/ pc = "receive" /\ pc' = "try" /\ got' # None
  BY DEF Goroutine, Prepare, Send, LeafCancelled, Descend, LoopEnds, Close
<1>6. /\ pc' \in {"basic", "receive", "try", "done"} /\ (pc' = "try" <=> got' # None)
      /\ pc' = "done" <=> pc = "done"
  BY <1>5 DEF IndInv, TypeOK
<1>7. Progress'
  <2>1. result \in BOOLEAN /\ mc \in Conditions /\ at \in DOMAIN Fields
    BY DEF IndInv, TypeOK
  <2>2. pc # "done" => ~result /\ \A i \in 1 .. at - 1 : Satisfied(mc.patterns[Fields[i]])
    BY DEF IndInv
  <2>3. (pc # "done" => ~result /\ \A i \in 1 .. at - 1 : Satisfied(mc.patterns[Fields[i]]))'
    BY <1>4, <1>6, <2>2 DEF Satisfied
  <2>4. MatchExact'
    BY <1>4, <1>6 DEF IndInv, MatchExact, Satisfied
  <2>5. result' \in BOOLEAN
    BY ONLY <1>4, <2>1, Zenon
  <2> QED BY <1>4, <2>1, <2>3, <2>4, <2>5 DEF Progress
<1> QED BY <1>1, <1>2, <1>3, <1>6, <1>7, Assemble

\* Matches begins with its first field and no goroutine.
LEMMA InitInv == Init => IndInv
<1> SUFFICES ASSUME Init PROVE IndInv
  OBVIOUS
<1>1. /\ mc \in Conditions /\ at = 1 /\ pc = "basic" /\ got = None /\ result = FALSE
      /\ prod = [f \in FieldNames |-> NoGoroutine] /\ mem = [f \in FieldNames |-> <<>>]
  BY DEF Init
<1>2. /\ NoGoroutine \in Goroutines /\ NoGoroutine.state = "none" /\ NoGoroutine.out = None
      /\ NoGoroutine.stack = <<>> /\ NoGoroutine.order = <<>>
  BY DEF NoGoroutine, Goroutines
<1>3. prod \in [FieldNames -> Goroutines] /\ mem \in [FieldNames -> Seq(Seq(Cells))]
  BY <1>1, <1>2
<1>4. ASSUME NEW f \in FieldNames
      PROVE  /\ GoroutineOK(f) /\ prod[f].state \in {"none", "run", "closed"}
             /\ Depth(f) <= Len(prod[f].order) /\ prod[f].out = None
  <2>1. prod[f].state = "none" /\ prod[f].out = None /\ prod[f].stack = <<>> /\ prod[f].order = <<>>
    BY <1>1, <1>2
  <2>2. Depth(f) = 0 /\ Len(prod[f].order) = 0
    BY <2>1 DEF Depth
  <2> QED BY <2>1, <2>2 DEF GoroutineOK, FramesOK, OutOK
<1>5. ~result /\ result \in BOOLEAN
  BY ONLY <1>1, Zenon
<1>6. TypeOK
  BY <1>1, <1>4, <1>5, FieldsFacts DEF TypeOK
<1>7. GotOK /\ TryingOK /\ MatchExact
  BY <1>1 DEF GotOK, TryingOK, MatchExact
<1>8. \A i \in 1 .. at - 1 : Satisfied(mc.patterns[Fields[i]])
  BY <1>1
<1> QED BY <1>3, <1>4, <1>5, <1>6, <1>7, <1>8 DEF IndInv

\* IndInv depends on the variables only.
LEMMA StutterInv == IndInv /\ UNCHANGED vars => IndInv'
<1> SUFFICES ASSUME IndInv, UNCHANGED vars PROVE IndInv'
  OBVIOUS
<1>1. UNCHANGED <<mc, at, pc, got, prod, mem, result>>
  BY DEF vars
<1>2. GotOK' /\ TryingOK'
  BY <1>1, OtherField
<1>3. \A g \in FieldNames : GoroutineOK(g)'
  BY <1>1, Untouched DEF IndInv
<1>4. result' \in BOOLEAN
  BY ONLY <1>1, IndInv, Zenon DEF IndInv, TypeOK
<1>5. (pc # "done" => ~result /\ \A i \in 1 .. at - 1 : Satisfied(mc.patterns[Fields[i]]))'
  BY <1>1 DEF IndInv, Satisfied
<1>6. MatchExact'
  BY <1>1 DEF IndInv, MatchExact, Satisfied
<1>7. Progress'
  BY <1>1, <1>4, <1>5, <1>6 DEF IndInv, TypeOK, Progress
<1>8. /\ pc' \in {"basic", "receive", "try", "done"} /\ (pc' = "try" <=> got' # None)
      /\ prod' \in [FieldNames -> Goroutines] /\ mem' \in [FieldNames -> Memories]
  BY <1>1 DEF IndInv, TypeOK, Memories
<1> QED BY <1>2, <1>3, <1>7, <1>8, Assemble

\* IndInv is an invariant: it holds at the start of Matches and every step of
\* the matcher and of the goroutines keeps it.
THEOREM Invariance == Spec => []IndInv
<1>1. IndInv /\ Next => IndInv'
  BY BasicStep, StartStep, TryStep, ClosedStep, GoroutineStep DEF Next, Matcher
<1>2. IndInv /\ [Next]_vars => IndInv'
  BY <1>1, StutterInv
<1> QED BY <1>2, InitInv, PTL DEF Spec

\* TypeOK, with the part that matters: whatever iterate sends is a whole
\* combination.
THEOREM TypeCorrect == Spec => []TypeOK
<1>1. IndInv => TypeOK
  BY DEF IndInv
<1> QED BY <1>1, Invariance, PTL

\* MatchExact: Matches answers what its patterns say, for any labels, any
\* patterns, any order of the map and any schedule of the goroutines.
THEOREM Exact == Spec => []MatchExact
<1>1. IndInv => MatchExact
  BY DEF IndInv
<1> QED BY <1>1, Invariance, PTL

\* PrefixesIntact: the appends of iterate's recursion never overwrite what an
\* enclosing loop still uses.
THEOREM Intact == Spec => []PrefixesIntact
<1>1. IndInv => PrefixesIntact
  <2> SUFFICES ASSUME IndInv, NEW f \in FieldNames, NEW d \in 1 .. Depth(f)
               PROVE  LET r == prod[f].stack[d].result IN
                      /\ r.len = d - 1
                      /\ \A k \in 1 .. r.len :
                           Elements(mem[f], r)[k] =
                             <<prod[f].order[k], Labels[prod[f].order[k]][prod[f].stack[k].i - 1]>>
    BY DEF PrefixesIntact
  <2> DEFINE r == prod[f].stack[d].result
  <2>1. FramesOK(f)
    BY DEF IndInv, GoroutineOK
  <2>2. /\ r.len = d - 1
        /\ IF d = 1 THEN r.arr = 0 ELSE r.arr \in DOMAIN mem[f] /\ d - 1 <= Len(mem[f][r.arr])
        /\ \A k \in 1 .. d - 1 : mem[f][r.arr][k] = Chosen(f, k)
    BY <2>1 DEF FramesOK
  <2>3. r \in Slices /\ mem[f] \in Memories
    <3>1. prod[f].stack \in Seq(Frames) /\ d \in DOMAIN prod[f].stack /\ mem[f] \in Memories
      BY GoroutineFacts
    <3>2. prod[f].stack[d] \in Frames
      BY ONLY <3>1
    <3> QED BY ONLY <3>1, <3>2 DEF Frames
  <2> HIDE DEF r
  <2>4. SliceOf(mem[f], r)
    BY <2>2, <2>3 DEF SliceOf
  <2>5. \A k \in 1 .. r.len : Elements(mem[f], r)[k] = mem[f][r.arr][k]
    BY <2>3, <2>4, ElementsOfSlice
  <2> QED BY <2>2, <2>5 DEF r, Chosen
<1> QED BY <1>1, Invariance, PTL
=============================================================================
