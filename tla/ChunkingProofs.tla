--------------------------- MODULE ChunkingProofs ---------------------------
(***************************************************************************)
(* Proofs about ChunkText, for every chunk size, overlap and text length.  *)
(***************************************************************************)
EXTENDS Chunking, SequenceTheorems, TLAPS

(***************************************************************************)
(* The loop invariant.  Until the break, the last chunk is a whole window  *)
(* that ends inside the text, and start is Overlap runes before its end.   *)
(***************************************************************************)
LoopInv ==
    IF chunks = <<>>
    THEN start = 0 /\ (returned => length = 0)
    ELSE LET last == chunks[Len(chunks)]
         IN  IF returned
             THEN last.to = length
             ELSE last.to < length /\ start = last.to - Overlap /\ last.to - last.from = ChunkSize

\* The runes before the end of the last chunk are covered, from the first on.
PrefixCovered ==
    chunks # <<>> =>
        \A i \in 0 .. chunks[Len(chunks)].to - 1 :
            \E k \in 1 .. Len(chunks) : chunks[k].from <= i /\ i < chunks[k].to

IInv == TypeOK /\ LoopInv /\ PrefixCovered /\ NeighboursOverlap /\ EveryChunkAddsText

LEMMA ChunksShape ==
    ASSUME TypeOK
    PROVE  /\ Len(chunks) \in Nat
           /\ chunks = <<>> <=> Len(chunks) = 0
           /\ \A k \in 1 .. Len(chunks) : chunks[k].from \in Nat /\ chunks[k].to \in Nat
<1>1. Len(chunks) \in Nat /\ \A k \in 1 .. Len(chunks) : chunks[k] \in Chunk
    BY LenProperties, ElementOfSeq DEF TypeOK
<1>2. chunks = <<>> <=> Len(chunks) = 0
    BY EmptySeq DEF TypeOK
<1>3. QED
    BY <1>1, <1>2 DEF Chunk

LEMMA InitIInv == Init => IInv
<1> SUFFICES ASSUME Init PROVE IInv
    OBVIOUS
<1>1. TypeOK
    <2>1. chunks \in Seq(Chunk)
        BY EmptySeq DEF Init
    <2>2. length \in Nat
        BY MaxLengthIsNat DEF Init
    <2>3. QED
        BY <2>1, <2>2 DEF Init, TypeOK
<1>2. chunks = <<>> /\ Len(chunks) = 0
    BY EmptySeq DEF Init
<1>3. LoopInv /\ PrefixCovered
    BY <1>2 DEF Init, LoopInv, PrefixCovered
<1>4. 1 .. Len(chunks) = {} /\ 1 .. Len(chunks) - 1 = {}
    BY <1>2
<1>5. NeighboursOverlap /\ EveryChunkAddsText
    BY <1>4 DEF NeighboursOverlap, EveryChunkAddsText
<1>6. QED
    BY <1>1, <1>3, <1>5 DEF IInv

\* What one iteration appends, and that the chunks before it stay.
LEMMA WindowAppends ==
    ASSUME TypeOK, Window
    PROVE  /\ length' = length
           /\ chunks' \in Seq(Chunk)
           /\ chunks' # <<>>
           /\ Len(chunks') = Len(chunks) + 1
           /\ \A k \in 1 .. Len(chunks) : chunks'[k] = chunks[k]
           /\ chunks'[Len(chunks) + 1].from = start
           /\ chunks'[Len(chunks) + 1].to = Smaller(start + ChunkSize, length)
<1> DEFINE c == [index |-> idx, from |-> start, to |-> Smaller(start + ChunkSize, length)]
<1>1. c \in Chunk
    BY WindowsAdvance DEF TypeOK, Smaller, Chunk
<1>2. chunks' = Append(chunks, c) /\ length' = length
    BY DEF Window
<1>3. chunks \in Seq(Chunk)
    BY DEF TypeOK
<1> HIDE DEF c
<1>4. /\ chunks' \in Seq(Chunk)
      /\ chunks' # <<>>
      /\ Len(chunks') = Len(chunks) + 1
      /\ \A k \in 1 .. Len(chunks) : chunks'[k] = chunks[k]
      /\ chunks'[Len(chunks) + 1] = c
    BY <1>1, <1>2, <1>3, AppendProperties
<1>5. QED
    BY <1>2, <1>4 DEF c

LEMMA NextIInv == IInv /\ [Next]_vars => IInv'
<1> SUFFICES ASSUME IInv, [Next]_vars PROVE IInv'
    OBVIOUS
<1> USE DEF IInv
<1>1. CASE LoopEnds
    <2>1. UNCHANGED <<length, start, idx, chunks>> /\ ~returned /\ returned' = TRUE /\ start >= length
        BY <1>1 DEF LoopEnds
    <2>2. chunks = <<>>
        BY <2>1, ChunksShape, WindowsAdvance DEF TypeOK, LoopInv
    <2>3. LoopInv'
        BY <2>1, <2>2 DEF TypeOK, LoopInv
    <2>4. QED
        BY <2>1, <2>3 DEF TypeOK, PrefixCovered, NeighboursOverlap, EveryChunkAddsText
<1>2. CASE Window
    <2> DEFINE n == Len(chunks)
               end == Smaller(start + ChunkSize, length)
    <2>1. /\ length' = length
          /\ Len(chunks') = n + 1
          /\ chunks' # <<>>
          /\ \A k \in 1 .. n : chunks'[k] = chunks[k]
          /\ chunks'[n + 1].from = start
          /\ chunks'[n + 1].to = end
        BY <1>2, WindowAppends
    <2>2. n \in Nat /\ start \in Nat /\ length \in Nat /\ start < length /\ ~returned
        BY <1>2 DEF TypeOK, Window
    <2>3. end \in Nat /\ start < end /\ end <= length
        BY <2>2, WindowsAdvance DEF Smaller
    <2>4. TypeOK'
        <3>1. start + Step \in Nat /\ idx + 1 \in Nat
            BY <2>2, WindowsAdvance DEF TypeOK, Step
        <3>2. start' \in Nat /\ idx' \in Nat /\ returned' \in BOOLEAN
            BY <1>2, <2>2, <3>1 DEF TypeOK, Window
        <3>3. QED
            BY <1>2, <2>2, <3>2, WindowAppends DEF TypeOK
    <2>5. LoopInv'
        <3>1. CASE end = length
            BY <1>2, <2>1, <3>1 DEF LoopInv, Window
        <3>2. CASE end # length
            <4>1. end = start + ChunkSize /\ end < length
                BY <2>2, <2>3, <3>2 DEF Smaller
            <4>2. returned' = FALSE /\ start' = end - Overlap
                BY <1>2, <2>2, <3>2, <4>1, WindowsAdvance DEF Window, Step
            <4>3. QED
                BY <2>1, <2>2, <4>1, <4>2, WindowsAdvance DEF LoopInv
        <3>3. QED
            BY <3>1, <3>2
    <2>6. \/ n = 0 /\ start = 0
          \/ /\ n >= 1
             /\ chunks[n].to < end
             /\ start = chunks[n].to - Overlap
        <3>1. CASE chunks = <<>>
            BY <3>1 DEF LoopInv
        <3>2. CASE chunks # <<>>
            <4>1. n >= 1 /\ chunks[n].to \in Nat
                BY <3>2, ChunksShape
            <4>2. chunks[n].to < length /\ start = chunks[n].to - Overlap
                BY <2>2, <3>2 DEF LoopInv
            <4>3. QED
                BY <2>2, <4>1, <4>2, WindowsAdvance DEF Smaller
        <3>3. QED
            BY <3>1, <3>2
    <2>7. PrefixCovered'
        <3> SUFFICES ASSUME NEW i \in 0 .. end - 1
                     PROVE  \E k \in 1 .. n + 1 : chunks'[k].from <= i /\ i < chunks'[k].to
            BY <2>1 DEF PrefixCovered
        <3>1. CASE start <= i
            BY <2>1, <2>2, <2>3, <3>1
        <3>2. CASE i < start
            <4>1. n >= 1 /\ chunks # <<>> /\ chunks[n].to \in Nat /\ i < chunks[n].to
                BY <2>2, <2>3, <2>6, <3>2, ChunksShape, WindowsAdvance
            <4>2. PICK k \in 1 .. n : chunks[k].from <= i /\ i < chunks[k].to
                BY <2>2, <4>1 DEF PrefixCovered
            <4>3. QED
                BY <2>1, <2>2, <4>2
        <3>3. QED
            BY <2>2, <3>1, <3>2
    <2>8. NeighboursOverlap'
        BY <2>1, <2>2, <2>6 DEF NeighboursOverlap
    <2>9. EveryChunkAddsText'
        <3>1. \A k \in 1 .. n + 1 : chunks'[k].from < chunks'[k].to
            BY <2>1, <2>2, <2>3 DEF EveryChunkAddsText
        <3>2. \A k \in 1 .. n : chunks'[k].to < chunks'[k + 1].to
            BY <2>1, <2>2, <2>6 DEF EveryChunkAddsText
        <3>3. QED
            BY <2>1, <2>2, <3>1, <3>2 DEF EveryChunkAddsText
    <2>10. QED
        BY <2>4, <2>5, <2>7, <2>8, <2>9
<1>3. CASE UNCHANGED vars
    BY <1>3 DEF vars, TypeOK, LoopInv, PrefixCovered, NeighboursOverlap, EveryChunkAddsText
<1>4. QED
    BY <1>1, <1>2, <1>3 DEF Next

LEMMA Invariance == Spec => []IInv
BY InitIInv, NextIInv, PTL DEF Spec

\* Whatever the sizes, the loop keeps its offsets and chunks well formed.
THEOREM ChunksWellTyped == Spec => []TypeOK
<1>1. IInv => TypeOK
    BY DEF IInv
<1>2. QED
    BY Invariance, <1>1, PTL

\* Whatever the sizes, no rune of the text is left out of the chunks.
THEOREM Coverage == Spec => []EveryRuneInAChunk
<1>1. IInv => EveryRuneInAChunk
    <2> SUFFICES ASSUME IInv, returned, NEW i \in 0 .. length - 1
                 PROVE  \E k \in 1 .. Len(chunks) : chunks[k].from <= i /\ i < chunks[k].to
        BY DEF EveryRuneInAChunk
    <2>1. chunks # <<>> /\ chunks[Len(chunks)].to = length
        BY DEF IInv, LoopInv, TypeOK
    <2>2. QED
        BY <2>1 DEF IInv, PrefixCovered
<1>2. QED
    BY Invariance, <1>1, PTL

\* Whatever the sizes, a chunk starts with the end of the one before it.
THEOREM ContextCarried == Spec => []NeighboursOverlap
<1>1. IInv => NeighboursOverlap
    BY DEF IInv
<1>2. QED
    BY Invariance, <1>1, PTL

\* Whatever the sizes, no chunk is contained in the one before it.
THEOREM NoRedundantChunk == Spec => []EveryChunkAddsText
<1>1. IInv => EveryChunkAddsText
    BY DEF IInv
<1>2. QED
    BY Invariance, <1>1, PTL
=============================================================================
