------------------------------ MODULE Chunking ------------------------------
(***************************************************************************)
(* ChunkText (backend/internal/ingest/chunk.go), which cuts a text into    *)
(* overlapping windows: one step is one iteration of its loop.  A text is  *)
(* its number of runes after TrimSpace; a chunk is its index and the       *)
(* window runes[from:to] its text is cut from.                             *)
(***************************************************************************)
EXTENDS Integers, Sequences

CONSTANTS
    ChunkSize,      \* defaultChunkSize, 1000 runes
    Overlap,        \* defaultOverlap, 200 runes
    MaxLength       \* bound: runes of a text

ASSUME WindowsAdvance ==
    /\ ChunkSize \in Nat /\ Overlap \in Nat
    /\ Overlap < ChunkSize
ASSUME MaxLengthIsNat == MaxLength \in Nat

VARIABLES
    length,         \* len(runes)
    start, idx,     \* the loop variables
    chunks,         \* the chunks appended so far
    returned        \* the call is over
vars == <<length, start, idx, chunks, returned>>

\* Mutant: the operands of the subtraction swapped.
SwappedStep == Overlap - ChunkSize

\* Mutant: the next window starts after the overlap instead of before it.
GappedStep == ChunkSize + Overlap

\* Mutant: the windows do not overlap.
DisjointStep == ChunkSize

\* step
Step == ChunkSize - Overlap

Smaller(a, b) == IF a < b THEN a ELSE b

\* Chunk
Chunk == [index : Nat, from : Nat, to : Nat]

TypeOK ==
    /\ length \in Nat
    /\ start \in Nat
    /\ idx \in Nat
    /\ chunks \in Seq(Chunk)
    /\ returned \in BOOLEAN

Init ==
    /\ length \in 0 .. MaxLength
    /\ start = 0
    /\ idx = 0
    /\ chunks = <<>>
    /\ returned = FALSE

\* The loop condition fails: for a blank text, which returns before the loop.
\* Any other text leaves the loop by its break.
LoopEnds ==
    /\ ~returned
    /\ start >= length
    /\ returned' = TRUE
    /\ UNCHANGED <<length, start, idx, chunks>>

\* Mutant: no break once the end of the text is reached.
WindowNoBreak ==
    LET end == Smaller(start + ChunkSize, length)
    IN  /\ ~returned
        /\ start < length
        /\ chunks' = Append(chunks, [index |-> idx, from |-> start, to |-> end])
        /\ start' = start + Step
        /\ idx' = idx + 1
        /\ UNCHANGED <<length, returned>>

\* One iteration: append the window at start; break at the end of the text.
Window ==
    LET end == Smaller(start + ChunkSize, length)
    IN  /\ ~returned
        /\ start < length
        /\ chunks' = Append(chunks, [index |-> idx, from |-> start, to |-> end])
        /\ IF end = length
           THEN returned' = TRUE /\ UNCHANGED <<start, idx>>
           ELSE start' = start + Step /\ idx' = idx + 1 /\ UNCHANGED returned
        /\ UNCHANGED length

Next == LoopEnds \/ Window

Spec == Init /\ [][Next]_vars

(***************************************************************************)
(* Properties.                                                             *)
(***************************************************************************)
\* No rune of the text is lost between two windows or after the last one:
\* when ChunkText returns, each is in the text of some chunk.
EveryRuneInAChunk ==
    returned =>
        \A i \in 0 .. length - 1 :
            \E k \in 1 .. Len(chunks) : chunks[k].from <= i /\ i < chunks[k].to

\* "Carries context across chunk boundaries": a chunk begins with the last
\* Overlap runes of the chunk before it, the last chunk included.
NeighboursOverlap ==
    \A k \in 1 .. Len(chunks) - 1 : chunks[k + 1].from = chunks[k].to - Overlap

\* No chunk repeats what the one before it holds: each has runes of its own,
\* the one that ends at the end of the text too.
EveryChunkAddsText ==
    /\ \A k \in 1 .. Len(chunks) : chunks[k].from < chunks[k].to
    /\ \A k \in 1 .. Len(chunks) - 1 : chunks[k].to < chunks[k + 1].to
=============================================================================
