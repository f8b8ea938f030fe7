----------------------------- MODULE SplitText ------------------------------
(***************************************************************************)
(* SplitText of the chunking worker: cuts a text into windows of chunkSize *)
(* bytes, each of which starts overlap bytes before the end of the one     *)
(* before it.  A text is its length and a window its bounds [first, last). *)
(***************************************************************************)
EXTENDS Integers, Sequences

CONSTANTS
    MaxLen,     \* bound: length of the text
    MaxSize,    \* bound: size and overlap that a caller asks for
    DefaultChunkSize

ASSUME SplitAssumption ==
    MaxLen \in Nat /\ MaxSize \in Nat /\ DefaultChunkSize \in Nat \ {0}

VARIABLES
    length,   \* len(text)
    size,     \* chunkSize
    overlap,
    start,    \* where the next window begins
    windows,  \* chunks
    done      \* whether it has returned

splitVars == <<length, size, overlap, start, windows, done>>

SplitTypeOK ==
    /\ length \in Nat /\ size \in Nat \ {0} /\ overlap \in Nat
    /\ start \in Nat /\ done \in BOOLEAN
    /\ windows \in Seq([first : Nat, last : Nat])

Size(s) == IF s <= 0 THEN DefaultChunkSize ELSE s

\* Mutant: a negative overlap leaves bytes out between two windows.
NotNegative_AsIs(v) == v
NotNegative(v) == IF v < 0 THEN 0 ELSE v

\* Mutant: an overlap as long as the window is left alone.
Overlap_OffByOne(v, s) == IF v > s THEN s \div 4 ELSE v
Overlap(v, s) == IF v >= s THEN s \div 4 ELSE v

Window(a, b) == [first |-> a, last |-> b]

\* The parameters are put right; an empty text has no window and a short one is
\* its own.
SplitInit ==
    /\ length \in 0..MaxLen
    /\ \E s, v \in -1..MaxSize :
          size = Size(s) /\ overlap = Overlap(NotNegative(v), Size(s))
    /\ start = 0
    /\ IF length <= size
       THEN done = TRUE /\ windows = IF length = 0 THEN <<>> ELSE <<Window(0, length)>>
       ELSE done = FALSE /\ windows = <<>>

End == IF start + size > length THEN length ELSE start + size

\* One turn of the loop.
Cut ==
    /\ ~done
    /\ windows' = Append(windows, Window(start, End))
    /\ IF End = length
       THEN done' = TRUE /\ UNCHANGED start
       ELSE start' = End - overlap /\ UNCHANGED done
    /\ UNCHANGED <<length, size, overlap>>

SplitSpec == SplitInit /\ [][Cut]_splitVars
-----------------------------------------------------------------------------
(* Properties.                                                             *)

\* No byte of the text is left out, no window is longer than asked, each one
\* repeats exactly the overlap and goes on beyond the one before it; so the loop
\* ends, at the end of the text.
TextIsCovered ==
    /\ \A i \in 1..Len(windows) :
          /\ windows[i].last - windows[i].first \in 1..size
          /\ i > 1 => /\ windows[i].first = windows[i - 1].last - overlap
                      /\ windows[i].last > windows[i - 1].last
    /\ Len(windows) > 0 => windows[1].first = 0
    /\ done /\ length > 0 => Len(windows) > 0 /\ windows[Len(windows)].last = length
=============================================================================
