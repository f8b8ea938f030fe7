---------------------------- MODULE MCCompaction ----------------------------
(* Small instances of Compaction for TLC. *)
EXTENDS Compaction, TLC

CONSTANTS d1, d2, c1, c2, r1, r2, u1, u2, l1, w1, w2

OneDoc  == [c \in Chunk |-> d1]
\* c2 is in a document of its own.
TwoDocs == [c \in Chunk |-> IF c = c2 THEN d2 ELSE d1]

AnyEnds == Chunk \X Chunk
\* Poll loops are interchangeable.
Symmetric == Permutations(Worker)

OneWay  == {<<c1, c2>>}
=============================================================================
