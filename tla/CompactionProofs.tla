-------------------------- MODULE CompactionProofs --------------------------
(***************************************************************************)
(* What Compaction guarantees for every set of chunks, compactions, calls, *)
(* links and poll loops, and any number of failing statements: compacted   *)
(* chunks are replaced and can be restored, they leave nothing behind in   *)
(* the index, and content stays in it.                                     *)
(***************************************************************************)
EXTENDS Compaction, TLAPS

-----------------------------------------------------------------------------
(* Types.                                                                  *)

\* An Uncompact call has found its summary once it has begun.
TInv == TypeOK /\ \A u \in Uncompaction : un[u] = "idle" <=> tgt[u] = None

\* A statement ends in one of four ways, and fails only when it may.
LEMMA OutcomeFact ==
    ASSUME NEW can, NEW o \in Outcomes(can)
    PROVE  /\ o \in {"ok", "refused", "fault", "lost"}
           /\ Failed(o) => faults < MaxFaults
           /\ o \in {"ok", "lost"} => can
  BY DEF Outcomes, Ends, Failed

LEMMA CountType ==
    ASSUME TInv, NEW can, NEW o \in Outcomes(can), Count(o)
    PROVE  faults' \in 0..MaxFaults
  BY OutcomeFact, CompactionAssumption DEF Count, TInv, TypeOK

\* Deleting a chunk.
LEMMA DropType ==
    ASSUME TInv, NEW o, NEW c \in Chunk, Drop(o, c)
    PROVE  /\ status' \in [Chunk -> {"none", "active", "compacted", "gone"}]
           /\ by' \in [Chunk -> Compaction \union {None}]
           /\ emb' \subseteq Chunk /\ vec' \subseteq Chunk
           /\ link' \in [Link -> (Chunk \X Chunk) \union {None}]
           /\ rec' \in [Compaction -> {"none", "present", "gone"}]
  BY DEF TInv, TypeOK, Drop, Written

LEMMA StartsTyped == Init => TInv
  BY CompactionAssumption DEF Init, TInv, TypeOK, PC, Chunk

\* The steps of clients keep the types.
LEMMA ClientType ==
    ASSUME TInv, Client
    PROVE  TInv'
<1> USE CompactionAssumption DEF TInv, TypeOK, PC, rows, compact, loops, calls
<1>1. ASSUME NEW r \in Compaction, CompactStart(r) PROVE TInv'
  BY <1>1 DEF CompactStart
<1>2. ASSUME NEW r \in Compaction, RequestCompaction(r) PROVE TInv'
  BY <1>2 DEF RequestCompaction
<1>3. ASSUME NEW u \in Uncompaction, UncompactStart(u) PROVE TInv'
  BY <1>3 DEF UncompactStart, Chunk
<1>4. ASSUME NEW l \in Link, CreateLink(l) PROVE TInv'
  BY <1>4 DEF CreateLink
<1>5. ASSUME NEW c \in Chunk, DeleteVector(c) PROVE TInv'
  BY <1>5 DEF DeleteVector, Written, After, Outcomes, Ends, Failed, Count
<1> QED BY <1>1, <1>2, <1>3, <1>4, <1>5 DEF Client

\* So do those of a compaction.
LEMMA CompactingType ==
    ASSUME TInv, NEW r \in Compaction, Compacting(r)
    PROVE  TInv'
<1> USE CompactionAssumption DEF TInv, TypeOK, PC, Chunk, rows, compact, loops, calls, Written, After
<1>1. CASE SummaryCreate(r)
  BY <1>1 DEF SummaryCreate, AfterCreate, Outcomes, Ends, Failed, Count
<1>2. CASE SummaryStore(r)
  BY <1>2, CountType DEF SummaryStore
<1>3. CASE SummarySet(r)
  BY <1>3 DEF SummarySet, Outcomes, Ends, Failed, Count
<1>4. CASE SummaryEnqueue(r)
  BY <1>4 DEF SummaryEnqueue, Outcomes, Ends, Failed, Count
<1>5. CASE TransferOut(r)
  <2>1. PICK c \in todo[r] : \E o \in Outcomes(CanMove(c, r, 1)) :
          /\ link' = Written(o, Moved(c, r, 1), link)
          /\ todo' = [todo EXCEPT ![r] = @ \ {c}]
          /\ half' = [half EXCEPT ![r] = After(o, c, None)]
          /\ pc' = [pc EXCEPT ![r] = After(o, "links", "failed")]
          /\ Count(o)
    BY <1>5 DEF TransferOut
  <2>2. Moved(c, r, 1) \in [Link -> (Chunk \X Chunk) \union {None}]
    BY DEF Moved
  <2>3. PICK o \in Outcomes(CanMove(c, r, 1)) :
          /\ link' = Written(o, Moved(c, r, 1), link)
          /\ todo' = [todo EXCEPT ![r] = @ \ {c}]
          /\ half' = [half EXCEPT ![r] = After(o, c, None)]
          /\ pc' = [pc EXCEPT ![r] = After(o, "links", "failed")]
          /\ Count(o)
    BY <2>1
  <2>4. faults' \in 0..MaxFaults
    BY <2>3, CountType
  <2> QED BY <1>5, <2>2, <2>3, <2>4 DEF TransferOut
<1>6. CASE TransferIn(r)
  <2>1. PICK o \in Outcomes(CanMove(half[r], r, 2)) :
          /\ link' = Written(o, Moved(half[r], r, 2), link)
          /\ half' = [half EXCEPT ![r] = None]
          /\ pc' = [pc EXCEPT ![r] = After(o, IF todo[r] = {} THEN "vectors" ELSE "links", "failed")]
          /\ Count(o)
    BY <1>6 DEF TransferIn
  <2>2. Moved(half[r], r, 2) \in [Link -> (Chunk \X Chunk) \union {None}]
    BY DEF Moved
  <2>3. faults' \in 0..MaxFaults
    BY <2>1, CountType
  <2> QED BY <1>6, <2>1, <2>2, <2>3 DEF TransferIn
<1>7. CASE DeleteSourceVectors(r)
  BY <1>7 DEF DeleteSourceVectors, Outcomes, Ends, Failed, Count
<1>8. CASE MarkCompacted(r)
  BY <1>8, CountType DEF MarkCompacted
<1>9. CASE CreateRecord(r)
  BY <1>9, CountType DEF CreateRecord
<1> QED BY <1>1, <1>2, <1>3, <1>4, <1>5, <1>6, <1>7, <1>8, <1>9 DEF Compacting

\* And those of Uncompact, DeleteChunk and the embedding worker.
LEMMA OtherType ==
    ASSUME TInv,
           \/ \E u \in Uncompaction : Uncompacting(u)
           \/ \E c \in Chunk : DeleteChunk(c)
           \/ \E w \in Worker, r \in ByJob : CompactionClaim(w, r) \/ CompactionList(r)
           \/ \E w \in Worker : CompactionReturn(w) \/ EmbedList(w) \/ EmbedStore(w) \/ EmbedSet(w)
    PROVE  TInv'
<1> USE CompactionAssumption DEF TInv, TypeOK, PC, rows, compact, loops, calls
<1>1. ASSUME NEW u \in Uncompaction, Restore(u) PROVE TInv'
  BY <1>1 DEF Restore, Restored, Written, After, Outcomes, Ends, Failed, Count
<1>2. ASSUME NEW u \in Uncompaction, DeleteSummaryVector(u) PROVE TInv'
  BY <1>2 DEF DeleteSummaryVector, Written, After, Outcomes, Ends, Failed, Count
<1>3. ASSUME NEW u \in Uncompaction, DeleteRecord(u) PROVE TInv'
  BY <1>3, CountType DEF DeleteRecord, Written, After
<1>4. ASSUME NEW u \in Uncompaction, DeleteSummary(u) PROVE TInv'
  BY <1>4, CountType, DropType DEF DeleteSummary, After, Chunk
<1>5. ASSUME NEW u \in Uncompaction, RestoredEnqueue(u) PROVE TInv'
  <2>1. tgt[u] \in Compaction
    BY <1>5 DEF RestoredEnqueue
  <2>2. DocOf[tgt[u]] \in Doc
    BY <2>1 DEF Chunk
  <2>3. Reembed(u) \in [Doc -> Nat]
    BY <2>2 DEF Reembed
  <2>4. PICK o \in Outcomes(TRUE) : queued' = Written(o, Reembed(u), queued) /\ Count(o)
    BY <1>5 DEF RestoredEnqueue
  <2>5. queued' \in [Doc -> Nat] /\ faults' \in 0..MaxFaults
    BY <2>3, <2>4, CountType DEF Written
  <2> QED BY <1>5, <2>5 DEF RestoredEnqueue
<1>6. ASSUME NEW c \in Chunk, DeleteChunk(c) PROVE TInv'
  BY <1>6, CountType, DropType DEF DeleteChunk, After
<1>7. ASSUME NEW w \in Worker, NEW r \in ByJob, CompactionClaim(w, r) PROVE TInv'
  BY <1>7 DEF CompactionClaim
<1>8. ASSUME NEW r \in ByJob, CompactionList(r) PROVE TInv'
  <2>1. PICK o \in Outcomes(TRUE) :
          /\ sources' = [sources EXCEPT ![r] = IF o = "ok" THEN Found(r) ELSE {}]
          /\ pc' = [pc EXCEPT ![r] = After(o, IF \E x, y \in Found(r) : x # y THEN "create" ELSE "done", "failed")]
          /\ Count(o)
    BY <1>8 DEF CompactionList
  <2>2. sources' \in [Compaction -> SUBSET Chunk]
    BY <2>1 DEF Found
  <2>3. /\ pc' \in [Compaction -> PC]
        /\ \A q \in Compaction : half[q] # None => pc'[q] = "links"
    BY <1>8, <2>1 DEF CompactionList, After
  <2>4. faults' \in 0..MaxFaults
    BY <2>1 DEF Outcomes, Ends, Failed, Count
  <2> QED BY <1>8, <2>2, <2>3, <2>4 DEF CompactionList
<1>9. ASSUME NEW w \in Worker, CompactionReturn(w) PROVE TInv'
  BY <1>9 DEF CompactionReturn
<1>10. ASSUME NEW w \in Worker, EmbedList(w) PROVE TInv'
  <2>1. PICK d \in Doc :
          /\ Waiting(d)
          /\ queued' = [queued EXCEPT ![d] = @ - 1]
          /\ list' = [list EXCEPT ![w] = NeedsEmbedding(d)]
          /\ rest' = [rest EXCEPT ![w] = NeedsEmbedding(d)]
          /\ epc' = [epc EXCEPT ![w] = IF NeedsEmbedding(d) = {} THEN "idle" ELSE "store"]
    BY <1>10 DEF EmbedList
  <2>2. queued' \in [Doc -> Nat]
    BY <2>1 DEF Waiting
  <2>3. NeedsEmbedding(d) \subseteq Chunk
    BY DEF NeedsEmbedding
  <2> QED BY <1>10, <2>1, <2>2, <2>3 DEF EmbedList
<1>11. ASSUME NEW w \in Worker, EmbedStore(w) PROVE TInv'
  BY <1>11, CountType DEF EmbedStore, Written, After
<1>12. ASSUME NEW w \in Worker, EmbedSet(w) PROVE TInv'
  BY <1>12 DEF EmbedSet, Written, After, Outcomes, Ends, Failed, Count
<1> QED
  BY <1>1, <1>2, <1>3, <1>4, <1>5, <1>6, <1>7, <1>8, <1>9, <1>10, <1>11, <1>12 DEF Uncompacting

\* Every step keeps the types.
LEMMA StepType ==
    ASSUME TInv, [Next]_vars
    PROVE  TInv'
<1> USE CompactionAssumption
<1>1. CASE Client
  BY <1>1, ClientType
<1>2. CASE Handler
  BY <1>2, OtherType DEF Handler
<1>3. ASSUME NEW w \in Worker, Loop(w) PROVE TInv'
  BY <1>3, OtherType DEF Loop
<1>4. CASE UNCHANGED vars
  BY <1>4 DEF TInv, TypeOK, vars, rows, compact, loops, calls
<1>5. ASSUME NEW r \in Compaction, Compacting(r) PROVE TInv'
  BY <1>5, CompactingType
<1> QED BY <1>1, <1>2, <1>3, <1>4, <1>5 DEF Next

LEMMA Typed == Spec => []TInv
<1>1. TInv /\ [Next]_vars => TInv'
  BY StepType
<1> QED BY <1>1, StartsTyped, PTL DEF Spec

\* The types of Compaction's state, for any number of actors and faults.
THEOREM TypeCorrect == Spec => []TypeOK
<1>1. TInv => TypeOK
  BY DEF TInv
<1> QED BY <1>1, Typed, PTL
-----------------------------------------------------------------------------
(* Compacted chunks are replaced.                                          *)

\* A compaction has not created its summary yet.
Early == {"idle", "queued", "list", "create"}

\* The sources of a compaction are chosen among the chunks there are, before its
\* summary exists: "is a source of" has no cycles, so every set of chunks has one
\* that is not a source of any other.
Fresh == \A r \in Compaction : pc[r] \in Early => status[r] = "none"
Named == \A r \in Compaction : \A c \in sources[r] : status[c] # "none"
Layered ==
    \A S \in SUBSET Chunk :
        S # {} => \E c \in S : \A r \in S \intersect Compaction : c \notin sources[r]

\* A compacted chunk is a source of the summary it points to, which exists.
Marked ==
    \A c \in Chunk :
        /\ status[c] = "compacted" <=> by[c] # None
        /\ by[c] # None => Exists(by[c]) /\ c \in sources[by[c]]

SInv == TInv /\ Fresh /\ Named /\ Layered /\ Marked

LEMMA StartsReplaced == Init => SInv
<1> SUFFICES ASSUME Init PROVE SInv
  OBVIOUS
<1>1. TInv
  BY StartsTyped
<1>2. Fresh /\ Named /\ Marked
  BY CompactionAssumption DEF Init, Fresh, Named, Marked, Early, Chunk
<1>3. Layered
  BY DEF Init, Layered
<1> QED BY <1>1, <1>2, <1>3 DEF SInv

\* Steps that leave chunks and sources alone.
LEMMA Elsewhere ==
    ASSUME SInv, TInv', UNCHANGED <<status, by, sources>>,
           \A r \in Compaction : pc'[r] \in Early => pc[r] \in Early
    PROVE  SInv'
<1> USE DEF SInv
<1>1. Fresh'
  BY DEF Fresh
<1>2. Named'
  BY DEF Named
<1>3. Layered'
  BY DEF Layered
<1>4. Marked'
  BY DEF Marked, Exists
<1> QED BY <1>1, <1>2, <1>3, <1>4

\* The choice of sources.
LEMMA Chosen ==
    ASSUME SInv, TInv', NEW r \in Compaction, pc[r] \in Early,
           NEW T \in SUBSET {c \in Chunk : status[c] # "none"},
           sources' = [sources EXCEPT ![r] = T],
           UNCHANGED <<status, by>>,
           \A q \in Compaction : pc'[q] \in Early => pc[q] \in Early
    PROVE  SInv'
<1> USE DEF SInv
<1>0. /\ status[r] = "none"
      /\ \A q \in Compaction : q # r => sources'[q] = sources[q]
      /\ sources'[r] = T
  BY DEF Fresh, TInv, TypeOK
<1>1. Fresh'
  BY DEF Fresh
<1>2. Named'
  BY <1>0 DEF Named
<1>3. Layered'
  <2> SUFFICES ASSUME NEW S \in SUBSET Chunk, S # {}
               PROVE  \E c \in S : \A q \in S \intersect Compaction : c \notin sources'[q]
    BY DEF Layered
  <2>1. CASE r \in S
    BY <1>0, <2>1 DEF Named
  <2>2. CASE r \notin S
    <3>1. PICK c \in S : \A q \in S \intersect Compaction : c \notin sources[q]
      BY DEF Layered
    <3> QED BY <1>0, <2>2, <3>1
  <2> QED BY <2>1, <2>2
<1>4. Marked'
  BY <1>0, CompactionAssumption DEF Marked, Exists, Chunk, TInv, TypeOK
<1> QED BY <1>1, <1>2, <1>3, <1>4

\* A chunk is deleted: nothing is compacted into it.
LEMMA Dropped ==
    ASSUME SInv, TInv', NEW c \in Chunk, NEW o \in Outcomes(CanDrop(c)), Drop(o, c),
           UNCHANGED <<pc, sources>>
    PROVE  SInv'
<1>1. CASE o \in {"ok", "lost"}
  <2>1. CanDrop(c)
    BY <1>1, OutcomeFact
  <2>2. /\ status' = [status EXCEPT ![c] = "gone"]
        /\ by' = [by EXCEPT ![c] = None]
    BY <1>1 DEF Drop, Written
  <2>3. Fresh'
    BY <2>1, <2>2 DEF SInv, Fresh, CanDrop, Exists, TInv, TypeOK
  <2>4. Named'
    BY <2>2 DEF SInv, Named, TInv, TypeOK
  <2>5. Layered'
    BY DEF SInv, Layered
  <2>6. Marked'
    <3> SUFFICES ASSUME NEW x \in Chunk
                 PROVE  /\ status'[x] = "compacted" <=> by'[x] # None
                        /\ by'[x] # None => Exists(by[x])' /\ x \in sources[by'[x]]
      BY DEF Marked, Exists
    <3>1. CASE x = c
      BY <2>2, <3>1 DEF SInv, TInv, TypeOK
    <3>2. CASE x # c
      <4>1. by'[x] = by[x] /\ status'[x] = status[x]
        BY <2>2, <3>2 DEF SInv, TInv, TypeOK
      <4>2. by[x] # None => by[x] # c /\ status'[by[x]] = status[by[x]]
        BY <2>1, <2>2 DEF CanDrop, SInv, TInv, TypeOK
      <4> QED BY <4>1, <4>2 DEF SInv, Marked, Exists
    <3> QED BY <3>1, <3>2
  <2> QED BY <2>3, <2>4, <2>5, <2>6 DEF SInv
<1>2. CASE o \notin {"ok", "lost"}
  BY <1>2, Elsewhere DEF Drop, Written
<1> QED BY <1>1, <1>2

\* The steps of a compaction.
LEMMA CompactingReplaces ==
    ASSUME SInv, TInv', NEW r \in Compaction, Compacting(r)
    PROVE  SInv'
<1> USE DEF Early, After
<1>0. pc \in [Compaction -> PC] /\ r \in Chunk
  BY DEF SInv, TInv, TypeOK, Chunk
<1>1. CASE SummaryCreate(r)
  <2>1. PICK o \in Outcomes(TRUE) :
          /\ status' = Written(o, [status EXCEPT ![r] = "active"], status)
          /\ pc' = [pc EXCEPT ![r] = After(o, AfterCreate(r), "failed")]
    BY <1>1 DEF SummaryCreate
  <2>2. CASE o \in {"ok", "lost"}
    <3>1. /\ status' = [status EXCEPT ![r] = "active"]
          /\ status[r] = "none" /\ by[r] = None
          /\ UNCHANGED <<by, sources>>
      BY <1>0, <1>1, <2>1, <2>2 DEF SummaryCreate, Written, SInv, Fresh, Marked
    <3>2. Fresh'
      <4>1. \A q \in Compaction : pc'[q] \in Early => q # r /\ pc[q] \in Early
        BY <1>0, <2>1 DEF AfterCreate
      <4>2. \A q \in Compaction : q # r => status'[q] = status[q]
        BY <3>1 DEF SInv, TInv, TypeOK, Chunk
      <4> QED BY <4>1, <4>2 DEF SInv, Fresh
    <3>3. Named'
      BY <3>1 DEF SInv, Named, TInv, TypeOK
    <3>4. Layered'
      BY <3>1 DEF SInv, Layered
    <3>5. Marked'
      <4> SUFFICES ASSUME NEW x \in Chunk
                   PROVE  /\ status'[x] = "compacted" <=> by'[x] # None
                          /\ by'[x] # None => Exists(by[x])' /\ x \in sources'[by'[x]]
        BY DEF Marked, Exists
      <4>1. by'[x] = by[x] /\ (x # r => status'[x] = status[x]) /\ status'[r] = "active"
        BY <1>0, <3>1 DEF SInv, TInv, TypeOK
      <4>2. by[x] # None => by[x] # r /\ status'[by[x]] = status[by[x]]
        BY <3>1 DEF SInv, Marked, Exists, TInv, TypeOK
      <4> QED BY <3>1, <4>1, <4>2 DEF SInv, Marked, Exists
    <3> QED BY <3>2, <3>3, <3>4, <3>5 DEF SInv
  <2>3. CASE o \notin {"ok", "lost"}
    BY <1>0, <1>1, <2>1, <2>3, Elsewhere DEF SummaryCreate, Written
  <2> QED BY <2>2, <2>3
<1>2. CASE SummaryStore(r)
  BY <1>0, <1>2, Elsewhere DEF SummaryStore
<1>3. CASE SummarySet(r)
  BY <1>0, <1>3, Elsewhere DEF SummarySet
<1>4. CASE SummaryEnqueue(r)
  BY <1>0, <1>4, Elsewhere DEF SummaryEnqueue
<1>5. CASE TransferOut(r)
  BY <1>0, <1>5, Elsewhere DEF TransferOut
<1>6. CASE TransferIn(r)
  BY <1>0, <1>6, Elsewhere DEF TransferIn
<1>7. CASE DeleteSourceVectors(r)
  BY <1>0, <1>7, Elsewhere DEF DeleteSourceVectors
<1>8. CASE MarkCompacted(r)
  <2>1. PICK o \in Outcomes(StillActive(r) # {} /\ Exists(r)) :
          /\ status' = Written(o, [c \in Chunk |-> IF c \in StillActive(r) THEN "compacted" ELSE status[c]], status)
          /\ by' = Written(o, [c \in Chunk |-> IF c \in StillActive(r) THEN r ELSE by[c]], by)
          /\ pc' = [pc EXCEPT ![r] = After(o, "record", "failed")]
    BY <1>8 DEF MarkCompacted
  <2>2. CASE o \in {"ok", "lost"}
    <3>1. /\ Exists(r)
          /\ status' = [c \in Chunk |-> IF c \in StillActive(r) THEN "compacted" ELSE status[c]]
          /\ by' = [c \in Chunk |-> IF c \in StillActive(r) THEN r ELSE by[c]]
          /\ sources' = sources
      BY <1>8, <2>1, <2>2, OutcomeFact DEF MarkCompacted, Written
    <3>2. Fresh'
      <4>1. \A q \in Compaction : pc'[q] \in Early => pc[q] \in Early
        BY <1>0, <2>1
      <4>2. \A q \in Compaction : status[q] = "none" => status'[q] = "none"
        BY <3>1 DEF StillActive, Chunk
      <4> QED BY <4>1, <4>2 DEF SInv, Fresh
    <3>3. Named'
      BY <3>1 DEF SInv, Named, TInv, TypeOK, StillActive
    <3>4. Layered'
      BY <3>1 DEF SInv, Layered
    <3>5. \A x \in Chunk : Exists(x) => Exists(x)'
      BY <3>1 DEF Exists
    <3>6. Marked'
      BY <1>0, <3>1, <3>5, CompactionAssumption DEF SInv, Marked, Exists, StillActive, TInv, TypeOK, Chunk
    <3> QED BY <3>2, <3>3, <3>4, <3>6 DEF SInv
  <2>3. CASE o \notin {"ok", "lost"}
    BY <1>0, <1>8, <2>1, <2>3, Elsewhere DEF MarkCompacted, Written
  <2> QED BY <2>2, <2>3
<1>9. CASE CreateRecord(r)
  BY <1>0, <1>9, Elsewhere DEF CreateRecord
<1> QED BY <1>1, <1>2, <1>3, <1>4, <1>5, <1>6, <1>7, <1>8, <1>9 DEF Compacting

\* The steps of Uncompact.
LEMMA UncompactingReplaces ==
    ASSUME SInv, TInv', NEW u \in Uncompaction, Uncompacting(u)
    PROVE  SInv'
<1> USE DEF compact
<1>1. CASE Restore(u)
  <2>1. PICK o \in Outcomes(TRUE) :
          /\ status' = Written(o, [c \in Chunk |-> IF c \in Restored(u) THEN "active" ELSE status[c]], status)
          /\ by' = Written(o, [c \in Chunk |-> IF c \in Restored(u) THEN None ELSE by[c]], by)
    BY <1>1 DEF Restore
  <2>2. CASE o \in {"ok", "lost"}
    <3>1. /\ tgt[u] \in Compaction /\ tgt[u] # None
          /\ status' = [c \in Chunk |-> IF by[c] = tgt[u] THEN "active" ELSE status[c]]
          /\ by' = [c \in Chunk |-> IF by[c] = tgt[u] THEN None ELSE by[c]]
          /\ UNCHANGED <<pc, sources>>
      <4>1. \A c \in Chunk : c \in Restored(u) <=> by[c] = tgt[u]
        BY DEF Restored
      <4>2. /\ status' = [c \in Chunk |-> IF c \in Restored(u) THEN "active" ELSE status[c]]
            /\ by' = [c \in Chunk |-> IF c \in Restored(u) THEN None ELSE by[c]]
        BY <2>1, <2>2 DEF Written
      <4>3. tgt[u] \in Compaction /\ tgt[u] # None
        BY <1>1 DEF Restore, SInv, TInv, TypeOK
      <4> QED BY <1>1, <4>1, <4>2, <4>3 DEF Restore
    <3>2. Fresh'
      BY <3>1 DEF SInv, Fresh, Marked, TInv, TypeOK, Chunk
    <3>3. Named'
      BY <3>1 DEF SInv, Named, TInv, TypeOK
    <3>4. Layered'
      BY <3>1 DEF SInv, Layered
    <3>5. \A x \in Chunk : Exists(x) => Exists(x)'
      BY <3>1 DEF Exists
    <3>6. Marked'
      BY <3>1, <3>5, CompactionAssumption DEF SInv, Marked, TInv, TypeOK, Chunk
    <3> QED BY <3>2, <3>3, <3>4, <3>6 DEF SInv
  <2>3. CASE o \notin {"ok", "lost"}
    BY <1>1, <2>1, <2>3, Elsewhere DEF Restore, Written
  <2> QED BY <2>2, <2>3
<1>2. CASE DeleteSummaryVector(u)
  BY <1>2, Elsewhere DEF DeleteSummaryVector
<1>3. CASE DeleteRecord(u)
  BY <1>3, Elsewhere DEF DeleteRecord
<1>4. CASE DeleteSummary(u)
  <2>1. tgt[u] \in Chunk
    BY <1>4 DEF DeleteSummary, SInv, TInv, TypeOK, Chunk
  <2> QED BY <1>4, <2>1, Dropped DEF DeleteSummary
<1>5. CASE RestoredEnqueue(u)
  BY <1>5, Elsewhere DEF RestoredEnqueue
<1> QED BY <1>1, <1>2, <1>3, <1>4, <1>5 DEF Uncompacting

\* Every step.
LEMMA StepReplaces ==
    ASSUME SInv, [Next]_vars
    PROVE  SInv'
<1>0. TInv'
  BY StepType DEF SInv
<1>a. pc \in [Compaction -> PC]
  BY DEF SInv, TInv, TypeOK
<1> USE <1>0
<1>1. ASSUME NEW r \in Compaction, CompactStart(r) PROVE SInv'
  <2>1. PICK T \in SUBSET {c \in Chunk : status[c] # "none"} : sources' = [sources EXCEPT ![r] = T]
    BY <1>1 DEF CompactStart
  <2>2. pc[r] = "idle" /\ pc' = [pc EXCEPT ![r] = "create"]
    BY <1>1 DEF CompactStart
  <2>3. UNCHANGED <<status, by>>
    BY <1>1 DEF CompactStart, rows
  <2> QED BY <1>a, <2>1, <2>2, <2>3, Chosen DEF Early
<1>2. ASSUME NEW r \in Compaction, RequestCompaction(r) PROVE SInv'
  <2>1. PICK T \in SUBSET {c \in Chunk : status[c] # "none"} : sources' = [sources EXCEPT ![r] = T]
    BY <1>2 DEF RequestCompaction
  <2>2. pc[r] = "idle" /\ pc' = [pc EXCEPT ![r] = "queued"]
    BY <1>2 DEF RequestCompaction
  <2>3. UNCHANGED <<status, by>>
    BY <1>2 DEF RequestCompaction, rows
  <2> QED BY <1>a, <2>1, <2>2, <2>3, Chosen DEF Early
<1>3. ASSUME NEW r \in ByJob, CompactionList(r) PROVE SInv'
  <2>1. PICK o \in Outcomes(TRUE) :
          /\ sources' = [sources EXCEPT ![r] = IF o = "ok" THEN Found(r) ELSE {}]
          /\ pc' = [pc EXCEPT ![r] = After(o, IF \E x, y \in Found(r) : x # y THEN "create" ELSE "done", "failed")]
    BY <1>3 DEF CompactionList
  <2>2. pc[r] = "list" /\ UNCHANGED <<status, by>> /\ r \in Compaction
    BY <1>3, CompactionAssumption DEF CompactionList, rows
  <2>3. (IF o = "ok" THEN Found(r) ELSE {}) \in SUBSET {c \in Chunk : status[c] # "none"}
    BY DEF Found
  <2>4. \A q \in Compaction : pc'[q] \in Early => pc[q] \in Early
    BY <1>a, <2>1, <2>2 DEF Early
  <2> QED BY <2>1, <2>2, <2>3, <2>4, Chosen DEF Early
<1>4. ASSUME NEW w \in Worker, NEW r \in ByJob, CompactionClaim(w, r) PROVE SInv'
  BY <1>a, <1>4, Elsewhere DEF CompactionClaim, rows, Early
<1>5. ASSUME NEW r \in Compaction, Compacting(r) PROVE SInv'
  BY <1>5, CompactingReplaces
<1>6. ASSUME NEW u \in Uncompaction, Uncompacting(u) PROVE SInv'
  BY <1>6, UncompactingReplaces
<1>7. ASSUME NEW c \in Chunk, DeleteChunk(c) PROVE SInv'
  BY <1>7, Dropped DEF DeleteChunk, compact
<1>8. ASSUME NEW w \in Worker, CompactionReturn(w) \/ EmbedList(w) \/ EmbedStore(w) \/ EmbedSet(w) PROVE SInv'
  BY <1>8, Elsewhere DEF CompactionReturn, EmbedList, EmbedStore, EmbedSet, rows, compact
<1>9. CASE \/ \E u \in Uncompaction : UncompactStart(u)
           \/ \E l \in Link : CreateLink(l)
           \/ \E c \in Chunk : DeleteVector(c)
  BY <1>9, Elsewhere DEF UncompactStart, CreateLink, DeleteVector, rows, compact
<1>10. CASE UNCHANGED vars
  BY <1>10, Elsewhere DEF vars, rows, compact
<1> QED
  BY <1>1, <1>2, <1>3, <1>4, <1>5, <1>6, <1>7, <1>8, <1>9, <1>10, CompactionAssumption
     DEF Next, Client, Handler, Loop

LEMMA AlwaysReplaced == Spec => []SInv
<1>1. SInv /\ [Next]_vars => SInv'
  BY StepReplaces
<1> QED BY <1>1, StartsReplaced, PTL DEF Spec

\* Following compacted_by from a compacted chunk ends at an active chunk, for any
\* number of overlapping compactions, restorations and deletions.
THEOREM Replaced == Spec => []CompactedIsReplaced
<1>1. SInv => CompactedIsReplaced
  <2> SUFFICES ASSUME SInv PROVE CompactedIsReplaced
    OBVIOUS
  <2> DEFINE compacted == {c \in Chunk : status[c] = "compacted"}
  <2>1. \A c \in compacted : by[c] # None /\ Exists(by[c])
    BY DEF SInv, Marked
  <2>2. ASSUME NEW S \in SUBSET compacted, S # {}
        PROVE  \E c \in S : by[c] \notin S
    <3>1. PICK c \in S : \A r \in S \intersect Compaction : c \notin sources[r]
      BY <2>2 DEF SInv, Layered
    <3>2. c \in sources[by[c]] /\ by[c] \in Compaction
      BY <2>1 DEF SInv, Marked, TInv, TypeOK
    <3> QED BY <3>1, <3>2
  <2> QED BY <2>1, <2>2 DEF CompactedIsReplaced
<1> QED BY <1>1, AlwaysReplaced, PTL
-----------------------------------------------------------------------------
(* Content stays in the index.                                             *)

\* The summary of a compaction has been created, and it is in the index or left
\* to an embedding job.
Late == {"set", "enqueue", "links", "vectors", "mark", "record"}

Created == \A r \in Compaction : pc[r] \in Late \union {"store"} => status[r] # "none"

\* A set of chunks that have all been in the index, or wait for it, and that has
\* the sources of running compactions and what compacted chunks point to.  One
\* that is not there any more is a source of another.
KeptBy(K) ==
    /\ Embedded \subseteq K
    /\ \A r \in Compaction : pc[r] \in Late => r \in K
    /\ \A c \in Chunk : by[c] # None => by[c] \in K
    /\ \A c \in K \ Later :
          Indexed(c) \/ \E r \in K \intersect Compaction : Exists(r) /\ c \in sources[r]

Kept == \E K \in SUBSET Chunk : KeptBy(K)

CInv == SInv /\ Created /\ (Undisturbed => Kept)

LEMMA StartsKept == Init => CInv
<1> SUFFICES ASSUME Init PROVE CInv
  OBVIOUS
<1>1. Created
  BY DEF Init, Created, Late
<1>2. KeptBy(Embedded)
  BY CompactionAssumption DEF Init, KeptBy, Late, Indexed, Chunk
<1>3. Embedded \in SUBSET Chunk
  BY CompactionAssumption DEF Chunk
<1> QED BY <1>1, <1>2, <1>3, StartsReplaced DEF CInv, Kept

\* What the steps of a compaction leave alone.
LEMMA CompactingFrame ==
    ASSUME TInv, NEW r \in Compaction, Compacting(r)
    PROVE  /\ UNCHANGED <<loops, calls, made, sources>>
           /\ UNCHANGED <<status, by>> \/ SummaryCreate(r) \/ MarkCompacted(r)
           /\ \A q \in Compaction : q # r => pc'[q] = pc[q]
           /\ pc'[r] \in Late \union {"store"} => pc[r] \in Late \union {"store"} \/ SummaryCreate(r)
<1> USE DEF TInv, TypeOK, PC, Late, After
<1>1. CASE SummaryCreate(r)
  BY <1>1 DEF SummaryCreate
<1>2. CASE SummaryStore(r)
  BY <1>2 DEF SummaryStore
<1>3. CASE SummarySet(r)
  BY <1>3 DEF SummarySet
<1>4. CASE SummaryEnqueue(r)
  BY <1>4 DEF SummaryEnqueue
<1>5. CASE TransferOut(r)
  BY <1>5 DEF TransferOut
<1>6. CASE TransferIn(r)
  BY <1>6 DEF TransferIn
<1>7. CASE DeleteSourceVectors(r)
  BY <1>7 DEF DeleteSourceVectors
<1>8. CASE MarkCompacted(r)
  BY <1>8 DEF MarkCompacted
<1>9. CASE CreateRecord(r)
  BY <1>9 DEF CreateRecord
<1> QED BY <1>1, <1>2, <1>3, <1>4, <1>5, <1>6, <1>7, <1>8, <1>9 DEF Compacting

\* What the steps of Uncompact leave alone.
LEMMA UncompactingFrame ==
    ASSUME TInv, NEW u \in Uncompaction, Uncompacting(u)
    PROVE  /\ UNCHANGED <<compact, loops, tgt, del, made>>
           /\ un[u] # "idle" /\ un'[u] # "idle"
           /\ \A c \in Chunk : status[c] # "none" => status'[c] # "none"
<1> USE DEF TInv, TypeOK, After, Written
<1>1. CASE Restore(u)
  BY <1>1 DEF Restore
<1>2. CASE DeleteSummaryVector(u)
  BY <1>2 DEF DeleteSummaryVector
<1>3. CASE DeleteRecord(u)
  BY <1>3 DEF DeleteRecord
<1>4. CASE DeleteSummary(u)
  BY <1>4 DEF DeleteSummary, Drop
<1>5. CASE RestoredEnqueue(u)
  BY <1>5 DEF RestoredEnqueue
<1> QED BY <1>1, <1>2, <1>3, <1>4, <1>5 DEF Uncompacting

\* All other steps but deletions leave the rows of chunks alone.
Bystander ==
    \/ \E r \in Compaction : CompactStart(r) \/ RequestCompaction(r)
    \/ \E u \in Uncompaction : UncompactStart(u)
    \/ \E l \in Link : CreateLink(l)
    \/ \E c \in Chunk : DeleteVector(c)
    \/ \E w \in Worker, r \in ByJob : CompactionClaim(w, r) \/ CompactionList(r)
    \/ \E w \in Worker : CompactionReturn(w) \/ EmbedList(w) \/ EmbedStore(w) \/ EmbedSet(w)
    \/ UNCHANGED vars

LEMMA BystanderFrame ==
    ASSUME TInv, Bystander
    PROVE  /\ UNCHANGED <<status, by>>
           /\ \A r \in Compaction :
                 pc'[r] \in Late \union {"store"} => pc[r] \in Late \union {"store"}
<1> USE CompactionAssumption DEF TInv, TypeOK, PC, Late, rows, compact, After
<1>1. ASSUME NEW r \in Compaction, CompactStart(r) \/ RequestCompaction(r)
      PROVE  /\ UNCHANGED <<status, by>>
             /\ \A q \in Compaction : pc'[q] \in Late \union {"store"} => pc[q] \in Late \union {"store"}
  BY <1>1 DEF CompactStart, RequestCompaction
<1>2. ASSUME NEW w \in Worker, NEW r \in ByJob, CompactionClaim(w, r) \/ CompactionList(r)
      PROVE  /\ UNCHANGED <<status, by>>
             /\ \A q \in Compaction : pc'[q] \in Late \union {"store"} => pc[q] \in Late \union {"store"}
  <2>1. CASE CompactionClaim(w, r)
    BY <2>1 DEF CompactionClaim
  <2>2. CASE CompactionList(r)
    <3>1. \E p \in PC : pc' = [pc EXCEPT ![r] = p] /\ p \notin Late \union {"store"}
      BY <2>2 DEF CompactionList
    <3> QED BY <2>2, <3>1 DEF CompactionList
  <2> QED BY <1>2, <2>1, <2>2
<1>3. CASE \/ \E u \in Uncompaction : UncompactStart(u)
           \/ \E l \in Link : CreateLink(l)
           \/ \E c \in Chunk : DeleteVector(c)
           \/ UNCHANGED vars
  BY <1>3 DEF UncompactStart, CreateLink, DeleteVector, vars
<1>4. CASE \E w \in Worker : CompactionReturn(w) \/ EmbedList(w) \/ EmbedStore(w) \/ EmbedSet(w)
  BY <1>4 DEF CompactionReturn, EmbedList, EmbedStore, EmbedSet
<1> QED BY <1>1, <1>2, <1>3, <1>4 DEF Bystander

\* The kinds of steps.
LEMMA StepKinds ==
    ASSUME [Next]_vars
    PROVE  \/ \E r \in Compaction : Compacting(r)
           \/ \E u \in Uncompaction : Uncompacting(u)
           \/ \E c \in Chunk : DeleteChunk(c)
           \/ Bystander
  BY CompactionAssumption DEF Next, Client, Handler, Loop, Bystander

LEMMA StepCreated ==
    ASSUME SInv, Created, [Next]_vars
    PROVE  Created'
<1> USE DEF SInv
<1>1. ASSUME NEW r \in Compaction, Compacting(r) PROVE Created'
  <2>1. CASE SummaryCreate(r)
    <3>1. PICK o \in Outcomes(TRUE) :
            /\ status' = Written(o, [status EXCEPT ![r] = "active"], status)
            /\ pc' = [pc EXCEPT ![r] = After(o, AfterCreate(r), "failed")]
      BY <2>1 DEF SummaryCreate
    <3>2. pc'[r] \in Late \union {"store"} => status'[r] = "active"
      <4>1. CASE o \in {"ok", "lost"}
        BY <3>1, <4>1 DEF Written, TInv, TypeOK, Chunk
      <4>2. CASE o \notin {"ok", "lost"}
        BY <3>1, <4>2 DEF After, Late, TInv, TypeOK
      <4> QED BY <4>1, <4>2
    <3>3. \A q \in Compaction : q # r => pc'[q] = pc[q] /\ status'[q] = status[q]
      <4>1. status' = status \/ status' = [status EXCEPT ![r] = "active"]
        BY <3>1 DEF Written
      <4> QED BY <3>1, <4>1 DEF TInv, TypeOK, Chunk
    <3> QED BY <3>2, <3>3 DEF Created
  <2>2. CASE MarkCompacted(r)
    BY <1>1, <2>2, CompactingFrame DEF Created, MarkCompacted, Written, StillActive, TInv, TypeOK, Late, Chunk
  <2>3. CASE UNCHANGED <<status, by>>
    <3>1. CASE SummaryCreate(r)
      BY <2>1, <3>1
    <3>2. CASE ~SummaryCreate(r)
      BY <1>1, <2>3, <3>2, CompactingFrame DEF Created
    <3> QED BY <3>1, <3>2
  <2> QED BY <1>1, <2>1, <2>2, <2>3, CompactingFrame
<1>2. ASSUME NEW u \in Uncompaction, Uncompacting(u) PROVE Created'
  BY <1>2, UncompactingFrame DEF Created, compact, Chunk
<1>3. ASSUME NEW c \in Chunk, DeleteChunk(c) PROVE Created'
  BY <1>3 DEF DeleteChunk, Drop, Written, compact, Created, TInv, TypeOK, Chunk
<1>4. CASE Bystander
  BY <1>4, BystanderFrame DEF Created
<1> QED BY <1>1, <1>2, <1>3, <1>4, StepKinds

\* Restorations and deletions leave a trace.
LEMMA Disturbs ==
    ASSUME SInv, [Next]_vars, Undisturbed'
    PROVE  /\ Undisturbed
           /\ ~ \E u \in Uncompaction : Uncompacting(u) \/ UncompactStart(u)
           /\ ~ \E c \in Chunk : DeleteChunk(c) \/ DeleteVector(c)
<1> USE DEF SInv
<1>1. ASSUME NEW r \in Compaction, Compacting(r) PROVE Undisturbed
  <2>1. UNCHANGED <<un, del>>
    BY <1>1, CompactingFrame DEF calls
  <2>2. ASSUME NEW c \in Chunk, status[c] = "gone" PROVE status'[c] = "gone"
    <3>1. CASE SummaryCreate(r)
      BY <2>2, <3>1 DEF SummaryCreate, Written, Fresh, Early, TInv, TypeOK
    <3>2. CASE MarkCompacted(r)
      BY <2>2, <3>2 DEF MarkCompacted, StillActive, Written
    <3> QED BY <1>1, <2>2, <3>1, <3>2, CompactingFrame
  <2> QED BY <2>1, <2>2 DEF Undisturbed
<1>2. ASSUME NEW u \in Uncompaction, Uncompacting(u) PROVE FALSE
  BY <1>2, UncompactingFrame DEF Undisturbed
<1>3. ASSUME NEW u \in Uncompaction, UncompactStart(u) PROVE FALSE
  BY <1>3 DEF Undisturbed, UncompactStart, TInv, TypeOK
<1>4. ASSUME NEW c \in Chunk, DeleteChunk(c) PROVE FALSE
  BY <1>4 DEF Undisturbed, DeleteChunk, Drop, Written, After, TInv, TypeOK
<1>5. ASSUME NEW c \in Chunk, DeleteVector(c) PROVE FALSE
  BY <1>5 DEF Undisturbed, DeleteVector, After, TInv, TypeOK
<1>6. ASSUME Bystander PROVE Undisturbed
  <2>1. CASE \/ \E r \in Compaction : CompactStart(r) \/ RequestCompaction(r)
             \/ \E l \in Link : CreateLink(l)
             \/ UNCHANGED vars
    <3>1. UNCHANGED <<un, del, status>>
      BY <2>1 DEF CompactStart, RequestCompaction, CreateLink, calls, rows, vars
    <3> QED BY <3>1 DEF Undisturbed
  <2>2. CASE \E w \in Worker, r \in ByJob : CompactionClaim(w, r) \/ CompactionList(r)
    <3>1. UNCHANGED <<un, del, status>>
      BY <2>2 DEF CompactionClaim, CompactionList, calls, rows
    <3> QED BY <3>1 DEF Undisturbed
  <2>3. CASE \E w \in Worker : CompactionReturn(w) \/ EmbedList(w) \/ EmbedStore(w) \/ EmbedSet(w)
    <3>1. UNCHANGED <<un, del, status>>
      BY <2>3 DEF CompactionReturn, EmbedList, EmbedStore, EmbedSet, calls, rows
    <3> QED BY <3>1 DEF Undisturbed
  <2> QED BY <1>3, <1>5, <1>6, <2>1, <2>2, <2>3 DEF Bystander
<1> QED BY <1>1, <1>2, <1>3, <1>4, <1>5, <1>6, StepKinds

\* Nothing that happens while chunks are neither restored nor deleted takes
\* content out of the index: each step keeps the set, or adds the summary that
\* is indexed or left to a job by it.
LEMMA StepKept ==
    ASSUME CInv, SInv', [Next]_vars, Undisturbed, Undisturbed', Kept
    PROVE  Kept'
<1> PICK K \in SUBSET Chunk : KeptBy(K)
  BY DEF Kept
<1> USE DEF CInv
<1>a. \A c \in Chunk : status[c] # "gone"
  BY DEF Undisturbed
<1>b. ~ \E u \in Uncompaction : Uncompacting(u) \/ UncompactStart(u)
  BY Disturbs
<1>c. ~ \E c \in Chunk : DeleteChunk(c) \/ DeleteVector(c)
  BY Disturbs
<1>d. \A r \in Compaction : r \in Chunk
  BY DEF Chunk
\* A step that takes nothing away from K.
<1>e. ASSUME NEW A \in SUBSET Chunk,
             \A r \in Compaction : pc'[r] \in Late => r \in K \union A,
             \A c \in Chunk : by'[c] # None => by'[c] \in K \union A,
             \A r \in Compaction : Exists(r) => Exists(r)' /\ sources'[r] = sources[r],
             \A c \in K \ Later :
                Indexed(c) => Indexed(c)' \/ \E r \in K \intersect Compaction : Exists(r)' /\ c \in sources'[r],
             \A c \in A \ Later :
                Indexed(c)' \/ \E r \in K \intersect Compaction : Exists(r)' /\ c \in sources'[r]
      PROVE  Kept'
  <2>1. KeptBy(K \union A)'
    BY <1>e DEF KeptBy
  <2> QED BY <2>1 DEF Kept
<1>g. ASSUME \A r \in Compaction : pc'[r] \in Late => r \in K,
             \A c \in Chunk : by'[c] # None => by'[c] \in K,
             \A r \in Compaction : Exists(r) => Exists(r)' /\ sources'[r] = sources[r],
             \A c \in K \ Later :
                Indexed(c) => Indexed(c)' \/ \E r \in K \intersect Compaction : Exists(r)' /\ c \in sources'[r]
      PROVE  Kept'
  <2>1. KeptBy(K)'
    BY <1>g DEF KeptBy
  <2> QED BY <2>1 DEF Kept
\* A step that leaves chunks and what compaction has reached alone.
<1>f. ASSUME UNCHANGED <<status, by>>, vec \subseteq vec',
             \A r \in Compaction : pc'[r] \in Late => pc[r] \in Late,
             \A r \in Compaction : Exists(r) => sources'[r] = sources[r]
      PROVE  Kept'
  <2>1. \A r \in Compaction : pc'[r] \in Late => r \in K
    BY <1>f DEF KeptBy
  <2>2. \A c \in Chunk : by'[c] # None => by'[c] \in K
    BY <1>f DEF KeptBy
  <2>3. \A r \in Compaction : Exists(r) => Exists(r)' /\ sources'[r] = sources[r]
    BY <1>f DEF Exists
  <2>4. \A c \in K \ Later : Indexed(c) => Indexed(c)'
    BY <1>f DEF Indexed
  <2> QED BY <1>g, <2>1, <2>2, <2>3, <2>4
<1>1. ASSUME NEW r \in Compaction, SummaryCreate(r) PROVE Kept'
  <2>1. PICK o \in Outcomes(TRUE) :
          /\ status' = Written(o, [status EXCEPT ![r] = "active"], status)
          /\ pc' = [pc EXCEPT ![r] = After(o, AfterCreate(r), "failed")]
    BY <1>1 DEF SummaryCreate
  <2>2. /\ status' = status \/ status' = [status EXCEPT ![r] = "active"]
        /\ UNCHANGED <<by, vec, sources>>
        /\ status[r] = "none"
    BY <1>1, <2>1 DEF SummaryCreate, Written, SInv, Fresh, Early
  <2>3. \A c \in Chunk : Exists(c) => status'[c] = status[c]
    BY <1>d, <2>2 DEF Exists, SInv, TInv, TypeOK
  <2>4. pc'[r] \in Late => r \in Later
    BY <2>1 DEF After, AfterCreate, Late, Later, SInv, TInv, TypeOK
  <2>5. \A q \in Compaction : q # r => pc'[q] = pc[q]
    BY <2>1 DEF SInv, TInv, TypeOK
  <2>6. \A c \in Chunk : Indexed(c) => Indexed(c)'
    BY <2>2, <2>3 DEF Indexed, Exists
  <2>7. \A q \in Compaction : Exists(q) => Exists(q)' /\ sources'[q] = sources[q]
    BY <1>d, <2>2, <2>3 DEF Exists
  <2> DEFINE A == {r} \intersect Later
  <2>8. /\ A \in SUBSET Chunk
        /\ \A q \in Compaction : pc'[q] \in Late => q \in K \union A
        /\ \A c \in Chunk : by'[c] # None => by'[c] \in K \union A
        /\ A \ Later = {}
    BY <1>d, <2>2, <2>4, <2>5 DEF KeptBy
  <2> HIDE DEF A
  <2> QED BY <1>e, <2>6, <2>7, <2>8
<1>2. ASSUME NEW r \in Compaction, SummaryStore(r) PROVE Kept'
  <2>1. /\ status[r] \in {"active", "compacted"}
        /\ pc[r] = "store"
    BY <1>2, <1>a, <1>d DEF SummaryStore, Created, Late, SInv, TInv, TypeOK
  <2>2. PICK o \in Outcomes(Exists(r)) :
          /\ vec' = Written(o, vec \union {r}, vec)
          /\ pc' = [pc EXCEPT ![r] = After(o, "set", "failed")]
    BY <1>2 DEF SummaryStore
  <2>3. UNCHANGED <<status, by, sources>>
    BY <1>2 DEF SummaryStore
  <2>4. vec \subseteq vec' /\ (pc'[r] \in Late => r \in vec')
    BY <2>2 DEF Written, After, Late, SInv, TInv, TypeOK
  <2>5. \A q \in Compaction : q # r => pc'[q] = pc[q]
    BY <2>2 DEF SInv, TInv, TypeOK
  <2>6. \A c \in Chunk : Indexed(c) => Indexed(c)'
    BY <2>3, <2>4 DEF Indexed
  <2>7. \A q \in Compaction : Exists(q) => Exists(q)' /\ sources'[q] = sources[q]
    BY <2>3 DEF Exists
  <2>8. ASSUME pc'[r] \in Late
        PROVE  Indexed(r)' \/ \E q \in K \intersect Compaction : Exists(q)' /\ r \in sources'[q]
    <3>1. CASE status[r] = "active"
      BY <2>3, <2>4, <2>8, <3>1 DEF Indexed
    <3>2. CASE status[r] = "compacted"
      <4>1. by[r] \in Compaction /\ Exists(by[r]) /\ r \in sources[by[r]]
        BY <1>d, <3>2 DEF SInv, Marked, TInv, TypeOK
      <4>2. by[r] \in K
        BY <1>d, <3>2 DEF SInv, Marked, KeptBy
      <4> QED BY <2>7, <4>1, <4>2
    <3> QED BY <2>1, <3>1, <3>2
  <2> DEFINE A == IF pc'[r] \in Late THEN {r} ELSE {}
  <2>9. /\ A \in SUBSET Chunk
        /\ \A q \in Compaction : pc'[q] \in Late => q \in K \union A
        /\ \A c \in Chunk : by'[c] # None => by'[c] \in K \union A
    BY <1>d, <2>3, <2>5 DEF KeptBy
  <2>10. \A c \in A : Indexed(c)' \/ \E q \in K \intersect Compaction : Exists(q)' /\ c \in sources'[q]
    BY <2>8
  <2> HIDE DEF A
  <2> QED BY <1>e, <2>6, <2>7, <2>9, <2>10
<1>3. ASSUME NEW r \in Compaction,
             SummarySet(r) \/ SummaryEnqueue(r) \/ TransferOut(r) \/ TransferIn(r) \/ CreateRecord(r)
      PROVE  Kept'
  <2>1. UNCHANGED <<status, by, sources, vec>>
    BY <1>3 DEF SummarySet, SummaryEnqueue, TransferOut, TransferIn, CreateRecord
  <2>2. pc[r] \in Late /\ \E p \in PC : pc' = [pc EXCEPT ![r] = p]
    BY <1>3 DEF SummarySet, SummaryEnqueue, TransferOut, TransferIn, CreateRecord, Late, PC, After
  <2>3. \A q \in Compaction : pc'[q] \in Late => pc[q] \in Late
    BY <2>2 DEF SInv, TInv, TypeOK
  <2> QED BY <1>f, <2>1, <2>3
<1>4. ASSUME NEW r \in Compaction, DeleteSourceVectors(r) PROVE Kept'
  <2>1. /\ UNCHANGED <<status, by, sources>>
        /\ vec \ sources[r] \subseteq vec'
        /\ pc[r] = "vectors" /\ \E p \in PC : pc' = [pc EXCEPT ![r] = p]
    BY <1>4 DEF DeleteSourceVectors, Written, After, PC
  <2>2. Exists(r) /\ r \in K
    BY <1>a, <1>d, <2>1 DEF Created, Late, Exists, KeptBy, SInv, TInv, TypeOK
  <2>3. \A q \in Compaction : pc'[q] \in Late => pc[q] \in Late
    BY <2>1 DEF Late, SInv, TInv, TypeOK
  <2>4. \A q \in Compaction : Exists(q) => Exists(q)' /\ sources'[q] = sources[q]
    BY <2>1 DEF Exists
  <2>5. \A c \in K \ Later :
          Indexed(c) => Indexed(c)' \/ \E q \in K \intersect Compaction : Exists(q)' /\ c \in sources'[q]
    BY <2>1, <2>2, <2>4 DEF Indexed
  <2>6. /\ \A q \in Compaction : pc'[q] \in Late => q \in K
        /\ \A c \in Chunk : by'[c] # None => by'[c] \in K
    BY <2>1, <2>3 DEF KeptBy
  <2> QED BY <1>g, <2>4, <2>5, <2>6
<1>5. ASSUME NEW r \in Compaction, MarkCompacted(r) PROVE Kept'
  <2>1. PICK o \in Outcomes(StillActive(r) # {} /\ Exists(r)) :
          /\ status' = Written(o, [c \in Chunk |-> IF c \in StillActive(r) THEN "compacted" ELSE status[c]], status)
          /\ by' = Written(o, [c \in Chunk |-> IF c \in StillActive(r) THEN r ELSE by[c]], by)
          /\ pc' = [pc EXCEPT ![r] = After(o, "record", "failed")]
    BY <1>5 DEF MarkCompacted
  <2>2. UNCHANGED <<vec, sources>> /\ pc[r] = "mark"
    BY <1>5 DEF MarkCompacted
  <2>3. \A c \in Chunk :
          \/ status'[c] = status[c] /\ by'[c] = by[c]
          \/ c \in StillActive(r) /\ status'[c] = "compacted" /\ by'[c] = r
    <3>1. CASE o \in {"ok", "lost"}
      <4>1. /\ status' = [c \in Chunk |-> IF c \in StillActive(r) THEN "compacted" ELSE status[c]]
            /\ by' = [c \in Chunk |-> IF c \in StillActive(r) THEN r ELSE by[c]]
        BY <2>1, <3>1 DEF Written
      <4> QED BY <4>1
    <3>2. CASE o \notin {"ok", "lost"}
      <4>1. status' = status /\ by' = by
        BY <2>1, <3>2 DEF Written
      <4> QED BY <4>1
    <3> QED BY <3>1, <3>2
  <2>4. Exists(r) /\ r \in K
    BY <1>a, <1>d, <2>2 DEF Created, Late, Exists, KeptBy, SInv, TInv, TypeOK
  <2>5. \A q \in Compaction : pc'[q] \in Late => pc[q] \in Late
    BY <2>1, <2>2 DEF Late, SInv, TInv, TypeOK
  <2>6. \A q \in Compaction : Exists(q) => Exists(q)' /\ sources'[q] = sources[q]
    BY <1>d, <2>2, <2>3 DEF Exists
  <2>7. \A c \in K \ Later :
          Indexed(c) => Indexed(c)' \/ \E q \in K \intersect Compaction : Exists(q)' /\ c \in sources'[q]
    BY <2>2, <2>3, <2>4, <2>6 DEF Indexed, StillActive
  <2>8. /\ \A q \in Compaction : pc'[q] \in Late => q \in K
        /\ \A c \in Chunk : by'[c] # None => by'[c] \in K
    BY <2>3, <2>4, <2>5 DEF KeptBy
  <2> QED BY <1>g, <2>6, <2>7, <2>8
<1>6. CASE Bystander
  <2>1. UNCHANGED <<status, by>>
    BY <1>6, BystanderFrame DEF SInv
  <2>2. CASE \E r \in Compaction : CompactStart(r) \/ RequestCompaction(r)
    <3>1. PICK r \in Compaction : CompactStart(r) \/ RequestCompaction(r)
      BY <2>2
    <3>2. /\ pc[r] = "idle" /\ vec' = vec
          /\ \E p \in {"create", "queued"} : pc' = [pc EXCEPT ![r] = p]
          /\ \E T \in SUBSET Chunk : sources' = [sources EXCEPT ![r] = T]
      BY <3>1 DEF CompactStart, RequestCompaction, rows
    <3>3. status[r] = "none"
      BY <3>2 DEF SInv, Fresh, Early
    <3>4. \A q \in Compaction : pc'[q] \in Late => pc[q] \in Late
      BY <3>2 DEF Late, SInv, TInv, TypeOK
    <3>5. \A q \in Compaction : Exists(q) => sources'[q] = sources[q]
      BY <3>2, <3>3 DEF Exists, SInv, TInv, TypeOK
    <3> QED BY <1>f, <2>1, <3>2, <3>4, <3>5
  <2>3. CASE \E w \in Worker, r \in ByJob : CompactionClaim(w, r) \/ CompactionList(r)
    <3>1. PICK w \in Worker, r \in ByJob : CompactionClaim(w, r) \/ CompactionList(r)
      BY <2>3
    <3>2. /\ r \in Compaction /\ pc[r] \in {"queued", "list"} /\ vec' = vec
          /\ \E p \in {"list", "create", "done", "failed"} : pc' = [pc EXCEPT ![r] = p]
          /\ \E T : sources' = [sources EXCEPT ![r] = T]
      <4>1. CASE CompactionClaim(w, r)
        <5>1. sources' = [sources EXCEPT ![r] = sources[r]]
          BY <4>1 DEF CompactionClaim, SInv, TInv, TypeOK
        <5> QED BY <4>1, <5>1, CompactionAssumption DEF CompactionClaim, rows
      <4>2. CASE CompactionList(r)
        BY <4>2, CompactionAssumption DEF CompactionList, After, rows
      <4> QED BY <3>1, <4>1, <4>2
    <3>3. status[r] = "none"
      BY <3>2 DEF SInv, Fresh, Early
    <3>4. \A q \in Compaction : pc'[q] \in Late => pc[q] \in Late
      BY <3>2 DEF Late, SInv, TInv, TypeOK
    <3>5. \A q \in Compaction : Exists(q) => sources'[q] = sources[q]
      BY <3>2, <3>3 DEF Exists, SInv, TInv, TypeOK
    <3> QED BY <1>f, <2>1, <3>2, <3>4, <3>5
  <2>4. CASE \E w \in Worker : CompactionReturn(w) \/ EmbedList(w) \/ EmbedStore(w) \/ EmbedSet(w)
    <3>1. vec \subseteq vec' /\ UNCHANGED <<pc, sources>>
      BY <2>4 DEF CompactionReturn, EmbedList, EmbedStore, EmbedSet, Written, rows, compact
    <3> QED BY <1>f, <2>1, <3>1
  <2>5. CASE (\E l \in Link : CreateLink(l)) \/ UNCHANGED vars
    <3>1. UNCHANGED <<vec, pc, sources>>
      BY <2>5 DEF CreateLink, rows, compact, vars
    <3> QED BY <1>f, <2>1, <3>1
  <2> QED BY <1>6, <1>b, <1>c, <2>2, <2>3, <2>4, <2>5 DEF Bystander
<1> QED BY <1>b, <1>c, <1>1, <1>2, <1>3, <1>4, <1>5, <1>6, StepKinds DEF Compacting

LEMMA AlwaysKept == Spec => []CInv
<1>1. CInv /\ [Next]_vars => CInv'
  <2> SUFFICES ASSUME CInv, [Next]_vars PROVE CInv'
    OBVIOUS
  <2>1. SInv'
    BY StepReplaces DEF CInv
  <2>2. Created'
    BY StepCreated DEF CInv
  <2>3. ASSUME Undisturbed' PROVE Kept'
    BY <2>1, <2>3, StepKept, Disturbs DEF CInv
  <2> QED BY <2>1, <2>2, <2>3 DEF CInv
<1> QED BY <1>1, StartsKept, PTL DEF Spec

\* While nothing is restored or deleted, every chunk that was in the index at the
\* start is represented there, or waits for the embedding of a summary that a
\* Compact call left to a job; however many compactions overlap or stop halfway.
THEOREM StaysSearchable == Spec => []ContentStaysSearchable
<1>1. CInv => ContentStaysSearchable
  <2> SUFFICES ASSUME CInv, Undisturbed, NEW c \in Embedded, NEW S \in SUBSET (Chunk \ Later),
                      c \in S, \A x \in S : ~Indexed(x)
               PROVE  \E x \in S, r \in Compaction \ S : Exists(r) /\ x \in sources[r]
    BY DEF ContentStaysSearchable
  <2>1. PICK K \in SUBSET Chunk : KeptBy(K)
    BY DEF CInv, Kept
  <2>2. c \in S \intersect K
    BY <2>1 DEF KeptBy
  <2>3. PICK x \in S \intersect K : \A r \in (S \intersect K) \intersect Compaction : x \notin sources[r]
    BY <2>2 DEF CInv, SInv, Layered
  <2>4. PICK r \in K \intersect Compaction : Exists(r) /\ x \in sources[r]
    BY <2>1, <2>3 DEF KeptBy
  <2> QED BY <2>3, <2>4
<1> QED BY <1>1, AlwaysKept, PTL
-----------------------------------------------------------------------------
(* Compaction can be undone.                                               *)

\* A record is the last thing a compaction writes, and what Uncompact starts with.
RecordLast ==
    /\ \A r \in Compaction : rec[r] # "none" => pc[r] \in {"done", "failed"}
    /\ \A u \in Uncompaction : tgt[u] # None => rec[tgt[u]] # "none"

\* Uncompact has restored what pointed to its summary before it takes anything away.
Past == {"vector", "record", "chunk", "enqueue", "done"}
Emptied == \A u \in Uncompaction : un[u] \in Past => \A c \in Chunk : by[c] # tgt[u]

Recorded ==
    \A c \in Chunk : by[c] # None => rec[by[c]] = "present" \/ pc[by[c]] \in {"record", "failed"}

UInv == SInv /\ RecordLast /\ Emptied /\ Recorded

LEMMA StartsUndoable == Init => UInv
<1> SUFFICES ASSUME Init PROVE UInv
  OBVIOUS
<1>1. RecordLast /\ Emptied /\ Recorded
  BY DEF Init, RecordLast, Emptied, Recorded, Past
<1> QED BY <1>1, StartsReplaced DEF UInv

\* Steps in which no record is written and no Uncompact starts: a record goes only
\* when nothing points to its summary, and new pointers are those of a compaction
\* that marks its chunks.
LEMMA StaysUndoable ==
    ASSUME UInv, SInv', UNCHANGED tgt,
           \A r \in Compaction : pc'[r] = pc[r] \/ pc[r] \notin {"record", "done", "failed"},
           \A r \in Compaction :
              rec'[r] = rec[r] \/ (rec[r] = "present" /\ rec'[r] = "gone" /\ \A c \in Chunk : by'[c] # r),
           \A c \in Chunk :
              \/ by'[c] \in {by[c], None}
              \/ by'[c] \in Compaction /\ pc[by'[c]] = "mark" /\ pc'[by'[c]] \in {"record", "failed"},
           \A u \in Uncompaction :
              un'[u] \in Past => un[u] \in Past \/ (un[u] # "idle" /\ \A c \in Chunk : by'[c] # tgt[u])
    PROVE  UInv'
<1> USE DEF UInv
<1>a. None \notin Compaction
  BY CompactionAssumption DEF Chunk
<1>b. /\ \A c \in Chunk : by[c] \in Compaction \union {None}
      /\ \A c \in Chunk : by'[c] \in Compaction \union {None}
      /\ \A u \in Uncompaction : tgt[u] \in Compaction \union {None}
      /\ \A u \in Uncompaction : un[u] # "idle" => tgt[u] # None
  BY DEF SInv, TInv, TypeOK
<1>1. RecordLast'
  <2>1. ASSUME NEW r \in Compaction, rec'[r] # "none" PROVE pc'[r] \in {"done", "failed"}
    BY <2>1 DEF RecordLast
  <2>2. ASSUME NEW u \in Uncompaction, tgt[u] # None PROVE rec'[tgt[u]] # "none"
    BY <1>b, <2>2 DEF RecordLast
  <2> QED BY <2>1, <2>2 DEF RecordLast
<1>2. Emptied'
  <2> SUFFICES ASSUME NEW u \in Uncompaction, un'[u] \in Past, NEW c \in Chunk
               PROVE  by'[c] # tgt[u]
    BY DEF Emptied
  <2>1. CASE un[u] \in Past
    <3>1. by[c] # tgt[u] /\ tgt[u] # None /\ tgt[u] \in Compaction
      BY <1>b, <2>1 DEF Emptied, Past
    <3>2. pc[tgt[u]] # "mark"
      BY <3>1 DEF RecordLast
    <3> QED BY <3>1, <3>2
  <2> QED BY <2>1
<1>3. Recorded'
  <2> SUFFICES ASSUME NEW c \in Chunk, by'[c] # None
               PROVE  rec'[by'[c]] = "present" \/ pc'[by'[c]] \in {"record", "failed"}
    BY DEF Recorded
  <2>1. CASE by'[c] = by[c]
    <3>1. by[c] \in Compaction /\ (rec[by[c]] = "present" \/ pc[by[c]] \in {"record", "failed"})
      BY <1>b, <2>1 DEF Recorded
    <3> QED BY <2>1, <3>1
  <2> QED BY <2>1
<1> QED BY <1>1, <1>2, <1>3

\* The deletion of a chunk: nothing points to it.
LEMMA DropUndoable ==
    ASSUME UInv, SInv', NEW c \in Chunk, NEW o \in Outcomes(CanDrop(c)), Drop(o, c),
           UNCHANGED <<pc, tgt>>,
           \A u \in Uncompaction : un'[u] \in Past => un[u] \in Past
    PROVE  UInv'
<1>1. CASE o \in {"ok", "lost"}
  <2>1. \A x \in Chunk : by[x] # c
    BY <1>1, OutcomeFact DEF CanDrop
  <2>2. /\ by' = [by EXCEPT ![c] = None]
        /\ rec' = [r \in Compaction |-> IF r = c /\ rec[r] = "present" THEN "gone" ELSE rec[r]]
    BY <1>1 DEF Drop, Written
  <2>3. \A x \in Chunk : by'[x] \in {by[x], None}
    BY <2>2 DEF UInv, SInv, TInv, TypeOK
  <2>4. \A x \in Chunk : by'[x] # c
    BY <2>1, <2>3, CompactionAssumption
  <2> QED BY <2>2, <2>3, <2>4, StaysUndoable
<1>2. CASE o \notin {"ok", "lost"}
  <2>1. UNCHANGED <<by, rec>>
    BY <1>2 DEF Drop, Written
  <2> QED BY <2>1, StaysUndoable
<1> QED BY <1>1, <1>2

\* A compaction comes to its record after it has marked its chunks.
LEMMA CompactingUndoable ==
    ASSUME UInv, SInv', NEW r \in Compaction, Compacting(r)
    PROVE  UInv'
<1> USE DEF After
<1>0. /\ TInv /\ pc \in [Compaction -> PC] /\ r \in Chunk
      /\ UNCHANGED <<un, tgt>>
      /\ \A q \in Compaction : q # r => pc'[q] = pc[q]
  BY CompactingFrame DEF UInv, SInv, TInv, TypeOK, Chunk, calls
<1>1. CASE SummaryCreate(r) \/ SummaryStore(r) \/ SummarySet(r) \/ SummaryEnqueue(r)
           \/ TransferOut(r) \/ TransferIn(r) \/ DeleteSourceVectors(r)
  <2>1. pc[r] \notin {"record", "done", "failed"} /\ UNCHANGED <<by, rec>>
    BY <1>1 DEF SummaryCreate, SummaryStore, SummarySet, SummaryEnqueue, TransferOut, TransferIn,
                DeleteSourceVectors
  <2> QED BY <1>0, <2>1, StaysUndoable
<1>2. CASE MarkCompacted(r)
  <2>1. PICK o \in Outcomes(StillActive(r) # {} /\ Exists(r)) :
          /\ by' = Written(o, [c \in Chunk |-> IF c \in StillActive(r) THEN r ELSE by[c]], by)
          /\ pc' = [pc EXCEPT ![r] = After(o, "record", "failed")]
    BY <1>2 DEF MarkCompacted
  <2>2. pc[r] = "mark" /\ rec' = rec /\ pc'[r] \in {"record", "failed"}
    BY <1>0, <1>2, <2>1 DEF MarkCompacted
  <2>3. \A c \in Chunk : by'[c] \in {by[c], r}
    BY <2>1 DEF Written
  <2> QED BY <1>0, <2>2, <2>3, StaysUndoable
<1>3. CASE CreateRecord(r)
  <2>1. PICK o \in Outcomes(Exists(r)) :
          /\ rec' = Written(o, [rec EXCEPT ![r] = "present"], rec)
          /\ pc' = [pc EXCEPT ![r] = After(o, "done", "failed")]
    BY <1>3 DEF CreateRecord
  <2>2. /\ pc[r] = "record" /\ UNCHANGED by
        /\ pc'[r] \in {"done", "failed"}
        /\ pc'[r] = "done" => rec'[r] = "present"
        /\ \A q \in Compaction : q # r => rec'[q] = rec[q]
        /\ rec'[r] \in {rec[r], "present"}
    BY <1>0, <1>3, <2>1 DEF CreateRecord, Written, TInv, TypeOK
  <2>3. RecordLast'
    <3>1. \A u \in Uncompaction : tgt[u] # None => tgt[u] \in Compaction
      BY <1>0 DEF TInv, TypeOK
    <3> QED BY <1>0, <2>2, <3>1 DEF UInv, RecordLast
  <2>4. Emptied'
    BY <1>0, <2>2 DEF UInv, Emptied
  <2>5. Recorded'
    <3>1. \A c \in Chunk : by[c] # None => by[c] \in Compaction
      BY <1>0 DEF TInv, TypeOK
    <3> QED BY <1>0, <2>2, <3>1 DEF UInv, Recorded
  <2> QED BY <2>3, <2>4, <2>5 DEF UInv
<1> QED BY <1>1, <1>2, <1>3 DEF Compacting

\* Uncompact restores first, and the record is the first thing it deletes after that.
LEMMA UncompactingUndoable ==
    ASSUME UInv, SInv', NEW u \in Uncompaction, Uncompacting(u)
    PROVE  UInv'
<1> USE DEF After, Past, compact
<1>0. /\ TInv /\ UNCHANGED <<pc, tgt>>
      /\ tgt[u] \in Compaction /\ tgt[u] # None /\ un[u] # "idle"
      /\ un \in [Uncompaction -> {"idle", "restore", "vector", "record", "chunk", "enqueue", "done", "failed"}]
  BY UncompactingFrame DEF UInv, SInv, TInv, TypeOK
<1>1. CASE Restore(u)
  <2>1. PICK o \in Outcomes(TRUE) :
          /\ by' = Written(o, [c \in Chunk |-> IF c \in Restored(u) THEN None ELSE by[c]], by)
          /\ un' = [un EXCEPT ![u] = After(o, "vector", "failed")]
    BY <1>1 DEF Restore
  <2>2. \A c \in Chunk : by'[c] \in {by[c], None}
    BY <2>1 DEF Written
  <2>3. un'[u] \in Past => \A c \in Chunk : by'[c] # tgt[u]
    BY <1>0, <2>1 DEF Written, Restored
  <2>4. \A v \in Uncompaction : v # u => un'[v] = un[v]
    BY <1>0, <2>1
  <2> QED BY <1>0, <1>1, <2>2, <2>3, <2>4, StaysUndoable DEF Restore
<1>2. CASE DeleteSummaryVector(u) \/ RestoredEnqueue(u)
  <2>1. /\ UNCHANGED <<by, rec>>
        /\ \A v \in Uncompaction : un'[v] \in Past => un[v] \in Past
    BY <1>0, <1>2 DEF DeleteSummaryVector, RestoredEnqueue
  <2> QED BY <1>0, <2>1, StaysUndoable
<1>3. CASE DeleteRecord(u)
  <2>1. PICK o \in Outcomes(rec[tgt[u]] = "present") :
          rec' = Written(o, [rec EXCEPT ![tgt[u]] = "gone"], rec)
    BY <1>3 DEF DeleteRecord
  <2>2. /\ by' = by /\ \A c \in Chunk : by[c] # tgt[u]
        /\ \A v \in Uncompaction : un'[v] \in Past => un[v] \in Past
    BY <1>0, <1>3 DEF DeleteRecord, UInv, Emptied
  <2>3. \A r \in Compaction : rec'[r] = rec[r] \/ (r = tgt[u] /\ rec[r] = "present" /\ rec'[r] = "gone")
    <3>1. CASE o \in {"ok", "lost"}
      <4>1. rec[tgt[u]] = "present"
        BY <3>1, OutcomeFact
      <4> QED BY <1>0, <2>1, <3>1, <4>1 DEF Written, TInv, TypeOK
    <3>2. CASE o \notin {"ok", "lost"}
      BY <2>1, <3>2 DEF Written
    <3> QED BY <3>1, <3>2
  <2> QED BY <1>0, <2>2, <2>3, StaysUndoable
<1>4. CASE DeleteSummary(u)
  <2>1. PICK o \in Outcomes(CanDrop(tgt[u])) : Drop(o, tgt[u])
    BY <1>4 DEF DeleteSummary
  <2>2. \A v \in Uncompaction : un'[v] \in Past => un[v] \in Past
    BY <1>0, <1>4 DEF DeleteSummary
  <2>3. tgt[u] \in Chunk
    BY <1>0 DEF Chunk
  <2> QED BY <1>0, <2>1, <2>2, <2>3, DropUndoable
<1> QED BY <1>1, <1>2, <1>3, <1>4 DEF Uncompacting

LEMMA BystanderUndoable ==
    ASSUME UInv, SInv', Bystander
    PROVE  UInv'
<1> USE CompactionAssumption DEF rows, compact, calls
<1>0. TInv /\ UNCHANGED by /\ pc \in [Compaction -> PC]
  BY BystanderFrame DEF UInv, SInv, TInv, TypeOK
<1>1. ASSUME NEW r \in Compaction, CompactStart(r) \/ RequestCompaction(r) PROVE UInv'
  <2>1. /\ UNCHANGED <<rec, un, tgt>> /\ pc[r] = "idle"
        /\ \A q \in Compaction : q # r => pc'[q] = pc[q]
    BY <1>0, <1>1 DEF CompactStart, RequestCompaction
  <2> QED BY <1>0, <2>1, StaysUndoable
<1>2. ASSUME NEW w \in Worker, NEW r \in ByJob, CompactionClaim(w, r) \/ CompactionList(r) PROVE UInv'
  <2>1. /\ UNCHANGED <<rec, un, tgt>> /\ pc[r] \in {"queued", "list"}
        /\ \A q \in Compaction : q # r => pc'[q] = pc[q]
    BY <1>0, <1>2 DEF CompactionClaim, CompactionList
  <2> QED BY <1>0, <2>1, StaysUndoable
<1>3. ASSUME NEW u \in Uncompaction, UncompactStart(u) PROVE UInv'
  <2>1. PICK r \in Compaction : rec[r] = "present" /\ tgt' = [tgt EXCEPT ![u] = r]
    BY <1>3 DEF UncompactStart
  <2>2. /\ un[u] = "idle" /\ un' = [un EXCEPT ![u] = "restore"]
        /\ UNCHANGED <<rec, pc>>
    BY <1>3 DEF UncompactStart
  <2>3. RecordLast'
    BY <1>0, <2>1, <2>2 DEF UInv, RecordLast, TInv, TypeOK
  <2>4. Emptied'
    BY <1>0, <2>1, <2>2 DEF UInv, Emptied, Past, TInv, TypeOK
  <2>5. Recorded'
    BY <1>0, <2>2 DEF UInv, Recorded
  <2> QED BY <2>3, <2>4, <2>5 DEF UInv
<1>4. CASE \/ \E l \in Link : CreateLink(l)
           \/ \E c \in Chunk : DeleteVector(c)
           \/ \E w \in Worker : CompactionReturn(w) \/ EmbedList(w) \/ EmbedStore(w) \/ EmbedSet(w)
           \/ UNCHANGED vars
  <2>1. UNCHANGED <<rec, un, tgt, pc>>
    BY <1>4 DEF CreateLink, DeleteVector, CompactionReturn, EmbedList, EmbedStore, EmbedSet, vars
  <2> QED BY <1>0, <2>1, StaysUndoable
<1> QED BY <1>1, <1>2, <1>3, <1>4 DEF Bystander

LEMMA AlwaysUndoable == Spec => []UInv
<1>1. UInv /\ [Next]_vars => UInv'
  <2> SUFFICES ASSUME UInv, [Next]_vars PROVE UInv'
    OBVIOUS
  <2>1. SInv'
    BY StepReplaces DEF UInv
  <2>2. ASSUME NEW c \in Chunk, DeleteChunk(c) PROVE UInv'
    <3>1. PICK o \in Outcomes(CanDrop(c)) : Drop(o, c)
      BY <2>2 DEF DeleteChunk
    <3> QED BY <2>1, <2>2, <3>1, DropUndoable DEF DeleteChunk, compact
  <2> QED BY <2>1, <2>2, StepKinds, CompactingUndoable, UncompactingUndoable, BystanderUndoable
<1> QED BY <1>1, StartsUndoable, PTL DEF Spec

\* Every compacted chunk can be restored: a record names it, unless its compaction
\* is about to write it or failed, for any number of overlapping compactions,
\* restorations that stop halfway, and deletions.
THEOREM Restorable == Spec => []CompactedCanBeRestored
<1>1. UInv => CompactedCanBeRestored
  BY DEF UInv, SInv, Marked, Recorded, CompactedCanBeRestored
<1> QED BY <1>1, AlwaysUndoable, PTL
-----------------------------------------------------------------------------
(* Compacted chunks leave nothing in the index.                            *)

\* An Uncompact call may have restored the chunk.
Taken(c) == \E u \in Uncompaction : tgt[u] # None /\ c \in sources[tgt[u]]

\* A chunk that was indexed at the start keeps its id until it is compacted, so no
\* embedding job has it in its list, and its vector is gone before it is marked.
LeftAlone(c) ==
    /\ status[c] = "active" => c \in emb
    /\ status[c] = "compacted" => c \notin emb \union vec
    /\ \A w \in Worker : c \notin list[w] \union rest[w]
    /\ \A r \in Compaction : pc[r] = "mark" /\ c \in sources[r] => c \notin vec

NInv == UInv /\ \A c \in Embedded : LeftAlone(c) \/ Taken(c)

LEMMA StartsClean == Init => NInv
<1> SUFFICES ASSUME Init PROVE NInv
  OBVIOUS
<1>1. \A c \in Embedded : LeftAlone(c)
  BY CompactionAssumption DEF Init, LeftAlone, Chunk
<1> QED BY <1>1, StartsUndoable DEF NInv

\* What Uncompact was called for stays.
LEMMA TakenStays ==
    ASSUME UNCHANGED sources,
           \A u \in Uncompaction : tgt[u] # None => tgt'[u] = tgt[u],
           NEW c \in Embedded, Taken(c)
    PROVE  Taken(c)'
  BY DEF Taken

\* The steps of a compaction.
LEMMA CompactingClean ==
    ASSUME NInv, UInv', NEW r \in Compaction, Compacting(r)
    PROVE  NInv'
<1> SUFFICES ASSUME NEW c \in Embedded PROVE LeftAlone(c)' \/ Taken(c)'
  BY DEF NInv
<1> USE DEF After, Written
<1>0. /\ TInv /\ c \in Chunk /\ c # r /\ pc \in [Compaction -> PC]
      /\ UNCHANGED <<list, rest, tgt, sources>>
      /\ \A q \in Compaction : q # r => pc'[q] = pc[q]
  BY CompactingFrame, CompactionAssumption DEF NInv, UInv, SInv, TInv, TypeOK, Chunk, calls, loops
<1>1. CASE Taken(c)
  BY <1>0, <1>1, TakenStays
<1> SUFFICES ASSUME LeftAlone(c) PROVE LeftAlone(c)'
  BY <1>1 DEF NInv
<1> USE DEF LeftAlone
<1>2. CASE SummaryCreate(r) \/ SummaryStore(r) \/ SummarySet(r) \/ SummaryEnqueue(r)
           \/ TransferOut(r) \/ TransferIn(r) \/ CreateRecord(r)
  <2>1. /\ status'[c] = status[c] /\ (c \in emb' <=> c \in emb) /\ (c \in vec' <=> c \in vec)
    BY <1>0, <1>2 DEF SummaryCreate, SummaryStore, SummarySet, SummaryEnqueue, TransferOut, TransferIn,
                CreateRecord, TInv, TypeOK
  <2>2. pc'[r] # "mark"
    BY <1>0, <1>2 DEF SummaryCreate, SummaryStore, SummarySet, SummaryEnqueue, TransferOut, TransferIn,
                CreateRecord, AfterCreate
  <2> QED BY <1>0, <2>1, <2>2
<1>3. CASE DeleteSourceVectors(r)
  <2>1. PICK o \in Outcomes(TRUE) :
          /\ vec' = Written(o, vec \ sources[r], vec)
          /\ pc' = [pc EXCEPT ![r] = After(o, "mark", "failed")]
    BY <1>3 DEF DeleteSourceVectors
  <2>2. /\ UNCHANGED <<status, emb>> /\ vec' \subseteq vec
        /\ pc'[r] = "mark" => vec' = vec \ sources[r]
    BY <1>0, <1>3, <2>1 DEF DeleteSourceVectors
  <2> QED BY <1>0, <2>2
<1>4. CASE MarkCompacted(r)
  <2>1. PICK o \in Outcomes(StillActive(r) # {} /\ Exists(r)) :
          /\ status' = Written(o, [x \in Chunk |-> IF x \in StillActive(r) THEN "compacted" ELSE status[x]], status)
          /\ emb' = Written(o, emb \ StillActive(r), emb)
          /\ pc' = [pc EXCEPT ![r] = After(o, "record", "failed")]
    BY <1>4 DEF MarkCompacted
  <2>2. /\ pc[r] = "mark" /\ vec' = vec /\ pc'[r] # "mark"
        /\ \/ status'[c] = status[c] /\ (c \in emb' <=> c \in emb)
           \/ c \in StillActive(r) /\ status'[c] = "compacted" /\ c \notin emb'
    BY <1>0, <1>4, <2>1 DEF MarkCompacted
  <2> QED BY <1>0, <2>2 DEF StillActive
<1> QED BY <1>2, <1>3, <1>4 DEF Compacting

\* Restorations and deletions.
LEMMA UncompactingClean ==
    ASSUME NInv, UInv', NEW u \in Uncompaction, Uncompacting(u)
    PROVE  NInv'
<1> SUFFICES ASSUME NEW c \in Embedded PROVE LeftAlone(c)' \/ Taken(c)'
  BY DEF NInv
<1> USE DEF Written, compact, loops
<1>0. /\ SInv /\ TInv /\ c \in Chunk /\ UNCHANGED <<pc, sources, list, rest, tgt>>
      /\ tgt[u] \in Compaction /\ tgt[u] # None
  BY UncompactingFrame, CompactionAssumption DEF NInv, UInv, SInv, TInv, TypeOK, Chunk
<1>1. CASE Taken(c)
  BY <1>0, <1>1, TakenStays
<1> SUFFICES ASSUME LeftAlone(c), ~Taken(c) PROVE LeftAlone(c)'
  BY <1>1 DEF NInv
<1>2. vec' \subseteq vec
  BY DEF Uncompacting, Restore, DeleteSummaryVector, DeleteRecord, DeleteSummary, RestoredEnqueue, Drop
<1>3. CASE Restore(u)
  <2>1. by[c] # tgt[u]
    BY <1>0 DEF SInv, Marked, Taken
  <2>2. status'[c] = status[c] /\ emb' = emb
    BY <1>0, <1>3, <2>1 DEF Restore, Restored, TInv, TypeOK
  <2> QED BY <1>0, <1>2, <2>2 DEF LeftAlone
<1>4. CASE DeleteSummary(u)
  <2>1. \/ status'[c] = status[c] /\ (c \in emb' <=> c \in emb)
        \/ status'[c] = "gone"
    BY <1>0, <1>4 DEF DeleteSummary, Drop, TInv, TypeOK
  <2> QED BY <1>0, <1>2, <2>1 DEF LeftAlone
<1>5. CASE DeleteSummaryVector(u) \/ DeleteRecord(u) \/ RestoredEnqueue(u)
  <2>1. UNCHANGED <<status, emb>>
    BY <1>5 DEF DeleteSummaryVector, DeleteRecord, RestoredEnqueue
  <2> QED BY <1>0, <1>2, <2>1 DEF LeftAlone
<1> QED BY <1>3, <1>4, <1>5 DEF Uncompacting

LEMMA DeleteChunkClean ==
    ASSUME NInv, UInv', NEW x \in Chunk, DeleteChunk(x)
    PROVE  NInv'
<1> SUFFICES ASSUME NEW c \in Embedded PROVE LeftAlone(c)' \/ Taken(c)'
  BY DEF NInv
<1>0. TInv /\ c \in Chunk /\ UNCHANGED <<pc, sources, list, rest, tgt>>
  BY CompactionAssumption DEF NInv, UInv, SInv, Chunk, DeleteChunk, compact, loops
<1>1. CASE Taken(c)
  BY <1>0, <1>1, TakenStays
<1> SUFFICES ASSUME LeftAlone(c) PROVE LeftAlone(c)'
  BY <1>1 DEF NInv
<1>2. /\ vec' \subseteq vec
      /\ \/ status'[c] = status[c] /\ (c \in emb' <=> c \in emb)
         \/ status'[c] = "gone"
  BY <1>0 DEF DeleteChunk, Drop, Written, TInv, TypeOK
<1> QED BY <1>0, <1>2 DEF LeftAlone

\* All others: an embedding job lists only chunks without an id, and the sources of a
\* compaction with a record do not change.
LEMMA BystanderClean ==
    ASSUME NInv, UInv', Bystander
    PROVE  NInv'
<1> SUFFICES ASSUME NEW c \in Embedded PROVE LeftAlone(c)' \/ Taken(c)'
  BY DEF NInv
<1> USE DEF rows, compact, loops, calls, After, Written
<1>0. /\ TInv /\ RecordLast /\ c \in Chunk /\ UNCHANGED status /\ pc \in [Compaction -> PC]
      /\ \A u \in Uncompaction : tgt[u] \in Compaction \union {None}
      /\ sources \in [Compaction -> SUBSET Chunk]
      /\ list \in [Worker -> SUBSET Chunk] /\ rest \in [Worker -> SUBSET Chunk]
  BY BystanderFrame, CompactionAssumption DEF NInv, UInv, SInv, TInv, TypeOK, Chunk
<1>1. ASSUME NEW r \in Compaction, pc[r] \notin {"done", "failed"}, pc'[r] # "mark",
             UNCHANGED <<emb, vec, list, rest, tgt>>,
             \A q \in Compaction : q # r => pc'[q] = pc[q] /\ sources'[q] = sources[q]
      PROVE  LeftAlone(c)' \/ Taken(c)'
  <2>1. \A u \in Uncompaction : tgt[u] # None => tgt[u] # r
    BY <1>0, <1>1 DEF RecordLast
  <2>2. Taken(c) => Taken(c)'
    BY <1>0, <1>1, <2>1 DEF Taken
  <2>3. LeftAlone(c) => LeftAlone(c)'
    BY <1>0, <1>1 DEF LeftAlone
  <2> QED BY <2>2, <2>3 DEF NInv
<1>2. ASSUME NEW r \in Compaction, CompactStart(r) \/ RequestCompaction(r)
      PROVE  LeftAlone(c)' \/ Taken(c)'
  <2>1. /\ pc[r] = "idle" /\ pc'[r] # "mark" /\ UNCHANGED <<emb, vec, list, rest, tgt>>
        /\ \A q \in Compaction : q # r => pc'[q] = pc[q] /\ sources'[q] = sources[q]
    BY <1>0, <1>2 DEF CompactStart, RequestCompaction
  <2> QED BY <1>1, <2>1
<1>3. ASSUME NEW w \in Worker, NEW r \in ByJob, CompactionClaim(w, r) \/ CompactionList(r)
      PROVE  LeftAlone(c)' \/ Taken(c)'
  <2>1. /\ r \in Compaction /\ pc[r] \in {"queued", "list"} /\ pc'[r] # "mark"
        /\ UNCHANGED <<emb, vec, list, rest, tgt>>
        /\ \A q \in Compaction : q # r => pc'[q] = pc[q] /\ sources'[q] = sources[q]
    BY <1>0, <1>3, CompactionAssumption DEF CompactionClaim, CompactionList
  <2> QED BY <1>1, <2>1
<1>4. CASE \/ \E u \in Uncompaction : UncompactStart(u)
           \/ \E l \in Link : CreateLink(l)
           \/ \E x \in Chunk : DeleteVector(x)
           \/ \E w \in Worker : CompactionReturn(w)
           \/ UNCHANGED vars
  <2>1. /\ UNCHANGED <<emb, list, rest, pc, sources>> /\ vec' \subseteq vec
    BY <1>4 DEF UncompactStart, CreateLink, DeleteVector, CompactionReturn, vars
  <2>2. \A u \in Uncompaction : tgt[u] # None => tgt'[u] = tgt[u]
    <3>1. ASSUME NEW v \in Uncompaction, UncompactStart(v)
          PROVE  \A u \in Uncompaction : tgt[u] # None => tgt'[u] = tgt[u]
      <4>1. tgt[v] = None
        BY <3>1 DEF UncompactStart, NInv, UInv, SInv, TInv
      <4> QED BY <1>0, <3>1, <4>1 DEF UncompactStart
    <3>2. ~(\E v \in Uncompaction : UncompactStart(v)) => UNCHANGED tgt
      BY <1>4 DEF CreateLink, DeleteVector, CompactionReturn, vars
    <3> QED BY <3>1, <3>2
  <2>3. Taken(c) => Taken(c)'
    BY <2>1, <2>2, TakenStays
  <2>4. LeftAlone(c) => LeftAlone(c)'
    BY <1>0, <2>1 DEF LeftAlone
  <2> QED BY <2>3, <2>4 DEF NInv
<1>5. ASSUME NEW w \in Worker, EmbedList(w) \/ EmbedStore(w) \/ EmbedSet(w)
      PROVE  LeftAlone(c)' \/ Taken(c)'
  <2>1. UNCHANGED <<pc, sources, tgt>>
    BY <1>5 DEF EmbedList, EmbedStore, EmbedSet
  <2>2. Taken(c) => Taken(c)'
    BY <2>1, TakenStays
  <2>3. ASSUME LeftAlone(c) PROVE LeftAlone(c)'
    <3>1. CASE EmbedList(w)
      <4>1. c \notin list'[w] \union rest'[w]
        BY <1>0, <2>3, <3>1 DEF EmbedList, NeedsEmbedding, LeftAlone
      <4>2. \A v \in Worker : v # w => list'[v] = list[v] /\ rest'[v] = rest[v]
        BY <1>0, <3>1 DEF EmbedList
      <4>3. UNCHANGED <<emb, vec>>
        BY <3>1 DEF EmbedList
      <4> QED BY <1>0, <2>1, <2>3, <4>1, <4>2, <4>3 DEF LeftAlone
    <3>2. CASE EmbedStore(w)
      <4>1. PICK x \in rest[w] : \E o \in Outcomes(Exists(x)) :
              /\ vec' = Written(o, vec \union {x}, vec)
              /\ rest' = [rest EXCEPT ![w] = After(o, IF @ = {x} THEN list[w] ELSE @ \ {x}, {})]
        BY <3>2 DEF EmbedStore
      <4>2. c \notin list[w] \union rest[w] /\ x # c
        BY <2>3, <4>1 DEF LeftAlone
      <4>3. c \notin rest'[w] /\ (c \in vec' <=> c \in vec)
        BY <1>0, <4>1, <4>2
      <4>4. UNCHANGED <<emb, list>> /\ \A v \in Worker : v # w => rest'[v] = rest[v]
        BY <1>0, <3>2, <4>1 DEF EmbedStore
      <4> QED BY <1>0, <2>1, <2>3, <4>3, <4>4 DEF LeftAlone
    <3>3. CASE EmbedSet(w)
      <4>1. PICK x \in rest[w] : \E o \in Outcomes(TRUE) :
              /\ emb' = Written(o, emb \union {y \in {x} : Exists(y)}, emb)
              /\ rest' = [rest EXCEPT ![w] = After(o, @ \ {x}, {})]
        BY <3>3 DEF EmbedSet
      <4>2. c \notin rest[w] /\ x # c
        BY <2>3, <4>1 DEF LeftAlone
      <4>3. c \notin rest'[w] /\ (c \in emb' <=> c \in emb)
        BY <1>0, <4>1, <4>2
      <4>4. UNCHANGED <<vec, list>> /\ \A v \in Worker : v # w => rest'[v] = rest[v]
        BY <1>0, <3>3, <4>1 DEF EmbedSet
      <4> QED BY <1>0, <2>1, <2>3, <4>3, <4>4 DEF LeftAlone
    <3> QED BY <1>5, <3>1, <3>2, <3>3
  <2> QED BY <2>2, <2>3 DEF NInv
<1> QED BY <1>2, <1>3, <1>4, <1>5 DEF Bystander

\* Of a chunk that was indexed before it was compacted nothing is left in the index,
\* for any compactions and embedding jobs next to each other.
THEOREM NotIndexed == Spec => []CompactedIsNotIndexed
<1>1. NInv /\ [Next]_vars /\ UInv' => NInv'
  BY StepKinds, CompactingClean, UncompactingClean, DeleteChunkClean, BystanderClean
<1>2. NInv => CompactedIsNotIndexed
  BY DEF NInv, LeftAlone, Taken, CompactedIsNotIndexed
<1> QED BY <1>1, <1>2, StartsClean, AlwaysUndoable, PTL DEF Spec
=============================================================================
