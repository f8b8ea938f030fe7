----------------------------- MODULE Compaction -----------------------------
(***************************************************************************)
(* Compaction of chunks: the Compact and Uncompact calls, the compaction   *)
(* worker, and what runs next to them on the same chunks, links and        *)
(* vectors: the embedding worker, CreateLink and DeleteChunk.  A           *)
(* compaction is of a document, but the ids it is given may be of others.  *)
(*                                                                         *)
(* Nothing is in a transaction: every store call is a statement of its     *)
(* own, and one action.  Reads that change nothing are part of the action  *)
(* after them, except the two lists that workers act on later.             *)
(***************************************************************************)
EXTENDS Naturals, Statements

CONSTANTS
    Doc,
    DocOf,        \* the document of a chunk; of a summary, the one its compaction is for
    Source,       \* the chunks there are at the start
    Embedded,     \* those that have an embedding
    Compaction,   \* compactions; each also names the summary chunk it creates
    ByJob,        \* those done by the worker; the others are Compact calls
    WithVector,   \* the Compact calls that bring the summary's embedding
    Uncompaction, \* Uncompact calls
    Link,         \* links that clients create
    Linkable,     \* bound: the ends they give them
    Deletable,    \* chunks that clients delete
    Worker,       \* poll loops
    MaxFaults,    \* bound: statements that fail
    LostReplies,  \* whether a failed statement may have taken effect
    None

Chunk == Source \union Compaction

ASSUME CompactionAssumption ==
    /\ Source \intersect Compaction = {}
    /\ DocOf \in [Chunk -> Doc]
    /\ Embedded \subseteq Source
    /\ ByJob \subseteq Compaction /\ WithVector \subseteq Compaction \ ByJob
    /\ Deletable \subseteq Chunk /\ Linkable \subseteq Chunk \X Chunk
    /\ MaxFaults \in Nat /\ LostReplies \in BOOLEAN
    /\ None \notin Chunk

VARIABLES
    \* the database
    status,   \* chunks.status; "none" before INSERT, "gone" after DELETE
    by,       \* chunks.compacted_by
    emb,      \* chunks whose embedding_id is set
    vec,      \* ids in the vector backend
    link,     \* links: no row, or <<source_chunk, target_chunk>>
    rec,      \* compaction_records, by summary
    queued,   \* embedding jobs in the queue, by document
    \* a compaction in progress
    pc,       \* where it is
    sources,  \* the ids it works on: those asked for, then those found active
    todo,     \* those whose links are still to be moved
    half,     \* the one whose links out are moved and whose links in are not
    \* the other actors
    busy,     \* the compaction a poll loop is doing
    epc,      \* where the embedding job of a poll loop is
    list, rest,  \* the chunks it found, and those the current loop has not reached
    un, tgt,  \* an Uncompact call, and the summary it is about
    del,      \* DeleteChunk, per chunk
    \* history and environment
    made,     \* the ends a link was created with
    faults

rows    == <<status, by, emb, vec, link, rec, queued>>
compact == <<pc, sources, todo, half>>
loops   == <<busy, epc, list, rest>>
calls   == <<un, tgt, del>>
vars    == <<rows, compact, loops, calls, made, faults>>

Exists(c) == status[c] \in {"active", "compacted"}

PC == {"idle", "queued", "list", "create", "store", "set", "enqueue", "links", "vectors",
       "mark", "record", "done", "failed"}

TypeOK ==
    /\ status \in [Chunk -> {"none", "active", "compacted", "gone"}]
    /\ by \in [Chunk -> Compaction \union {None}]
    /\ emb \subseteq Chunk /\ vec \subseteq Chunk
    /\ link \in [Link -> (Chunk \X Chunk) \union {None}]
    /\ made \in [Link -> (Chunk \X Chunk) \union {None}]
    /\ rec \in [Compaction -> {"none", "present", "gone"}]
    /\ queued \in [Doc -> Nat]
    /\ pc \in [Compaction -> PC]
    /\ sources \in [Compaction -> SUBSET Chunk]
    /\ todo \in [Compaction -> SUBSET Chunk]
    /\ half \in [Compaction -> Chunk \union {None}]
    /\ \A r \in Compaction : half[r] # None => pc[r] = "links"
    /\ busy \in [Worker -> Compaction \union {None}]
    /\ epc \in [Worker -> {"idle", "store", "set"}]
    /\ list \in [Worker -> SUBSET Chunk] /\ rest \in [Worker -> SUBSET Chunk]
    /\ un \in [Uncompaction -> {"idle", "restore", "vector", "record", "chunk", "enqueue", "done", "failed"}]
    /\ tgt \in [Uncompaction -> Compaction \union {None}]
    /\ del \in [Chunk -> {"no", "chunk", "failed"}]
    /\ faults \in 0..MaxFaults

Init ==
    /\ status = [c \in Chunk |-> IF c \in Source THEN "active" ELSE "none"]
    /\ by = [c \in Chunk |-> None]
    /\ emb = Embedded /\ vec = Embedded
    /\ link = [l \in Link |-> None] /\ made = [l \in Link |-> None]
    /\ rec = [r \in Compaction |-> "none"]
    /\ queued = [d \in Doc |-> IF \A c \in Source : DocOf[c] = d => c \in Embedded THEN 0 ELSE 1]
    /\ pc = [r \in Compaction |-> "idle"]
    /\ sources = [r \in Compaction |-> {}]
    /\ todo = [r \in Compaction |-> {}]
    /\ half = [r \in Compaction |-> None]
    /\ busy = [w \in Worker |-> None]
    /\ epc = [w \in Worker |-> "idle"]
    /\ list = [w \in Worker |-> {}] /\ rest = [w \in Worker |-> {}]
    /\ un = [u \in Uncompaction |-> "idle"]
    /\ tgt = [u \in Uncompaction |-> None]
    /\ del = [c \in Chunk |-> "no"]
    /\ faults = 0

Outcomes(can) == Ends(can, faults < MaxFaults, LostReplies)
Count(o) == faults' = IF Failed(o) THEN faults + 1 ELSE faults

\* Mutant: compacted_by does not refer to chunks.
CanDrop_Unreferenced(c) == Exists(c)

\* DELETE FROM chunks: refused while chunks are compacted into c; takes its
\* vector, its links and its compaction record along.
CanDrop(c) == Exists(c) /\ \A x \in Chunk : by[x] # c
Drop(o, c) ==
    /\ status' = Written(o, [status EXCEPT ![c] = "gone"], status)
    /\ by' = Written(o, [by EXCEPT ![c] = None], by)
    /\ emb' = Written(o, emb \ {c}, emb)
    /\ vec' = Written(o, vec \ {c}, vec)
    /\ link' = Written(o, [l \in Link |-> IF link[l] # None /\ c \in {link[l][1], link[l][2]}
                                          THEN None ELSE link[l]], link)
    /\ rec' = Written(o, [r \in Compaction |-> IF r = c /\ rec[r] = "present" THEN "gone" ELSE rec[r]], rec)
-----------------------------------------------------------------------------
(* Compact, and the compaction worker.                                     *)

\* A call names chunks the client has seen, of any document: neither their document
\* nor their status is checked.
CompactStart(r) ==
    /\ r \notin ByJob
    /\ pc[r] = "idle"
    /\ \E ids \in SUBSET {c \in Chunk : status[c] # "none"} :
          /\ ids # {}
          /\ sources' = [sources EXCEPT ![r] = ids]
    /\ pc' = [pc EXCEPT ![r] = "create"]
    /\ UNCHANGED <<rows, todo, half, loops, calls, made, faults>>

\* RequestCompaction enqueues a job, for the chunks named, of any document, or,
\* without any, for all those of its document that are active when it runs.
RequestCompaction(r) ==
    /\ r \in ByJob
    /\ pc[r] = "idle"
    /\ \E ids \in SUBSET {c \in Chunk : status[c] # "none"} :
          sources' = [sources EXCEPT ![r] = ids]
    /\ pc' = [pc EXCEPT ![r] = "queued"]
    /\ UNCHANGED <<rows, todo, half, loops, calls, made, faults>>

\* A poll loop claims it ...
CompactionClaim(w, r) ==
    /\ busy[w] = None /\ epc[w] = "idle"
    /\ pc[r] = "queued"
    /\ busy' = [busy EXCEPT ![w] = r]
    /\ pc' = [pc EXCEPT ![r] = "list"]
    /\ UNCHANGED <<rows, sources, todo, half, epc, list, rest, calls, made, faults>>

Found(r) == {c \in Chunk : status[c] = "active" /\ (IF sources[r] = {} THEN DocOf[c] = DocOf[r] ELSE c \in sources[r])}

\* ... and reads the chunks.  Fewer than two: nothing to do.
CompactionList(r) ==
    /\ pc[r] = "list"
    /\ \E o \in Outcomes(TRUE) :
          /\ sources' = [sources EXCEPT ![r] = IF o = "ok" THEN Found(r) ELSE {}]
          /\ pc' = [pc EXCEPT ![r] = After(o, IF \E x, y \in Found(r) : x # y THEN "create" ELSE "done", "failed")]
          /\ Count(o)
    /\ UNCHANGED <<rows, todo, half, loops, calls, made>>

\* Mutant: every summary's embedding is left to a job.
AfterCreate_Later(r) == "enqueue"
AfterCreate(r) == IF r \in ByJob \union WithVector THEN "store" ELSE "enqueue"

\* The summary chunk; the worker has asked the LLM for its text.
SummaryCreate(r) ==
    /\ pc[r] = "create"
    /\ \E o \in Outcomes(TRUE) :
          /\ status' = Written(o, [status EXCEPT ![r] = "active"], status)
          /\ pc' = [pc EXCEPT ![r] = After(o, AfterCreate(r), "failed")]
          /\ Count(o)
    /\ UNCHANGED <<by, emb, vec, link, rec, queued, sources, todo, half, loops, calls, made>>

\* Its embedding, supplied by the client or computed by the worker ...
SummaryStore(r) ==
    /\ pc[r] = "store"
    /\ \E o \in Outcomes(Exists(r)) :
          /\ vec' = Written(o, vec \union {r}, vec)
          /\ pc' = [pc EXCEPT ![r] = After(o, "set", "failed")]
          /\ Count(o)
    /\ UNCHANGED <<status, by, emb, link, rec, queued, sources, todo, half, loops, calls, made>>

SummarySet(r) ==
    /\ pc[r] = "set"
    /\ \E o \in Outcomes(TRUE) :
          /\ emb' = Written(o, emb \union {c \in {r} : Exists(c)}, emb)
          /\ pc' = [pc EXCEPT ![r] = After(o, "links", "failed")]
          /\ todo' = [todo EXCEPT ![r] = sources[r]]
          /\ Count(o)
    /\ UNCHANGED <<status, by, vec, link, rec, queued, sources, half, loops, calls, made>>

\* ... or left to an embedding job, whose enqueue may fail unnoticed.
SummaryEnqueue(r) ==
    /\ pc[r] = "enqueue"
    /\ \E o \in Outcomes(TRUE) :
          /\ queued' = Written(o, [queued EXCEPT ![DocOf[r]] = @ + 1], queued)
          /\ Count(o)
    /\ pc' = [pc EXCEPT ![r] = "links"]
    /\ todo' = [todo EXCEPT ![r] = sources[r]]
    /\ UNCHANGED <<status, by, emb, vec, link, rec, sources, half, loops, calls, made>>

\* TransferLinks, for each source: the links out of it, then the links into it.
\* Links are refused when the summary is gone.
Moved(c, r, i) == [l \in Link |-> IF link[l] # None /\ link[l][i] = c
                                  THEN [link[l] EXCEPT ![i] = r] ELSE link[l]]
CanMove(c, r, i) == Exists(r) \/ Moved(c, r, i) = link

TransferOut(r) ==
    /\ pc[r] = "links" /\ half[r] = None
    /\ \E c \in todo[r] : \E o \in Outcomes(CanMove(c, r, 1)) :
          /\ link' = Written(o, Moved(c, r, 1), link)
          /\ todo' = [todo EXCEPT ![r] = @ \ {c}]
          /\ half' = [half EXCEPT ![r] = After(o, c, None)]
          /\ pc' = [pc EXCEPT ![r] = After(o, "links", "failed")]
          /\ Count(o)
    /\ UNCHANGED <<status, by, emb, vec, rec, queued, sources, loops, calls, made>>

TransferIn(r) ==
    /\ pc[r] = "links" /\ half[r] # None
    /\ \E o \in Outcomes(CanMove(half[r], r, 2)) :
          /\ link' = Written(o, Moved(half[r], r, 2), link)
          /\ half' = [half EXCEPT ![r] = None]
          /\ pc' = [pc EXCEPT ![r] = After(o, IF todo[r] = {} THEN "vectors" ELSE "links", "failed")]
          /\ Count(o)
    /\ UNCHANGED <<status, by, emb, vec, rec, queued, sources, todo, loops, calls, made>>

DeleteSourceVectors(r) ==
    /\ pc[r] = "vectors"
    /\ \E o \in Outcomes(TRUE) :
          /\ vec' = Written(o, vec \ sources[r], vec)
          /\ pc' = [pc EXCEPT ![r] = After(o, "mark", "failed")]
          /\ Count(o)
    /\ UNCHANGED <<status, by, emb, link, rec, queued, sources, todo, half, loops, calls, made>>

\* MarkCompacted: those still active; none is an error.
StillActive(r) == {c \in sources[r] : status[c] = "active"}

MarkCompacted(r) ==
    /\ pc[r] = "mark"
    /\ \E o \in Outcomes(StillActive(r) # {} /\ Exists(r)) :
          /\ status' = Written(o, [c \in Chunk |-> IF c \in StillActive(r) THEN "compacted" ELSE status[c]], status)
          /\ by' = Written(o, [c \in Chunk |-> IF c \in StillActive(r) THEN r ELSE by[c]], by)
          /\ emb' = Written(o, emb \ StillActive(r), emb)
          /\ pc' = [pc EXCEPT ![r] = After(o, "record", "failed")]
          /\ Count(o)
    /\ UNCHANGED <<vec, link, rec, queued, sources, todo, half, loops, calls, made>>

CreateRecord(r) ==
    /\ pc[r] = "record"
    /\ \E o \in Outcomes(Exists(r)) :
          /\ rec' = Written(o, [rec EXCEPT ![r] = "present"], rec)
          /\ pc' = [pc EXCEPT ![r] = After(o, "done", "failed")]
          /\ Count(o)
    /\ UNCHANGED <<status, by, emb, vec, link, queued, sources, todo, half, loops, calls, made>>

\* Process returns and the loop is free again; the job's outcome is JobQueue's.
CompactionReturn(w) ==
    /\ busy[w] # None
    /\ pc[busy[w]] \in {"done", "failed"}
    /\ busy' = [busy EXCEPT ![w] = None]
    /\ UNCHANGED <<rows, compact, epc, list, rest, calls, made, faults>>

\* What a call and the worker have in common; of a job, they are steps of the poll
\* loop that is busy with it.
Compacting(r) ==
    \/ SummaryCreate(r) \/ SummaryStore(r) \/ SummarySet(r) \/ SummaryEnqueue(r)
    \/ TransferOut(r) \/ TransferIn(r) \/ DeleteSourceVectors(r) \/ MarkCompacted(r) \/ CreateRecord(r)
-----------------------------------------------------------------------------
(* Uncompact.                                                              *)

UncompactStart(u) ==
    /\ un[u] = "idle"
    /\ \E r \in Compaction :
          /\ rec[r] = "present"
          /\ tgt' = [tgt EXCEPT ![u] = r]
    /\ un' = [un EXCEPT ![u] = "restore"]
    /\ UNCHANGED <<rows, compact, loops, del, made, faults>>

\* Mutant: only the chunks of the record's document.
Restored_OfItsDocument(u) == {c \in Chunk : by[c] = tgt[u] /\ DocOf[c] = DocOf[tgt[u]]}
Restored(u) == {c \in Chunk : by[c] = tgt[u]}

Restore(u) ==
    /\ un[u] = "restore"
    /\ \E o \in Outcomes(TRUE) :
          /\ status' = Written(o, [c \in Chunk |-> IF c \in Restored(u) THEN "active" ELSE status[c]], status)
          /\ by' = Written(o, [c \in Chunk |-> IF c \in Restored(u) THEN None ELSE by[c]], by)
          /\ un' = [un EXCEPT ![u] = After(o, "vector", "failed")]
          /\ Count(o)
    /\ UNCHANGED <<emb, vec, link, rec, queued, compact, loops, tgt, del, made>>

DeleteSummaryVector(u) ==
    /\ un[u] = "vector"
    /\ \E o \in Outcomes(TRUE) :
          /\ vec' = Written(o, vec \ {tgt[u]}, vec)
          /\ un' = [un EXCEPT ![u] = After(o, "record", "failed")]
          /\ Count(o)
    /\ UNCHANGED <<status, by, emb, link, rec, queued, compact, loops, tgt, del, made>>

DeleteRecord(u) ==
    /\ un[u] = "record"
    /\ \E o \in Outcomes(rec[tgt[u]] = "present") :
          /\ rec' = Written(o, [rec EXCEPT ![tgt[u]] = "gone"], rec)
          /\ un' = [un EXCEPT ![u] = After(o, "chunk", "failed")]
          /\ Count(o)
    /\ UNCHANGED <<status, by, emb, vec, link, queued, compact, loops, tgt, del, made>>

DeleteSummary(u) ==
    /\ un[u] = "chunk"
    /\ \E o \in Outcomes(CanDrop(tgt[u])) :
          /\ Drop(o, tgt[u])
          /\ un' = [un EXCEPT ![u] = After(o, "enqueue", "failed")]
          /\ Count(o)
    /\ UNCHANGED <<queued, compact, loops, tgt, del, made>>

\* Mutant: no embedding job for the restored chunks.
Reembed_Never(u) == queued
Reembed(u) == [queued EXCEPT ![DocOf[tgt[u]]] = @ + 1]

\* One job, for the record's document.  The enqueue may fail with a warning only.
RestoredEnqueue(u) ==
    /\ un[u] = "enqueue"
    /\ \E o \in Outcomes(TRUE) :
          /\ queued' = Written(o, Reembed(u), queued)
          /\ Count(o)
    /\ un' = [un EXCEPT ![u] = "done"]
    /\ UNCHANGED <<status, by, emb, vec, link, rec, compact, loops, tgt, del, made>>

Uncompacting(u) ==
    \/ Restore(u) \/ DeleteSummaryVector(u) \/ DeleteRecord(u) \/ DeleteSummary(u) \/ RestoredEnqueue(u)
-----------------------------------------------------------------------------
(* The embedding worker, CreateLink and DeleteChunk.                       *)

\* Mutant: the loop processes a job that ClaimNext did not return.
Waiting_Nil(d) == TRUE
Waiting(d) == queued[d] > 0

\* Mutant: chunks that have their embedding are embedded again.
NeedsEmbedding_All(d) == {c \in Chunk : DocOf[c] = d /\ status[c] = "active"}
NeedsEmbedding(d) == {c \in Chunk : DocOf[c] = d /\ status[c] = "active" /\ c \notin emb}

\* Claim and list; the computation follows, and other steps may come first.
EmbedList(w) ==
    /\ busy[w] = None /\ epc[w] = "idle"
    /\ \E d \in Doc :
          /\ Waiting(d)
          /\ queued' = [queued EXCEPT ![d] = @ - 1]
          /\ list' = [list EXCEPT ![w] = NeedsEmbedding(d)]
          /\ rest' = [rest EXCEPT ![w] = NeedsEmbedding(d)]
          /\ epc' = [epc EXCEPT ![w] = IF NeedsEmbedding(d) = {} THEN "idle" ELSE "store"]
    /\ UNCHANGED <<status, by, emb, vec, link, rec, compact, busy, calls, made, faults>>

\* StoreBatch, up to the first error.
EmbedStore(w) ==
    /\ epc[w] = "store"
    /\ \E c \in rest[w] : \E o \in Outcomes(Exists(c)) :
          /\ vec' = Written(o, vec \union {c}, vec)
          /\ rest' = [rest EXCEPT ![w] = After(o, IF @ = {c} THEN list[w] ELSE @ \ {c}, {})]
          /\ epc' = [epc EXCEPT ![w] = After(o, IF rest[w] = {c} THEN "set" ELSE "store", "idle")]
          /\ Count(o)
    /\ UNCHANGED <<status, by, emb, link, rec, queued, compact, busy, list, calls, made>>

\* SetEmbeddingID, whatever the chunk's status is by now.
EmbedSet(w) ==
    /\ epc[w] = "set"
    /\ \E c \in rest[w] : \E o \in Outcomes(TRUE) :
          /\ emb' = Written(o, emb \union {x \in {c} : Exists(x)}, emb)
          /\ rest' = [rest EXCEPT ![w] = After(o, @ \ {c}, {})]
          /\ epc' = [epc EXCEPT ![w] = After(o, IF rest[w] = {c} THEN "idle" ELSE "set", "idle")]
          /\ Count(o)
    /\ UNCHANGED <<status, by, vec, link, rec, queued, compact, busy, list, calls, made>>

\* CreateLink looks both chunks up; their status does not matter.
CreateLink(l) ==
    /\ made[l] = None
    /\ \E ends \in Linkable :
          /\ Exists(ends[1]) /\ Exists(ends[2])
          /\ link' = [link EXCEPT ![l] = ends]
          /\ made' = [made EXCEPT ![l] = ends]
    /\ UNCHANGED <<status, by, emb, vec, rec, queued, compact, loops, calls, faults>>

DeleteVector(c) ==
    /\ c \in Deletable
    /\ del[c] # "chunk"
    /\ Exists(c)
    /\ \E o \in Outcomes(TRUE) :
          /\ vec' = Written(o, vec \ {c}, vec)
          /\ del' = [del EXCEPT ![c] = After(o, "chunk", "failed")]
          /\ Count(o)
    /\ UNCHANGED <<status, by, emb, link, rec, queued, compact, loops, un, tgt, made>>

DeleteChunk(c) ==
    /\ del[c] = "chunk"
    /\ \E o \in Outcomes(CanDrop(c)) :
          /\ Drop(o, c)
          /\ del' = [del EXCEPT ![c] = After(o, "no", "failed")]
          /\ Count(o)
    /\ UNCHANGED <<queued, compact, loops, un, tgt, made>>

Handler ==
    \/ \E u \in Uncompaction : Uncompacting(u)
    \/ \E c \in Chunk : DeleteChunk(c)

Loop(w) ==
    \/ \E r \in ByJob : CompactionClaim(w, r) \/ (busy[w] = r /\ CompactionList(r))
    \/ CompactionReturn(w)
    \/ EmbedList(w) \/ EmbedStore(w) \/ EmbedSet(w)

Client ==
    \/ \E r \in Compaction : CompactStart(r) \/ RequestCompaction(r)
    \/ \E u \in Uncompaction : UncompactStart(u)
    \/ \E l \in Link : CreateLink(l)
    \/ \E c \in Chunk : DeleteVector(c)

Next == Client \/ Handler \/ (\E r \in Compaction : Compacting(r)) \/ \E w \in Worker : Loop(w)

Spec == Init /\ [][Next]_vars

\* Handlers that have started and poll loops go on; clients owe nothing.
Fairness ==
    /\ \A r \in Compaction : WF_vars(Compacting(r))
    /\ \A u \in Uncompaction : WF_vars(Uncompacting(u))
    /\ \A c \in Chunk : WF_vars(DeleteChunk(c))
    /\ \A w \in Worker : WF_vars(Loop(w))

FairSpec == Spec /\ Fairness
-----------------------------------------------------------------------------
(* Properties.                                                             *)

\* A compacted chunk is never without its replacement: following compacted_by
\* from it ends at an active chunk, whatever is compacted, uncompacted or deleted
\* meanwhile.  (The second part: no set of compacted chunks is closed under it.)
CompactedIsReplaced ==
    LET compacted == {c \in Chunk : status[c] = "compacted"}
    IN /\ \A c \in compacted : by[c] # None /\ Exists(by[c])
       /\ \A S \in SUBSET compacted : S # {} => \E c \in S : by[c] \notin S

\* While a document is compacted, and even when that stops halfway, the content
\* of every chunk stays in the index: an active chunk with a vector stands for it,
\* itself or a summary of it, or of a summary; or one of these summaries is left
\* to an embedding job, since a Compact call came without its embedding.
\* (Until something is uncompacted or deleted: what Uncompact restores is out of
\* the index until it is embedded.)
Later == Compaction \ (ByJob \union WithVector)
Undisturbed == (\A u \in Uncompaction : un[u] = "idle") /\ (\A c \in Chunk : del[c] = "no" /\ status[c] # "gone")
Indexed(c) == status[c] = "active" /\ c \in vec

ContentStaysSearchable ==
    Undisturbed =>
        \A c \in Embedded : \A S \in SUBSET (Chunk \ Later) :
            c \in S /\ (\A x \in S : ~Indexed(x))
                => \E x \in S, r \in Compaction \ S : Exists(r) /\ x \in sources[r]

\* A compacted chunk leaves nothing behind in the index, and no embedding_id that
\* would keep Uncompact from having it embedded again, whatever compactions and
\* embedding jobs overlap: of the chunks that were indexed before and that no
\* Uncompact restores.  (A chunk without its embedding may be in the list of an
\* embedding job, which then indexes it after it is compacted: see
\* ActiveGetsIndexed.)
CompactedIsNotIndexed ==
    \A c \in Embedded :
        status[c] = "compacted" /\ (\A u \in Uncompaction : tgt[u] = None \/ c \notin sources[tgt[u]])
            => c \notin emb \union vec

\* Compaction can be undone: Uncompact finds a record for every compacted chunk, and
\* the record names the chunk, however compactions, restorations and deletions
\* overlap and wherever an Uncompact fails.  Only a compaction that has not come
\* to its last statement, or has failed before it, leaves its chunks without one.
CompactedCanBeRestored ==
    \A c \in Chunk : status[c] = "compacted" =>
        /\ c \in sources[by[c]]
        /\ rec[by[c]] = "present" \/ pc[by[c]] \in {"record", "failed"}

\* API_REFERENCE.md:443: Uncompact gives links back to their chunks; a link
\* goes away only with one of the chunks it was made between.
LinksSurvive ==
    \A l \in Link : made[l] # None /\ link[l] = None
        => \E i \in {1, 2} : status[made[l][i]] = "gone"

\* API_REFERENCE.md:442-444: what is restored is embedded again; no active chunk
\* is left out of the index for ever, unless a statement fails.  The code keeps this
\* with one poll loop, compactions by job, and chunks of the compaction's document:
\* a Compact call or a second loop comes between the statements of an embedding job
\* (EmbedSet), and Uncompact has nothing embedded in other documents
\* (RestoredEnqueue).
ActiveGetsIndexed ==
    \A c \in Chunk : status[c] = "active" ~> c \in emb \intersect vec \/ status[c] # "active" \/ faults > 0
=============================================================================
