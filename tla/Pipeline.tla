------------------------------ MODULE Pipeline ------------------------------
(***************************************************************************)
(* The documents of creel and the background pipeline that makes them      *)
(* searchable: UploadDocument, the extraction, chunking and embedding      *)
(* workers, and the RPCs that touch the same rows meanwhile (IngestChunks, *)
(* DeleteChunk, DeleteDocument, CreateDocument).                           *)
(*                                                                         *)
(* There are no transactions here: every store call is an SQL statement    *)
(* of its own, and one action of this module.  A statement fails when the  *)
(* row it needs is missing (a foreign key, or no row to update), or        *)
(* because the database or a provider does, which the constants bound.     *)
(* ClaimNext is one action: WorkerPool models its transaction.             *)
(***************************************************************************)
EXTENDS Naturals, Statements

CONSTANTS
    Doc,          \* documents
    Uploaded,     \* those that go through UploadDocument; CreateDocument makes the others
    Req,          \* IngestChunks requests
    ReqDoc,       \* the document a request adds to
    ReqSize,      \* the number of chunks it brings
    Supplied,     \* the chunks that come with an embedding
    Pieces,       \* bound: chunks a text is split into
    Worker,       \* poll loops
    MayFail,      \* the statements that may fail (by label)
    LostReplies,  \* whether a failed statement may have taken effect
    MaxFaults,    \* bound: statements that fail
    MaxCrashes,   \* bound: deaths of the server process
    Deletable,    \* documents and chunks that clients delete
    None

Job == (Doc \X {"extraction", "chunking", "embedding"}) \union (Req \X {"embedding"})

\* A chunk is named by what creates it: the chunking job of a document (which
\* runs at most once, see ImplementsQueue) or a request.
Chunk == (Doc \X (1..Pieces)) \union (Req \X (1..ReqSize))

ASSUME PipelineAssumption ==
    /\ Uploaded \subseteq Doc
    /\ Doc \intersect Req = {}
    /\ ReqDoc \in [Req -> Doc]
    /\ ReqSize \in Nat \ {0}
    /\ Supplied \subseteq Chunk
    /\ Pieces \in Nat \ {0}
    /\ Deletable \subseteq Doc \union Chunk
    /\ LostReplies \in BOOLEAN
    /\ MaxFaults \in Nat
    /\ MaxCrashes \in Nat
    /\ None \notin Job /\ None \notin Worker

VARIABLES
    \* the database
    doc,      \* documents.status; "none" before INSERT, "gone" after DELETE
    raw,      \* document_content: no row, or what ExtractText makes of it
    text,     \* whether extracted_text is not empty
    job,      \* processing_jobs.status
    chunk,    \* chunks: "none", "active", "gone"
    emb,      \* chunks whose embedding_id is set
    vec,      \* ids in the vector backend
    \* the poll loops
    pc, cur,  \* where a worker is, and the job it processes
    left,     \* chunking: chunks still to create, in order
    list,     \* embedding: the chunks found without an embedding
    todo,     \* embedding: those the current loop has not reached yet
    \* the RPC handlers
    up,       \* UploadDocument, per document
    ing, at,  \* IngestChunks, per request: where it is, and at which chunk
    del,      \* DeleteChunk, per chunk
    \* history and environment
    pieces,   \* how many chunks the text of a document was split into; 0: not yet
    faults, crashes

rows     == <<doc, raw, text, job, chunk, emb, vec>>
loops    == <<pc, cur, left, list, todo>>
handlers == <<up, ing, at, del>>
vars     == <<rows, loops, handlers, pieces, faults, crashes>>

DocOf(x) == IF x[1] \in Doc THEN x[1] ELSE ReqDoc[x[1]]
ChunksOf(d) == {c \in Chunk : DocOf(c) = d}
\* Mutant: nothing checks that the document is still there.
Exists_NoForeignKey(d) == doc[d] # "none"
Exists(d) == doc[d] \notin {"none", "gone"}

DocStatus == {"none", "pending", "processing", "ready", "failed", "gone"}
Content   == {"text", "blank", "unsupported"}
Body      == {"x.read", "x.save", "x.next", "c.read", "c.split", "c.chunk", "c.next",
              "e.list", "e.embed", "e.store", "e.set"}
Record    == {"completed", "failed"}
PC        == {"idle", "x.start", "e.ready", "fail"} \union Body \union Record

TypeOK ==
    /\ doc \in [Doc -> DocStatus]
    /\ raw \in [Doc -> Content \union {None}]
    /\ text \in [Doc -> BOOLEAN]
    /\ job \in [Job -> {"none", "queued", "running", "completed", "failed", "gone"}]
    /\ chunk \in [Chunk -> {"none", "active", "gone"}]
    /\ emb \subseteq Chunk /\ vec \subseteq Chunk
    /\ pc \in [Worker -> PC]
    /\ cur \in [Worker -> Job \union {None}]
    /\ \A w \in Worker : pc[w] # "idle" => cur[w] # None
    /\ left \in [Worker -> 0..Pieces]
    /\ list \in [Worker -> SUBSET Chunk]
    /\ todo \in [Worker -> SUBSET Chunk]
    /\ up \in [Doc -> {"idle", "save", "enqueue", "accepted", "error"}]
    /\ ing \in [Req -> {"idle", "create", "store", "set", "enqueue", "done"}]
    /\ at \in [Req -> 0..ReqSize]
    /\ del \in [Chunk -> {"no", "chunk", "torn"}]
    /\ pieces \in [Doc -> 0..Pieces]
    /\ faults \in 0..MaxFaults /\ crashes \in 0..MaxCrashes

Init ==
    /\ doc = [d \in Doc |-> "none"]
    /\ raw = [d \in Doc |-> None]
    /\ text = [d \in Doc |-> FALSE]
    /\ job = [j \in Job |-> "none"]
    /\ chunk = [c \in Chunk |-> "none"]
    /\ emb = {} /\ vec = {}
    /\ pc = [w \in Worker |-> "idle"]
    /\ cur = [w \in Worker |-> None]
    /\ left = [w \in Worker |-> 0]
    /\ list = [w \in Worker |-> {}]
    /\ todo = [w \in Worker |-> {}]
    /\ up = [d \in Doc |-> "idle"]
    /\ ing = [r \in Req |-> "idle"]
    /\ at = [r \in Req |-> 0]
    /\ del = [c \in Chunk |-> "no"]
    /\ pieces = [d \in Doc |-> 0]
    /\ faults = 0 /\ crashes = 0

-----------------------------------------------------------------------------
(* Statements.                                                             *)

\* How the statement labelled l can end when `can` says whether the rows it
\* needs exist.
Outcomes(l, can) == Ends(can, l \in MayFail /\ faults < MaxFaults, LostReplies)

Count(o) == faults' = IF Failed(o) THEN faults + 1 ELSE faults

\* INSERT INTO processing_jobs: refused when the document does not exist.
Enqueue(o, j) == job' = Written(o, [job EXCEPT ![j] = "queued"], job)

\* DocumentStore.UpdateStatus, unconditional on the status.
SetDoc(o, d, st) == doc' = Written(o, [doc EXCEPT ![d] = st], doc)
-----------------------------------------------------------------------------
(* The RPC handlers.                                                       *)

\* CreateDocument: one INSERT with status ready.
CreateDocument(d) ==
    /\ d \notin Uploaded
    /\ doc[d] = "none"
    /\ doc' = [doc EXCEPT ![d] = "ready"]
    /\ UNCHANGED <<raw, text, job, chunk, emb, vec, loops, handlers, pieces, faults, crashes>>

\* UploadDocument inserts the document ...
UploadCreate(d) ==
    /\ d \in Uploaded
    /\ up[d] = "idle"
    /\ \E o \in Outcomes("u.create", TRUE) :
          /\ SetDoc(o, d, "pending")
          /\ up' = [up EXCEPT ![d] = After(o, "save", "error")]
          /\ Count(o)
    /\ UNCHANGED <<raw, text, job, chunk, emb, vec, loops, ing, at, del, pieces, crashes>>

\* ... then saves its content ...
UploadSave(d) ==
    /\ up[d] = "save"
    /\ \E o \in Outcomes("u.save", Exists(d)) :
          /\ \E k \in Content : raw' = Written(o, [raw EXCEPT ![d] = k], raw)
          /\ up' = [up EXCEPT ![d] = After(o, "enqueue", "error")]
          /\ Count(o)
    /\ UNCHANGED <<doc, text, job, chunk, emb, vec, loops, ing, at, del, pieces, crashes>>

\* ... then enqueues its extraction; an error undoes none of the earlier steps.
UploadEnqueue(d) ==
    /\ up[d] = "enqueue"
    /\ \E o \in Outcomes("u.job", Exists(d)) :
          /\ Enqueue(o, <<d, "extraction">>)
          /\ up' = [up EXCEPT ![d] = After(o, "accepted", "error")]
          /\ Count(o)
    /\ UNCHANGED <<doc, raw, text, chunk, emb, vec, loops, ing, at, del, pieces, crashes>>

\* The rows that go with a document: its content, jobs, chunks and, with
\* these, their vectors (ON DELETE CASCADE).
DeleteDocument(d) ==
    /\ d \in Deletable
    /\ Exists(d)
    /\ doc' = [doc EXCEPT ![d] = "gone"]
    /\ raw' = [raw EXCEPT ![d] = None]
    /\ text' = [text EXCEPT ![d] = FALSE]
    /\ job' = [j \in Job |-> IF DocOf(j) = d /\ job[j] # "none" THEN "gone" ELSE job[j]]
    /\ chunk' = [c \in Chunk |-> IF c \in ChunksOf(d) /\ chunk[c] # "none" THEN "gone" ELSE chunk[c]]
    /\ emb' = emb \ ChunksOf(d)
    /\ vec' = vec \ ChunksOf(d)
    /\ UNCHANGED <<loops, handlers, pieces, faults, crashes>>

\* IngestChunks checks the document, then goes through its chunks ...
IngestStart(r) ==
    /\ ing[r] = "idle"
    /\ Exists(ReqDoc[r])
    /\ ing' = [ing EXCEPT ![r] = "create"]
    /\ at' = [at EXCEPT ![r] = 1]
    /\ UNCHANGED <<rows, loops, up, del, pieces, faults, crashes>>

Current(r) == <<r, at[r]>>
\* Mutant: a job only when no chunk came with an embedding.
NeedsEmbedding_All(r) == \A i \in 1..ReqSize : <<r, i>> \notin Supplied
NeedsEmbedding(r) == \E i \in 1..ReqSize : <<r, i>> \notin Supplied

\* Where the handler goes when it is done with the current chunk.
NextChunk(r) ==
    IF at[r] < ReqSize THEN "create" ELSE IF NeedsEmbedding(r) THEN "enqueue" ELSE "done"

Advance(r, o, next) ==
    /\ ing' = [ing EXCEPT ![r] = After(o, next, "done")]
    /\ at' = [at EXCEPT ![r] = IF o = "ok" /\ next = "create" THEN @ + 1 ELSE @]

\* ... inserting each ...
IngestCreate(r) ==
    /\ ing[r] = "create"
    /\ \E o \in Outcomes("i.create", Exists(ReqDoc[r])) :
          /\ chunk' = Written(o, [chunk EXCEPT ![Current(r)] = "active"], chunk)
          /\ Advance(r, o, IF Current(r) \in Supplied THEN "store" ELSE NextChunk(r))
          /\ Count(o)
    /\ UNCHANGED <<doc, raw, text, job, emb, vec, loops, up, del, pieces, crashes>>

\* ... storing the embedding it came with (the row refers to the chunk) ...
IngestStore(r) ==
    /\ ing[r] = "store"
    /\ \E o \in Outcomes("i.store", chunk[Current(r)] = "active") :
          /\ vec' = Written(o, vec \union {Current(r)}, vec)
          /\ Advance(r, o, "set")
          /\ Count(o)
    /\ UNCHANGED <<doc, raw, text, job, chunk, emb, loops, up, del, pieces, crashes>>

\* ... and setting its embedding_id; no row to update is not an error.
IngestSet(r) ==
    /\ ing[r] = "set"
    /\ \E o \in Outcomes("i.set", TRUE) :
          /\ emb' = Written(o, emb \union {c \in {Current(r)} : chunk[c] = "active"}, emb)
          /\ Advance(r, o, NextChunk(r))
          /\ Count(o)
    /\ UNCHANGED <<doc, raw, text, job, chunk, vec, loops, up, del, pieces, crashes>>

\* In the end it enqueues an embedding job for those that came without; the
\* error is ignored.
IngestEnqueue(r) ==
    /\ ing[r] = "enqueue"
    /\ \E o \in Outcomes("i.job", Exists(ReqDoc[r])) :
          /\ Enqueue(o, <<r, "embedding">>)
          /\ Count(o)
    /\ ing' = [ing EXCEPT ![r] = "done"]
    /\ UNCHANGED <<doc, raw, text, chunk, emb, vec, loops, up, at, del, pieces, crashes>>

\* DeleteChunk removes the vector first ...
DeleteVector(c) ==
    /\ c \in Deletable
    /\ del[c] # "chunk"
    /\ chunk[c] = "active"
    /\ \E o \in Outcomes("d.vec", TRUE) :
          /\ vec' = Written(o, vec \ {c}, vec)
          /\ del' = [del EXCEPT ![c] = After(o, "chunk", Written(o, "torn", @))]
          /\ Count(o)
    /\ UNCHANGED <<doc, raw, text, job, chunk, emb, loops, up, ing, at, pieces, crashes>>

\* ... then the chunk, with a vector stored in between.
DeleteChunk(c) ==
    /\ del[c] = "chunk"
    /\ \E o \in Outcomes("d.chunk", chunk[c] = "active") :
          /\ chunk' = Written(o, [chunk EXCEPT ![c] = "gone"], chunk)
          /\ emb' = Written(o, emb \ {c}, emb)
          /\ vec' = Written(o, vec \ {c}, vec)
          /\ del' = [del EXCEPT ![c] = After(o, "no", "torn")]
          /\ Count(o)
    /\ UNCHANGED <<doc, raw, text, job, loops, up, ing, at, pieces, crashes>>

Handler ==
    \/ \E d \in Doc : UploadSave(d) \/ UploadEnqueue(d)
    \/ \E r \in Req : IngestCreate(r) \/ IngestStore(r) \/ IngestSet(r) \/ IngestEnqueue(r)
    \/ \E c \in Chunk : DeleteChunk(c)

Client ==
    \/ \E d \in Doc : CreateDocument(d) \/ UploadCreate(d) \/ DeleteDocument(d)
    \/ \E r \in Req : IngestStart(r)
    \/ \E c \in Chunk : DeleteVector(c)
-----------------------------------------------------------------------------
(* The poll loops: one disjunct per statement of a Process function.       *)

D(w) == DocOf(cur[w])
Goto(w, l) == pc' = [pc EXCEPT ![w] = l]
StartOf(j) == CASE j[2] = "extraction" -> "x.start"
                [] j[2] = "chunking"   -> "c.read"
                [] j[2] = "embedding"  -> "e.list"

\* Mutant: failed jobs are taken again.
Claimable_Retry(j) == job[j] \in {"queued", "failed"}
\* Mutant: nobody registers the chunking worker.
Claimable_Unregistered(j) == job[j] = "queued" /\ j[2] # "chunking"
Claimable(j) == job[j] = "queued"

\* ClaimNext and the start of Process; a lost reply leaves the job running.
Claim(w) ==
    /\ pc[w] = "idle"
    /\ \E j \in Job, o \in Outcomes("claim", TRUE) :
          /\ Claimable(j)
          /\ job' = Written(o, [job EXCEPT ![j] = "running"], job)
          /\ cur' = [cur EXCEPT ![w] = After(o, j, None)]
          /\ Goto(w, After(o, StartOf(j), "idle"))
          /\ Count(o)
    /\ UNCHANGED <<doc, raw, text, chunk, emb, vec, left, list, todo, handlers, pieces, crashes>>

\* Extraction marks the document as processing; an error ends the job at once.
ExtractStart(w) ==
    /\ pc[w] = "x.start"
    /\ \E o \in Outcomes("x.start", Exists(D(w))) :
          /\ SetDoc(o, D(w), "processing")
          /\ Goto(w, After(o, "x.read", "failed"))
          /\ Count(o)
    /\ UNCHANGED <<raw, text, job, chunk, emb, vec, cur, left, list, todo, handlers, pieces, crashes>>

\* GetContent and ExtractText, which refuses types it does not know.
ExtractRead(w) ==
    /\ pc[w] = "x.read"
    /\ \E o \in Outcomes("x.read", raw[D(w)] \in {"text", "blank"}) :
          /\ Goto(w, After(o, "x.save", "fail"))
          /\ Count(o)
    /\ UNCHANGED <<rows, cur, left, list, todo, handlers, pieces, crashes>>

\* SaveExtractedText.  The content read before is the one of the row: nothing
\* writes it again.
ExtractSave(w) ==
    /\ pc[w] = "x.save"
    /\ \E o \in Outcomes("x.save", raw[D(w)] # None) :
          /\ text' = Written(o, [text EXCEPT ![D(w)] = raw[D(w)] = "text"], text)
          /\ Goto(w, After(o, "x.next", "fail"))
          /\ Count(o)
    /\ UNCHANGED <<doc, raw, job, chunk, emb, vec, cur, left, list, todo, handlers, pieces, crashes>>

ExtractEnqueue(w) ==
    /\ pc[w] = "x.next"
    /\ \E o \in Outcomes("x.next", Exists(D(w))) :
          /\ Enqueue(o, <<D(w), "chunking">>)
          /\ Goto(w, After(o, "completed", "fail"))
          /\ Count(o)
    /\ UNCHANGED <<doc, raw, text, chunk, emb, vec, cur, left, list, todo, handlers, pieces, crashes>>

\* Chunking reads the extracted text; an empty one is an error.
ChunkRead(w) ==
    /\ pc[w] = "c.read"
    /\ \E o \in Outcomes("c.read", text[D(w)]) :
          /\ Goto(w, After(o, "c.split", "fail"))
          /\ Count(o)
    /\ UNCHANGED <<rows, cur, left, list, todo, handlers, pieces, crashes>>

\* Mutant: no error for a text without chunks.
Sizes_Empty == 0..Pieces
Sizes == 1..Pieces

\* It looks up the topic and its strategy and splits the text, by size or by
\* asking the LLM: at least one chunk, or an error.
ChunkSplit(w) ==
    /\ pc[w] = "c.split"
    /\ \E o \in Outcomes("c.split", Exists(D(w))), n \in Sizes :
          /\ left' = [left EXCEPT ![w] = IF o = "ok" THEN n ELSE @]
          /\ pieces' = [pieces EXCEPT ![D(w)] = IF o = "ok" THEN n ELSE @]
          /\ Goto(w, After(o, "c.chunk", "fail"))
          /\ Count(o)
    /\ UNCHANGED <<rows, cur, list, todo, handlers, crashes>>

\* Mutant: the error of the INSERT is dropped.
NextPiece_Unchecked(o, w) == IF left[w] = 1 THEN "c.next" ELSE "c.chunk"
NextPiece(o, w) == After(o, IF left[w] = 1 THEN "c.next" ELSE "c.chunk", "fail")

\* It inserts the chunks one by one, in order, up to the first error.
ChunkCreate(w) ==
    /\ pc[w] = "c.chunk"
    /\ \E o \in Outcomes("c.chunk", Exists(D(w))) :
          /\ LET c == <<D(w), pieces[D(w)] - left[w] + 1>>
             IN chunk' = Written(o, [chunk EXCEPT ![c] = "active"], chunk)
          /\ left' = [left EXCEPT ![w] = @ - 1]
          /\ Goto(w, NextPiece(o, w))
          /\ Count(o)
    /\ UNCHANGED <<doc, raw, text, job, emb, vec, cur, list, todo, handlers, pieces, crashes>>

ChunkEnqueue(w) ==
    /\ pc[w] = "c.next"
    /\ \E o \in Outcomes("c.next", Exists(D(w))) :
          /\ Enqueue(o, <<D(w), "embedding">>)
          /\ Goto(w, After(o, "completed", "fail"))
          /\ Count(o)
    /\ UNCHANGED <<doc, raw, text, chunk, emb, vec, cur, left, list, todo, handlers, pieces, crashes>>

\* Embedding lists the active chunks and keeps those without an embedding_id.
Unembedded(d) == {c \in ChunksOf(d) : chunk[c] = "active" /\ c \notin emb}

EmbedList(w) ==
    /\ pc[w] = "e.list"
    /\ \E o \in Outcomes("e.list", TRUE) :
          /\ list' = [list EXCEPT ![w] = IF o = "ok" THEN Unembedded(D(w)) ELSE {}]
          /\ Goto(w, After(o, IF Unembedded(D(w)) = {} THEN "e.ready" ELSE "e.embed", "fail"))
          /\ Count(o)
    /\ UNCHANGED <<rows, cur, left, todo, handlers, pieces, crashes>>

\* The provider returns one embedding per text, or there is an error.
EmbedCompute(w) ==
    /\ pc[w] = "e.embed"
    /\ \E o \in Outcomes("e.embed", TRUE) :
          /\ todo' = [todo EXCEPT ![w] = IF o = "ok" THEN list[w] ELSE {}]
          /\ Goto(w, After(o, "e.store", "fail"))
          /\ Count(o)
    /\ UNCHANGED <<rows, cur, left, list, handlers, pieces, crashes>>

\* Mutant: the batch goes on after an error.
EmbedStore_Continue(w) ==
    /\ pc[w] = "e.store"
    /\ \E c \in todo[w] : \E o \in Outcomes("e.store", chunk[c] = "active") :
          /\ vec' = Written(o, vec \union {c}, vec)
          /\ todo' = [todo EXCEPT ![w] = IF @ = {c} THEN list[w] ELSE @ \ {c}]
          /\ Goto(w, IF todo[w] = {c} THEN "e.set" ELSE "e.store")
          /\ Count(o)
    /\ UNCHANGED <<doc, raw, text, job, chunk, emb, cur, left, list, handlers, pieces, crashes>>

\* StoreBatch stores them one by one (their order, the sequence numbers, is up
\* to the clients) and stops at the first error: a chunk deleted meanwhile.
EmbedStore(w) ==
    /\ pc[w] = "e.store"
    /\ \E c \in todo[w] : \E o \in Outcomes("e.store", chunk[c] = "active") :
          /\ vec' = Written(o, vec \union {c}, vec)
          /\ todo' = [todo EXCEPT ![w] = CASE o # "ok" -> {}
                                           [] o = "ok" /\ @ = {c} -> list[w]
                                           [] OTHER -> @ \ {c}]
          /\ Goto(w, After(o, IF todo[w] = {c} THEN "e.set" ELSE "e.store", "fail"))
          /\ Count(o)
    /\ UNCHANGED <<doc, raw, text, job, chunk, emb, cur, left, list, handlers, pieces, crashes>>

\* SetEmbeddingID for each of them, whatever became of the chunk.
EmbedSet(w) ==
    /\ pc[w] = "e.set"
    /\ \E c \in todo[w] : \E o \in Outcomes("e.set", TRUE) :
          /\ emb' = Written(o, emb \union {x \in {c} : chunk[x] = "active"}, emb)
          /\ todo' = [todo EXCEPT ![w] = IF o = "ok" THEN @ \ {c} ELSE {}]
          /\ Goto(w, After(o, IF todo[w] = {c} THEN "e.ready" ELSE "e.set", "fail"))
          /\ Count(o)
    /\ UNCHANGED <<doc, raw, text, job, chunk, vec, cur, left, list, handlers, pieces, crashes>>

\* The document is ready; an error here leaves its status as it is.
EmbedReady(w) ==
    /\ pc[w] = "e.ready"
    /\ \E o \in Outcomes("e.ready", Exists(D(w))) :
          /\ SetDoc(o, D(w), "ready")
          /\ Goto(w, After(o, "completed", "failed"))
          /\ Count(o)
    /\ UNCHANGED <<raw, text, job, chunk, emb, vec, cur, left, list, todo, handlers, pieces, crashes>>

\* Mutant: the error leaves the document's status alone.
MarkFailed_OnlyLogs(w) ==
    /\ pc[w] = "fail"
    /\ Goto(w, "failed")
    /\ UNCHANGED <<rows, cur, left, list, todo, handlers, pieces, faults, crashes>>

\* Any other error: the document is marked failed, if that succeeds, and
\* Process returns an error in both cases.
MarkFailed(w) ==
    /\ pc[w] = "fail"
    /\ \E o \in Outcomes("fail", Exists(D(w))) :
          /\ SetDoc(o, D(w), "failed")
          /\ Count(o)
    /\ Goto(w, "failed")
    /\ UNCHANGED <<raw, text, job, chunk, emb, vec, cur, left, list, todo, handlers, pieces, crashes>>

\* tryProcess records the outcome; an error is only logged.
RecordOutcome(w) ==
    /\ pc[w] \in Record
    /\ \E o \in Outcomes("record", job[cur[w]] # "gone") :
          /\ job' = Written(o, [job EXCEPT ![cur[w]] = pc[w]], job)
          /\ Count(o)
    /\ Goto(w, "idle")
    /\ cur' = [cur EXCEPT ![w] = None]
    /\ left' = [left EXCEPT ![w] = 0]
    /\ list' = [list EXCEPT ![w] = {}]
    /\ todo' = [todo EXCEPT ![w] = {}]
    /\ UNCHANGED <<doc, raw, text, chunk, emb, vec, handlers, pieces, crashes>>

Step(w) ==
    \/ Claim(w)
    \/ ExtractStart(w) \/ ExtractRead(w) \/ ExtractSave(w) \/ ExtractEnqueue(w)
    \/ ChunkRead(w) \/ ChunkSplit(w) \/ ChunkCreate(w) \/ ChunkEnqueue(w)
    \/ EmbedList(w) \/ EmbedCompute(w) \/ EmbedStore(w) \/ EmbedSet(w) \/ EmbedReady(w)
    \/ MarkFailed(w) \/ RecordOutcome(w)

\* The server process dies and starts anew: poll loops and handlers are gone,
\* the rows stay.
Crash ==
    /\ crashes < MaxCrashes
    /\ crashes' = crashes + 1
    /\ pc' = [w \in Worker |-> "idle"]
    /\ cur' = [w \in Worker |-> None]
    /\ left' = [w \in Worker |-> 0]
    /\ list' = [w \in Worker |-> {}]
    /\ todo' = [w \in Worker |-> {}]
    /\ up' = [d \in Doc |-> IF up[d] \in {"save", "enqueue"} THEN "error" ELSE up[d]]
    /\ ing' = [r \in Req |-> IF ing[r] = "idle" THEN "idle" ELSE "done"]
    /\ del' = [c \in Chunk |-> IF del[c] = "chunk" THEN "torn" ELSE del[c]]
    /\ UNCHANGED <<rows, at, pieces, faults>>

Next == Client \/ Handler \/ (\E w \in Worker : Step(w)) \/ Crash

Spec == Init /\ [][Next]_vars

\* The poll loops keep running, and so do handlers once they have started.
\* Clients owe nothing.
Fairness ==
    /\ \A w \in Worker : WF_vars(Step(w))
    /\ \A d \in Doc : WF_vars(UploadSave(d) \/ UploadEnqueue(d))
    /\ \A r \in Req : WF_vars(IngestCreate(r) \/ IngestStore(r) \/ IngestSet(r) \/ IngestEnqueue(r))
    /\ \A c \in Chunk : WF_vars(DeleteChunk(c))

FairSpec == Spec /\ Fairness
-----------------------------------------------------------------------------
(* Properties.                                                             *)

Held(j) == \E w \in Worker : cur[w] = j
Holder  == [j \in Job |-> IF Held(j) THEN CHOOSE w \in Worker : cur[w] = j ELSE None]
Queue   == INSTANCE JobQueue WITH Goroutine <- Worker, NoOne <- None,
                                  status <- job, holder <- Holder

\* Each job of the pipeline is created once, handed to one worker, and ended by
\* it: the workers, the handlers and the cascades implement the job queue.
ImplementsQueue == Queue!Spec

\* Chunks of the text of d that no client deleted, or is about to.
Kept(d) == {c \in {d} \X (1..pieces[d]) : chunk[c] # "gone" /\ del[c] = "no"}

\* A document reaches ready only with its whole text in the index, whatever
\* statements failed, or succeeded without an answer, and whenever the process
\* died.  (Of a document that also gets chunks from IngestChunks this is not
\* true: the embedding job of a request makes a failed document ready.)
ReadyIsSearchable ==
    \A d \in Uploaded :
        doc[d] = "ready" /\ (\A r \in Req : ReqDoc[r] # d)
            => /\ pieces[d] > 0
               /\ \A c \in Kept(d) : chunk[c] = "active" /\ c \in emb \intersect vec

\* An accepted document that is still pending or processing has a job that will
\* move it on, as long as what fails are the steps Process handles.
NoOrphanedDocument ==
    crashes = 0 /\ MayFail \subseteq Body =>
        \A d \in Doc :
            up[d] = "accepted" /\ doc[d] \in {"pending", "processing"}
                => \E j \in Job : DocOf(j) = d /\ (job[j] = "queued" \/ Held(j))

\* embedding_id says there is a vector, except for a chunk whose deletion has
\* got halfway: the embedding loop sets none for a vector it did not store.
IndexedChunksHaveVectors ==
    \A c \in emb : c \in vec \/ del[c] \in {"chunk", "torn"}

\* Handlers and workers that were at work on a document when it was deleted
\* bring none of its rows back.
NothingOutlivesItsDocument ==
    \A d \in Doc : doc[d] = "gone" =>
        /\ raw[d] = None /\ ~text[d]
        /\ \A c \in ChunksOf(d) : chunk[c] # "active" /\ c \notin emb \union vec
        /\ \A j \in Job : DocOf(j) = d => job[j] \in {"none", "gone"}

\* Unless a reply is lost or a request adds chunks, ready and failed are final:
\* no job of an earlier stage comes after the outcome.
OutcomeIsFinal ==
    [][\A d \in Uploaded :
         /\ doc[d] \in {"ready", "failed"}
         /\ ~LostReplies
         /\ \A r \in Req : ReqDoc[r] # d
         => doc'[d] \in {doc[d], "gone"}]_vars

\* ARCHITECTURE.md:175: an uploaded document ends at ready or failed, or its
\* owner deletes it.
UploadSettles ==
    \A d \in Doc : up[d] = "accepted" ~> doc[d] \in {"ready", "failed", "gone"}

\* API_REFERENCE.md:222: a chunk ingested without an embedding gets one from the
\* embedding job, or is deleted, unless a statement fails or the process dies.
\* Where the code does less than that: when a client deletes a chunk that the job
\* has listed, StoreBatch stops at it (pgvector.go:135), and the chunks behind it
\* are never embedded.  So only for documents no chunk of which is deleted alone.
ChunksDeleted(d) == \E c \in ChunksOf(d) : del[c] # "no" \/ (chunk[c] = "gone" /\ Exists(d))

ChunkGetsIndexed ==
    \A c \in Req \X (1..ReqSize) :
        chunk[c] = "active"
            ~> \/ c \in emb \intersect vec
               \/ chunk[c] = "gone"
               \/ ChunksDeleted(DocOf(c))
               \/ faults + crashes > 0
=============================================================================
