--------------------------- MODULE PipelineProofs ---------------------------
(***************************************************************************)
(* What Pipeline guarantees for every set of documents, requests and poll  *)
(* loops, every number of chunks, and any number of failing statements and *)
(* process deaths.                                                         *)
(*                                                                         *)
(* The theorems rest on the discipline of the jobs (QInv, inductive        *)
(* together with the types): a loop is at a stage of its own job, which is *)
(* running or gone and which no other loop has, and whoever inserts a job  *)
(* inserts it for the first time.  The last three follow what the jobs     *)
(* write: the outcome (FInv), vectors and ids (VInv, with Forward, what no *)
(* step undoes), and the chunks of a document that is ready (RInv).        *)
(***************************************************************************)
EXTENDS Pipeline, TLAPS

-----------------------------------------------------------------------------
(* Type correctness.                                                       *)

\* TypeOK is not inductive: the counts of IngestChunks and of the chunking loop
\* stay in range because neither goes on past the last chunk.
TInv ==
    /\ TypeOK
    /\ \A r \in Req : ing[r] \in {"create", "store", "set"} => at[r] \in 1..ReqSize
    /\ \A w \in Worker : pc[w] = "c.chunk" => left[w] # 0

\* A statement ends in one of four ways, and fails only when it may.
LEMMA OutcomeFact ==
    ASSUME NEW l, NEW can, NEW o \in Outcomes(l, can)
    PROVE  /\ o \in {"ok", "refused", "fault", "lost"}
           /\ Failed(o) => l \in MayFail /\ faults < MaxFaults
           /\ o \in {"ok", "lost"} => can
           /\ o = "refused" => ~can
  BY DEF Outcomes, Ends, Failed

\* The fault counter stays within its bound.
LEMMA CountType ==
    ASSUME TInv, NEW l, NEW can, NEW o \in Outcomes(l, can), Count(o)
    PROVE  faults' \in 0..MaxFaults
  BY OutcomeFact, PipelineAssumption DEF Count, TInv, TypeOK

\* The document a job or a chunk belongs to.
LEMMA DocOfType ==
    ASSUME NEW x \in Job \union Chunk
    PROVE  DocOf(x) \in Doc
  BY PipelineAssumption DEF Job, Chunk, DocOf

\* IngestChunks moves on within the request.
LEMMA AdvanceType ==
    ASSUME TInv, NEW r \in Req, ing[r] \in {"create", "store", "set"}, NEW o,
           NEW next \in {"create", "store", "set", "enqueue", "done"},
           next = "create" => at[r] < ReqSize,
           Advance(r, o, next)
    PROVE  /\ ing' \in [Req -> {"idle", "create", "store", "set", "enqueue", "done"}]
           /\ at' \in [Req -> 0..ReqSize]
           /\ \A q \in Req : ing'[q] \in {"create", "store", "set"} => at'[q] \in 1..ReqSize
  BY PipelineAssumption DEF TInv, TypeOK, Advance, After

\* The steps of clients keep the types.
LEMMA ClientType ==
    ASSUME TInv, Client
    PROVE  TInv'
<1> USE PipelineAssumption DEF TInv, TypeOK, DocStatus, rows, loops, handlers, Written, After
<1>1. ASSUME NEW d \in Doc, CreateDocument(d) PROVE TInv'
  BY <1>1 DEF CreateDocument
<1>2. ASSUME NEW d \in Doc, UploadCreate(d) PROVE TInv'
  BY ZenonT(60), <1>2, CountType DEF UploadCreate, SetDoc
<1>3. ASSUME NEW d \in Doc, DeleteDocument(d) PROVE TInv'
  BY <1>3 DEF DeleteDocument
<1>4. ASSUME NEW r \in Req, IngestStart(r) PROVE TInv'
  BY <1>4 DEF IngestStart
<1>5. ASSUME NEW c \in Chunk, DeleteVector(c) PROVE TInv'
  BY <1>5, CountType DEF DeleteVector
<1> QED BY <1>1, <1>2, <1>3, <1>4, <1>5 DEF Client

\* So do those of the handlers.
LEMMA HandlerType ==
    ASSUME TInv, Handler
    PROVE  TInv'
<1> USE PipelineAssumption DEF TInv, TypeOK, Content, rows, loops, handlers, Written
<1>0. ASSUME NEW r \in Req
      PROVE  /\ NextChunk(r) \in {"create", "enqueue", "done"}
             /\ NextChunk(r) = "create" => at[r] < ReqSize
             /\ ing[r] \in {"create", "store", "set"} => Current(r) \in Chunk
  BY DEF NextChunk, Current, Chunk
<1>1. ASSUME NEW d \in Doc, UploadSave(d) PROVE TInv'
  BY <1>1, CountType DEF UploadSave, After
<1>2. ASSUME NEW d \in Doc, UploadEnqueue(d) PROVE TInv'
  BY <1>2, CountType DEF UploadEnqueue, Enqueue, After
<1>3. ASSUME NEW r \in Req, IngestCreate(r) PROVE TInv'
  BY <1>0, <1>3, CountType, AdvanceType DEF IngestCreate
<1>4. ASSUME NEW r \in Req, IngestStore(r) PROVE TInv'
  BY <1>0, <1>4, CountType, AdvanceType DEF IngestStore
<1>5. ASSUME NEW r \in Req, IngestSet(r) PROVE TInv'
  <2>1. PICK o \in Outcomes("i.set", TRUE) :
          /\ emb' = IF o \in {"ok", "lost"} THEN emb \union {c \in {Current(r)} : chunk[c] = "active"} ELSE emb
          /\ Advance(r, o, NextChunk(r))
          /\ Count(o)
    BY <1>5 DEF IngestSet
  <2>2. emb' \subseteq Chunk
    BY <1>0, <1>5, <2>1 DEF IngestSet
  <2>3. faults' \in 0..MaxFaults
    BY <2>1, CountType
  <2>4. /\ ing' \in [Req -> {"idle", "create", "store", "set", "enqueue", "done"}]
        /\ at' \in [Req -> 0..ReqSize]
        /\ \A q \in Req : ing'[q] \in {"create", "store", "set"} => at'[q] \in 1..ReqSize
    BY <1>0, <1>5, <2>1, AdvanceType DEF IngestSet
  <2> QED BY <1>5, <2>2, <2>3, <2>4 DEF IngestSet
<1>6. ASSUME NEW r \in Req, IngestEnqueue(r) PROVE TInv'
  BY <1>6, CountType DEF IngestEnqueue, Enqueue
<1>7. ASSUME NEW c \in Chunk, DeleteChunk(c) PROVE TInv'
  BY <1>7, CountType DEF DeleteChunk, After
<1> QED BY <1>1, <1>2, <1>3, <1>4, <1>5, <1>6, <1>7 DEF Handler

\* So do the statements of the workers.
LEMMA StepType ==
    ASSUME TInv, NEW w \in Worker, Step(w)
    PROVE  TInv'
<1> USE PipelineAssumption DEF TInv, TypeOK, PC, Body, Record, rows, loops, handlers, Written, After, Goto
<1>0. pc[w] # "idle" => cur[w] \in Job /\ D(w) \in Doc
  BY DocOfType DEF D
<1>1. CASE Claim(w)
  <2>1. \A j \in Job : StartOf(j) \in {"x.start", "c.read", "e.list"}
    BY DEF StartOf, Job
  <2>2. PICK j \in Job, o \in Outcomes("claim", TRUE) :
          /\ job' = IF o \in {"ok", "lost"} THEN [job EXCEPT ![j] = "running"] ELSE job
          /\ cur' = [cur EXCEPT ![w] = IF o = "ok" THEN j ELSE None]
          /\ pc' = [pc EXCEPT ![w] = IF o = "ok" THEN StartOf(j) ELSE "idle"]
          /\ Count(o)
    BY <1>1 DEF Claim
  <2>3. faults' \in 0..MaxFaults
    BY <2>2, CountType
  <2>4. UNCHANGED <<doc, raw, text, chunk, emb, vec, left, list, todo, handlers, pieces, crashes>>
    BY <1>1 DEF Claim
  <2> QED BY <2>1, <2>2, <2>3, <2>4
<1>2. CASE ExtractStart(w)
  BY <1>0, <1>2, CountType DEF ExtractStart, SetDoc, DocStatus
<1>3. CASE ExtractRead(w)
  BY <1>0, <1>3, CountType DEF ExtractRead
<1>4. CASE ExtractSave(w)
  BY <1>0, <1>4, CountType DEF ExtractSave
<1>5. CASE ExtractEnqueue(w)
  BY ZenonT(60), <1>0, <1>5, CountType DEF ExtractEnqueue, Enqueue
<1>6. CASE ChunkRead(w)
  BY <1>0, <1>6, CountType DEF ChunkRead
<1>7. CASE ChunkSplit(w)
  BY <1>0, <1>7, CountType DEF ChunkSplit, Sizes
<1>8. CASE ChunkCreate(w)
  <2>1. PICK o \in Outcomes("c.chunk", Exists(D(w))) :
          /\ pc' = [pc EXCEPT ![w] = NextPiece(o, w)]
          /\ Count(o)
    BY <1>8 DEF ChunkCreate
  <2>2. faults' \in 0..MaxFaults
    BY <2>1, CountType
  <2>3. chunk' \in [Chunk -> {"none", "active", "gone"}]
    BY <1>8 DEF ChunkCreate
  <2>4. left' = [left EXCEPT ![w] = left[w] - 1] /\ left[w] \in 1..Pieces
    BY <1>8 DEF ChunkCreate
  <2>5. NextPiece(o, w) \in {"c.chunk", "c.next", "fail"} /\ (NextPiece(o, w) = "c.chunk" => left[w] # 1)
    BY DEF NextPiece
  <2> QED BY <1>0, <1>8, <2>1, <2>2, <2>3, <2>4, <2>5 DEF ChunkCreate
<1>9. CASE ChunkEnqueue(w)
  BY ZenonT(60), <1>0, <1>9, CountType DEF ChunkEnqueue, Enqueue
<1>10. CASE EmbedList(w)
  <2>1. Unembedded(D(w)) \subseteq Chunk
    BY DEF Unembedded, ChunksOf
  <2>2. list' \in [Worker -> SUBSET Chunk]
    BY <1>10, <2>1 DEF EmbedList
  <2>3. PICK l \in {"e.ready", "e.embed", "fail"} : pc' = [pc EXCEPT ![w] = l]
    BY <1>10 DEF EmbedList
  <2>4. faults' \in 0..MaxFaults
    BY <1>10, CountType DEF EmbedList
  <2> QED BY <1>0, <1>10, <2>2, <2>3, <2>4 DEF EmbedList
<1>11. CASE EmbedCompute(w)
  <2>1. todo' \in [Worker -> SUBSET Chunk]
    BY <1>11 DEF EmbedCompute
  <2> QED BY ZenonT(60), <1>0, <1>11, <2>1, CountType DEF EmbedCompute
<1>12. CASE EmbedStore(w)
  BY <1>0, <1>12, CountType DEF EmbedStore
<1>13. CASE EmbedSet(w)
  <2>1. todo' \in [Worker -> SUBSET Chunk] /\ emb' \subseteq Chunk
    BY <1>13 DEF EmbedSet
  <2> QED BY ZenonT(60), <1>0, <1>13, <2>1, CountType DEF EmbedSet
<1>14. CASE EmbedReady(w)
  BY <1>0, <1>14, CountType DEF EmbedReady, SetDoc, DocStatus
<1>15. CASE MarkFailed(w)
  BY <1>0, <1>15, CountType DEF MarkFailed, SetDoc, DocStatus
<1>16. CASE RecordOutcome(w)
  BY <1>0, <1>16, CountType DEF RecordOutcome
<1> QED
  BY <1>1, <1>2, <1>3, <1>4, <1>5, <1>6, <1>7, <1>8, <1>9, <1>10, <1>11, <1>12,
     <1>13, <1>14, <1>15, <1>16 DEF Step

\* TInv is inductive.
LEMMA TypeInductive ==
    /\ Init => TInv
    /\ TInv /\ [Next]_vars => TInv'
<1>1. Init => TInv
  BY PipelineAssumption DEF Init, TInv, TypeOK, DocStatus, PC
<1>2. TInv /\ [Next]_vars => TInv'
  <2> SUFFICES ASSUME TInv, [Next]_vars PROVE TInv'
    OBVIOUS
  <2>1. CASE Crash
    BY <2>1, PipelineAssumption DEF Crash, TInv, TypeOK, PC, rows
  <2>2. CASE UNCHANGED vars
    BY <2>2 DEF vars, rows, loops, handlers, TInv, TypeOK
  <2> QED BY <2>1, <2>2, ClientType, HandlerType, StepType DEF Next
<1> QED BY <1>1, <1>2

\* Every reachable state has the types of the rows and of the handlers' and
\* workers' variables (store/*.go, worker/*.go).
THEOREM TypeCorrect == Spec => []TypeOK
<1>1. TInv => TypeOK
  BY DEF TInv
<1> QED BY <1>1, TypeInductive, PTL DEF Spec
-----------------------------------------------------------------------------
(* The jobs: each is created once and held by one worker at a time.        *)

Extracting == {"x.start", "x.read", "x.save", "x.next"}
Chunking   == {"c.read", "c.split", "c.chunk", "c.next"}
Embedding  == {"e.list", "e.embed", "e.store", "e.set", "e.ready"}

\* A worker is in the Process function of the type of its job.
InItsProcess ==
    \A w \in Worker :
        /\ pc[w] = "idle" => cur[w] = None
        /\ pc[w] \in Extracting => cur[w][2] = "extraction"
        /\ pc[w] \in Chunking   => cur[w][2] = "chunking"
        /\ pc[w] \in Embedding  => cur[w][2] = "embedding"

HeldIsRunning == \A w \in Worker : cur[w] # None => job[cur[w]] \in {"running", "gone"}

OneHolder == \A v, w \in Worker : cur[v] = cur[w] /\ cur[w] # None => v = w

\* What inserts a job has not inserted it before: the handler, the extraction
\* of the document, its chunking.
NotYetExtracting ==
    \A d \in Doc : up[d] \in {"idle", "save", "enqueue"} => job[<<d, "extraction">>] = "none"
NotYetChunking ==
    /\ \A d \in Doc : job[<<d, "extraction">>] \in {"none", "queued"} => job[<<d, "chunking">>] = "none"
    /\ \A w \in Worker : pc[w] \in Extracting => job[<<D(w), "chunking">>] = "none"
NotYetEmbedding ==
    /\ \A d \in Doc : job[<<d, "chunking">>] \in {"none", "queued"} => job[<<d, "embedding">>] = "none"
    /\ \A w \in Worker : pc[w] \in Chunking => job[<<D(w), "embedding">>] = "none"
NotYetRequested ==
    \A r \in Req : ing[r] # "done" => job[<<r, "embedding">>] = "none"

QInv ==
    /\ InItsProcess /\ HeldIsRunning /\ OneHolder
    /\ NotYetExtracting /\ NotYetChunking /\ NotYetEmbedding /\ NotYetRequested

\* The jobs of documents and of requests are different rows.
LEMMA JobIds ==
    /\ \A d \in Doc : <<d, "extraction">> \in Job /\ <<d, "chunking">> \in Job /\ <<d, "embedding">> \in Job
    /\ \A r \in Req : <<r, "embedding">> \in Job
  BY DEF Job

\* A job is named by its document or request and its stage.
LEMMA JobShape ==
    /\ \A j \in Job : /\ j[2] = "extraction" => j = <<DocOf(j), "extraction">>
                      /\ j[2] = "chunking" => j = <<DocOf(j), "chunking">>
    /\ \A d \in Doc : /\ <<d, "extraction">> \in Job /\ DocOf(<<d, "extraction">>) = d
                      /\ <<d, "chunking">> \in Job /\ DocOf(<<d, "chunking">>) = d
                      /\ <<d, "embedding">> \in Job /\ DocOf(<<d, "embedding">>) = d
    /\ \A r \in Req : <<r, "embedding">> \in Job /\ DocOf(<<r, "embedding">>) = ReqDoc[r]
    /\ \A d \in Doc : \A r \in Req : d # r
  BY PipelineAssumption DEF Job, DocOf

\* A statement inside Process that leaves the job table alone.
LEMMA InsideProcess ==
    ASSUME TInv, QInv, NEW w \in Worker, NEW l,
           UNCHANGED <<job, cur, up, ing>>,
           pc[w] # "idle", l # "idle",
           pc' = [pc EXCEPT ![w] = l],
           l \in Extracting => pc[w] \in Extracting,
           l \in Chunking => pc[w] \in Chunking,
           l \in Embedding => pc[w] \in Embedding
    PROVE  QInv'
<1> USE DEF TInv, TypeOK, QInv
<1>1. InItsProcess'
  BY DEF InItsProcess
<1>2. HeldIsRunning' /\ OneHolder' /\ NotYetExtracting' /\ NotYetRequested'
  BY DEF HeldIsRunning, OneHolder, NotYetExtracting, NotYetRequested
<1>3. NotYetChunking' /\ NotYetEmbedding'
  BY DEF NotYetChunking, NotYetEmbedding, D
<1> QED BY <1>1, <1>2, <1>3

\* An INSERT of job j, which is new, by a handler.
LEMMA HandlerEnqueue ==
    ASSUME TInv, QInv, NEW j \in Job, NEW o, Enqueue(o, j), UNCHANGED <<pc, cur>>,
           \/ \E d \in Doc : /\ j = <<d, "extraction">> /\ up[d] = "enqueue"
                             /\ up'[d] \in {"accepted", "error"}
                             /\ up' = [up EXCEPT ![d] = up'[d]]
                             /\ UNCHANGED ing
           \/ \E r \in Req : /\ j = <<r, "embedding">> /\ ing[r] = "enqueue"
                             /\ ing' = [ing EXCEPT ![r] = "done"]
                             /\ UNCHANGED up
    PROVE  QInv'
<1> USE DEF TInv, TypeOK, QInv
<1>1. job[j] = "none"
  BY DEF NotYetExtracting, NotYetRequested
<1>2. job' = job \/ job' = [job EXCEPT ![j] = "queued"]
  BY DEF Enqueue, Written
<1>3. InItsProcess' /\ HeldIsRunning' /\ OneHolder'
  BY <1>1, <1>2 DEF InItsProcess, HeldIsRunning, OneHolder
<1>4. NotYetExtracting'
  <2> SUFFICES ASSUME NEW e \in Doc, up'[e] \in {"idle", "save", "enqueue"}
               PROVE  job'[<<e, "extraction">>] = "none"
    BY DEF NotYetExtracting
  <2>1. up[e] \in {"idle", "save", "enqueue"} /\ <<e, "extraction">> # j
    OBVIOUS
  <2> QED BY <1>2, <2>1, JobShape DEF NotYetExtracting
<1>a. \A e \in Doc : j # <<e, "chunking">> /\ j # <<e, "embedding">>
  BY JobShape
<1>b. \A w \in Worker : pc[w] # "idle" => D(w) \in Doc
  BY DocOfType DEF D
<1>c. \A k \in Job : /\ k # j => job'[k] = job[k]
                     /\ job'[k] \in {"none", "queued"} => job[k] \in {"none", "queued"}
  BY <1>1, <1>2
<1>5. NotYetChunking'
  <2>1. \A w \in Worker : D(w)' = D(w)
    BY DEF D
  <2>2. ASSUME NEW e \in Doc, job'[<<e, "extraction">>] \in {"none", "queued"}
        PROVE  job'[<<e, "chunking">>] = "none"
    BY <1>a, <1>c, <2>2, JobShape DEF NotYetChunking
  <2>3. ASSUME NEW w \in Worker, pc'[w] \in Extracting
        PROVE  job'[<<D(w)', "chunking">>] = "none"
    <3>1. D(w) \in Doc /\ job[<<D(w), "chunking">>] = "none"
      BY <1>b, <2>3 DEF NotYetChunking, Extracting
    <3>2. job'[<<D(w), "chunking">>] = "none"
      BY <1>a, <1>c, <3>1, JobShape
    <3> QED BY <2>1, <3>2
  <2> QED BY <2>2, <2>3 DEF NotYetChunking
<1>6. NotYetEmbedding'
  <2>1. \A w \in Worker : D(w)' = D(w)
    BY DEF D
  <2>2. ASSUME NEW e \in Doc, job'[<<e, "chunking">>] \in {"none", "queued"}
        PROVE  job'[<<e, "embedding">>] = "none"
    BY <1>a, <1>c, <2>2, JobShape DEF NotYetEmbedding
  <2>3. ASSUME NEW w \in Worker, pc'[w] \in Chunking
        PROVE  job'[<<D(w)', "embedding">>] = "none"
    <3>1. D(w) \in Doc /\ job[<<D(w), "embedding">>] = "none"
      BY <1>b, <2>3 DEF NotYetEmbedding, Chunking
    <3>2. job'[<<D(w), "embedding">>] = "none"
      BY <1>a, <1>c, <3>1, JobShape
    <3> QED BY <2>1, <3>2
  <2> QED BY <2>2, <2>3 DEF NotYetEmbedding
<1>7. NotYetRequested'
  BY <1>2, JobShape DEF NotYetRequested
<1> QED BY <1>3, <1>4, <1>5, <1>6, <1>7

\* The job a worker is at, by its stage.
LEMMA OwnJob ==
    ASSUME TInv, QInv, NEW w \in Worker, pc[w] # "idle"
    PROVE  /\ cur[w] \in Job /\ D(w) \in Doc /\ job[cur[w]] \in {"running", "gone"}
           /\ pc[w] \in Extracting => cur[w] = <<D(w), "extraction">>
           /\ pc[w] \in Chunking => cur[w] = <<D(w), "chunking">>
<1>1. cur[w] \in Job /\ cur[w] # None
  BY PipelineAssumption DEF TInv, TypeOK
<1>2. D(w) \in Doc
  BY <1>1, DocOfType DEF D
<1> QED BY <1>1, <1>2, JobShape DEF QInv, InItsProcess, HeldIsRunning, D

\* Extraction hands over to chunking, at the end of its only job.
LEMMA ExtractEnqueueQInv ==
    ASSUME TInv, QInv, NEW w \in Worker, ExtractEnqueue(w)
    PROVE  QInv'
<1> DEFINE d == D(w)
           j == <<d, "chunking">>
<1> USE DEF TInv, TypeOK, QInv
<1>1. /\ d \in Doc /\ cur[w] = <<d, "extraction">> /\ job[cur[w]] \in {"running", "gone"}
      /\ job[j] = "none" /\ j \in Job
  BY OwnJob, JobShape DEF ExtractEnqueue, Extracting, NotYetChunking
<1>2. PICK l \in {"completed", "fail"} : pc' = [pc EXCEPT ![w] = l]
  BY DEF ExtractEnqueue, Goto, After
<1>3. /\ UNCHANGED <<cur, up, ing>>
      /\ job' = job \/ job' = [job EXCEPT ![j] = "queued"]
  BY DEF ExtractEnqueue, Enqueue, Written, handlers
<1> HIDE DEF d, j
<1>4. InItsProcess' /\ HeldIsRunning' /\ OneHolder'
  BY <1>1, <1>2, <1>3 DEF InItsProcess, HeldIsRunning, OneHolder, Extracting, Chunking, Embedding
<1>5. \A k \in Job : k # j => job'[k] = job[k]
  BY <1>3
<1>6. NotYetExtracting' /\ NotYetRequested'
  BY <1>3, <1>5, JobShape DEF NotYetExtracting, NotYetRequested, j
<1>7. NotYetChunking'
  <2>1. ASSUME NEW e \in Doc, job'[<<e, "extraction">>] \in {"none", "queued"}
        PROVE  job'[<<e, "chunking">>] = "none"
    <3>1. CASE e = d
      BY ZenonT(60), <1>1, <1>5, <2>1, <3>1, JobShape DEF j
    <3>2. CASE e # d
      BY <1>5, <2>1, <3>2, JobShape DEF NotYetChunking, j
    <3> QED BY <3>1, <3>2
  <2>2. ASSUME NEW v \in Worker, pc'[v] \in Extracting
        PROVE  job'[<<D(v), "chunking">>] = "none"
    <3>1. v # w /\ pc[v] \in Extracting
      BY <1>2, <2>2 DEF Extracting
    <3>2. cur[v] = <<D(v), "extraction">> /\ D(v) \in Doc /\ cur[v] \in Job
      BY <3>1, OwnJob DEF Extracting
    <3>3. D(v) # d
      BY <1>1, <3>1, <3>2, PipelineAssumption DEF OneHolder
    <3> QED BY <1>5, <3>1, <3>2, <3>3, JobShape DEF NotYetChunking, j
  <2>3. \A v \in Worker : D(v)' = D(v)
    BY <1>3 DEF D
  <2> QED BY <2>1, <2>2, <2>3 DEF NotYetChunking
<1>8. NotYetEmbedding'
  <2>1. ASSUME NEW e \in Doc, job'[<<e, "chunking">>] \in {"none", "queued"}
        PROVE  job'[<<e, "embedding">>] = "none"
    <3>1. CASE e = d
      BY <1>1, <1>5, <3>1, JobShape DEF NotYetEmbedding, j
    <3>2. CASE e # d
      BY <1>5, <2>1, <3>2, JobShape DEF NotYetEmbedding, j
    <3> QED BY <3>1, <3>2
  <2>2. ASSUME NEW v \in Worker, pc'[v] \in Chunking
        PROVE  job'[<<D(v), "embedding">>] = "none"
    <3>1. pc[v] \in Chunking
      BY <1>2, <2>2 DEF Chunking
    <3>2. D(v) \in Doc
      BY <3>1, OwnJob DEF Chunking
    <3> QED BY <1>5, <3>1, <3>2, JobShape DEF NotYetEmbedding, j
  <2>3. \A v \in Worker : D(v)' = D(v)
    BY <1>3 DEF D
  <2> QED BY <2>1, <2>2, <2>3 DEF NotYetEmbedding
<1> QED BY <1>4, <1>6, <1>7, <1>8

\* Chunking hands over to embedding in the same way.
LEMMA ChunkEnqueueQInv ==
    ASSUME TInv, QInv, NEW w \in Worker, ChunkEnqueue(w)
    PROVE  QInv'
<1> DEFINE d == D(w)
           j == <<d, "embedding">>
<1> USE DEF TInv, TypeOK, QInv
<1>1. /\ d \in Doc /\ cur[w] = <<d, "chunking">> /\ job[cur[w]] \in {"running", "gone"}
      /\ job[j] = "none" /\ j \in Job
  BY OwnJob, JobShape DEF ChunkEnqueue, Chunking, NotYetEmbedding
<1>2. PICK l \in {"completed", "fail"} : pc' = [pc EXCEPT ![w] = l]
  BY DEF ChunkEnqueue, Goto, After
<1>3. /\ UNCHANGED <<cur, up, ing>>
      /\ job' = job \/ job' = [job EXCEPT ![j] = "queued"]
  BY DEF ChunkEnqueue, Enqueue, Written, handlers
<1> HIDE DEF d, j
<1>4. InItsProcess' /\ HeldIsRunning' /\ OneHolder'
  BY <1>1, <1>2, <1>3 DEF InItsProcess, HeldIsRunning, OneHolder, Extracting, Chunking, Embedding
<1>5. \A k \in Job : k # j => job'[k] = job[k]
  BY <1>3
<1>6. NotYetExtracting' /\ NotYetRequested'
  <2>1. NotYetExtracting'
    BY <1>3, <1>5, JobShape DEF NotYetExtracting, j
  <2>2. \A r \in Req : <<r, "embedding">> # j
    BY <1>1, JobShape DEF j
  <2> QED BY <1>3, <1>5, <2>1, <2>2, JobShape DEF NotYetRequested
<1>7. NotYetChunking'
  <2>1. ASSUME NEW e \in Doc, job'[<<e, "extraction">>] \in {"none", "queued"}
        PROVE  job'[<<e, "chunking">>] = "none"
    BY <1>5, <2>1, JobShape DEF NotYetChunking, j
  <2>2. ASSUME NEW v \in Worker, pc'[v] \in Extracting
        PROVE  job'[<<D(v), "chunking">>] = "none"
    <3>1. pc[v] \in Extracting
      BY <1>2, <2>2 DEF Extracting
    <3>2. D(v) \in Doc
      BY <3>1, OwnJob DEF Extracting
    <3> QED BY <1>5, <3>1, <3>2, JobShape DEF NotYetChunking, j
  <2>3. \A v \in Worker : D(v)' = D(v)
    BY <1>3 DEF D
  <2> QED BY <2>1, <2>2, <2>3 DEF NotYetChunking
<1>8. NotYetEmbedding'
  <2>1. ASSUME NEW e \in Doc, job'[<<e, "chunking">>] \in {"none", "queued"}
        PROVE  job'[<<e, "embedding">>] = "none"
    <3>1. CASE e = d
      BY ZenonT(60), <1>1, <1>5, <2>1, <3>1, JobShape DEF j
    <3>2. CASE e # d
      BY <1>5, <2>1, <3>2, JobShape DEF NotYetEmbedding, j
    <3> QED BY <3>1, <3>2
  <2>2. ASSUME NEW v \in Worker, pc'[v] \in Chunking
        PROVE  job'[<<D(v), "embedding">>] = "none"
    <3>1. v # w /\ pc[v] \in Chunking
      BY <1>2, <2>2 DEF Chunking
    <3>2. cur[v] = <<D(v), "chunking">> /\ D(v) \in Doc /\ cur[v] \in Job
      BY <3>1, OwnJob DEF Chunking
    <3>3. D(v) # d
      BY <1>1, <3>1, <3>2, PipelineAssumption DEF OneHolder
    <3> QED BY <1>5, <3>1, <3>2, <3>3, JobShape DEF NotYetEmbedding, j
  <2>3. \A v \in Worker : D(v)' = D(v)
    BY <1>3 DEF D
  <2> QED BY <2>1, <2>2, <2>3 DEF NotYetEmbedding
<1> QED BY <1>4, <1>6, <1>7, <1>8

\* A step that inserts no job leaves what has not been inserted so.
LEMMA NothingNew ==
    ASSUME TInv, QInv,
           \A k \in Job : /\ job[k] = "none" => job'[k] = "none"
                          /\ job'[k] \in {"none", "queued"} => job[k] = job'[k],
           \A d \in Doc : up'[d] \in {"idle", "save", "enqueue"} => up[d] \in {"idle", "save", "enqueue"},
           \A r \in Req : ing'[r] # "done" => ing[r] # "done",
           \A v \in Worker :
              /\ pc'[v] \in Extracting => D(v)' \in Doc /\ job[<<D(v)', "chunking">>] = "none"
              /\ pc'[v] \in Chunking => D(v)' \in Doc /\ job[<<D(v)', "embedding">>] = "none"
    PROVE  NotYetExtracting' /\ NotYetChunking' /\ NotYetEmbedding' /\ NotYetRequested'
<1>1. NotYetExtracting'
  BY JobIds DEF QInv, NotYetExtracting
<1>2. NotYetRequested'
  BY JobIds DEF QInv, NotYetRequested
<1>3. NotYetChunking'
  <2>1. \A d \in Doc : job'[<<d, "extraction">>] \in {"none", "queued"} => job'[<<d, "chunking">>] = "none"
    BY JobIds DEF QInv, NotYetChunking
  <2>2. \A v \in Worker : pc'[v] \in Extracting => job'[<<D(v)', "chunking">>] = "none"
    BY JobIds
  <2> QED BY <2>1, <2>2 DEF NotYetChunking
<1>4. NotYetEmbedding'
  <2>1. \A d \in Doc : job'[<<d, "chunking">>] \in {"none", "queued"} => job'[<<d, "embedding">>] = "none"
    BY JobIds DEF QInv, NotYetEmbedding
  <2>2. \A v \in Worker : pc'[v] \in Chunking => job'[<<D(v)', "embedding">>] = "none"
    BY JobIds
  <2> QED BY <2>1, <2>2 DEF NotYetEmbedding
<1> QED BY <1>1, <1>2, <1>3, <1>4

\* Handlers and clients do not touch the loops.
LEMMA LoopsUntouched ==
    ASSUME TInv, QInv, UNCHANGED <<pc, cur>>,
           \A k \in Job : /\ job[k] = "none" => job'[k] = "none"
                          /\ job'[k] \in {"none", "queued"} => job[k] = job'[k]
                          /\ job[k] \in {"running", "gone"} => job'[k] \in {"running", "gone"},
           \A d \in Doc : up'[d] \in {"idle", "save", "enqueue"} => up[d] \in {"idle", "save", "enqueue"},
           \A r \in Req : ing'[r] # "done" => ing[r] # "done"
    PROVE  QInv'
<1>1. \A v \in Worker : D(v)' = D(v)
  BY DEF D
<1>2. \A v \in Worker : pc[v] \in Extracting \union Chunking => D(v) \in Doc
  BY OwnJob DEF Extracting, Chunking
<1>3. \A v \in Worker :
         /\ pc'[v] \in Extracting => D(v)' \in Doc /\ job[<<D(v)', "chunking">>] = "none"
         /\ pc'[v] \in Chunking => D(v)' \in Doc /\ job[<<D(v)', "embedding">>] = "none"
  BY <1>1, <1>2 DEF QInv, NotYetChunking, NotYetEmbedding
<1>4. NotYetExtracting' /\ NotYetChunking' /\ NotYetEmbedding' /\ NotYetRequested'
  BY <1>3, NothingNew
<1>5. InItsProcess' /\ OneHolder'
  BY DEF QInv, InItsProcess, OneHolder
<1>6. HeldIsRunning'
  <2>1. \A v \in Worker : cur[v] # None => cur[v] \in Job
    BY DEF TInv, TypeOK
  <2> QED BY <2>1 DEF QInv, HeldIsRunning
<1> QED BY <1>4, <1>5, <1>6 DEF QInv

\* ClaimNext hands out a job that nobody holds.
LEMMA ClaimQInv ==
    ASSUME TInv, QInv, NEW w \in Worker, Claim(w)
    PROVE  QInv'
<1> USE DEF TInv, TypeOK, QInv
<1>1. PICK j \in Job, o \in Outcomes("claim", TRUE) :
         /\ job[j] = "queued"
         /\ job' = IF o \in {"ok", "lost"} THEN [job EXCEPT ![j] = "running"] ELSE job
         /\ cur' = [cur EXCEPT ![w] = IF o = "ok" THEN j ELSE None]
         /\ pc' = [pc EXCEPT ![w] = IF o = "ok" THEN StartOf(j) ELSE "idle"]
  BY DEF Claim, Claimable, Written, After, Goto
<1>2. pc[w] = "idle" /\ cur[w] = None /\ UNCHANGED <<up, ing>>
  BY DEF Claim, handlers, InItsProcess
<1>3. \/ j[2] = "extraction" /\ StartOf(j) = "x.start" /\ j = <<DocOf(j), "extraction">>
      \/ j[2] = "chunking" /\ StartOf(j) = "c.read" /\ j = <<DocOf(j), "chunking">>
      \/ j[2] = "embedding" /\ StartOf(j) = "e.list"
  BY JobShape DEF StartOf, Job
<1>4. InItsProcess'
  BY <1>1, <1>2, <1>3 DEF InItsProcess, Extracting, Chunking, Embedding
<1>5. HeldIsRunning' /\ OneHolder'
  BY <1>1, <1>2, PipelineAssumption DEF HeldIsRunning, OneHolder
<1>6. ASSUME NEW v \in Worker
      PROVE  /\ pc'[v] \in Extracting => D(v)' \in Doc /\ job[<<D(v)', "chunking">>] = "none"
             /\ pc'[v] \in Chunking => D(v)' \in Doc /\ job[<<D(v)', "embedding">>] = "none"
  <2>1. CASE v # w
    <3>1. pc'[v] = pc[v] /\ D(v)' = D(v)
      BY <1>1, <2>1 DEF D
    <3>2. pc[v] \in Extracting \union Chunking => D(v) \in Doc
      BY OwnJob DEF Extracting, Chunking
    <3> QED BY <3>1, <3>2 DEF NotYetChunking, NotYetEmbedding
  <2>2. CASE v = w /\ o = "ok"
    <3>1. pc'[v] = StartOf(j) /\ D(v)' = DocOf(j) /\ DocOf(j) \in Doc
      BY <1>1, <2>2, DocOfType DEF D
    <3> QED BY <1>1, <1>3, <3>1 DEF NotYetChunking, NotYetEmbedding, Extracting, Chunking
  <2>3. CASE v = w /\ o # "ok"
    BY <1>1, <2>3 DEF Extracting, Chunking
  <2> QED BY <2>1, <2>2, <2>3
<1>7. \A k \in Job : /\ job[k] = "none" => job'[k] = "none"
                     /\ job'[k] \in {"none", "queued"} => job[k] = job'[k]
  BY <1>1
<1>8. NotYetExtracting' /\ NotYetChunking' /\ NotYetEmbedding' /\ NotYetRequested'
  BY <1>2, <1>6, <1>7, NothingNew
<1> QED BY <1>4, <1>5, <1>8

\* Workers that let go of their jobs, at the end of one or at a crash.
LEMMA LettingGo ==
    ASSUME TInv, QInv,
           \A v \in Worker : \/ pc'[v] = "idle" /\ cur'[v] = None
                             \/ pc'[v] = pc[v] /\ cur'[v] = cur[v],
           \A k \in Job : /\ job[k] = "none" => job'[k] = "none"
                          /\ job'[k] \in {"none", "queued"} => job[k] = job'[k]
                          /\ (\A v \in Worker : cur[v] = k => cur'[v] = k) => job'[k] = job[k],
           \A d \in Doc : up'[d] \in {"idle", "save", "enqueue"} => up[d] \in {"idle", "save", "enqueue"},
           \A r \in Req : ing'[r] # "done" => ing[r] # "done"
    PROVE  QInv'
<1> USE DEF TInv, TypeOK, QInv
<1>1. InItsProcess' /\ OneHolder'
  BY DEF InItsProcess, OneHolder, Extracting, Chunking, Embedding
<1>2. HeldIsRunning'
  <2> SUFFICES ASSUME NEW v \in Worker, cur'[v] # None
               PROVE  job'[cur'[v]] \in {"running", "gone"}
    BY DEF HeldIsRunning
  <2>1. cur'[v] = cur[v] /\ cur[v] \in Job
    OBVIOUS
  <2>2. \A u \in Worker : cur[u] = cur[v] => cur'[u] = cur[v]
    BY <2>1 DEF OneHolder
  <2> QED BY <2>1, <2>2 DEF HeldIsRunning
<1>3. ASSUME NEW v \in Worker
      PROVE  /\ pc'[v] \in Extracting => D(v)' \in Doc /\ job[<<D(v)', "chunking">>] = "none"
             /\ pc'[v] \in Chunking => D(v)' \in Doc /\ job[<<D(v)', "embedding">>] = "none"
  <2>1. CASE pc'[v] = "idle"
    BY <2>1 DEF Extracting, Chunking
  <2>2. CASE pc'[v] = pc[v] /\ cur'[v] = cur[v]
    <3>1. pc'[v] = pc[v] /\ D(v)' = D(v)
      BY <2>2 DEF D
    <3>2. pc[v] \in Extracting \union Chunking => D(v) \in Doc
      BY OwnJob DEF Extracting, Chunking
    <3> QED BY <3>1, <3>2 DEF NotYetChunking, NotYetEmbedding
  <2> QED BY <2>1, <2>2
<1>4. NotYetExtracting' /\ NotYetChunking' /\ NotYetEmbedding' /\ NotYetRequested'
  BY <1>3, NothingNew
<1> QED BY <1>1, <1>2, <1>4

\* Clients insert no job; deleting a document makes those of its jobs that
\* there are go.
LEMMA ClientQInv ==
    ASSUME TInv, QInv, Client
    PROVE  QInv'
<1> USE DEF TInv, TypeOK, rows, loops, handlers
<1>1. ASSUME NEW d \in Doc, CreateDocument(d) PROVE QInv'
  BY <1>1, LoopsUntouched DEF CreateDocument
<1>2. ASSUME NEW d \in Doc, UploadCreate(d) PROVE QInv'
  BY <1>2, LoopsUntouched DEF UploadCreate
<1>3. ASSUME NEW d \in Doc, DeleteDocument(d) PROVE QInv'
  BY <1>3, LoopsUntouched DEF DeleteDocument
<1>4. ASSUME NEW r \in Req, IngestStart(r) PROVE QInv'
  BY <1>4, LoopsUntouched DEF IngestStart
<1>5. ASSUME NEW c \in Chunk, DeleteVector(c) PROVE QInv'
  BY <1>5, LoopsUntouched DEF DeleteVector
<1> QED BY <1>1, <1>2, <1>3, <1>4, <1>5 DEF Client

\* Handlers enqueue each of their jobs for the first time.
LEMMA HandlerQInv ==
    ASSUME TInv, QInv, Handler
    PROVE  QInv'
<1> USE DEF TInv, TypeOK, loops, handlers
<1>1. ASSUME NEW d \in Doc, UploadSave(d) PROVE QInv'
  BY <1>1, LoopsUntouched DEF UploadSave
<1>2. ASSUME NEW d \in Doc, UploadEnqueue(d) PROVE QInv'
  BY <1>2, HandlerEnqueue, JobIds DEF UploadEnqueue, After
<1>3. ASSUME NEW r \in Req, IngestCreate(r) PROVE QInv'
  BY <1>3, LoopsUntouched DEF IngestCreate, Advance
<1>4. ASSUME NEW r \in Req, IngestStore(r) PROVE QInv'
  BY <1>4, LoopsUntouched DEF IngestStore, Advance
<1>5. ASSUME NEW r \in Req, IngestSet(r) PROVE QInv'
  BY <1>5, LoopsUntouched DEF IngestSet, Advance
<1>6. ASSUME NEW r \in Req, IngestEnqueue(r) PROVE QInv'
  BY <1>6, HandlerEnqueue, JobIds DEF IngestEnqueue
<1>7. ASSUME NEW c \in Chunk, DeleteChunk(c) PROVE QInv'
  BY <1>7, LoopsUntouched DEF DeleteChunk
<1> QED BY <1>1, <1>2, <1>3, <1>4, <1>5, <1>6, <1>7 DEF Handler

\* A worker that records the outcome lets go of its job.
LEMMA RecordQInv ==
    ASSUME TInv, QInv, NEW w \in Worker, RecordOutcome(w)
    PROVE  QInv'
<1>1. /\ pc[w] \in Record /\ cur[w] \in Job /\ job[cur[w]] \in {"running", "gone"}
      /\ job' = job \/ job' = [job EXCEPT ![cur[w]] = pc[w]]
      /\ UNCHANGED <<up, ing>>
  BY OwnJob DEF RecordOutcome, Record, Written, handlers
<1>2. pc' = [pc EXCEPT ![w] = "idle"] /\ cur' = [cur EXCEPT ![w] = None]
  BY DEF RecordOutcome, Goto
<1>3. \A v \in Worker : \/ pc'[v] = "idle" /\ cur'[v] = None
                        \/ pc'[v] = pc[v] /\ cur'[v] = cur[v]
  BY <1>2 DEF TInv, TypeOK
<1>4. \A k \in Job : /\ job[k] = "none" => job'[k] = "none"
                     /\ job'[k] \in {"none", "queued"} => job[k] = job'[k]
                     /\ (\A v \in Worker : cur[v] = k => cur'[v] = k) => job'[k] = job[k]
  BY <1>1, <1>2, PipelineAssumption DEF Record, TInv, TypeOK
<1>5. /\ \A d \in Doc : up'[d] \in {"idle", "save", "enqueue"} => up[d] \in {"idle", "save", "enqueue"}
      /\ \A r \in Req : ing'[r] # "done" => ing[r] # "done"
  BY <1>1
<1> QED BY <1>3, <1>4, <1>5, LettingGo

\* The statements of the workers keep the discipline of the jobs.
LEMMA StepQInv ==
    ASSUME TInv, QInv, NEW w \in Worker, Step(w)
    PROVE  QInv'
<1> USE DEF rows, loops, handlers, Goto, After, Extracting, Chunking, Embedding
<1>1. CASE Claim(w)
  BY <1>1, ClaimQInv
<1>2. CASE ExtractStart(w)
  BY <1>2, InsideProcess DEF ExtractStart
<1>3. CASE ExtractRead(w)
  BY <1>3, InsideProcess DEF ExtractRead
<1>4. CASE ExtractSave(w)
  BY <1>4, InsideProcess DEF ExtractSave
<1>5. CASE ExtractEnqueue(w)
  BY <1>5, ExtractEnqueueQInv
<1>6. CASE ChunkRead(w)
  BY <1>6, InsideProcess DEF ChunkRead
<1>7. CASE ChunkSplit(w)
  BY <1>7, InsideProcess DEF ChunkSplit
<1>8. CASE ChunkCreate(w)
  BY <1>8, InsideProcess DEF ChunkCreate, NextPiece
<1>9. CASE ChunkEnqueue(w)
  BY <1>9, ChunkEnqueueQInv
<1>10. CASE EmbedList(w)
  BY <1>10, InsideProcess DEF EmbedList
<1>11. CASE EmbedCompute(w)
  BY <1>11, InsideProcess DEF EmbedCompute
<1>12. CASE EmbedStore(w)
  BY <1>12, InsideProcess DEF EmbedStore
<1>13. CASE EmbedSet(w)
  BY <1>13, InsideProcess DEF EmbedSet
<1>14. CASE EmbedReady(w)
  BY <1>14, InsideProcess DEF EmbedReady
<1>15. CASE MarkFailed(w)
  BY <1>15, InsideProcess DEF MarkFailed
<1>16. CASE RecordOutcome(w)
  BY <1>16, RecordQInv
<1> QED
  BY <1>1, <1>2, <1>3, <1>4, <1>5, <1>6, <1>7, <1>8, <1>9, <1>10, <1>11, <1>12,
     <1>13, <1>14, <1>15, <1>16 DEF Step

\* The types and the discipline of the jobs are inductive together.
LEMMA QueueInductive ==
    /\ Init => TInv /\ QInv
    /\ TInv /\ QInv /\ [Next]_vars => TInv' /\ QInv'
<1>1. Init => TInv /\ QInv
  <2> SUFFICES ASSUME Init PROVE QInv
    BY TypeInductive
  <2>1. InItsProcess /\ HeldIsRunning /\ OneHolder
    BY DEF Init, InItsProcess, HeldIsRunning, OneHolder, Extracting, Chunking, Embedding
  <2>2. NotYetExtracting /\ NotYetChunking /\ NotYetEmbedding /\ NotYetRequested
    BY JobIds DEF Init, NotYetExtracting, NotYetChunking, NotYetEmbedding, NotYetRequested, Extracting, Chunking
  <2> QED BY <2>1, <2>2 DEF QInv
<1>2. ASSUME TInv, QInv, [Next]_vars PROVE TInv' /\ QInv'
  <2> SUFFICES QInv'
    BY <1>2, TypeInductive
  <2>1. CASE Crash
    <3>1. \A v \in Worker : pc'[v] = "idle" /\ cur'[v] = None
      BY <2>1 DEF Crash
    <3>2. /\ \A d \in Doc : up'[d] \in {"idle", "save", "enqueue"} => up[d] \in {"idle", "save", "enqueue"}
          /\ \A r \in Req : ing'[r] # "done" => ing[r] # "done"
      BY <2>1 DEF Crash
    <3>3. UNCHANGED job
      BY <2>1 DEF Crash, rows
    <3> QED BY <1>2, <3>1, <3>2, <3>3, LettingGo
  <2>2. CASE UNCHANGED vars
    BY <1>2, <2>2, LoopsUntouched DEF vars, rows, loops, handlers
  <2> QED BY <1>2, <2>1, <2>2, ClientQInv, HandlerQInv, StepQInv DEF Next
<1> QED BY <1>1, <1>2
-----------------------------------------------------------------------------
(* A document in progress is attended to.                                  *)

\* There is a job that will take d further: one in the queue, or one whose
\* Process has not returned.  (A job whose outcome is being recorded does not
\* count, although Held holds of it: this makes the property inductive.)
Attending(j) == job[j] = "queued" \/ \E w \in Worker : cur[w] = j /\ pc[w] \notin Record
InProgress(d) == up[d] = "accepted" /\ doc[d] \in {"pending", "processing"}
Attended ==
    \A d \in Doc : InProgress(d) => \E j \in Job : DocOf(j) = d /\ Attending(j)

\* A step that brings no document in progress and drops no job.
LEMMA AttendedKept ==
    ASSUME Attended,
           \A d \in Doc : InProgress(d)' => InProgress(d),
           \A j \in Job : InProgress(DocOf(j))' /\ Attending(j) => Attending(j)'
    PROVE  Attended'
  BY DEF Attended

\* A statement inside Process of worker w, on its document.
LEMMA AttendedByWorker ==
    ASSUME TInv, Attended, NEW w \in Worker, pc[w] # "idle",
           UNCHANGED <<cur, up>>,
           pc' = [pc EXCEPT ![w] = pc'[w]],
           \A k \in Job : job[k] = "queued" => job'[k] = "queued",
           \A e \in Doc : e # D(w) => doc'[e] = doc[e],
           InProgress(D(w))' =>
              pc'[w] \notin Record \/ \E k \in Job : DocOf(k) = D(w) /\ job'[k] = "queued"
    PROVE  Attended'
<1> SUFFICES ASSUME NEW d \in Doc, InProgress(d)'
             PROVE  \E j \in Job : DocOf(j) = d /\ Attending(j)'
  BY DEF Attended
<1>1. cur[w] \in Job /\ D(w) = DocOf(cur[w])
  BY DEF TInv, TypeOK, D
<1>2. CASE d = D(w)
  <2>1. CASE pc'[w] \notin Record
    BY <1>1, <1>2, <2>1 DEF Attending
  <2>2. CASE \E k \in Job : DocOf(k) = D(w) /\ job'[k] = "queued"
    BY <1>2, <2>2 DEF Attending
  <2>3. InProgress(D(w))'
    BY <1>2 DEF InProgress, D
  <2> QED BY <2>1, <2>2, <2>3
<1>3. CASE d # D(w)
  <2>1. InProgress(d)
    BY <1>3 DEF InProgress
  <2>2. PICK j \in Job : DocOf(j) = d /\ Attending(j)
    BY <2>1 DEF Attended
  <2>3. j # cur[w]
    BY <1>1, <1>3, <2>2
  <2>4. Attending(j)'
    BY <2>2, <2>3 DEF Attending, TInv, TypeOK
  <2> QED BY <2>2, <2>4
<1> QED BY <1>2, <1>3

\* As long as the failures are those Process handles, the statements around
\* Process succeed when the rows they need exist.
Calm == crashes = 0 /\ MayFail \subseteq Body

\* Around Process a statement is then done or refused.
LEMMA CalmOutcome ==
    ASSUME MayFail \subseteq Body, NEW can,
           NEW l \in {"u.job", "claim", "x.start", "e.ready", "fail", "record"},
           NEW o \in Outcomes(l, can)
    PROVE  /\ o \in {"ok", "refused"}
           /\ o = "ok" => can
           /\ o = "refused" => ~can
<1>1. l \notin MayFail
  BY DEF Body
<1>2. o \notin {"fault", "lost"}
  BY <1>1, OutcomeFact DEF Failed
<1> QED BY <1>2, OutcomeFact

\* Clients take no document back into progress, and drop jobs only with it.
LEMMA ClientAttends ==
    ASSUME TInv, QInv, Attended, Client
    PROVE  Attended'
<1> USE DEF TInv, TypeOK, loops, handlers, InProgress, Attending
<1>1. ASSUME NEW d \in Doc, CreateDocument(d) PROVE Attended'
  BY <1>1, AttendedKept DEF CreateDocument
<1>2. ASSUME NEW d \in Doc, UploadCreate(d) PROVE Attended'
  BY <1>2, AttendedKept DEF UploadCreate, SetDoc, After, Written
<1>3. ASSUME NEW d \in Doc, DeleteDocument(d) PROVE Attended'
  <2>1. \A e \in Doc : InProgress(e)' => InProgress(e) /\ e # d
    BY <1>3 DEF DeleteDocument
  <2>2. \A j \in Job : DocOf(j) # d => job'[j] = job[j]
    BY <1>3 DEF DeleteDocument
  <2>3. UNCHANGED <<pc, cur>>
    BY <1>3 DEF DeleteDocument
  <2>4. \A j \in Job : InProgress(DocOf(j))' /\ Attending(j) => Attending(j)'
    BY <2>1, <2>2, <2>3, DocOfType
  <2> QED BY <2>1, <2>4, AttendedKept
<1>4. ASSUME NEW r \in Req, IngestStart(r) PROVE Attended'
  BY <1>4, AttendedKept DEF IngestStart, rows
<1>5. ASSUME NEW c \in Chunk, DeleteVector(c) PROVE Attended'
  BY <1>5, AttendedKept DEF DeleteVector
<1> QED BY <1>1, <1>2, <1>3, <1>4, <1>5 DEF Client

\* A handler accepts a document by queueing its extraction.
LEMMA HandlerAttends ==
    ASSUME TInv, QInv, Attended, Calm, Handler
    PROVE  Attended'
<1> USE DEF TInv, TypeOK, loops, handlers, InProgress, Attending
<1>1. ASSUME NEW d \in Doc, UploadSave(d) PROVE Attended'
  BY <1>1, AttendedKept DEF UploadSave, After
<1>2. ASSUME NEW d \in Doc, UploadEnqueue(d) PROVE Attended'
  <2>1. PICK o \in Outcomes("u.job", Exists(d)) :
          /\ Enqueue(o, <<d, "extraction">>)
          /\ up' = [up EXCEPT ![d] = After(o, "accepted", "error")]
    BY <1>2 DEF UploadEnqueue
  <2>2. UNCHANGED <<doc, pc, cur>>
    BY <1>2 DEF UploadEnqueue
  <2>3. \A k \in Job : job[k] = "queued" => job'[k] = "queued"
    BY <2>1 DEF Enqueue, Written
  <2> SUFFICES ASSUME NEW e \in Doc, InProgress(e)'
               PROVE  \E j \in Job : DocOf(j) = e /\ Attending(j)'
    BY DEF Attended
  <2>4. CASE e = d
    <3>1. o = "ok"
      BY <2>1, <2>4 DEF After
    <3> QED BY <2>1, <2>4, <3>1, JobShape DEF Enqueue, Written
  <2>5. CASE e # d
    <3>1. PICK j \in Job : DocOf(j) = e /\ Attending(j)
      BY <2>1, <2>2, <2>5 DEF Attended
    <3> QED BY <2>2, <2>3, <3>1
  <2> QED BY <2>4, <2>5
<1>3. ASSUME NEW r \in Req, IngestCreate(r) PROVE Attended'
  BY <1>3, AttendedKept DEF IngestCreate
<1>4. ASSUME NEW r \in Req, IngestStore(r) PROVE Attended'
  BY <1>4, AttendedKept DEF IngestStore
<1>5. ASSUME NEW r \in Req, IngestSet(r) PROVE Attended'
  BY <1>5, AttendedKept DEF IngestSet
<1>6. ASSUME NEW r \in Req, IngestEnqueue(r) PROVE Attended'
  <2>1. UNCHANGED <<doc, up, pc, cur>>
    BY <1>6 DEF IngestEnqueue
  <2>2. \A k \in Job : job[k] = "queued" => job'[k] = "queued"
    BY <1>6 DEF IngestEnqueue, Enqueue, Written
  <2> QED BY <2>1, <2>2, AttendedKept
<1>7. ASSUME NEW c \in Chunk, DeleteChunk(c) PROVE Attended'
  BY <1>7, AttendedKept DEF DeleteChunk
<1> QED BY <1>1, <1>2, <1>3, <1>4, <1>5, <1>6, <1>7 DEF Handler

\* A worker leaves its document only ready or failed, or with a queued job.
LEMMA StepAttends ==
    ASSUME TInv, QInv, Attended, Calm, NEW w \in Worker, Step(w)
    PROVE  Attended'
<1> USE DEF rows, handlers, Goto, After, Record, TInv, TypeOK
<1>0. pc[w] # "idle" => cur[w] \in Job /\ D(w) \in Doc
  BY DocOfType DEF D
<1>1. CASE Claim(w)
  <2>1. PICK j \in Job, o \in Outcomes("claim", TRUE) :
          /\ job' = Written(o, [job EXCEPT ![j] = "running"], job)
          /\ cur' = [cur EXCEPT ![w] = After(o, j, None)]
          /\ pc' = [pc EXCEPT ![w] = After(o, StartOf(j), "idle")]
    BY <1>1 DEF Claim
  <2>2. o = "ok"
    BY CalmOutcome DEF Calm
  <2>3. StartOf(j) \notin Record
    BY DEF StartOf, Job
  <2>4. pc[w] = "idle" /\ cur[w] = None /\ UNCHANGED <<doc, up>>
    BY <1>1 DEF Claim, QInv, InItsProcess
  <2>5. \A k \in Job : Attending(k) => Attending(k)'
    BY <2>1, <2>2, <2>3, <2>4, PipelineAssumption DEF Attending, Written
  <2> QED BY <2>4, <2>5, AttendedKept DEF InProgress
<1>2. CASE ExtractStart(w)
  <2>1. PICK o \in Outcomes("x.start", Exists(D(w))) :
          /\ SetDoc(o, D(w), "processing")
          /\ pc' = [pc EXCEPT ![w] = After(o, "x.read", "failed")]
    BY <1>2 DEF ExtractStart
  <2>2. UNCHANGED <<job, cur, up>> /\ pc[w] # "idle"
    BY <1>2 DEF ExtractStart
  <2>3. InProgress(D(w))' => pc'[w] \notin Record
    BY ZenonT(60), <1>0, <2>1, <2>2, CalmOutcome DEF Calm, InProgress, SetDoc, Written, Exists, D
  <2>4. \A e \in Doc : e # D(w) => doc'[e] = doc[e]
    BY <2>1 DEF SetDoc, Written
  <2> QED BY <2>1, <2>2, <2>3, <2>4, AttendedByWorker
<1>3. CASE ExtractRead(w)
  BY <1>3, AttendedByWorker DEF ExtractRead
<1>4. CASE ExtractSave(w)
  BY <1>4, AttendedByWorker DEF ExtractSave
<1>5. CASE ExtractEnqueue(w)
  <2>1. PICK o \in Outcomes("x.next", Exists(D(w))) :
          /\ Enqueue(o, <<D(w), "chunking">>)
          /\ pc' = [pc EXCEPT ![w] = After(o, "completed", "fail")]
    BY <1>5 DEF ExtractEnqueue
  <2>2. UNCHANGED <<doc, cur, up>> /\ pc[w] # "idle"
    BY <1>5 DEF ExtractEnqueue
  <2>3. pc'[w] \notin Record \/ \E k \in Job : DocOf(k) = D(w) /\ job'[k] = "queued"
    BY <1>0, <2>1, <2>2, JobShape DEF Enqueue, Written
  <2>4. \A k \in Job : job[k] = "queued" => job'[k] = "queued"
    BY <2>1 DEF Enqueue, Written
  <2> QED BY <2>1, <2>2, <2>3, <2>4, AttendedByWorker
<1>6. CASE ChunkRead(w)
  BY <1>6, AttendedByWorker DEF ChunkRead
<1>7. CASE ChunkSplit(w)
  BY ZenonT(60), <1>7, AttendedByWorker DEF ChunkSplit
<1>8. CASE ChunkCreate(w)
  BY ZenonT(60), <1>8, AttendedByWorker DEF ChunkCreate, NextPiece
<1>9. CASE ChunkEnqueue(w)
  <2>1. PICK o \in Outcomes("c.next", Exists(D(w))) :
          /\ Enqueue(o, <<D(w), "embedding">>)
          /\ pc' = [pc EXCEPT ![w] = After(o, "completed", "fail")]
    BY <1>9 DEF ChunkEnqueue
  <2>2. UNCHANGED <<doc, cur, up>> /\ pc[w] # "idle"
    BY <1>9 DEF ChunkEnqueue
  <2>3. pc'[w] \notin Record \/ \E k \in Job : DocOf(k) = D(w) /\ job'[k] = "queued"
    BY <1>0, <2>1, <2>2, JobShape DEF Enqueue, Written
  <2>4. \A k \in Job : job[k] = "queued" => job'[k] = "queued"
    BY <2>1 DEF Enqueue, Written
  <2> QED BY <2>1, <2>2, <2>3, <2>4, AttendedByWorker
<1>10. CASE EmbedList(w)
  BY <1>10, AttendedByWorker DEF EmbedList
<1>11. CASE EmbedCompute(w)
  BY <1>11, AttendedByWorker DEF EmbedCompute
<1>12. CASE EmbedStore(w)
  BY <1>12, AttendedByWorker DEF EmbedStore
<1>13. CASE EmbedSet(w)
  BY <1>13, AttendedByWorker DEF EmbedSet
<1>14. CASE EmbedReady(w)
  <2>1. PICK o \in Outcomes("e.ready", Exists(D(w))) :
          /\ SetDoc(o, D(w), "ready")
          /\ pc' = [pc EXCEPT ![w] = After(o, "completed", "failed")]
    BY <1>14 DEF EmbedReady
  <2>2. UNCHANGED <<job, cur, up>> /\ pc[w] # "idle"
    BY <1>14 DEF EmbedReady
  <2>3. ~InProgress(D(w))'
    BY <1>0, <2>1, <2>2, CalmOutcome DEF Calm, InProgress, SetDoc, Written, Exists, D
  <2>4. \A e \in Doc : e # D(w) => doc'[e] = doc[e]
    BY <2>1 DEF SetDoc, Written
  <2> QED BY <2>1, <2>2, <2>3, <2>4, AttendedByWorker
<1>15. CASE MarkFailed(w)
  <2>1. PICK o \in Outcomes("fail", Exists(D(w))) : SetDoc(o, D(w), "failed")
    BY <1>15 DEF MarkFailed
  <2>2. UNCHANGED <<job, cur, up>> /\ pc[w] # "idle" /\ pc' = [pc EXCEPT ![w] = "failed"]
    BY <1>15 DEF MarkFailed
  <2>3. ~InProgress(D(w))'
    BY <1>0, <2>1, <2>2, CalmOutcome DEF Calm, InProgress, SetDoc, Written, Exists, D
  <2>4. \A e \in Doc : e # D(w) => doc'[e] = doc[e]
    BY <2>1 DEF SetDoc, Written
  <2> QED BY <2>2, <2>3, <2>4, AttendedByWorker
<1>16. CASE RecordOutcome(w)
  <2>1. /\ pc[w] \in Record /\ cur[w] \in Job /\ job[cur[w]] # "queued"
        /\ job' = job \/ job' = [job EXCEPT ![cur[w]] = pc[w]]
        /\ pc' = [pc EXCEPT ![w] = "idle"] /\ cur' = [cur EXCEPT ![w] = None]
        /\ UNCHANGED <<doc, up>>
    BY <1>16, OwnJob DEF RecordOutcome, Written
  <2>2. \A k \in Job : Attending(k) => Attending(k)'
    <3> SUFFICES ASSUME NEW k \in Job, Attending(k) PROVE Attending(k)'
      OBVIOUS
    <3>1. k # cur[w]
      BY <2>1, PipelineAssumption DEF Attending, QInv, OneHolder
    <3> QED BY <2>1, <3>1 DEF Attending
  <2> QED BY <2>1, <2>2, AttendedKept DEF InProgress
<1> QED
  BY <1>1, <1>2, <1>3, <1>4, <1>5, <1>6, <1>7, <1>8, <1>9, <1>10, <1>11, <1>12,
     <1>13, <1>14, <1>15, <1>16 DEF Step

\* An accepted document that is pending or processing has a job queued or held
\* for it, while no process died and only the statements Process handles fail
\* (document_server.go UploadDocument, worker.go tryProcess and the workers).
THEOREM NeverOrphaned == Spec => []NoOrphanedDocument
<1> DEFINE AInv == TInv /\ QInv /\ (Calm => Attended)
<1>1. Init => AInv
  BY QueueInductive DEF Init, Attended, InProgress
<1>2. AInv /\ [Next]_vars => AInv'
  <2> SUFFICES ASSUME AInv, [Next]_vars, Calm' PROVE Attended'
    BY QueueInductive
  <2>1. ~Crash
    BY DEF Crash, Calm, TInv, TypeOK
  <2>2. UNCHANGED crashes
    BY <2>1 DEF vars, Next, Client, Handler, Step, CreateDocument, UploadCreate, UploadSave,
          UploadEnqueue, DeleteDocument, IngestStart, IngestCreate, IngestStore, IngestSet,
          IngestEnqueue, DeleteVector, DeleteChunk, Claim, ExtractStart, ExtractRead,
          ExtractSave, ExtractEnqueue, ChunkRead, ChunkSplit, ChunkCreate, ChunkEnqueue,
          EmbedList, EmbedCompute, EmbedStore, EmbedSet, EmbedReady, MarkFailed, RecordOutcome
  <2>3. Calm /\ Attended
    BY <2>2 DEF Calm
  <2>4. CASE UNCHANGED vars
    BY <2>3, <2>4, AttendedKept DEF vars, rows, loops, handlers, InProgress, Attending
  <2> QED BY <2>1, <2>3, <2>4, ClientAttends, HandlerAttends, StepAttends DEF Next
<1>3. AInv => NoOrphanedDocument
  <2> SUFFICES ASSUME TInv, QInv, Calm => Attended PROVE NoOrphanedDocument
    OBVIOUS
  <2> QED BY DEF NoOrphanedDocument, Calm, Attended, InProgress, Attending, Held
<1> QED BY <1>1, <1>2, <1>3, PTL DEF Spec
-----------------------------------------------------------------------------
(* Nothing outlives its document.                                          *)

\* Chunks belong to the document or the request they are named by.
LEMMA ChunkShape ==
    /\ \A d \in Doc : \A i : DocOf(<<d, i>>) = d
    /\ \A r \in Req : \A i : DocOf(<<r, i>>) = ReqDoc[r]
  BY PipelineAssumption DEF DocOf

\* A step after which deleted documents were deleted before, and that adds
\* rows only to documents that are not.
LEMMA StaysEmpty ==
    ASSUME NothingOutlivesItsDocument,
           \A d \in Doc : doc'[d] = "gone" =>
              doc[d] = "gone" /\ raw'[d] = raw[d] /\ text'[d] = text[d],
           \A c \in Chunk :
              \/ doc'[DocOf(c)] # "gone"
              \/ /\ chunk'[c] = "active" => chunk[c] = "active"
                 /\ c \in emb' \union vec' => c \in emb \union vec,
           \A j \in Job : job'[j] = job[j] \/ doc'[DocOf(j)] # "gone"
    PROVE  NothingOutlivesItsDocument'
<1> SUFFICES ASSUME NEW d \in Doc, doc'[d] = "gone"
             PROVE  /\ raw'[d] = None /\ ~text'[d]
                    /\ \A c \in ChunksOf(d) : chunk'[c] # "active" /\ c \notin emb' \union vec'
                    /\ \A j \in Job : DocOf(j) = d => job'[j] \in {"none", "gone"}
  BY DEF NothingOutlivesItsDocument
<1>1. doc[d] = "gone"
  OBVIOUS
<1>2. raw'[d] = None /\ ~text'[d]
  BY <1>1 DEF NothingOutlivesItsDocument
<1>3. \A c \in ChunksOf(d) : chunk'[c] # "active" /\ c \notin emb' \union vec'
  BY <1>1 DEF NothingOutlivesItsDocument, ChunksOf
<1>4. \A j \in Job : DocOf(j) = d => job'[j] \in {"none", "gone"}
  BY <1>1 DEF NothingOutlivesItsDocument
<1> QED BY <1>2, <1>3, <1>4

\* What has rows is not deleted.
LEMMA StillThere ==
    ASSUME TInv, NothingOutlivesItsDocument
    PROVE  /\ \A d \in Doc : raw[d] # None => doc[d] # "gone"
           /\ \A c \in Chunk : chunk[c] = "active" => doc[DocOf(c)] # "gone"
           /\ \A j \in Job : job[j] \in {"queued", "running"} => doc[DocOf(j)] # "gone"
  BY DocOfType DEF NothingOutlivesItsDocument, ChunksOf

\* An INSERT of a job is refused for a document that is not there.
LEMMA EnqueueEmpties ==
    ASSUME TInv, NothingOutlivesItsDocument,
           NEW j \in Job, NEW l, NEW o \in Outcomes(l, Exists(DocOf(j))), Enqueue(o, j),
           UNCHANGED <<doc, raw, text, chunk, emb, vec>>
    PROVE  NothingOutlivesItsDocument'
<1>1. \/ job' = job
      \/ doc[DocOf(j)] # "gone" /\ job' = [job EXCEPT ![j] = "queued"]
  BY OutcomeFact DEF Enqueue, Written, Exists
<1> QED BY <1>1, StaysEmpty DEF TInv, TypeOK

\* Clients delete documents with all their rows.
LEMMA ClientEmpties ==
    ASSUME TInv, NothingOutlivesItsDocument, Client
    PROVE  NothingOutlivesItsDocument'
<1> USE DEF TInv, TypeOK, rows, loops, handlers
<1>1. ASSUME NEW d \in Doc, CreateDocument(d) PROVE NothingOutlivesItsDocument'
  BY <1>1, StaysEmpty DEF CreateDocument
<1>2. ASSUME NEW d \in Doc, UploadCreate(d) PROVE NothingOutlivesItsDocument'
  BY <1>2, StaysEmpty DEF UploadCreate, SetDoc, Written
<1>3. ASSUME NEW d \in Doc, DeleteDocument(d) PROVE NothingOutlivesItsDocument'
  <2> SUFFICES ASSUME NEW e \in Doc, doc'[e] = "gone"
               PROVE  /\ raw'[e] = None /\ ~text'[e]
                      /\ \A c \in ChunksOf(e) : chunk'[c] # "active" /\ c \notin emb' \union vec'
                      /\ \A j \in Job : DocOf(j) = e => job'[j] \in {"none", "gone"}
    BY DEF NothingOutlivesItsDocument
  <2>1. CASE e = d
    BY <1>3, <2>1 DEF DeleteDocument, ChunksOf
  <2>2. CASE e # d
    <3>1. doc[e] = "gone"
      BY <1>3, <2>2 DEF DeleteDocument
    <3>2. \A c \in ChunksOf(e) : chunk'[c] = chunk[c] /\ (c \in emb' \union vec' => c \in emb \union vec)
      BY <1>3, <2>2 DEF DeleteDocument, ChunksOf
    <3>3. \A j \in Job : DocOf(j) = e => job'[j] = job[j]
      BY <1>3, <2>2 DEF DeleteDocument
    <3>4. raw'[e] = raw[e] /\ text'[e] = text[e]
      BY <1>3, <2>2 DEF DeleteDocument
    <3> QED BY <3>1, <3>2, <3>3, <3>4 DEF NothingOutlivesItsDocument
  <2> QED BY <2>1, <2>2
<1>4. ASSUME NEW r \in Req, IngestStart(r) PROVE NothingOutlivesItsDocument'
  BY <1>4, StaysEmpty DEF IngestStart
<1>5. ASSUME NEW c \in Chunk, DeleteVector(c) PROVE NothingOutlivesItsDocument'
  BY <1>5, StaysEmpty DEF DeleteVector, Written
<1> QED BY <1>1, <1>2, <1>3, <1>4, <1>5 DEF Client

\* Handlers insert rows only for documents that are there, or for chunks that are.
LEMMA HandlerEmpties ==
    ASSUME TInv, NothingOutlivesItsDocument, Handler
    PROVE  NothingOutlivesItsDocument'
<1> USE DEF TInv, TypeOK, loops, handlers, Written, Exists
<1>0. ASSUME NEW r \in Req, ing[r] \in {"create", "store", "set"}
      PROVE  Current(r) \in Chunk /\ DocOf(Current(r)) = ReqDoc[r]
  BY <1>0, ChunkShape, PipelineAssumption DEF Current, Chunk
<1>1. ASSUME NEW d \in Doc, UploadSave(d) PROVE NothingOutlivesItsDocument'
  BY <1>1, StaysEmpty, OutcomeFact DEF UploadSave
<1>2. ASSUME NEW d \in Doc, UploadEnqueue(d) PROVE NothingOutlivesItsDocument'
  BY <1>2, EnqueueEmpties, JobShape DEF UploadEnqueue
<1>3. ASSUME NEW r \in Req, IngestCreate(r) PROVE NothingOutlivesItsDocument'
  BY ZenonT(60), <1>0, <1>3, StaysEmpty, OutcomeFact DEF IngestCreate
<1>4. ASSUME NEW r \in Req, IngestStore(r) PROVE NothingOutlivesItsDocument'
  BY <1>0, <1>4, StaysEmpty, StillThere, OutcomeFact DEF IngestStore
<1>5. ASSUME NEW r \in Req, IngestSet(r) PROVE NothingOutlivesItsDocument'
  BY <1>0, <1>5, StaysEmpty, StillThere DEF IngestSet
<1>6. ASSUME NEW r \in Req, IngestEnqueue(r) PROVE NothingOutlivesItsDocument'
  BY <1>6, EnqueueEmpties, JobShape DEF IngestEnqueue
<1>7. ASSUME NEW c \in Chunk, DeleteChunk(c) PROVE NothingOutlivesItsDocument'
  BY <1>7, StaysEmpty DEF DeleteChunk
<1> QED BY <1>1, <1>2, <1>3, <1>4, <1>5, <1>6, <1>7 DEF Handler

\* So do the workers, and an outcome is recorded only for a job that is there.
LEMMA StepEmpties ==
    ASSUME TInv, QInv, NothingOutlivesItsDocument, NEW w \in Worker, Step(w)
    PROVE  NothingOutlivesItsDocument'
<1> USE DEF TInv, TypeOK, rows, handlers, Written, Exists
<1>0. pc[w] # "idle" => cur[w] \in Job /\ D(w) \in Doc
  BY DocOfType DEF D
<1>1. CASE Claim(w)
  BY <1>1, StaysEmpty, StillThere DEF Claim, Claimable
<1>2. CASE ExtractStart(w)
  BY <1>0, <1>2, StaysEmpty DEF ExtractStart, SetDoc
<1>3. CASE ExtractRead(w)
  BY <1>3, StaysEmpty DEF ExtractRead
<1>4. CASE ExtractSave(w)
  BY <1>0, <1>4, StaysEmpty, StillThere, OutcomeFact DEF ExtractSave
<1>5. CASE ExtractEnqueue(w)
  BY <1>0, <1>5, EnqueueEmpties, JobShape DEF ExtractEnqueue
<1>6. CASE ChunkRead(w)
  BY <1>6, StaysEmpty DEF ChunkRead
<1>7. CASE ChunkSplit(w)
  BY <1>7, StaysEmpty DEF ChunkSplit
<1>8. CASE ChunkCreate(w)
  <2> DEFINE i == pieces[D(w)] - left[w] + 1
  <2>1. PICK o \in Outcomes("c.chunk", Exists(D(w))) :
          chunk' = Written(o, [chunk EXCEPT ![<<D(w), i>>] = "active"], chunk)
    BY <1>8 DEF ChunkCreate
  <2> HIDE DEF i
  <2>2. \A x \in Chunk : chunk'[x] = "active" => chunk[x] = "active" \/ doc[DocOf(x)] # "gone"
    <3>1. DocOf(<<D(w), i>>) = D(w)
      BY <1>0, <1>8, ChunkShape DEF ChunkCreate
    <3>2. o \in {"ok", "lost"} => doc[D(w)] # "gone"
      BY <2>1, OutcomeFact
    <3> QED BY <2>1, <3>1, <3>2
  <2> QED BY <1>8, <2>2, StaysEmpty DEF ChunkCreate
<1>9. CASE ChunkEnqueue(w)
  BY <1>0, <1>9, EnqueueEmpties, JobShape DEF ChunkEnqueue
<1>10. CASE EmbedList(w)
  BY <1>10, StaysEmpty DEF EmbedList
<1>11. CASE EmbedCompute(w)
  BY <1>11, StaysEmpty DEF EmbedCompute
<1>12. CASE EmbedStore(w)
  BY <1>12, StaysEmpty, StillThere, OutcomeFact DEF EmbedStore
<1>13. CASE EmbedSet(w)
  BY <1>13, StaysEmpty, StillThere DEF EmbedSet
<1>14. CASE EmbedReady(w)
  BY <1>0, <1>14, StaysEmpty DEF EmbedReady, SetDoc
<1>15. CASE MarkFailed(w)
  BY <1>0, <1>15, StaysEmpty DEF MarkFailed, SetDoc
<1>16. CASE RecordOutcome(w)
  <2>1. job[cur[w]] # "gone" => doc[D(w)] # "gone"
    BY <1>16, OwnJob, StillThere DEF RecordOutcome, Record, D
  <2>2. PICK o \in Outcomes("record", job[cur[w]] # "gone") :
          job' = IF o \in {"ok", "lost"} THEN [job EXCEPT ![cur[w]] = pc[w]] ELSE job
    BY <1>16 DEF RecordOutcome
  <2>3. \A j \in Job : job'[j] = job[j] \/ doc[DocOf(j)] # "gone"
    BY <2>1, <2>2, OutcomeFact DEF D
  <2> QED BY <1>16, <2>3, StaysEmpty DEF RecordOutcome
<1> QED
  BY <1>1, <1>2, <1>3, <1>4, <1>5, <1>6, <1>7, <1>8, <1>9, <1>10, <1>11, <1>12,
     <1>13, <1>14, <1>15, <1>16 DEF Step

\* A deleted document has no content, active chunk, vector or job, whatever
\* handlers and workers were doing at the time (document_server.go
\* DeleteDocument, the cascades of migrations/).
THEOREM DeletedStaysEmpty == Spec => []NothingOutlivesItsDocument
<1> DEFINE EInv == TInv /\ QInv /\ NothingOutlivesItsDocument
<1>1. Init => EInv
  BY QueueInductive DEF Init, NothingOutlivesItsDocument
<1>2. EInv /\ [Next]_vars => EInv'
  <2> SUFFICES ASSUME EInv, [Next]_vars PROVE NothingOutlivesItsDocument'
    BY QueueInductive
  <2>1. CASE Crash
    BY <2>1, StaysEmpty DEF Crash, rows
  <2>2. CASE UNCHANGED vars
    BY <2>2, StaysEmpty DEF vars, rows
  <2> QED BY <2>1, <2>2, ClientEmpties, HandlerEmpties, StepEmpties DEF Next
<1>3. EInv => NothingOutlivesItsDocument
  OBVIOUS
<1> QED BY <1>1, <1>2, <1>3, PTL DEF Spec
-----------------------------------------------------------------------------
(* The pipeline implements the job queue.                                  *)

\* Holder says who is at work on each job.
HolderMatches ==
    /\ Holder \in [Job -> Worker \union {None}]
    /\ \A w \in Worker : \A j \in Job : Holder[j] = w <=> cur[w] = j

\* A job has one holder, which CHOOSE then finds.
LEMMA HolderFact == TInv /\ QInv => HolderMatches
  BY PipelineAssumption DEF TInv, TypeOK, QInv, OneHolder, HolderMatches, Holder, Held

\* The holders after a step are known from what the workers have in hand.
LEMMA HolderAfter ==
    ASSUME HolderMatches', NEW f \in [Job -> Worker \union {None}],
           \A w \in Worker : \A j \in Job : f[j] = w <=> cur'[w] = j
    PROVE  Holder' = f
<1>1. \A j \in Job : Holder'[j] = f[j]
  BY PipelineAssumption DEF HolderMatches
<1> QED BY <1>1 DEF HolderMatches

\* No worker takes or drops a job, and none is inserted.
LEMMA QueueStutters ==
    ASSUME HolderMatches, HolderMatches', UNCHANGED <<job, cur>>
    PROVE  UNCHANGED Queue!vars
<1>1. Holder' = Holder
  BY HolderAfter DEF HolderMatches
<1> QED BY <1>1 DEF Queue!vars

\* An INSERT that takes effect is Create: the job is new.
LEMMA EnqueueRefines ==
    ASSUME TInv, HolderMatches, HolderMatches', UNCHANGED cur,
           NEW j \in Job, job[j] = "none", NEW o, Enqueue(o, j)
    PROVE  Queue!Next \/ UNCHANGED Queue!vars
<1>1. Holder' = Holder
  BY HolderAfter DEF HolderMatches
<1>2. CASE job' = job
  BY <1>1, <1>2 DEF Queue!vars
<1>3. CASE job' = [job EXCEPT ![j] = "queued"]
  <2>1. Queue!Create(j)
    BY <1>1, <1>3 DEF Queue!Create
  <2> QED BY <2>1 DEF Queue!Next
<1> QED BY <1>2, <1>3 DEF Enqueue, Written

\* ClaimNext hands the job out, unless it fails or its answer is lost.
LEMMA ClaimRefines ==
    ASSUME TInv, QInv, HolderMatches, HolderMatches', NEW w \in Worker, Claim(w)
    PROVE  Queue!Next \/ UNCHANGED Queue!vars
<1> USE DEF TInv, TypeOK
<1>1. PICK j \in Job, o \in Outcomes("claim", TRUE) :
         /\ job[j] = "queued"
         /\ job' = Written(o, [job EXCEPT ![j] = "running"], job)
         /\ cur' = [cur EXCEPT ![w] = After(o, j, None)]
  BY DEF Claim, Claimable
<1>2. cur[w] = None
  BY DEF Claim, QInv, InItsProcess
<1>3. CASE o = "ok"
  <2> DEFINE f == [Holder EXCEPT ![j] = w]
  <2>1. cur' = [cur EXCEPT ![w] = j]
    BY <1>1, <1>3 DEF After
  <2>2. \A v \in Worker : cur[v] # j
    BY <1>1, PipelineAssumption DEF QInv, HeldIsRunning
  <2>3. f \in [Job -> Worker \union {None}]
    BY DEF HolderMatches
  <2>4. \A v \in Worker : \A k \in Job : f[k] = v <=> cur'[v] = k
    BY <1>2, <2>1, <2>2, PipelineAssumption DEF HolderMatches
  <2> HIDE DEF f
  <2>5. Holder' = f
    BY <2>3, <2>4, HolderAfter
  <2>6. Queue!Claim(j, w)
    BY <1>1, <1>3, <2>5 DEF f, Written, Queue!Claim
  <2> QED BY <2>6 DEF Queue!Next
<1>4. CASE o # "ok"
  <2>1. UNCHANGED cur
    BY <1>1, <1>2, <1>4 DEF After
  <2>2. Holder' = Holder
    BY <2>1, HolderAfter DEF HolderMatches
  <2>3. CASE UNCHANGED job
    BY <2>2, <2>3 DEF Queue!vars
  <2>4. CASE job' = [job EXCEPT ![j] = "running"]
    BY <1>1, <2>2, <2>4 DEF Queue!ClaimLost, Queue!Next
  <2> QED BY <1>1, <2>3, <2>4 DEF Written
<1> QED BY <1>3, <1>4

\* An outcome on record is Finish; one that fails to be, Abandon.
LEMMA RecordRefines ==
    ASSUME TInv, QInv, HolderMatches, HolderMatches', NEW w \in Worker, RecordOutcome(w)
    PROVE  Queue!Next
<1> DEFINE j == cur[w]
           f == [Holder EXCEPT ![j] = None]
<1> USE DEF TInv, TypeOK
<1>1. /\ pc[w] \in Record /\ j \in Job /\ job[j] \in {"running", "gone"}
      /\ cur' = [cur EXCEPT ![w] = None]
  BY OwnJob DEF RecordOutcome, Record
<1>2. PICK o \in Outcomes("record", job[j] # "gone") :
         job' = Written(o, [job EXCEPT ![j] = pc[w]], job)
  BY DEF RecordOutcome
<1>3. f \in [Job -> Worker \union {None}]
  BY DEF HolderMatches
<1>4. \A v \in Worker : \A k \in Job : f[k] = v <=> cur'[v] = k
  BY <1>1, PipelineAssumption DEF HolderMatches
<1> HIDE DEF f
<1>5. Holder' = f
  BY <1>3, <1>4, HolderAfter
<1>6. Holder[j] # None
  BY <1>1, PipelineAssumption DEF HolderMatches
<1> HIDE DEF j
<1>7. CASE o \in {"ok", "lost"}
  <2>1. job[j] = "running"
    BY <1>1, <1>7, OutcomeFact
  <2>2. Queue!Finish(j, pc[w])
    BY <1>2, <1>5, <1>6, <1>7, <2>1 DEF f, Written, Queue!Finish
  <2>3. pc[w] \in Queue!Outcome
    BY <1>1 DEF Record, Queue!Outcome
  <2> QED BY <1>1, <2>2, <2>3 DEF Queue!Next
<1>8. CASE o \notin {"ok", "lost"}
  <2>1. UNCHANGED job
    BY <1>2, <1>8 DEF Written
  <2>2. Holder' = [k \in Job |-> IF k \in {j} THEN None ELSE Holder[k]]
    BY <1>5 DEF f, HolderMatches
  <2>3. Queue!Abandon({j})
    BY <1>6, <2>1, <2>2 DEF Queue!Abandon
  <2>4. {j} \in SUBSET Job
    BY <1>1
  <2> QED BY <2>3, <2>4 DEF Queue!Next
<1> QED BY <1>7, <1>8

\* The cascade of DeleteDocument is Remove.
LEMMA DeleteRefines ==
    ASSUME HolderMatches, HolderMatches', NEW d \in Doc, DeleteDocument(d), TInv, QInv
    PROVE  Queue!Next
<1> DEFINE S == {j \in Job : DocOf(j) = d /\ job[j] \notin {"none", "gone"}}
<1>1. UNCHANGED cur
  BY DEF DeleteDocument, loops
<1>2. Holder' = Holder
  BY <1>1, HolderAfter DEF HolderMatches
<1>3. job' = [j \in Job |-> IF j \in S THEN "gone" ELSE job[j]]
  BY DEF DeleteDocument
<1>4. \A j \in S : job[j] \notin {"none", "gone"}
  OBVIOUS
<1>5. S \in SUBSET Job
  OBVIOUS
<1> HIDE DEF S
<1>6. Queue!Remove(S)
  BY <1>2, <1>3, <1>4 DEF Queue!Remove
<1> QED BY <1>5, <1>6 DEF Queue!Next

\* The death of the process abandons the jobs in hand.
LEMMA CrashRefines ==
    ASSUME HolderMatches, HolderMatches', Crash
    PROVE  Queue!Next
<1> DEFINE S == {j \in Job : Holder[j] # None}
           f == [j \in Job |-> IF j \in S THEN None ELSE Holder[j]]
<1>1. \A w \in Worker : cur'[w] = None
  BY DEF Crash
<1>2. f \in [Job -> Worker \union {None}]
  BY DEF HolderMatches
<1>3. \A w \in Worker : \A j \in Job : f[j] = w <=> cur'[w] = j
  BY <1>1, PipelineAssumption
<1> HIDE DEF f
<1>4. Holder' = f
  BY <1>2, <1>3, HolderAfter
<1>5. UNCHANGED job
  BY DEF Crash, rows
<1>6. /\ \A j \in S : Holder[j] # None
      /\ S \in SUBSET Job
  OBVIOUS
<1> HIDE DEF S
<1>7. Queue!Abandon(S)
  BY <1>4, <1>5, <1>6 DEF f, Queue!Abandon
<1> QED BY <1>6, <1>7 DEF Queue!Next

\* Every step of the pipeline is one of the queue, or changes nothing of it.
LEMMA StepRefines ==
    TInv /\ QInv /\ HolderMatches /\ HolderMatches' /\ [Next]_vars => [Queue!Next]_(Queue!vars)
<1> SUFFICES ASSUME TInv, QInv, HolderMatches, HolderMatches', [Next]_vars
             PROVE  Queue!Next \/ UNCHANGED Queue!vars
  OBVIOUS
<1> USE DEF rows, loops, handlers
<1>1. ASSUME NEW d \in Doc, UploadEnqueue(d) PROVE Queue!Next \/ UNCHANGED Queue!vars
  BY <1>1, EnqueueRefines, JobIds DEF UploadEnqueue, QInv, NotYetExtracting
<1>2. ASSUME NEW r \in Req, IngestEnqueue(r) PROVE Queue!Next \/ UNCHANGED Queue!vars
  BY <1>2, EnqueueRefines, JobIds DEF IngestEnqueue, QInv, NotYetRequested
<1>3. CASE Client
  BY <1>3, DeleteRefines, QueueStutters
     DEF Client, CreateDocument, UploadCreate, IngestStart, DeleteVector
<1>4. CASE Handler
  BY <1>1, <1>2, <1>4, QueueStutters
     DEF Handler, UploadSave, IngestCreate, IngestStore, IngestSet, DeleteChunk
<1>5. ASSUME NEW w \in Worker, Step(w) PROVE Queue!Next \/ UNCHANGED Queue!vars
  <2>1. CASE ExtractEnqueue(w)
    <3>1. D(w) \in Doc /\ job[<<D(w), "chunking">>] = "none"
      BY <2>1, OwnJob DEF ExtractEnqueue, QInv, NotYetChunking, Extracting
    <3> QED BY <2>1, <3>1, EnqueueRefines, JobIds DEF ExtractEnqueue
  <2>2. CASE ChunkEnqueue(w)
    <3>1. D(w) \in Doc /\ job[<<D(w), "embedding">>] = "none"
      BY <2>2, OwnJob DEF ChunkEnqueue, QInv, NotYetEmbedding, Chunking
    <3> QED BY <2>2, <3>1, EnqueueRefines, JobIds DEF ChunkEnqueue
  <2> QED
    BY <1>5, <2>1, <2>2, ClaimRefines, RecordRefines, QueueStutters
       DEF Step, ExtractStart, ExtractRead, ExtractSave, ChunkRead, ChunkSplit, ChunkCreate,
           EmbedList, EmbedCompute, EmbedStore, EmbedSet, EmbedReady, MarkFailed
<1> QED BY <1>3, <1>4, <1>5, CrashRefines, QueueStutters DEF Next, vars

\* Each job of the pipeline is created once, handed to one worker and ended by
\* it (processing_job_store.go as the handlers, workers and cascades use it).
THEOREM PipelineIsQueue == Spec => ImplementsQueue
<1>1. Init => Queue!Init
  <2> SUFFICES ASSUME Init PROVE Queue!Init
    OBVIOUS
  <2>1. \A j \in Job : ~Held(j)
    BY PipelineAssumption DEF Init, Held
  <2>2. Holder = [j \in Job |-> None]
    BY <2>1 DEF Holder
  <2> QED BY <2>2 DEF Init, Queue!Init
<1>2. TInv /\ QInv => HolderMatches
  BY HolderFact
<1> QED BY <1>1, <1>2, QueueInductive, StepRefines, PTL DEF Spec, ImplementsQueue, Queue!Spec
-----------------------------------------------------------------------------
(* Outcomes are final.                                                     *)

\* An uploaded document that no request adds chunks to has the three jobs of
\* the pipeline.
Plain(d) == d \in Uploaded /\ \A r \in Req : ReqDoc[r] # d

LEMMA PlainJobs ==
    ASSUME NEW d \in Doc, Plain(d), NEW j \in Job, DocOf(j) = d
    PROVE  j \in {<<d, "extraction">>, <<d, "chunking">>, <<d, "embedding">>}
  BY PipelineAssumption DEF Plain, Job, DocOf

\* A loop that is working on its document.
AtWork(w) == pc[w] \notin Record \union {"idle"}

\* Without lost replies, a stage that ends in an error has not queued the next one.
FailFirst ==
    \A w \in Worker : pc[w] = "fail" =>
        /\ cur[w][2] = "extraction" => job[<<D(w), "chunking">>] = "none"
        /\ cur[w][2] = "chunking" => job[<<D(w), "embedding">>] = "none"

\* Then a document with an outcome has no job left, and no loop at work on it.
Over(d) ==
    /\ \A j \in Job : DocOf(j) = d => job[j] # "queued"
    /\ job[<<d, "extraction">>] # "none"
    /\ \A w \in Worker : AtWork(w) => D(w) # d

Settled == \A d \in Doc : Plain(d) /\ doc[d] \in {"ready", "failed"} => Over(d)

FInv == TInv /\ QInv /\ FailFirst /\ Settled

\* A loop at work is in one of the three functions or at their error path.
LEMMA Stages ==
    ASSUME TInv, QInv, NEW w \in Worker, AtWork(w)
    PROVE  /\ pc[w] \in Extracting \union Chunking \union Embedding \union {"fail"}
           /\ cur[w] \in Job /\ D(w) \in Doc /\ job[cur[w]] \in {"running", "gone"}
           /\ D(w) = DocOf(cur[w])
  BY OwnJob DEF TInv, TypeOK, PC, Body, AtWork, Extracting, Chunking, Embedding, Record, D

\* The stage that writes the outcome is the last one of the document.
LEMMA LastStage ==
    ASSUME FInv, NEW w \in Worker, pc[w] \in {"e.ready", "fail"}, Plain(D(w))
    PROVE  /\ \A j \in Job : DocOf(j) = D(w) => job[j] # "queued"
           /\ job[<<D(w), "extraction">>] # "none"
           /\ \A v \in Worker \ {w} : AtWork(v) => D(v) # D(w)
<1> DEFINE d == D(w)
           x == <<d, "extraction">>
           c == <<d, "chunking">>
           e == <<d, "embedding">>
<1>0. TInv /\ QInv /\ FailFirst /\ AtWork(w)
  BY DEF FInv, AtWork, Record
<1>1. d \in Doc /\ cur[w] \in Job /\ job[cur[w]] \in {"running", "gone"} /\ DocOf(cur[w]) = d
  BY <1>0, Stages
<1>2. cur[w] \in {x, c, e}
  BY <1>1, PlainJobs
<1>3. x \in Job /\ c \in Job /\ e \in Job
  BY <1>1, JobIds
<1>4. /\ job[x] \in {"none", "queued"} => job[c] = "none"
      /\ job[c] \in {"none", "queued"} => job[e] = "none"
  BY <1>0, <1>1 DEF QInv, NotYetChunking, NotYetEmbedding
<1>5. /\ pc[w] = "fail" /\ cur[w] = x => job[c] = "none"
      /\ pc[w] = "fail" /\ cur[w] = c => job[e] = "none"
      /\ pc[w] = "e.ready" => cur[w] = e
  BY <1>0, <1>2 DEF FailFirst, QInv, InItsProcess, Embedding
<1>6. job[x] \notin {"none", "queued"} /\ job[c] # "queued" /\ job[e] # "queued"
  BY <1>1, <1>2, <1>4, <1>5
<1>7. ASSUME NEW v \in Worker \ {w}, AtWork(v), D(v) = d
      PROVE  FALSE
  <2>1. /\ pc[v] \in Extracting \union Chunking \union Embedding \union {"fail"}
        /\ cur[v] \in Job /\ job[cur[v]] \in {"running", "gone"} /\ DocOf(cur[v]) = d
    BY <1>0, <1>7, Stages
  <2>2. cur[v] \in {x, c, e}
    BY <1>1, <2>1, PlainJobs
  <2>3. cur[v] # cur[w]
    BY <1>0, <2>1, PipelineAssumption DEF QInv, OneHolder
  <2>4. cur[v] = x => job[c] = "none"
    <3>1. cur[v] = x => pc[v] \in Extracting \/ (pc[v] = "fail" /\ cur[v][2] = "extraction")
      BY <1>0, <2>1 DEF QInv, InItsProcess
    <3> QED BY <1>0, <1>7, <3>1 DEF QInv, NotYetChunking, FailFirst
  <2>5. cur[v] = c => job[e] = "none"
    <3>1. cur[v] = c => pc[v] \in Chunking \/ (pc[v] = "fail" /\ cur[v][2] = "chunking")
      BY <1>0, <2>1 DEF QInv, InItsProcess
    <3> QED BY <1>0, <1>7, <3>1 DEF QInv, NotYetEmbedding, FailFirst
  <2> HIDE DEF x, c, e
  <2> QED BY <1>1, <1>2, <1>4, <1>5, <2>1, <2>2, <2>3, <2>4, <2>5
<1>8. \A j \in Job : DocOf(j) = d => j \in {x, c, e}
  BY <1>1, PlainJobs
<1> HIDE DEF d, x, c, e
<1>9. (\A j \in Job : DocOf(j) = d => job[j] # "queued") /\ job[x] # "none"
  BY <1>6, <1>8
<1> QED BY <1>7, <1>9 DEF d, x

\* Without lost replies, a statement that failed has not taken effect.
LEMMA NoReplyLost ==
    ASSUME ~LostReplies, NEW l, NEW can, NEW o \in Outcomes(l, can)
    PROVE  /\ o \in {"ok", "refused", "fault"}
           /\ o = "ok" => can
           /\ o = "refused" => ~can
  BY DEF Outcomes, Ends

\* A step of a handler or a client that queues no job of an uploaded document
\* with an outcome.
LEMMA SettledAside ==
    ASSUME FInv, UNCHANGED <<pc, cur>>,
           \A d \in Doc : /\ job[<<d, "chunking">>] = "none" => job'[<<d, "chunking">>] = "none"
                          /\ job[<<d, "embedding">>] = "none" => job'[<<d, "embedding">>] = "none",
           \A j \in Job : job[j] # "none" => job'[j] # "none",
           \A j \in Job : Plain(DocOf(j)) /\ job'[j] = "queued" => job[j] \in {"none", "queued"},
           \A d \in Doc : Plain(d) /\ doc'[d] \in {"ready", "failed"} => doc[d] = doc'[d],
           \A j \in Job : Plain(DocOf(j)) /\ job'[j] = "queued" /\ job[j] = "none" =>
              doc[DocOf(j)] \notin {"ready", "failed"}
    PROVE  FailFirst' /\ Settled'
<1>1. \A w \in Worker : D(w)' = D(w) /\ (AtWork(w)' <=> AtWork(w))
  BY DEF D, AtWork
<1>2. FailFirst'
  <2> SUFFICES ASSUME NEW w \in Worker, pc'[w] = "fail"
               PROVE  /\ cur'[w][2] = "extraction" => job'[<<D(w)', "chunking">>] = "none"
                      /\ cur'[w][2] = "chunking" => job'[<<D(w)', "embedding">>] = "none"
    BY DEF FailFirst
  <2>1. pc[w] = "fail" /\ D(w) \in Doc
    BY Stages DEF FInv, AtWork, Record
  <2> QED BY <1>1, <2>1 DEF FInv, FailFirst
<1>3. Settled'
  <2> SUFFICES ASSUME NEW d \in Doc, Plain(d), doc'[d] \in {"ready", "failed"} PROVE Over(d)'
    BY DEF Settled, Plain
  <2>1. Over(d) /\ doc[d] \in {"ready", "failed"}
    BY DEF FInv, Settled
  <2>2. \A j \in Job : DocOf(j) = d => job'[j] # "queued"
    BY <2>1 DEF Over
  <2>3. job'[<<d, "extraction">>] # "none"
    BY <2>1, JobIds DEF Over
  <2> QED BY <1>1, <2>1, <2>2, <2>3 DEF Over
<1> QED BY <1>2, <1>3

\* A statement inside Process of w; only the last one sets an outcome.
LEMMA SettledInside ==
    ASSUME FInv, NEW w \in Worker, NEW l, AtWork(w), UNCHANGED <<cur, job>>,
           pc' = [pc EXCEPT ![w] = l], l # "idle", l = "fail" => pc[w] # "fail",
           \A d \in Doc : \/ doc'[d] = doc[d]
                          \/ doc'[d] \notin {"ready", "failed"}
                          \/ d = D(w) /\ pc[w] \in {"e.ready", "fail"} /\ l \in Record
    PROVE  FailFirst' /\ Settled'
<1>0. TInv /\ QInv /\ FailFirst /\ Settled
  BY DEF FInv
<1>1. \A v \in Worker : D(v)' = D(v) /\ pc'[v] = (IF v = w THEN l ELSE pc[v])
  BY <1>0 DEF D, TInv, TypeOK
<1>2. /\ D(w) \in Doc /\ cur[w] \in Job
      /\ pc[w] \in Extracting \union Chunking \union Embedding \union {"fail"}
  BY <1>0, Stages
<1>3. FailFirst'
  <2> SUFFICES ASSUME NEW v \in Worker, pc'[v] = "fail"
               PROVE  /\ cur[v][2] = "extraction" => job[<<D(v), "chunking">>] = "none"
                      /\ cur[v][2] = "chunking" => job[<<D(v), "embedding">>] = "none"
    BY <1>1 DEF FailFirst
  <2>1. CASE v # w
    BY <1>0, <1>1, <2>1 DEF FailFirst
  <2>2. CASE v = w
    <3>1. pc[w] \in Extracting \union Chunking \union Embedding
      BY <1>1, <1>2, <2>2
    <3> QED BY <1>0, <2>2, <3>1 DEF QInv, InItsProcess, NotYetChunking, NotYetEmbedding
  <2> QED BY <2>1, <2>2
<1>4. Settled'
  <2> SUFFICES ASSUME NEW d \in Doc, Plain(d), doc'[d] \in {"ready", "failed"} PROVE Over(d)'
    BY DEF Settled, Plain
  <2>1. CASE doc'[d] = doc[d]
    <3>1. Over(d)
      BY <1>0, <2>1 DEF Settled
    <3>2. \A v \in Worker : AtWork(v)' => D(v)' # d
      BY <1>1, <3>1 DEF Over, AtWork
    <3> QED BY <3>1, <3>2 DEF Over
  <2>2. CASE d = D(w) /\ pc[w] \in {"e.ready", "fail"} /\ l \in Record
    <3>1. /\ \A j \in Job : DocOf(j) = d => job[j] # "queued"
          /\ job[<<d, "extraction">>] # "none"
          /\ \A v \in Worker \ {w} : AtWork(v) => D(v) # d
      BY <2>2, LastStage
    <3>2. \A v \in Worker : AtWork(v)' => D(v)' # d
      BY <1>1, <2>2, <3>1 DEF AtWork
    <3> QED BY <3>1, <3>2 DEF Over
  <2> QED BY <2>1, <2>2
<1> QED BY <1>3, <1>4

\* Loops that let go of a job leave none.
LEMMA SettledLetGo ==
    ASSUME FInv, UNCHANGED doc,
           \A v \in Worker : \/ pc'[v] = "idle"
                             \/ pc'[v] = pc[v] /\ cur'[v] = cur[v],
           \A j \in Job : /\ job[j] = "none" <=> job'[j] = "none"
                          /\ job'[j] = "queued" => job[j] = "queued"
    PROVE  FailFirst' /\ Settled'
<1>0. TInv /\ QInv /\ FailFirst /\ Settled
  BY DEF FInv
<1>1. ASSUME NEW v \in Worker, AtWork(v)'
      PROVE  AtWork(v) /\ pc'[v] = pc[v] /\ D(v)' = D(v) /\ cur'[v] = cur[v] /\ D(v) \in Doc
  BY <1>0, <1>1, Stages DEF AtWork, D
<1>2. FailFirst'
  <2> SUFFICES ASSUME NEW v \in Worker, pc'[v] = "fail"
               PROVE  /\ cur'[v][2] = "extraction" => job'[<<D(v)', "chunking">>] = "none"
                      /\ cur'[v][2] = "chunking" => job'[<<D(v)', "embedding">>] = "none"
    BY DEF FailFirst
  <2>1. AtWork(v)'
    BY DEF AtWork, Record
  <2>2. /\ <<D(v), "chunking">> \in Job /\ <<D(v), "embedding">> \in Job
        /\ pc[v] = "fail" /\ D(v)' = D(v) /\ cur'[v] = cur[v]
    BY <1>1, <2>1, JobIds
  <2> QED BY <1>0, <2>2 DEF FailFirst
<1>3. Settled'
  <2> SUFFICES ASSUME NEW d \in Doc, Plain(d), doc[d] \in {"ready", "failed"} PROVE Over(d)'
    BY DEF Settled, Plain
  <2>1. Over(d)
    BY <1>0 DEF Settled
  <2> QED BY <1>1, <2>1, JobIds DEF Over
<1> QED BY <1>2, <1>3

\* A loop takes a job that was left: its document has no outcome.
LEMMA ClaimSettled ==
    ASSUME FInv, NEW w \in Worker, Claim(w)
    PROVE  FailFirst' /\ Settled'
<1>0. TInv /\ QInv /\ FailFirst /\ Settled
  BY DEF FInv
<1>1. PICK j \in Job, o \in Outcomes("claim", TRUE) :
         /\ job[j] = "queued"
         /\ job' = IF o \in {"ok", "lost"} THEN [job EXCEPT ![j] = "running"] ELSE job
         /\ cur' = [cur EXCEPT ![w] = IF o = "ok" THEN j ELSE None]
         /\ pc' = [pc EXCEPT ![w] = IF o = "ok" THEN StartOf(j) ELSE "idle"]
  BY DEF Claim, Claimable, Written, After, Goto
<1>2. UNCHANGED doc /\ StartOf(j) \in {"x.start", "c.read", "e.list"}
  BY DEF Claim, StartOf, Job
<1>3. \A v \in Worker \ {w} : pc'[v] = pc[v] /\ cur'[v] = cur[v] /\ D(v)' = D(v)
  BY <1>0, <1>1 DEF TInv, TypeOK, D
<1>4. AtWork(w)' => D(w)' = DocOf(j)
  BY <1>0, <1>1 DEF AtWork, D, TInv, TypeOK
<1>5. \A k \in Job : (job[k] = "none" <=> job'[k] = "none") /\ (job'[k] = "queued" => job[k] = "queued")
  BY <1>0, <1>1 DEF TInv, TypeOK
<1>6. FailFirst'
  <2> SUFFICES ASSUME NEW v \in Worker, pc'[v] = "fail"
               PROVE  /\ cur'[v][2] = "extraction" => job'[<<D(v)', "chunking">>] = "none"
                      /\ cur'[v][2] = "chunking" => job'[<<D(v)', "embedding">>] = "none"
    BY DEF FailFirst
  <2>1. v # w
    BY <1>0, <1>1, <1>2 DEF TInv, TypeOK
  <2>2. pc[v] = "fail" /\ D(v) \in Doc
    BY <1>0, <1>3, <2>1, Stages DEF AtWork, Record
  <2> QED BY <1>0, <1>3, <1>5, <2>1, <2>2, JobIds DEF FailFirst
<1>7. Settled'
  <2> SUFFICES ASSUME NEW d \in Doc, Plain(d), doc[d] \in {"ready", "failed"} PROVE Over(d)'
    BY <1>2 DEF Settled, Plain
  <2>1. Over(d)
    BY <1>0 DEF Settled
  <2>2. \A v \in Worker : AtWork(v)' => D(v)' # d
    BY <1>1, <1>3, <1>4, <2>1 DEF Over, AtWork
  <2> QED BY <1>5, <2>1, <2>2, JobIds DEF Over
<1> QED BY <1>6, <1>7

\* A stage that queues the next one: the job is new, or the stage ends in an error.
LEMMA EnqueueSettled ==
    ASSUME FInv, ~LostReplies, NEW w \in Worker, ExtractEnqueue(w) \/ ChunkEnqueue(w)
    PROVE  FailFirst' /\ Settled'
<1> DEFINE d == D(w)
<1>0. TInv /\ QInv /\ FailFirst /\ Settled
  BY DEF FInv
<1>1. PICK s \in {"chunking", "embedding"} :
         /\ \/ job' = [job EXCEPT ![<<d, s>>] = "queued"] /\ pc' = [pc EXCEPT ![w] = "completed"]
            \/ job' = job /\ pc' = [pc EXCEPT ![w] = "fail"]
         /\ s = "chunking" => pc[w] \in Extracting
         /\ s = "embedding" => pc[w] \in Chunking
  <2>1. CASE ExtractEnqueue(w)
    <3>1. PICK o \in Outcomes("x.next", Exists(d)) :
             /\ job' = Written(o, [job EXCEPT ![<<d, "chunking">>] = "queued"], job)
             /\ pc' = [pc EXCEPT ![w] = After(o, "completed", "fail")]
      BY <2>1 DEF ExtractEnqueue, Enqueue, Goto
    <3> QED BY <2>1, <3>1, NoReplyLost DEF ExtractEnqueue, Written, After, Extracting
  <2>2. CASE ChunkEnqueue(w)
    <3>1. PICK o \in Outcomes("c.next", Exists(d)) :
             /\ job' = Written(o, [job EXCEPT ![<<d, "embedding">>] = "queued"], job)
             /\ pc' = [pc EXCEPT ![w] = After(o, "completed", "fail")]
      BY <2>2 DEF ChunkEnqueue, Enqueue, Goto
    <3> QED BY <2>2, <3>1, NoReplyLost DEF ChunkEnqueue, Written, After, Chunking
  <2> QED BY <2>1, <2>2
<1>2. UNCHANGED <<doc, cur>>
  BY DEF ExtractEnqueue, ChunkEnqueue
<1>3. AtWork(w) /\ d \in Doc /\ cur[w] \in Job /\ cur[w] # None
  <2>1. AtWork(w)
    BY <1>1 DEF Extracting, Chunking, AtWork, Record
  <2> QED BY <1>0, <2>1, Stages, PipelineAssumption
<1>4. /\ s = "chunking" => cur[w] = <<d, "extraction">>
      /\ s = "embedding" => cur[w] = <<d, "chunking">>
  BY <1>0, <1>1, <1>3, OwnJob DEF AtWork
<1>5. \A v \in Worker : D(v)' = D(v)
  BY <1>2 DEF D
<1> HIDE DEF d
<1>6. FailFirst'
  <2> SUFFICES ASSUME NEW v \in Worker, pc'[v] = "fail"
               PROVE  /\ cur[v][2] = "extraction" => job'[<<D(v), "chunking">>] = "none"
                      /\ cur[v][2] = "chunking" => job'[<<D(v), "embedding">>] = "none"
    BY <1>2, <1>5 DEF FailFirst
  <2>1. CASE v = w
    <3>1. UNCHANGED job
      BY <1>0, <1>1, <2>1 DEF TInv, TypeOK
    <3>2. /\ s = "chunking" => cur[w][2] = "extraction" /\ job[<<D(w), "chunking">>] = "none"
          /\ s = "embedding" => cur[w][2] = "chunking" /\ job[<<D(w), "embedding">>] = "none"
      BY <1>0, <1>1, <1>4 DEF QInv, NotYetChunking, NotYetEmbedding
    <3> QED BY <1>1, <2>1, <3>1, <3>2
  <2>2. CASE v # w
    <3>1. pc[v] = "fail"
      BY <1>0, <1>1, <2>2 DEF TInv, TypeOK
    <3>2. D(v) \in Doc /\ cur[v] \in Job /\ DocOf(cur[v]) = D(v)
      BY <1>0, <3>1, Stages DEF AtWork, Record
    <3>3. /\ cur[v][2] = "extraction" => job[<<D(v), "chunking">>] = "none"
          /\ cur[v][2] = "chunking" => job[<<D(v), "embedding">>] = "none"
      BY <1>0, <3>1 DEF FailFirst
    <3>4. cur[v] # cur[w]
      BY <1>0, <1>3, <2>2 DEF QInv, OneHolder
    <3>5. /\ cur[v][2] = "extraction" => cur[v] = <<D(v), "extraction">>
          /\ cur[v][2] = "chunking" => cur[v] = <<D(v), "chunking">>
      BY <3>2, JobShape
    <3>6. /\ cur[v][2] = "extraction" => <<D(v), "chunking">> # <<d, s>>
          /\ cur[v][2] = "chunking" => <<D(v), "embedding">> # <<d, s>>
      BY <1>4, <3>4, <3>5
    <3>7. \A k \in Job : k # <<d, s>> => job'[k] = job[k]
      BY <1>0, <1>1 DEF TInv, TypeOK
    <3> QED BY <3>2, <3>3, <3>6, <3>7, JobIds
  <2> QED BY <2>1, <2>2
<1>7. Settled'
  <2> SUFFICES ASSUME NEW e \in Doc, Plain(e), doc[e] \in {"ready", "failed"} PROVE Over(e)'
    BY <1>2 DEF Settled, Plain
  <2>1. Over(e)
    BY <1>0 DEF Settled
  <2>2. e # d
    BY <1>3, <2>1 DEF Over, d
  <2>3. DocOf(<<d, s>>) = d
    BY <1>3, JobShape
  <2>4. \A k \in Job : DocOf(k) = e => job'[k] = job[k]
    BY <1>0, <1>1, <2>2, <2>3 DEF TInv, TypeOK
  <2>5. \A v \in Worker : AtWork(v)' => AtWork(v)
    BY <1>0, <1>1 DEF AtWork, TInv, TypeOK, Extracting, Chunking, Record
  <2>6. job'[<<e, "extraction">>] # "none"
    BY <2>1, <2>4, JobShape DEF Over
  <2> QED BY <1>5, <2>1, <2>4, <2>5, <2>6 DEF Over
<1> QED BY <1>6, <1>7

\* The statements of the workers.
LEMMA StepSettled ==
    ASSUME FInv, ~LostReplies, NEW w \in Worker, Step(w)
    PROVE  FailFirst' /\ Settled'
<1> USE DEF rows, handlers, Goto, After, AtWork, Record
<1>0. TInv /\ QInv /\ (AtWork(w) => D(w) \in Doc)
  BY Stages DEF FInv
<1>1. CASE Claim(w)
  BY <1>1, ClaimSettled
<1>2. CASE ExtractStart(w)
  <2>1. \A d \in Doc : doc'[d] = doc[d] \/ doc'[d] \notin {"ready", "failed"}
    BY <1>0, <1>2 DEF ExtractStart, SetDoc, Written, TInv, TypeOK
  <2> QED BY <1>2, <2>1, SettledInside DEF ExtractStart
<1>3. CASE ExtractRead(w)
  BY <1>3, SettledInside DEF ExtractRead
<1>4. CASE ExtractSave(w)
  BY <1>4, SettledInside DEF ExtractSave
<1>5. CASE ExtractEnqueue(w) \/ ChunkEnqueue(w)
  BY <1>5, EnqueueSettled
<1>6. CASE ChunkRead(w)
  BY <1>6, SettledInside DEF ChunkRead
<1>7. CASE ChunkSplit(w)
  BY <1>7, SettledInside DEF ChunkSplit
<1>8. CASE ChunkCreate(w)
  BY <1>8, SettledInside DEF ChunkCreate, NextPiece
<1>9. CASE EmbedList(w)
  BY <1>9, SettledInside DEF EmbedList
<1>10. CASE EmbedCompute(w)
  BY <1>10, SettledInside DEF EmbedCompute
<1>11. CASE EmbedStore(w)
  BY <1>11, SettledInside DEF EmbedStore
<1>12. CASE EmbedSet(w)
  BY <1>12, SettledInside DEF EmbedSet
<1>13. CASE EmbedReady(w)
  <2>1. PICK l \in Record : pc' = [pc EXCEPT ![w] = l]
    BY <1>13 DEF EmbedReady
  <2>2. \A d \in Doc : doc'[d] = doc[d] \/ d = D(w)
    BY <1>0, <1>13 DEF EmbedReady, SetDoc, Written, TInv, TypeOK
  <2>3. pc[w] = "e.ready" /\ UNCHANGED <<job, cur>>
    BY <1>13 DEF EmbedReady
  <2> QED BY <2>1, <2>2, <2>3, SettledInside
<1>14. CASE MarkFailed(w)
  <2>1. pc[w] = "fail" /\ UNCHANGED <<job, cur>> /\ pc' = [pc EXCEPT ![w] = "failed"]
    BY <1>14 DEF MarkFailed
  <2>2. \A d \in Doc : doc'[d] = doc[d] \/ d = D(w)
    BY <1>0, <1>14 DEF MarkFailed, SetDoc, Written, TInv, TypeOK
  <2> QED BY <2>1, <2>2, SettledInside
<1>15. CASE RecordOutcome(w)
  <2>1. /\ pc[w] \in Record /\ cur[w] \in Job /\ job[cur[w]] \in {"running", "gone"}
        /\ job' = job \/ job' = [job EXCEPT ![cur[w]] = pc[w]]
        /\ pc' = [pc EXCEPT ![w] = "idle"] /\ cur' = [cur EXCEPT ![w] = None]
        /\ UNCHANGED doc
    BY <1>0, <1>15, OwnJob DEF RecordOutcome, Written
  <2>2. \A j \in Job : (job[j] = "none" <=> job'[j] = "none") /\ (job'[j] = "queued" => job[j] = "queued")
    BY <1>0, <2>1 DEF TInv, TypeOK
  <2>3. \A v \in Worker : pc'[v] = "idle" \/ (pc'[v] = pc[v] /\ cur'[v] = cur[v])
    BY <1>0, <2>1 DEF TInv, TypeOK
  <2> QED BY <2>1, <2>2, <2>3, SettledLetGo
<1> QED
  BY <1>1, <1>2, <1>3, <1>4, <1>5, <1>6, <1>7, <1>8, <1>9, <1>10, <1>11, <1>12,
     <1>13, <1>14, <1>15 DEF Step

\* Clients give no document an outcome, but for those that are not uploaded.
LEMMA ClientSettled ==
    ASSUME FInv, Client
    PROVE  FailFirst' /\ Settled'
<1> USE DEF rows, loops, handlers
<1>0. TInv /\ QInv
  BY DEF FInv
<1>1. ASSUME NEW d \in Doc, CreateDocument(d) PROVE FailFirst' /\ Settled'
  <2>1. \A e \in Doc : Plain(e) => doc'[e] = doc[e]
    BY <1>0, <1>1 DEF CreateDocument, Plain, TInv, TypeOK
  <2> QED BY <1>1, <2>1, SettledAside DEF CreateDocument
<1>2. ASSUME NEW d \in Doc, UploadCreate(d) PROVE FailFirst' /\ Settled'
  <2>1. \A e \in Doc : doc'[e] \in {"ready", "failed"} => doc[e] = doc'[e]
    BY <1>0, <1>2 DEF UploadCreate, SetDoc, Written, TInv, TypeOK
  <2>2. UNCHANGED <<pc, cur, job>>
    BY <1>2 DEF UploadCreate
  <2> QED BY <2>1, <2>2, SettledAside
<1>3. ASSUME NEW d \in Doc, DeleteDocument(d) PROVE FailFirst' /\ Settled'
  <2>1. \A j \in Job : job'[j] = job[j] \/ (job[j] # "none" /\ job'[j] = "gone")
    BY <1>3 DEF DeleteDocument
  <2>2. \A e \in Doc : doc'[e] \in {"ready", "failed"} => doc[e] = doc'[e]
    BY <1>0, <1>3 DEF DeleteDocument, TInv, TypeOK
  <2>3. UNCHANGED <<pc, cur>>
    BY <1>3 DEF DeleteDocument
  <2> QED BY <2>1, <2>2, <2>3, JobIds, SettledAside
<1>4. ASSUME NEW r \in Req, IngestStart(r) PROVE FailFirst' /\ Settled'
  BY <1>4, SettledAside DEF IngestStart
<1>5. ASSUME NEW c \in Chunk, DeleteVector(c) PROVE FailFirst' /\ Settled'
  BY <1>5, SettledAside DEF DeleteVector
<1> QED BY <1>1, <1>2, <1>3, <1>4, <1>5 DEF Client

\* Of the handlers, only UploadDocument queues a job of a document that no
\* request adds to, and that is its first.
LEMMA HandlerSettled ==
    ASSUME FInv, Handler
    PROVE  FailFirst' /\ Settled'
<1> USE DEF loops, handlers
<1>0. TInv /\ QInv /\ Settled
  BY DEF FInv
<1>1. ASSUME NEW d \in Doc, UploadSave(d) PROVE FailFirst' /\ Settled'
  BY <1>1, SettledAside DEF UploadSave
<1>2. ASSUME NEW d \in Doc, UploadEnqueue(d) PROVE FailFirst' /\ Settled'
  <2>1. UNCHANGED <<doc, pc, cur>> /\ (job' = job \/ job' = [job EXCEPT ![<<d, "extraction">>] = "queued"])
    BY <1>2 DEF UploadEnqueue, Enqueue, Written
  <2>2. job[<<d, "extraction">>] = "none" /\ DocOf(<<d, "extraction">>) = d
    BY <1>0, <1>2, JobShape DEF UploadEnqueue, QInv, NotYetExtracting
  <2>3. \A j \in Job : j # <<d, "extraction">> => job'[j] = job[j]
    BY <1>0, <2>1 DEF TInv, TypeOK
  <2>4. \A j \in Job : job[j] # "none" => job'[j] # "none"
    BY <2>2, <2>3
  <2>5. \A e \in Doc : job'[<<e, "chunking">>] = job[<<e, "chunking">>] /\ job'[<<e, "embedding">>] = job[<<e, "embedding">>]
    BY <2>3, JobIds
  <2>6. \A j \in Job : job'[j] = "queued" => job[j] \in {"none", "queued"}
    BY <2>2, <2>3
  <2>7. Plain(d) => doc[d] \notin {"ready", "failed"}
    BY <1>0, <2>2 DEF Settled, Over
  <2>8. \A j \in Job : Plain(DocOf(j)) /\ job'[j] = "queued" /\ job[j] = "none" =>
           doc[DocOf(j)] \notin {"ready", "failed"}
    BY <2>2, <2>3, <2>7
  <2> QED BY <2>1, <2>4, <2>5, <2>6, <2>8, SettledAside
<1>3. ASSUME NEW r \in Req, IngestCreate(r) PROVE FailFirst' /\ Settled'
  BY <1>3, SettledAside DEF IngestCreate
<1>4. ASSUME NEW r \in Req, IngestStore(r) PROVE FailFirst' /\ Settled'
  BY <1>4, SettledAside DEF IngestStore
<1>5. ASSUME NEW r \in Req, IngestSet(r) PROVE FailFirst' /\ Settled'
  BY <1>5, SettledAside DEF IngestSet
<1>6. ASSUME NEW r \in Req, IngestEnqueue(r) PROVE FailFirst' /\ Settled'
  <2>1. UNCHANGED <<doc, pc, cur>> /\ (job' = job \/ job' = [job EXCEPT ![<<r, "embedding">>] = "queued"])
    BY <1>6 DEF IngestEnqueue, Enqueue, Written
  <2>2. \A j \in Job : j # <<r, "embedding">> => job'[j] = job[j]
    BY <1>0, <2>1 DEF TInv, TypeOK
  <2>3. DocOf(<<r, "embedding">>) = ReqDoc[r] /\ ~Plain(ReqDoc[r])
    BY JobShape DEF Plain
  <2>4. \A e \in Doc : job'[<<e, "chunking">>] = job[<<e, "chunking">>] /\ job'[<<e, "embedding">>] = job[<<e, "embedding">>]
    BY <2>2, JobShape
  <2>5. \A j \in Job : job[j] # "none" => job'[j] # "none"
    BY <1>0, <2>1 DEF TInv, TypeOK
  <2>6. \A j \in Job : Plain(DocOf(j)) => job'[j] = job[j]
    BY <2>2, <2>3
  <2> QED BY <2>1, <2>4, <2>5, <2>6, SettledAside
<1>7. ASSUME NEW c \in Chunk, DeleteChunk(c) PROVE FailFirst' /\ Settled'
  BY <1>7, SettledAside DEF DeleteChunk
<1> QED BY <1>1, <1>2, <1>3, <1>4, <1>5, <1>6, <1>7 DEF Handler

\* Who changes the status of a document that is uploaded, other than by deleting it.
LEMMA StatusChanges ==
    ASSUME TInv, [Next]_vars, NEW d \in Doc, doc'[d] # doc[d]
    PROVE  \/ d \notin Uploaded
           \/ doc'[d] = "gone"
           \/ up[d] = "idle"
           \/ \E w \in Worker : D(w) = d /\ AtWork(w)
<1> USE DEF rows, loops, handlers, TInv, TypeOK
<1>1. CASE Client
  <2>1. ASSUME NEW e \in Doc, CreateDocument(e) PROVE d \notin Uploaded
    BY <2>1 DEF CreateDocument
  <2>2. ASSUME NEW e \in Doc, UploadCreate(e) PROVE up[d] = "idle"
    BY <2>2 DEF UploadCreate, SetDoc, Written
  <2>3. ASSUME NEW e \in Doc, DeleteDocument(e) PROVE doc'[d] = "gone"
    BY <2>3 DEF DeleteDocument
  <2>4. /\ \A r \in Req : ~IngestStart(r)
        /\ \A c \in Chunk : ~DeleteVector(c)
    BY DEF IngestStart, DeleteVector
  <2> QED BY <1>1, <2>1, <2>2, <2>3, <2>4 DEF Client
<1>2. CASE Handler
  BY <1>2 DEF Handler, UploadSave, UploadEnqueue, IngestCreate, IngestStore, IngestSet,
        IngestEnqueue, DeleteChunk
<1>3. ASSUME NEW w \in Worker, Step(w)
      PROVE  D(w) = d /\ AtWork(w)
  <2>1. ExtractStart(w) \/ EmbedReady(w) \/ MarkFailed(w)
    BY <1>3 DEF Step, Claim, ExtractRead, ExtractSave, ExtractEnqueue, ChunkRead, ChunkSplit,
          ChunkCreate, ChunkEnqueue, EmbedList, EmbedCompute, EmbedStore, EmbedSet, RecordOutcome
  <2> QED BY <2>1 DEF ExtractStart, EmbedReady, MarkFailed, SetDoc, Written, AtWork, Record
<1>4. CASE Crash
  BY <1>4 DEF Crash
<1>5. CASE UNCHANGED vars
  BY <1>5 DEF vars
<1> QED BY <1>1, <1>2, <1>3, <1>4, <1>5 DEF Next

\* Without lost replies, a document that no request adds to keeps its outcome
\* until it is deleted (the order of the enqueue and of UpdateStatus in the three
\* Process functions).
THEOREM OutcomesStay == Spec => OutcomeIsFinal
<1> DEFINE OInv == TInv /\ QInv /\ (~LostReplies => FailFirst /\ Settled)
           Stay == \A d \in Uploaded :
                      /\ doc[d] \in {"ready", "failed"}
                      /\ ~LostReplies
                      /\ \A r \in Req : ReqDoc[r] # d
                      => doc'[d] \in {doc[d], "gone"}
<1>1. Init => OInv
  BY QueueInductive, PipelineAssumption DEF Init, FailFirst, Settled, Plain
<1>2. OInv /\ [Next]_vars => OInv'
  <2> SUFFICES ASSUME FInv, ~LostReplies, [Next]_vars PROVE FailFirst' /\ Settled'
    BY QueueInductive DEF FInv
  <2>1. CASE Crash
    BY <2>1, SettledLetGo DEF Crash, rows
  <2>2. CASE UNCHANGED vars
    BY <2>2, SettledAside DEF vars, rows, loops
  <2> QED BY <2>1, <2>2, ClientSettled, HandlerSettled, StepSettled DEF Next
<1>3. OInv /\ [Next]_vars => Stay
  <2> SUFFICES ASSUME FInv, [Next]_vars, NEW d \in Uploaded, doc[d] \in {"ready", "failed"},
                      \A r \in Req : ReqDoc[r] # d, doc'[d] \notin {doc[d], "gone"}
               PROVE  FALSE
    BY DEF FInv
  <2>1. d \in Doc /\ Plain(d) /\ TInv /\ QInv
    BY PipelineAssumption DEF FInv, Plain
  <2>2. Over(d)
    BY <2>1 DEF FInv, Settled
  <2>3. up[d] # "idle"
    BY <2>1, <2>2 DEF Over, QInv, NotYetExtracting
  <2>4. \A w \in Worker : D(w) = d => ~AtWork(w)
    BY <2>2 DEF Over
  <2> QED BY <2>1, <2>3, <2>4, StatusChanges
<1>4. [][Stay]_vars => OutcomeIsFinal
  BY PTL DEF OutcomeIsFinal
<1> QED BY <1>1, <1>2, <1>3, PTL DEF Spec, OutcomeIsFinal
-----------------------------------------------------------------------------
(* What is indexed has a vector.                                           *)

Torn(c)   == del[c] \in {"chunk", "torn"}
Stored(c) == chunk[c] = "gone" \/ c \in vec \/ Torn(c)

\* Chunks are inserted once: those that a chunking job or a request has still to
\* insert have no row.
FreshPieces ==
    /\ \A d \in Doc : job[<<d, "chunking">>] \in {"none", "queued"} =>
          \A i \in 1..Pieces : chunk[<<d, i>>] = "none"
    /\ \A w \in Worker : pc[w] \in {"c.read", "c.split"} =>
          \A i \in 1..Pieces : chunk[<<D(w), i>>] = "none"
    /\ \A w \in Worker : pc[w] = "c.chunk" =>
          /\ left[w] \in 1..pieces[D(w)]
          /\ \A i \in 1..Pieces : i > pieces[D(w)] - left[w] => chunk[<<D(w), i>>] = "none"

FreshItems ==
    \A r \in Req : \A i \in 1..ReqSize :
        \/ ing[r] = "idle"
        \/ ing[r] = "create" /\ i >= at[r]
        \/ ing[r] \in {"store", "set"} /\ i > at[r]
        => chunk[<<r, i>>] = "none"

\* Vectors and ids belong to chunks there are, and an id comes after its vector.
Truthful ==
    /\ \A c \in emb \union vec : chunk[c] = "active"
    /\ \A c \in emb : c \in vec \/ Torn(c)

\* What a loop or a request is about to give an id has been stored.
StoredFirst ==
    /\ \A w \in Worker : pc[w] = "e.set" => \A c \in todo[w] : Stored(c)
    /\ \A w \in Worker : pc[w] = "e.store" =>
          todo[w] \subseteq list[w] /\ \A c \in list[w] \ todo[w] : Stored(c)
    /\ \A r \in Req : ing[r] = "set" => Stored(Current(r))

VInv == TInv /\ QInv /\ FreshPieces /\ FreshItems /\ Truthful /\ StoredFirst

\* What no step undoes: a deleted chunk stays deleted, a vector goes only with
\* its chunk or with the first half of a deletion, and an id only with its chunk.
Forward ==
    \A c \in Chunk :
        /\ chunk[c] = "gone" => chunk'[c] = "gone"
        /\ chunk[c] # "none" => chunk'[c] # "none"
        /\ Torn(c) => Torn(c)' \/ chunk'[c] = "gone"
        /\ c \in vec => c \in vec' \/ Torn(c)' \/ chunk'[c] = "gone"
        /\ c \in emb => c \in emb' \/ chunk'[c] = "gone"
        /\ c \in emb' => c \in emb \/ Stored(c)
        /\ c \in emb' \union vec' => chunk'[c] = "active"

LEMMA StoredStays ==
    ASSUME Forward, NEW c \in Chunk, Stored(c)
    PROVE  Stored(c)'
  BY DEF Forward, Stored

LEMMA TruthStays ==
    ASSUME TInv, TInv', Truthful, Forward
    PROVE  Truthful'
<1>1. emb' \subseteq Chunk /\ vec' \subseteq Chunk
  BY DEF TInv, TypeOK
<1>2. \A c \in emb' \union vec' : chunk'[c] = "active"
  BY <1>1 DEF Forward
<1>3. ASSUME NEW c \in emb' PROVE c \in vec' \/ Torn(c)'
  <2>1. Stored(c)
    BY <1>1 DEF Forward, Truthful, Stored
  <2>2. Stored(c)' /\ chunk'[c] = "active"
    BY <1>1, <1>2, <2>1, StoredStays
  <2> QED BY <2>2 DEF Stored
<1> QED BY <1>2, <1>3 DEF Truthful

LEMMA StandsStill ==
    ASSUME VInv, UNCHANGED <<chunk, emb, vec, del>>
    PROVE  Forward
  BY DEF VInv, Truthful, Forward, Torn

\* The chunk a loop is about to insert.
LEMMA NewPiece ==
    ASSUME VInv, NEW w \in Worker, pc[w] = "c.chunk"
    PROVE  LET i == pieces[D(w)] - left[w] + 1
           IN  /\ i \in 1..Pieces /\ <<D(w), i>> \in Chunk /\ chunk[<<D(w), i>>] = "none"
               /\ D(w) \in Doc /\ pieces[D(w)] \in 1..Pieces /\ left[w] \in 1..pieces[D(w)]
<1>1. D(w) \in Doc
  BY OwnJob DEF VInv
<1>2. pieces[D(w)] \in 0..Pieces /\ Pieces \in Nat
  BY <1>1, PipelineAssumption DEF VInv, TInv, TypeOK
<1>3. /\ left[w] \in 1..pieces[D(w)]
      /\ \A i \in 1..Pieces : i > pieces[D(w)] - left[w] => chunk[<<D(w), i>>] = "none"
  BY DEF VInv, FreshPieces
<1> DEFINE i == pieces[D(w)] - left[w] + 1
<1>4. i \in 1..Pieces /\ i > pieces[D(w)] - left[w] /\ pieces[D(w)] \in 1..Pieces
  BY <1>2, <1>3
<1>5. <<D(w), i>> \in Chunk
  BY <1>1, <1>4 DEF Chunk
<1> QED BY <1>1, <1>3, <1>4, <1>5

LEMMA NewItem ==
    ASSUME VInv, NEW r \in Req, ing[r] \in {"create", "store", "set"}
    PROVE  /\ Current(r) \in Chunk /\ at[r] \in 1..ReqSize
           /\ ing[r] = "create" => chunk[Current(r)] = "none"
<1>1. at[r] \in 1..ReqSize
  BY DEF VInv, TInv
<1>2. Current(r) \in Chunk
  BY <1>1 DEF Current, Chunk
<1>3. at[r] >= at[r]
  BY <1>1, PipelineAssumption
<1> QED BY <1>1, <1>2, <1>3 DEF VInv, FreshItems, Current

LEMMA GoesForward ==
    ASSUME VInv, [Next]_vars
    PROVE  Forward
<1> USE DEF Written
<1>0. TInv /\ Truthful /\ StoredFirst
  BY DEF VInv
<1>t. /\ chunk \in [Chunk -> {"none", "active", "gone"}] /\ del \in [Chunk -> {"no", "chunk", "torn"}]
      /\ emb \subseteq Chunk /\ vec \subseteq Chunk
      /\ todo \in [Worker -> SUBSET Chunk]
  BY <1>0 DEF TInv, TypeOK
<1>1. ASSUME NEW d \in Doc, DeleteDocument(d) PROVE Forward
  <2>1. /\ \A c \in Chunk : c \in ChunksOf(d) => chunk'[c] = (IF chunk[c] # "none" THEN "gone" ELSE "none")
        /\ \A c \in Chunk : c \notin ChunksOf(d) => chunk'[c] = chunk[c]
        /\ emb' = emb \ ChunksOf(d) /\ vec' = vec \ ChunksOf(d) /\ del' = del
    BY <1>1, <1>t DEF DeleteDocument, handlers
  <2> QED BY <1>0, <2>1 DEF Forward, Torn, Truthful
<1>2. ASSUME NEW r \in Req, IngestCreate(r) PROVE Forward
  <2>1. UNCHANGED <<emb, vec, del>> /\ (chunk' = chunk \/ chunk' = [chunk EXCEPT ![Current(r)] = "active"])
    BY <1>2 DEF IngestCreate
  <2>2. Current(r) \in Chunk /\ chunk[Current(r)] = "none"
    BY <1>2, NewItem DEF IngestCreate
  <2> QED BY <1>0, <1>t, <2>1, <2>2 DEF Forward, Torn, Truthful
<1>3. ASSUME NEW r \in Req, IngestStore(r) PROVE Forward
  <2>1. UNCHANGED <<emb, chunk, del>> /\ (vec' = vec \/ (vec' = vec \union {Current(r)} /\ chunk[Current(r)] = "active"))
    BY <1>3, OutcomeFact DEF IngestStore
  <2> QED BY <1>0, <2>1 DEF Forward, Torn, Truthful
<1>4. ASSUME NEW r \in Req, IngestSet(r) PROVE Forward
  <2>1. /\ UNCHANGED <<chunk, vec, del>>
        /\ emb' = emb \/ emb' = emb \union {c \in {Current(r)} : chunk[c] = "active"}
    BY <1>4 DEF IngestSet
  <2>2. Stored(Current(r))
    BY <1>0, <1>4 DEF IngestSet, StoredFirst
  <2> QED BY <1>0, <2>1, <2>2 DEF Forward, Torn, Truthful
<1>5. ASSUME NEW c \in Chunk, DeleteVector(c) PROVE Forward
  <2>1. /\ UNCHANGED <<chunk, emb>>
        /\ \/ vec' = vec \ {c} /\ \E s \in {"chunk", "torn"} : del' = [del EXCEPT ![c] = s]
           \/ vec' = vec /\ del' = del
    <3>1. PICK o \in Outcomes("d.vec", TRUE) :
             /\ vec' = Written(o, vec \ {c}, vec)
             /\ del' = [del EXCEPT ![c] = After(o, "chunk", Written(o, "torn", del[c]))]
      BY <1>5 DEF DeleteVector
    <3> QED BY <1>5, <1>t, <3>1, OutcomeFact DEF DeleteVector, After
  <2> QED BY <1>0, <1>t, <2>1 DEF Forward, Torn, Truthful
<1>6. ASSUME NEW c \in Chunk, DeleteChunk(c) PROVE Forward
  <2>1. \/ /\ chunk' = [chunk EXCEPT ![c] = "gone"] /\ emb' = emb \ {c} /\ vec' = vec \ {c}
           /\ \E s \in {"no", "torn"} : del' = [del EXCEPT ![c] = s]
        \/ UNCHANGED <<chunk, emb, vec>> /\ del' = [del EXCEPT ![c] = "torn"]
    <3>1. PICK o \in Outcomes("d.chunk", chunk[c] = "active") :
             /\ chunk' = Written(o, [chunk EXCEPT ![c] = "gone"], chunk)
             /\ emb' = Written(o, emb \ {c}, emb)
             /\ vec' = Written(o, vec \ {c}, vec)
             /\ del' = [del EXCEPT ![c] = After(o, "no", "torn")]
      BY <1>6 DEF DeleteChunk
    <3> QED BY <3>1, OutcomeFact DEF After
  <2> QED BY <1>0, <1>t, <2>1 DEF Forward, Torn, Truthful
<1>7. ASSUME NEW w \in Worker, ChunkCreate(w) PROVE Forward
  <2> DEFINE c == <<D(w), pieces[D(w)] - left[w] + 1>>
  <2>1. UNCHANGED <<emb, vec, del>> /\ (chunk' = chunk \/ chunk' = [chunk EXCEPT ![c] = "active"])
    BY <1>7 DEF ChunkCreate, handlers
  <2>2. c \in Chunk /\ chunk[c] = "none"
    BY <1>7, NewPiece DEF ChunkCreate
  <2> HIDE DEF c
  <2> QED BY <1>0, <1>t, <2>1, <2>2 DEF Forward, Torn, Truthful
<1>8. ASSUME NEW w \in Worker, EmbedStore(w) PROVE Forward
  <2>1. PICK c \in todo[w] :
           UNCHANGED <<emb, chunk, del>> /\ (vec' = vec \/ (vec' = vec \union {c} /\ chunk[c] = "active"))
    BY <1>8, OutcomeFact DEF EmbedStore, handlers
  <2> QED BY <1>0, <2>1 DEF Forward, Torn, Truthful
<1>9. ASSUME NEW w \in Worker, EmbedSet(w) PROVE Forward
  <2>1. PICK c \in todo[w] :
           /\ UNCHANGED <<chunk, vec, del>>
           /\ emb' = emb \/ emb' = emb \union {x \in {c} : chunk[x] = "active"}
    BY <1>9 DEF EmbedSet, handlers
  <2>2. Stored(c)
    BY <1>0, <1>9 DEF EmbedSet, StoredFirst
  <2> QED BY <1>0, <2>1, <2>2 DEF Forward, Torn, Truthful
<1>10. CASE Crash
  <2>1. UNCHANGED <<chunk, emb, vec>> /\ \A c \in Chunk : Torn(c) => Torn(c)'
    BY <1>10 DEF Crash, rows, Torn
  <2> QED BY <1>0, <2>1 DEF Forward, Truthful
<1>11. CASE UNCHANGED <<chunk, emb, vec, del>>
  BY <1>11, StandsStill
<1>12. \/ UNCHANGED <<chunk, emb, vec, del>>
       \/ \E d \in Doc : DeleteDocument(d)
       \/ \E r \in Req : IngestCreate(r) \/ IngestStore(r) \/ IngestSet(r)
       \/ \E c \in Chunk : DeleteVector(c) \/ DeleteChunk(c)
       \/ \E w \in Worker : ChunkCreate(w) \/ EmbedStore(w) \/ EmbedSet(w)
       \/ Crash
  <2> USE DEF rows, handlers
  <2>1. CASE Client
    BY <2>1 DEF Client, CreateDocument, UploadCreate, IngestStart
  <2>2. CASE Handler
    BY <2>2 DEF Handler, UploadSave, UploadEnqueue, IngestEnqueue
  <2>3. ASSUME NEW w \in Worker, Step(w)
        PROVE  \/ UNCHANGED <<chunk, emb, vec, del>>
               \/ ChunkCreate(w) \/ EmbedStore(w) \/ EmbedSet(w)
    BY <2>3 DEF Step, Claim, ExtractStart, ExtractRead, ExtractSave, ExtractEnqueue, ChunkRead,
          ChunkSplit, ChunkEnqueue, EmbedList, EmbedCompute, EmbedReady, MarkFailed, RecordOutcome
  <2>4. CASE UNCHANGED vars
    BY <2>4 DEF vars
  <2> QED BY <2>1, <2>2, <2>3, <2>4 DEF Next
<1> QED BY <1>1, <1>2, <1>3, <1>4, <1>5, <1>6, <1>7, <1>8, <1>9, <1>10, <1>11, <1>12

\* A step that inserts no chunk of a text and starts no chunking.
LEMMA PiecesAside ==
    ASSUME VInv,
           \A d \in Doc : \A i \in 1..Pieces : chunk[<<d, i>>] = "none" => chunk'[<<d, i>>] = "none",
           \A d \in Doc : job'[<<d, "chunking">>] \in {"none", "queued"} => job[<<d, "chunking">>] \in {"none", "queued"},
           \A w \in Worker : pc'[w] \in {"c.read", "c.split", "c.chunk"} =>
              /\ pc[w] \in {"c.read", "c.split", "c.chunk"}
              /\ pc'[w] = "c.split" => pc[w] \in {"c.read", "c.split"}
              /\ pc'[w] # "c.split" => pc[w] = pc'[w]
              /\ cur'[w] = cur[w] /\ left'[w] = left[w] /\ pieces'[D(w)] = pieces[D(w)]
    PROVE  FreshPieces'
<1>0. TInv /\ QInv /\ FreshPieces
  BY DEF VInv
<1>1. \A d \in Doc : job'[<<d, "chunking">>] \in {"none", "queued"} =>
         \A i \in 1..Pieces : chunk'[<<d, i>>] = "none"
  BY <1>0 DEF FreshPieces
<1>2. ASSUME NEW w \in Worker, pc'[w] \in {"c.read", "c.split", "c.chunk"}
      PROVE  D(w) \in Doc /\ D(w)' = D(w)
  <2>1. pc[w] \in Chunking /\ cur'[w] = cur[w]
    BY <1>2 DEF Chunking
  <2>2. D(w) \in Doc
    BY <1>0, <2>1, OwnJob DEF Chunking
  <2> QED BY <2>1, <2>2 DEF D
<1>3. ASSUME NEW w \in Worker, pc'[w] \in {"c.read", "c.split"}
      PROVE  \A i \in 1..Pieces : chunk'[<<D(w)', i>>] = "none"
  <2>1. pc[w] \in {"c.read", "c.split"}
    BY <1>3
  <2> QED BY <1>0, <1>2, <1>3, <2>1 DEF FreshPieces
<1>4. ASSUME NEW w \in Worker, pc'[w] = "c.chunk"
      PROVE  /\ left'[w] \in 1..pieces'[D(w)']
             /\ \A i \in 1..Pieces : i > pieces'[D(w)'] - left'[w] => chunk'[<<D(w)', i>>] = "none"
  <2>1. pc[w] = "c.chunk" /\ left'[w] = left[w] /\ pieces'[D(w)'] = pieces[D(w)]
    BY <1>2, <1>4
  <2> QED BY <1>0, <1>2, <1>4, <2>1 DEF FreshPieces
<1> QED BY <1>1, <1>3, <1>4 DEF FreshPieces

\* Only one loop is at the chunking of a document.
LEMMA OneChunking ==
    ASSUME TInv, QInv, NEW v \in Worker, NEW w \in Worker,
           pc[v] \in Chunking, pc[w] \in Chunking, D(v) = D(w)
    PROVE  v = w
<1>1. cur[v] = cur[w] /\ cur[w] # None
  BY OwnJob, PipelineAssumption DEF Chunking
<1> QED BY <1>1 DEF QInv, OneHolder

LEMMA ClaimFresh ==
    ASSUME VInv, NEW w \in Worker, Claim(w)
    PROVE  FreshPieces'
<1>0. TInv /\ QInv /\ FreshPieces
  BY DEF VInv
<1>1. PICK j \in Job, o \in Outcomes("claim", TRUE) :
         /\ job[j] = "queued"
         /\ job' = IF o \in {"ok", "lost"} THEN [job EXCEPT ![j] = "running"] ELSE job
         /\ cur' = [cur EXCEPT ![w] = IF o = "ok" THEN j ELSE None]
         /\ pc' = [pc EXCEPT ![w] = IF o = "ok" THEN StartOf(j) ELSE "idle"]
  BY DEF Claim, Claimable, Written, After, Goto
<1>2. UNCHANGED <<chunk, left, pieces>>
  BY DEF Claim
<1>3. /\ StartOf(j) \in {"x.start", "c.read", "e.list"}
      /\ StartOf(j) = "c.read" => j = <<DocOf(j), "chunking">>
      /\ DocOf(j) \in Doc
  BY JobShape, DocOfType DEF StartOf, Job
<1>4. \A d \in Doc : job'[<<d, "chunking">>] \in {"none", "queued"} => job[<<d, "chunking">>] \in {"none", "queued"}
  BY <1>0, <1>1, JobIds DEF TInv, TypeOK
<1>5. CASE o = "ok" /\ StartOf(j) = "c.read"
  <2>1. \A i \in 1..Pieces : chunk[<<DocOf(j), i>>] = "none"
    BY <1>0, <1>1, <1>3, <1>5 DEF FreshPieces
  <2>2. \A v \in Worker : /\ v = w => pc'[v] = "c.read" /\ D(v)' = DocOf(j)
                          /\ v # w => pc'[v] = pc[v] /\ D(v)' = D(v)
    BY <1>0, <1>1, <1>5 DEF D, TInv, TypeOK
  <2>3. \A v \in Worker : pc'[v] \in {"c.read", "c.split"} => \A i \in 1..Pieces : chunk[<<D(v)', i>>] = "none"
    BY <1>0, <2>1, <2>2 DEF FreshPieces
  <2>4. \A v \in Worker : pc'[v] = "c.chunk" =>
           /\ left[v] \in 1..pieces[D(v)']
           /\ \A i \in 1..Pieces : i > pieces[D(v)'] - left[v] => chunk[<<D(v)', i>>] = "none"
    BY <1>0, <2>2 DEF FreshPieces
  <2> QED BY <1>0, <1>2, <1>4, <2>3, <2>4 DEF FreshPieces
<1>6. CASE ~(o = "ok" /\ StartOf(j) = "c.read")
  <2>1. pc'[w] \notin {"c.read", "c.split", "c.chunk"}
    BY <1>0, <1>1, <1>3, <1>6 DEF TInv, TypeOK
  <2>2. \A v \in Worker \ {w} : pc'[v] = pc[v] /\ cur'[v] = cur[v]
    BY <1>0, <1>1 DEF TInv, TypeOK
  <2> QED BY <1>2, <1>4, <2>1, <2>2, PiecesAside
<1> QED BY <1>5, <1>6

\* A text is split once, by the only loop that is at its chunking.
LEMMA SplitFresh ==
    ASSUME VInv, NEW w \in Worker, ChunkSplit(w)
    PROVE  FreshPieces'
<1>0. TInv /\ QInv /\ FreshPieces
  BY DEF VInv
<1>1. PICK o \in Outcomes("c.split", Exists(D(w))), n \in 1..Pieces :
         /\ left' = [left EXCEPT ![w] = IF o = "ok" THEN n ELSE left[w]]
         /\ pieces' = [pieces EXCEPT ![D(w)] = IF o = "ok" THEN n ELSE pieces[D(w)]]
         /\ pc' = [pc EXCEPT ![w] = IF o = "ok" THEN "c.chunk" ELSE "fail"]
  BY DEF ChunkSplit, Sizes, Goto, After
<1>2. UNCHANGED <<chunk, job, cur>> /\ pc[w] = "c.split"
  BY DEF ChunkSplit, rows
<1>3. D(w) \in Doc /\ \A v \in Worker : D(v)' = D(v)
  BY <1>0, <1>2, OwnJob DEF D
<1>4. ASSUME NEW v \in Worker \ {w}, pc'[v] \in {"c.read", "c.split", "c.chunk"}
      PROVE  pc[v] = pc'[v] /\ left'[v] = left[v] /\ pieces'[D(v)] = pieces[D(v)]
  <2>1. pc[v] = pc'[v] /\ left'[v] = left[v]
    BY <1>0, <1>1 DEF TInv, TypeOK
  <2>2. D(v) # D(w)
    BY <1>0, <1>2, <1>4, <2>1, OneChunking DEF Chunking
  <2> QED BY <1>0, <1>1, <2>1, <2>2 DEF TInv, TypeOK
<1>5. \A i \in 1..Pieces : chunk[<<D(w), i>>] = "none"
  BY <1>0, <1>2 DEF FreshPieces
<1>6. \A v \in Worker : pc'[v] \in {"c.read", "c.split"} => \A i \in 1..Pieces : chunk[<<D(v), i>>] = "none"
  <2>1. pc'[w] \notin {"c.read", "c.split"}
    BY <1>0, <1>1 DEF TInv, TypeOK
  <2> QED BY <1>0, <1>4, <2>1 DEF FreshPieces
<1>7. ASSUME NEW v \in Worker, pc'[v] = "c.chunk"
      PROVE  /\ left'[v] \in 1..pieces'[D(v)]
             /\ \A i \in 1..Pieces : i > pieces'[D(v)] - left'[v] => chunk[<<D(v), i>>] = "none"
  <2>1. CASE v = w
    <3>1. o = "ok"
      BY <1>0, <1>1, <1>7, <2>1 DEF TInv, TypeOK
    <3>2. left'[w] = n /\ pieces'[D(w)] = n /\ n \in Nat /\ n \in 1..n
      BY <1>0, <1>1, <1>3, <3>1, PipelineAssumption DEF TInv, TypeOK
    <3> QED BY <1>5, <2>1, <3>2
  <2>2. CASE v # w
    BY <1>0, <1>4, <1>7, <2>2 DEF FreshPieces
  <2> QED BY <2>1, <2>2
<1> QED BY <1>0, <1>2, <1>3, <1>6, <1>7 DEF FreshPieces

\* It inserts the chunks in order.
LEMMA CreateFresh ==
    ASSUME VInv, NEW w \in Worker, ChunkCreate(w)
    PROVE  FreshPieces'
<1> DEFINE d == D(w)
           k == pieces[d] - left[w] + 1
<1>0. TInv /\ QInv /\ FreshPieces
  BY DEF VInv
<1>1. PICK o \in Outcomes("c.chunk", Exists(d)) :
         /\ chunk' = IF o \in {"ok", "lost"} THEN [chunk EXCEPT ![<<d, k>>] = "active"] ELSE chunk
         /\ left' = [left EXCEPT ![w] = left[w] - 1]
         /\ pc' = [pc EXCEPT ![w] = IF o = "ok" THEN (IF left[w] = 1 THEN "c.next" ELSE "c.chunk") ELSE "fail"]
  BY DEF ChunkCreate, Written, Goto, NextPiece, After
<1>2. UNCHANGED <<job, cur, pieces>> /\ pc[w] = "c.chunk"
  BY DEF ChunkCreate
<1>3. /\ d \in Doc /\ k \in 1..Pieces /\ <<d, k>> \in Chunk
      /\ pieces[d] \in 1..Pieces /\ left[w] \in 1..pieces[d]
  BY <1>2, NewPiece
<1>4. \A v \in Worker : D(v)' = D(v)
  BY <1>2 DEF D
<1>5. job[<<d, "chunking">>] \notin {"none", "queued"}
  BY <1>0, <1>2, OwnJob DEF Chunking
<1>6. \A v \in Worker \ {w} : pc[v] \in {"c.read", "c.split", "c.chunk"} => D(v) # d
  BY <1>0, <1>2, OneChunking DEF Chunking
<1>7. \A e \in Doc : \A i \in 1..Pieces : chunk'[<<e, i>>] = chunk[<<e, i>>] \/ (e = d /\ i = k)
  <2>1. \A e \in Doc : \A i \in 1..Pieces : <<e, i>> \in Chunk
    BY DEF Chunk
  <2> QED BY <1>0, <1>1, <2>1 DEF TInv, TypeOK
<1>8. \A v \in Worker \ {w} : pc'[v] = pc[v] /\ left'[v] = left[v]
  BY <1>0, <1>1 DEF TInv, TypeOK
<1>9. ASSUME NEW v \in Worker, pc'[v] \in {"c.read", "c.split"}
      PROVE  \A i \in 1..Pieces : chunk'[<<D(v), i>>] = "none"
  <2>1. v # w
    BY <1>0, <1>1, <1>9 DEF TInv, TypeOK
  <2>2. pc[v] \in {"c.read", "c.split"} /\ D(v) # d /\ D(v) \in Doc
    BY <1>0, <1>6, <1>8, <1>9, <2>1, OwnJob
  <2> HIDE DEF d, k
  <2> QED BY <1>0, <1>7, <2>2 DEF FreshPieces
<1>10. ASSUME NEW v \in Worker, pc'[v] = "c.chunk"
       PROVE  /\ left'[v] \in 1..pieces[D(v)]
              /\ \A i \in 1..Pieces : i > pieces[D(v)] - left'[v] => chunk'[<<D(v), i>>] = "none"
  <2>1. CASE v = w
    <3>1. left'[w] = left[w] - 1 /\ left[w] # 1
      BY <1>0, <1>1, <1>10, <2>1 DEF TInv, TypeOK
    <3>2. left'[w] \in 1..pieces[d] /\ pieces[d] - left'[w] = k
      BY <1>3, <3>1
    <3>3. \A i \in 1..Pieces : i > k => i > pieces[d] - left[w] /\ i # k
      BY <1>3, PipelineAssumption
    <3>4. \A i \in 1..Pieces : i > k => chunk[<<d, i>>] = "none"
      BY <1>0, <1>2, <3>3 DEF FreshPieces
    <3> HIDE DEF k
    <3> QED BY <1>3, <1>7, <2>1, <3>2, <3>3, <3>4
  <2>2. CASE v # w
    <3>1. pc[v] = "c.chunk" /\ left'[v] = left[v] /\ D(v) # d /\ D(v) \in Doc
      BY <1>0, <1>6, <1>8, <1>10, <2>2, OwnJob
    <3> HIDE DEF d, k
    <3> QED BY <1>0, <1>7, <3>1 DEF FreshPieces
  <2> QED BY <2>1, <2>2
<1>11. ASSUME NEW e \in Doc, job[<<e, "chunking">>] \in {"none", "queued"}
       PROVE  \A i \in 1..Pieces : chunk'[<<e, i>>] = "none"
  <2>1. e # d
    BY <1>5, <1>11
  <2> HIDE DEF d, k
  <2> QED BY <1>0, <1>7, <1>11, <2>1 DEF FreshPieces
<1> HIDE DEF d, k
<1> QED BY <1>2, <1>4, <1>9, <1>10, <1>11 DEF FreshPieces

\* A step that leaves the requests alone, or ends them.
LEMMA ItemsAside ==
    ASSUME VInv,
           \A r \in Req : \A i \in 1..ReqSize : chunk[<<r, i>>] = "none" => chunk'[<<r, i>>] = "none",
           \A r \in Req : \/ ing'[r] \in {"enqueue", "done"}
                          \/ ing'[r] = ing[r] /\ at'[r] = at[r]
    PROVE  FreshItems'
<1> SUFFICES ASSUME NEW r \in Req, NEW i \in 1..ReqSize,
                    \/ ing'[r] = "idle"
                    \/ ing'[r] = "create" /\ i >= at'[r]
                    \/ ing'[r] \in {"store", "set"} /\ i > at'[r]
             PROVE  chunk'[<<r, i>>] = "none"
  BY DEF FreshItems
<1>1. ing'[r] = ing[r] /\ at'[r] = at[r]
  OBVIOUS
<1> QED BY <1>1 DEF VInv, FreshItems

\* A request goes from chunk to chunk.
LEMMA ItemsAdvance ==
    ASSUME VInv, NEW r \in Req, NEW o, NEW next \in {"create", "store", "set", "enqueue", "done"},
           ing[r] \in {"create", "store", "set"}, Advance(r, o, next),
           chunk' = chunk \/ (ing[r] = "create" /\ chunk' = [chunk EXCEPT ![Current(r)] = "active"])
    PROVE  FreshItems'
<1>0. TInv /\ FreshItems
  BY DEF VInv
<1>1. at[r] \in 1..ReqSize /\ ReqSize \in Nat
  BY <1>0, PipelineAssumption DEF TInv
<1>2. \A q \in Req \ {r} : ing'[q] = ing[q] /\ at'[q] = at[q]
  BY <1>0 DEF Advance, TInv, TypeOK
<1>3. /\ ing'[r] = (IF o = "ok" THEN next ELSE "done")
      /\ at'[r] = (IF o = "ok" /\ next = "create" THEN at[r] + 1 ELSE at[r])
  BY <1>0 DEF Advance, After, TInv, TypeOK
<1>4. \A q \in Req : \A i \in 1..ReqSize : chunk'[<<q, i>>] = chunk[<<q, i>>] \/ (q = r /\ i = at[r] /\ ing[r] = "create")
  <2>1. \A q \in Req : \A i \in 1..ReqSize : <<q, i>> \in Chunk
    BY DEF Chunk
  <2> QED BY <1>0, <2>1 DEF Current, TInv, TypeOK
<1> SUFFICES ASSUME NEW q \in Req, NEW i \in 1..ReqSize,
                    \/ ing'[q] = "idle"
                    \/ ing'[q] = "create" /\ i >= at'[q]
                    \/ ing'[q] \in {"store", "set"} /\ i > at'[q]
             PROVE  chunk'[<<q, i>>] = "none"
  BY DEF FreshItems
<1>5. CASE q # r
  BY <1>0, <1>2, <1>4, <1>5 DEF FreshItems
<1>6. CASE q = r
  <2>1. i > at[r]
    BY <1>1, <1>3, <1>6
  <2>2. i # at[r] /\ i >= at[r]
    BY <1>1, <2>1
  <2>3. chunk[<<r, i>>] = "none"
    BY <1>0, <2>1, <2>2 DEF FreshItems
  <2> QED BY <1>4, <1>6, <2>2, <2>3
<1> QED BY <1>5, <1>6

\* A statement of a loop leaves the other loops alone.
LEMMA OtherLoops ==
    ASSUME TInv, NEW w \in Worker, Step(w), NEW v \in Worker, v # w
    PROVE  UNCHANGED <<pc[v], cur[v], left[v], list[v], todo[v]>>
<1> USE DEF TInv, TypeOK
<1>1. CASE Claim(w) \/ ExtractStart(w) \/ ExtractRead(w) \/ ExtractSave(w) \/ ExtractEnqueue(w)
  BY <1>1 DEF Claim, ExtractStart, ExtractRead, ExtractSave, ExtractEnqueue, Goto
<1>2. CASE ChunkRead(w) \/ ChunkSplit(w) \/ ChunkCreate(w) \/ ChunkEnqueue(w)
  BY <1>2 DEF ChunkRead, ChunkSplit, ChunkCreate, ChunkEnqueue, Goto
<1>3. CASE EmbedList(w) \/ EmbedCompute(w) \/ EmbedSet(w)
  BY <1>3 DEF EmbedList, EmbedCompute, EmbedSet, Goto
<1>4. CASE EmbedStore(w) \/ EmbedReady(w)
  BY <1>4 DEF EmbedStore, EmbedReady, Goto
<1>5. CASE MarkFailed(w) \/ RecordOutcome(w)
  BY <1>5 DEF MarkFailed, RecordOutcome, Goto
<1> QED BY <1>1, <1>2, <1>3, <1>4, <1>5 DEF Step

\* The chunks still to insert have no row, after every step.
LEMMA StaysFresh ==
    ASSUME VInv, [Next]_vars
    PROVE  FreshPieces' /\ FreshItems'
<1> USE DEF rows, loops, handlers
<1>0. TInv /\ QInv
  BY DEF VInv
<1>d. /\ \A e \in Doc : \A i \in 1..Pieces : <<e, i>> \in Chunk
      /\ \A r \in Req : \A i \in 1..ReqSize : <<r, i>> \in Chunk
      /\ \A e \in Doc : \A r \in Req : e # r
  BY PipelineAssumption DEF Chunk
<1>j. \A e \in Doc : <<e, "chunking">> \in Job
  BY JobIds
<1>x. ASSUME NEW x \in Chunk, DeleteChunk(x)
      PROVE  \A c \in Chunk : chunk[c] = "none" => chunk'[c] = "none"
  <2>1. PICK o \in Outcomes("d.chunk", chunk[x] = "active") :
           chunk' = IF o \in {"ok", "lost"} THEN [chunk EXCEPT ![x] = "gone"] ELSE chunk
    BY <1>x DEF DeleteChunk, Written
  <2>2. o \in {"ok", "lost"} => chunk[x] = "active"
    BY OutcomeFact
  <2> QED BY <1>0, <2>1, <2>2 DEF TInv, TypeOK
<1>1. CASE Client
  <2>1. /\ \A c \in Chunk : chunk[c] = "none" => chunk'[c] = "none"
        /\ \A k \in Job : job'[k] = job[k] \/ job'[k] = "gone"
        /\ UNCHANGED <<pc, cur, left, pieces>>
    <3>1. ASSUME NEW d \in Doc, DeleteDocument(d)
          PROVE  /\ \A c \in Chunk : chunk[c] = "none" => chunk'[c] = "none"
                 /\ \A k \in Job : job'[k] = job[k] \/ job'[k] = "gone"
                 /\ UNCHANGED <<pc, cur, left, pieces>>
      BY <3>1 DEF DeleteDocument
    <3> QED BY <1>1, <3>1 DEF Client, CreateDocument, UploadCreate, IngestStart, DeleteVector
  <2>2. FreshPieces'
    BY <1>d, <1>j, <2>1, PiecesAside
  <2>3. CASE \E r \in Req : IngestStart(r)
    <3>1. PICK r \in Req : IngestStart(r)
      BY <2>3
    <3>2. /\ ing[r] = "idle" /\ chunk' = chunk
          /\ \A q \in Req \ {r} : ing'[q] = ing[q] /\ at'[q] = at[q]
      BY <1>0, <3>1 DEF IngestStart, TInv, TypeOK
    <3>3. FreshItems'
      <4> SUFFICES ASSUME NEW q \in Req, NEW i \in 1..ReqSize,
                          \/ ing'[q] = "idle"
                          \/ ing'[q] = "create" /\ i >= at'[q]
                          \/ ing'[q] \in {"store", "set"} /\ i > at'[q]
                   PROVE  chunk'[<<q, i>>] = "none"
        BY DEF FreshItems
      <4> QED BY <3>2 DEF VInv, FreshItems
    <3> QED BY <2>2, <3>3
  <2>4. CASE ~\E r \in Req : IngestStart(r)
    <3>1. UNCHANGED <<ing, at>>
      BY <1>1, <2>4 DEF Client, CreateDocument, UploadCreate, DeleteDocument, DeleteVector
    <3> QED BY <1>d, <2>1, <2>2, <3>1, ItemsAside
  <2> QED BY <2>3, <2>4
<1>2. CASE Handler
  <2>1. \A c \in Chunk : chunk[c] = "none" => chunk'[c] = "none" \/ c[1] \in Req
    <3>1. ASSUME NEW r \in Req, IngestCreate(r)
          PROVE  \A c \in Chunk : chunk[c] = "none" => chunk'[c] = "none" \/ c[1] \in Req
      <4>1. chunk' = chunk \/ chunk' = [chunk EXCEPT ![Current(r)] = "active"]
        BY <3>1 DEF IngestCreate, Written
      <4>2. Current(r)[1] = r
        BY DEF Current
      <4> QED BY <1>0, <4>1, <4>2 DEF TInv, TypeOK
    <3> QED BY <1>2, <1>x, <3>1 DEF Handler, UploadSave, UploadEnqueue, IngestStore, IngestSet, IngestEnqueue
  <2>2. /\ \A k \in Job : job'[k] \in {"none", "queued"} => job[k] \in {"none", "queued"}
        /\ UNCHANGED <<pc, cur, left, pieces>>
    <3>1. ASSUME NEW d \in Doc, UploadEnqueue(d)
          PROVE  /\ job[<<d, "extraction">>] = "none"
                 /\ job' = job \/ job' = [job EXCEPT ![<<d, "extraction">>] = "queued"]
                 /\ UNCHANGED <<pc, cur, left, pieces>>
      BY <1>0, <3>1 DEF UploadEnqueue, Enqueue, Written, QInv, NotYetExtracting
    <3>2. ASSUME NEW r \in Req, IngestEnqueue(r)
          PROVE  /\ job[<<r, "embedding">>] = "none"
                 /\ job' = job \/ job' = [job EXCEPT ![<<r, "embedding">>] = "queued"]
                 /\ UNCHANGED <<pc, cur, left, pieces>>
      BY <1>0, <3>2 DEF IngestEnqueue, Enqueue, Written, QInv, NotYetRequested
    <3>3. \/ UNCHANGED <<job, pc, cur, left, pieces>>
          \/ \E d \in Doc : UploadEnqueue(d)
          \/ \E r \in Req : IngestEnqueue(r)
      BY <1>2 DEF Handler, UploadSave, IngestCreate, IngestStore, IngestSet, DeleteChunk
    <3>4. ASSUME NEW j \in Job, job[j] = "none", job' = job \/ job' = [job EXCEPT ![j] = "queued"]
          PROVE  \A k \in Job : job'[k] \in {"none", "queued"} => job[k] \in {"none", "queued"}
      BY <1>0, <3>4 DEF TInv, TypeOK
    <3> QED BY <3>1, <3>2, <3>3, <3>4, JobIds
  <2>3. \A e \in Doc : \A i \in 1..Pieces : chunk[<<e, i>>] = "none" => chunk'[<<e, i>>] = "none"
    <3>1. \A e \in Doc : \A i : <<e, i>>[1] = e
      OBVIOUS
    <3> QED BY <1>d, <2>1, <3>1
  <2>4. FreshPieces'
    BY <1>j, <2>2, <2>3, PiecesAside
  <2>5. ASSUME NEW r \in Req, IngestCreate(r) \/ IngestStore(r) \/ IngestSet(r)
        PROVE  FreshItems'
    <3>1. PICK next \in {"create", "store", "set", "enqueue", "done"} : \E o :
             /\ Advance(r, o, next)
             /\ chunk' = chunk \/ (ing[r] = "create" /\ chunk' = [chunk EXCEPT ![Current(r)] = "active"])
      <4>1. NextChunk(r) \in {"create", "enqueue", "done"}
        BY DEF NextChunk
      <4>2. CASE IngestCreate(r)
        BY <4>1, <4>2 DEF IngestCreate, Written
      <4>3. CASE IngestStore(r)
        BY <4>3 DEF IngestStore
      <4>4. CASE IngestSet(r)
        BY <4>1, <4>4 DEF IngestSet
      <4> QED BY <2>5, <4>2, <4>3, <4>4
    <3>2. ing[r] \in {"create", "store", "set"}
      BY <2>5 DEF IngestCreate, IngestStore, IngestSet
    <3> QED BY <3>1, <3>2, ItemsAdvance
  <2>6. CASE ~\E r \in Req : IngestCreate(r) \/ IngestStore(r) \/ IngestSet(r)
    <3>1. \A q \in Req : \/ ing'[q] \in {"enqueue", "done"}
                         \/ ing'[q] = ing[q] /\ at'[q] = at[q]
      BY <1>0, <1>2, <2>6 DEF Handler, UploadSave, UploadEnqueue, IngestEnqueue, DeleteChunk, TInv, TypeOK
    <3>2. \A c \in Chunk : chunk[c] = "none" => chunk'[c] = "none"
      BY <1>2, <1>x, <2>6 DEF Handler, UploadSave, UploadEnqueue, IngestEnqueue
    <3> QED BY <1>d, <2>4, <3>1, <3>2, ItemsAside
  <2> QED BY <2>4, <2>5, <2>6
<1>3. ASSUME NEW w \in Worker, Step(w)
      PROVE  FreshPieces' /\ FreshItems'
  <2>1. UNCHANGED <<ing, at>>
    BY <1>3 DEF Step, Claim, ExtractStart, ExtractRead, ExtractSave, ExtractEnqueue, ChunkRead,
          ChunkSplit, ChunkCreate, ChunkEnqueue, EmbedList, EmbedCompute, EmbedStore, EmbedSet,
          EmbedReady, MarkFailed, RecordOutcome
  <2>2. CASE ChunkCreate(w)
    <3>1. D(w) \in Doc
      BY <2>2, NewPiece DEF ChunkCreate
    <3>2. PICK k : chunk' = chunk \/ chunk' = [chunk EXCEPT ![<<D(w), k>>] = "active"]
      BY <2>2 DEF ChunkCreate, Written
    <3>3. \A r \in Req : \A i \in 1..ReqSize : chunk'[<<r, i>>] = chunk[<<r, i>>]
      <4>1. \A r \in Req : \A i \in 1..ReqSize : <<r, i>> # <<D(w), k>>
        BY <1>d, <3>1
      <4>2. \A c \in Chunk : c # <<D(w), k>> => chunk'[c] = chunk[c]
        BY <1>0, <3>2 DEF TInv, TypeOK
      <4> QED BY <1>d, <4>1, <4>2
    <3> QED BY <2>1, <2>2, <3>3, ItemsAside, CreateFresh
  <2>3. CASE ~ChunkCreate(w)
    <3>1. UNCHANGED chunk
      BY <1>3, <2>3 DEF Step, Claim, ExtractStart, ExtractRead, ExtractSave, ExtractEnqueue,
            ChunkRead, ChunkSplit, ChunkEnqueue, EmbedList, EmbedCompute, EmbedStore, EmbedSet,
            EmbedReady, MarkFailed, RecordOutcome
    <3>2. FreshItems'
      BY <2>1, <3>1, ItemsAside
    <3>3. CASE Claim(w)
      BY <3>2, <3>3, ClaimFresh
    <3>4. CASE ChunkSplit(w)
      BY <3>2, <3>4, SplitFresh
    <3>5. CASE ~Claim(w) /\ ~ChunkSplit(w)
      <4>p. UNCHANGED pieces
        BY <1>3, <2>3, <3>5 DEF Step, ExtractStart, ExtractRead, ExtractSave, ExtractEnqueue,
              ChunkRead, ChunkEnqueue, EmbedList, EmbedCompute, EmbedStore, EmbedSet,
              EmbedReady, MarkFailed, RecordOutcome
      <4>1. UNCHANGED pieces /\ \A v \in Worker \ {w} : cur'[v] = cur[v] /\ left'[v] = left[v] /\ pc'[v] = pc[v]
        BY <1>0, <1>3, <4>p, OtherLoops
      <4>2. pc'[w] \in {"c.read", "c.split", "c.chunk"} =>
               pc'[w] = "c.split" /\ pc[w] = "c.read" /\ cur'[w] = cur[w] /\ left'[w] = left[w]
        <5>1. CASE ChunkRead(w)
          BY <1>0, <5>1 DEF ChunkRead, Goto, After, TInv, TypeOK
        <5>2. CASE ~ChunkRead(w)
          <6>1. PICK l \in PC \ {"c.read", "c.split", "c.chunk"} : pc' = [pc EXCEPT ![w] = l]
            <7> USE DEF Goto, After, PC, Body, Record
            <7>1. CASE EmbedList(w) \/ EmbedCompute(w) \/ EmbedStore(w) \/ EmbedSet(w)
              <8>1. \E l \in {"e.ready", "e.embed", "e.store", "e.set", "fail"} : pc' = [pc EXCEPT ![w] = l]
                <9>1. CASE EmbedList(w)
                  BY <9>1 DEF EmbedList
                <9>2. CASE EmbedCompute(w)
                  BY <9>2 DEF EmbedCompute
                <9>3. CASE EmbedStore(w)
                  BY <9>3 DEF EmbedStore
                <9>4. CASE EmbedSet(w)
                  BY <9>4 DEF EmbedSet
                <9> QED BY <7>1, <9>1, <9>2, <9>3, <9>4
              <8> QED BY <8>1
            <7>2. CASE ~(EmbedList(w) \/ EmbedCompute(w) \/ EmbedStore(w) \/ EmbedSet(w))
              BY <1>3, <2>3, <3>5, <5>2, <7>2 DEF Step, ExtractStart, ExtractRead, ExtractSave,
                    ExtractEnqueue, ChunkEnqueue, EmbedReady, MarkFailed, RecordOutcome
            <7> QED BY <7>1, <7>2
          <6>2. pc'[w] = l
            BY <1>0, <6>1 DEF TInv, TypeOK
          <6> QED BY <6>1, <6>2
        <5> QED BY <5>1, <5>2
      <4>3. \A k \in Job : job'[k] \in {"none", "queued"} => job[k] \in {"none", "queued"}
        <5>1. CASE ExtractEnqueue(w) \/ ChunkEnqueue(w)
          <6>1. PICK s \in {"chunking", "embedding"} :
                   /\ job' = job \/ job' = [job EXCEPT ![<<D(w), s>>] = "queued"]
                   /\ s = "chunking" => pc[w] \in Extracting
                   /\ s = "embedding" => pc[w] \in Chunking
            BY <5>1 DEF ExtractEnqueue, ChunkEnqueue, Enqueue, Written, Extracting, Chunking
          <6>2. job[<<D(w), s>>] = "none"
            BY <1>0, <6>1 DEF QInv, NotYetChunking, NotYetEmbedding
          <6> QED BY <1>0, <6>1, <6>2 DEF TInv, TypeOK
        <5>2. CASE RecordOutcome(w)
          <6>1. job' = job \/ job' = [job EXCEPT ![cur[w]] = pc[w]]
            BY <5>2 DEF RecordOutcome, Written
          <6>2. pc[w] \in Record
            BY <5>2 DEF RecordOutcome
          <6> QED BY <1>0, <6>1, <6>2 DEF TInv, TypeOK, Record
        <5>3. CASE ~(ExtractEnqueue(w) \/ ChunkEnqueue(w) \/ RecordOutcome(w))
          BY <1>3, <2>3, <3>5, <5>3 DEF Step, ExtractStart, ExtractRead, ExtractSave,
                ChunkRead, EmbedList, EmbedCompute, EmbedStore, EmbedSet, EmbedReady, MarkFailed
        <5> QED BY <5>1, <5>2, <5>3
      <4>4. \A v \in Worker : pc'[v] \in {"c.read", "c.split", "c.chunk"} =>
               /\ pc[v] \in {"c.read", "c.split", "c.chunk"}
               /\ pc'[v] = "c.split" => pc[v] \in {"c.read", "c.split"}
               /\ pc'[v] # "c.split" => pc[v] = pc'[v]
               /\ cur'[v] = cur[v] /\ left'[v] = left[v] /\ pieces'[D(v)] = pieces[D(v)]
        BY <4>1, <4>2
      <4> QED BY <1>j, <3>1, <3>2, <4>3, <4>4, PiecesAside
    <3> QED BY <3>3, <3>4, <3>5
  <2> QED BY <2>2, <2>3
<1>4. CASE Crash
  <2>1. /\ UNCHANGED <<chunk, job>>
        /\ \A w \in Worker : pc'[w] = "idle"
        /\ \A r \in Req : ing'[r] \in {"enqueue", "done"} \/ (ing'[r] = ing[r] /\ at'[r] = at[r])
    BY <1>4 DEF Crash
  <2> QED BY <2>1, PiecesAside, ItemsAside
<1>5. CASE UNCHANGED vars
  BY <1>5, PiecesAside, ItemsAside DEF vars
<1> QED BY <1>1, <1>2, <1>3, <1>4, <1>5 DEF Next

\* What has been stored stays so for those who have not moved.
LEMMA StoredAside ==
    ASSUME VInv, Forward,
           \A w \in Worker : pc'[w] = "e.set" => pc[w] = "e.set" /\ todo'[w] \subseteq todo[w],
           \A w \in Worker : pc'[w] = "e.store" =>
              pc[w] = "e.store" /\ todo'[w] = todo[w] /\ list'[w] = list[w],
           \A r \in Req : ing'[r] = "set" => ing[r] = "set" /\ at'[r] = at[r]
    PROVE  StoredFirst'
<1>0. /\ StoredFirst
      /\ \A w \in Worker : todo[w] \subseteq Chunk /\ list[w] \subseteq Chunk
  BY DEF VInv, TInv, TypeOK
<1>1. ASSUME NEW w \in Worker, pc'[w] = "e.set", NEW c \in todo'[w] PROVE Stored(c)'
  <2>1. c \in Chunk /\ Stored(c)
    BY <1>0, <1>1 DEF StoredFirst
  <2> QED BY <2>1, StoredStays
<1>2. ASSUME NEW w \in Worker, pc'[w] = "e.store"
      PROVE  todo'[w] \subseteq list'[w] /\ \A c \in list'[w] \ todo'[w] : Stored(c)'
  <2>1. pc[w] = "e.store" /\ todo'[w] = todo[w] /\ list'[w] = list[w]
    BY <1>2
  <2>2. todo[w] \subseteq list[w] /\ \A c \in list[w] \ todo[w] : Stored(c)
    BY <1>0, <2>1 DEF StoredFirst
  <2>3. \A c \in list[w] \ todo[w] : Stored(c)'
    BY <1>0, <2>2, StoredStays
  <2> QED BY <2>1, <2>2, <2>3
<1>3. ASSUME NEW r \in Req, ing'[r] = "set" PROVE Stored(Current(r))'
  <2>1. ing[r] = "set" /\ Current(r)' = Current(r)
    BY <1>3 DEF Current
  <2>2. Current(r) \in Chunk /\ Stored(Current(r))
    BY <1>0, <2>1, NewItem DEF StoredFirst
  <2>3. ASSUME NEW x \in Chunk, Stored(x), Current(r) = x PROVE Stored(Current(r))'
    <3>1. Stored(x)'
      BY <2>3, StoredStays
    <3> QED BY <2>1, <2>3, <3>1 DEF Stored, Torn
  <2> QED BY <2>2, <2>3
<1> QED BY <1>1, <1>2, <1>3 DEF StoredFirst

\* An embedding job stores what it has listed before it sets an id ...
LEMMA EmbedStoresFirst ==
    ASSUME VInv, Forward, NEW w \in Worker, EmbedStore(w)
    PROVE  StoredFirst'
<1>0. /\ StoredFirst /\ TInv
      /\ \A v \in Worker : todo[v] \subseteq Chunk /\ list[v] \subseteq Chunk
  BY DEF VInv, TInv, TypeOK
<1>p. PICK c \in todo[w] : \E o \in Outcomes("e.store", chunk[c] = "active") :
         /\ vec' = Written(o, vec \union {c}, vec)
         /\ todo' = [todo EXCEPT ![w] = IF o # "ok" THEN {} ELSE IF todo[w] = {c} THEN list[w] ELSE todo[w] \ {c}]
         /\ pc' = [pc EXCEPT ![w] = IF o = "ok" THEN (IF todo[w] = {c} THEN "e.set" ELSE "e.store") ELSE "fail"]
  BY DEF EmbedStore, Goto, After
<1>1. PICK o \in Outcomes("e.store", chunk[c] = "active") :
         /\ vec' = Written(o, vec \union {c}, vec)
         /\ todo' = [todo EXCEPT ![w] = IF o # "ok" THEN {} ELSE IF todo[w] = {c} THEN list[w] ELSE todo[w] \ {c}]
         /\ pc' = [pc EXCEPT ![w] = IF o = "ok" THEN (IF todo[w] = {c} THEN "e.set" ELSE "e.store") ELSE "fail"]
  BY <1>p
<1>2. pc[w] = "e.store" /\ UNCHANGED <<list, ing, at>>
  BY DEF EmbedStore, handlers
<1>3. todo[w] \subseteq list[w] /\ \A x \in list[w] \ todo[w] : Stored(x)'
  BY <1>0, <1>2, StoredStays DEF StoredFirst
<1>4. o = "ok" => Stored(c)'
  BY <1>1 DEF Written, Stored
<1>5. \A v \in Worker \ {w} : pc'[v] = pc[v] /\ todo'[v] = todo[v]
  BY <1>0, <1>1 DEF TInv, TypeOK
<1>6. ASSUME NEW v \in Worker, pc'[v] = "e.set", NEW x \in todo'[v] PROVE Stored(x)'
  <2>1. CASE v = w
    <3>1. o = "ok" /\ todo[w] = {c} /\ todo'[w] = list[w]
      BY <1>0, <1>1, <1>6, <2>1 DEF TInv, TypeOK
    <3> QED BY <1>3, <1>4, <1>6, <2>1, <3>1
  <2>2. CASE v # w
    BY <1>0, <1>5, <1>6, <2>2, StoredStays DEF StoredFirst
  <2> QED BY <2>1, <2>2
<1>7. ASSUME NEW v \in Worker, pc'[v] = "e.store"
      PROVE  todo'[v] \subseteq list[v] /\ \A x \in list[v] \ todo'[v] : Stored(x)'
  <2>1. CASE v = w
    <3>1. o = "ok" /\ todo'[w] = todo[w] \ {c}
      BY <1>0, <1>1, <1>7, <2>1 DEF TInv, TypeOK
    <3> QED BY <1>3, <1>4, <2>1, <3>1
  <2>2. CASE v # w
    <3>1. pc[v] = "e.store" /\ todo'[v] = todo[v]
      BY <1>5, <1>7, <2>2
    <3> QED BY <1>0, <3>1, StoredStays DEF StoredFirst
  <2> QED BY <2>1, <2>2
<1>8. ASSUME NEW r \in Req, ing[r] = "set" PROVE Stored(Current(r))'
  <2>1. Current(r) \in Chunk /\ Stored(Current(r)) /\ Current(r)' = Current(r)
    BY <1>0, <1>2, <1>8, NewItem DEF StoredFirst, Current
  <2>2. ASSUME NEW x \in Chunk, Stored(x), Current(r) = x PROVE Stored(Current(r))'
    <3>1. Stored(x)'
      BY <2>2, StoredStays
    <3> QED BY <2>1, <2>2, <3>1 DEF Stored, Torn
  <2> QED BY <2>1, <2>2
<1> QED BY <1>2, <1>6, <1>7, <1>8 DEF StoredFirst

\* ... and so does a request.
LEMMA ItemStoresFirst ==
    ASSUME VInv, Forward, NEW r \in Req, IngestStore(r)
    PROVE  StoredFirst'
<1>0. StoredFirst /\ TInv
  BY DEF VInv
<1>1. PICK o \in Outcomes("i.store", chunk[Current(r)] = "active") :
         /\ vec' = Written(o, vec \union {Current(r)}, vec)
         /\ Advance(r, o, "set")
  BY DEF IngestStore
<1>2. UNCHANGED <<pc, todo, list>>
  BY DEF IngestStore, loops
<1>3. /\ at' = [at EXCEPT ![r] = at[r]]
      /\ ing' = [ing EXCEPT ![r] = IF o = "ok" THEN "set" ELSE "done"]
  BY <1>1 DEF Advance, After
<1>4. at' = at
  BY <1>0, <1>3 DEF TInv, TypeOK
<1>5. ASSUME NEW q \in Req, ing'[q] = "set" PROVE Stored(Current(q))'
  <2>0. Current(q)' = Current(q)
    BY <1>4 DEF Current
  <2>1. CASE q = r
    <3>1. o = "ok"
      BY <1>0, <1>3, <1>5, <2>1 DEF TInv, TypeOK
    <3> QED BY <1>1, <2>0, <2>1, <3>1 DEF Written, Stored
  <2>2. CASE q # r
    <3>1. ing[q] = "set"
      BY <1>0, <1>3, <1>5, <2>2 DEF TInv, TypeOK
    <3>2. Current(q) \in Chunk /\ Stored(Current(q))
      BY <1>0, <3>1, NewItem DEF StoredFirst
    <3>3. ASSUME NEW x \in Chunk, Stored(x), Current(q) = x PROVE Stored(Current(q))'
      <4>1. Stored(x)'
        BY <3>3, StoredStays
      <4> QED BY <2>0, <3>3, <4>1 DEF Stored, Torn
    <3> QED BY <3>2, <3>3
  <2> QED BY <2>1, <2>2
<1>6. \A w \in Worker : /\ todo[w] \subseteq Chunk /\ list[w] \subseteq Chunk
  BY <1>0 DEF TInv, TypeOK
<1>7. \A w \in Worker : pc[w] = "e.set" => \A c \in todo[w] : Stored(c)'
  BY <1>0, <1>6, StoredStays DEF StoredFirst
<1>8. \A w \in Worker : pc[w] = "e.store" => todo[w] \subseteq list[w] /\ \A c \in list[w] \ todo[w] : Stored(c)'
  BY <1>0, <1>6, StoredStays DEF StoredFirst
<1> QED BY <1>2, <1>5, <1>7, <1>8 DEF StoredFirst

\* Every step leaves it so.
LEMMA StaysStored ==
    ASSUME VInv, Forward, [Next]_vars
    PROVE  StoredFirst'
<1> USE DEF rows, loops, handlers
<1>0. TInv
  BY DEF VInv
<1>1. CASE Client
  <2>1. UNCHANGED <<pc, todo, list>>
    BY <1>1 DEF Client, CreateDocument, UploadCreate, DeleteDocument, IngestStart, DeleteVector
  <2>2. \A q \in Req : ing'[q] = "set" => ing[q] = "set" /\ at'[q] = at[q]
    <3>1. CASE \E r \in Req : IngestStart(r)
      BY <1>0, <3>1 DEF IngestStart, TInv, TypeOK
    <3>2. CASE ~\E r \in Req : IngestStart(r)
      BY <1>1, <3>2 DEF Client, CreateDocument, UploadCreate, DeleteDocument, DeleteVector
    <3> QED BY <3>1, <3>2
  <2> QED BY <2>1, <2>2, StoredAside
<1>2. CASE Handler
  <2>1. ASSUME NEW r \in Req, IngestStore(r) PROVE StoredFirst'
    BY <2>1, ItemStoresFirst
  <2>2. ASSUME NEW r \in Req, IngestCreate(r) \/ IngestSet(r) PROVE StoredFirst'
    <3>1. UNCHANGED <<pc, todo, list>>
      BY <2>2 DEF IngestCreate, IngestSet
    <3>2. PICK next \in {"create", "store", "enqueue", "done"} : \E o : Advance(r, o, next)
      <4>1. NextChunk(r) \in {"create", "enqueue", "done"}
        BY DEF NextChunk
      <4>2. CASE IngestCreate(r)
        BY <4>1, <4>2 DEF IngestCreate
      <4>3. CASE IngestSet(r)
        BY <4>1, <4>3 DEF IngestSet
      <4> QED BY <2>2, <4>2, <4>3
    <3>3. \A q \in Req : ing'[q] = "set" => ing[q] = "set" /\ at'[q] = at[q]
      BY <1>0, <3>2 DEF Advance, After, TInv, TypeOK
    <3> QED BY <3>1, <3>3, StoredAside
  <2>3. CASE ~\E r \in Req : IngestStore(r) \/ IngestCreate(r) \/ IngestSet(r)
    <3>1. UNCHANGED <<pc, todo, list>> /\ \A q \in Req : ing'[q] = "set" => ing[q] = "set" /\ at'[q] = at[q]
      BY <1>0, <1>2, <2>3 DEF Handler, UploadSave, UploadEnqueue, IngestEnqueue, DeleteChunk, TInv, TypeOK
    <3> QED BY <3>1, StoredAside
  <2> QED BY <2>1, <2>2, <2>3
<1>3. ASSUME NEW w \in Worker, Step(w) PROVE StoredFirst'
  <2> USE DEF Goto, After
  <2>1. CASE EmbedStore(w)
    BY <2>1, EmbedStoresFirst
  <2>2. CASE EmbedCompute(w)
    <3>1. UNCHANGED <<list, ing, at>>
      BY <2>2 DEF EmbedCompute
    <3>2. \A v \in Worker \ {w} : pc'[v] = pc[v] /\ todo'[v] = todo[v]
      BY <1>0, <2>2 DEF EmbedCompute, TInv, TypeOK
    <3>3. pc'[w] \in {"e.store", "fail"} /\ (pc'[w] = "e.store" => todo'[w] = list[w])
      BY <1>0, <2>2 DEF EmbedCompute, TInv, TypeOK
    <3>4. /\ \A v \in Worker : todo[v] \subseteq Chunk /\ list[v] \subseteq Chunk
          /\ StoredFirst
      BY <1>0 DEF TInv, TypeOK, VInv
    <3>5. \A v \in Worker : pc'[v] = "e.set" => \A c \in todo'[v] : Stored(c)'
      BY <3>2, <3>3, <3>4, StoredStays DEF StoredFirst
    <3>6. \A v \in Worker : pc'[v] = "e.store" =>
             todo'[v] \subseteq list[v] /\ \A c \in list[v] \ todo'[v] : Stored(c)'
      <4>1. ASSUME NEW v \in Worker \ {w}, pc[v] = "e.store"
            PROVE  todo[v] \subseteq list[v] /\ \A c \in list[v] \ todo[v] : Stored(c)'
        BY <3>4, <4>1, StoredStays DEF StoredFirst
      <4> QED BY <3>2, <3>3, <4>1
    <3>7. ASSUME NEW q \in Req, ing[q] = "set" PROVE Stored(Current(q))'
      <4>1. Current(q) \in Chunk /\ Stored(Current(q)) /\ Current(q)' = Current(q)
        BY <3>1, <3>4, <3>7, NewItem DEF StoredFirst, Current
      <4>2. ASSUME NEW x \in Chunk, Stored(x), Current(q) = x PROVE Stored(Current(q))'
        <5>1. Stored(x)'
          BY <4>2, StoredStays
        <5> QED BY <4>1, <4>2, <5>1 DEF Stored, Torn
      <4> QED BY <4>1, <4>2
    <3> QED BY <3>1, <3>5, <3>6, <3>7 DEF StoredFirst
  <2>3. CASE EmbedSet(w)
    <3>1. PICK c \in todo[w], o \in Outcomes("e.set", TRUE) :
             /\ todo' = [todo EXCEPT ![w] = IF o = "ok" THEN todo[w] \ {c} ELSE {}]
             /\ pc' = [pc EXCEPT ![w] = IF o = "ok" THEN (IF todo[w] = {c} THEN "e.ready" ELSE "e.set") ELSE "fail"]
      BY <2>3 DEF EmbedSet
    <3>2. pc[w] = "e.set" /\ UNCHANGED <<list, ing, at>>
      BY <2>3 DEF EmbedSet
    <3>3. \A v \in Worker \ {w} : pc'[v] = pc[v] /\ todo'[v] = todo[v]
      BY <1>0, <3>1 DEF TInv, TypeOK
    <3>4. pc'[w] # "e.store" /\ todo'[w] \subseteq todo[w]
      BY <1>0, <3>1 DEF TInv, TypeOK
    <3> QED BY <3>2, <3>3, <3>4, StoredAside
  <2>4. CASE ~(EmbedStore(w) \/ EmbedCompute(w) \/ EmbedSet(w))
    <3>1. UNCHANGED <<ing, at, todo>> \/ RecordOutcome(w)
      BY <1>3, <2>4 DEF Step, Claim, ExtractStart, ExtractRead, ExtractSave, ExtractEnqueue,
            ChunkRead, ChunkSplit, ChunkCreate, ChunkEnqueue, EmbedList, EmbedReady, MarkFailed
    <3>a. UNCHANGED <<ing, at>> /\ \A v \in Worker \ {w} : todo'[v] = todo[v]
      BY <1>0, <3>1 DEF RecordOutcome, TInv, TypeOK
    <3>b. UNCHANGED list \/ EmbedList(w) \/ RecordOutcome(w)
      BY <1>3, <2>4 DEF Step, Claim, ExtractStart, ExtractRead, ExtractSave, ExtractEnqueue,
            ChunkRead, ChunkSplit, ChunkCreate, ChunkEnqueue, EmbedReady, MarkFailed
    <3>c. \A v \in Worker \ {w} : list'[v] = list[v]
      BY <1>0, <3>b DEF EmbedList, RecordOutcome, TInv, TypeOK
    <3>2. PICK l \in PC \ {"e.store", "e.set"} : pc' = [pc EXCEPT ![w] = l]
      <4> USE DEF PC, Body, Record
      <4>1. CASE Claim(w)
        BY <4>1 DEF Claim, StartOf, Job
      <4>2. CASE EmbedList(w)
        BY <4>2 DEF EmbedList
      <4>3. CASE ChunkCreate(w)
        BY <4>3 DEF ChunkCreate, NextPiece
      <4>4. CASE ~(Claim(w) \/ EmbedList(w) \/ ChunkCreate(w))
        BY <1>3, <2>4, <4>4 DEF Step, ExtractStart, ExtractRead, ExtractSave, ExtractEnqueue,
            ChunkRead, ChunkSplit, ChunkEnqueue, EmbedReady, MarkFailed, RecordOutcome
      <4> QED BY <4>1, <4>2, <4>3, <4>4
    <3>3. pc'[w] \notin {"e.store", "e.set"} /\ \A v \in Worker \ {w} : pc'[v] = pc[v]
      BY <1>0, <3>2 DEF TInv, TypeOK
    <3> QED BY <3>3, <3>a, <3>c, StoredAside
  <2> QED BY <2>1, <2>2, <2>3, <2>4
<1>4. CASE Crash
  BY <1>4, StoredAside DEF Crash
<1>5. CASE UNCHANGED vars
  BY <1>5, StoredAside DEF vars
<1> QED BY <1>1, <1>2, <1>3, <1>4, <1>5 DEF Next

LEMMA VectorsInductive ==
    /\ Init => VInv
    /\ VInv /\ [Next]_vars => VInv' /\ Forward
<1>1. Init => VInv
  <2> SUFFICES ASSUME Init PROVE FreshPieces /\ FreshItems /\ Truthful /\ StoredFirst
    BY QueueInductive DEF VInv
  <2>1. /\ \A d \in Doc : \A i \in 1..Pieces : <<d, i>> \in Chunk
        /\ \A r \in Req : \A i \in 1..ReqSize : <<r, i>> \in Chunk
    BY DEF Chunk
  <2> QED BY <2>1 DEF Init, FreshPieces, FreshItems, Truthful, StoredFirst
<1>2. ASSUME VInv, [Next]_vars PROVE VInv' /\ Forward
  <2>1. TInv /\ QInv /\ TInv' /\ QInv'
    BY <1>2, QueueInductive DEF VInv
  <2>2. Forward
    BY <1>2, GoesForward
  <2>3. Truthful'
    BY <1>2, <2>1, <2>2, TruthStays DEF VInv
  <2>4. FreshPieces' /\ FreshItems'
    BY <1>2, StaysFresh
  <2>5. StoredFirst'
    BY <1>2, <2>2, StaysStored
  <2> QED BY <2>1, <2>2, <2>3, <2>4, <2>5 DEF VInv
<1> QED BY <1>1, <1>2

\* A chunk whose embedding_id is set has a vector, unless its deletion has got
\* halfway (embedding.go, ingest in server/chunk.go, DeleteChunk).
THEOREM VectorsBehindIds == Spec => []IndexedChunksHaveVectors
<1>1. VInv => IndexedChunksHaveVectors
  BY DEF VInv, Truthful, Torn, IndexedChunksHaveVectors
<1> QED BY <1>1, VectorsInductive, PTL DEF Spec
-----------------------------------------------------------------------------
(* A ready document is searchable.                                         *)

\* Every chunk that d is split into has been inserted.
Split(d) == pieces[d] > 0 /\ \A i \in 1..pieces[d] : chunk[<<d, i>>] # "none"

\* Every chunk to be kept has its id, or is one of S.
Covered(d, S) == \A c \in Kept(d) : c \in emb \union S

\* The embedding job comes after the last chunk, and the status after the last id.
Finished(d) ==
    /\ job[<<d, "embedding">>] # "none" => Split(d)
    /\ doc[d] = "ready" => job[<<d, "embedding">>] # "none" /\ Covered(d, {})

Late == {"c.chunk", "c.next", "e.embed", "e.store", "e.set", "e.ready"}

\* How far a loop has come with its document.
Reached(w, d) ==
    /\ pc[w] = "c.chunk" => \A i \in 1..(pieces[d] - left[w]) : chunk[<<d, i>>] # "none"
    /\ pc[w] = "c.next" => Split(d)
    /\ pc[w] \in {"e.embed", "e.store"} => Covered(d, list[w])
    /\ pc[w] = "e.set" => Covered(d, todo[w])
    /\ pc[w] = "e.ready" => Covered(d, {})

RInv ==
    /\ VInv
    /\ \A d \in Doc : Plain(d) => Finished(d)
    /\ \A w \in Worker, d \in Doc : Plain(d) /\ pc[w] \in Late /\ D(w) = d => Reached(w, d)

LEMMA SplitStays ==
    ASSUME VInv, Forward, NEW d \in Doc, NEW n \in 0..Pieces, \A i \in 1..n : chunk[<<d, i>>] # "none"
    PROVE  \A i \in 1..n : chunk'[<<d, i>>] # "none"
<1>1. \A i \in 1..n : <<d, i>> \in Chunk
  BY PipelineAssumption DEF Chunk
<1> QED BY <1>1 DEF Forward

LEMMA KeptWere ==
    ASSUME VInv, Forward, NEW d \in Doc, pieces'[d] = pieces[d], NEW c \in Kept(d)'
    PROVE  c \in Kept(d) /\ c \in Chunk /\ (c \in emb => c \in emb')
<1>1. pieces[d] \in 0..Pieces
  BY DEF VInv, TInv, TypeOK
<1>2. c \in {d} \X (1..pieces[d]) /\ chunk'[c] # "gone" /\ del'[c] = "no"
  BY DEF Kept
<1>3. c \in Chunk
  BY <1>1, <1>2, PipelineAssumption DEF Chunk
<1>4. chunk[c] # "gone" /\ ~Torn(c) /\ (c \in emb => c \in emb')
  BY <1>2, <1>3 DEF Forward, Torn
<1>5. del[c] = "no"
  BY <1>3, <1>4 DEF Torn, VInv, TInv, TypeOK
<1> QED BY <1>2, <1>3, <1>4, <1>5 DEF Kept

LEMMA CoverStays ==
    ASSUME VInv, Forward, NEW d \in Doc, pieces'[d] = pieces[d], NEW S, Covered(d, S)
    PROVE  \A c \in Kept(d)' : c \in emb' \union S
  BY KeptWere DEF Covered

LEMMA FinishedStays ==
    ASSUME VInv, Forward, NEW d \in Doc, Finished(d), pieces'[d] = pieces[d],
           job'[<<d, "embedding">>] # "none" <=> job[<<d, "embedding">>] # "none",
           doc'[d] = "ready" => doc[d] = "ready"
    PROVE  Finished(d)'
<1>1. pieces[d] \in 0..Pieces
  BY DEF VInv, TInv, TypeOK
<1>2. Split(d) => Split(d)'
  BY <1>1, SplitStays DEF Split
<1>3. Covered(d, {}) => Covered(d, {})'
  BY CoverStays DEF Covered
<1> QED BY <1>2, <1>3 DEF Finished

LEMMA ReachedStays ==
    ASSUME VInv, Forward, NEW w \in Worker, NEW d \in Doc, Reached(w, d), pieces'[d] = pieces[d],
           UNCHANGED <<pc[w], left[w], list[w], todo[w]>>, pc[w] \in Late, D(w) = d
    PROVE  Reached(w, d)'
<1>1. pieces[d] \in 0..Pieces
  BY DEF VInv, TInv, TypeOK
<1>2. ASSUME pc[w] = "c.chunk"
      PROVE  \A i \in 1..(pieces[d] - left[w]) : chunk'[<<d, i>>] # "none"
  <2>1. left[w] \in 1..pieces[d]
    BY <1>2 DEF VInv, FreshPieces
  <2>2. pieces[d] - left[w] \in 0..Pieces
    BY <1>1, <2>1, PipelineAssumption
  <2> QED BY <1>2, <2>2, SplitStays DEF Reached
<1>3. Split(d) => Split(d)'
  BY <1>1, SplitStays DEF Split
<1>4. \A S : Covered(d, S) => \A c \in Kept(d)' : c \in emb' \union S
  BY CoverStays
<1>5. /\ pc[w] \in {"e.embed", "e.store"} => Covered(d, list[w])'
      /\ pc[w] = "e.set" => Covered(d, todo[w])'
      /\ pc[w] = "e.ready" => Covered(d, {})'
  BY <1>4 DEF Reached, Covered
<1> QED BY <1>2, <1>3, <1>5 DEF Reached

\* What a step leaves alone, and what it has to establish anew.
LEMMA ReadyAside ==
    ASSUME RInv, Forward, UNCHANGED pieces,
           \A d \in Doc : Plain(d) =>
              \/ Finished(d)'
              \/ /\ job'[<<d, "embedding">>] # "none" <=> job[<<d, "embedding">>] # "none"
                 /\ doc'[d] = "ready" => doc[d] = "ready",
           \A w \in Worker : pc'[w] \in Late =>
              \/ UNCHANGED <<pc[w], cur[w], left[w], list[w], todo[w]>>
              \/ \A d \in Doc : Plain(d) /\ DocOf(cur'[w]) = d => Reached(w, d)'
    PROVE  /\ \A d \in Doc : Plain(d) => Finished(d)'
           /\ \A w \in Worker, d \in Doc : Plain(d) /\ pc'[w] \in Late /\ DocOf(cur'[w]) = d => Reached(w, d)'
<1>0. VInv
  BY DEF RInv
<1>1. ASSUME NEW d \in Doc, Plain(d) PROVE Finished(d)'
  BY <1>0, <1>1, FinishedStays DEF RInv
<1>2. ASSUME NEW w \in Worker, NEW d \in Doc, Plain(d), pc'[w] \in Late, DocOf(cur'[w]) = d
      PROVE  Reached(w, d)'
  <2>1. CASE UNCHANGED <<pc[w], cur[w], left[w], list[w], todo[w]>>
    <3>1. pc[w] \in Late /\ D(w) = d
      BY <1>2, <2>1 DEF D
    <3>2. Reached(w, d)
      BY <1>2, <3>1 DEF RInv
    <3> QED BY <1>0, <2>1, <3>1, <3>2, ReachedStays
  <2> QED BY <1>2, <2>1
<1> QED BY <1>1, <1>2

\* The chunks a loop inserts ...
LEMMA ReadyCreate ==
    ASSUME RInv, Forward, NEW w \in Worker, ChunkCreate(w), NEW d \in Doc, Plain(d), D(w) = d,
           pc'[w] \in Late
    PROVE  Reached(w, d)'
<1>0. VInv /\ TInv
  BY DEF RInv, VInv
<1> DEFINE k == pieces[d] - left[w] + 1
<1>1. PICK o \in Outcomes("c.chunk", Exists(d)) :
         /\ chunk' = Written(o, [chunk EXCEPT ![<<d, k>>] = "active"], chunk)
         /\ left' = [left EXCEPT ![w] = left[w] - 1]
         /\ pc' = [pc EXCEPT ![w] = IF o = "ok" THEN (IF left[w] = 1 THEN "c.next" ELSE "c.chunk") ELSE "fail"]
         /\ pc[w] = "c.chunk" /\ UNCHANGED pieces
  BY DEF ChunkCreate, NextPiece, Goto, After
<1>2. /\ pieces[d] \in 1..Pieces /\ left[w] \in 1..pieces[d] /\ Pieces \in Nat
      /\ <<d, k>> \in Chunk
  BY <1>0, <1>1, NewPiece, PipelineAssumption
<1>3. o = "ok" /\ chunk'[<<d, k>>] = "active"
  BY <1>0, <1>1, <1>2 DEF Late, Written, TInv, TypeOK
<1>4. \A i \in 1..(k - 1) : chunk[<<d, i>>] # "none"
  BY <1>1, <1>2 DEF RInv, Reached, Late
<1>5. \A i \in 1..(k - 1) : chunk'[<<d, i>>] # "none"
  <2>1. k - 1 \in 0..Pieces
    BY <1>2
  <2> HIDE DEF k
  <2> QED BY <1>0, <1>4, <2>1, SplitStays
<1>6. \A i \in 1..k : chunk'[<<d, i>>] # "none"
  <2>1. k \in Nat
    BY <1>2
  <2> HIDE DEF k
  <2>2. \A i \in 1..k : i = k \/ i \in 1..(k - 1)
    BY <2>1
  <2> QED BY <1>3, <1>5, <2>2
<1>7. /\ left'[w] = left[w] - 1
      /\ pc'[w] = IF left[w] = 1 THEN "c.next" ELSE "c.chunk"
  BY <1>0, <1>1, <1>2, <1>3 DEF TInv, TypeOK
<1>8. pieces'[d] - left'[w] = k
  BY <1>1, <1>2, <1>7
<1>9. pc'[w] = "c.next" => pieces'[d] = k /\ k > 0
  BY <1>1, <1>2, <1>7
<1> HIDE DEF k
<1> QED BY <1>6, <1>7, <1>8, <1>9 DEF Reached, Split

\* ... are there when it queues the embedding job ...
LEMMA ReadyEnqueue ==
    ASSUME RInv, Forward, NEW w \in Worker, ChunkEnqueue(w), NEW d \in Doc, Plain(d)
    PROVE  \/ Finished(d)'
           \/ /\ job'[<<d, "embedding">>] # "none" <=> job[<<d, "embedding">>] # "none"
              /\ doc'[d] = "ready" => doc[d] = "ready"
<1>0. VInv /\ TInv /\ QInv
  BY DEF RInv, VInv
<1>1. PICK o : Enqueue(o, <<D(w), "embedding">>)
  BY DEF ChunkEnqueue
<1>2. pc[w] = "c.next" /\ UNCHANGED <<doc, chunk, emb, del, pieces>> /\ D(w) \in Doc
  BY <1>0, OwnJob DEF ChunkEnqueue, handlers
<1>3. CASE D(w) = d
  <2>1. Split(d)
    BY <1>2, <1>3 DEF RInv, Reached, Late
  <2>2. job[<<d, "embedding">>] = "none"
    BY <1>0, <1>2, <1>3 DEF QInv, NotYetEmbedding, Chunking
  <2>3. doc[d] # "ready"
    BY <2>2 DEF RInv, Finished
  <2> QED BY <1>2, <2>1, <2>3 DEF Finished, Split
<1>4. CASE D(w) # d
  <2>1. job'[<<d, "embedding">>] = job[<<d, "embedding">>]
    <3>1. <<d, "embedding">> # <<D(w), "embedding">> /\ <<d, "embedding">> \in Job
      BY <1>4, JobIds
    <3> QED BY <1>0, <1>1, <3>1 DEF Enqueue, Written, TInv, TypeOK
  <2> QED BY <1>2, <2>1
<1> QED BY <1>3, <1>4

\* ... so that it lists every chunk that has no id.
LEMMA ReadyList ==
    ASSUME RInv, NEW w \in Worker, EmbedList(w), NEW d \in Doc, Plain(d), D(w) = d, pc'[w] \in Late
    PROVE  Reached(w, d)'
<1>0. VInv /\ TInv /\ QInv
  BY DEF RInv, VInv
<1>1. PICK o \in Outcomes("e.list", TRUE) :
         /\ pc[w] = "e.list"
         /\ list' = [list EXCEPT ![w] = IF o = "ok" THEN Unembedded(d) ELSE {}]
         /\ pc' = [pc EXCEPT ![w] = IF o = "ok" THEN (IF Unembedded(d) = {} THEN "e.ready" ELSE "e.embed") ELSE "fail"]
         /\ UNCHANGED <<chunk, emb, del, pieces>>
  BY DEF EmbedList, Goto, After, rows, handlers
<1>2. /\ o = "ok" /\ list'[w] = Unembedded(d)
      /\ pc'[w] = IF Unembedded(d) = {} THEN "e.ready" ELSE "e.embed"
  BY <1>0, <1>1 DEF Late, TInv, TypeOK
<1>3. Split(d)
  <2>1. cur[w] \in Job /\ job[cur[w]] # "none" /\ cur[w][2] = "embedding" /\ DocOf(cur[w]) = d
    BY <1>0, <1>1, OwnJob DEF QInv, InItsProcess, Embedding, D
  <2>2. cur[w] = <<d, "embedding">>
    BY <2>1, PlainJobs
  <2> QED BY <2>1, <2>2 DEF RInv, Finished
<1>4. Covered(d, Unembedded(d))
  <2> SUFFICES ASSUME NEW c \in Kept(d) PROVE c \in emb \union Unembedded(d)
    BY DEF Covered
  <2>1. PICK i \in 1..pieces[d] : c = <<d, i>> /\ chunk[c] # "gone"
    BY DEF Kept
  <2>2. c \in Chunk /\ DocOf(c) = d
    BY <1>0, <2>1, PipelineAssumption DEF Chunk, DocOf, TInv, TypeOK
  <2>3. chunk[c] = "active"
    BY <1>0, <1>3, <2>1, <2>2 DEF Split, TInv, TypeOK
  <2> QED BY <2>2, <2>3 DEF Unembedded, ChunksOf
<1>6. \A c \in Kept(d)' : c \in emb' \union Unembedded(d)
  BY <1>1, <1>4 DEF Covered, Kept
<1> QED BY <1>2, <1>6 DEF Reached, Covered

LEMMA ReadyCompute ==
    ASSUME RInv, Forward, NEW w \in Worker, EmbedCompute(w) \/ EmbedStore(w), NEW d \in Doc, Plain(d), D(w) = d,
           pc'[w] \in Late
    PROVE  Reached(w, d)'
<1>0. VInv /\ TInv
  BY DEF RInv, VInv
<1>1. /\ pc[w] \in {"e.embed", "e.store"} /\ UNCHANGED <<list, pieces>>
      /\ \E l \in {"e.store", "e.set", "fail"} : pc' = [pc EXCEPT ![w] = l] /\ (l = "e.set" => todo' = [todo EXCEPT ![w] = list[w]])
  BY DEF EmbedCompute, EmbedStore, Goto, After
<1>2. pc'[w] \in {"e.store", "e.set"} /\ (pc'[w] = "e.set" => todo'[w] = list[w])
  BY <1>0, <1>1 DEF Late, TInv, TypeOK
<1>3. Covered(d, list[w])
  BY <1>1 DEF RInv, Reached, Late
<1>4. \A c \in Kept(d)' : c \in emb' \union list[w]
  BY <1>0, <1>1, <1>3, CoverStays
<1> QED BY <1>1, <1>2, <1>4 DEF Reached, Covered

LEMMA ReadySet ==
    ASSUME RInv, Forward, NEW w \in Worker, EmbedSet(w), NEW d \in Doc, Plain(d), D(w) = d, pc'[w] \in Late
    PROVE  Reached(w, d)'
<1>0. VInv /\ TInv
  BY DEF RInv, VInv
<1>p. PICK c \in todo[w] : \E o \in Outcomes("e.set", TRUE) :
         /\ emb' = Written(o, emb \union {x \in {c} : chunk[x] = "active"}, emb)
         /\ todo' = [todo EXCEPT ![w] = IF o = "ok" THEN todo[w] \ {c} ELSE {}]
         /\ pc' = [pc EXCEPT ![w] = IF o = "ok" THEN (IF todo[w] = {c} THEN "e.ready" ELSE "e.set") ELSE "fail"]
  BY DEF EmbedSet, Goto, After
<1>1. PICK o \in Outcomes("e.set", TRUE) :
         /\ emb' = Written(o, emb \union {x \in {c} : chunk[x] = "active"}, emb)
         /\ todo' = [todo EXCEPT ![w] = IF o = "ok" THEN todo[w] \ {c} ELSE {}]
         /\ pc' = [pc EXCEPT ![w] = IF o = "ok" THEN (IF todo[w] = {c} THEN "e.ready" ELSE "e.set") ELSE "fail"]
  BY <1>p
<1>2. pc[w] = "e.set" /\ UNCHANGED <<chunk, pieces, job, del>>
  BY DEF EmbedSet, handlers
<1>3. /\ o = "ok" /\ todo'[w] = todo[w] \ {c}
      /\ pc'[w] = IF todo[w] = {c} THEN "e.ready" ELSE "e.set"
      /\ emb' = emb \union {x \in {c} : chunk[x] = "active"}
  BY <1>0, <1>1 DEF Late, Written, TInv, TypeOK
<1>4. \A x \in Kept(d)' : x \in emb' \union todo[w]
  <2>1. Covered(d, todo[w])
    BY <1>2 DEF RInv, Reached, Late
  <2> QED BY <1>0, <1>2, <2>1, CoverStays
<1>5. Split(d)
  <2>1. cur[w] \in Job /\ job[cur[w]] # "none" /\ cur[w][2] = "embedding" /\ DocOf(cur[w]) = d
    BY <1>0, <1>2, OwnJob DEF VInv, QInv, InItsProcess, Embedding, D
  <2>2. cur[w] = <<d, "embedding">>
    BY <2>1, PlainJobs
  <2> QED BY <2>1, <2>2 DEF RInv, Finished
<1>6. c \in Kept(d)' => c \in emb'
  <2> SUFFICES ASSUME c \in Kept(d)' PROVE c \in emb'
    OBVIOUS
  <2>1. c \in Kept(d) /\ c \in Chunk
    BY <1>0, <1>2, KeptWere
  <2>2. PICK i \in 1..pieces[d] : c = <<d, i>> /\ chunk[c] # "gone"
    BY <2>1 DEF Kept
  <2>3. chunk[c] = "active"
    BY <1>0, <1>5, <2>1, <2>2 DEF Split, TInv, TypeOK
  <2> QED BY <1>3, <2>3
<1>7. \A x \in Kept(d)' : x \in emb' \union todo'[w]
  BY <1>3, <1>4, <1>6
<1>8. todo[w] = {c} => \A x \in Kept(d)' : x \in emb'
  BY <1>4, <1>6
<1> QED BY <1>3, <1>7, <1>8 DEF Reached, Covered

\* The split of the text comes before any of this.
LEMMA ReadySplit ==
    ASSUME RInv, NEW w \in Worker, ChunkSplit(w)
    PROVE  /\ \A d \in Doc : Plain(d) => Finished(d)'
           /\ \A v \in Worker, d \in Doc : Plain(d) /\ pc'[v] \in Late /\ DocOf(cur'[v]) = d => Reached(v, d)'
<1>0. VInv /\ TInv /\ QInv
  BY DEF RInv, VInv
<1>1. PICK o \in Outcomes("c.split", Exists(D(w))), n \in 1..Pieces :
         /\ left' = [left EXCEPT ![w] = IF o = "ok" THEN n ELSE left[w]]
         /\ pieces' = [pieces EXCEPT ![D(w)] = IF o = "ok" THEN n ELSE pieces[D(w)]]
         /\ pc' = [pc EXCEPT ![w] = IF o = "ok" THEN "c.chunk" ELSE "fail"]
  BY DEF ChunkSplit, Sizes, Goto, After
<1>2. /\ pc[w] = "c.split" /\ D(w) \in Doc
      /\ UNCHANGED <<doc, job, chunk, emb, vec, cur, list, todo, del>>
  BY <1>0, OwnJob DEF ChunkSplit, rows, handlers
<1>3. job[<<D(w), "embedding">>] = "none"
  BY <1>0, <1>2 DEF QInv, NotYetEmbedding, Chunking
<1>4. \A d \in Doc : d # D(w) => pieces'[d] = pieces[d]
  BY <1>0, <1>1 DEF TInv, TypeOK
<1>5. ASSUME NEW d \in Doc, Plain(d) PROVE Finished(d)'
  <2>1. Finished(d)
    BY <1>5 DEF RInv
  <2>2. CASE d = D(w)
    BY <1>2, <1>3, <2>1, <2>2 DEF Finished
  <2>3. CASE d # D(w)
    BY <1>2, <1>4, <2>1, <2>3 DEF Finished, Split, Covered, Kept
  <2> QED BY <2>2, <2>3
<1>6. ASSUME NEW v \in Worker, NEW d \in Doc, Plain(d), pc'[v] \in Late, DocOf(cur'[v]) = d
      PROVE  Reached(v, d)'
  <2>0. D(v) = d
    BY <1>2, <1>6 DEF D
  <2>1. CASE v = w
    <3>1. o = "ok" /\ pc'[w] = "c.chunk" /\ left'[w] = n /\ pieces'[d] = n
      BY <1>0, <1>1, <1>2, <1>6, <2>0, <2>1 DEF Late, TInv, TypeOK
    <3> QED BY <2>1, <3>1 DEF Reached
  <2>2. CASE v # w
    <3>1. UNCHANGED <<pc[v], left[v], list[v], todo[v]>>
      BY <1>0, <1>1, <1>2, <2>2 DEF TInv, TypeOK
    <3>2. d # D(w)
      <4> SUFFICES ASSUME d = D(w) PROVE FALSE
        OBVIOUS
      <4>2. pc[v] \notin Chunking
        BY <1>0, <1>2, <2>0, <2>2, OneChunking DEF Chunking
      <4>3. pc[v] \in Embedding
        BY <1>6, <3>1, <4>2 DEF Late, Chunking, Embedding
      <4>4. cur[v] \in Job /\ job[cur[v]] # "none" /\ cur[v][2] = "embedding" /\ DocOf(cur[v]) = d
        BY <1>0, <2>0, <4>3, OwnJob DEF QInv, InItsProcess, Embedding, D
      <4>5. cur[v] = <<d, "embedding">>
        BY <1>6, <4>4, PlainJobs
      <4> QED BY <1>3, <4>4, <4>5
    <3>3. Reached(v, d)
      BY <1>6, <2>0, <3>1 DEF RInv
    <3> QED BY <1>2, <1>4, <3>1, <3>2, <3>3 DEF Reached, Split, Covered, Kept
  <2> QED BY <2>1, <2>2
<1> QED BY <1>5, <1>6

\* The document becomes ready when nothing is left to do.
LEMMA ReadyReady ==
    ASSUME RInv, Forward, NEW w \in Worker, EmbedReady(w), NEW d \in Doc, Plain(d)
    PROVE  \/ Finished(d)'
           \/ /\ job'[<<d, "embedding">>] # "none" <=> job[<<d, "embedding">>] # "none"
              /\ doc'[d] = "ready" => doc[d] = "ready"
<1>0. VInv /\ TInv /\ QInv
  BY DEF RInv, VInv
<1>1. /\ pc[w] = "e.ready" /\ UNCHANGED <<job, chunk, emb, del, pieces>> /\ D(w) \in Doc
      /\ \E o : doc' = Written(o, [doc EXCEPT ![D(w)] = "ready"], doc)
  BY <1>0, OwnJob DEF EmbedReady, SetDoc, handlers
<1>2. CASE D(w) = d
  <2>1. cur[w] \in Job /\ job[cur[w]] # "none" /\ cur[w][2] = "embedding" /\ DocOf(cur[w]) = d
    BY <1>0, <1>1, <1>2, OwnJob DEF QInv, InItsProcess, Embedding, D
  <2>2. cur[w] = <<d, "embedding">>
    BY <2>1, PlainJobs
  <2>3. Split(d) /\ Covered(d, {})
    BY <1>1, <1>2, <2>1, <2>2 DEF RInv, Finished, Reached, Late
  <2> QED BY <1>1, <2>1, <2>2, <2>3 DEF Finished, Split, Covered, Kept
<1>3. CASE D(w) # d
  BY <1>0, <1>1, <1>3 DEF Written, TInv, TypeOK
<1> QED BY <1>2, <1>3

\* The statements that touch neither an embedding job of a document nor make one
\* ready.
LEMMA ReadyJobs ==
    ASSUME VInv, NEW d \in Doc, Plain(d), Next,
           ~\E w \in Worker : ChunkEnqueue(w) \/ EmbedReady(w)
    PROVE  /\ job'[<<d, "embedding">>] # "none" <=> job[<<d, "embedding">>] # "none"
           /\ doc'[d] = "ready" => doc[d] = "ready"
<1> DEFINE e == <<d, "embedding">>
<1>0. TInv /\ e \in Job /\ d \in Uploaded
  BY JobIds DEF VInv, Plain
<1>1. \/ UNCHANGED job
      \/ \E x \in Doc : DeleteDocument(x)
      \/ \E j \in Job \ {e} : \E o : Enqueue(o, j)
      \/ \E j \in Job : job[j] # "none" /\ \E s \in {"running", "completed", "failed"} : job' = [job EXCEPT ![j] = s]
  <2>1. ASSUME NEW x \in Doc, UploadEnqueue(x) PROVE \E j \in Job \ {e} : \E o : Enqueue(o, j)
    <3>1. <<x, "extraction">> \in Job /\ <<x, "extraction">> # e
      BY JobIds
    <3> QED BY <2>1, <3>1 DEF UploadEnqueue
  <2>2. ASSUME NEW r \in Req, IngestEnqueue(r) PROVE \E j \in Job \ {e} : \E o : Enqueue(o, j)
    <3>1. <<r, "embedding">> \in Job /\ <<r, "embedding">> # e
      BY JobIds, PipelineAssumption
    <3> QED BY <2>2, <3>1 DEF IngestEnqueue
  <2>3. ASSUME NEW w \in Worker, ExtractEnqueue(w) PROVE \E j \in Job \ {e} : \E o : Enqueue(o, j)
    <3>0. D(w) \in Doc
      BY <2>3, OwnJob DEF ExtractEnqueue, VInv
    <3>1. <<D(w), "chunking">> \in Job /\ <<D(w), "chunking">> # e
      BY <3>0, JobIds
    <3> QED BY <2>3, <3>1 DEF ExtractEnqueue
  <2>4. ASSUME NEW w \in Worker, Claim(w)
        PROVE  \/ UNCHANGED job
               \/ \E j \in Job : job[j] # "none" /\ job' = [job EXCEPT ![j] = "running"]
    BY <2>4 DEF Claim, Claimable, Written
  <2>5. ASSUME NEW w \in Worker, RecordOutcome(w)
        PROVE  \/ UNCHANGED job
               \/ \E j \in Job : job[j] # "none" /\ \E s \in {"completed", "failed"} : job' = [job EXCEPT ![j] = s]
    <3>1. cur[w] \in Job /\ job[cur[w]] # "none" /\ pc[w] \in {"completed", "failed"}
      BY <2>5, OwnJob DEF RecordOutcome, Record, VInv
    <3> QED BY <2>5, <3>1 DEF RecordOutcome, Written
  <2>6. CASE Client
    BY <2>6 DEF Client, CreateDocument, UploadCreate, IngestStart, DeleteVector, rows
  <2>7. CASE Handler
    BY <2>1, <2>2, <2>7 DEF Handler, UploadSave, IngestCreate, IngestStore, IngestSet, DeleteChunk
  <2>8. ASSUME NEW w \in Worker, Step(w)
        PROVE  UNCHANGED job \/ Claim(w) \/ ExtractEnqueue(w) \/ ChunkEnqueue(w) \/ RecordOutcome(w)
    BY <2>8 DEF Step, ExtractStart, ExtractRead, ExtractSave, ChunkRead, ChunkSplit, ChunkCreate,
          EmbedList, EmbedCompute, EmbedStore, EmbedSet, EmbedReady, MarkFailed, rows
  <2>9. CASE Crash
    BY <2>9 DEF Crash, rows
  <2> QED BY <2>3, <2>4, <2>5, <2>6, <2>7, <2>8, <2>9 DEF Next
<1>2. job'[e] # "none" <=> job[e] # "none"
  <2>1. ASSUME NEW x \in Doc, DeleteDocument(x) PROVE job'[e] # "none" <=> job[e] # "none"
    BY <1>0, <2>1 DEF DeleteDocument
  <2>2. ASSUME NEW j \in Job \ {e}, NEW o, Enqueue(o, j) PROVE job'[e] = job[e]
    BY <1>0, <2>2 DEF Enqueue, Written, TInv, TypeOK
  <2>3. ASSUME NEW j \in Job, job[j] # "none", NEW s \in {"running", "completed", "failed"},
               job' = [job EXCEPT ![j] = s]
        PROVE  job'[e] # "none" <=> job[e] # "none"
    BY <1>0, <2>3 DEF TInv, TypeOK
  <2> HIDE DEF e
  <2> QED BY <1>1, <2>1, <2>2, <2>3
<1>3. doc'[d] = "ready" => doc[d] = "ready"
  <2>1. \/ UNCHANGED doc
        \/ \E x \in Doc \ {d} : doc' = [doc EXCEPT ![x] = "ready"]
        \/ \E x \in Doc, s \in DocStatus \ {"ready"} : doc' = [doc EXCEPT ![x] = s]
    <3> USE DEF DocStatus, SetDoc, Written
    <3>1. CASE Client
      BY <1>0, <3>1 DEF Client, CreateDocument, UploadCreate, DeleteDocument, IngestStart, DeleteVector, rows
    <3>2. CASE Handler
      BY <3>2 DEF Handler, UploadSave, UploadEnqueue, IngestCreate, IngestStore, IngestSet, IngestEnqueue, DeleteChunk
    <3>3. ASSUME NEW w \in Worker, ExtractStart(w)
          PROVE  UNCHANGED doc \/ \E x \in Doc, s \in DocStatus \ {"ready"} : doc' = [doc EXCEPT ![x] = s]
      <4>1. D(w) \in Doc
        BY <3>3, OwnJob DEF ExtractStart, VInv
      <4> QED BY <3>3, <4>1 DEF ExtractStart
    <3>4. ASSUME NEW w \in Worker, MarkFailed(w)
          PROVE  UNCHANGED doc \/ \E x \in Doc, s \in DocStatus \ {"ready"} : doc' = [doc EXCEPT ![x] = s]
      <4>1. D(w) \in Doc
        BY <3>4, OwnJob DEF MarkFailed, VInv
      <4> QED BY <3>4, <4>1 DEF MarkFailed
    <3>5. ASSUME NEW w \in Worker, Step(w)
          PROVE  UNCHANGED doc \/ ExtractStart(w) \/ EmbedReady(w) \/ MarkFailed(w)
      BY <3>5 DEF Step, Claim, ExtractRead, ExtractSave, ExtractEnqueue, ChunkRead, ChunkSplit, ChunkCreate,
            ChunkEnqueue, EmbedList, EmbedCompute, EmbedStore, EmbedSet, RecordOutcome, rows
    <3>6. CASE Crash
      BY <3>6 DEF Crash, rows
    <3> QED BY <3>1, <3>2, <3>3, <3>4, <3>5, <3>6 DEF Next
  <2> QED BY <1>0, <2>1 DEF TInv, TypeOK
<1> QED BY <1>2, <1>3

LEMMA ReadyInductive ==
    /\ Init => RInv
    /\ RInv /\ [Next]_vars => RInv'
<1>1. Init => RInv
  <2> SUFFICES ASSUME Init PROVE RInv
    OBVIOUS
  <2>1. VInv /\ \A d \in Doc : <<d, "embedding">> \in Job
    BY VectorsInductive, JobIds
  <2> QED BY <2>1 DEF Init, RInv, Finished, Late
<1>2. ASSUME RInv, [Next]_vars PROVE RInv'
  <2>0. VInv /\ VInv' /\ Forward
    BY <1>2, VectorsInductive DEF RInv
  <2>t. TInv
    BY <2>0 DEF VInv
  <2> SUFFICES /\ \A d \in Doc : Plain(d) => Finished(d)'
               /\ \A w \in Worker, d \in Doc : Plain(d) /\ pc'[w] \in Late /\ DocOf(cur'[w]) = d => Reached(w, d)'
    BY <2>0 DEF RInv, Plain, D
  <2>1. CASE UNCHANGED vars
    BY <1>2, <2>0, <2>1, ReadyAside DEF vars, rows, loops
  <2>2. CASE \E w \in Worker : ChunkSplit(w)
    BY <1>2, <2>2, ReadySplit
  <2>3. CASE Next /\ ~\E w \in Worker : ChunkSplit(w)
    <3>1. \A d \in Doc : Plain(d) =>
             \/ Finished(d)'
             \/ /\ job'[<<d, "embedding">>] # "none" <=> job[<<d, "embedding">>] # "none"
                /\ doc'[d] = "ready" => doc[d] = "ready"
      BY <1>2, <2>0, <2>3, ReadyJobs, ReadyEnqueue, ReadyReady
    <3>2. CASE Client \/ Handler
      <4>1. UNCHANGED <<pc, cur, left, list, todo, pieces>>
        <5>1. CASE Client
          BY <5>1 DEF Client, CreateDocument, UploadCreate, DeleteDocument, IngestStart, DeleteVector, loops
        <5>2. CASE Handler
          BY <5>2 DEF Handler, UploadSave, UploadEnqueue, IngestCreate, IngestStore, IngestSet, IngestEnqueue,
                DeleteChunk, loops
        <5> QED BY <3>2, <5>1, <5>2
      <4> QED BY <1>2, <2>0, <3>1, <4>1, ReadyAside
    <3>3. CASE Crash
      <4>1. UNCHANGED pieces /\ \A w \in Worker : pc'[w] \notin Late
        BY <3>3 DEF Crash, Late
      <4> QED BY <1>2, <2>0, <3>1, <4>1, ReadyAside
    <3>4. ASSUME NEW w \in Worker, Step(w)
          PROVE  /\ \A d \in Doc : Plain(d) => Finished(d)'
                 /\ \A v \in Worker, d \in Doc : Plain(d) /\ pc'[v] \in Late /\ DocOf(cur'[v]) = d => Reached(v, d)'
      <4>1. UNCHANGED pieces
        BY <2>3, <3>4 DEF Step, Claim, ExtractStart, ExtractRead, ExtractSave, ExtractEnqueue, ChunkRead,
              ChunkCreate, ChunkEnqueue, EmbedList, EmbedCompute, EmbedStore, EmbedSet, EmbedReady,
              MarkFailed, RecordOutcome
      <4>2. \A v \in Worker : v # w => UNCHANGED <<pc[v], cur[v], left[v], list[v], todo[v]>>
        BY <2>t, <3>4, OtherLoops
      <4>3. ASSUME pc'[w] \in Late, NEW d \in Doc, Plain(d), DocOf(cur'[w]) = d
            PROVE  Reached(w, d)'
        <5>1. CASE ChunkCreate(w)
          BY <1>2, <2>0, <4>3, <5>1, ReadyCreate DEF ChunkCreate, D
        <5>2. CASE EmbedList(w)
          BY <1>2, <4>3, <5>2, ReadyList DEF EmbedList, D
        <5>3. CASE EmbedCompute(w) \/ EmbedStore(w)
          BY <1>2, <2>0, <4>3, <5>3, ReadyCompute DEF EmbedCompute, EmbedStore, D
        <5>4. CASE EmbedSet(w)
          BY <1>2, <2>0, <4>3, <5>4, ReadySet DEF EmbedSet, D
        <5>5. CASE Claim(w)
          <6>1. \E l \in {"idle", "x.start", "c.read", "e.list"} : pc' = [pc EXCEPT ![w] = l]
            BY <5>5 DEF Claim, Goto, After, StartOf, Job
          <6> QED BY <2>t, <4>3, <6>1 DEF Late, TInv, TypeOK
        <5>6. CASE ExtractStart(w) \/ ExtractRead(w) \/ ExtractSave(w) \/ ExtractEnqueue(w) \/ ChunkRead(w)
                     \/ ChunkEnqueue(w) \/ EmbedReady(w) \/ MarkFailed(w) \/ RecordOutcome(w)
          <6>1. \E l \in {"x.read", "x.save", "x.next", "completed", "failed", "fail", "c.split", "idle"} :
                   pc' = [pc EXCEPT ![w] = l]
            BY <5>6 DEF ExtractStart, ExtractRead, ExtractSave, ExtractEnqueue, ChunkRead, ChunkEnqueue,
                  EmbedReady, MarkFailed, RecordOutcome, Goto, After
          <6> QED BY <2>t, <4>3, <6>1 DEF Late, TInv, TypeOK
        <5> QED BY <2>3, <3>4, <5>1, <5>2, <5>3, <5>4, <5>5, <5>6 DEF Step
      <4>4. \A v \in Worker : pc'[v] \in Late =>
               \/ UNCHANGED <<pc[v], cur[v], left[v], list[v], todo[v]>>
               \/ \A d \in Doc : Plain(d) /\ DocOf(cur'[v]) = d => Reached(v, d)'
        BY <4>2, <4>3
      <4> QED BY <1>2, <2>0, <3>1, <4>1, <4>4, ReadyAside
    <3> QED BY <2>3, <3>2, <3>3, <3>4 DEF Next
  <2> QED BY <1>2, <2>1, <2>2, <2>3
<1> QED BY <1>1, <1>2

\* A document that only the upload pipeline writes to is ready only when its whole
\* text is in the index, with what fails and when the process dies
\* (chunking.go and embedding.go, Process).
THEOREM ReadyMeansSearchable == Spec => []ReadyIsSearchable
<1>1. RInv => ReadyIsSearchable
  <2> SUFFICES ASSUME RInv, NEW d \in Uploaded, doc[d] = "ready", \A r \in Req : ReqDoc[r] # d
               PROVE  pieces[d] > 0 /\ \A c \in Kept(d) : chunk[c] = "active" /\ c \in emb \intersect vec
    BY DEF ReadyIsSearchable
  <2>1. d \in Doc /\ Plain(d) /\ Truthful
    BY PipelineAssumption DEF Plain, RInv, VInv
  <2>2. pieces[d] > 0 /\ Covered(d, {})
    BY <2>1 DEF RInv, Finished, Split
  <2>3. ASSUME NEW c \in Kept(d) PROVE chunk[c] = "active" /\ c \in emb \intersect vec
    <3>1. c \in emb /\ del[c] = "no"
      BY <2>2 DEF Covered, Kept
    <3> QED BY <2>1, <3>1 DEF Truthful, Torn
  <2> QED BY <2>2, <2>3
<1> QED BY <1>1, ReadyInductive, PTL DEF Spec
=============================================================================
