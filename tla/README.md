# Creel: models and proofs

Creel (Go) is a memory store for AI agents: clients keep topics, documents and
chunks of text in PostgreSQL, a pool of background workers extracts, splits and
embeds uploaded documents, and searches go through a vector index (pgvector)
under per-topic grants. This directory holds TLA+ modules of its core logic, TLC
configurations that check them on small instances, and TLAPS proofs.

Paths below are relative to the repository.

## 1. Inventory

### How the program is put together

`cmd/creel/main.go` starts one process: the gRPC services of `internal/server`
(and a REST gateway), the stores of `internal/store` over one PostgreSQL pool,
the vector backend, and `internal/worker.Pool` with a few poll loops. The Helm
chart runs several replicas of it on the same database. Components share nothing
but the database: a handler inserts a row in `processing_jobs`, a poll loop of
any replica finds it. With few exceptions (ClaimNext, key rotation, default
configurations) *no* operation runs in a transaction. A handler or a worker is a
sequence of SQL statements and calls of providers, each of which can fail, and
other actors run between any two of them. That is where this system is hard, and
why nearly every model here has one action per statement.

### Components

| Component | State | Operations | What makes it correct |
|---|---|---|---|
| Job queue (`store/job.go`) | `processing_jobs`: status, type, document, progress | Create, ClaimNext, UpdateStatus, List | a job is handed out once; only its holder writes its outcome |
| Worker pool (`worker/pool.go`) | poll loops, context, wait group | Start, pollOnce, tryProcess, Stop | exclusive processing over all replicas; queued jobs are taken; Stop ends |
| Document pipeline (`server/document.go`, `worker/extraction.go`, `chunking.go`, `embedding.go`) | `documents.status`, `document_content`, chunks, vectors | UploadDocument, DeleteDocument, three Process functions | ready means completely indexed; accepted uploads settle; nothing outlives its document |
| Direct ingestion (`server/chunk.go`) | chunks, vectors | IngestChunks, DeleteChunk | every chunk gets a vector; `embedding_id` is truthful |
| Compaction (`server/compaction.go`, `worker/compaction.go`) | `chunks.status`, `compacted_by`, links, records | Compact, Uncompact, RequestCompaction, the worker | content stays reachable and searchable; records and marks agree; reversible |
| Links (`server/link.go`) | `links` | Create, Delete, List, TransferLinks | links follow their chunks |
| Vector backend (`vector/pgvector`) | `chunk_embeddings` | Store, StoreBatch, Delete, Search | one vector per chunk; no vector without chunk (foreign key) |
| Backend registry (`vector/registry.go`) | cached backends | Get, Put, GetOrCreate, Remove | one backend per configuration |
| Retrieval (`retrieval/`) | none | Search, GetContext | only chunks the caller may read; nothing it could find is left out |
| Grants (`auth/grant_authorizer.go`, `store/grant.go`) | `topic_grants`, owners | Check, AccessibleTopics, Grant, Revoke | monotone permissions; the two reads agree |
| System accounts (`store/system_account.go`) | keys with status and grace expiry | Create, Delete, RotateKey, RevokeKey, LookupKeyHash | revocation sticks; nobody is locked out by a rotation |
| Topics (`server/topic.go`) | topic row with four configurations | Create, Update, Delete | a prompt needs an LLM; the embedding model never changes |
| Configurations (`server/config.go`, `store/*_config.go`) | configurations, one default each | CRUD, SetDefault | at most one default; no dangling reference |
| Memory (`server/memory.go`, `worker/memory_*.go`) | memories per principal and scope | AddMemory, AddMessages, Update, Delete, extraction, maintenance | memories stay with their principal and scope; every extracted fact gets a job |
| Job RPC (`server/job.go`) | none | GetJob, ListJobs | pagination: each job once |
| Middleware, OIDC, providers | none | | who a request is from; calls that succeed or fail |
| Fetcher, CLI, chat, MCP, SDKs, dashboard | none, or I/O | | not modelled |

### What is hard

`PROJECT.json` lists the hazards with the lines where they bite. In short:
several replicas polling one table; a process that dies, or a context that is
cancelled, between the claim and the outcome of a job; handlers and workers of
three to ten statements that fail in the middle or whose reply is lost; lists of
chunks read before a call that takes seconds and acted on afterwards, while
chunks are deleted, compacted, restored and embedded by others; best-effort
enqueues; cascades and foreign keys as the only synchronisation; transactions
under READ COMMITTED.

## 2. Modules

| Module | Models | Checked by | Proved in |
|---|---|---|---|
| `JobQueue` | what the job table promises, abstractly | as a property of the two below | |
| `WorkerPool` | poll loops, ClaimNext's transaction, Stop, crashes | `MCWorkerPool` | `WorkerPoolProofs` |
| `Statements` | how a statement outside a transaction ends | with the two below | |
| `Pipeline` | UploadDocument, IngestChunks, DeleteChunk, DeleteDocument, extraction, chunking, embedding | `MCPipeline` | `PipelineProofs` |
| `Compaction` | Compact, Uncompact, the compaction worker, links, next to embedding and deletion | `MCCompaction` | `CompactionProofs` |
| `Keys` | API keys of system accounts | with `Access` | `KeysProofs` |
| `Access` | authenticated requests, grants, Search and GetContext, deletions | `MCAccess` | `AccessProofs` |
| `Configs` | processing configurations, defaults, and the topics bound to them | `MCConfigs` | `ConfigsProofs` |
| `Memory` | memories, memory_messages and memory_maintenance jobs | `MCServices` | `MemoryProofs` |
| `JobListing` | the pages of ListJobs | `MCServices` | `ServicesProofs` |
| `SplitText` | the windows of the chunking worker | `MCServices` | `ServicesProofs` |
| `Registry` | the cache of vector backends | `MCServices` | `ServicesProofs` |

`WorkerPool` and `Pipeline` both implement `JobQueue` (`ImplementsQueue`, a
refinement mapping in each). That is how they compose: `WorkerPool` has the
transaction and the replicas and abstracts what Process does to its error;
`Pipeline` takes a claim as one action, as `JobQueue` does, and has the inside of
Process. `Compaction` starts where the pipeline ends, with documents that have
chunks. `Access` extends `Keys` and takes ingestion, embedding and compaction as
one action each: what they do to a search is to add and remove chunks and vectors.
`Memory` takes a claim as one action too, and is proved to implement `JobQueue`. `Configs` stands on its own: workers
only read it.

### WorkerPool

A goroutine's `pc` follows `pollLoop` / `pollOnce` / `tryProcess`: `idle` (in the
select), `poll` (between types), `claim` (before ClaimNext's UPDATE), `commit`
(row locked and changed, not committed), `process`, `record`, `exited`. `lock` is
the row lock of FOR UPDATE SKIP LOCKED; rows another transaction has locked are
skipped, so the order is oldest first *among the unlocked ones*. The status seen
by others changes at the commit. A statement fails when the context is cancelled
(`pool[s] # "up"`), or by one of `MaxFaults` faults; a failing commit or update
may have taken effect. `Stop` cancels the context, `StopReturns` needs every loop
to have exited, `StopTimesOut` is the timeout. `Restart` is a crash or the end of
a stopped process: its loops vanish with their locks.

### Pipeline

`up`, `ing`, `del` are the program counters of the UploadDocument, IngestChunks
and DeleteChunk handlers; `pc`, `cur` those of the poll loops; `x.*`, `c.*`, `e.*`
the statements of the three Process functions. Each action is one statement and
chooses an outcome from `Outcomes(label, can)`: `ok`, `refused` (foreign key, no
row), `fault` (failed without effect), `lost` (took effect, the caller gets an
error). `MayFail`, `MaxFaults` and `LostReplies` say which are possible. A fault
also stands for a provider's error, and for text that PostgreSQL refuses (SplitText
cuts at bytes, so a chunk may not be valid UTF-8). Text is abstracted to its
number of chunks, content to whether extraction yields text, nothing or an error.
A chunk is named by its creator and index, which is sound because each chunking
job runs once: `ImplementsQueue` checks it.

A crash kills all handlers and loops at once (the single-process deployment);
with several replicas the loops of one process could die alone, which is a crash
in which the others stay idle for a while.

### Compaction

`pc[r]` is a compaction, a Compact call or a job according to `ByJob`; the two
differ at the start (the call takes the ids as given, the job keeps the active
ones and wants two) and in how the summary gets its embedding, and share the rest:
create, store and set or enqueue, TransferLinks (two statements per source),
DeleteBatch, MarkCompacted, the record. A summary chunk has the name of its
compaction. `half` is the source whose links out have been moved and those in have
not. `un` is an Uncompact call. A compaction is of a document (`DocOf[r]`), but the
ids it is given are any: neither the call nor the worker compares their documents
with it. A job without ids takes the active chunks of its document. Documents are
not deleted here; sequence numbers, grants and texts are left out; an embedding job
is counted per document, not named. Faults, with or
without effect, stop a handler at any statement, so a crash of one handler needs
no action of its own.

### Keys and Access

A statement of PostgreSQL at READ COMMITTED works on the rows that match when it
starts, waits for those that are locked, looks at them again once it has the lock,
and does not see rows inserted meanwhile. `Keys` has that as two steps: `rows[q]`
is what the statement of call `q` found when it began (`RotateKey`, `RevokeKey`,
`DeleteAccount`), and the step that carries it out (`RetireKeys`, `RevokeKeys`,
`Cascade`) needs `Runs(q)`, no lock of another call in the way, and passes over
rows that do not match any more. Changes of a transaction become visible at its
commit. `Rollback` is a lost connection, or the victim of a deadlock (a deletion
locks the account and then its keys, a rotation the keys and then the account).

In `Access` a request is authenticated, by a key that `Usable` admits at that
moment or by a token, and then goes through its queries one action each: `grants`,
`owned`, `chunks`, `vectors`, `rows`, `topics` for a search (AccessibleTopics is two
queries, Search four more), `doc`, `owner`, `check`, `act` for the others. What it
has read so far is in `scope` and `found`. The history variables `had` and `could`
say what the caller was allowed, at some moment, and could have found, at all
moments, of the request; the properties compare results with them.

### Configs

The five tables share one shape. A transaction is `clear` (the UPDATE that clears
the flag; `old` is what it finds when it starts, then what it has cleared), `mark`
(the UPDATE that sets it), `index` (the entry in the partial unique index, and the
foreign key to the API key) and `commit`. Rows it has changed are locked, and so is
the index entry of its kind; `Waits` says who waits for whom, `DeadlockVictim` is
PostgreSQL's answer to a cycle, `Rollback` a lost connection. The other calls are
one statement. Deleting a configuration sets the columns of the topics that refer
to it to NULL; deleting an API key is refused while something refers to it.
UpdateTopic is up to four queries: Check and Get, the old embedding configuration,
the new one, the UPDATE.

### Memory, JobListing, SplitText, Registry

In `Memory` a text is the set of facts it states. `Decide` is the answer of the LLM:
nothing, an addition, the deletion of *any* memory or *any* text for it, or an action
or a memory that does not exist, since the worker checks none of this. What an answer
gives to a memory beyond what the job had shown from the memory's own home goes into
the history variable `invented`. `Extract` yields exactly the facts of the messages; what an LLM makes of
a conversation is outside. `JobListing` numbers jobs by creation time (no two in one microsecond)
and has one action per page; `SplitText` is the loop over byte offsets, with the
corrections of its parameters in `SplitInit`; `Registry` has one action per
critical section.

## 3. Runs

| Run | Shows |
|---|---|
| `pool` | two replicas with faults, Stop and a process death: exclusive processing, a held job is running, `WorkerPool` implements `JobQueue`; queued jobs are taken while a replica stays up, in calm runs they get an outcome, Stop ends |
| `pool_stop` (violated) | an in-flight job at Stop is let go without an outcome |
| `pipeline` | an upload and a request on one document, so that two embedding jobs race with each other and with deletions, a fault with or without effect, a crash: `embedding_id` implies a vector, nothing outlives its document, jobs follow `JobQueue` |
| `pipeline_live` | an upload and a request on different documents, two failures inside Process, deletions of the documents and of a chunk of each: documents in progress have a job, ready ones are completely indexed, accepted uploads end at ready, failed or deleted and stay there, ingested chunks get their vectors |
| `compaction` | one poll loop, two compaction jobs, an Uncompact, an embedding job, a link, a fault: what is active gets embedded |
| `compaction_races` | a Compact call next to a compaction job, of the same chunks in two documents, two poll loops, embedding jobs, an Uncompact, the deletion of a summary, a fault with or without effect: `compacted_by` leads to an active chunk, no content leaves the index, compacted chunks leave nothing in it and have a record to restore them by |
| `compact_undo` (violated) | Uncompact deletes transferred links |
| `compact_reembed` (violated) | Compact next to an embedding job: a chunk is lost to the index after Uncompact |
| `configs` | any three calls at once on nine configurations and two topics: at most one default and it is never lost, API keys exist, topics keep their model and their LLM, every call ends |
| `access` | two calls on the keys of an account at once, or two requests next to each other and to the workers: no retired key comes back, a revocation holds, nobody is locked out; requests are authorized, searches complete |
| `services` | four machines, one at a time: memories state nothing of others, but for what the LLM makes up, and messages are extracted; a walk through the pages of a topic or a document is complete; the windows of every short text cover it; concurrent GetOrCreate calls get one backend |
| `listing_topics` (violated) | without a topic, ListJobs skips jobs |

The violated runs are findings, each against a sentence of the docs or a comment,
quoted in `PROJECT.json`.

The properties are stated with the conditions under which the code keeps them,
and the conditions say something. `ReadyIsSearchable` excludes documents that also
get chunks by IngestChunks: the embedding job of such a request makes a failed
document ready. `OutcomeIsFinal` excludes lost replies: an enqueue whose answer is
lost marks the document failed and its next stage runs all the same.
`ChunkGetsIndexed` excludes runs with a fault (the enqueue of a request is best
effort) and documents of which a client deletes a chunk (below).
`NoOrphanedDocument` excludes faults in the status updates at the start of
extraction and in the outcome of a job. `CompactedIsNotIndexed` is about chunks that
were indexed before they were compacted: one without its embedding may be in the
list of an embedding job, which then indexes it although it is compacted. It ends
where an Uncompact of that compaction begins. `CompactedCanBeRestored` allows for a
compaction that has marked its chunks and not written its record, or failed there.
`ActiveGetsIndexed` holds with one poll loop, compactions by job, and chunks of the
compaction's document, because then compaction and embedding never run together;
these are the constants of its run, the program's default is four loops, and
`compact_reembed` shows it fail with a Compact call. `MemoriesAreOwn` excludes what
answers of the LLM make up (`invented`).
`ContentStaysSearchable` ends with the first Uncompact or deletion (`Undisturbed`),
since what Uncompact restores is out of the index until it is embedded, and leaves
out what stands behind a summary that waits for an embedding job (`Later`): whether
that job comes is `ActiveGetsIndexed`. `RevocationHolds` is
about the keys there were when the call began: a rotation that overlaps may insert
one more. `PromptHasLLM` and `ModelIsStable` exclude what the deletion of a
configuration takes from a topic. `Authorized` says "at some moment of the
request": between a query and its use a grant can be revoked, and no code prevents
it. `SearchIsComplete` allows for chunks that were among the first `top_k` and were
deleted before their rows were read. `WalkIsComplete` excludes a walk whose token's
job was deleted: its `created_at` is NULL then, and the walk ends.

More places where the code does less than the docs say were met and have no run of
their own; the comments of the properties name those that limit one.

- Compact and its worker compare neither the status (the call) nor the document of
  the chunks they are given (API_REFERENCE.md:421), and Uncompact then has the
  restored chunks of other documents not embedded (`Reembed`: one job, for the
  record's document, server/compaction.go:193), against API_REFERENCE.md:444.
- The maintenance worker applies an answer to any memory it names
  (memory_maintenance.go:96-98, 118-143), of whatever principal, against
  API_REFERENCE.md:484 ("Only the owning principal can access their own memories.").
- When a client deletes a chunk while an embedding job that has listed it runs, the
  first insert that fails stops the batch and its siblings are never embedded
  (pgvector.go:135, against API_REFERENCE.md:222). Without `ChunksDeleted`,
  `ChunkGetsIndexed` fails for a request of two chunks that come without embeddings.
- CreateLink does not redirect a link to the summary of a compacted chunk
  (API_REFERENCE.md:269).
- A job whose process dies stays running, and its document in processing, for ever
  (ARCHITECTURE.md:175): `UploadSettles` fails with `MaxCrashes = 1`.
- With several poll loops two maintenance jobs of one scope do not see each other's
  memories, so the same fact can be added twice (API_REFERENCE.md:512, 526).

CHECK_DEADLOCK is off in all runs: with bounded inputs and no client calls the
system may come to rest.

Every passing property is also checked against a change of the code that breaks
it: definitions with a suffix (`Claimable_Retry`, `Reembed_Never`, ...) preceded by
"Mutant" are those changes and are used nowhere else.

### Bounds

- `pool`: two poll loops on two replicas, two jobs, one type, one fault, one
  restart. Every race on a claim needs no more: both want the same job, one locks
  what the other would pick, the queue is empty. The proofs cover every number.
- `pipeline`: a document of one uploaded and one ingested chunk, both without an
  embedding, two loops, one fault, one crash; `pipeline_live`: two documents of two
  chunks, one of the request's with an embedding, two faults, deletions of the
  documents and of one chunk of each. Two chunks distinguish a partial insert or
  batch from a complete one; two loops and two embedding jobs of one document give
  every race on a list; documents do not interact except through the queue. Lost
  replies and crashes are in `pipeline`; that `ReadyIsSearchable` holds with them is
  the theorem's.
- `compaction*`: two chunks and two summaries, which allow a summary to be
  compacted again with a chunk; one Uncompact and one fault. `compaction` has one
  document and a link; liveness with two loops or calls fails, as said above.
  `compaction_races` has a document for each chunk and no link. In none of the runs
  does a Compact call bring the summary's embedding (`WithVector` is empty): the
  steps are those of the job. Calls that bring one, links next to calls, and larger
  instances are left to the proofs, which cover them. `Linkable` bounds the ends a
  client gives to a link.
- `configs`: three calls. Two transactions and a third call are needed for a
  cleared flag that is marked again behind a waiting transaction, and for a
  deadlock next to a deletion. `Asked` bounds the bindings that are asked for: one
  field, or one with an LLM.
- `access`: the constraint `Apart` keeps calls on keys and requests apart, to bound
  the product; the proofs do not need it. Two calls, three keys; two requests, two
  topics with different owners, one grant to a group, a chunk each, `top_k` 1, so
  that ranking matters.
- `services`: two loops, two principals, two facts, two memories and three jobs for
  `Memory` (a messages job and what it queues); four jobs, pages of one and two for
  `JobListing`; texts up to 12 bytes, windows up to 5 for `SplitText`; two calls and
  three backends for `Registry`.

### Fairness

Poll loops run on a ticker and never stop on their own; statements return or time
out: weak fairness of each loop's step. In `WorkerPool`, a loop that finds its
context cancelled may still take the ticker's branch of the select (Go picks among
ready cases at random), so leaving the loop gets strong fairness: it is enabled
again and again, and the choice is random. Handlers that have started go on (weak
fairness); in `Compaction` this includes the statements a Compact call and a
compaction job share (`Compacting`), for a job the steps of the loop that is busy
with it. In `Configs` a call that has started goes on, and the database ends one
of two transactions that wait for each other (`deadlock_timeout`): both are the weak
fairness of the call's steps. Clients owe nothing: creation, deletion, Stop,
crashes, rollbacks and faults have no fairness. `Access`, `Keys`, `Memory`,
`JobListing`, `SplitText` and `Registry` have safety properties only.

## 4. Proofs

Every theorem is about `Spec` (or the module's own specification) for every value of
the constants that the module's `ASSUME` admits, and `TLC` evaluates that assumption
in the runs.

`WorkerPoolProofs` (any replicas, loops, types, numbers of jobs, faults, restarts):

- `TypeCorrect`: the type invariant;
- `Exclusive`, `HeldIsRunning`: no job is processed by two goroutines, and the job
  of a goroutine is running or deleted;
- `PoolImplementsQueue`: `Spec => ImplementsQueue`.

The inductive invariant adds to these three facts about the transaction: a
goroutine at `commit` has the lock of its job and nobody else does (`LockInv`), a
locked row is queued (`LockedIsQueued`), rows not yet inserted have status "none"
(`FreshIsNone`). Exclusivity is not inductive without them: it is the lock that
stands between the SELECT and the moment others see "running". The refinement
proof first shows that under exclusivity the CHOOSE in `Holder` names the only
candidate, reads the holders after a step off the program counters
(`HolderAfter`), and then maps: the commit to `Claim`, a commit whose reply is lost
to `ClaimLost`, the outcome to `Finish`, a failed outcome or a death to `Abandon`,
all other steps to stutters.

`PipelineProofs` (any documents, requests, loops, chunks, faults and crashes, every
choice of statements that may fail and of what clients delete):

- `TypeCorrect`: the type invariant, with the ranges of the two chunk counters
  (`TInv`);
- `NeverOrphaned`: `Spec => []NoOrphanedDocument`;
- `DeletedStaysEmpty`: `Spec => []NothingOutlivesItsDocument`;
- `PipelineIsQueue`: `Spec => ImplementsQueue`;
- `OutcomesStay`: `Spec => OutcomeIsFinal`;
- `VectorsBehindIds`: `Spec => []IndexedChunksHaveVectors`;
- `ReadyMeansSearchable`: `Spec => []ReadyIsSearchable`.

All of them rest on `QInv`, the discipline of the jobs. That a job is inserted
once is not visible in the handler that inserts it: `NotYetExtracting` ties the
extraction job to the program counter of UploadDocument, `NotYetChunking` and
`NotYetEmbedding` tie each further job to the stage before it, which is still
queued or held by a loop that has not reached its enqueue; and this needs that a
loop is at a stage of its own type (`InItsProcess`), that its job is not queued
(`HeldIsRunning`) and that no second loop has it (`OneHolder`). The lemmas follow
the kinds of statements: those inside Process that leave the job table alone
(`InsideProcess`), the enqueues, the claim, the end of a job or a crash
(`LettingGo`). `NoOrphanedDocument` is not inductive either: a job whose outcome is
about to be recorded would have to count as attending its document, and then
recording it would drop the document; `Attended` leaves such jobs out and holds
because a loop reaches its last statement only when the document is ready, failed
or deleted, or the next job is queued. `NothingOutlivesItsDocument` is inductive
given `HeldIsRunning`: an outcome is written only to a row that exists, and every
other write depends on the document, on an active chunk or on the content row.

The other three follow what the jobs write. For outcomes, `FInv`: without lost
replies a loop that is about to mark a document failed has not queued the next
stage (`FailFirst`), so the loop that writes an outcome is the last one, and a
document that has one has no queued job and no loop at work on it (`Over`). For
vectors, `VInv`: the chunks a job or a request has yet to insert have no row, so no
row is inserted twice (`FreshPieces`, `FreshItems`), which makes every step go
`Forward` (a deleted chunk stays deleted, a vector goes only with its chunk or with
the first half of its deletion); and what a loop or a request is about to give an id
has been stored, or is being deleted (`StoredFirst`). For ready documents, `RInv`:
there is an embedding job only when every piece of the text has a row (`Split`),
which a chunking loop reaches piece by piece (`Reached`); every chunk to be kept has
an id or is in the list of the loop (`Covered`); and `Forward` keeps all this true of
a loop while clients delete and others write. No document is split twice, since a
split comes while there is no embedding job and the chunking job has one holder.

`CompactionProofs` (any chunks, compactions by job or by call, Uncompact calls,
links, poll loops, faults):

- `TypeCorrect`, `Replaced` (`CompactedIsReplaced`), `StaysSearchable`
  (`ContentStaysSearchable`), `NotIndexed` (`CompactedIsNotIndexed`) and `Restorable`
  (`CompactedCanBeRestored`).

That the pointers of compacted chunks end is a fact about the order in which
summaries come to be, and no field of a row says it: `Layered` (every set of chunks
has one that is a source of no other) is the form of it that one step preserves
without induction over the chunks. `Marked` says that a compacted chunk is a source
of what it points to, `Fresh` and `Named` that sources are older than their summary.
For the index, `CInv` keeps a set K of chunks that have been indexed, are summaries
of running compactions, or are pointed to; each is in the index, waits for an
embedding job, or is a source of a member of K. With `Layered` any part of the
content that were out of the index would have a member that is not a source, hence
is in it. `UInv` is about records: a compaction writes its record last
(`RecordLast`), Uncompact starts from a record and deletes it only when nothing is
compacted into the summary any more (`Emptied`, which a compaction cannot undo: it
is over), and so every compacted chunk has one or is waiting for it (`Recorded`).
`NInv` follows a chunk that was indexed: until an Uncompact takes it (`Taken`), it has
an embedding_id or is compacted, so no embedding job lists it, and a compaction that
is about to mark it has deleted its vector (`LeftAlone`).

`KeysProofs` (any accounts, keys and calls, however they overlap): `TypeCorrect`,
`NoRevival` (`RetiredForGood`), `Revoked` (`RevocationHolds`), `NotLockedOut`
(`NobodyIsLockedOut`). `KInv` says what a call has found stands for: keys a rotation
has retired are active for the others until it commits and locked meanwhile, the
rows of a revocation include the keys there were before it, the rows of a deletion
all keys of the account; and no two calls have locked one key or insert the same.
That nobody is locked out rests on the row of the account, which a rotation locks
with its insert and a deletion needs.

`AccessProofs` extends it. `KeySteps` shows that the steps of `Access` are those of
`Keys` or leave the keys alone, so `KeysHold` carries the three results over to the
system with requests, without the constraint `Apart` of the run.
`AuthorizedAlways` is `Authorized`: what a request has resolved so far is part of
what its caller has had during the request (`RequestOK`), and the grants of a topic
go with the topic (`GrantsOK`). `AccessTypes` is the type invariant.
`NothingIsMissed` is `SearchIsComplete`, for every order of the chunks.
`NearestIsEnough` is its core: a chunk that the index leaves out has TopK nearer ones
among those it returns. `CompleteOK` in `CInv` carries the rest through the queries:
the topic of a chunk in `could` is in `scope` or still to be found by `owned`, then
the chunk is in `found`, and after the index it is in `found` or behind TopK others,
of which the last two queries drop only what was deleted. The order needs
`RankingAssumption`: there are finitely many chunks and `Nearer` is a strict linear
order of them, since ORDER BY puts every two rows in some order, equal distances
included.

`ConfigsProofs` (any configurations, topics and calls): `TypeCorrect`,
`SingleDefault` (`OneDefault`), `DefaultStays` (`DefaultIsKept`), `KeysStay`
(`KeysExist`), `PromptIsRun` (`PromptHasLLM`), `OneModel` (`ModelIsStable`). For the
first three `TxInv`: when a transaction commits, no other row of its kind is flagged
(`FlagFree`), since the one it has cleared is locked and the index entry keeps every
second transaction from its commit. For topics `UpdateOK`: what UpdateTopic has
checked still holds of the row it writes, unless a configuration was deleted
meanwhile, because no other update makes those columns NULL or changes the model.

`MemoryProofs` (any principals, scopes, facts, loops, calls): `TypeCorrect`, `Own`
(`MemoriesAreOwn`), `Extracted` (`MessagesAreExtracted`). `MInv` follows what a loop
has read (`Busy`): the facts it has in hand were said by the home of its job, and what
it is to write after an answer is known (`Known`: said or made up) to the home of the
memory named, whatever the LLM decides (`AnswerIsKnown`); and the facts of a messages job
that are not left have a job already (`QueuedBut`). `MemoryIsQueue` is
`MemorySpec => Queue!Spec`: the memory jobs implement `JobQueue` with the mapping
`Holder`, where `OneWorker` (a loop has a job unless it polls, the job is running, no
second loop has it) gives each job its holder. A job that queues others is no
exception: CreateDocless takes a row that no job has had.

`ServicesProofs` has the small machines of `MCServices`, and extends `MemoryProofs`
to show with `TypesStay` that all four keep their types:

- `Covered` (`TextIsCovered`): the windows of `SplitText` cover the text with the
  overlap and end, for every length and all parameters, negative ones too. The
  invariant is the loop's (`Cutting`): the next window starts `overlap` bytes before
  the end of a whole one.
- `OneBackend` (`OneInstance`): inductive once it is known that a goroutine that has
  missed knows what it asks for (`RInv`). While nothing is cached nobody has been
  given an instance (`NothingReturned`), and `Create` looks again under the write
  lock, so whatever it makes is the first.
- `OneTopicIsComplete` and `WalksAreComplete` (`WalkIsComplete`): in a walk over one
  topic or one document no page leaves a gap. `LInv` ties the rows given so far to
  the token (`Walked`): they are newest first, the token is the last, and what has
  matched all the time was given or is older than it. `Ranks` says that jobs counted
  by how many are newer take every rank once, which makes a page as long as the code
  says. The second theorem assumes that scopes have one list (`OneTopic` in
  `Services.cfg`), the first says it of the state. Over two topics the statement is
  false, which is what the run `listing_topics` shows.

`FlattenSeq` is defined by recursion on the list of lists. What it returns for lists
of any length is proved without the induction theorems that take an operator:
`SetInduction` derives from `WFMin` and `NatLessThanWellFounded` that a set of
naturals with 0 and with every successor is `Nat`, and the lemma about `FlattenSeq`
(`FlattenTyped`) applies it to the set of lengths for which the statement holds.

Only model-checked: liveness (`EveryJobIsTaken`, `EveryJobEnds`, `StopEnds`,
`UploadSettles`, `ChunkGetsIndexed`, `ActiveGetsIndexed`, `EveryCallEnds`), for which
TLAPS has no rules here, and the violated runs. Every other property of the passing
runs, safety or of a step, is a theorem.

## 5. Not modelled

- Reads without effect (Get and List calls, histories, statistics, health checks),
  except those that a write or another read depends on.
- Texts: ranking and distances, prompts, the parsing of answers, names, slugs,
  metadata, the formats of files. Where a decision depends on one, it is a choice.
- Logging, configuration files, encryption, the fetcher, migrations, connection
  pools: stateless, or I/O.
- `gen/`, the code generated from `proto/`: more than half of the lines of
  the repository's Go code without its tests. It marshals messages and has no state of its own.
- Clients: the command line, the chat, the MCP servers, the SDKs, the dashboard.
  They call the API one request after the other and keep nothing that another
  component reads.

Per component the reason is in `PROJECT.json`. What is left of the counted lines
after generated code and clients is handlers and stores, a large part of which is
validation, conversion of rows to messages and error texts; the models stand for
their statements, so the share of all lines they map stays low even where every
operation of a component that changes state is an action.

## 6. Plan

1. `JobListing` with equal timestamps, `UpdateDocument`, `DeleteLink`,
   RequestCompaction as the insertion of a job.
2. Several processes in `Pipeline`, each with its own crash.
