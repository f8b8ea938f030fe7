------------------------------- MODULE Memory -------------------------------
(***************************************************************************)
(* The memories of principals, in scopes.  Clients add facts directly      *)
(* (AddMemory) or as messages that an LLM extracts facts from              *)
(* (AddMessages); both only queue a job.  A memory_messages job queues one *)
(* memory_maintenance job per fact.  That one lists the active memories of *)
(* its scope, asks the LLM what to do with the fact, and does it: in       *)
(* queries of their own, with no transaction and no lock around them,      *)
(* while the other poll loops and the clients work on the same memories.   *)
(*                                                                         *)
(* A fact is what a memory's text says.  The LLM may answer anything: the   *)
(* worker writes whatever text it gives to whatever memory it names.       *)
(***************************************************************************)
EXTENDS Naturals, FiniteSets

CONSTANTS
    Principal, Scope, Fact,
    Memory,     \* bound: rows of memories
    Job,        \* bound: rows of processing_jobs
    Worker,     \* poll loops
    Call,       \* bound: calls of UpdateMemory and DeleteMemory
    MaxFaults,  \* bound: statements and calls of the LLM that fail
    None

ASSUME MemoryAssumption ==
    /\ MaxFaults \in Nat
    /\ None \notin Principal \union Memory \union Job \union Worker

VARIABLES
    memory,   \* "none" before INSERT, "active", "invalidated"
    home,     \* principal and scope of a memory
    content,  \* the facts its text states
    job,      \* status of a job
    task,     \* its progress column
    cur,      \* the job of a loop
    pc,       \* where the loop is
    left,     \* facts it has still to queue, or is to store
    shown,    \* memories it has shown to the LLM
    seen,     \* what they stated
    target,   \* the memory it is to change
    call,     \* a call of UpdateMemory or DeleteMemory
    faults,
    \* history
    said,     \* facts given by a principal for a scope
    invented  \* facts LLM answers gave for a principal's scope, that the job had not shown it from there

store == <<memory, home, content>>
queue == <<job, task>>
loops == <<cur, pc, left, shown, seen, target>>
memoryVars  == <<store, queue, loops, call, faults, said, invented>>

Home   == Principal \X Scope
NoTask == [kind |-> "none", home |-> <<None, None>>, facts |-> {}, from |-> None]
NoCall == [at |-> "idle", principal |-> None, memory |-> None, facts |-> {}]

MemoryTypeOK ==
    /\ memory \in [Memory -> {"none", "active", "invalidated"}]
    /\ home \in [Memory -> Home \union {<<None, None>>}]
    /\ content \in [Memory -> SUBSET Fact]
    /\ job \in [Job -> {"none", "queued", "running", "completed", "failed"}]
    /\ task \in [Job -> [kind : {"none", "messages", "maintenance"},
                         home : Home \union {<<None, None>>},
                         facts : SUBSET Fact, from : Job \union {None}]]
    /\ cur \in [Worker -> Job \union {None}]
    /\ pc \in [Worker -> {"poll", "extract", "queue", "list", "decide",
                          "add", "update", "delete", "completed", "failed"}]
    /\ left \in [Worker -> SUBSET Fact] /\ shown \in [Worker -> SUBSET Memory]
    /\ seen \in [Worker -> [Memory -> SUBSET Fact]]
    /\ target \in [Worker -> Memory \union {None}]
    /\ call \in [Call -> [at : {"idle", "update", "delete", "done", "error"},
                          principal : Principal \union {None},
                          memory : Memory \union {None}, facts : SUBSET Fact]]
    /\ faults \in 0..MaxFaults
    /\ said \in [Home -> SUBSET Fact] /\ invented \in [Home -> SUBSET Fact]

MemoryInit ==
    /\ memory = [m \in Memory |-> "none"]
    /\ home = [m \in Memory |-> <<None, None>>] /\ content = [m \in Memory |-> {}]
    /\ job = [j \in Job |-> "none"] /\ task = [j \in Job |-> NoTask]
    /\ cur = [w \in Worker |-> None] /\ pc = [w \in Worker |-> "poll"]
    /\ left = [w \in Worker |-> {}] /\ shown = [w \in Worker |-> {}]
    /\ seen = [w \in Worker |-> [m \in Memory |-> {}]]
    /\ target = [w \in Worker |-> None]
    /\ call = [q \in Call |-> NoCall]
    /\ faults = 0
    /\ said = [h \in Home |-> {}] /\ invented = [h \in Home |-> {}]
-----------------------------------------------------------------------------
(* MemoryServer.                                                           *)

\* CreateDocless.
Queued(j, t) ==
    /\ job[j] = "none"
    /\ job' = [job EXCEPT ![j] = "queued"]
    /\ task' = [task EXCEPT ![j] = t]

Says(h, F) == said' = [said EXCEPT ![h] = @ \union F]

AddMemory(h, f, j) ==
    /\ Queued(j, [kind |-> "maintenance", home |-> h, facts |-> {f}, from |-> None])
    /\ Says(h, {f})
    /\ UNCHANGED <<store, loops, call, faults, invented>>

\* Messages that state nothing are accepted as well.
AddMessages(h, F, j) ==
    /\ Queued(j, [kind |-> "messages", home |-> h, facts |-> F, from |-> None])
    /\ Says(h, F)
    /\ UNCHANGED <<store, loops, call, faults, invented>>

\* Mutant: a memory that exists is anybody's to change.
IsOwner_Anyone(p, m) == memory[m] # "none"
IsOwner(p, m) == memory[m] # "none" /\ home[m][1] = p

\* An update without content keeps the one that Get returns.
UpdateMemory(q, p, m, F) ==
    /\ call[q].at = "idle"
    /\ call' = [call EXCEPT ![q] =
                  [at |-> IF IsOwner(p, m) THEN "update" ELSE "error", principal |-> p,
                   memory |-> m, facts |-> IF F = {} THEN content[m] ELSE F]]
    /\ IF IsOwner(p, m) THEN Says(<<p, home[m][2]>>, F) ELSE UNCHANGED said
    /\ UNCHANGED <<store, queue, loops, faults, invented>>

DeleteMemory(q, p, m) ==
    /\ call[q].at = "idle"
    /\ call' = [call EXCEPT ![q] = [at |-> IF IsOwner(p, m) THEN "delete" ELSE "error",
                                    principal |-> p, memory |-> m, facts |-> {}]]
    /\ UNCHANGED <<store, queue, loops, faults, said, invented>>

Update(m, F)  == content' = [content EXCEPT ![m] = F] /\ UNCHANGED <<memory, home>>
Invalidate(m) == memory' = [memory EXCEPT ![m] = "invalidated"] /\ UNCHANGED <<home, content>>

Write(q) ==
    /\ \/ call[q].at = "update" /\ Update(call[q].memory, call[q].facts)
       \/ call[q].at = "delete" /\ Invalidate(call[q].memory)
    /\ call' = [call EXCEPT ![q].at = "done"]
    /\ UNCHANGED <<queue, loops, faults, said, invented>>

WriteFails(q) ==
    /\ call[q].at \in {"update", "delete"} /\ faults < MaxFaults
    /\ call' = [call EXCEPT ![q].at = "error"]
    /\ faults' = faults + 1
    /\ UNCHANGED <<store, queue, loops, said, invented>>
-----------------------------------------------------------------------------
(* The poll loops and the two workers.                                     *)

Task(w)    == task[cur[w]]
Goto(w, l) == pc' = [pc EXCEPT ![w] = l]

Claim(w, j) ==
    /\ pc[w] = "poll" /\ job[j] = "queued"
    /\ job' = [job EXCEPT ![j] = "running"]
    /\ cur' = [cur EXCEPT ![w] = j]
    /\ Goto(w, IF task[j].kind = "messages" THEN "extract" ELSE "list")
    /\ UNCHANGED <<store, task, left, shown, seen, target, call, faults, said, invented>>

Extract(w) ==
    /\ pc[w] = "extract"
    /\ left' = [left EXCEPT ![w] = Task(w).facts]
    /\ Goto(w, "queue")
    /\ UNCHANGED <<store, queue, cur, shown, seen, target, call, faults, said, invented>>

QueueFact(w, f, j) ==
    /\ pc[w] = "queue" /\ f \in left[w]
    /\ Queued(j, [kind |-> "maintenance", home |-> Task(w).home, facts |-> {f}, from |-> cur[w]])
    /\ left' = [left EXCEPT ![w] = @ \ {f}]
    /\ UNCHANGED <<store, cur, pc, shown, seen, target, call, faults, said, invented>>

AllQueued(w) ==
    /\ pc[w] = "queue" /\ left[w] = {}
    /\ Goto(w, "completed")
    /\ UNCHANGED <<store, queue, cur, left, shown, seen, target, call, faults, said, invented>>

GetByScope(h) == {m \in Memory : memory[m] = "active" /\ home[m] = h}

List(w) ==
    /\ pc[w] = "list"
    /\ shown' = [shown EXCEPT ![w] = GetByScope(Task(w).home)]
    /\ seen' = [seen EXCEPT ![w] = [m \in Memory |-> IF m \in GetByScope(Task(w).home) THEN content[m] ELSE {}]]
    /\ left' = [left EXCEPT ![w] = Task(w).facts]
    /\ Goto(w, "decide")
    /\ UNCHANGED <<store, queue, cur, target, call, faults, said, invented>>

\* What a text for m can have been made of: the fact and the memories of m's home shown.
Mergeable(w, m) ==
    IF home[m] = Task(w).home THEN left[w] \union UNION {seen[w][x] : x \in shown[w]} ELSE {}

\* Neither the memory of the answer nor its text is compared with what was shown.
\* An action or a memory that does not exist is an error.
Decide(w) ==
    /\ pc[w] = "decide"
    /\ \/ \E l \in {"completed", "add", "failed"} : Goto(w, l) /\ UNCHANGED <<left, target, invented>>
       \/ \E m \in Memory :
             /\ memory[m] # "none"
             /\ target' = [target EXCEPT ![w] = m]
             /\ \/ Goto(w, "delete") /\ UNCHANGED <<left, invented>>
                \/ \E F \in SUBSET Fact \ {{}} :
                      /\ Goto(w, "update") /\ left' = [left EXCEPT ![w] = F]
                      /\ invented' = [invented EXCEPT ![home[m]] = @ \union (F \ Mergeable(w, m))]
    /\ UNCHANGED <<store, queue, cur, shown, seen, call, faults, said>>

Add(w, m) ==
    /\ pc[w] = "add" /\ memory[m] = "none"
    /\ memory' = [memory EXCEPT ![m] = "active"]
    /\ home' = [home EXCEPT ![m] = Task(w).home]
    /\ content' = [content EXCEPT ![m] = Task(w).facts]
    /\ Goto(w, "completed")
    /\ UNCHANGED <<queue, cur, left, shown, seen, target, call, faults, said, invented>>

\* The Get before the Update only fetches the metadata, which are left out.
Change(w) ==
    /\ \/ pc[w] = "update" /\ Update(target[w], left[w])
       \/ pc[w] = "delete" /\ Invalidate(target[w])
    /\ Goto(w, "completed")
    /\ UNCHANGED <<queue, cur, left, shown, seen, target, call, faults, said, invented>>

\* Mutant: an insert that fails is logged and the next fact is tried.
AfterFailure_Continue(w) == IF pc[w] = "queue" THEN "completed" ELSE "failed"
AfterFailure(w) == "failed"

\* A statement fails, or the call of the LLM.
StepFails(w) ==
    /\ pc[w] \notin {"poll", "completed", "failed"} /\ faults < MaxFaults
    /\ Goto(w, AfterFailure(w))
    /\ faults' = faults + 1
    /\ UNCHANGED <<store, queue, cur, left, shown, seen, target, call, said, invented>>

RecordOutcome(w) ==
    /\ pc[w] \in {"completed", "failed"}
    /\ job' = [job EXCEPT ![cur[w]] = pc[w]]
    /\ cur' = [cur EXCEPT ![w] = None] /\ Goto(w, "poll")
    /\ left' = [left EXCEPT ![w] = {}] /\ shown' = [shown EXCEPT ![w] = {}]
    /\ seen' = [seen EXCEPT ![w] = [m \in Memory |-> {}]]
    /\ target' = [target EXCEPT ![w] = None]
    /\ UNCHANGED <<store, task, call, faults, said, invented>>

Process(w) ==
    \/ \E j \in Job : Claim(w, j) \/ \E f \in Fact : QueueFact(w, f, j)
    \/ Extract(w) \/ AllQueued(w) \/ List(w) \/ Decide(w) \/ Change(w)
    \/ \E m \in Memory : Add(w, m)
    \/ StepFails(w) \/ RecordOutcome(w)

Request ==
    \/ \E h \in Home, j \in Job :
          (\E f \in Fact : AddMemory(h, f, j)) \/ (\E F \in SUBSET Fact : AddMessages(h, F, j))
    \/ \E q \in Call :
          \/ Write(q) \/ WriteFails(q)
          \/ \E p \in Principal, m \in Memory :
                memory[m] # "none" /\ (DeleteMemory(q, p, m) \/ \E F \in SUBSET Fact : UpdateMemory(q, p, m, F))

MemoryNext == Request \/ \E w \in Worker : Process(w)

MemorySpec == MemoryInit /\ [][MemoryNext]_memoryVars
-----------------------------------------------------------------------------
(* Properties.                                                             *)

\* A memory states only what its principal has said in its scope, or what an answer
\* of the LLM made up for a memory there: listing, merging, updating and deleting,
\* however jobs and calls overlap, move nothing between principals, or between
\* scopes of one.  The LLM itself can: the worker looks neither at whose the
\* memory_id of an answer is (against API_REFERENCE.md:484: "Only the owning
\* principal can access their own memories.") nor at where its text comes from.
MemoriesAreOwn ==
    \A m \in Memory : memory[m] # "none" => content[m] \subseteq said[home[m]] \union invented[home[m]]

\* API_REFERENCE.md:512: when a memory_messages job has completed, each fact has
\* a job; a failed one may have left some behind.
MessagesAreExtracted ==
    \A j \in Job : job[j] = "completed" /\ task[j].kind = "messages" =>
        \A f \in task[j].facts :
            \E k \in Job : /\ job[k] # "none"
                           /\ task[k] = [kind |-> "maintenance", home |-> task[j].home,
                                         facts |-> {f}, from |-> j]
=============================================================================
