---------------------------- MODULE MemoryProofs ----------------------------
(***************************************************************************)
(* What memories state stays with their principal and scope, but for what  *)
(* the LLM makes up, and messages jobs queue what they extract, for any    *)
(* number of principals, scopes, facts, poll loops and calls.              *)
(***************************************************************************)
EXTENDS Memory, TLAPS

\* The facts of a messages job but those in F have a job.
QueuedBut(j, F) ==
    \A f \in task[j].facts \ F :
        \E k \in Job : /\ job[k] # "none"
                       /\ task[k] = [kind |-> "maintenance", home |-> task[j].home,
                                     facts |-> {f}, from |-> j]

\* What a memory of h may state.
Known(h) == said[h] \union invented[h]

RowOK(m) ==
    memory[m] # "none" => home[m] \in Home /\ content[m] \subseteq Known(home[m])

TaskOK(j) ==
    job[j] # "none" =>
        /\ task[j].kind \in {"messages", "maintenance"}
        /\ task[j].home \in Home /\ task[j].facts \subseteq said[task[j].home]

\* What a loop has read and has queued belongs to its job, what it is to write to the
\* memory that the answer named.
Idle(w) ==
    left[w] = {} /\ shown[w] = {} /\ \A m \in Memory : seen[w][m] = {}

Busy(w) ==
    /\ cur[w] \in Job /\ job[cur[w]] # "none"
    /\ pc[w] \in {"queue", "decide"} => left[w] \subseteq said[Task(w).home]
    /\ \A m \in Memory : seen[w][m] \subseteq Known(Task(w).home)
    /\ pc[w] \in {"update", "delete"} => target[w] \in Memory /\ memory[target[w]] # "none"
    /\ pc[w] = "update" => left[w] \subseteq Known(home[target[w]])
    /\ pc[w] \in {"list", "decide", "add", "update", "delete"} => Task(w).kind = "maintenance"
    /\ pc[w] = "queue" => QueuedBut(cur[w], left[w])
    /\ pc[w] = "completed" /\ Task(w).kind = "messages" => QueuedBut(cur[w], {})

LoopOK(w) == IF pc[w] = "poll" THEN Idle(w) ELSE Busy(w)

CallOK(q) ==
    call[q].at \in {"update", "delete"} =>
        /\ call[q].memory \in Memory /\ memory[call[q].memory] # "none"
        /\ call[q].at = "update" => call[q].facts \subseteq Known(home[call[q].memory])

Completed(j) == job[j] = "completed" /\ task[j].kind = "messages" => QueuedBut(j, {})

MInv ==
    /\ MemoryTypeOK
    /\ \A m \in Memory : RowOK(m)
    /\ \A j \in Job : TaskOK(j) /\ Completed(j)
    /\ \A w \in Worker : LoopOK(w)
    /\ \A q \in Call : CallOK(q)

\* Rows, jobs and what was said are never taken back.
Grows ==
    /\ \A m \in Memory : memory[m] # "none" => memory'[m] # "none" /\ home'[m] = home[m]
    /\ \A j \in Job : job[j] # "none" => job'[j] # "none" /\ task'[j] = task[j]
    /\ \A h \in Home : said[h] \subseteq said'[h] /\ Known(h) \subseteq Known(h)'
-----------------------------------------------------------------------------
LEMMA StartsTyped == MemoryInit => MemoryTypeOK
BY MemoryAssumption DEF MemoryInit, MemoryTypeOK, NoTask, NoCall

\* The only change of a call once it has begun.
LEMMA AtChanges ==
    ASSUME NEW A, NEW P, NEW M, NEW F, NEW a \in A, NEW C, NEW q \in C,
           NEW c \in [C -> [at : A, principal : P, memory : M, facts : F]]
    PROVE  [c EXCEPT ![q].at = a] \in [C -> [at : A, principal : P, memory : M, facts : F]]
OBVIOUS

LEMMA RequestsKeepTypes == MemoryTypeOK /\ Request => MemoryTypeOK'
<1> SUFFICES ASSUME MemoryTypeOK, Request PROVE MemoryTypeOK'
  OBVIOUS
<1>1. ASSUME NEW h \in Home, NEW j \in Job, NEW f \in Fact, AddMemory(h, f, j)
      PROVE  MemoryTypeOK'
  <2>1. [kind |-> "maintenance", home |-> h, facts |-> {f}, from |-> None]
          \in [kind : {"none", "messages", "maintenance"}, home : Home \union {<<None, None>>},
               facts : SUBSET Fact, from : Job \union {None}]
    OBVIOUS
  <2> QED BY <1>1, <2>1 DEF AddMemory, Queued, Says, MemoryTypeOK, store, loops
<1>2. ASSUME NEW h \in Home, NEW j \in Job, NEW F \in SUBSET Fact, AddMessages(h, F, j)
      PROVE  MemoryTypeOK'
  <2>1. [kind |-> "messages", home |-> h, facts |-> F, from |-> None]
          \in [kind : {"none", "messages", "maintenance"}, home : Home \union {<<None, None>>},
               facts : SUBSET Fact, from : Job \union {None}]
    OBVIOUS
  <2> QED BY <1>2, <2>1 DEF AddMessages, Queued, Says, MemoryTypeOK, store, loops
<1>3. ASSUME NEW q \in Call, NEW p \in Principal, NEW m \in Memory, NEW F \in SUBSET Fact,
             UpdateMemory(q, p, m, F)
      PROVE  MemoryTypeOK'
  <2>1. said' \in [Home -> SUBSET Fact]
    <3>1. CASE IsOwner(p, m)
      <4>1. said' = [said EXCEPT ![<<p, home[m][2]>>] = @ \union F]
        BY <1>3, <3>1 DEF UpdateMemory, Says
      <4>2. \A h \in Home : said[h] \union F \in SUBSET Fact
        BY DEF MemoryTypeOK
      <4> QED BY <4>1, <4>2 DEF MemoryTypeOK
    <3>2. CASE ~IsOwner(p, m)
      BY <1>3, <3>2 DEF UpdateMemory, MemoryTypeOK
    <3> QED BY <3>1, <3>2
  <2>2. content[m] \in SUBSET Fact
    BY DEF MemoryTypeOK
  <2>3. [at |-> IF IsOwner(p, m) THEN "update" ELSE "error", principal |-> p,
         memory |-> m, facts |-> IF F = {} THEN content[m] ELSE F]
          \in [at : {"idle", "update", "delete", "done", "error"}, principal : Principal \union {None},
               memory : Memory \union {None}, facts : SUBSET Fact]
    BY <2>2
  <2>4. call' \in [Call -> [at : {"idle", "update", "delete", "done", "error"},
                            principal : Principal \union {None},
                            memory : Memory \union {None}, facts : SUBSET Fact]]
    BY <1>3, <2>3 DEF UpdateMemory, MemoryTypeOK
  <2> QED BY <1>3, <2>1, <2>4 DEF UpdateMemory, MemoryTypeOK, store, queue, loops
<1>4. ASSUME NEW q \in Call, NEW p \in Principal, NEW m \in Memory, DeleteMemory(q, p, m)
      PROVE  MemoryTypeOK'
  <2>1. [at |-> IF IsOwner(p, m) THEN "delete" ELSE "error", principal |-> p, memory |-> m, facts |-> {}]
          \in [at : {"idle", "update", "delete", "done", "error"}, principal : Principal \union {None},
               memory : Memory \union {None}, facts : SUBSET Fact]
    OBVIOUS
  <2> QED BY <1>4, <2>1 DEF DeleteMemory, MemoryTypeOK, store, queue, loops
<1>5. ASSUME NEW q \in Call, Write(q)
      PROVE  MemoryTypeOK'
  <2>1. call[q].facts \in SUBSET Fact
    BY DEF MemoryTypeOK
  <2>2. call' \in [Call -> [at : {"idle", "update", "delete", "done", "error"},
                            principal : Principal \union {None},
                            memory : Memory \union {None}, facts : SUBSET Fact]]
    <3>1. call' = [call EXCEPT ![q].at = "done"]
      BY <1>5 DEF Write
    <3> QED BY <3>1, AtChanges DEF MemoryTypeOK
  <2>3. /\ memory' \in [Memory -> {"none", "active", "invalidated"}]
        /\ content' \in [Memory -> SUBSET Fact] /\ home' = home
    BY <1>5, <2>1 DEF Write, Update, Invalidate, MemoryTypeOK
  <2> QED BY <1>5, <2>2, <2>3 DEF Write, MemoryTypeOK, queue, loops
<1>6. ASSUME NEW q \in Call, WriteFails(q)
      PROVE  MemoryTypeOK'
  <2>1. call' \in [Call -> [at : {"idle", "update", "delete", "done", "error"},
                            principal : Principal \union {None},
                            memory : Memory \union {None}, facts : SUBSET Fact]]
    <3>1. call' = [call EXCEPT ![q].at = "error"]
      BY <1>6 DEF WriteFails
    <3> QED BY <3>1, AtChanges DEF MemoryTypeOK
  <2>2. faults' \in 0..MaxFaults
    BY <1>6, MemoryAssumption DEF WriteFails, MemoryTypeOK
  <2> QED BY <1>6, <2>1, <2>2 DEF WriteFails, MemoryTypeOK, store, queue, loops
<1> QED BY <1>1, <1>2, <1>3, <1>4, <1>5, <1>6 DEF Request

\* Where a loop is working, it has a job.
LEMMA BusyLoop ==
    ASSUME MInv, NEW w \in Worker, pc[w] # "poll"
    PROVE  /\ Busy(w) /\ cur[w] \in Job /\ Task(w) = task[cur[w]]
           /\ Task(w).home \in Home /\ Task(w).facts \in SUBSET Fact
           /\ Task(w).facts \subseteq said[Task(w).home]
           /\ Task(w).kind \in {"messages", "maintenance"}
<1>1. Busy(w)
  BY DEF MInv, LoopOK
<1>2. cur[w] \in Job /\ Task(w) = task[cur[w]] /\ TaskOK(cur[w]) /\ job[cur[w]] # "none"
  BY <1>1 DEF MInv, Busy, Task
<1>3. task[cur[w]].facts \in SUBSET Fact
  BY <1>2 DEF MInv, MemoryTypeOK
<1>4. /\ task[cur[w]].kind \in {"messages", "maintenance"}
      /\ task[cur[w]].home \in Home /\ task[cur[w]].facts \subseteq said[task[cur[w]].home]
  BY <1>2 DEF TaskOK
<1> QED BY <1>1, <1>2, <1>3, <1>4

LEMMA LoopsKeepTypes ==
    ASSUME MInv, NEW w \in Worker, Process(w)
    PROVE  MemoryTypeOK'
<1>t. MemoryTypeOK
  BY DEF MInv
<1>1. ASSUME NEW j \in Job, Claim(w, j) PROVE MemoryTypeOK'
  BY <1>t, <1>1 DEF Claim, Goto, MemoryTypeOK, store
<1>2. ASSUME NEW j \in Job, NEW f \in Fact, QueueFact(w, f, j) PROVE MemoryTypeOK'
  <2>1. cur[w] \in Job /\ Task(w).home \in Home
    BY <1>2, BusyLoop DEF QueueFact
  <2>2. [kind |-> "maintenance", home |-> Task(w).home, facts |-> {f}, from |-> cur[w]]
          \in [kind : {"none", "messages", "maintenance"}, home : Home \union {<<None, None>>},
               facts : SUBSET Fact, from : Job \union {None}]
    BY <2>1
  <2>3. /\ task' = [task EXCEPT ![j] = [kind |-> "maintenance", home |-> Task(w).home,
                                        facts |-> {f}, from |-> cur[w]]]
        /\ job' = [job EXCEPT ![j] = "queued"] /\ left' = [left EXCEPT ![w] = @ \ {f}]
        /\ UNCHANGED <<memory, home, content, cur, pc, shown, seen, target, call, faults, said, invented>>
    BY <1>2 DEF QueueFact, Queued, store
  <2>4. left' \in [Worker -> SUBSET Fact]
    <3>1. left[w] \ {f} \in SUBSET Fact
      BY <1>t DEF MemoryTypeOK
    <3> QED BY <1>t, <2>3, <3>1 DEF MemoryTypeOK
  <2>5. task' \in [Job -> [kind : {"none", "messages", "maintenance"}, home : Home \union {<<None, None>>},
                           facts : SUBSET Fact, from : Job \union {None}]]
    BY <1>t, <2>2, <2>3 DEF MemoryTypeOK
  <2> QED BY <1>t, <2>3, <2>4, <2>5 DEF MemoryTypeOK
<1>3. ASSUME Extract(w) PROVE MemoryTypeOK'
  <2>1. Task(w).facts \in SUBSET Fact
    BY <1>3, BusyLoop DEF Extract
  <2> QED BY <1>t, <1>3, <2>1 DEF Extract, Goto, MemoryTypeOK, store, queue
<1>4. ASSUME AllQueued(w) PROVE MemoryTypeOK'
  BY <1>t, <1>4 DEF AllQueued, Goto, MemoryTypeOK, store, queue
<1>5. ASSUME List(w) PROVE MemoryTypeOK'
  <2>1. Task(w).facts \in SUBSET Fact /\ GetByScope(Task(w).home) \in SUBSET Memory
    BY <1>5, BusyLoop DEF List, GetByScope
  <2>2. [m \in Memory |-> IF m \in GetByScope(Task(w).home) THEN content[m] ELSE {}]
          \in [Memory -> SUBSET Fact]
    BY <1>t DEF MemoryTypeOK
  <2> QED BY <1>t, <1>5, <2>1, <2>2 DEF List, Goto, MemoryTypeOK, store, queue
<1>6. ASSUME Decide(w) PROVE MemoryTypeOK'
  <2>1. UNCHANGED <<memory, home, content, job, task, cur, shown, seen, call, faults, said>>
    BY <1>6 DEF Decide, store, queue
  <2>2. target' \in [Worker -> Memory \union {None}] /\ left' \in [Worker -> SUBSET Fact]
    BY <1>t, <1>6 DEF Decide, MemoryTypeOK
  <2>3. pc' \in [Worker -> {"poll", "extract", "queue", "list", "decide",
                           "add", "update", "delete", "completed", "failed"}]
    <3>1. \E l \in {"completed", "add", "delete", "update", "failed"} : pc' = [pc EXCEPT ![w] = l]
      BY <1>6 DEF Decide, Goto
    <3> QED BY <1>t, <3>1 DEF MemoryTypeOK
  <2>4. invented' \in [Home -> SUBSET Fact]
    <3>1. \/ invented' = invented
          \/ \E m \in Memory : \E F \in SUBSET Fact :
                invented' = [invented EXCEPT ![home[m]] = @ \union (F \ Mergeable(w, m))]
      BY <1>6 DEF Decide
    <3>2. ASSUME NEW m \in Memory, NEW F \in SUBSET Fact,
                 invented' = [invented EXCEPT ![home[m]] = @ \union (F \ Mergeable(w, m))]
          PROVE  invented' \in [Home -> SUBSET Fact]
      <4> DEFINE M == Mergeable(w, m)
      <4> HIDE DEF M
      <4>1. invented' = [invented EXCEPT ![home[m]] = @ \union (F \ M)]
        BY <3>2 DEF M
      <4>2. \A h \in Home : invented[h] \union (F \ M) \in SUBSET Fact
        BY <1>t DEF MemoryTypeOK
      <4> QED BY <1>t, <4>1, <4>2 DEF MemoryTypeOK
    <3> QED BY <1>t, <3>1, <3>2 DEF MemoryTypeOK
  <2> QED BY <1>t, <2>1, <2>2, <2>3, <2>4 DEF MemoryTypeOK
<1>7. ASSUME Change(w) PROVE MemoryTypeOK'
  <2>1. left[w] \in SUBSET Fact
    BY <1>t DEF MemoryTypeOK
  <2>2. /\ memory' \in [Memory -> {"none", "active", "invalidated"}]
        /\ content' \in [Memory -> SUBSET Fact] /\ home' = home
    BY <1>t, <1>7, <2>1 DEF Change, Update, Invalidate, MemoryTypeOK
  <2> QED BY <1>t, <1>7, <2>2 DEF Change, Goto, MemoryTypeOK, queue
<1>8. ASSUME NEW m \in Memory, Add(w, m) PROVE MemoryTypeOK'
  <2>1. Task(w).facts \in SUBSET Fact /\ Task(w).home \in Home
    BY <1>8, BusyLoop DEF Add
  <2> QED BY <1>t, <1>8, <2>1 DEF Add, Goto, MemoryTypeOK, queue
<1>9. ASSUME StepFails(w) PROVE MemoryTypeOK'
  BY <1>t, <1>9, MemoryAssumption DEF StepFails, AfterFailure, Goto, MemoryTypeOK, store, queue
<1>10. ASSUME RecordOutcome(w) PROVE MemoryTypeOK'
  <2>1. /\ job' \in [Job -> {"none", "queued", "running", "completed", "failed"}]
        /\ seen' \in [Worker -> [Memory -> SUBSET Fact]]
    BY <1>t, <1>10 DEF RecordOutcome, MemoryTypeOK
  <2> QED BY <1>t, <1>10, <2>1 DEF RecordOutcome, Goto, MemoryTypeOK, store
<1> QED
  BY <1>1, <1>2, <1>3, <1>4, <1>5, <1>6, <1>7, <1>8, <1>9, <1>10 DEF Process

LEMMA NextKeepsTypes == MInv /\ MemoryNext => MemoryTypeOK'
BY RequestsKeepTypes, LoopsKeepTypes DEF MemoryNext, MInv
-----------------------------------------------------------------------------
(* Nothing is taken back.                                                  *)

LEMMA QueuedGrows ==
    ASSUME MemoryTypeOK, NEW j \in Job, NEW t, Queued(j, t)
    PROVE  \A k \in Job : job[k] # "none" => job'[k] # "none" /\ task'[k] = task[k]
BY DEF Queued, MemoryTypeOK

LEMMA SaysGrows ==
    ASSUME MemoryTypeOK, NEW H, NEW F, Says(H, F), UNCHANGED invented
    PROVE  \A h \in Home : said[h] \subseteq said'[h] /\ Known(h) \subseteq Known(h)'
<1>1. \A h \in Home : said[h] \subseteq said'[h]
  BY DEF Says, MemoryTypeOK
<1> QED BY <1>1 DEF Known

LEMMA InvalidateGrows ==
    ASSUME MemoryTypeOK, NEW x, Invalidate(x)
    PROVE  \A m \in Memory : memory[m] # "none" => memory'[m] # "none" /\ home'[m] = home[m]
BY DEF Invalidate, MemoryTypeOK

LEMMA RequestGrows == MemoryTypeOK /\ Request => Grows
<1> SUFFICES ASSUME MemoryTypeOK, Request PROVE Grows
  OBVIOUS
<1>1. ASSUME NEW h \in Home, NEW j \in Job, NEW f \in Fact, AddMemory(h, f, j) PROVE Grows
  BY <1>1, QueuedGrows, SaysGrows DEF AddMemory, Grows, store
<1>2. ASSUME NEW h \in Home, NEW j \in Job, NEW F \in SUBSET Fact, AddMessages(h, F, j) PROVE Grows
  BY <1>2, QueuedGrows, SaysGrows DEF AddMessages, Grows, store
<1>3. ASSUME NEW q \in Call, NEW p \in Principal, NEW m \in Memory, NEW F \in SUBSET Fact,
             UpdateMemory(q, p, m, F)
      PROVE  Grows
  <2>1. \A h \in Home : said[h] \subseteq said'[h] /\ Known(h) \subseteq Known(h)'
    BY <1>3, SaysGrows DEF UpdateMemory, Known
  <2> QED BY <1>3, <2>1 DEF UpdateMemory, Grows, store, queue
<1>4. ASSUME NEW q \in Call, NEW p \in Principal, NEW m \in Memory, DeleteMemory(q, p, m) PROVE Grows
  BY <1>4 DEF DeleteMemory, Grows, Known, store, queue
<1>5. ASSUME NEW q \in Call, Write(q) PROVE Grows
  <2>1. \A m \in Memory : memory[m] # "none" => memory'[m] # "none" /\ home'[m] = home[m]
    BY <1>5, InvalidateGrows DEF Write, Update
  <2> QED BY <1>5, <2>1 DEF Write, Grows, Known, queue
<1>6. ASSUME NEW q \in Call, WriteFails(q) PROVE Grows
  BY <1>6 DEF WriteFails, Grows, Known, store, queue
<1> QED BY <1>1, <1>2, <1>3, <1>4, <1>5, <1>6 DEF Request

LEMMA LoopGrows == ASSUME MInv, NEW w \in Worker, Process(w) PROVE Grows
<1>t. MemoryTypeOK
  BY DEF MInv
<1>1. ASSUME NEW j \in Job, Claim(w, j) PROVE Grows
  BY <1>t, <1>1 DEF Claim, MemoryTypeOK, Grows, Known, store
<1>2. ASSUME NEW j \in Job, NEW f \in Fact, QueueFact(w, f, j) PROVE Grows
  BY <1>t, <1>2, QueuedGrows DEF QueueFact, Grows, Known, store
<1>3. ASSUME Extract(w) \/ AllQueued(w) \/ List(w) \/ StepFails(w) PROVE Grows
  BY <1>3 DEF Extract, AllQueued, List, StepFails, Grows, Known, store, queue
<1>7. ASSUME Decide(w) PROVE Grows
  <2>1. UNCHANGED <<memory, home, job, task, said>>
    BY <1>7 DEF Decide, store, queue
  <2>2. \A h \in Home : invented[h] \subseteq invented'[h]
    BY <1>t, <1>7 DEF Decide, MemoryTypeOK
  <2> QED BY <2>1, <2>2 DEF Grows, Known
<1>4. ASSUME Change(w) PROVE Grows
  <2>1. \A m \in Memory : memory[m] # "none" => memory'[m] # "none" /\ home'[m] = home[m]
    BY <1>t, <1>4, InvalidateGrows DEF Change, Update
  <2> QED BY <1>4, <2>1 DEF Change, Grows, Known, queue
<1>5. ASSUME NEW m \in Memory, Add(w, m) PROVE Grows
  BY <1>t, <1>5 DEF Add, MemoryTypeOK, Grows, Known, queue
<1>6. ASSUME RecordOutcome(w) PROVE Grows
  <2>1. \A j \in Job : job[j] # "none" => job'[j] # "none"
    BY <1>t, <1>6 DEF RecordOutcome, MemoryTypeOK
  <2> QED BY <1>6, <2>1 DEF RecordOutcome, Grows, Known, store
<1> QED BY <1>1, <1>2, <1>3, <1>4, <1>5, <1>6, <1>7 DEF Process

LEMMA NextGrows == MInv /\ MemoryNext => Grows
BY RequestGrows, LoopGrows DEF MemoryNext, MInv
-----------------------------------------------------------------------------
(* What a step leaves alone stays right.                                   *)

LEMMA QueuedStays ==
    ASSUME Grows, NEW j \in Job, job[j] # "none", NEW F, QueuedBut(j, F)
    PROVE  QueuedBut(j, F)'
BY DEF Grows, QueuedBut

LEMMA RowStays ==
    ASSUME MInv, Grows, NEW m \in Memory, memory'[m] # "none" => memory[m] # "none",
           content'[m] = content[m]
    PROVE  RowOK(m)'
BY DEF MInv, Grows, RowOK

LEMMA TaskStays ==
    ASSUME MInv, Grows, NEW j \in Job, job'[j] = job[j], task'[j] = task[j]
    PROVE  TaskOK(j)' /\ Completed(j)'
<1>1. TaskOK(j) /\ Completed(j)
  BY DEF MInv
<1>2. TaskOK(j)'
  BY <1>1 DEF TaskOK, Grows
<1>3. Completed(j)'
  BY <1>1, QueuedStays DEF Completed
<1> QED BY <1>2, <1>3

\* What may be written to a memory only grows.
LEMMA TargetKnown ==
    ASSUME MInv, Grows, NEW m \in Memory, memory[m] # "none"
    PROVE  home[m] \in Home /\ home'[m] = home[m] /\ Known(home[m]) \subseteq Known(home[m])'
<1>1. home[m] \in Home /\ home'[m] = home[m]
  BY DEF MInv, RowOK, Grows
<1>2. \A h \in Home : Known(h) \subseteq Known(h)'
  BY DEF Grows
<1> QED BY <1>1, <1>2 DEF Known

LEMMA LoopStays ==
    ASSUME MInv, Grows, NEW w \in Worker,
           cur'[w] = cur[w], pc'[w] = pc[w], left'[w] = left[w], shown'[w] = shown[w],
           seen'[w] = seen[w], target'[w] = target[w]
    PROVE  LoopOK(w)'
<1>1. CASE pc[w] = "poll"
  BY <1>1 DEF MInv, LoopOK, Idle
<1>2. CASE pc[w] # "poll"
  <2>1. Busy(w) /\ cur[w] \in Job /\ Task(w).home \in Home
    BY <1>2, BusyLoop
  <2>2. cur'[w] \in Job /\ job'[cur'[w]] # "none" /\ Task(w)' = Task(w)
    BY <2>1 DEF Busy, Grows, Task
  <2>3. /\ said[Task(w).home] \subseteq said'[Task(w).home]
        /\ Known(Task(w).home) \subseteq Known(Task(w).home)'
    BY <2>1, <2>2 DEF Grows
  <2>4. /\ pc'[w] \in {"queue", "decide"} => left'[w] \subseteq said'[Task(w)'.home]
        /\ \A m \in Memory : seen'[w][m] \subseteq Known(Task(w).home)'
    BY <2>1, <2>2, <2>3 DEF Busy
  <2>5. pc'[w] \in {"update", "delete"} =>
          target'[w] \in Memory /\ memory'[target'[w]] # "none" /\ home'[target'[w]] = home[target[w]]
    BY <2>1 DEF Busy, Grows
  <2>6. pc'[w] = "update" => left'[w] \subseteq Known(home[target[w]])'
    BY <2>1, <2>5, TargetKnown DEF Busy
  <2>7. pc'[w] \in {"list", "decide", "add", "update", "delete"} => Task(w)'.kind = "maintenance"
    BY <2>1, <2>2 DEF Busy
  <2>8. /\ pc'[w] = "queue" => QueuedBut(cur[w], left[w])'
        /\ pc'[w] = "completed" /\ Task(w)'.kind = "messages" => QueuedBut(cur[w], {})'
    <3>1. job[cur[w]] # "none"
      BY <2>1 DEF Busy
    <3>2. pc[w] = "queue" => QueuedBut(cur[w], left[w])'
      <4> DEFINE F == left[w]
      <4>1. ASSUME pc[w] = "queue" PROVE QueuedBut(cur[w], left[w])'
        <5>1. QueuedBut(cur[w], left[w])
          BY <2>1, <4>1 DEF Busy
        <5> QED BY <2>1, <3>1, <5>1 DEF Grows, QueuedBut
      <4> QED BY <4>1
    <3>3. pc[w] = "completed" /\ Task(w).kind = "messages" => QueuedBut(cur[w], {})'
      BY <2>1, <3>1 DEF Busy, Grows, QueuedBut
    <3> QED BY <2>2, <3>2, <3>3
  <2> QED BY <1>2, <2>2, <2>4, <2>5, <2>6, <2>7, <2>8 DEF LoopOK, Busy
<1> QED BY <1>1, <1>2

LEMMA CallStays ==
    ASSUME MInv, Grows, NEW q \in Call, call'[q] = call[q]
    PROVE  CallOK(q)'
<1>1. CallOK(q)
  BY DEF MInv
<1>2. SUFFICES ASSUME call[q].at \in {"update", "delete"} PROVE CallOK(q)'
  BY DEF CallOK
<1>3. call[q].memory \in Memory /\ memory[call[q].memory] # "none"
  BY <1>1, <1>2 DEF CallOK
<1>4. /\ home'[call[q].memory] = home[call[q].memory] /\ memory'[call[q].memory] # "none"
      /\ Known(home[call[q].memory]) \subseteq said'[home[call[q].memory]] \union invented'[home[call[q].memory]]
  BY <1>3, TargetKnown DEF Grows, Known
<1>5. call[q].at = "update" => call[q].facts \subseteq Known(home[call[q].memory])
  BY <1>1, <1>2 DEF CallOK
<1> QED BY <1>3, <1>4, <1>5 DEF CallOK, Known

LEMMA StoreStays ==
    ASSUME MInv, Grows, UNCHANGED store
    PROVE  \A m \in Memory : RowOK(m)'
BY RowStays DEF store

LEMMA QueueStays ==
    ASSUME MInv, Grows, UNCHANGED queue
    PROVE  \A j \in Job : TaskOK(j)' /\ Completed(j)'
BY TaskStays DEF queue

LEMMA LoopsStay ==
    ASSUME MInv, Grows, UNCHANGED loops
    PROVE  \A w \in Worker : LoopOK(w)'
BY LoopStays DEF loops

LEMMA CallsStay ==
    ASSUME MInv, Grows, UNCHANGED call
    PROVE  \A q \in Call : CallOK(q)'
BY CallStays

\* A new job for facts its principal has said in its scope.
LEMMA QueuedIsOK ==
    ASSUME MInv, Grows, NEW j \in Job, NEW t, Queued(j, t),
           t.kind \in {"messages", "maintenance"}, t.home \in Home, t.facts \subseteq said'[t.home]
    PROVE  \A k \in Job : TaskOK(k)' /\ Completed(k)'
<1>1. /\ job'[j] = "queued" /\ task'[j] = t
      /\ \A k \in Job \ {j} : job'[k] = job[k] /\ task'[k] = task[k]
  BY DEF Queued, MInv, MemoryTypeOK
<1>2. TaskOK(j)' /\ Completed(j)'
  BY <1>1 DEF TaskOK, Completed
<1> QED BY <1>1, <1>2, TaskStays

\* A text a principal may have in that scope.
LEMMA UpdateIsOK ==
    ASSUME MInv, Grows, NEW x \in Memory, NEW F, Update(x, F), F \subseteq Known(home[x])
    PROVE  \A m \in Memory : RowOK(m)'
<1> SUFFICES ASSUME NEW m \in Memory PROVE RowOK(m)'
  OBVIOUS
<1>1. CASE m = x
  <2>1. content'[m] = F /\ memory'[m] = memory[m] /\ home'[m] = home[m]
    BY <1>1 DEF Update, MInv, MemoryTypeOK
  <2> QED BY <1>1, <2>1, TargetKnown DEF RowOK, Known
<1>2. CASE m # x
  BY <1>2, RowStays DEF Update, MInv, MemoryTypeOK
<1> QED BY <1>1, <1>2

LEMMA InvalidateIsOK ==
    ASSUME MInv, Grows, NEW x \in Memory, Invalidate(x), memory[x] # "none"
    PROVE  \A m \in Memory : RowOK(m)'
BY RowStays DEF Invalidate, MInv, MemoryTypeOK

-----------------------------------------------------------------------------
\* What holds of rows, jobs, loops and calls.
Parts ==
    /\ \A m \in Memory : RowOK(m)
    /\ \A j \in Job : TaskOK(j) /\ Completed(j)
    /\ \A w \in Worker : LoopOK(w)
    /\ \A q \in Call : CallOK(q)

LEMMA RequestsKeepParts == MInv /\ Grows /\ Request => Parts'
<1> SUFFICES ASSUME MInv, Grows, Request PROVE Parts'
  OBVIOUS
<1>t. MemoryTypeOK
  BY DEF MInv
<1>1. ASSUME NEW h \in Home, NEW j \in Job, NEW f \in Fact, AddMemory(h, f, j) PROVE Parts'
  <2>1. {f} \subseteq said'[h]
    BY <1>t, <1>1 DEF AddMemory, Says, MemoryTypeOK
  <2>2. \A k \in Job : TaskOK(k)' /\ Completed(k)'
    BY <1>1, <2>1, QueuedIsOK DEF AddMemory
  <2> QED BY <1>1, <2>2, StoreStays, LoopsStay, CallsStay DEF AddMemory, Parts
<1>2. ASSUME NEW h \in Home, NEW j \in Job, NEW F \in SUBSET Fact, AddMessages(h, F, j) PROVE Parts'
  <2>1. F \subseteq said'[h]
    BY <1>t, <1>2 DEF AddMessages, Says, MemoryTypeOK
  <2>2. \A k \in Job : TaskOK(k)' /\ Completed(k)'
    BY <1>2, <2>1, QueuedIsOK DEF AddMessages
  <2> QED BY <1>2, <2>2, StoreStays, LoopsStay, CallsStay DEF AddMessages, Parts
<1>3. ASSUME NEW q \in Call, NEW p \in Principal, NEW m \in Memory, NEW F \in SUBSET Fact,
             UpdateMemory(q, p, m, F)
      PROVE  Parts'
  <2>1. UNCHANGED <<store, queue, loops>>
    BY <1>3 DEF UpdateMemory
  <2>2. ASSUME NEW k \in Call PROVE CallOK(k)'
    <3>1. CASE k # q
      BY <1>t, <1>3, <3>1, CallStays DEF UpdateMemory, MemoryTypeOK
    <3>2. CASE k = q /\ ~IsOwner(p, m)
      BY <1>t, <1>3, <3>2 DEF UpdateMemory, MemoryTypeOK, CallOK
    <3>3. CASE k = q /\ IsOwner(p, m)
      <4>1. call'[k] = [at |-> "update", principal |-> p, memory |-> m,
                        facts |-> IF F = {} THEN content[m] ELSE F]
        BY <1>t, <1>3, <3>3 DEF UpdateMemory, MemoryTypeOK
      <4>2. memory[m] # "none" /\ home[m] \in Home /\ home[m] = <<p, home[m][2]>>
        <5>1. memory[m] # "none" /\ home[m] \in Home /\ home[m][1] = p
          BY <3>3 DEF IsOwner, MInv, RowOK
        <5> QED BY <5>1 DEF Home
      <4>3. said' = [said EXCEPT ![home[m]] = @ \union F]
        BY <1>3, <3>3, <4>2 DEF UpdateMemory, Says
      <4>4. F \subseteq said'[home[m]]
        BY <1>t, <4>2, <4>3 DEF MemoryTypeOK
      <4>5. content[m] \subseteq Known(home[m])'
        BY <4>2, TargetKnown DEF MInv, RowOK
      <4>6. call'[k].facts \subseteq Known(home[m])'
        BY <2>1, <4>1, <4>4, <4>5 DEF store, Known
      <4> QED BY <2>1, <4>1, <4>2, <4>6 DEF CallOK, store
    <3> QED BY <3>1, <3>2, <3>3
  <2> QED BY <2>1, <2>2, StoreStays, QueueStays, LoopsStay DEF Parts
<1>4. ASSUME NEW q \in Call, NEW p \in Principal, NEW m \in Memory, DeleteMemory(q, p, m) PROVE Parts'
  <2>1. UNCHANGED <<store, queue, loops>>
    BY <1>4 DEF DeleteMemory
  <2>2. ASSUME NEW k \in Call PROVE CallOK(k)'
    <3>1. CASE k # q
      BY <1>t, <1>4, <3>1, CallStays DEF DeleteMemory, MemoryTypeOK
    <3>2. CASE k = q
      <4>1. call'[k] = [at |-> IF IsOwner(p, m) THEN "delete" ELSE "error",
                        principal |-> p, memory |-> m, facts |-> {}]
        BY <1>t, <1>4, <3>2 DEF DeleteMemory, MemoryTypeOK
      <4> QED BY <2>1, <4>1 DEF CallOK, IsOwner, store
    <3> QED BY <3>1, <3>2
  <2> QED BY <2>1, <2>2, StoreStays, QueueStays, LoopsStay DEF Parts
<1>5. ASSUME NEW q \in Call, Write(q) PROVE Parts'
  <2>1. CallOK(q) /\ call[q].at \in {"update", "delete"}
    BY <1>5 DEF Write, MInv
  <2>2. \A m \in Memory : RowOK(m)'
    BY <1>5, <2>1, UpdateIsOK, InvalidateIsOK DEF Write, CallOK
  <2>3. ASSUME NEW k \in Call PROVE CallOK(k)'
    <3>1. CASE k # q
      BY <1>t, <1>5, <3>1, CallStays DEF Write, MemoryTypeOK
    <3>2. CASE k = q
      <4>1. call'[k].at = "done"
        BY <1>t, <1>5, <3>2 DEF Write, MemoryTypeOK
      <4> QED BY <4>1 DEF CallOK
    <3> QED BY <3>1, <3>2
  <2> QED BY <1>5, <2>2, <2>3, QueueStays, LoopsStay DEF Write, Parts
<1>6. ASSUME NEW q \in Call, WriteFails(q) PROVE Parts'
  <2>1. UNCHANGED <<store, queue, loops>>
    BY <1>6 DEF WriteFails
  <2>2. ASSUME NEW k \in Call PROVE CallOK(k)'
    <3>1. CASE k # q
      BY <1>t, <1>6, <3>1, CallStays DEF WriteFails, MemoryTypeOK
    <3>2. CASE k = q
      <4>1. call'[k].at = "error"
        BY <1>t, <1>6, <3>2 DEF WriteFails, MemoryTypeOK
      <4> QED BY <4>1 DEF CallOK
    <3> QED BY <3>1, <3>2
  <2> QED BY <2>1, <2>2, StoreStays, QueueStays, LoopsStay DEF Parts
<1> QED BY <1>1, <1>2, <1>3, <1>4, <1>5, <1>6 DEF Request

\* The other loops, when only what w holds changes.
Others(w) ==
    \A v \in Worker \ {w} :
        /\ cur'[v] = cur[v] /\ pc'[v] = pc[v] /\ left'[v] = left[v] /\ shown'[v] = shown[v]
        /\ seen'[v] = seen[v] /\ target'[v] = target[v]

LEMMA OneLoop ==
    ASSUME MInv, Grows, NEW w \in Worker, Others(w), LoopOK(w)'
    PROVE  \A v \in Worker : LoopOK(v)'
BY LoopStays DEF Others

LEMMA OnlyOne == ASSUME MInv, NEW w \in Worker, Process(w) PROVE Others(w)
<1>t. MemoryTypeOK
  BY DEF MInv
<1>1. ASSUME NEW j \in Job, Claim(w, j) PROVE Others(w)
  BY <1>t, <1>1 DEF Claim, Goto, MemoryTypeOK, Others
<1>2. ASSUME NEW j \in Job, NEW f \in Fact, QueueFact(w, f, j) PROVE Others(w)
  BY <1>t, <1>2 DEF QueueFact, MemoryTypeOK, Others
<1>3. ASSUME Extract(w) \/ AllQueued(w) \/ List(w) PROVE Others(w)
  BY <1>t, <1>3 DEF Extract, AllQueued, List, Goto, MemoryTypeOK, Others
<1>4. ASSUME Decide(w) PROVE Others(w)
  <2>1. UNCHANGED <<cur, shown, seen>> /\ \A v \in Worker \ {w} : left'[v] = left[v]
    BY <1>t, <1>4 DEF Decide, MemoryTypeOK
  <2>2. \A v \in Worker \ {w} : target'[v] = target[v]
    BY <1>t, <1>4 DEF Decide, MemoryTypeOK
  <2>3. \A v \in Worker \ {w} : pc'[v] = pc[v]
    BY <1>t, <1>4 DEF Decide, Goto, MemoryTypeOK
  <2> QED BY <2>1, <2>2, <2>3 DEF Others
<1>5. ASSUME Change(w) \/ StepFails(w) \/ \E m \in Memory : Add(w, m) PROVE Others(w)
  BY <1>t, <1>5 DEF Change, StepFails, Add, Goto, MemoryTypeOK, Others
<1>6. ASSUME RecordOutcome(w) PROVE Others(w)
  BY <1>t, <1>6 DEF RecordOutcome, Goto, MemoryTypeOK, Others
<1> QED BY <1>1, <1>2, <1>3, <1>4, <1>5, <1>6 DEF Process

\* A loop that keeps its job keeps what it has read, but for its own step.
LEMMA BusyStays ==
    ASSUME MInv, Grows, NEW w \in Worker, pc[w] # "poll", cur'[w] = cur[w]
    PROVE  /\ cur'[w] \in Job /\ job'[cur'[w]] # "none" /\ Task(w)' = Task(w)
           /\ said[Task(w).home] \subseteq said'[Task(w).home]
           /\ pc[w] \in {"queue", "decide"} => left[w] \subseteq said'[Task(w).home]
           /\ \A m \in Memory : seen[w][m] \subseteq Known(Task(w).home)'
<1>1. Busy(w) /\ cur[w] \in Job /\ Task(w).home \in Home
  BY BusyLoop
<1>2. cur'[w] \in Job /\ job'[cur'[w]] # "none" /\ Task(w)' = Task(w)
  BY <1>1 DEF Busy, Grows, Task
<1>3. /\ said[Task(w).home] \subseteq said'[Task(w).home]
      /\ Known(Task(w).home) \subseteq Known(Task(w).home)'
  BY <1>1, <1>2 DEF Grows
<1>4. /\ pc[w] \in {"queue", "decide"} => left[w] \subseteq said'[Task(w).home]
      /\ \A m \in Memory : seen[w][m] \subseteq Known(Task(w).home)'
  BY <1>1, <1>3 DEF Busy
<1> QED BY <1>2, <1>3, <1>4

\* Where the loop has gone to, what it needs there.
LEMMA Arrives ==
    ASSUME MInv, Grows, NEW w \in Worker, pc[w] # "poll", cur'[w] = cur[w],
           seen'[w] = seen[w], pc'[w] \in {"queue", "decide"} => left'[w] \subseteq said'[Task(w).home],
           pc'[w] \in {"queue", "decide", "add", "update", "delete", "completed", "failed"},
           pc'[w] \in {"update", "delete"} => target'[w] \in Memory /\ memory'[target'[w]] # "none",
           pc'[w] = "update" => left'[w] \subseteq Known(home[target[w]])',
           pc'[w] \in {"decide", "add", "update", "delete"} => Task(w).kind = "maintenance",
           pc'[w] = "queue" => QueuedBut(cur[w], left[w])',
           pc'[w] = "completed" /\ Task(w).kind = "messages" => QueuedBut(cur[w], {})'
    PROVE  LoopOK(w)'
BY BusyStays DEF LoopOK, Busy

\* A step of a loop that writes nothing but its own state.
LEMMA OwnStep ==
    ASSUME MInv, Grows, NEW w \in Worker, Others(w), LoopOK(w)',
           UNCHANGED <<store, queue, call>>
    PROVE  Parts'
BY StoreStays, QueueStays, CallsStay, OneLoop DEF Parts

LEMMA ClaimIsOK ==
    ASSUME MInv, Grows, NEW w \in Worker, Others(w), NEW j \in Job, Claim(w, j)
    PROVE  Parts'
<1>t. MemoryTypeOK /\ Idle(w)
  BY DEF MInv, LoopOK, Claim
<1>1. /\ job'[j] = "running" /\ task' = task /\ cur'[w] = j
      /\ pc'[w] = IF task[j].kind = "messages" THEN "extract" ELSE "list"
      /\ UNCHANGED <<store, left, shown, seen, target, call>>
      /\ \A k \in Job \ {j} : job'[k] = job[k]
  BY <1>t DEF Claim, Goto, MemoryTypeOK
<1>2. ASSUME NEW k \in Job PROVE TaskOK(k)' /\ Completed(k)'
  <2>1. CASE k # j
    BY <1>1, <2>1, TaskStays
  <2>2. CASE k = j
    <3>1. TaskOK(k) /\ job[k] # "none"
      BY <2>2 DEF MInv, Claim
    <3> QED BY <1>1, <2>2, <3>1 DEF TaskOK, Completed, Grows
  <2> QED BY <2>1, <2>2
<1>3. LoopOK(w)'
  <2>1. TaskOK(j) /\ job[j] # "none"
    BY DEF MInv, Claim
  <2>2. Task(w)' = task[j]
    BY <1>1 DEF Task
  <2>3. task[j].kind \in {"messages", "maintenance"}
    BY <2>1 DEF TaskOK
  <2>4. pc'[w] \in {"extract", "list"} /\ (pc'[w] = "list" => Task(w)'.kind = "maintenance")
    BY <1>1, <2>2, <2>3
  <2>5. left'[w] = {} /\ shown'[w] = {} /\ \A m \in Memory : seen'[w][m] = {}
    BY <1>t, <1>1 DEF Idle
  <2>6. Busy(w)'
    BY <1>1, <2>4, <2>5 DEF Busy
  <2> QED BY <2>4, <2>6 DEF LoopOK
<1> QED BY <1>1, <1>2, <1>3, StoreStays, CallsStay, OneLoop DEF Parts

LEMMA QueueFactIsOK ==
    ASSUME MInv, Grows, NEW w \in Worker, Others(w), NEW j \in Job, NEW f \in Fact,
           QueueFact(w, f, j)
    PROVE  Parts'
<1> DEFINE t == [kind |-> "maintenance", home |-> Task(w).home, facts |-> {f}, from |-> cur[w]]
<1>t. MemoryTypeOK
  BY DEF MInv
<1>1. /\ pc[w] = "queue" /\ f \in left[w] /\ Queued(j, t)
      /\ left'[w] = left[w] \ {f} /\ pc'[w] = "queue"
      /\ UNCHANGED <<store, cur, pc, shown, seen, target, call>>
  BY <1>t DEF QueueFact, MemoryTypeOK
<1>2. /\ left[w] \subseteq said'[Task(w).home] /\ Task(w).home \in Home /\ cur[w] \in Job
      /\ job[cur[w]] # "none" /\ Busy(w) /\ Task(w) = task[cur[w]]
  BY <1>1, BusyLoop, BusyStays DEF Busy
<1>3. \A k \in Job : TaskOK(k)' /\ Completed(k)'
  <2>1. t.kind = "maintenance" /\ t.home \in Home /\ t.facts \subseteq said'[t.home]
    BY <1>1, <1>2
  <2> HIDE DEF t
  <2> QED BY <1>1, <2>1, QueuedIsOK
<1>4. QueuedBut(cur[w], left[w])'
  <2>1. QueuedBut(cur[w], left[w])
    BY <1>1, <1>2 DEF Busy
  <2>2. task'[j] = t /\ job'[j] = "queued"
    BY <1>t, <1>1 DEF Queued, MemoryTypeOK
  <2>3. task'[cur[w]] = task[cur[w]] /\ cur'[w] = cur[w]
    BY <1>1, <1>2 DEF Grows
  <2> SUFFICES ASSUME NEW g \in task[cur[w]].facts \ left'[w]
               PROVE  \E k \in Job : /\ job'[k] # "none"
                                     /\ task'[k] = [kind |-> "maintenance", home |-> task[cur[w]].home,
                                                    facts |-> {g}, from |-> cur[w]]
    BY <2>3 DEF QueuedBut
  <2>4. CASE g = f
    BY <1>2, <2>2, <2>4
  <2>5. CASE g # f
    <3>1. g \in task[cur[w]].facts \ left[w]
      BY <1>1, <2>5
    <3> QED BY <2>1, <3>1 DEF QueuedBut, Grows
  <2> QED BY <2>4, <2>5
<1>5. LoopOK(w)'
  BY <1>1, <1>2, <1>4, Arrives
<1> QED BY <1>1, <1>3, <1>5, StoreStays, CallsStay, OneLoop DEF Parts

LEMMA ReadingIsOK ==
    ASSUME MInv, Grows, NEW w \in Worker, Others(w), Extract(w) \/ AllQueued(w) \/ List(w)
    PROVE  Parts'
<1>t. MemoryTypeOK /\ pc[w] # "poll" /\ cur'[w] = cur[w] /\ UNCHANGED <<store, queue, call>>
  BY DEF MInv, Extract, AllQueued, List
<1>1. /\ Busy(w) /\ cur[w] \in Job /\ Task(w) = task[cur[w]] /\ Task(w)' = Task(w)
      /\ Task(w).facts \subseteq said'[Task(w).home]
      /\ Task(w).home \in Home
      /\ pc[w] \in {"queue", "decide"} => left[w] \subseteq said'[Task(w).home]
  BY <1>t, BusyLoop, BusyStays
<1>2. ASSUME Extract(w) PROVE LoopOK(w)'
  <2>1. /\ left'[w] = Task(w).facts /\ pc'[w] = "queue" /\ shown'[w] = shown[w] /\ seen'[w] = seen[w]
    BY <1>t, <1>2 DEF Extract, Goto, MemoryTypeOK
  <2>2. QueuedBut(cur[w], left[w])'
    BY <1>t, <1>1, <2>1 DEF QueuedBut, queue
  <2> QED BY <1>t, <1>1, <2>1, <2>2, Arrives
<1>3. ASSUME AllQueued(w) PROVE LoopOK(w)'
  <2>1. /\ pc[w] = "queue" /\ left[w] = {} /\ left' = left /\ pc'[w] = "completed"
        /\ shown'[w] = shown[w] /\ seen'[w] = seen[w]
    BY <1>t, <1>3 DEF AllQueued, Goto, MemoryTypeOK
  <2>2. QueuedBut(cur[w], {})'
    BY <1>t, <1>1, <2>1 DEF Busy, QueuedBut, queue
  <2> QED BY <1>t, <1>1, <2>1, <2>2, Arrives
<1>4. ASSUME List(w) PROVE LoopOK(w)'
  <2>1. /\ pc[w] = "list" /\ pc'[w] = "decide" /\ left'[w] = Task(w).facts
        /\ shown'[w] = GetByScope(Task(w).home)
        /\ seen'[w] = [m \in Memory |-> IF m \in GetByScope(Task(w).home) THEN content[m] ELSE {}]
    BY <1>t, <1>4 DEF List, Goto, MemoryTypeOK
  <2>2. \A m \in GetByScope(Task(w).home) :
           m \in Memory /\ memory[m] # "none" /\ home[m] = Task(w).home
    BY DEF GetByScope
  <2>4. \A m \in Memory : seen'[w][m] \subseteq Known(Task(w).home)'
    <3>1. \A m \in GetByScope(Task(w).home) : content[m] \subseteq Known(Task(w).home)
      BY <2>2 DEF MInv, RowOK
    <3>2. Known(Task(w).home) \subseteq Known(Task(w).home)'
      BY <1>1 DEF Grows
    <3> QED BY <2>1, <3>1, <3>2
  <2>5. Task(w).kind = "maintenance" /\ job'[cur[w]] # "none"
    BY <1>t, <1>1, <2>1 DEF Busy, queue
  <2> QED BY <1>t, <1>1, <2>1, <2>4, <2>5 DEF LoopOK, Busy
<1> QED BY <1>t, <1>2, <1>3, <1>4, OwnStep

\* The text of an answer counts as made up but for what the memory's home has shown.
LEMMA AnswerIsKnown ==
    ASSUME MInv, NEW w \in Worker, pc[w] = "decide", NEW m \in Memory, memory[m] # "none",
           NEW F, UNCHANGED <<home, said>>,
           invented' = [invented EXCEPT ![home[m]] = @ \union (F \ Mergeable(w, m))]
    PROVE  F \subseteq Known(home[m])'
<1>1. home[m] \in Home /\ MemoryTypeOK
  BY DEF MInv, RowOK
<1>2. Busy(w)
  BY BusyLoop
<1>3. Mergeable(w, m) \subseteq Known(home[m])
  BY <1>2 DEF Busy, Mergeable, Known, MInv, MemoryTypeOK
<1> DEFINE M == Mergeable(w, m)
<1> HIDE DEF M
<1>4. invented' = [invented EXCEPT ![home[m]] = @ \union (F \ M)] /\ M \subseteq Known(home[m])
  BY <1>3 DEF M
<1>5. invented'[home[m]] = invented[home[m]] \union (F \ M)
  BY <1>1, <1>4 DEF MemoryTypeOK
<1> QED BY <1>4, <1>5 DEF Known

LEMMA DecideIsOK ==
    ASSUME MInv, Grows, NEW w \in Worker, Others(w), Decide(w)
    PROVE  Parts'
<1>t. MemoryTypeOK /\ pc[w] = "decide" /\ UNCHANGED <<store, queue, cur, shown, seen, call>>
  BY DEF MInv, Decide
<1>1. Busy(w) /\ Task(w).kind = "maintenance"
  BY <1>t, BusyLoop DEF Busy
<1>2. ASSUME NEW l \in {"completed", "add", "failed"}, Goto(w, l) PROVE LoopOK(w)'
  <2>1. pc'[w] = l
    BY <1>t, <1>2 DEF Goto, MemoryTypeOK
  <2> QED BY <1>t, <1>1, <2>1, Arrives
<1>3. ASSUME NEW m \in Memory, memory[m] # "none", target' = [target EXCEPT ![w] = m],
             \/ Goto(w, "delete")
             \/ \E F \in SUBSET Fact : /\ Goto(w, "update") /\ left' = [left EXCEPT ![w] = F]
                                      /\ invented' = [invented EXCEPT ![home[m]] = @ \union (F \ Mergeable(w, m))]
      PROVE  LoopOK(w)'
  <2>1. target'[w] = m /\ memory'[m] # "none" /\ pc'[w] \in {"delete", "update"}
    BY <1>t, <1>3 DEF Goto, MemoryTypeOK, store
  <2>2. pc'[w] = "update" => left'[w] \subseteq Known(home[target[w]])'
    <3>1. CASE Goto(w, "delete")
      BY <1>t, <3>1 DEF Goto, MemoryTypeOK
    <3>2. ASSUME NEW F \in SUBSET Fact, left' = [left EXCEPT ![w] = F],
                 invented' = [invented EXCEPT ![home[m]] = @ \union (F \ Mergeable(w, m))]
          PROVE  left'[w] \subseteq Known(home[target[w]])'
      <4>1. F \subseteq Known(home[m])'
        BY <1>t, <1>3, <3>2, AnswerIsKnown DEF Decide, store
      <4>2. left'[w] = F
        BY <1>t, <3>2 DEF MemoryTypeOK
      <4> QED BY <2>1, <4>1, <4>2 DEF Known
    <3> QED BY <1>3, <3>1, <3>2
  <2> QED BY <1>t, <1>1, <2>1, <2>2, Arrives
<1>4. LoopOK(w)'
  BY <1>2, <1>3 DEF Decide
<1> QED BY <1>t, <1>4, OwnStep

LEMMA AddIsOK ==
    ASSUME MInv, Grows, NEW w \in Worker, Others(w), NEW x \in Memory, Add(w, x)
    PROVE  Parts'
<1>t. MemoryTypeOK /\ pc[w] = "add" /\ UNCHANGED <<queue, cur, left, shown, seen, target, call>>
  BY DEF MInv, Add
<1>1. /\ Busy(w) /\ Task(w).home \in Home
      /\ Task(w).facts \subseteq said[Task(w).home] /\ Task(w).kind = "maintenance"
  BY <1>t, BusyLoop DEF Busy
<1>2. ASSUME NEW m \in Memory PROVE RowOK(m)'
  <2>1. CASE m = x
    <3>1. home'[m] = Task(w).home /\ content'[m] = Task(w).facts
      BY <1>t, <2>1 DEF Add, MemoryTypeOK
    <3> QED BY <1>1, <3>1 DEF RowOK, Grows, Known
  <2>2. CASE m # x
    BY <1>t, <2>2, RowStays DEF Add, MemoryTypeOK
  <2> QED BY <2>1, <2>2
<1>3. pc'[w] = "completed"
  BY <1>t DEF Add, Goto, MemoryTypeOK
<1>4. LoopOK(w)'
  BY <1>t, <1>1, <1>3, Arrives
<1> QED BY <1>t, <1>2, <1>4, QueueStays, CallsStay, OneLoop DEF Parts

LEMMA ChangeIsOK ==
    ASSUME MInv, Grows, NEW w \in Worker, Others(w), Change(w)
    PROVE  Parts'
<1>t. MemoryTypeOK /\ pc[w] \in {"update", "delete"} /\ UNCHANGED <<queue, cur, left, shown, seen, target, call>>
  BY DEF MInv, Change
<1>1. /\ Busy(w) /\ target[w] \in Memory /\ memory[target[w]] # "none"
      /\ pc[w] = "update" => left[w] \subseteq Known(home[target[w]])
      /\ Task(w).kind = "maintenance"
  BY <1>t, BusyLoop DEF Busy
<1>2. \A m \in Memory : RowOK(m)'
  BY <1>t, <1>1, UpdateIsOK, InvalidateIsOK DEF Change
<1>3. pc'[w] = "completed"
  BY <1>t DEF Change, Goto, MemoryTypeOK
<1>4. LoopOK(w)'
  BY <1>t, <1>1, <1>3, Arrives
<1> QED BY <1>t, <1>2, <1>4, QueueStays, CallsStay, OneLoop DEF Parts

LEMMA StepFailsIsOK ==
    ASSUME MInv, Grows, NEW w \in Worker, Others(w), StepFails(w)
    PROVE  Parts'
<1>t. MemoryTypeOK /\ pc[w] # "poll" /\ UNCHANGED <<store, queue, cur, left, shown, seen, target, call>>
  BY DEF MInv, StepFails
<1>1. pc'[w] = "failed"
  BY <1>t DEF StepFails, AfterFailure, Goto, MemoryTypeOK
<1>2. LoopOK(w)'
  BY <1>t, <1>1, BusyStays, Arrives
<1> QED BY <1>t, <1>2, OwnStep

LEMMA RecordOutcomeIsOK ==
    ASSUME MInv, Grows, NEW w \in Worker, Others(w), RecordOutcome(w)
    PROVE  Parts'
<1>t. MemoryTypeOK /\ pc[w] \in {"completed", "failed"} /\ UNCHANGED <<store, task, call>>
  BY DEF MInv, RecordOutcome
<1>1. Busy(w) /\ cur[w] \in Job /\ Task(w) = task[cur[w]] /\ job[cur[w]] # "none"
  BY <1>t, BusyLoop DEF Busy
<1>2. job'[cur[w]] = pc[w] /\ \A j \in Job \ {cur[w]} : job'[j] = job[j]
  BY <1>t, <1>1 DEF RecordOutcome, MemoryTypeOK
<1>3. ASSUME NEW j \in Job PROVE TaskOK(j)' /\ Completed(j)'
  <2>1. CASE j # cur[w]
    BY <1>t, <1>2, <2>1, TaskStays
  <2>2. CASE j = cur[w]
    <3>1. TaskOK(j)'
      BY <1>t, <1>1, <2>2 DEF MInv, TaskOK, Grows
    <3>2. pc[w] = "completed" /\ task[j].kind = "messages" => QueuedBut(j, {})'
      BY <1>1, <2>2, QueuedStays DEF Busy
    <3>3. Completed(j)'
      BY <1>t, <1>2, <2>2, <3>2 DEF Completed
    <3> QED BY <3>1, <3>3
  <2> QED BY <2>1, <2>2
<1>4. LoopOK(w)'
  <2>1. pc'[w] = "poll" /\ left'[w] = {} /\ shown'[w] = {} /\ seen'[w] = [m \in Memory |-> {}]
    BY <1>t DEF RecordOutcome, Goto, MemoryTypeOK
  <2> QED BY <2>1 DEF LoopOK, Idle
<1> QED BY <1>t, <1>3, <1>4, StoreStays, CallsStay, OneLoop DEF Parts

LEMMA NextKeepsParts == MInv /\ MemoryNext => Parts'
<1> SUFFICES ASSUME MInv, MemoryNext PROVE Parts'
  OBVIOUS
<1>1. Grows
  BY NextGrows
<1>2. ASSUME NEW w \in Worker, Process(w) PROVE Parts'
  <2>1. Others(w)
    BY <1>2, OnlyOne
  <2> QED BY <1>1, <1>2, <2>1, ClaimIsOK, QueueFactIsOK, ReadingIsOK, DecideIsOK, AddIsOK,
             ChangeIsOK, StepFailsIsOK, RecordOutcomeIsOK DEF Process
<1> QED BY <1>1, <1>2, RequestsKeepParts DEF MemoryNext
-----------------------------------------------------------------------------
\* What each step preserves.
LEMMA MemoryInvariant == MemorySpec => []MInv
<1>1. MemoryInit => MInv
  <2> SUFFICES ASSUME MemoryInit PROVE MInv
    OBVIOUS
  <2>1. MemoryTypeOK
    BY StartsTyped
  <2> QED BY <2>1 DEF MemoryInit, MInv, RowOK, TaskOK, Completed, LoopOK, Idle, CallOK, NoCall
<1>2. MInv /\ [MemoryNext]_memoryVars => MInv'
  <2> SUFFICES ASSUME MInv, [MemoryNext]_memoryVars PROVE MInv'
    OBVIOUS
  <2>1. CASE MemoryNext
    BY <2>1, NextKeepsTypes, NextKeepsParts DEF MInv, Parts
  <2>2. CASE UNCHANGED memoryVars
    <3>1. Grows
      BY <2>2 DEF memoryVars, store, queue, Known, Grows
    <3>2. MemoryTypeOK'
      BY <2>2 DEF MInv, MemoryTypeOK, memoryVars, store, queue, loops
    <3> QED BY <2>2, <3>1, <3>2, StoreStays, QueueStays, LoopsStay, CallsStay DEF memoryVars, MInv
  <2> QED BY <2>1, <2>2
<1> QED BY <1>1, <1>2, PTL DEF MemorySpec

\* Every variable keeps its type.
THEOREM TypeCorrect == MemorySpec => []MemoryTypeOK
BY MemoryInvariant, PTL DEF MInv

\* A memory states only what its principal has said in its scope, or an answer of
\* the LLM made up for it: through the queue and the writes of any number of loops
\* and calls, and whatever memories and texts the answers name.
THEOREM Own == MemorySpec => []MemoriesAreOwn
<1>1. MInv => MemoriesAreOwn
  BY DEF MInv, RowOK, Known, MemoriesAreOwn
<1> QED BY <1>1, MemoryInvariant, PTL

\* A completed messages job has a job for every fact it extracted.
THEOREM Extracted == MemorySpec => []MessagesAreExtracted
<1>1. MInv => MessagesAreExtracted
  BY DEF MInv, Completed, QueuedBut, MessagesAreExtracted
<1> QED BY <1>1, MemoryInvariant, PTL
-----------------------------------------------------------------------------
(* The memory jobs as the job queue has them.                              *)

Held(j) == \E w \in Worker : cur[w] = j

\* The loop that has claimed a job and not yet recorded its outcome.
Holder == [j \in Job |-> IF Held(j) THEN CHOOSE w \in Worker : cur[w] = j ELSE None]

Queue == INSTANCE JobQueue WITH Goroutine <- Worker, NoOne <- None,
                                status <- job, holder <- Holder

\* A loop has a job unless it polls; the job is running, and no other loop has it.
OneWorker ==
    /\ \A w \in Worker : cur[w] = None <=> pc[w] = "poll"
    /\ \A w \in Worker : cur[w] # None => job[cur[w]] = "running"
    /\ \A v, w \in Worker : cur[v] = cur[w] /\ cur[v] # None => v = w

\* No loop takes or drops a job, and no running job ends.
LEMMA WorkersStay ==
    ASSUME MemoryTypeOK, OneWorker, UNCHANGED cur,
           \A w \in Worker : pc'[w] = "poll" <=> pc[w] = "poll",
           \A j \in Job : job[j] = "running" => job'[j] = "running"
    PROVE  OneWorker'
<1>1. \A w \in Worker : cur[w] # None => cur[w] \in Job
  BY DEF MemoryTypeOK
<1> QED BY <1>1 DEF OneWorker

\* An insert takes a row that no job has had.
LEMMA QueuedIsNew ==
    ASSUME MemoryTypeOK, NEW j \in Job, NEW t, Queued(j, t)
    PROVE  \A k \in Job : job[k] = "running" => job'[k] = "running"
BY DEF Queued, MemoryTypeOK

LEMMA RequestKeepsWorkers == MemoryTypeOK /\ OneWorker /\ Request => OneWorker'
<1> SUFFICES ASSUME MemoryTypeOK, OneWorker, Request PROVE OneWorker'
  OBVIOUS
<1> USE DEF loops, queue
<1>1. ASSUME NEW h \in Home, NEW j \in Job, NEW f \in Fact, AddMemory(h, f, j) PROVE OneWorker'
  BY <1>1, QueuedIsNew, WorkersStay DEF AddMemory
<1>2. ASSUME NEW h \in Home, NEW j \in Job, NEW F \in SUBSET Fact, AddMessages(h, F, j)
      PROVE  OneWorker'
  BY <1>2, QueuedIsNew, WorkersStay DEF AddMessages
<1>3. CASE UNCHANGED <<job, cur, pc>>
  BY <1>3, WorkersStay
<1> QED BY <1>1, <1>2, <1>3 DEF Request, Write, WriteFails, DeleteMemory, UpdateMemory

\* The steps of a loop between the claim and the outcome.
Works(w) ==
    /\ UNCHANGED <<job, cur>> /\ pc[w] # "poll" /\ pc'[w] # "poll"
    /\ \A v \in Worker \ {w} : pc'[v] = pc[v]

LEMMA LoopWorks ==
    ASSUME MemoryTypeOK, NEW w \in Worker, Process(w)
    PROVE  \/ Works(w) \/ RecordOutcome(w)
           \/ \E j \in Job : Claim(w, j) \/ \E f \in Fact : QueueFact(w, f, j)
<1>t. pc \in [Worker -> {"poll", "extract", "queue", "list", "decide",
                         "add", "update", "delete", "completed", "failed"}]
  BY DEF MemoryTypeOK
<1>1. ASSUME NEW l \in {"queue", "decide", "add", "update", "delete", "completed", "failed"},
             Goto(w, l), pc[w] # "poll", UNCHANGED <<job, cur>>
      PROVE  Works(w)
  BY <1>t, <1>1 DEF Goto, Works
<1>2. ASSUME Decide(w) PROVE Works(w)
  BY <1>1, <1>2 DEF Decide, queue
<1>3. ASSUME Extract(w) \/ AllQueued(w) \/ List(w) PROVE Works(w)
  BY <1>1, <1>3 DEF Extract, AllQueued, List, queue
<1>4. ASSUME Change(w) \/ StepFails(w) \/ \E m \in Memory : Add(w, m) PROVE Works(w)
  BY <1>1, <1>4 DEF Change, StepFails, AfterFailure, Add, queue
<1> QED BY <1>2, <1>3, <1>4 DEF Process

LEMMA ClaimKeepsWorkers ==
    ASSUME MemoryTypeOK, OneWorker, NEW w \in Worker, NEW j \in Job, Claim(w, j)
    PROVE  OneWorker'
<1>1. /\ pc[w] = "poll" /\ job[j] = "queued"
      /\ job'[j] = "running" /\ cur'[w] = j /\ pc'[w] # "poll"
      /\ \A v \in Worker \ {w} : cur'[v] = cur[v] /\ pc'[v] = pc[v]
      /\ \A k \in Job \ {j} : job'[k] = job[k]
  BY DEF Claim, Goto, MemoryTypeOK
<1>2. j # None
  BY MemoryAssumption
<1>3. \A v \in Worker \ {w} : cur[v] # j
  BY <1>1, <1>2 DEF OneWorker
<1>4. \A v \in Worker : cur[v] # None => cur[v] \in Job
  BY DEF MemoryTypeOK
<1> QED BY <1>1, <1>2, <1>3, <1>4 DEF OneWorker

LEMMA RecordKeepsWorkers ==
    ASSUME MemoryTypeOK, OneWorker, NEW w \in Worker, RecordOutcome(w)
    PROVE  OneWorker'
<1>1. /\ pc[w] # "poll" /\ pc'[w] = "poll" /\ cur'[w] = None
      /\ \A v \in Worker \ {w} : cur'[v] = cur[v] /\ pc'[v] = pc[v]
      /\ \A k \in Job : k # cur[w] => job'[k] = job[k]
  BY DEF RecordOutcome, Goto, MemoryTypeOK
<1>2. \A v \in Worker : cur[v] # None => cur[v] \in Job
  BY DEF MemoryTypeOK
<1>3. \A v \in Worker \ {w} : cur[v] # None => cur[v] # cur[w]
  BY DEF OneWorker
<1> QED BY <1>1, <1>2, <1>3 DEF OneWorker

LEMMA LoopKeepsWorkers ==
    ASSUME MemoryTypeOK, OneWorker, NEW w \in Worker, Process(w)
    PROVE  OneWorker'
<1>1. ASSUME NEW j \in Job, NEW f \in Fact, QueueFact(w, f, j) PROVE OneWorker'
  BY <1>1, QueuedIsNew, WorkersStay DEF QueueFact
<1>2. CASE Works(w)
  BY <1>2, WorkersStay DEF Works
<1> QED BY <1>1, <1>2, LoopWorks, ClaimKeepsWorkers, RecordKeepsWorkers

\* No two loops have one job, however many there are.
LEMMA WorkersInvariant == MemorySpec => [](MemoryTypeOK /\ OneWorker)
<1>1. MemoryInit => OneWorker
  BY DEF MemoryInit, OneWorker
<1>2. MemoryTypeOK /\ OneWorker /\ [MemoryNext]_memoryVars => OneWorker'
  <2>1. MemoryTypeOK /\ OneWorker /\ UNCHANGED memoryVars => OneWorker'
    BY WorkersStay DEF memoryVars, queue, loops
  <2> QED BY <2>1, RequestKeepsWorkers, LoopKeepsWorkers DEF MemoryNext
<1>3. MemorySpec => []MemoryTypeOK
  BY MemoryInvariant, PTL DEF MInv
<1> QED BY <1>1, <1>2, <1>3, PTL DEF MemorySpec
-----------------------------------------------------------------------------
(* The steps of the queue.                                                 *)

HolderMatches ==
    /\ Holder \in [Job -> Worker \union {None}]
    /\ \A w \in Worker : \A j \in Job : Holder[j] = w <=> cur[w] = j

\* A job has one holder, which CHOOSE then finds.
LEMMA HolderFact == MemoryTypeOK /\ OneWorker => HolderMatches
BY MemoryAssumption DEF OneWorker, HolderMatches, Holder, Held

LEMMA HolderAfter ==
    ASSUME HolderMatches', NEW f \in [Job -> Worker \union {None}],
           \A w \in Worker : \A j \in Job : f[j] = w <=> cur'[w] = j
    PROVE  Holder' = f
<1>1. \A j \in Job : Holder'[j] = f[j]
  BY MemoryAssumption DEF HolderMatches
<1> QED BY <1>1 DEF HolderMatches

LEMMA SameHolder == ASSUME HolderMatches, HolderMatches', UNCHANGED cur PROVE Holder' = Holder
BY HolderAfter DEF HolderMatches

\* CreateDocless is Create.
LEMMA QueuedRefines ==
    ASSUME HolderMatches, HolderMatches', UNCHANGED cur, NEW j \in Job, NEW t, Queued(j, t)
    PROVE  Queue!Next
<1>1. Queue!Create(j)
  BY SameHolder DEF Queued, Queue!Create
<1> QED BY <1>1 DEF Queue!Next

LEMMA ClaimRefines ==
    ASSUME MemoryTypeOK, OneWorker, HolderMatches, HolderMatches',
           NEW w \in Worker, NEW j \in Job, Claim(w, j)
    PROVE  Queue!Next
<1> DEFINE f == [Holder EXCEPT ![j] = w]
<1>1. cur[w] = None /\ cur' = [cur EXCEPT ![w] = j] /\ job[j] = "queued"
  BY DEF Claim, OneWorker
<1>2. \A v \in Worker : cur[v] # j
  BY <1>1, MemoryAssumption DEF OneWorker
<1>3. f \in [Job -> Worker \union {None}]
  BY DEF HolderMatches
<1>4. \A v \in Worker : \A k \in Job : f[k] = v <=> cur'[v] = k
  BY <1>1, <1>2, MemoryAssumption DEF HolderMatches, MemoryTypeOK
<1> HIDE DEF f
<1>5. Holder' = f
  BY <1>3, <1>4, HolderAfter
<1>6. Queue!Claim(j, w)
  BY <1>5 DEF f, Claim, Queue!Claim
<1> QED BY <1>6 DEF Queue!Next

LEMMA RecordRefines ==
    ASSUME MemoryTypeOK, OneWorker, HolderMatches, HolderMatches',
           NEW w \in Worker, RecordOutcome(w)
    PROVE  Queue!Next
<1> DEFINE j == cur[w]
           f == [Holder EXCEPT ![j] = None]
<1>1. /\ j \in Job /\ job[j] = "running" /\ cur' = [cur EXCEPT ![w] = None]
      /\ pc[w] \in {"completed", "failed"}
  BY DEF RecordOutcome, OneWorker, MemoryTypeOK
<1>2. Holder[j] = w /\ w # None
  BY <1>1, MemoryAssumption DEF HolderMatches
<1>3. f \in [Job -> Worker \union {None}]
  BY DEF HolderMatches
<1>4. \A v \in Worker : \A k \in Job : f[k] = v <=> cur'[v] = k
  BY <1>1, <1>2, MemoryAssumption DEF HolderMatches, MemoryTypeOK
<1> HIDE DEF f
<1>5. Holder' = f
  BY <1>3, <1>4, HolderAfter
<1>6. Queue!Finish(j, pc[w])
  BY <1>1, <1>2, <1>5 DEF f, RecordOutcome, Queue!Finish
<1> QED BY <1>1, <1>6 DEF Queue!Next, Queue!Outcome

LEMMA StepRefines ==
    MemoryTypeOK /\ OneWorker /\ HolderMatches /\ HolderMatches' /\ [MemoryNext]_memoryVars
        => [Queue!Next]_(Queue!vars)
<1> SUFFICES ASSUME MemoryTypeOK, OneWorker, HolderMatches, HolderMatches', [MemoryNext]_memoryVars
             PROVE  Queue!Next \/ UNCHANGED Queue!vars
  OBVIOUS
<1> USE DEF queue, loops
<1>1. CASE UNCHANGED <<job, cur>>
  BY <1>1, SameHolder DEF Queue!vars
<1>2. CASE Request
  <2>1. ASSUME NEW h \in Home, NEW j \in Job,
               (\E f \in Fact : AddMemory(h, f, j)) \/ (\E F \in SUBSET Fact : AddMessages(h, F, j))
        PROVE  Queue!Next
    BY <2>1, QueuedRefines DEF AddMemory, AddMessages
  <2> QED BY <1>1, <1>2, <2>1 DEF Request, Write, WriteFails, DeleteMemory, UpdateMemory
<1>3. ASSUME NEW w \in Worker, Process(w) PROVE Queue!Next \/ UNCHANGED Queue!vars
  <2>1. ASSUME NEW j \in Job, NEW f \in Fact, QueueFact(w, f, j) PROVE Queue!Next
    BY <2>1, QueuedRefines DEF QueueFact
  <2> QED BY <1>1, <1>3, <2>1, LoopWorks, ClaimRefines, RecordRefines DEF Works
<1> QED BY <1>1, <1>2, <1>3 DEF MemoryNext, memoryVars

\* Each memory job is created once, handed to one loop and ended by it, also
\* those that a running job queues (memory_extraction.go as the pool runs it).
THEOREM MemoryIsQueue == MemorySpec => Queue!Spec
<1>1. MemoryInit => Queue!Init
  <2> SUFFICES ASSUME MemoryInit PROVE Queue!Init
    OBVIOUS
  <2>1. \A j \in Job : ~Held(j)
    BY MemoryAssumption DEF MemoryInit, Held
  <2>2. Holder = [j \in Job |-> None]
    BY <2>1 DEF Holder
  <2> QED BY <2>2 DEF MemoryInit, Queue!Init
<1> QED BY <1>1, HolderFact, WorkersInvariant, StepRefines, PTL DEF MemorySpec, Queue!Spec
=============================================================================
