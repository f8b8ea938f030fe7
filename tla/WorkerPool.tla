----------------------------- MODULE WorkerPool -----------------------------
(***************************************************************************)
(* The worker pool of creel (internal/worker/pool.go) over the job table   *)
(* (internal/store/job.go).  Every server process runs `concurrency` poll  *)
(* loops; on a tick a loop tries each registered job type once.  ClaimNext *)
(* is a transaction of its own: it locks the oldest queued row of the type *)
(* that no other transaction has locked (FOR UPDATE SKIP LOCKED), sets it  *)
(* running and commits.  What a worker does with the job is abstracted to  *)
(* the error or nil its Process returns; Pipeline models it for documents. *)
(*                                                                         *)
(* A statement fails when its context is cancelled (Stop) or when the      *)
(* database connection does (at most MaxFaults times).  A failed COMMIT or *)
(* UPDATE may have taken effect: only its reply is known to be lost.       *)
(***************************************************************************)
EXTENDS Naturals

CONSTANTS Server,       \* server processes (replicas) sharing the database
          Goroutine,    \* poll loops, over all servers
          ServerOf,     \* the process a poll loop runs in
          Type,         \* registered job types
          MaxJobs,      \* bound: rows ever inserted
          MaxFaults,    \* bound: statements that fail on a live context
          MaxRestarts,  \* bound: process deaths, crashes and shutdowns together
          None          \* no goroutine, no type, no result

ASSUME WorkerPoolAssumption ==
    /\ None \notin Goroutine
    /\ ServerOf \in [Goroutine -> Server]
    /\ MaxJobs \in Nat
    /\ MaxFaults \in Nat
    /\ MaxRestarts \in Nat

Job == 1..MaxJobs

VARIABLES
    \* the database
    status,    \* the status column; "none" before INSERT, "gone" after DELETE
    jobType,   \* the job_type column
    inserted,  \* rows inserted so far; ids follow created_at
    lock,      \* the goroutine whose ClaimNext transaction locked the row
    \* each poll loop
    pc,        \* where the goroutine is
    rest,      \* the job types pollOnce has still to try
    want,      \* the type tryProcess was called with
    cur,       \* the job ClaimNext selected or returned
    result,    \* what Process returned
    \* each process
    pool,      \* "up", "stopping" (Stop cancelled ctx), "stopped", "timedout"
    \* the environment
    faults, restarts

db    == <<status, jobType, inserted, lock>>
loops == <<pc, rest, want, cur, result>>
vars  == <<db, loops, pool, faults, restarts>>

Status  == {"none", "queued", "running", "completed", "failed", "gone"}
Outcome == {"completed", "failed"}
PC      == {"idle", "poll", "claim", "commit", "process", "record", "exited"}
Pool    == {"up", "stopping", "stopped", "timedout"}

TypeOK ==
    /\ status \in [Job -> Status]
    /\ jobType \in [Job -> Type \union {None}]
    /\ inserted \in 0..MaxJobs
    /\ lock \in [Job -> Goroutine \union {None}]
    /\ pc \in [Goroutine -> PC]
    /\ rest \in [Goroutine -> SUBSET Type]
    /\ want \in [Goroutine -> Type \union {None}]
    /\ cur \in [Goroutine -> Nat]
    /\ \A g \in Goroutine : pc[g] \in {"commit", "process", "record"} => cur[g] \in Job
    /\ result \in [Goroutine -> Outcome \union {None}]
    /\ \A g \in Goroutine : pc[g] = "record" => result[g] \in Outcome
    /\ pool \in [Server -> Pool]
    /\ faults \in 0..MaxFaults
    /\ restarts \in 0..MaxRestarts

Cancelled(g) == pool[ServerOf[g]] # "up"     \* ctx.Err() # nil

Init ==
    /\ status = [j \in Job |-> "none"]
    /\ jobType = [j \in Job |-> None]
    /\ inserted = 0
    /\ lock = [j \in Job |-> None]
    /\ pc = [g \in Goroutine |-> "idle"]
    /\ rest = [g \in Goroutine |-> {}]
    /\ want = [g \in Goroutine |-> None]
    /\ cur = [g \in Goroutine |-> 0]
    /\ result = [g \in Goroutine |-> None]
    /\ pool = [s \in Server |-> "up"]
    /\ faults = 0
    /\ restarts = 0

\* A statement of g returns an error.
Err(g) ==
    \/ Cancelled(g) /\ UNCHANGED faults
    \/ ~Cancelled(g) /\ faults < MaxFaults /\ faults' = faults + 1

\* A statement of g returns normally.
Ok(g) == ~Cancelled(g) /\ UNCHANGED faults
-----------------------------------------------------------------------------
(* The rest of the program, on the same table.                             *)

\* Create, CreateWithProgress, CreateDocless: the next row, queued.
Create(t) ==
    /\ inserted < MaxJobs
    /\ inserted' = inserted + 1
    /\ status' = [status EXCEPT ![inserted + 1] = "queued"]
    /\ jobType' = [jobType EXCEPT ![inserted + 1] = t]
    /\ UNCHANGED <<lock, loops, pool, faults, restarts>>

\* DeleteDocument cascades to the rows of its jobs.  The DELETE waits for a
\* transaction that has locked the row.
Remove(j) ==
    /\ status[j] \notin {"none", "gone"}
    /\ lock[j] = None
    /\ status' = [status EXCEPT ![j] = "gone"]
    /\ UNCHANGED <<jobType, inserted, lock, loops, pool, faults, restarts>>
-----------------------------------------------------------------------------
(* A poll loop.                                                            *)

\* The ticker's branch of the select, which Go may take on a cancelled ctx too.
Tick(g) ==
    /\ pc[g] = "idle"
    /\ pc' = [pc EXCEPT ![g] = "poll"]
    /\ rest' = [rest EXCEPT ![g] = Type]
    /\ UNCHANGED <<db, want, cur, result, pool, faults, restarts>>

\* Mutant: the loop only ranges over the ticker.
Exit_NoDone(g) == FALSE /\ pc' = pc

\* The ctx.Done() branch.
Exit(g) ==
    /\ pc[g] = "idle"
    /\ Cancelled(g)
    /\ pc' = [pc EXCEPT ![g] = "exited"]
    /\ UNCHANGED <<db, rest, want, cur, result, pool, faults, restarts>>

\* pollOnce is done: every type was tried, or ctx was cancelled meanwhile.
EndPoll(g) ==
    /\ pc[g] = "poll"
    /\ rest[g] = {} \/ Cancelled(g)
    /\ pc' = [pc EXCEPT ![g] = "idle"]
    /\ rest' = [rest EXCEPT ![g] = {}]
    /\ UNCHANGED <<db, want, cur, result, pool, faults, restarts>>

\* pollOnce calls tryProcess for the next type, in map order.
NextType(g) ==
    /\ pc[g] = "poll"
    /\ ~Cancelled(g)
    /\ \E t \in rest[g] :
          /\ rest' = [rest EXCEPT ![g] = @ \ {t}]
          /\ want' = [want EXCEPT ![g] = t]
    /\ pc' = [pc EXCEPT ![g] = "claim"]
    /\ UNCHANGED <<db, cur, result, pool, faults, restarts>>

\* Mutants: the subquery without FOR UPDATE SKIP LOCKED; one that retries
\* failed jobs.
Claimable_NoLock(t) == {j \in Job : status[j] = "queued" /\ jobType[j] = t}
Claimable_Retry(t) ==
    {j \in Job : status[j] \in {"queued", "failed"} /\ jobType[j] = t /\ lock[j] = None}

\* The rows the subquery of ClaimNext for type t can see: queued, not locked.
Claimable(t) == {j \in Job : status[j] = "queued" /\ jobType[j] = t /\ lock[j] = None}

Oldest(j, S) == j \in S /\ \A k \in S : j <= k

\* tryProcess returns to pollOnce; its locals are gone.
Return(g) ==
    /\ pc' = [pc EXCEPT ![g] = "poll"]
    /\ want' = [want EXCEPT ![g] = None]
    /\ cur' = [cur EXCEPT ![g] = 0]
    /\ result' = [result EXCEPT ![g] = None]
    /\ UNCHANGED rest

\* ClaimNext finds no row.
ClaimNothing(g) ==
    /\ pc[g] = "claim"
    /\ Ok(g)
    /\ Claimable(want[g]) = {}
    /\ Return(g)
    /\ UNCHANGED <<db, pool, restarts>>

\* The UPDATE of ClaimNext locks the oldest row it can see.  The new status is
\* not visible to others before the commit.
ClaimSelect(g) ==
    /\ pc[g] = "claim"
    /\ Ok(g)
    /\ \E j \in Job :
          /\ Oldest(j, Claimable(want[g]))
          /\ lock' = [lock EXCEPT ![j] = g]
          /\ cur' = [cur EXCEPT ![g] = j]
    /\ pc' = [pc EXCEPT ![g] = "commit"]
    /\ UNCHANGED <<status, jobType, inserted, rest, want, result, pool, restarts>>

\* Begin or the UPDATE fails: tryProcess logs or ignores it and returns.
ClaimFails(g) ==
    /\ pc[g] = "claim"
    /\ Err(g)
    /\ Return(g)
    /\ UNCHANGED <<db, pool, restarts>>

\* Mutants: the UPDATE forgets the status; the deferred Rollback is missing.
EndClaim_NoStatus(g, st) ==
    /\ lock' = [lock EXCEPT ![cur[g]] = None]
    /\ UNCHANGED <<status, jobType, inserted>>
EndClaim_NoRollback(g, st) ==
    /\ status' = [status EXCEPT ![cur[g]] = st]
    /\ lock' = [lock EXCEPT ![cur[g]] = IF st = "queued" THEN @ ELSE None]
    /\ UNCHANGED <<jobType, inserted>>

\* The transaction of g ends with the row set to st; its lock is released.
EndClaim(g, st) ==
    /\ status' = [status EXCEPT ![cur[g]] = st]
    /\ lock' = [lock EXCEPT ![cur[g]] = None]
    /\ UNCHANGED <<jobType, inserted>>

ClaimCommit(g) ==
    /\ pc[g] = "commit"
    /\ Ok(g)
    /\ EndClaim(g, "running")
    /\ pc' = [pc EXCEPT ![g] = "process"]
    /\ UNCHANGED <<rest, want, cur, result, pool, restarts>>

\* Commit returns an error: rolled back, or committed and the reply lost.
\* tryProcess returns without processing the job either way.
CommitFails(g) ==
    /\ pc[g] = "commit"
    /\ Err(g)
    /\ \E st \in {"queued", "running"} : EndClaim(g, st)
    /\ Return(g)
    /\ UNCHANGED <<pool, restarts>>

\* Mutant: the error of Process is dropped.
Process_NoResult(g) ==
    /\ pc[g] = "process"
    /\ pc' = [pc EXCEPT ![g] = "record"]
    /\ UNCHANGED <<db, rest, want, cur, result, pool, faults, restarts>>

\* w.Process(ctx, job) returns nil or an error.
Process(g) ==
    /\ pc[g] = "process"
    /\ \E r \in Outcome : result' = [result EXCEPT ![g] = r]
    /\ pc' = [pc EXCEPT ![g] = "record"]
    /\ UNCHANGED <<db, rest, want, cur, pool, faults, restarts>>

\* Mutant: a job that succeeded is left alone.
SetOutcome_OnlyErrors(g) ==
    /\ status[cur[g]] # "gone"
    /\ status' = [status EXCEPT ![cur[g]] = IF result[g] = "failed" THEN "failed" ELSE @]

\* UpdateStatus(completed or failed) sets the row, whatever its status is now.
SetOutcome(g) ==
    /\ status[cur[g]] # "gone"
    /\ status' = [status EXCEPT ![cur[g]] = result[g]]

Record(g) ==
    /\ pc[g] = "record"
    /\ Ok(g)
    /\ SetOutcome(g)
    /\ Return(g)
    /\ UNCHANGED <<jobType, inserted, lock, pool, restarts>>

\* UpdateStatus fails, or reports "job not found"; tryProcess only logs it.
RecordFails(g) ==
    /\ pc[g] = "record"
    /\ \/ Err(g)
       \/ Ok(g) /\ status[cur[g]] = "gone"
    /\ Return(g)
    /\ UNCHANGED <<db, pool, restarts>>

\* The connection or the context dies after the UPDATE took effect.
RecordReplyLost(g) ==
    /\ pc[g] = "record"
    /\ Err(g)
    /\ SetOutcome(g)
    /\ Return(g)
    /\ UNCHANGED <<jobType, inserted, lock, pool, restarts>>

Step(g) ==
    \/ Tick(g) \/ Exit(g) \/ EndPoll(g) \/ NextType(g)
    \/ ClaimNothing(g) \/ ClaimSelect(g) \/ ClaimFails(g)
    \/ ClaimCommit(g) \/ CommitFails(g)
    \/ Process(g)
    \/ Record(g) \/ RecordFails(g) \/ RecordReplyLost(g)
-----------------------------------------------------------------------------
(* A server process.                                                       *)

Of(s) == {g \in Goroutine : ServerOf[g] = s}

\* Stop cancels the context of the poll loops and waits for them.
Stop(s) ==
    /\ pool[s] = "up"
    /\ pool' = [pool EXCEPT ![s] = "stopping"]
    /\ UNCHANGED <<db, loops, faults, restarts>>

\* wg.Wait returned: "worker pool stopped gracefully".
StopReturns(s) ==
    /\ pool[s] = "stopping"
    /\ \A g \in Of(s) : pc[g] = "exited"
    /\ pool' = [pool EXCEPT ![s] = "stopped"]
    /\ UNCHANGED <<db, loops, faults, restarts>>

\* 30 seconds passed first.
StopTimesOut(s) ==
    /\ pool[s] = "stopping"
    /\ \E g \in Of(s) : pc[g] # "exited"
    /\ pool' = [pool EXCEPT ![s] = "timedout"]
    /\ UNCHANGED <<db, loops, faults, restarts>>

\* The process dies, after Stop or by a crash (a panic in Process takes it
\* down), and starts anew.  The database rolls its transactions back.
Restart(s) ==
    /\ restarts < MaxRestarts
    /\ restarts' = restarts + 1
    /\ pool' = [pool EXCEPT ![s] = "up"]
    /\ pc' = [g \in Goroutine |-> IF g \in Of(s) THEN "idle" ELSE pc[g]]
    /\ rest' = [g \in Goroutine |-> IF g \in Of(s) THEN {} ELSE rest[g]]
    /\ want' = [g \in Goroutine |-> IF g \in Of(s) THEN None ELSE want[g]]
    /\ cur' = [g \in Goroutine |-> IF g \in Of(s) THEN 0 ELSE cur[g]]
    /\ result' = [g \in Goroutine |-> IF g \in Of(s) THEN None ELSE result[g]]
    /\ lock' = [j \in Job |-> IF lock[j] \in Of(s) THEN None ELSE lock[j]]
    /\ UNCHANGED <<status, jobType, inserted, faults>>

Next ==
    \/ \E t \in Type : Create(t)
    \/ \E j \in Job : Remove(j)
    \/ \E g \in Goroutine : Step(g)
    \/ \E s \in Server : Stop(s) \/ StopReturns(s) \/ StopTimesOut(s) \/ Restart(s)

Spec == Init /\ [][Next]_vars

\* A live goroutine keeps running, a Process call returns (the providers'
\* calls end, with an error at the latest), wg.Wait returns once it can.  Go
\* picks among the ready branches of a select at random, so a loop whose
\* context is cancelled cannot take the ticker's branch for ever.
Fairness ==
    /\ \A g \in Goroutine : WF_vars(Step(g)) /\ SF_vars(Exit(g))
    /\ \A s \in Server : WF_vars(StopReturns(s))

FairSpec == Spec /\ Fairness
-----------------------------------------------------------------------------
(* Properties.                                                             *)

\* g is between a successful ClaimNext and the UpdateStatus that ends the job.
Holds(g, j) == pc[g] \in {"process", "record"} /\ cur[g] = j

\* No two goroutines, of one process or of two, work on the same job: what
\* FOR UPDATE SKIP LOCKED in ClaimNext is there for.
ExclusiveProcessing ==
    \A g, h \in Goroutine : \A j \in Job : Holds(g, j) /\ Holds(h, j) => g = h

\* A job somebody works on is running until that goroutine says otherwise,
\* unless its document was deleted: neither a second claim nor the unconditional
\* UpdateStatus of somebody else changes it under its holder.
HeldJobIsRunning ==
    \A g \in Goroutine : \A j \in Job : Holds(g, j) => status[j] \in {"running", "gone"}

\* The table seen as the abstract queue.
Holder == [j \in Job |-> IF \E g \in Goroutine : Holds(g, j)
                         THEN CHOOSE g \in Goroutine : Holds(g, j)
                         ELSE None]

Queue == INSTANCE JobQueue WITH holder <- Holder, NoOne <- None

\* The pool implements the abstract queue: a job is handed out at most once and
\* only its holder writes its outcome, through lost replies, Stop and crashes.
ImplementsQueue == Queue!Spec

\* As long as one process stays up, no queued job waits forever: every loop
\* tries every type on every tick, and a claim that failed is tried again.
EveryJobIsTaken ==
    (\E s \in Server : <>[](pool[s] = "up")) =>
        \A j \in Job : status[j] = "queued" ~> status[j] # "queued"

Calm == faults = 0 /\ restarts = 0 /\ \A s \in Server : pool[s] = "up"

\* Without failing statements, Stop and crashes, every job gets an outcome.
EveryJobEnds ==
    []Calm => \A j \in Job : status[j] = "queued" ~> status[j] \in Outcome \union {"gone"}

\* Stop returns: on a cancelled context every loop leaves, whatever it was doing.
StopEnds == \A s \in Server : pool[s] = "stopping" ~> pool[s] # "stopping"

\* pool.go:78, "Stop gracefully shuts down the pool, waiting for in-flight jobs
\* with a timeout": when nothing fails and the timeout has not passed, a
\* goroutine lets go of its job only by writing its outcome.
InFlightJobsFinish ==
    [][(\A s \in Server : pool[s] # "timedout") =>
          \A g \in Goroutine : \A j \in Job :
             Holds(g, j) /\ ~Holds(g, j)' => status'[j] \in Outcome \union {"gone"}]_vars
=============================================================================
