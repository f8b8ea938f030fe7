------------------------------ MODULE JobQueue ------------------------------
(***************************************************************************)
(* What the table processing_jobs promises to the rest of creel, whatever  *)
(* the interleaving of pollers, transactions, shutdowns and crashes: a job *)
(* is handed to at most one goroutine in its life, it never goes back to   *)
(* the queue, and its outcome is written by the goroutine that holds it.   *)
(* It does not promise that a job handed out is ever finished: a holder    *)
(* may abandon its job, which then stays "running".                        *)
(*                                                                         *)
(* WorkerPool, Pipeline and Memory implement this specification.           *)
(***************************************************************************)
CONSTANTS Job,        \* job ids (rows that exist, existed or will exist)
          Goroutine,  \* the poll loops of every server process
          NoOne       \* the holder of a job that nobody is processing

VARIABLES status,   \* the status column; "none" before the INSERT, "gone" after a DELETE
          holder    \* the goroutine whose Process call is working on the job

vars == <<status, holder>>

Status  == {"none", "queued", "running", "completed", "failed", "gone"}
Outcome == {"completed", "failed"}

TypeOK ==
    /\ status \in [Job -> Status]
    /\ holder \in [Job -> Goroutine \union {NoOne}]

Init ==
    /\ status = [j \in Job |-> "none"]
    /\ holder = [j \in Job |-> NoOne]

\* JobStore.Create, CreateWithProgress, CreateDocless: a new row is queued.
Create(j) ==
    /\ status[j] = "none"
    /\ status' = [status EXCEPT ![j] = "queued"]
    /\ UNCHANGED holder

\* ClaimNext returned j to g, which calls Process.
Claim(j, g) ==
    /\ status[j] = "queued"
    /\ status' = [status EXCEPT ![j] = "running"]
    /\ holder' = [holder EXCEPT ![j] = g]

\* ClaimNext committed, but its caller got an error: nobody will process j.
ClaimLost(j) ==
    /\ status[j] = "queued"
    /\ status' = [status EXCEPT ![j] = "running"]
    /\ UNCHANGED holder

\* UpdateStatus by the holder, after Process returned.
Finish(j, outcome) ==
    /\ holder[j] # NoOne
    /\ status[j] = "running"
    /\ status' = [status EXCEPT ![j] = outcome]
    /\ holder' = [holder EXCEPT ![j] = NoOne]

\* The holders of the jobs S let go without an outcome on record: a failed
\* UpdateStatus lets one go, the death of a process all those of its goroutines.
Abandon(S) ==
    /\ \A j \in S : holder[j] # NoOne
    /\ holder' = [j \in Job |-> IF j \in S THEN NoOne ELSE holder[j]]
    /\ UNCHANGED status

\* Rows disappear with the document they refer to (ON DELETE CASCADE).
Remove(S) ==
    /\ \A j \in S : status[j] \notin {"none", "gone"}
    /\ status' = [j \in Job |-> IF j \in S THEN "gone" ELSE status[j]]
    /\ UNCHANGED holder

Next ==
    \/ \E j \in Job :
          \/ Create(j)
          \/ \E g \in Goroutine : Claim(j, g)
          \/ ClaimLost(j)
          \/ \E outcome \in Outcome : Finish(j, outcome)
    \/ \E S \in SUBSET Job : Abandon(S) \/ Remove(S)

Spec == Init /\ [][Next]_vars
=============================================================================
