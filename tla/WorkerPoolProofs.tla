-------------------------- MODULE WorkerPoolProofs --------------------------
(***************************************************************************)
(* What WorkerPool guarantees for every number of servers, goroutines, job *)
(* types, jobs, failures and restarts.                                     *)
(*                                                                         *)
(* ExclusiveProcessing is not inductive: that a commit does not hand out a *)
(* job somebody already holds follows from the discipline of the row lock. *)
(* IInv adds it: a lock is held exactly by the transaction between its     *)
(* UPDATE and its COMMIT, a locked row is queued, a held job is running or *)
(* gone, and rows not yet inserted are in nobody's hands.                  *)
(***************************************************************************)
EXTENDS WorkerPool, TLAPS

\* The lock of a row belongs to the open transaction that selected it.
LockInv ==
    \A g \in Goroutine : \A j \in Job :
        lock[j] = g <=> (pc[g] = "commit" /\ cur[g] = j)

\* A row stays queued as long as it is locked.
LockedIsQueued == \A j \in Job : lock[j] # None => status[j] = "queued"

\* Ids are given out in the order of insertion.
FreshIsNone == \A j \in Job : j > inserted => status[j] = "none"

IInv ==
    /\ TypeOK
    /\ LockInv
    /\ LockedIsQueued
    /\ FreshIsNone
    /\ HeldJobIsRunning
    /\ ExclusiveProcessing

-----------------------------------------------------------------------------
(* Type correctness.                                                       *)

\* Every reachable state has the types of pool.go and job.go: the base of all
\* the other proofs.
THEOREM TypeCorrect == Spec => []TypeOK
<1>1. Init => TypeOK
  BY WorkerPoolAssumption DEF Init, TypeOK, Job, Status, PC, Pool
<1>2. TypeOK /\ [Next]_vars => TypeOK'
  <2> SUFFICES ASSUME TypeOK, [Next]_vars
               PROVE  TypeOK'
    OBVIOUS
  <2> USE WorkerPoolAssumption DEF TypeOK, Status, PC, Pool, Outcome, db, loops
  <2>1. ASSUME NEW t \in Type, Create(t) PROVE TypeOK'
    BY <2>1 DEF Create, Job
  <2>2. ASSUME NEW j \in Job, Remove(j) PROVE TypeOK'
    BY <2>2 DEF Remove
  <2>3. ASSUME NEW g \in Goroutine, Step(g) PROVE TypeOK'
    <3> USE DEF Err, Ok, Return
    <3>1. CASE Tick(g) BY <3>1 DEF Tick
    <3>2. CASE Exit(g) BY <3>2 DEF Exit
    <3>3. CASE EndPoll(g) BY <3>3 DEF EndPoll
    <3>4. CASE NextType(g) BY <3>4 DEF NextType
    <3>5. CASE ClaimNothing(g) BY <3>5 DEF ClaimNothing
    <3>6. CASE ClaimSelect(g) BY <3>6 DEF ClaimSelect, Job
    <3>7. CASE ClaimFails(g) BY <3>7 DEF ClaimFails
    <3>8. CASE ClaimCommit(g) BY <3>8 DEF ClaimCommit, EndClaim
    <3>9. CASE CommitFails(g) BY <3>9 DEF CommitFails, EndClaim
    <3>10. CASE Process(g) BY <3>10 DEF Process
    <3>11. CASE Record(g) BY <3>11 DEF Record, SetOutcome
    <3>12. CASE RecordFails(g) BY <3>12 DEF RecordFails
    <3>13. CASE RecordReplyLost(g) BY <3>13 DEF RecordReplyLost, SetOutcome
    <3> QED
      BY <2>3, <3>1, <3>2, <3>3, <3>4, <3>5, <3>6, <3>7, <3>8, <3>9, <3>10,
         <3>11, <3>12, <3>13 DEF Step
  <2>4. ASSUME NEW s \in Server, Stop(s) \/ StopReturns(s) \/ StopTimesOut(s) \/ Restart(s)
        PROVE  TypeOK'
    <3>1. CASE Stop(s) BY <3>1 DEF Stop
    <3>2. CASE StopReturns(s) BY <3>2 DEF StopReturns
    <3>3. CASE StopTimesOut(s) BY <3>3 DEF StopTimesOut
    <3>4. CASE Restart(s) BY <3>4 DEF Restart
    <3> QED BY <2>4, <3>1, <3>2, <3>3, <3>4
  <2>5. CASE UNCHANGED vars
    BY <2>5 DEF vars
  <2> QED BY <2>1, <2>2, <2>3, <2>4, <2>5 DEF Next
<1> QED BY <1>1, <1>2, PTL DEF Spec
-----------------------------------------------------------------------------
(* No job is processed by two goroutines, and nobody else touches a job    *)
(* that is being processed.                                                *)

\* Before Start no job exists and nothing is locked or held.
LEMMA InitIInv == Init => IInv
<1> SUFFICES ASSUME Init PROVE IInv
  OBVIOUS
<1>1. TypeOK
  BY WorkerPoolAssumption DEF Init, TypeOK, Job, Status, PC, Pool
<1>2. LockInv /\ LockedIsQueued /\ FreshIsNone
  BY WorkerPoolAssumption DEF Init, LockInv, LockedIsQueued, FreshIsNone
<1>3. HeldJobIsRunning /\ ExclusiveProcessing
  BY DEF Init, HeldJobIsRunning, ExclusiveProcessing, Holds
<1> QED BY <1>1, <1>2, <1>3 DEF IInv

\* The steps of a goroutine that leave the job table alone and do not reach
\* the part of the code that holds a lock or a job.
LEMMA QuietStep ==
    ASSUME IInv, NEW g \in Goroutine,
           UNCHANGED db,
           pc[g] # "commit",
           pc' = [pc EXCEPT ![g] = pc'[g]],
           pc'[g] \notin {"commit", "process"},
           cur' = [cur EXCEPT ![g] = cur'[g]],
           Holds(g, cur[g])' => Holds(g, cur[g]) /\ cur'[g] = cur[g]
    PROVE  LockInv' /\ LockedIsQueued' /\ FreshIsNone' /\ HeldJobIsRunning' /\ ExclusiveProcessing'
<1> USE WorkerPoolAssumption DEF IInv, TypeOK, db
<1>0. \A h \in Goroutine : h # g => pc'[h] = pc[h] /\ cur'[h] = cur[h]
  OBVIOUS
<1>1. LockInv'
  BY <1>0 DEF LockInv
<1>2. LockedIsQueued' /\ FreshIsNone'
  BY DEF LockedIsQueued, FreshIsNone
<1>3. \A h \in Goroutine : \A j \in Job : Holds(h, j)' => Holds(h, j)
  BY <1>0 DEF Holds
<1>4. HeldJobIsRunning' /\ ExclusiveProcessing'
  BY <1>3 DEF HeldJobIsRunning, ExclusiveProcessing
<1> QED BY <1>1, <1>2, <1>4

\* UpdateStatus by the holder g, with or without a reply.
LEMMA RecordStep ==
    ASSUME IInv, NEW g \in Goroutine,
           pc[g] = "record", SetOutcome(g), Return(g), UNCHANGED <<inserted, lock>>
    PROVE  LockInv' /\ LockedIsQueued' /\ FreshIsNone' /\ HeldJobIsRunning' /\ ExclusiveProcessing'
<1> USE WorkerPoolAssumption DEF IInv, TypeOK, Return, SetOutcome
<1>1. Holds(g, cur[g]) /\ cur[g] \in Job
  BY DEF Holds
<1>2. LockInv'
  BY DEF LockInv
<1>3. LockedIsQueued'
  BY <1>1 DEF LockedIsQueued, HeldJobIsRunning
<1>4. FreshIsNone'
  BY <1>1 DEF FreshIsNone, HeldJobIsRunning
<1>5. \A h \in Goroutine : \A j \in Job : Holds(h, j)' => Holds(h, j) /\ h # g
  BY DEF Holds
<1>6. HeldJobIsRunning' /\ ExclusiveProcessing'
  BY <1>1, <1>5 DEF HeldJobIsRunning, ExclusiveProcessing
<1> QED BY <1>2, <1>3, <1>4, <1>6

\* Every step of a poll loop (pollOnce, tryProcess, ClaimNext) keeps the
\* invariant: the row lock taken by the SELECT is what ClaimCommit relies on.
LEMMA GoroutineStep ==
    ASSUME IInv, NEW g \in Goroutine, Step(g)
    PROVE  LockInv' /\ LockedIsQueued' /\ FreshIsNone' /\ HeldJobIsRunning' /\ ExclusiveProcessing'
<1> USE WorkerPoolAssumption DEF IInv, TypeOK
<1>1. CASE Tick(g)
  BY <1>1, QuietStep DEF Tick, Holds, loops
<1>2. CASE Exit(g)
  BY <1>2, QuietStep DEF Exit, Holds, loops
<1>3. CASE EndPoll(g)
  BY <1>3, QuietStep DEF EndPoll, Holds, loops
<1>4. CASE NextType(g)
  BY <1>4, QuietStep DEF NextType, Holds, loops
<1>5. CASE ClaimNothing(g)
  BY <1>5, QuietStep DEF ClaimNothing, Return, Holds
<1>6. CASE ClaimFails(g)
  BY <1>6, QuietStep DEF ClaimFails, Return, Holds
<1>7. CASE Process(g)
  BY <1>7, QuietStep DEF Process, Holds
<1>8. CASE RecordFails(g)
  BY <1>8, QuietStep DEF RecordFails, Return, Holds
<1>9. CASE Record(g)
  BY <1>9, RecordStep DEF Record
<1>10. CASE RecordReplyLost(g)
  BY <1>10, RecordStep DEF RecordReplyLost
<1>11. CASE ClaimSelect(g)
  <2>1. PICK j \in Job : /\ status[j] = "queued" /\ lock[j] = None
                         /\ lock' = [lock EXCEPT ![j] = g]
                         /\ cur' = [cur EXCEPT ![g] = j]
    BY <1>11 DEF ClaimSelect, Oldest, Claimable
  <2>2. pc[g] = "claim" /\ pc' = [pc EXCEPT ![g] = "commit"] /\ UNCHANGED <<status, inserted>>
    BY <1>11 DEF ClaimSelect
  <2>3. LockInv'
    BY <2>1, <2>2 DEF LockInv
  <2>4. LockedIsQueued' /\ FreshIsNone'
    BY <2>1, <2>2 DEF LockedIsQueued, FreshIsNone
  <2>5. \A h \in Goroutine : \A k \in Job : Holds(h, k)' => Holds(h, k)
    BY <2>1, <2>2 DEF Holds
  <2> QED BY <2>2, <2>3, <2>4, <2>5 DEF HeldJobIsRunning, ExclusiveProcessing
<1>12. CASE ClaimCommit(g)
  <2> DEFINE j == cur[g]
  <2>1. j \in Job /\ lock[j] = g /\ status[j] = "queued"
    BY <1>12 DEF ClaimCommit, LockInv, LockedIsQueued
  <2>2. /\ status' = [status EXCEPT ![j] = "running"]
        /\ lock' = [lock EXCEPT ![j] = None]
        /\ pc' = [pc EXCEPT ![g] = "process"]
        /\ pc[g] = "commit"
        /\ UNCHANGED <<cur, inserted>>
    BY <1>12 DEF ClaimCommit, EndClaim
  <2>3. LockInv'
    BY <2>1, <2>2 DEF LockInv
  <2>4. LockedIsQueued' /\ FreshIsNone'
    BY <2>1, <2>2 DEF LockedIsQueued, FreshIsNone
  <2>5. \A h \in Goroutine : \A k \in Job : Holds(h, k)' <=> Holds(h, k) \/ (h = g /\ k = j)
    BY <2>2 DEF Holds
  <2>6. \A h \in Goroutine : ~Holds(h, j)
    BY <2>1 DEF HeldJobIsRunning
  <2> QED BY <2>1, <2>2, <2>3, <2>4, <2>5, <2>6 DEF HeldJobIsRunning, ExclusiveProcessing
<1>13. CASE CommitFails(g)
  <2> DEFINE j == cur[g]
  <2>1. j \in Job /\ lock[j] = g /\ status[j] = "queued"
    BY <1>13 DEF CommitFails, LockInv, LockedIsQueued
  <2>2. PICK st \in {"queued", "running"} :
          /\ status' = [status EXCEPT ![j] = st]
          /\ lock' = [lock EXCEPT ![j] = None]
    BY <1>13 DEF CommitFails, EndClaim
  <2>3. /\ pc' = [pc EXCEPT ![g] = "poll"]
        /\ pc[g] = "commit"
        /\ cur' = [cur EXCEPT ![g] = 0]
        /\ UNCHANGED inserted
    BY <1>13 DEF CommitFails, EndClaim, Return
  <2>4. LockInv'
    BY <2>1, <2>2, <2>3 DEF LockInv
  <2>5. LockedIsQueued' /\ FreshIsNone'
    BY <2>1, <2>2, <2>3 DEF LockedIsQueued, FreshIsNone
  <2>6. \A h \in Goroutine : \A k \in Job : Holds(h, k)' => Holds(h, k)
    BY <2>3 DEF Holds
  <2>7. \A h \in Goroutine : ~Holds(h, j)
    BY <2>1 DEF HeldJobIsRunning
  <2> QED BY <2>1, <2>2, <2>4, <2>5, <2>6, <2>7 DEF HeldJobIsRunning, ExclusiveProcessing
<1> QED
  BY <1>1, <1>2, <1>3, <1>4, <1>5, <1>6, <1>7, <1>8, <1>9, <1>10, <1>11, <1>12, <1>13
     DEF Step

\* A process dies: its goroutines let go of everything they had.
LEMMA RestartStep ==
    ASSUME IInv, NEW s \in Server, Restart(s)
    PROVE  LockInv' /\ LockedIsQueued' /\ FreshIsNone' /\ HeldJobIsRunning' /\ ExclusiveProcessing'
<1> USE WorkerPoolAssumption DEF IInv, TypeOK, Restart, Of
<1>1. LockInv'
  BY DEF LockInv
<1>2. LockedIsQueued' /\ FreshIsNone'
  BY DEF LockedIsQueued, FreshIsNone
<1>3. \A h \in Goroutine : \A j \in Job : Holds(h, j)' => Holds(h, j)
  BY DEF Holds
<1> QED BY <1>1, <1>2, <1>3 DEF HeldJobIsRunning, ExclusiveProcessing

\* The invariant is inductive, given the types.
LEMMA NextIInv == IInv /\ TypeOK' /\ [Next]_vars => IInv'
<1> SUFFICES ASSUME IInv, TypeOK', [Next]_vars
             PROVE  LockInv' /\ LockedIsQueued' /\ FreshIsNone' /\ HeldJobIsRunning' /\ ExclusiveProcessing'
  BY DEF IInv
<1> USE WorkerPoolAssumption DEF IInv, TypeOK
<1>1. ASSUME NEW t \in Type, Create(t)
      PROVE  LockInv' /\ LockedIsQueued' /\ FreshIsNone' /\ HeldJobIsRunning' /\ ExclusiveProcessing'
  <2> DEFINE n == inserted + 1
  <2>1. n \in Job /\ status[n] = "none"
    BY <1>1 DEF Create, Job, FreshIsNone
  <2>2. /\ status' = [status EXCEPT ![n] = "queued"]
        /\ inserted' = n
        /\ UNCHANGED <<lock, pc, cur>>
    BY <1>1 DEF Create, loops
  <2>3. LockInv'
    BY <2>2 DEF LockInv
  <2>4. LockedIsQueued' /\ FreshIsNone'
    BY <2>1, <2>2 DEF LockedIsQueued, FreshIsNone, Job
  <2>5. \A h \in Goroutine : \A j \in Job : (Holds(h, j)' <=> Holds(h, j)) /\ ~Holds(h, n)
    BY <1>1, <2>1 DEF Create, Holds, loops, HeldJobIsRunning
  <2> QED BY <2>1, <2>2, <2>3, <2>4, <2>5 DEF HeldJobIsRunning, ExclusiveProcessing
<1>2. ASSUME NEW j \in Job, Remove(j)
      PROVE  LockInv' /\ LockedIsQueued' /\ FreshIsNone' /\ HeldJobIsRunning' /\ ExclusiveProcessing'
  <2>1. LockInv' /\ LockedIsQueued' /\ FreshIsNone'
    BY <1>2 DEF Remove, LockInv, LockedIsQueued, FreshIsNone, loops
  <2>2. \A h \in Goroutine : \A k \in Job : Holds(h, k)' <=> Holds(h, k)
    BY <1>2 DEF Remove, Holds, loops
  <2> QED BY <1>2, <2>1, <2>2 DEF Remove, HeldJobIsRunning, ExclusiveProcessing
<1>3. ASSUME NEW g \in Goroutine, Step(g)
      PROVE  LockInv' /\ LockedIsQueued' /\ FreshIsNone' /\ HeldJobIsRunning' /\ ExclusiveProcessing'
  BY <1>3, GoroutineStep
<1>4. CASE UNCHANGED <<db, loops>>
  BY <1>4 DEF db, loops, LockInv, LockedIsQueued, FreshIsNone, HeldJobIsRunning,
              ExclusiveProcessing, Holds
<1>5. ASSUME NEW s \in Server, Stop(s) \/ StopReturns(s) \/ StopTimesOut(s)
      PROVE  UNCHANGED <<db, loops>>
  BY <1>5 DEF Stop, StopReturns, StopTimesOut
<1>6. ASSUME NEW s \in Server, Restart(s)
      PROVE  LockInv' /\ LockedIsQueued' /\ FreshIsNone' /\ HeldJobIsRunning' /\ ExclusiveProcessing'
  BY <1>6, RestartStep
<1> QED
  BY <1>1, <1>2, <1>3, <1>4, <1>5, <1>6 DEF Next, vars

\* The inductive invariant holds in every reachable state.
LEMMA Inductive == Spec => []IInv
<1>1. Init => IInv
  BY InitIInv
<1>2. IInv /\ TypeOK' /\ [Next]_vars => IInv'
  BY NextIInv
<1> QED BY <1>1, <1>2, TypeCorrect, PTL DEF Spec

\* What FOR UPDATE SKIP LOCKED buys, for any number of replicas and jobs: no
\* job is ever processed by two goroutines (pool.go:141, job.go:274-280).
THEOREM Exclusive == Spec => []ExclusiveProcessing
<1>1. IInv => ExclusiveProcessing
  BY DEF IInv
<1> QED BY <1>1, Inductive, PTL

\* Nobody but its holder changes the status of a job that is being processed:
\* the unconditional UpdateStatus (job.go:244) and ClaimNext never do.
THEOREM HeldIsRunning == Spec => []HeldJobIsRunning
<1>1. IInv => HeldJobIsRunning
  BY DEF IInv
<1> QED BY <1>1, Inductive, PTL
-----------------------------------------------------------------------------
(* The pool implements the abstract queue.                                 *)

\* Holder names the holder of each job: exclusiveness makes it unique.
HolderMatches ==
    /\ Holder \in [Job -> Goroutine \union {None}]
    /\ \A g \in Goroutine : \A j \in Job : Holder[j] = g <=> Holds(g, j)

\* Under exclusive processing the CHOOSE in Holder names the only candidate.
LEMMA HolderFact == IInv => HolderMatches
  BY WorkerPoolAssumption DEF IInv, ExclusiveProcessing, HolderMatches, Holder

\* The holders after a step, read off the program counters.
LEMMA HolderAfter ==
    ASSUME HolderMatches',
           NEW f \in [Job -> Goroutine \union {None}],
           \A g \in Goroutine : \A j \in Job : f[j] = g <=> Holds(g, j)'
    PROVE  Holder' = f
<1>1. \A j \in Job : Holder'[j] = f[j]
  BY WorkerPoolAssumption DEF HolderMatches
<1> QED BY <1>1 DEF HolderMatches

\* Goroutine g lets go of the job it holds.
LEMMA LetGo ==
    ASSUME HolderMatches, HolderMatches', NEW g \in Goroutine, NEW j \in Job, Holds(g, j),
           \A h \in Goroutine : \A k \in Job : Holds(h, k)' <=> Holds(h, k) /\ k # j
    PROVE  Holder' = [Holder EXCEPT ![j] = None]
<1> DEFINE f == [Holder EXCEPT ![j] = None]
<1>1. f \in [Job -> Goroutine \union {None}]
  BY DEF HolderMatches
<1>2. \A h \in Goroutine : \A k \in Job : f[k] = h <=> Holds(h, k)'
  BY WorkerPoolAssumption DEF HolderMatches
<1> HIDE DEF f
<1>3. Holder' = f
  BY <1>1, <1>2, HolderAfter
<1> QED BY <1>3 DEF f

\* A step that changes no goroutine's job changes no holder.
LEMMA SameHolder ==
    ASSUME HolderMatches, HolderMatches',
           \A h \in Goroutine : \A k \in Job : Holds(h, k)' <=> Holds(h, k)
    PROVE  Holder' = Holder
  BY HolderAfter DEF HolderMatches

\* UpdateStatus after Process (pool.go:163, 172) is Finish in the queue.
LEMMA RecordRefines ==
    ASSUME IInv, HolderMatches, HolderMatches', NEW g \in Goroutine,
           pc[g] = "record", SetOutcome(g), Return(g)
    PROVE  Queue!Next
<1> DEFINE j == cur[g]
<1> USE DEF IInv, TypeOK
<1>1. j \in Job /\ Holds(g, j) /\ status[j] = "running"
  BY DEF Holds, HeldJobIsRunning, SetOutcome
<1>2. \A h \in Goroutine : \A k \in Job : Holds(h, k)' <=> Holds(h, k) /\ k # j
  BY <1>1 DEF Holds, Return, ExclusiveProcessing
<1>3. Holder' = [Holder EXCEPT ![j] = None]
  BY <1>1, <1>2, LetGo
<1>4. Holder[j] # None
  BY <1>1, WorkerPoolAssumption DEF HolderMatches
<1>5. result[g] \in Queue!Outcome
  BY DEF Outcome, Queue!Outcome
<1>6. Queue!Finish(j, result[g])
  BY <1>1, <1>3, <1>4 DEF Queue!Finish, SetOutcome
<1> QED BY <1>1, <1>5, <1>6 DEF Queue!Next

\* An UpdateStatus that fails without effect, or finds no row, is Abandon.
LEMMA RecordFailsRefines ==
    ASSUME IInv, HolderMatches, HolderMatches', NEW g \in Goroutine, RecordFails(g)
    PROVE  Queue!Next
<1> DEFINE j == cur[g]
<1> USE DEF IInv, TypeOK
<1>1. j \in Job /\ Holds(g, j)
  BY DEF Holds, RecordFails
<1>2. \A h \in Goroutine : \A k \in Job : Holds(h, k)' <=> Holds(h, k) /\ k # j
  BY <1>1 DEF Holds, RecordFails, Return, ExclusiveProcessing
<1>3. Holder' = [Holder EXCEPT ![j] = None]
  BY <1>1, <1>2, LetGo
<1>4. Holder[j] # None
  BY <1>1, WorkerPoolAssumption DEF HolderMatches
<1>5. UNCHANGED status
  BY DEF RecordFails, db
<1>6. Holder' = [k \in Job |-> IF k \in {j} THEN None ELSE Holder[k]]
  BY <1>3 DEF HolderMatches
<1>7. Queue!Abandon({j})
  BY <1>4, <1>5, <1>6 DEF Queue!Abandon
<1> QED BY <1>1, <1>7 DEF Queue!Next

\* The commit of ClaimNext is the point where the queue hands out the job.
LEMMA CommitRefines ==
    ASSUME IInv, HolderMatches, HolderMatches', NEW g \in Goroutine, ClaimCommit(g)
    PROVE  Queue!Next
<1> DEFINE j == cur[g]
<1> DEFINE f == [Holder EXCEPT ![j] = g]
<1> USE DEF IInv, TypeOK
<1>1. j \in Job /\ status[j] = "queued"
  BY WorkerPoolAssumption DEF ClaimCommit, LockInv, LockedIsQueued
<1>2. \A h \in Goroutine : ~Holds(h, j)
  BY <1>1 DEF HeldJobIsRunning
<1>3. \A h \in Goroutine : \A k \in Job : Holds(h, k)' <=> Holds(h, k) \/ (h = g /\ k = j)
  BY DEF Holds, ClaimCommit, EndClaim
<1>4. f \in [Job -> Goroutine \union {None}]
  BY DEF HolderMatches
<1>5. \A h \in Goroutine : \A k \in Job : f[k] = h <=> Holds(h, k)'
  BY <1>2, <1>3 DEF HolderMatches
<1> HIDE DEF f
<1>6. Holder' = f
  BY <1>4, <1>5, HolderAfter
<1>7. Queue!Claim(j, g)
  BY <1>1, <1>6 DEF f, Queue!Claim, ClaimCommit, EndClaim
<1> QED BY <1>1, <1>7 DEF Queue!Next

\* A commit that fails is a stutter, one whose reply is lost is ClaimLost.
LEMMA CommitFailsRefines ==
    ASSUME IInv, HolderMatches, HolderMatches', NEW g \in Goroutine, CommitFails(g)
    PROVE  Queue!Next \/ UNCHANGED Queue!vars
<1> DEFINE j == cur[g]
<1> USE DEF IInv, TypeOK
<1>1. j \in Job /\ status[j] = "queued"
  BY WorkerPoolAssumption DEF CommitFails, LockInv, LockedIsQueued
<1>2. PICK st \in {"queued", "running"} : status' = [status EXCEPT ![j] = st]
  BY DEF CommitFails, EndClaim
<1>3. \A h \in Goroutine : \A k \in Job : Holds(h, k)' <=> Holds(h, k)
  BY DEF Holds, CommitFails, Return
<1>4. Holder' = Holder
  BY <1>3, SameHolder
<1>5. CASE st = "queued"
  BY <1>1, <1>2, <1>4, <1>5 DEF Queue!vars
<1>6. CASE st = "running"
  BY <1>1, <1>2, <1>4, <1>6 DEF Queue!ClaimLost, Queue!Next
<1> QED BY <1>5, <1>6

\* The death of a process abandons the jobs of all its goroutines at once.
LEMMA RestartRefines ==
    ASSUME IInv, HolderMatches, HolderMatches', NEW s \in Server, Restart(s)
    PROVE  Queue!Next
<1> DEFINE S == {j \in Job : Holder[j] \in Of(s)}
<1> DEFINE f == [j \in Job |-> IF j \in S THEN None ELSE Holder[j]]
<1> USE WorkerPoolAssumption
<1>1. \A h \in Goroutine : \A k \in Job : Holds(h, k)' <=> Holds(h, k) /\ h \notin Of(s)
  BY DEF Restart, Holds, IInv, TypeOK, Of
<1>2. f \in [Job -> Goroutine \union {None}]
  BY DEF HolderMatches
<1>3. \A h \in Goroutine : \A k \in Job : f[k] = h <=> Holds(h, k)'
  BY <1>1 DEF HolderMatches
<1> HIDE DEF f
<1>4. Holder' = f
  BY <1>2, <1>3, HolderAfter
<1>5. \A j \in S : Holder[j] # None
  BY DEF Of
<1>6. UNCHANGED status
  BY DEF Restart
<1>7. S \in SUBSET Job
  OBVIOUS
<1> HIDE DEF S
<1>8. Queue!Abandon(S)
  BY <1>4, <1>5, <1>6 DEF f, Queue!Abandon
<1> QED BY <1>7, <1>8 DEF Queue!Next

\* Every step of a poll loop is a step of the queue or leaves it alone.
LEMMA StepRefines ==
    ASSUME IInv, HolderMatches, HolderMatches', NEW g \in Goroutine, Step(g)
    PROVE  Queue!Next \/ UNCHANGED Queue!vars
<1>1. CASE Record(g) \/ RecordReplyLost(g)
  BY <1>1, RecordRefines DEF Record, RecordReplyLost
<1>2. CASE RecordFails(g)
  BY <1>2, RecordFailsRefines
<1>3. CASE ClaimCommit(g)
  BY <1>3, CommitRefines
<1>4. CASE CommitFails(g)
  BY <1>4, CommitFailsRefines
<1>5. CASE \/ Tick(g) \/ Exit(g) \/ EndPoll(g) \/ NextType(g) \/ ClaimNothing(g)
           \/ ClaimSelect(g) \/ ClaimFails(g) \/ Process(g)
  <2> USE DEF IInv, TypeOK, Holds
  <2>1. UNCHANGED status
    BY <1>5 DEF Tick, Exit, EndPoll, NextType, ClaimNothing, ClaimSelect, ClaimFails, Process, db
  <2>2. \/ /\ pc[g] \in {"idle", "poll", "claim"}
           /\ pc'[g] \notin {"process", "record"}
        \/ pc[g] = "process" /\ pc'[g] = "record" /\ cur'[g] = cur[g]
    BY <1>5 DEF Tick, Exit, EndPoll, NextType, ClaimNothing, ClaimSelect, ClaimFails, Process, Return
  <2>3. \A h \in Goroutine : h # g => pc'[h] = pc[h] /\ cur'[h] = cur[h]
    BY <1>5 DEF Tick, Exit, EndPoll, NextType, ClaimNothing, ClaimSelect, ClaimFails, Process, Return
  <2>4. \A h \in Goroutine : \A k \in Job : Holds(h, k)' <=> Holds(h, k)
    BY <2>2, <2>3
  <2> QED BY <2>1, <2>4, SameHolder DEF Queue!vars
<1> QED BY <1>1, <1>2, <1>3, <1>4, <1>5 DEF Step

\* So is every step of the pool.
LEMMA NextRefines ==
    IInv /\ HolderMatches /\ HolderMatches' /\ [Next]_vars => [Queue!Next]_(Queue!vars)
<1> SUFFICES ASSUME IInv, HolderMatches, HolderMatches', [Next]_vars
             PROVE  Queue!Next \/ UNCHANGED Queue!vars
  OBVIOUS
<1>1. ASSUME NEW t \in Type, Create(t)
      PROVE  Queue!Next
  <2> DEFINE n == inserted + 1
  <2>1. n \in Job /\ status[n] = "none"
    BY <1>1, WorkerPoolAssumption DEF IInv, TypeOK, Create, Job, FreshIsNone
  <2>2. Holder' = Holder
    BY <1>1, SameHolder DEF Create, Holds, loops
  <2>3. Queue!Create(n)
    BY <1>1, <2>1, <2>2 DEF Create, Queue!Create
  <2> QED BY <2>1, <2>3 DEF Queue!Next
<1>2. ASSUME NEW j \in Job, Remove(j)
      PROVE  Queue!Next
  <2>1. Holder' = Holder
    BY <1>2, SameHolder DEF Remove, Holds, loops
  <2>2. status[j] \notin {"none", "gone"} /\ status' = [status EXCEPT ![j] = "gone"]
    BY <1>2 DEF Remove
  <2>3. status' = [i \in Job |-> IF i \in {j} THEN "gone" ELSE status[i]]
    BY <2>2 DEF IInv, TypeOK
  <2>4. Queue!Remove({j})
    BY <2>1, <2>2, <2>3 DEF Queue!Remove
  <2> QED BY <2>4 DEF Queue!Next
<1>3. ASSUME NEW g \in Goroutine, Step(g)
      PROVE  Queue!Next \/ UNCHANGED Queue!vars
  BY <1>3, StepRefines
<1>4. ASSUME NEW s \in Server, Restart(s)
      PROVE  Queue!Next
  BY <1>4, RestartRefines
<1>5. CASE UNCHANGED <<db, loops>>
  <2>1. UNCHANGED status
    BY <1>5 DEF db
  <2>2. Holder' = Holder
    BY <1>5, SameHolder DEF Holds, loops
  <2> QED BY <2>1, <2>2 DEF Queue!vars
<1>6. ASSUME NEW s \in Server, Stop(s) \/ StopReturns(s) \/ StopTimesOut(s)
      PROVE  UNCHANGED <<db, loops>>
  BY <1>6 DEF Stop, StopReturns, StopTimesOut
<1> QED
  BY <1>1, <1>2, <1>3, <1>4, <1>5, <1>6 DEF Next, vars

\* For any number of replicas, loops and jobs, and whatever fails: a job is
\* handed out at most once and only its holder writes its outcome.
THEOREM PoolImplementsQueue == Spec => ImplementsQueue
<1>1. Init => Queue!Init
  <2> SUFFICES ASSUME Init PROVE Queue!Init
    OBVIOUS
  <2>1. \A g \in Goroutine : \A j \in Job : ~Holds(g, j)
    BY DEF Init, Holds
  <2>2. Holder = [j \in Job |-> None]
    BY <2>1 DEF Holder
  <2> QED BY <2>2 DEF Init, Queue!Init
<1>2. IInv => HolderMatches
  BY HolderFact
<1>3. IInv /\ HolderMatches /\ HolderMatches' /\ [Next]_vars => [Queue!Next]_(Queue!vars)
  BY NextRefines
<1> QED BY <1>1, <1>2, <1>3, Inductive, PTL DEF Spec, ImplementsQueue, Queue!Spec
=============================================================================
