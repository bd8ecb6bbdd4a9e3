--------------------------- MODULE JobQueueProofs ---------------------------
(***************************************************************************)
(* Proofs about JobQueue, for every set of jobs, workers and instances and *)
(* every value of the bounds.  The type invariant is inductive.  With it,  *)
(* ClaimsArePaid is inductive as it stands: each action that changes the   *)
(* status of a job changes its counters to match.                          *)
(***************************************************************************)
EXTENDS JobQueue, FiniteSetTheorems, TLAPS

\* Only NoExec differs from the record that a claim writes.
LEMMA ExecTypes == NoExec \in Exec /\ Done \in Exec
  BY BoundsAssumption DEF NoExec, Done, Exec, Phases

\* Initially the tables are empty.
LEMMA InitTypeOK == Init => TypeOK
  BY BoundsAssumption, ExecTypes
  DEF Init, TypeOK, Job, Status, RowStatus

\* A job's record after the columns that the queries write are written.
LEMMA JobWrites ==
  ASSUME NEW r \in Job, NEW s \in Status, NEW o \in Workers \union {NoWorker},
         NEW d \in BOOLEAN
  PROVE  /\ [r EXCEPT !.status = s] \in Job
         /\ [r EXCEPT !.owner = o] \in Job
         /\ [r EXCEPT !.due = d] \in Job
         /\ [r EXCEPT !.status = s, !.owner = o] \in Job
         /\ [r EXCEPT !.status = s, !.due = d] \in Job
  BY DEF Job

\* An execution's record after a step of the execution or a signal.
LEMMA ExecWrites ==
  ASSUME NEW r \in Exec, NEW p \in Phases,
         NEW s \in {"none", "cancelled", "interrupted"}
  PROVE  /\ [r EXCEPT !.phase = p] \in Exec
         /\ [r EXCEPT !.sig = s] \in Exec
  BY DEF Exec

\* What a reset of the jobs in S does to the types.
LEMMA ResetJobsType ==
  ASSUME TypeOK, NEW S \in SUBSET Jobs, ResetJobs(S)
  PROVE  job' \in [Jobs -> Job] /\ resets' \in [Jobs -> Nat]
<1>1. \A j \in Jobs : job[j] \in Job /\ resets[j] \in Nat
  BY DEF TypeOK
<1>2. \A j \in Jobs : [job[j] EXCEPT !.status = "pending", !.owner = NoWorker] \in Job
  BY <1>1, JobWrites DEF Status
<1>3. job' \in [Jobs -> Job]
  BY <1>1, <1>2 DEF ResetJobs
<1>4. \A j \in Jobs : (IF j \in S THEN resets[j] + 1 ELSE resets[j]) \in Nat
  BY <1>1
<1>5. resets' \in [Jobs -> Nat]
  BY <1>4 DEF ResetJobs
<1> QED BY <1>3, <1>5

\* Deleting rows clears owners and nothing else.
LEMMA DeleteRowsType ==
  ASSUME TypeOK, NEW R \in SUBSET Workers, DeleteRows(R)
  PROVE  /\ job' \in [Jobs -> Job]
         /\ reg' \in [Workers -> RowStatus]
         /\ hb' \in [Workers -> {"fresh", "stale"}]
<1>1. \A j \in Jobs : job[j] \in Job /\ [job[j] EXCEPT !.owner = NoWorker] \in Job
  BY JobWrites DEF TypeOK, Status
<1>2. job' \in [Jobs -> Job]
  BY <1>1 DEF DeleteRows
<1>3. reg' \in [Workers -> RowStatus] /\ hb' \in [Workers -> {"fresh", "stale"}]
  BY DEF TypeOK, DeleteRows, RowStatus
<1> QED BY <1>2, <1>3

\* A write that is guarded by status = running.
LEMMA IfRunningType ==
  ASSUME TypeOK, NEW j \in Jobs, NEW s \in {"completed", "failed"}
  PROVE  IfRunning(j, s) \in [Jobs -> Job]
<1>1. job[j] \in Job /\ [job[j] EXCEPT !.status = s] \in Job
  BY JobWrites DEF TypeOK, Status
<1>2. IfRunning(j, s) =
        [job EXCEPT ![j] = IF job[j].status = "running"
                           THEN [job[j] EXCEPT !.status = s] ELSE job[j]]
  BY <1>1 DEF TypeOK, IfRunning, Job
<1> QED BY <1>1, <1>2 DEF TypeOK

\* A retry stays within max_retries because of its guard.
LEMMA RequeueType ==
  ASSUME TypeOK, NEW j \in Jobs, NEW from, CanRequeue(j, from)
  PROVE  Requeue(j) \in [Jobs -> Job]
<1>1. job[j].retries + 1 \in 0..MaxRetries
  BY BoundsAssumption DEF TypeOK, CanRequeue, Job
<1> QED BY <1>1 DEF TypeOK, Requeue, Job, Status

\* Signalling executions keeps their type.
LEMMA CancelType ==
  ASSUME TypeOK, NEW W \in SUBSET Workers, NEW j \in Jobs
  PROVE  Cancel(W, j) \in [Execs -> Exec]
<1>1. \A e \in Execs : exec[e] \in Exec
  BY DEF TypeOK
<1>2. \A r \in Exec : [r EXCEPT !.sig = "cancelled"] \in Exec
  BY DEF Exec
<1> QED BY <1>1, <1>2 DEF Cancel

LEMMA PhaseType ==
  ASSUME TypeOK, NEW e \in Execs, NEW p \in Phases, Phase(e, p)
  PROVE  exec' \in [Execs -> Exec]
<1>1. exec[e] \in Exec /\ [exec[e] EXCEPT !.phase = p] \in Exec
  BY ExecWrites DEF TypeOK
<1> QED BY <1>1 DEF Phase, TypeOK

\* The steps of users preserve the type invariant.
LEMMA UserTypeOK == TypeOK /\ UserStep => TypeOK'
<1> SUFFICES ASSUME TypeOK, UserStep PROVE TypeOK' OBVIOUS
<1> USE DEF dbVars, rowVars, lifeVars, loopVars, execVars
<1>1. ASSUME NEW j \in Jobs, SubmitJob(j) PROVE TypeOK'
  <2>1. PICK due \in BOOLEAN :
          job' = [job EXCEPT ![j] = [job[j] EXCEPT !.status = "pending", !.due = due]]
    BY <1>1 DEF SubmitJob
  <2>2. [job[j] EXCEPT !.status = "pending", !.due = due] \in Job
    BY job[j] \in Job, JobWrites DEF TypeOK, Status
  <2>3. job' \in [Jobs -> Job]
    BY <2>1, <2>2 DEF TypeOK
  <2> QED BY <1>1, <2>3 DEF SubmitJob, TypeOK
<1>2. ASSUME NEW j \in Jobs, RetryJob(j) PROVE TypeOK'
  <2>1. job' \in [Jobs -> Job]
    BY <1>2, RequeueType DEF RetryJob, Status
  <2> QED BY <1>2, <2>1 DEF RetryJob, TypeOK
<1>3. ASSUME NEW j \in Jobs, BecomesDue(j) PROVE TypeOK'
  <2>0. job[j] \in Job
    BY DEF TypeOK
  <2>1. [job[j] EXCEPT !.due = TRUE] \in Job
    BY <2>0 DEF Job
  <2>2. job' = [job EXCEPT ![j] = [job[j] EXCEPT !.due = TRUE]]
    BY <1>3 DEF BecomesDue
  <2>3. job' \in [Jobs -> Job]
    BY <2>1, <2>2 DEF TypeOK
  <2> QED BY <1>3, <2>3 DEF BecomesDue, TypeOK
<1>4. ASSUME NEW i \in Instances, NEW j \in Jobs, CancelJob(i, j) PROVE TypeOK'
  <2>1. job' \in [Jobs -> Job]
    BY <1>4, job[j] \in Job, JobWrites DEF CancelJob, TypeOK, Status
  <2>2. cancels' \subseteq Instances \X Jobs
    BY <1>4 DEF CancelJob, TypeOK
  <2> QED BY <1>4, <2>1, <2>2 DEF CancelJob, TypeOK
<1>5. ASSUME NEW i \in Instances, NEW j \in Jobs, SignalWorkers(i, j) PROVE TypeOK'
  <2>1. exec' \in [Execs -> Exec]
    BY <1>5, CancelType DEF SignalWorkers
  <2>2. cancels' \subseteq Instances \X Jobs
    BY <1>5 DEF SignalWorkers, TypeOK
  <2> QED BY <1>5, <2>1, <2>2 DEF SignalWorkers, TypeOK
<1> QED BY <1>1, <1>2, <1>3, <1>4, <1>5 DEF UserStep

\* The end of a process clears what it kept in memory.
LEMMA EndProcessType ==
  ASSUME TypeOK, NEW i \in Instances, EndProcess(i)
  PROVE  TypeOK'
<1> USE DEF dbVars, rowVars
<1>1. inst' \in [Instances -> {"off", "recovering", "up", "stopping", "gone"}]
  BY DEF EndProcess, TypeOK
<1>2. proc' \in [Workers -> {"new", "up", "signalled", "draining", "stopped", "dead"}]
  BY DEF EndProcess, TypeOK
<1>3. /\ beat' \in [Workers -> BOOLEAN]
      /\ poll' \in [Workers -> BOOLEAN]
      /\ sweep' \in [Workers -> BOOLEAN]
  BY DEF EndProcess, TypeOK
<1>4. timing' \in [Workers -> [Jobs -> {"no", "listed", "signalled"}]]
  BY DEF EndProcess, TypeOK
<1>5. exec' \in [Execs -> Exec]
  <2>1. \A e \in Execs : exec[e] \in Exec
    BY DEF TypeOK
  <2> QED BY <2>1, ExecTypes DEF EndProcess
<1>6. slot' \in [Workers -> [Jobs -> 0..MaxClaims]]
  <2>1. [j \in Jobs |-> 0] \in [Jobs -> 0..MaxClaims]
    BY BoundsAssumption
  <2> QED BY <2>1 DEF EndProcess, TypeOK
<1>7. cancels' \subseteq Instances \X Jobs
  BY DEF EndProcess, TypeOK
<1>8. UNCHANGED <<job, resets, claims, reg, hb>>
  BY DEF EndProcess
<1> QED BY <1>1, <1>2, <1>3, <1>4, <1>5, <1>6, <1>7, <1>8 DEF TypeOK

\* The steps of managers preserve the type invariant.
LEMMA ManagerTypeOK == TypeOK /\ ManagerStep => TypeOK'
<1> SUFFICES ASSUME TypeOK, ManagerStep PROVE TypeOK' OBVIOUS
<1> USE DEF dbVars, rowVars, lifeVars, loopVars, execVars
<1>1. ASSUME NEW i \in Instances, RecoverStaleJobs(i) PROVE TypeOK'
  <2>1. PICK S \in SUBSET Jobs : ResetJobs(S)
    BY <1>1 DEF RecoverStaleJobs, Orphans, RunningJobs
  <2>2. job' \in [Jobs -> Job] /\ resets' \in [Jobs -> Nat]
    BY <2>1, ResetJobsType
  <2> QED BY <1>1, <2>2 DEF RecoverStaleJobs, TypeOK
<1>2. ASSUME NEW i \in Instances, CleanupAtStart(i) PROVE TypeOK'
  <2>1. /\ job' \in [Jobs -> Job]
        /\ reg' \in [Workers -> RowStatus]
        /\ hb' \in [Workers -> {"fresh", "stale"}]
    BY <1>2, StaleRows \in SUBSET Workers, DeleteRowsType DEF CleanupAtStart, StaleRows
  <2> QED BY <1>2, <2>1 DEF CleanupAtStart, TypeOK
<1>3. ASSUME NEW i \in Instances, StopManager(i) PROVE TypeOK'
  BY <1>3 DEF StopManager, TypeOK
<1>4. ASSUME NEW i \in Instances, ProcessExit(i) \/ Crash(i) PROVE TypeOK'
  BY <1>4, EndProcessType DEF ProcessExit, Crash
<1> QED BY <1>1, <1>2, <1>3, <1>4 DEF ManagerStep

\* The steps of a worker's life preserve the type invariant.
LEMMA LifeTypeOK == ASSUME TypeOK, NEW w \in Workers, LifeStep(w) PROVE TypeOK'
<1> USE DEF dbVars, rowVars, lifeVars, loopVars, execVars
<1>1. CASE StartWorker(w)
  BY <1>1 DEF StartWorker, TypeOK, RowStatus
<1>2. CASE Heartbeat(w)
  BY <1>2 DEF Heartbeat, TypeOK, RowStatus
<1>3. CASE HeartbeatGoesStale(w)
  BY <1>3 DEF HeartbeatGoesStale, TypeOK
<1>4. CASE SignalShutdown(w)
  BY <1>4 DEF SignalShutdown, TypeOK
<1>5. CASE HeartbeatLoopExits(w)
  BY <1>5 DEF HeartbeatLoopExits, UpdateWorkerStatus, TypeOK, RowStatus
<1>6. CASE BeginDrain(w)
  BY <1>6 DEF BeginDrain, UpdateWorkerStatus, TypeOK, RowStatus
<1>7. CASE DrainCompletes(w)
  BY <1>7 DEF DrainCompletes, TypeOK
<1>8. CASE DrainTimesOut(w)
  <2>1. \A e \in Execs : exec[e] \in Exec
    BY DEF TypeOK
  <2>2. \A r \in Exec : [r EXCEPT !.sig = "interrupted"] \in Exec
    BY DEF Exec
  <2>3. exec' \in [Execs -> Exec]
    BY <1>8, <2>1, <2>2 DEF DrainTimesOut
  <2>4. job' \in [Jobs -> Job]
    BY <1>8 DEF DrainTimesOut, InterruptJob, QueueStatusCheck, TypeOK
  <2> QED BY <1>8, <2>3, <2>4 DEF DrainTimesOut, TypeOK
<1> QED BY <1>1, <1>2, <1>3, <1>4, <1>5, <1>6, <1>7, <1>8 DEF LifeStep

\* The steps of a worker's loops preserve the type invariant.
LEMMA LoopTypeOK == ASSUME TypeOK, NEW w \in Workers, LoopStep(w) PROVE TypeOK'
<1> USE DEF dbVars, rowVars, lifeVars, loopVars, execVars
<1>1. CASE PollChecks(w)
  BY <1>1 DEF PollChecks, TypeOK
<1>2. CASE ClaimsNothing(w)
  BY <1>2 DEF ClaimsNothing, TypeOK
<1>3. CASE SweepWorkers(w)
  <2>1. PICK R \in SUBSET Workers : DeleteRows(R)
    BY <1>3 DEF SweepWorkers, StaleRows
  <2>2. /\ job' \in [Jobs -> Job]
        /\ reg' \in [Workers -> RowStatus]
        /\ hb' \in [Workers -> {"fresh", "stale"}]
    BY <2>1, DeleteRowsType
  <2> QED BY <1>3, <2>2 DEF SweepWorkers, TypeOK
<1>4. CASE SweepOrphans(w)
  <2>1. PICK S \in SUBSET Jobs : ResetJobs(S)
    BY <1>4 DEF SweepOrphans, Orphans, RunningJobs
  <2>2. job' \in [Jobs -> Job] /\ resets' \in [Jobs -> Nat]
    BY <2>1, ResetJobsType
  <2> QED BY <1>4, <2>2 DEF SweepOrphans, TypeOK
<1>5. CASE ListOverdueJobs(w)
  BY <1>5 DEF ListOverdueJobs, TypeOK
<1>6. ASSUME NEW j \in Jobs, ClaimNextJob(w, j) PROVE TypeOK'
  <2>1. job[j] \in Job /\ claims[j] \in 0..MaxClaims /\ claims[j] < MaxClaims
    BY <1>6 DEF ClaimNextJob, Claimable, TypeOK
  <2>2. job' \in [Jobs -> Job]
    BY <1>6, <2>1, JobWrites DEF ClaimNextJob, TypeOK, Status
  <2>3. claims[j] + 1 \in 1..MaxClaims /\ claims' \in [Jobs -> 0..MaxClaims]
    BY <1>6, <2>1, BoundsAssumption DEF ClaimNextJob, TypeOK
  <2>4. [phase |-> "claimed", by |-> w, seen |-> job[j].retries, sig |-> "none"] \in Exec
    BY <2>1 DEF Job, Exec, Phases
  <2>5. exec' \in [Execs -> Exec]
    BY <1>6, <2>4 DEF ClaimNextJob, TypeOK
  <2> QED BY <1>6, <2>2, <2>3, <2>5 DEF ClaimNextJob, TypeOK
<1>7. ASSUME NEW j \in Jobs, TimeoutSignals(w, j) PROVE TypeOK'
  <2>1. exec' \in [Execs -> Exec]
    BY <1>7, {w} \in SUBSET Workers, CancelType DEF TimeoutSignals
  <2>2. timing' \in [Workers -> [Jobs -> {"no", "listed", "signalled"}]]
    BY <1>7 DEF TimeoutSignals, TypeOK
  <2> QED BY <1>7, <2>1, <2>2 DEF TimeoutSignals, TypeOK
<1>8. ASSUME NEW j \in Jobs, TimeoutFails(w, j) PROVE TypeOK'
  <2>1. job' \in [Jobs -> Job]
    BY <1>8, IfRunningType, job \in [Jobs -> Job] DEF TimeoutFails, FailJob, TypeOK
  <2>2. timing' \in [Workers -> [Jobs -> {"no", "listed", "signalled"}]]
    BY <1>8 DEF TimeoutFails, TypeOK
  <2> QED BY <1>8, <2>1, <2>2 DEF TimeoutFails, TypeOK
<1> QED BY <1>1, <1>2, <1>3, <1>4, <1>5, <1>6, <1>7, <1>8 DEF LoopStep

\* The steps of an execution preserve the type invariant.
LEMMA ExecTypeOK == ASSUME TypeOK, NEW e \in Execs, ExecStep(e) PROVE TypeOK'
<1> USE DEF dbVars, rowVars, lifeVars, loopVars, execVars
<1>e. e[1] \in Jobs /\ e[2] \in 0..MaxClaims /\ 0 \in 0..MaxClaims
  BY BoundsAssumption DEF Execs
<1>s. ASSUME NEW w, NEW n \in 0..MaxClaims
      PROVE  [slot EXCEPT ![w][e[1]] = n] \in [Workers -> [Jobs -> 0..MaxClaims]]
  BY <1>e DEF TypeOK
<1>d. [exec EXCEPT ![e] = Done] \in [Execs -> Exec]
  BY ExecTypes DEF TypeOK
<1>f. job \in [Jobs -> Job] /\ FailJob(e[1]) \in [Jobs -> Job]
  BY <1>e, IfRunningType DEF TypeOK, FailJob
<1>1. CASE BeginExecution(e)
  <2>1. exec' \in [Execs -> Exec]
    BY <1>1, PhaseType DEF BeginExecution, Phases
  <2> QED BY <1>1, <1>e, <1>s, <2>1 DEF BeginExecution, TypeOK
<1>2. CASE ScriptEnds(e)
  <2>1. exec' \in [Execs -> Exec]
    BY <1>2, PhaseType DEF ScriptEnds, Phases
  <2> QED BY <1>2, <2>1 DEF ScriptEnds, TypeOK
<1>3. CASE ExecutionPanics(e)
  <2>1. exec' \in [Execs -> Exec]
    BY <1>3, PhaseType DEF ExecutionPanics, Phases
  <2> QED BY <1>3, <1>e, <1>s, <2>1 DEF ExecutionPanics, TypeOK
<1>4. CASE PanicFailsJob(e)
  <2>1. job' \in [Jobs -> Job]
    BY <1>4, <1>f DEF PanicFailsJob
  <2> QED BY <1>4, <1>d, <2>1 DEF PanicFailsJob, TypeOK
<1>5. CASE WriteCompleted(e)
  <2>1. job' \in [Jobs -> Job]
    BY <1>5, <1>e, <1>f, IfRunningType DEF WriteCompleted, CompleteJob
  <2>2. exec' \in [Execs -> Exec]
    BY <1>5, PhaseType DEF WriteCompleted, Phases
  <2> QED BY <1>5, <2>1, <2>2 DEF WriteCompleted, TypeOK
<1>6. CASE WriteRequeue(e)
  <2>1. job' \in [Jobs -> Job]
    BY <1>6, <1>e, <1>f, RequeueType DEF WriteRequeue
  <2>2. exec' \in [Execs -> Exec]
    BY <1>6, PhaseType DEF WriteRequeue, Phases
  <2> QED BY <1>6, <2>1, <2>2 DEF WriteRequeue, TypeOK
<1>7. CASE WriteFailed(e)
  <2>1. job' \in [Jobs -> Job]
    BY <1>7, <1>f DEF WriteFailed
  <2>2. exec' \in [Execs -> Exec]
    BY <1>7, PhaseType DEF WriteFailed, Phases
  <2> QED BY <1>7, <2>1, <2>2 DEF WriteFailed, TypeOK
<1>8. CASE Unwind(e)
  BY <1>8, <1>d, <1>e, <1>s DEF Unwind, TypeOK
<1> QED BY <1>1, <1>2, <1>3, <1>4, <1>5, <1>6, <1>7, <1>8 DEF ExecStep

\* Every step preserves the type invariant.
LEMMA NextTypeOK == TypeOK /\ [Next]_vars => TypeOK'
<1>1. TypeOK /\ Next => TypeOK'
  BY UserTypeOK, ManagerTypeOK, LifeTypeOK, LoopTypeOK, ExecTypeOK DEF Next
<1>2. TypeOK /\ UNCHANGED vars => TypeOK'
  BY DEF TypeOK, vars, dbVars, rowVars, lifeVars, loopVars, execVars
<1> QED BY <1>1, <1>2

\* The tables, the workers' flags and the executions keep their types; in
\* particular retry_count never exceeds max_retries (storage_queue.go,
\* requeueJobWithStatus).
THEOREM TypeCorrect == Spec => []TypeOK
  BY InitTypeOK, NextTypeOK, PTL DEF Spec

-----------------------------------------------------------------------------
(***************************************************************************)
(* What a step does to the columns that a user sees and to the counters.   *)
(* Either nothing, or one job makes one of the moves of JobLifecycle, or   *)
(* the jobs of dead workers are recovered together.                        *)
(***************************************************************************)
Same(j) == /\ job'[j].status = job[j].status
           /\ job'[j].retries = job[j].retries
           /\ resets'[j] = resets[j]
           /\ claims'[j] = claims[j]

Moves(j, from, to, retried, recovered, claimed) ==
    /\ job[j].status \in from
    /\ job'[j].status = to
    /\ job'[j].retries = job[j].retries + retried
    /\ resets'[j] = resets[j] + recovered
    /\ claims'[j] = claims[j] + claimed

Submitted(j) == Moves(j, {"none"}, "pending", 0, 0, 0)
Claimed(j) == Moves(j, {"pending"}, "running", 0, 0, 1)
Finished(j) == \/ Moves(j, {"running"}, "completed", 0, 0, 0)
               \/ Moves(j, {"running"}, "failed", 0, 0, 0)
Cancelled(j) == Moves(j, {"pending", "running"}, "cancelled", 0, 0, 0)
Retried(j) == /\ Moves(j, {"running", "failed"}, "pending", 1, 0, 0)
              /\ job[j].retries < MaxRetries
Recovered(j) == Moves(j, {"running"}, "pending", 0, 1, 0)

Quiet == \A k \in Jobs : Same(k)
OneMoves == \E j \in Jobs :
    /\ Submitted(j) \/ Claimed(j) \/ Finished(j) \/ Cancelled(j) \/ Retried(j)
    /\ \A k \in Jobs \ {j} : Same(k)
SomeRecover == \E S \in SUBSET Jobs :
    \A k \in Jobs : IF k \in S THEN Recovered(k) ELSE Same(k)

\* A step that leaves the table and the counters alone.
LEMMA QuietStep ==
  ASSUME UNCHANGED <<job, resets, claims>>
  PROVE  Quiet
  BY DEF Quiet, Same

\* Two facts that every case needs.
LEMMA JobFacts ==
  ASSUME TypeOK
  PROVE  /\ job \in [Jobs -> Job] /\ resets \in [Jobs -> Nat]
         /\ claims \in [Jobs -> Nat]
         /\ \A j \in Jobs : /\ job[j].status \in Status
                            /\ job[j].retries \in Nat
                            /\ resets[j] \in Nat
                            /\ claims[j] \in Nat
<1>1. claims \in [Jobs -> Nat]
  BY BoundsAssumption DEF TypeOK
<1>2. \A j \in Jobs : job[j] \in Job
  BY DEF TypeOK
<1>3. \A j \in Jobs : job[j].status \in Status /\ job[j].retries \in Nat
  BY <1>2, BoundsAssumption DEF Job
<1> QED BY <1>1, <1>3 DEF TypeOK

\* CompleteJob and FailJob end a running job and touch no other.
LEMMA IfRunningMoves ==
  ASSUME TypeOK, NEW j \in Jobs, NEW s \in {"completed", "failed"},
         job' = IfRunning(j, s), UNCHANGED <<resets, claims>>
  PROVE  Quiet \/ OneMoves
<1> USE JobFacts
<1>1. \A k \in Jobs \ {j} : Same(k)
  BY DEF IfRunning, Same
<1>2. CASE job[j].status = "running"
  <2>1. Finished(j)
    BY <1>2 DEF IfRunning, Finished, Moves, Job
  <2> QED BY <1>1, <2>1 DEF OneMoves
<1>3. CASE job[j].status # "running"
  <2>1. Same(j)
    BY <1>3 DEF IfRunning, Same, Job
  <2> QED BY <1>1, <2>1 DEF Quiet
<1> QED BY <1>2, <1>3

\* requeueJobWithStatus counts the retry.
LEMMA RequeueMoves ==
  ASSUME TypeOK, NEW j \in Jobs, NEW from \in {"running", "failed"},
         CanRequeue(j, from), job' = Requeue(j), UNCHANGED <<resets, claims>>
  PROVE  OneMoves
<1> USE JobFacts
<1>1. \A k \in Jobs \ {j} : Same(k)
  BY DEF Requeue, Same
<1>2. Retried(j)
  BY DEF Requeue, CanRequeue, Retried, Moves
<1> QED BY <1>1, <1>2 DEF OneMoves

\* RecoverStaleJobs and ResetOrphanedJobs select running jobs only.
LEMMA ResetMoves ==
  ASSUME TypeOK, NEW S \in SUBSET RunningJobs, ResetJobs(S), UNCHANGED claims
  PROVE  SomeRecover
<1> USE JobFacts
<1>1. ASSUME NEW k \in S PROVE Recovered(k)
  <2>1. k \in Jobs /\ job[k].status = "running"
    BY DEF RunningJobs
  <2>2. job'[k] = [job[k] EXCEPT !.status = "pending", !.owner = NoWorker]
    BY <2>1 DEF ResetJobs
  <2>3. job'[k].status = "pending" /\ job'[k].retries = job[k].retries
    BY <2>1, <2>2 DEF Job
  <2>4. resets'[k] = resets[k] + 1 /\ claims'[k] = claims[k]
    BY <2>1 DEF ResetJobs
  <2>5. job[k].retries \in Nat /\ claims[k] \in Nat
    BY <2>1
  <2> QED BY <2>1, <2>3, <2>4, <2>5 DEF Recovered, Moves
<1>2. ASSUME NEW k \in Jobs \ S PROVE Same(k)
  BY <1>2 DEF ResetJobs, Same
<1> QED BY <1>1, <1>2 DEF SomeRecover, RunningJobs

\* The foreign key clears owners only.
LEMMA DeleteMoves ==
  ASSUME TypeOK, NEW R, DeleteRows(R), UNCHANGED <<resets, claims>>
  PROVE  Quiet
  BY JobFacts DEF DeleteRows, Quiet, Same, Job

\* Every step of the queue is one of the three.
LEMMA UserMoves ==
  ASSUME TypeOK, UserStep PROVE Quiet \/ OneMoves
<1> USE DEF dbVars, rowVars, lifeVars, loopVars, execVars
<1> USE JobFacts
<1>1. ASSUME NEW j \in Jobs, SubmitJob(j) PROVE OneMoves
  <2>1. \A k \in Jobs \ {j} : Same(k)
    BY <1>1 DEF SubmitJob, Same
  <2>2. Submitted(j)
    BY <1>1 DEF SubmitJob, Submitted, Moves, Job
  <2> QED BY <2>1, <2>2 DEF OneMoves
<1>2. ASSUME NEW j \in Jobs, RetryJob(j) PROVE OneMoves
  BY <1>2, RequeueMoves DEF RetryJob
<1>3. ASSUME NEW j \in Jobs, BecomesDue(j) PROVE Quiet
  BY <1>3 DEF BecomesDue, Quiet, Same, Job
<1>4. ASSUME NEW i \in Instances, NEW j \in Jobs, CancelJob(i, j) PROVE OneMoves
  <2>1. \A k \in Jobs \ {j} : Same(k)
    BY <1>4 DEF CancelJob, Same
  <2>2. Cancelled(j)
    BY <1>4 DEF CancelJob, Cancelled, Moves, Job
  <2> QED BY <2>1, <2>2 DEF OneMoves
<1>5. ASSUME NEW i \in Instances, NEW j \in Jobs, SignalWorkers(i, j) PROVE Quiet
  BY <1>5, QuietStep DEF SignalWorkers
<1> QED BY <1>1, <1>2, <1>3, <1>4, <1>5 DEF UserStep

LEMMA ManagerMoves ==
  ASSUME TypeOK, ManagerStep PROVE Quiet \/ SomeRecover
<1> USE DEF dbVars, rowVars, lifeVars, loopVars, execVars
<1>1. ASSUME NEW i \in Instances, RecoverStaleJobs(i) PROVE SomeRecover
  <2>1. PICK S \in SUBSET RunningJobs : ResetJobs(S)
    BY <1>1 DEF RecoverStaleJobs, Orphans
  <2> QED BY <1>1, <2>1, ResetMoves DEF RecoverStaleJobs
<1>2. ASSUME NEW i \in Instances, CleanupAtStart(i) PROVE Quiet
  BY <1>2, DeleteMoves DEF CleanupAtStart
<1>3. ASSUME NEW i \in Instances, StopManager(i) PROVE Quiet
  BY <1>3, QuietStep DEF StopManager
<1>4. ASSUME NEW i \in Instances, ProcessExit(i) \/ Crash(i) PROVE Quiet
  BY <1>4, QuietStep DEF ProcessExit, Crash, EndProcess
<1> QED BY <1>1, <1>2, <1>3, <1>4 DEF ManagerStep

LEMMA LifeMoves ==
  ASSUME TypeOK, NEW w \in Workers, LifeStep(w) PROVE Quiet
<1> USE DEF dbVars, rowVars, lifeVars, loopVars, execVars
<1>1. CASE UNCHANGED <<job, resets, claims>>
  BY <1>1, QuietStep
<1>2. CASE DrainTimesOut(w)
  <2>1. \A j \in Jobs : InterruptJob(job[j]) = job[j]
    BY DEF InterruptJob, QueueStatusCheck
  <2>2. job' = job
    BY <1>2, <2>1, JobFacts DEF DrainTimesOut
  <2> QED BY <1>2, <2>2, QuietStep DEF DrainTimesOut
<1> QED BY <1>1, <1>2 DEF LifeStep, StartWorker, Heartbeat, HeartbeatGoesStale,
      SignalShutdown, HeartbeatLoopExits, BeginDrain, DrainCompletes

LEMMA LoopMoves ==
  ASSUME TypeOK, NEW w \in Workers, LoopStep(w)
  PROVE  Quiet \/ OneMoves \/ SomeRecover
<1> USE DEF dbVars, rowVars, lifeVars, loopVars, execVars
<1>1. CASE PollChecks(w) \/ ClaimsNothing(w) \/ ListOverdueJobs(w)
  BY <1>1, QuietStep DEF PollChecks, ClaimsNothing, ListOverdueJobs
<1>2. CASE SweepWorkers(w)
  BY <1>2, DeleteMoves DEF SweepWorkers
<1>3. CASE SweepOrphans(w)
  <2>1. PICK S \in SUBSET RunningJobs : ResetJobs(S)
    BY <1>3 DEF SweepOrphans, Orphans
  <2> QED BY <1>3, <2>1, ResetMoves DEF SweepOrphans
<1>4. ASSUME NEW j \in Jobs, ClaimNextJob(w, j) PROVE OneMoves
  <2>1. \A k \in Jobs \ {j} : Same(k)
    BY <1>4, JobFacts DEF ClaimNextJob, Same
  <2>2. Claimed(j)
    BY <1>4, JobFacts DEF ClaimNextJob, Claimable, Claimed, Moves, Job
  <2> QED BY <2>1, <2>2 DEF OneMoves
<1>5. ASSUME NEW j \in Jobs, TimeoutSignals(w, j) PROVE Quiet
  BY <1>5, QuietStep DEF TimeoutSignals
<1>6. ASSUME NEW j \in Jobs, TimeoutFails(w, j) PROVE Quiet \/ OneMoves
  BY <1>6, IfRunningMoves, QuietStep DEF TimeoutFails, FailJob
<1> QED BY <1>1, <1>2, <1>3, <1>4, <1>5, <1>6 DEF LoopStep

LEMMA ExecMoves ==
  ASSUME TypeOK, NEW e \in Execs, ExecStep(e) PROVE Quiet \/ OneMoves
<1> USE DEF dbVars, rowVars, lifeVars, loopVars, execVars
<1>e. e[1] \in Jobs
  BY DEF Execs
<1>1. CASE UNCHANGED <<job, resets, claims>>
  BY <1>1, QuietStep
<1>2. CASE PanicFailsJob(e) \/ WriteFailed(e)
  BY <1>2, <1>e, IfRunningMoves, QuietStep DEF PanicFailsJob, WriteFailed, FailJob
<1>3. CASE WriteCompleted(e)
  BY <1>3, <1>e, IfRunningMoves, QuietStep DEF WriteCompleted, CompleteJob
<1>4. CASE WriteRequeue(e)
  BY <1>4, <1>e, RequeueMoves, QuietStep DEF WriteRequeue
<1> QED BY <1>1, <1>2, <1>3, <1>4
      DEF ExecStep, BeginExecution, ScriptEnds, ExecutionPanics, Unwind

LEMMA StepMoves ==
  ASSUME TypeOK, [Next]_vars PROVE Quiet \/ OneMoves \/ SomeRecover
<1>1. CASE Next
  BY <1>1, UserMoves, ManagerMoves, LifeMoves, LoopMoves, ExecMoves DEF Next
<1>2. CASE UNCHANGED vars
  BY <1>2, QuietStep DEF vars, dbVars
<1> QED BY <1>1, <1>2

\* What the moves mean for one job.
LEMMA JobMoves ==
  ASSUME TypeOK, [Next]_vars, NEW j \in Jobs
  PROVE  \/ Same(j) \/ Submitted(j) \/ Claimed(j) \/ Finished(j)
         \/ Cancelled(j) \/ Retried(j) \/ Recovered(j)
  BY StepMoves DEF Quiet, OneMoves, SomeRecover

-----------------------------------------------------------------------------
(***************************************************************************)
(* The theorems.                                                           *)
(***************************************************************************)

\* The account of one job, as ClaimsArePaid states it.
Account(j) ==
    LET paid == job[j].retries + resets[j]
    IN  /\ job[j].status \in {"none", "pending"} => claims[j] = paid
        /\ job[j].status = "cancelled" => claims[j] \in {paid, paid + 1}
        /\ job[j].status \in {"running", "completed", "failed"} =>
             claims[j] = paid + 1

\* Each move keeps the account of its job balanced.
LEMMA AccountStep ==
  ASSUME TypeOK, [Next]_vars, NEW j \in Jobs, Account(j)
  PROVE  Account(j)'
<1> USE JobFacts DEF Account
<1>1. CASE Same(j)
  BY <1>1 DEF Same
<1>2. CASE Submitted(j)
  BY <1>2 DEF Submitted, Moves
<1>3. CASE Claimed(j)
  BY <1>3 DEF Claimed, Moves
<1>4. CASE Finished(j)
  BY <1>4 DEF Finished, Moves
<1>5. CASE Cancelled(j)
  BY <1>5 DEF Cancelled, Moves
<1>6. CASE Retried(j)
  BY <1>6 DEF Retried, Moves
<1>7. CASE Recovered(j)
  BY <1>7 DEF Recovered, Moves
<1> QED BY <1>1, <1>2, <1>3, <1>4, <1>5, <1>6, <1>7, JobMoves

\* No execution is free: at any moment a job was claimed once for its
\* submission and once more for each counted retry and each recovery, the
\* last one being outstanding while it is pending.
THEOREM EveryClaimIsPaid == Spec => []ClaimsArePaid
<1>1. Init => ClaimsArePaid
  BY DEF Init, ClaimsArePaid
<1>2. TypeOK /\ ClaimsArePaid /\ [Next]_vars => ClaimsArePaid'
  <2> SUFFICES ASSUME TypeOK, ClaimsArePaid, [Next]_vars, NEW j \in Jobs
               PROVE  Account(j)'
    BY DEF ClaimsArePaid, Account
  <2>1. Account(j)
    BY DEF ClaimsArePaid, Account
  <2> QED BY <2>1, AccountStep
<1> QED BY <1>1, <1>2, TypeCorrect, PTL DEF Spec

\* Completed and cancelled jobs are final, failed ones leave by a counted
\* retry, for every interleaving of late writes.
THEOREM TerminalStaysFinal == Spec => TerminalIsFinal
<1> DEFINE Final == \A j \in Jobs :
         /\ job[j].status \in {"completed", "cancelled"} =>
              /\ job'[j].status = job[j].status
              /\ claims'[j] = claims[j]
         /\ job[j].status = "failed" /\ job'[j].status # "failed" =>
              /\ job'[j].status = "pending"
              /\ job'[j].retries = job[j].retries + 1
<1>1. TypeOK /\ [Next]_vars => [Final]_vars
  <2> SUFFICES ASSUME TypeOK, [Next]_vars PROVE Final OBVIOUS
  <2> SUFFICES ASSUME NEW j \in Jobs
               PROVE  /\ job[j].status \in {"completed", "cancelled"} =>
                           /\ job'[j].status = job[j].status
                           /\ claims'[j] = claims[j]
                      /\ job[j].status = "failed" /\ job'[j].status # "failed" =>
                           /\ job'[j].status = "pending"
                           /\ job'[j].retries = job[j].retries + 1
    OBVIOUS
  <2> QED BY JobMoves DEF Same, Submitted, Claimed, Finished, Cancelled,
             Retried, Recovered, Moves
<1> QED BY <1>1, TypeCorrect, PTL DEF Spec, TerminalIsFinal

\* The status and retry_count columns as functions of the job.
StatusOf == [j \in Jobs |-> job[j].status]
RetriesOf == [j \in Jobs |-> job[j].retries]

\* The queue implements the life cycle: each step of a user, a worker, a
\* manager or an execution makes a move of JobLifecycle or none.
THEOREM ImplementsLifecycle == Spec => RefinesLifecycle
<1>1. Init => Lifecycle!Init
  BY DEF Init, Lifecycle!Init
<1>2. TypeOK /\ [Next]_vars => [Lifecycle!Next]_(Lifecycle!vars)
  <2> SUFFICES ASSUME TypeOK, [Next]_vars
               PROVE  Lifecycle!Next \/ UNCHANGED Lifecycle!vars
    OBVIOUS
  <2> USE JobFacts
  <2>1. ASSUME Quiet PROVE UNCHANGED Lifecycle!vars
    BY <2>1 DEF Quiet, Same, Lifecycle!vars
  <2>2. ASSUME OneMoves PROVE Lifecycle!Next
    <3>1. PICK j \in Jobs :
            /\ Submitted(j) \/ Claimed(j) \/ Finished(j) \/ Cancelled(j) \/ Retried(j)
            /\ \A k \in Jobs \ {j} : Same(k)
      BY <2>2 DEF OneMoves
    <3>2. StatusOf' = [StatusOf EXCEPT ![j] = job'[j].status]
      BY <3>1 DEF StatusOf, Same
    <3>3. RetriesOf' = [RetriesOf EXCEPT ![j] = job'[j].retries]
      BY <3>1 DEF RetriesOf, Same
    <3>4. Submitted(j) \/ Claimed(j) \/ Finished(j) \/ Cancelled(j)
          => RetriesOf' = RetriesOf
      <4>1. ASSUME job'[j].retries = job[j].retries + 0 PROVE RetriesOf' = RetriesOf
        BY <3>1, <4>1 DEF RetriesOf, Same
      <4> QED BY <4>1 DEF Submitted, Claimed, Finished, Cancelled, Moves
    <3>5. CASE Submitted(j)
      BY <3>2, <3>4, <3>5 DEF Submitted, Moves, StatusOf, RetriesOf,
         Lifecycle!Next, Lifecycle!Submit, Lifecycle!Move
    <3>6. CASE Claimed(j)
      BY <3>2, <3>4, <3>6 DEF Claimed, Moves, StatusOf, RetriesOf,
         Lifecycle!Next, Lifecycle!Claim, Lifecycle!Move
    <3>7. CASE Finished(j)
      BY <3>2, <3>4, <3>7 DEF Finished, Moves, StatusOf, RetriesOf,
         Lifecycle!Next, Lifecycle!Finish, Lifecycle!Move
    <3>8. CASE Cancelled(j)
      BY <3>2, <3>4, <3>8 DEF Cancelled, Moves, StatusOf, RetriesOf,
         Lifecycle!Next, Lifecycle!Cancel, Lifecycle!Move
    <3>9. CASE Retried(j)
      BY <3>2, <3>3, <3>9 DEF Retried, Moves, StatusOf, RetriesOf,
         Lifecycle!Next, Lifecycle!Retry, Lifecycle!Move
    <3> QED BY <3>1, <3>5, <3>6, <3>7, <3>8, <3>9
  <2>3. ASSUME SomeRecover PROVE Lifecycle!Next
    <3>1. PICK S \in SUBSET Jobs :
            \A k \in Jobs : IF k \in S THEN Recovered(k) ELSE Same(k)
      BY <2>3 DEF SomeRecover
    <3>2. Lifecycle!Recover(S)
      BY <3>1 DEF Recovered, Moves, Same, Lifecycle!Recover
    <3> QED BY <3>2 DEF Lifecycle!Next
  <2> QED BY <2>1, <2>2, <2>3, StepMoves
<1> QED BY <1>1, <1>2, TypeCorrect, PTL DEF Spec, RefinesLifecycle, Lifecycle!Spec

-----------------------------------------------------------------------------
(***************************************************************************)
(* Who may write to the row of a job.  An execution before its last write  *)
(* and a progress timeout that listed the job attend to it; as long as the *)
(* job was not recovered from under them, or everybody is on time so that  *)
(* recovery finds the dead only, the row is theirs alone.                  *)
(***************************************************************************)
OnTime == Stallable = {} /\ Stoppable = {} /\ Fragile = {}
Sheltered(j) == OnTime \/ resets[j] = 0

Working(e) == exec[e].phase \in {"claimed", "running", "ok", "retrying",
                                 "failing", "panicked"}
Watched(w, j) == timing[w][j] # "no"
Unattended(j) == /\ \A e \in Execs : e[1] = j => ~Working(e)
                 /\ \A w \in Workers : ~Watched(w, j)

\* The rows of the workers tell who is alive.
RowsTrue ==
    /\ \A i \in Instances : inst[i] # "stopping"
    /\ \A w \in Workers :
         /\ proc[w] \in {"new", "up", "dead"}
         /\ beat[w] \/ poll[w] => proc[w] = "up"
         /\ proc[w] = "up" => reg[w] = "active" /\ hb[w] = "fresh" /\ beat[w]
         /\ \A j \in Jobs : Watched(w, j) => proc[w] = "up"
    /\ \A e \in Execs : Working(e) => proc[exec[e].by] = "up"

WorkersKnown == \A e \in Execs : Working(e) => exec[e].by \in Workers

\* The last claim works on its own row ...
WorkOwns == \A e \in Execs : Working(e) /\ Sheltered(e[1]) =>
    /\ claims[e[1]] = e[2]
    /\ job[e[1]].status \in {"running", "cancelled"}
    /\ OnTime /\ job[e[1]].status = "running" => job[e[1]].owner = exec[e].by

\* ... and one worker watches a row on which nobody works.
WatchOwns == \A w \in Workers, j \in Jobs : Watched(w, j) /\ Sheltered(j) =>
    \/ job[j].status = "cancelled"
    \/ /\ job[j].status = "running"
       /\ job[j].owner \in {w, NoWorker} /\ (OnTime => job[j].owner = w)
       /\ \A e \in Execs : e[1] = j => ~Working(e)
       /\ \A v \in Workers : Watched(v, j) => v = w

Owning == WorkersKnown /\ WorkOwns /\ WatchOwns

\* A step after which no one attends to a job who did not before keeps the
\* rows, unless it takes a job that someone attends to.
LEMMA OwningKept ==
  ASSUME Owning, UNCHANGED claims,
         \A j \in Jobs : Sheltered(j)' => Sheltered(j),
         \A e \in Execs : Working(e)' => Working(e) /\ exec'[e].by = exec[e].by,
         \A w \in Workers, j \in Jobs : Watched(w, j)' => Watched(w, j),
         \A j \in Jobs : Sheltered(j)' =>
           \/ /\ job'[j].status = job[j].status
              /\ \/ job'[j].owner = job[j].owner
                 \/ job'[j].owner = NoWorker /\ ~OnTime
           \/ job'[j].status = "cancelled"
           \/ Unattended(j)'
  PROVE  Owning'
<1>1. WorkersKnown'
  BY DEF Owning, WorkersKnown
<1>2. ASSUME NEW e \in Execs, Working(e)', Sheltered(e[1])'
      PROVE  /\ claims'[e[1]] = e[2]
             /\ job'[e[1]].status \in {"running", "cancelled"}
             /\ OnTime /\ job'[e[1]].status = "running" => job'[e[1]].owner = exec'[e].by
  <2>1. e[1] \in Jobs /\ Working(e) /\ Sheltered(e[1]) /\ exec'[e].by = exec[e].by
    BY <1>2 DEF Execs
  <2>2. ~Unattended(e[1])'
    BY <1>2 DEF Unattended
  <2> QED BY <2>1, <2>2, <1>2 DEF Owning, WorkOwns
<1>3. ASSUME NEW w \in Workers, NEW j \in Jobs, Watched(w, j)', Sheltered(j)'
      PROVE  \/ job'[j].status = "cancelled"
             \/ /\ job'[j].status = "running"
                /\ job'[j].owner \in {w, NoWorker} /\ (OnTime => job'[j].owner = w)
                /\ \A e \in Execs : e[1] = j => ~Working(e)'
                /\ \A v \in Workers : Watched(v, j)' => v = w
  <2>1. Watched(w, j) /\ Sheltered(j)
    BY <1>3
  <2>2. ~Unattended(j)'
    BY <1>3 DEF Unattended
  <2> QED BY <2>1, <2>2, <1>3 DEF Owning, WatchOwns
<1>4. WorkOwns'
  BY <1>2 DEF WorkOwns
<1>5. WatchOwns'
  BY <1>3 DEF WatchOwns
<1> QED BY <1>1, <1>4, <1>5 DEF Owning

\* The last claim shares its row with no one, unless the job is cancelled.
LEMMA Alone ==
  ASSUME Owning, NEW e \in Execs, Working(e), Sheltered(e[1])
  PROVE  \/ job[e[1]].status = "cancelled"
         \/ /\ \A d \in Execs : d[1] = e[1] /\ Working(d) => d = e
            /\ \A w \in Workers : ~Watched(w, e[1])
<1>1. e[1] \in Jobs /\ claims[e[1]] = e[2]
  BY DEF Owning, WorkOwns, Execs
<1>2. ASSUME NEW d \in Execs, d[1] = e[1], Working(d) PROVE d = e
  <2>1. d[2] = e[2]
    BY <1>1, <1>2 DEF Owning, WorkOwns
  <2> QED BY <1>2, <2>1 DEF Execs
<1>3. ASSUME NEW w \in Workers, Watched(w, e[1]) PROVE job[e[1]].status = "cancelled"
  BY <1>1, <1>3 DEF Owning, WatchOwns
<1> QED BY <1>2, <1>3

\* The end of a process takes its workers, their executions and their loops.
LEMMA EndProcessRows ==
  ASSUME TypeOK, RowsTrue, WorkersKnown, NEW i \in Instances, EndProcess(i)
  PROVE  RowsTrue'
<1> DEFINE mine == {w \in Workers : Host[w] = i}
<1>1. /\ inst' = [inst EXCEPT ![i] = "gone"]
      /\ \A w \in Workers :
           /\ w \in mine => /\ proc'[w] \in {"new", "dead"} /\ ~beat'[w] /\ ~poll'[w]
                            /\ \A j \in Jobs : timing'[w][j] = "no"
           /\ w \notin mine => /\ proc'[w] = proc[w] /\ beat'[w] = beat[w]
                               /\ poll'[w] = poll[w] /\ timing'[w] = timing[w]
      /\ UNCHANGED <<reg, hb>>
  BY DEF EndProcess, rowVars, RowsTrue
<1>2. \A e \in Execs : exec'[e] = IF exec[e].by \in mine THEN Done ELSE exec[e]
  BY DEF EndProcess
<1>3. \A e \in Execs : Working(e)' => Working(e) /\ exec'[e] = exec[e] /\ exec[e].by \notin mine
  BY <1>2 DEF Working, Done, NoExec
<1>4. \A k \in Instances : inst'[k] # "stopping"
  BY <1>1 DEF RowsTrue, TypeOK
<1>5. \A e \in Execs : Working(e)' => proc'[exec'[e].by] = "up"
  BY <1>1, <1>3 DEF RowsTrue, WorkersKnown
<1> HIDE DEF mine
<1> QED BY <1>1, <1>4, <1>5 DEF RowsTrue, Watched

\* A step of an execution starts no work, and leaves the workers alone.
LEMMA ExecWorks ==
  ASSUME TypeOK, NEW e \in Execs, ExecStep(e)
  PROVE  /\ UNCHANGED <<reg, hb, inst, proc, beat, poll, timing, resets, claims>>
         /\ \A d \in Execs : d # e => exec'[d] = exec[d]
         /\ \A d \in Execs : Working(d)' => Working(d) /\ exec'[d].by = exec[d].by
<1> USE DEF rowVars, lifeVars, loopVars, execVars, dbVars
<1>1. UNCHANGED <<reg, hb, inst, proc, beat, poll, timing, resets, claims>>
  BY DEF ExecStep, BeginExecution, ScriptEnds, ExecutionPanics, PanicFailsJob,
         WriteCompleted, WriteRequeue, WriteFailed, Unwind
<1>2. CASE exec' = [exec EXCEPT ![e] = Done]
  BY <1>1, <1>2 DEF Working, Done, NoExec, TypeOK
<1>3. ASSUME NEW p, Phase(e, p), Working(e)
      PROVE  /\ \A d \in Execs : d # e => exec'[d] = exec[d]
             /\ \A d \in Execs : Working(d)' => Working(d) /\ exec'[d].by = exec[d].by
  BY <1>3 DEF Phase, Working, TypeOK, Exec
<1>4. CASE BeginExecution(e) \/ ScriptEnds(e) \/ ExecutionPanics(e)
           \/ WriteCompleted(e) \/ WriteRequeue(e) \/ WriteFailed(e)
  <2>1. Working(e)
    BY <1>4 DEF BeginExecution, ScriptEnds, ExecutionPanics, WriteCompleted,
                WriteRequeue, WriteFailed, Working
  <2>2. \E p \in Phases : Phase(e, p)
    BY <1>4 DEF BeginExecution, ScriptEnds, ExecutionPanics, WriteCompleted,
                WriteRequeue, WriteFailed, Phases
  <2> QED BY <1>1, <1>3, <2>1, <2>2
<1> QED BY <1>1, <1>2, <1>4 DEF ExecStep, PanicFailsJob, Unwind

\* On time, rows are fresh exactly while their workers live.
LEMMA RowsKept ==
  ASSUME OnTime, TypeOK, RowsTrue, WorkersKnown, [Next]_vars
  PROVE  RowsTrue'
<1> USE DEF dbVars, rowVars, lifeVars, loopVars, execVars
<1>t. /\ inst \in [Instances -> {"off", "recovering", "up", "stopping", "gone"}]
      /\ proc \in [Workers -> {"new", "up", "signalled", "draining", "stopped", "dead"}]
      /\ reg \in [Workers -> RowStatus] /\ hb \in [Workers -> {"fresh", "stale"}]
      /\ beat \in [Workers -> BOOLEAN] /\ poll \in [Workers -> BOOLEAN]
      /\ timing \in [Workers -> [Jobs -> {"no", "listed", "signalled"}]]
      /\ exec \in [Execs -> Exec] /\ Host \in [Workers -> Instances]
  BY HostAssumption DEF TypeOK
<1>c. \A w \in Workers : ~CtxDone(w)
  BY <1>t DEF CtxDone, RowsTrue
\* A step that changes executions and watches only by ending them.
<1>0. ASSUME UNCHANGED <<reg, hb, proc, beat>>,
             inst' = inst \/ \E i \in Instances, v \in {"recovering", "up"} :
                               inst' = [inst EXCEPT ![i] = v],
             \A w \in Workers : poll'[w] => poll[w] \/ proc[w] = "up",
             \A w \in Workers, j \in Jobs : Watched(w, j)' => Watched(w, j) \/ proc[w] = "up",
             \A e \in Execs : Working(e)' =>
               \/ Working(e) /\ exec'[e].by = exec[e].by
               \/ exec'[e].by \in Workers /\ proc[exec'[e].by] = "up"
      PROVE  RowsTrue'
  <2>1. \A i \in Instances : inst'[i] # "stopping"
    BY <1>0, <1>t DEF RowsTrue
  <2>2. \A e \in Execs : Working(e)' => proc'[exec'[e].by] = "up"
    BY <1>0 DEF RowsTrue
  <2>3. \A w \in Workers :
          /\ proc'[w] \in {"new", "up", "dead"}
          /\ beat'[w] \/ poll'[w] => proc'[w] = "up"
          /\ proc'[w] = "up" => reg'[w] = "active" /\ hb'[w] = "fresh" /\ beat'[w]
          /\ \A j \in Jobs : Watched(w, j)' => proc'[w] = "up"
    BY <1>0 DEF RowsTrue
  <2> QED BY <2>1, <2>2, <2>3 DEF RowsTrue
\* A step that only changes rows of workers that are not up.
<1>9. ASSUME UNCHANGED <<proc, beat, poll, timing, exec>>,
             inst' = inst \/ \E i \in Instances : inst' = [inst EXCEPT ![i] = "up"],
             \A w \in Workers : proc[w] = "up" => reg'[w] = reg[w] /\ hb'[w] = hb[w]
      PROVE  RowsTrue'
  <2>1. \A i \in Instances : inst'[i] # "stopping"
    BY <1>9, <1>t DEF RowsTrue
  <2>2. \A e \in Execs : Working(e)' => proc'[exec'[e].by] = "up"
    BY <1>9 DEF RowsTrue, Working
  <2>3. \A w \in Workers :
          /\ proc'[w] \in {"new", "up", "dead"}
          /\ beat'[w] \/ poll'[w] => proc'[w] = "up"
          /\ proc'[w] = "up" => reg'[w] = "active" /\ hb'[w] = "fresh" /\ beat'[w]
          /\ \A j \in Jobs : Watched(w, j)' => proc'[w] = "up"
    BY <1>9 DEF RowsTrue, Watched
  <2> QED BY <2>1, <2>2, <2>3 DEF RowsTrue
<1>10. ASSUME DeleteRows(StaleRows), UNCHANGED <<proc, beat, poll, timing, exec>>,
              inst' = inst \/ \E i \in Instances : inst' = [inst EXCEPT ![i] = "up"]
       PROVE  RowsTrue'
  <2>1. \A w \in Workers : proc[w] = "up" => w \notin StaleRows
    BY DEF StaleRows, RowsTrue
  <2> QED BY <1>9, <1>10, <2>1 DEF DeleteRows
<1>1. CASE UserStep
  <2>1. ASSUME NEW i, NEW j, SignalWorkers(i, j) PROVE RowsTrue'
    <3>1. \A e \in Execs : exec'[e].phase = exec[e].phase /\ exec'[e].by = exec[e].by
      BY <2>1, <1>t DEF SignalWorkers, Cancel, Exec
    <3> QED BY <1>0, <2>1, <3>1 DEF SignalWorkers, Working, Watched
  <2>2. ASSUME NEW j \in Jobs, \/ SubmitJob(j) \/ RetryJob(j) \/ BecomesDue(j)
                                \/ \E i \in Instances : CancelJob(i, j)
        PROVE  RowsTrue'
    <3>1. UNCHANGED <<rowVars, lifeVars, loopVars, execVars>>
      <4>1. CASE SubmitJob(j)
        BY <4>1 DEF SubmitJob
      <4>2. CASE RetryJob(j) \/ BecomesDue(j) \/ \E i \in Instances : CancelJob(i, j)
        BY <4>2 DEF RetryJob, BecomesDue, CancelJob
      <4> QED BY <2>2, <4>1, <4>2
    <3> QED BY <1>0, <3>1 DEF Working, Watched
  <2> QED BY <1>1, <2>1, <2>2 DEF UserStep
<1>2. ASSUME NEW i \in Instances,
             \/ RecoverStaleJobs(i) \/ CleanupAtStart(i)
             \/ StopManager(i) \/ ProcessExit(i) \/ Crash(i)
      PROVE  RowsTrue'
  <2>1. CASE RecoverStaleJobs(i)
    BY <1>0, <2>1 DEF RecoverStaleJobs, Working, Watched
  <2>2. CASE CleanupAtStart(i)
    BY <1>10, <2>2 DEF CleanupAtStart
  <2>3. CASE StopManager(i)
    BY <2>3 DEF StopManager, OnTime
  <2>4. CASE ProcessExit(i) \/ Crash(i)
    BY <2>4, EndProcessRows DEF ProcessExit, Crash
  <2> QED BY <1>2, <2>1, <2>2, <2>3, <2>4
<1>3. ASSUME NEW w \in Workers, LifeStep(w) PROVE RowsTrue'
  <2>1. CASE StartWorker(w)
    <3>1. /\ reg' = [reg EXCEPT ![w] = "active"] /\ hb' = [hb EXCEPT ![w] = "fresh"]
          /\ proc' = [proc EXCEPT ![w] = "up"] /\ beat' = [beat EXCEPT ![w] = TRUE]
          /\ UNCHANGED <<inst, poll, timing, exec>>
      BY <2>1 DEF StartWorker
    <3>2. \A e \in Execs : Working(e)' => proc'[exec'[e].by] = "up"
      BY <3>1, <1>t DEF RowsTrue, WorkersKnown, Working
    <3>3. \A v \in Workers : v # w =>
            reg'[v] = reg[v] /\ hb'[v] = hb[v] /\ proc'[v] = proc[v] /\ beat'[v] = beat[v]
      BY <3>1, <1>t
    <3>4. reg'[w] = "active" /\ hb'[w] = "fresh" /\ proc'[w] = "up" /\ beat'[w]
      BY <3>1, <1>t
    <3> QED BY <3>1, <3>2, <3>3, <3>4 DEF RowsTrue, Watched
  <2>2. CASE Heartbeat(w)
    <3>1. hb[w] = "stale" /\ proc[w] # "up" /\ hb' = [hb EXCEPT ![w] = "fresh"]
      BY <2>2 DEF Heartbeat, RowsTrue
    <3> QED BY <1>9, <2>2, <3>1, <1>t DEF Heartbeat
  <2>3. CASE HeartbeatGoesStale(w)
    <3>1. proc[w] # "up" /\ hb' = [hb EXCEPT ![w] = "stale"]
      BY <2>3, <1>c DEF HeartbeatGoesStale, RowsTrue, OnTime
    <3> QED BY <1>9, <2>3, <3>1, <1>t DEF HeartbeatGoesStale
  <2>4. CASE SignalShutdown(w)
    BY <2>4, <1>t DEF SignalShutdown, OnTime, RowsTrue
  <2>5. CASE HeartbeatLoopExits(w) \/ BeginDrain(w) \/ DrainCompletes(w) \/ DrainTimesOut(w)
    BY <2>5 DEF HeartbeatLoopExits, BeginDrain, DrainCompletes, DrainTimesOut, RowsTrue
  <2> QED BY <1>3, <2>1, <2>2, <2>3, <2>4, <2>5 DEF LifeStep
<1>4. ASSUME NEW w \in Workers, LoopStep(w) PROVE RowsTrue'
  <2>1. CASE PollChecks(w)
    <3>1. proc[w] = "up" /\ poll' = [poll EXCEPT ![w] = TRUE]
      BY <2>1 DEF PollChecks, RowsTrue
    <3> QED BY <1>0, <2>1, <3>1, <1>t DEF PollChecks, Working, Watched
  <2>2. CASE ClaimsNothing(w)
    BY <1>0, <2>2, <1>t DEF ClaimsNothing, Working, Watched
  <2>3. CASE SweepWorkers(w)
    <3>1. CASE DeleteRows(StaleRows)
      BY <1>10, <2>3, <3>1 DEF SweepWorkers
    <3>2. CASE DeleteRows({})
      BY <1>9, <2>3, <3>2 DEF SweepWorkers, DeleteRows
    <3> QED BY <2>3, <3>1, <3>2 DEF SweepWorkers
  <2>4. CASE SweepOrphans(w)
    BY <1>0, <2>4 DEF SweepOrphans, Working, Watched
  <2>5. CASE ListOverdueJobs(w)
    <3>1. proc[w] = "up" /\ \A v \in Workers : v # w => timing'[v] = timing[v]
      BY <2>5, <1>t DEF ListOverdueJobs, Ticking, RowsTrue
    <3> QED BY <1>0, <2>5, <3>1 DEF ListOverdueJobs, Working, Watched
  <2>6. ASSUME NEW j \in Jobs, ClaimNextJob(w, j) PROVE RowsTrue'
    <3>1. proc[w] = "up" /\ poll' = [poll EXCEPT ![w] = FALSE]
      BY <2>6 DEF ClaimNextJob, RowsTrue
    <3>2. \A e \in Execs : \/ exec'[e] = exec[e]
                           \/ exec'[e].by = w
      BY <2>6, <1>t DEF ClaimNextJob
    <3> QED BY <1>0, <2>6, <3>1, <3>2, <1>t DEF ClaimNextJob, Working, Watched
  <2>7. ASSUME NEW j \in Jobs, TimeoutSignals(w, j) PROVE RowsTrue'
    <3>1. \A e \in Execs : exec'[e].phase = exec[e].phase /\ exec'[e].by = exec[e].by
      BY <2>7, <1>t DEF TimeoutSignals, Cancel, Exec
    <3>2. timing[w][j] = "listed" /\ timing' = [timing EXCEPT ![w][j] = "signalled"]
      BY <2>7 DEF TimeoutSignals
    <3>3. \A v \in Workers, k \in Jobs : Watched(v, k)' => Watched(v, k)
      BY <3>2, <1>t DEF Watched
    <3> QED BY <1>0, <2>7, <3>1, <3>3 DEF TimeoutSignals, Working
  <2>8. ASSUME NEW j \in Jobs, TimeoutFails(w, j) PROVE RowsTrue'
    <3>1. timing' = [timing EXCEPT ![w][j] = "no"]
      BY <2>8 DEF TimeoutFails
    <3>2. \A v \in Workers, k \in Jobs : Watched(v, k)' => Watched(v, k)
      BY <3>1, <1>t DEF Watched
    <3> QED BY <1>0, <2>8, <3>2 DEF TimeoutFails, Working
  <2> QED BY <1>4, <2>1, <2>2, <2>3, <2>4, <2>5, <2>6, <2>7, <2>8 DEF LoopStep
<1>5. ASSUME NEW e \in Execs, ExecStep(e) PROVE RowsTrue'
  <2>1. /\ UNCHANGED <<reg, hb, inst, proc, beat, poll, timing>>
        /\ \A d \in Execs : Working(d)' => Working(d) /\ exec'[d].by = exec[d].by
    BY <1>5, ExecWorks
  <2> QED BY <1>0, <2>1 DEF Watched
<1>6. CASE UNCHANGED vars
  BY <1>0, <1>6 DEF vars, Working, Watched
<1> QED BY <1>1, <1>2, <1>3, <1>4, <1>5, <1>6 DEF Next, ManagerStep

\* What keeps a job that someone attends to: it does not change, or it is
\* cancelled, or it loses its owner although somebody was late.
Spared(j) ==
    \/ /\ job'[j].status = job[j].status
       /\ job'[j].owner = job[j].owner \/ (job'[j].owner = NoWorker /\ ~OnTime)
    \/ job'[j].status = "cancelled"

\* A step that leaves work and watches alone.
LEMMA OwningSpared ==
  ASSUME Owning, UNCHANGED <<claims, timing>>,
         \A e \in Execs : exec'[e].phase = exec[e].phase /\ exec'[e].by = exec[e].by,
         \A j \in Jobs : Sheltered(j)' => Sheltered(j),
         \A j \in Jobs : Sheltered(j)' => Spared(j) \/ Unattended(j)
  PROVE  Owning'
<1>1. /\ \A e \in Execs : Working(e)' <=> Working(e)
      /\ \A w \in Workers, j \in Jobs : Watched(w, j)' <=> Watched(w, j)
  BY DEF Working, Watched
<1>2. \A j \in Jobs : Unattended(j) => Unattended(j)'
  BY <1>1 DEF Unattended
<1> QED BY <1>1, <1>2, OwningKept DEF Spared

\* Rows that were deleted were stale: on time, no one attends to their jobs.
LEMMA OwningDeleted ==
  ASSUME TypeOK, Owning, OnTime => RowsTrue, NEW R, R = StaleRows \/ R = {},
         DeleteRows(R), UNCHANGED <<claims, resets, timing, exec>>
  PROVE  Owning'
<1>1. \A j \in Jobs : job[j] \in Job
  BY DEF TypeOK
<1>2. ASSUME NEW j \in Jobs PROVE Spared(j) \/ Unattended(j)
  <2>1. /\ job'[j].status = job[j].status
        /\ job'[j].owner = IF job[j].owner \in R THEN NoWorker ELSE job[j].owner
    BY <1>1 DEF DeleteRows, Job
  <2>2. CASE ~OnTime \/ job[j].owner \notin R
    BY <2>1, <2>2 DEF Spared
  <2>3. CASE OnTime /\ job[j].owner \in R
    <3>1. job[j].owner \in Workers /\ proc[job[j].owner] # "up"
      BY <2>3 DEF StaleRows, RowsTrue
    <3>2. ASSUME NEW e \in Execs, e[1] = j, Working(e) PROVE job[j].status = "cancelled"
      BY <2>3, <3>1, <3>2 DEF Owning, WorkOwns, Sheltered, RowsTrue
    <3>3. ASSUME NEW w \in Workers, Watched(w, j) PROVE job[j].status = "cancelled"
      BY <2>3, <3>1, <3>3 DEF Owning, WatchOwns, Sheltered, RowsTrue
    <3> QED BY <2>1, <3>2, <3>3 DEF Unattended, Spared
  <2> QED BY <2>2, <2>3
<1> QED BY <1>2, OwningSpared DEF Sheltered

\* What ResetJobs leaves alone, and what it counts.
LEMMA ResetEffect ==
  ASSUME TypeOK, NEW S \in SUBSET Jobs, ResetJobs(S)
  PROVE  /\ \A j \in Jobs : resets'[j] = IF j \in S THEN resets[j] + 1 ELSE resets[j]
         /\ \A j \in Jobs : j \notin S => job'[j] = job[j]
  BY DEF ResetJobs, TypeOK

\* Recovered jobs had no owner or a dead one: on time, no one attends to them,
\* and otherwise they are sheltered no longer.
LEMMA OwningReset ==
  ASSUME TypeOK, Owning, OnTime => RowsTrue, NEW S \in SUBSET RunningJobs,
         \A j \in S : \/ job[j].owner = NoWorker
                      \/ hb[job[j].owner] = "stale" \/ reg[job[j].owner] = "stopped",
         ResetJobs(S), UNCHANGED <<claims, timing, exec>>
  PROVE  Owning'
<1>1. \A j \in Jobs : resets[j] \in Nat
  BY DEF TypeOK
<1>r. /\ \A j \in Jobs : resets'[j] = IF j \in S THEN resets[j] + 1 ELSE resets[j]
      /\ \A j \in Jobs : j \notin S => job'[j] = job[j]
  BY ResetEffect DEF RunningJobs
<1>2. \A j \in Jobs : Sheltered(j)' => Sheltered(j) /\ (j \in S => OnTime)
  BY <1>1, <1>r DEF Sheltered
<1>3. ASSUME NEW j \in Jobs, Sheltered(j)' PROVE Spared(j) \/ Unattended(j)
  <2>1. CASE j \notin S
    BY <2>1, <1>r DEF Spared
  <2>2. CASE j \in S
    <3>1. OnTime /\ job[j].status = "running" /\ (job[j].owner \in Workers => proc[job[j].owner] # "up")
      BY <1>2, <1>3, <2>2, NoWorkerAssumption DEF RunningJobs, RowsTrue
    <3>2. \A e \in Execs : e[1] = j => ~Working(e)
      BY <3>1 DEF Owning, WorkOwns, WorkersKnown, Sheltered, RowsTrue
    <3>3. \A w \in Workers : ~Watched(w, j)
      BY <3>1 DEF Owning, WatchOwns, Sheltered, RowsTrue
    <3> QED BY <3>2, <3>3 DEF Unattended
  <2> QED BY <2>1, <2>2
<1> QED BY <1>2, <1>3, OwningSpared

\* The steps of users.
LEMMA UserOwning ==
  ASSUME TypeOK, Owning, UserStep PROVE Owning'
<1> USE DEF dbVars, rowVars, lifeVars, loopVars, execVars
<1>j. job \in [Jobs -> Job] /\ \A j \in Jobs : job[j] \in Job
  BY DEF TypeOK
<1>1. ASSUME NEW j \in Jobs, \A k \in Jobs \ {j} : job'[k] = job[k],
             Spared(j) \/ job[j].status \notin {"running", "cancelled"},
             UNCHANGED <<resets, claims, timing, exec>>
      PROVE  Owning'
  <2>1. job[j].status \notin {"running", "cancelled"} /\ Sheltered(j) => Unattended(j)
    BY DEF Unattended, Owning, WorkOwns, WatchOwns
  <2>2. \A k \in Jobs : Sheltered(k) => Spared(k) \/ Unattended(k)
    BY <1>1, <2>1 DEF Spared
  <2> QED BY <1>1, <2>2, OwningSpared DEF Sheltered
<1>2. ASSUME NEW j \in Jobs, SubmitJob(j) PROVE Owning'
  <2>1. /\ job[j].status = "none" /\ \A k \in Jobs \ {j} : job'[k] = job[k]
        /\ UNCHANGED <<resets, claims, timing, exec>>
    BY <1>2, <1>j DEF SubmitJob
  <2> QED BY <1>1, <2>1
<1>3. ASSUME NEW j \in Jobs, RetryJob(j) PROVE Owning'
  <2>1. /\ job[j].status = "failed" /\ \A k \in Jobs \ {j} : job'[k] = job[k]
        /\ UNCHANGED <<resets, claims, timing, exec>>
    BY <1>3, <1>j DEF RetryJob, CanRequeue, Requeue
  <2> QED BY <1>1, <2>1
<1>4. ASSUME NEW j \in Jobs, BecomesDue(j) PROVE Owning'
  <2>1. /\ job[j].status = "pending" /\ \A k \in Jobs \ {j} : job'[k] = job[k]
        /\ UNCHANGED <<resets, claims, timing, exec>>
    BY <1>4, <1>j DEF BecomesDue
  <2> QED BY <1>1, <2>1
<1>5. ASSUME NEW i \in Instances, NEW j \in Jobs, CancelJob(i, j) PROVE Owning'
  <2>1. job'[j].status = "cancelled"
    BY <1>5, <1>j DEF CancelJob, Job
  <2> QED BY <1>1, <1>5, <1>j, <2>1 DEF CancelJob, Spared
<1>6. ASSUME NEW i \in Instances, NEW j \in Jobs, SignalWorkers(i, j) PROVE Owning'
  <2>1. \A e \in Execs : exec'[e].phase = exec[e].phase /\ exec'[e].by = exec[e].by
    BY <1>6 DEF SignalWorkers, Cancel, Exec, TypeOK
  <2> QED BY <1>6, <2>1, OwningSpared DEF SignalWorkers, Spared, Sheltered
<1> QED BY <1>2, <1>3, <1>4, <1>5, <1>6 DEF UserStep

\* The steps of managers.
LEMMA ManagerOwning ==
  ASSUME TypeOK, Owning, OnTime => RowsTrue, ManagerStep PROVE Owning'
<1> USE DEF dbVars, rowVars, lifeVars, loopVars, execVars
<1>1. ASSUME NEW i \in Instances, RecoverStaleJobs(i) PROVE Owning'
  <2>1. PICK S \in SUBSET RunningJobs :
          /\ ResetJobs(S)
          /\ \A j \in S : \/ job[j].owner = NoWorker
                          \/ hb[job[j].owner] = "stale" \/ reg[job[j].owner] = "stopped"
    BY <1>1 DEF RecoverStaleJobs, Orphans
  <2> QED BY <1>1, <2>1, OwningReset DEF RecoverStaleJobs
<1>2. ASSUME NEW i \in Instances, CleanupAtStart(i) PROVE Owning'
  BY <1>2, OwningDeleted DEF CleanupAtStart
<1>3. ASSUME NEW i \in Instances, StopManager(i) PROVE Owning'
  BY <1>3, OwningSpared DEF StopManager, Spared, Sheltered
<1>4. ASSUME NEW i \in Instances, EndProcess(i) PROVE Owning'
  <2>1. /\ \A e \in Execs : exec'[e] = exec[e] \/ exec'[e] = Done
        /\ \A w \in Workers : timing'[w] = timing[w] \/ timing'[w] = [j \in Jobs |-> "no"]
        /\ UNCHANGED <<job, claims, resets>>
    BY <1>4 DEF EndProcess, TypeOK
  <2>2. \A e \in Execs : Working(e)' => Working(e) /\ exec'[e].by = exec[e].by
    BY <2>1 DEF Working, Done, NoExec
  <2>3. \A w \in Workers, j \in Jobs : Watched(w, j)' => Watched(w, j)
    BY <2>1 DEF Watched
  <2> QED BY <2>1, <2>2, <2>3, OwningKept DEF Sheltered
<1> QED BY <1>1, <1>2, <1>3, <1>4 DEF ManagerStep, ProcessExit, Crash

\* The steps of the life of a worker.
LEMMA LifeOwning ==
  ASSUME TypeOK, Owning, NEW w \in Workers, LifeStep(w) PROVE Owning'
<1> USE DEF dbVars, rowVars, lifeVars, loopVars, execVars
<1>1. CASE UNCHANGED <<job, resets, claims, timing, exec>>
  BY <1>1, OwningSpared DEF Spared, Sheltered
<1>2. CASE DrainTimesOut(w)
  <2>1. \A j \in Jobs : InterruptJob(job[j]) = job[j]
    BY DEF InterruptJob, QueueStatusCheck
  <2>2. job' = job
    BY <1>2, <2>1, JobFacts DEF DrainTimesOut
  <2>3. \A e \in Execs : exec'[e].phase = exec[e].phase /\ exec'[e].by = exec[e].by
    BY <1>2 DEF DrainTimesOut, Exec, TypeOK
  <2> QED BY <1>2, <2>2, <2>3, OwningSpared DEF DrainTimesOut, Spared, Sheltered
<1> QED BY <1>1, <1>2 DEF LifeStep, StartWorker, Heartbeat, HeartbeatGoesStale,
      SignalShutdown, HeartbeatLoopExits, BeginDrain, DrainCompletes

\* The steps of a worker's loops.
LEMMA LoopOwning ==
  ASSUME Silent = {}, TypeOK, Owning, OnTime => RowsTrue,
         NEW w \in Workers, LoopStep(w)
  PROVE  Owning'
<1> USE DEF dbVars, rowVars, lifeVars, loopVars, execVars
<1>t. /\ timing \in [Workers -> [Jobs -> {"no", "listed", "signalled"}]]
      /\ job \in [Jobs -> Job] /\ \A j \in Jobs : job[j] \in Job
      /\ claims \in [Jobs -> 0..MaxClaims] /\ exec \in [Execs -> Exec]
      /\ NoWorker \notin Workers
  BY NoWorkerAssumption DEF TypeOK
<1>1. CASE PollChecks(w) \/ ClaimsNothing(w)
  BY <1>1, OwningSpared DEF PollChecks, ClaimsNothing, Spared, Sheltered
<1>2. CASE SweepWorkers(w)
  <2>1. PICK R : (R = StaleRows \/ R = {}) /\ DeleteRows(R)
    BY <1>2 DEF SweepWorkers
  <2> QED BY <1>2, <2>1, OwningDeleted DEF SweepWorkers
<1>3. CASE SweepOrphans(w)
  <2>1. PICK S \in SUBSET RunningJobs :
          ResetJobs(S) /\ \A j \in S : job[j].owner = NoWorker
    BY <1>3 DEF SweepOrphans, Orphans
  <2> QED BY <1>3, <2>1, OwningReset DEF SweepOrphans
<1>4. CASE ListOverdueJobs(w)
  <2>1. /\ UNCHANGED <<job, resets, claims, exec>>
        /\ \A j \in Jobs : timing[w][j] = "no"
        /\ \A v \in Workers : v # w => timing'[v] = timing[v]
        /\ \A j \in Jobs : timing'[w][j] # "no" =>
             job[j].status = "running" /\ job[j].owner = w /\ Overdue(j)
    BY <1>4, <1>t DEF ListOverdueJobs, RunningJobs
  <2>2. \A j \in Jobs : Overdue(j) => \A e \in Execs : e[1] = j => ~Working(e)
    BY DEF Overdue, Working
  <2>3. WorkersKnown' /\ WorkOwns'
    BY <2>1 DEF Owning, WorkersKnown, WorkOwns, Working, Sheltered
  <2>4. ASSUME NEW v \in Workers, NEW j \in Jobs, Watched(v, j)', Sheltered(j)
        PROVE  \/ job[j].status = "cancelled"
               \/ /\ job[j].status = "running"
                  /\ job[j].owner \in {v, NoWorker} /\ (OnTime => job[j].owner = v)
                  /\ \A e \in Execs : e[1] = j => ~Working(e)
                  /\ \A u \in Workers : Watched(u, j)' => u = v
    <3>1. CASE v = w
      <4>1. job[j].status = "running" /\ job[j].owner = w
            /\ \A e \in Execs : e[1] = j => ~Working(e)
        BY <2>1, <2>2, <2>4, <3>1 DEF Watched
      <4>2. ASSUME NEW u \in Workers, Watched(u, j)', u # w PROVE FALSE
        <5>1. Watched(u, j)
          BY <2>1, <4>2 DEF Watched
        <5> QED BY <4>1, <4>2, <5>1, <2>4, <1>t DEF Owning, WatchOwns
      <4> QED BY <3>1, <4>1, <4>2
    <3>2. CASE v # w
      <4>1. Watched(v, j)
        BY <2>1, <2>4, <3>2 DEF Watched
      <4>2. ASSUME Watched(w, j)', job[j].status # "cancelled" PROVE FALSE
        <5>1. job[j].owner = w /\ job[j].owner \in {v, NoWorker}
          BY <2>1, <2>4, <4>1, <4>2 DEF Owning, WatchOwns, Watched
        <5> QED BY <5>1, <3>2, <1>t
      <4> QED BY <2>1, <2>4, <4>1, <4>2 DEF Owning, WatchOwns, Watched
    <3> QED BY <3>1, <3>2
  <2>5. WatchOwns'
    BY <2>1, <2>4 DEF WatchOwns, Working, Sheltered
  <2> QED BY <2>3, <2>5 DEF Owning
<1>5. ASSUME NEW j \in Jobs, ClaimNextJob(w, j) PROVE Owning'
  <2> DEFINE n == <<j, claims[j] + 1>>
  <2>1. /\ job[j].status = "pending" /\ n \in Execs
        /\ UNCHANGED <<resets, timing>>
    BY <1>5, <1>t, BoundsAssumption DEF ClaimNextJob, Claimable, Execs
  <2>2. /\ job'[j].status = "running" /\ job'[j].owner = w
        /\ \A k \in Jobs : k # j => job'[k] = job[k] /\ claims'[k] = claims[k]
        /\ claims'[j] = claims[j] + 1
        /\ exec'[n].by = w /\ \A e \in Execs : e # n => exec'[e] = exec[e]
    BY <1>5, <1>t, <2>1 DEF ClaimNextJob, Job
  <2>3. Sheltered(j) => Unattended(j)
    BY <2>1 DEF Unattended, Owning, WorkOwns, WatchOwns
  <2>4. WorkersKnown'
    BY <2>2 DEF Owning, WorkersKnown, Working
  <2>5. ASSUME NEW e \in Execs, Working(e)', Sheltered(e[1])
        PROVE  /\ claims'[e[1]] = e[2]
               /\ job'[e[1]].status \in {"running", "cancelled"}
               /\ OnTime /\ job'[e[1]].status = "running" => job'[e[1]].owner = exec'[e].by
    <3>1. CASE e = n
      BY <2>2, <3>1
    <3>2. CASE e # n
      <4>1. exec'[e] = exec[e] /\ Working(e) /\ e[1] \in Jobs
        BY <2>2, <2>5, <3>2 DEF Working, Execs
      <4>2. e[1] # j
        BY <2>3, <2>5, <4>1 DEF Unattended
      <4> QED BY <2>2, <2>5, <4>1, <4>2 DEF Owning, WorkOwns
    <3> QED BY <3>1, <3>2
  <2>6. ASSUME NEW v \in Workers, NEW k \in Jobs, Watched(v, k), Sheltered(k)
        PROVE  k # j /\ \A e \in Execs : e[1] = k => exec'[e] = exec[e]
    BY <2>2, <2>3, <2>6 DEF Unattended
  <2>7. WorkOwns'
    BY <2>1, <2>5 DEF WorkOwns, Sheltered
  <2>8. WatchOwns'
    BY <2>1, <2>2, <2>6 DEF Owning, WatchOwns, Watched, Working, Sheltered
  <2> QED BY <2>4, <2>7, <2>8 DEF Owning
<1>6. ASSUME NEW j \in Jobs, TimeoutSignals(w, j) PROVE Owning'
  <2>1. \A e \in Execs : exec'[e].phase = exec[e].phase /\ exec'[e].by = exec[e].by
    BY <1>6, <1>t DEF TimeoutSignals, Cancel, Exec
  <2>2. timing[w][j] = "listed" /\ timing' = [timing EXCEPT ![w][j] = "signalled"]
    BY <1>6 DEF TimeoutSignals
  <2>3. \A v \in Workers, k \in Jobs : Watched(v, k)' => Watched(v, k)
    BY <2>2, <1>t DEF Watched
  <2>4. UNCHANGED <<job, resets, claims>>
    BY <1>6 DEF TimeoutSignals
  <2> QED BY <2>1, <2>3, <2>4, OwningKept DEF Working, Sheltered
<1>7. ASSUME NEW j \in Jobs, TimeoutFails(w, j) PROVE Owning'
  <2>1. /\ UNCHANGED <<resets, claims, exec>> /\ timing[w][j] = "signalled"
        /\ timing' = [timing EXCEPT ![w][j] = "no"]
        /\ job' = job \/ job' = FailJob(j)
    BY <1>7 DEF TimeoutFails
  <2>2. /\ \A v \in Workers, k \in Jobs : Watched(v, k)' => Watched(v, k)
        /\ ~Watched(w, j)' /\ Watched(w, j)
    BY <2>1, <1>t DEF Watched
  <2>3. \A k \in Jobs : k # j => job'[k] = job[k]
    BY <2>1, <1>t DEF FailJob, IfRunning
  <2>4. job[j].status = "cancelled" => job'[j].status = "cancelled"
    BY <2>1, <1>t DEF FailJob, IfRunning, Job
  <2>5. Sheltered(j) /\ job[j].status # "cancelled" => Unattended(j)'
    BY <2>1, <2>2 DEF Owning, WatchOwns, Unattended, Working
  <2>6. \A e \in Execs : Working(e)' <=> Working(e)
    BY <2>1 DEF Working
  <2> QED BY <2>1, <2>2, <2>3, <2>4, <2>5, <2>6, OwningKept DEF Sheltered
<1> QED BY <1>1, <1>2, <1>3, <1>4, <1>5, <1>6, <1>7 DEF LoopStep

\* The steps of an execution: its writes go to its own row.
LEMMA ExecOwning ==
  ASSUME TypeOK, Owning, NEW e \in Execs, ExecStep(e) PROVE Owning'
<1> USE DEF dbVars, rowVars, lifeVars, loopVars, execVars
<1>t. /\ e[1] \in Jobs /\ job \in [Jobs -> Job] /\ \A j \in Jobs : job[j] \in Job
      /\ exec \in [Execs -> Exec]
  BY DEF TypeOK, Execs
<1>w. /\ UNCHANGED <<timing, resets, claims>>
      /\ \A d \in Execs : d # e => exec'[d] = exec[d]
      /\ \A d \in Execs : Working(d)' => Working(d) /\ exec'[d].by = exec[d].by
      /\ \A w \in Workers, j \in Jobs : Watched(w, j)' <=> Watched(w, j)
  BY ExecWorks DEF Watched
<1>1. CASE job' = job
  BY <1>1, <1>w, OwningKept DEF Sheltered
<1>2. ASSUME Working(e), ~Working(e)', \A k \in Jobs \ {e[1]} : job'[k] = job[k],
             job[e[1]].status = "cancelled" => job'[e[1]].status = "cancelled"
      PROVE  Owning'
  <2>1. Sheltered(e[1]) => job'[e[1]].status = "cancelled" \/ Unattended(e[1])'
    <3>1. CASE job[e[1]].status = "cancelled"
      BY <1>2, <3>1
    <3>2. ASSUME Sheltered(e[1]), job[e[1]].status # "cancelled"
          PROVE  /\ \A d \in Execs : d[1] = e[1] => ~Working(d)'
                 /\ \A w \in Workers : ~Watched(w, e[1])'
      <4>1. /\ \A d \in Execs : d[1] = e[1] /\ Working(d) => d = e
            /\ \A w \in Workers : ~Watched(w, e[1])
        BY <1>2, <3>2, Alone
      <4> QED BY <4>1, <1>2, <1>w, <1>t
    <3> QED BY <3>1, <3>2 DEF Unattended
  <2> QED BY <1>2, <1>w, <2>1, OwningKept DEF Sheltered
<1>3. ASSUME NEW s \in {"completed", "failed"}, job' = IfRunning(e[1], s),
             Working(e), ~Working(e)'
      PROVE  Owning'
  BY <1>2, <1>3, <1>t DEF IfRunning, Job
<1>4. CASE PanicFailsJob(e) \/ WriteCompleted(e) \/ WriteFailed(e)
  <2>1. Working(e)
    BY <1>4 DEF PanicFailsJob, WriteCompleted, WriteFailed, Working
  <2>2. exec'[e].phase \in {"done", "unwinding"}
    BY <1>4, <1>t DEF PanicFailsJob, WriteCompleted, WriteFailed, Phase, Done, NoExec, Exec
  <2>3. \/ job' = job
        \/ \E s \in {"completed", "failed"} : job' = IfRunning(e[1], s)
    BY <1>4 DEF PanicFailsJob, WriteCompleted, WriteFailed, FailJob, CompleteJob
  <2> QED BY <1>1, <1>3, <2>1, <2>2, <2>3 DEF Working
<1>5. CASE WriteRequeue(e)
  <2>1. CASE CanRequeue(e[1], "running") /\ Phase(e, "unwinding") /\ job' = Requeue(e[1])
    <3>1. Working(e) /\ exec'[e].phase = "unwinding"
      BY <1>5, <1>t, <2>1 DEF WriteRequeue, Working, Phase, Exec
    <3>2. job[e[1]].status = "running" /\ \A k \in Jobs \ {e[1]} : job'[k] = job[k]
      BY <2>1, <1>t DEF CanRequeue, Requeue
    <3> QED BY <1>2, <3>1, <3>2 DEF Working
  <2> QED BY <1>1, <1>5, <2>1 DEF WriteRequeue
<1> QED BY <1>1, <1>4, <1>5
        DEF ExecStep, BeginExecution, ScriptEnds, ExecutionPanics, Unwind

\* All steps.
LEMMA OwningStep ==
  ASSUME Silent = {}, TypeOK, Owning, OnTime => RowsTrue, [Next]_vars
  PROVE  Owning' /\ (OnTime => RowsTrue')
<1>1. OnTime => RowsTrue'
  BY RowsKept DEF Owning
<1>2. ASSUME Next PROVE Owning'
  <2>1. ASSUME UserStep \/ ManagerStep PROVE Owning'
    BY <2>1, UserOwning, ManagerOwning
  <2>2. ASSUME NEW w \in Workers, LifeStep(w) \/ LoopStep(w) PROVE Owning'
    BY <2>2, LifeOwning, LoopOwning
  <2>3. ASSUME NEW e \in Execs, ExecStep(e) PROVE Owning'
    BY <2>3, ExecOwning
  <2> QED BY <1>2, <2>1, <2>2, <2>3 DEF Next
<1>3. ASSUME UNCHANGED vars PROVE Owning'
  <2>1. UNCHANGED <<job, resets, claims, timing, exec>>
    BY <1>3 DEF vars, dbVars, loopVars, execVars
  <2> QED BY <2>1, OwningSpared DEF Spared, Sheltered
<1> QED BY <1>1, <1>2, <1>3

\* Initially no one works.
LEMMA InitOwning == Init => Owning /\ RowsTrue
  BY DEF Init, Owning, WorkersKnown, WorkOwns, WatchOwns, RowsTrue, Working, Watched, NoExec

\* When scripts report progress in time, the row of a running script that was
\* asked nothing is the script's own, unless a worker was declared dead over
\* the job before: whatever fails, crashes, panics, stalls or shuts down.
THEOREM NobodyRobsUnrecovered ==
  Silent = {} => (Spec => []RobbedOnlyAfterRecovery)
<1> SUFFICES ASSUME Silent = {} PROVE Spec => []RobbedOnlyAfterRecovery
  OBVIOUS
<1> DEFINE I == Owning /\ (OnTime => RowsTrue)
<1>1. Init => I
  BY InitOwning
<1>2. TypeOK /\ I /\ [Next]_vars => I'
  BY OwningStep
<1>3. TypeOK /\ I => RobbedOnlyAfterRecovery
  <2> SUFFICES ASSUME TypeOK, Owning, NEW e \in Execs, Live(e),
                      job[e[1]].status \in {"pending", "running"}, ~(resets[e[1]] > 0)
               PROVE  job[e[1]].status = "running" /\ claims[e[1]] = e[2]
    BY DEF RobbedOnlyAfterRecovery
  <2>1. Working(e) /\ e[1] \in Jobs
    BY DEF Live, Working, Execs
  <2>2. resets[e[1]] = 0
    BY <2>1 DEF TypeOK
  <2> QED BY <2>1, <2>2 DEF Owning, WorkOwns, Sheltered
<1> QED BY <1>1, <1>2, <1>3, TypeCorrect, PTL DEF Spec

\* When everybody is on time and nobody shuts down, no job ever has two live
\* executions: recoveries, restarts, retries, cancellations and lost writes
\* never start one next to another.
THEOREM OneLiveExecution ==
  OnTime /\ Silent = {} => (Spec => []ExclusiveExecution)
<1> SUFFICES ASSUME OnTime, Silent = {} PROVE Spec => []ExclusiveExecution
  OBVIOUS
<1> DEFINE I == Owning /\ (OnTime => RowsTrue)
<1>1. Init => I
  BY InitOwning
<1>2. TypeOK /\ I /\ [Next]_vars => I'
  BY OwningStep
<1>3. TypeOK /\ I => ExclusiveExecution
  <2> SUFFICES ASSUME TypeOK, Owning, NEW j \in Jobs
               PROVE  Cardinality(LiveOf(j)) <= 1
    BY DEF ExclusiveExecution
  <2> DEFINE last == <<j, claims[j]>>
  <2>1. LiveOf(j) \subseteq {last}
    <3> SUFFICES ASSUME NEW e \in Execs, e[1] = j, Live(e) PROVE e = last
      BY DEF LiveOf
    <3>1. claims[j] = e[2]
      BY DEF Live, Working, Owning, WorkOwns, Sheltered
    <3> QED BY <3>1 DEF Execs
  <2>2. IsFiniteSet({last}) /\ Cardinality({last}) = 1
    BY FS_Singleton
  <2>3. Cardinality(LiveOf(j)) <= Cardinality({last})
    BY <2>1, <2>2, FS_Subset
  <2> QED BY <2>2, <2>3
<1> QED BY <1>1, <1>2, <1>3, TypeCorrect, PTL DEF Spec
=============================================================================
