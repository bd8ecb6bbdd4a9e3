------------------------------ MODULE JobQueue ------------------------------
(***************************************************************************)
(* The background-job queue of internal/jobs: the tables jobs.queue and    *)
(* jobs.workers, the workers of every server instance that poll them, the  *)
(* instances' managers, and the users who submit, cancel and retry jobs.   *)
(*                                                                         *)
(* Every action is one SQL transaction, or one critical section of the Go  *)
(* code, so that whatever can happen between two of them does.  Times are  *)
(* abstracted to what the code compares: a heartbeat row is "fresh" or     *)
(* "stale" (older than worker_timeout), a pending job is due or waits for  *)
(* its scheduled_at.  A worker, like an instance, is used once: the code   *)
(* draws a new uuid for each (worker.go:53), and an instance is one life   *)
(* of a server process.                                                    *)
(***************************************************************************)
EXTENDS Integers, FiniteSets

CONSTANTS
    Jobs,           \* rows that jobs.queue may hold
    Workers,        \* worker uuids
    Instances,      \* server processes
    NoWorker,       \* queue.worker_id IS NULL
    Host,           \* the instance of each worker
    Replacements,   \* the workers that the supervisor starts (manager.go:217)
    TenantJobs,     \* the jobs whose tenant_id is not NULL
    MaxRetries,     \* queue.max_retries
    MaxConcurrent,  \* max_concurrent_per_worker
    MaxClaims,      \* bound of the model: claims of one job
    Cancellable,    \* jobs that users may cancel
    Silent,         \* jobs whose script may report no progress for too long
    Stallable,      \* live workers whose heartbeats may come too late
    Fragile,        \* workers with a background loop that may panic
    Crashable,      \* instances that may be killed
    Stoppable,      \* instances that may be shut down
    DBMayFail       \* whether a statement of a worker may fail

ASSUME NoWorkerAssumption == NoWorker \notin Workers
ASSUME HostAssumption == Host \in [Workers -> Instances]
ASSUME BoundsAssumption == /\ MaxRetries \in Nat
                           /\ MaxConcurrent \in Nat \ {0}
                           /\ MaxClaims \in Nat \ {0}
ASSUME FailureAssumption == /\ DBMayFail \in BOOLEAN
                            /\ Replacements \subseteq Workers

VARIABLES
    job,      \* jobs.queue: status, owner (worker_id), retries, due
    resets,   \* history: times the job went back to pending by a recovery
    claims,   \* history: times the job was claimed
    reg,      \* jobs.workers: status of the row, "none" when there is none
    hb,       \* jobs.workers: age of last_heartbeat_at
    inst,     \* the manager of each instance
    proc,     \* Worker.Start: where each worker is in its life
    beat,     \* whether heartbeatLoop still runs
    poll,     \* pollLoop: between its checks and ClaimNextJob?
    sweep,    \* staleWorkerCleanupLoop: between its two statements?
    timing,   \* progressTimeoutLoop: how far it got with each job it listed
    exec,     \* the goroutine of every claim
    slot,     \* Worker.currentJobs: the claim whose cancel signal is stored
    cancels   \* CancelJob handlers between the database and the signal

dbVars  == <<job, resets, claims>>
rowVars == <<reg, hb>>
lifeVars == <<inst, proc, beat>>
loopVars == <<poll, sweep, timing>>
execVars == <<exec, slot>>
vars == <<dbVars, rowVars, lifeVars, loopVars, execVars, cancels>>

Status == {"none", "pending", "running", "completed", "failed", "cancelled"}
RowStatus == {"none", "active", "draining", "stopped"}
Phases == {"none", "claimed", "running", "ok", "retrying", "failing",
           "panicked", "unwinding", "done"}

\* The statuses that CHECK (queue_status_check) lets into jobs.queue.
QueueStatusCheck == {"pending", "running", "completed", "failed", "cancelled"}

\* The n-th claim of a job and the goroutine that runs it.
Execs == Jobs \X (1..MaxClaims)
NoExec == [phase |-> "none", by |-> NoWorker, seen |-> 0, sig |-> "none"]
Done == [NoExec EXCEPT !.phase = "done"]

Alive(i) == inst[i] \in {"recovering", "up", "stopping"}
Running(w) == proc[w] \in {"up", "signalled", "draining", "stopped"}

\* A replacement runs under the supervisor's context (manager.go:217), which
\* Manager.Stop cancels before it stops the workers.
CtxDone(w) == w \in Replacements /\ inst[Host[w]] = "stopping"

\* The outcomes of a statement of worker w: does it take effect?
Outcomes(w) == IF CtxDone(w) THEN {FALSE} ELSE {TRUE, ~DBMayFail}

\* Executions that Worker.currentJobCount counts (worker.go:497-498).
Counted(w) == {e \in Execs :
                 /\ exec[e].by = w
                 /\ exec[e].phase \in {"running", "ok", "retrying", "failing",
                                       "unwinding"}}

RunningJobs == {j \in Jobs : job[j].status = "running"}
Orphans == {j \in RunningJobs : job[j].owner = NoWorker}
StaleRows == {w \in Workers : reg[w] # "none" /\ hb[w] = "stale"}

(***************************************************************************)
(* The statements of storage_queue.go and storage_workers.go.              *)
(***************************************************************************)
\* Mutant of IfRunning: the guard on the status is forgotten.
IfRunningUnguarded(j, new) == [job EXCEPT ![j].status = new]

IfRunning(j, new) ==
    [job EXCEPT ![j].status = IF @ = "running" THEN new ELSE @]

CompleteJob(j) == IfRunning(j, "completed")
FailJob(j) == IfRunning(j, "failed")

\* The UPDATE of a running row to a status outside the CHECK is an error.
InterruptJob(row) ==
    IF row.status = "running" /\ "interrupted" \in QueueStatusCheck
    THEN [row EXCEPT !.status = "interrupted"]
    ELSE row

\* Mutant of CanRequeue: max_retries is forgotten.
CanRequeueForEver(j, from) == job[j].status = from

CanRequeue(j, from) == job[j].status = from /\ job[j].retries < MaxRetries

\* Mutant of Requeue: the retry is not counted.
RequeueForFree(j) ==
    [job EXCEPT ![j] = [@ EXCEPT !.status = "pending", !.owner = NoWorker,
                                 !.due = FALSE]]

Requeue(j) ==
    [job EXCEPT ![j] = [status |-> "pending", owner |-> NoWorker,
                        retries |-> @.retries + 1, due |-> FALSE]]

ResetJobs(S) ==
    /\ job' = [j \in Jobs |->
                 IF j \in S
                 THEN [job[j] EXCEPT !.status = "pending", !.owner = NoWorker]
                 ELSE job[j]]
    /\ resets' = [j \in Jobs |-> IF j \in S THEN resets[j] + 1 ELSE resets[j]]

\* Mutant of DeleteRows: the foreign key leaves the jobs alone.
DeleteRowsOnly(R) ==
    /\ reg' = [w \in Workers |-> IF w \in R THEN "none" ELSE reg[w]]
    /\ hb' = [w \in Workers |-> IF w \in R THEN "fresh" ELSE hb[w]]
    /\ UNCHANGED job

\* DELETE of the rows in R; fk_queue_worker is ON DELETE SET NULL.
DeleteRows(R) ==
    /\ reg' = [w \in Workers |-> IF w \in R THEN "none" ELSE reg[w]]
    /\ hb' = [w \in Workers |-> IF w \in R THEN "fresh" ELSE hb[w]]
    /\ job' = [j \in Jobs |->
                 IF job[j].owner \in R THEN [job[j] EXCEPT !.owner = NoWorker]
                 ELSE job[j]]

UpdateWorkerStatus(w, s) ==
    reg' = [reg EXCEPT ![w] = IF @ = "none" \/ CtxDone(w) THEN @ ELSE s]

(***************************************************************************)
(* Initially the tables are empty and no process has started.              *)
(***************************************************************************)
Init ==
    /\ job = [j \in Jobs |-> [status |-> "none", owner |-> NoWorker,
                              retries |-> 0, due |-> TRUE]]
    /\ resets = [j \in Jobs |-> 0]
    /\ claims = [j \in Jobs |-> 0]
    /\ reg = [w \in Workers |-> "none"]
    /\ hb = [w \in Workers |-> "fresh"]
    /\ inst = [i \in Instances |-> "off"]
    /\ proc = [w \in Workers |-> "new"]
    /\ beat = [w \in Workers |-> FALSE]
    /\ poll = [w \in Workers |-> FALSE]
    /\ sweep = [w \in Workers |-> FALSE]
    /\ timing = [w \in Workers |-> [j \in Jobs |-> "no"]]
    /\ exec = [e \in Execs |-> NoExec]
    /\ slot = [w \in Workers |-> [j \in Jobs |-> 0]]
    /\ cancels = {}

(***************************************************************************)
(* Users: handler_jobs.go.                                                 *)
(***************************************************************************)

\* SubmitJob and ResubmitJobAdmin: INSERT a pending row; scheduled_at may lie
\* in the future.
SubmitJob(j) ==
    /\ job[j].status = "none"
    /\ \E due \in BOOLEAN :
         job' = [job EXCEPT ![j] = [@ EXCEPT !.status = "pending", !.due = due]]
    /\ UNCHANGED <<resets, claims, rowVars, lifeVars, loopVars, execVars, cancels>>

\* CancelJob, CancelJobAdmin and TerminateJob served by instance i: the row
\* first, in its own transaction.
CancelJob(i, j) ==
    /\ Alive(i) /\ j \in Cancellable
    /\ job[j].status \in {"pending", "running"}
    /\ job' = [job EXCEPT ![j].status = "cancelled"]
    /\ cancels' = cancels \union {<<i, j>>}
    /\ UNCHANGED <<resets, claims, rowVars, lifeVars, loopVars, execVars>>

\* What Worker.cancelJob of the workers in W does to their executions of j.
Cancel(W, j) ==
    [e \in Execs |->
       IF \E w \in W : e = <<j, slot[w][j]>>
       THEN [exec[e] EXCEPT !.sig = "cancelled"]
       ELSE exec[e]]

\* ... then Manager.CancelJob signals the workers of that instance only.
SignalWorkers(i, j) ==
    /\ <<i, j>> \in cancels
    /\ exec' = Cancel({w \in Workers : Host[w] = i}, j)
    /\ cancels' = cancels \ {<<i, j>>}
    /\ UNCHANGED <<dbVars, rowVars, lifeVars, loopVars, slot>>

\* RetryJob and RetryJobAdmin: RequeueFailedJob.
RetryJob(j) ==
    /\ CanRequeue(j, "failed")
    /\ job' = Requeue(j)
    /\ UNCHANGED <<resets, claims, rowVars, lifeVars, loopVars, execVars, cancels>>

\* NOW() passes scheduled_at.
BecomesDue(j) ==
    /\ job[j].status = "pending" /\ ~job[j].due
    /\ job' = [job EXCEPT ![j].due = TRUE]
    /\ UNCHANGED <<resets, claims, rowVars, lifeVars, loopVars, execVars, cancels>>

(***************************************************************************)
(* The manager of an instance: manager.go.                                 *)
(***************************************************************************)

\* Mutant of RecoverStaleJobs: every running job is taken for a leftover.
RecoverAllJobs(i) ==
    /\ inst[i] = "off"
    /\ inst' = [inst EXCEPT ![i] = "recovering"]
    /\ ResetJobs(RunningJobs)
    /\ UNCHANGED <<claims, rowVars, proc, beat, loopVars, execVars, cancels>>

\* Manager.Start begins with RecoverStaleJobs.  O are the orphans that have
\* been running for longer than worker_timeout.
RecoverStaleJobs(i) ==
    /\ inst[i] = "off"
    /\ inst' = [inst EXCEPT ![i] = "recovering"]
    /\ \E O \in SUBSET Orphans :
         ResetJobs(O \union {j \in RunningJobs :
                               /\ job[j].owner # NoWorker
                               /\ \/ hb[job[j].owner] = "stale"
                                  \/ reg[job[j].owner] = "stopped"})
    /\ UNCHANGED <<claims, rowVars, proc, beat, loopVars, execVars, cancels>>

\* ... goes on with CleanupStaleWorkers, and then starts its workers.
CleanupAtStart(i) ==
    /\ inst[i] = "recovering"
    /\ inst' = [inst EXCEPT ![i] = "up"]
    /\ DeleteRows(StaleRows)
    /\ UNCHANGED <<resets, claims, proc, beat, loopVars, execVars, cancels>>

\* Manager.Stop: the supervisor's context ends, then Worker.Stop of each
\* worker closes its shutdownChan (SignalShutdown).
StopManager(i) ==
    /\ i \in Stoppable /\ inst[i] = "up"
    /\ inst' = [inst EXCEPT ![i] = "stopping"]
    /\ UNCHANGED <<dbVars, rowVars, proc, beat, loopVars, execVars, cancels>>

\* What disappears with the process of instance i.
EndProcess(i) ==
    LET mine == {w \in Workers : Host[w] = i}
        IdleLoop(loop) == [w \in Workers |-> IF w \in mine THEN FALSE ELSE loop[w]]
    IN  /\ inst' = [inst EXCEPT ![i] = "gone"]
        /\ proc' = [w \in Workers |-> IF w \in mine /\ proc[w] # "new"
                                      THEN "dead" ELSE proc[w]]
        /\ beat' = IdleLoop(beat)
        /\ poll' = IdleLoop(poll)
        /\ sweep' = IdleLoop(sweep)
        /\ timing' = [w \in Workers |-> IF w \in mine THEN [j \in Jobs |-> "no"]
                                        ELSE timing[w]]
        /\ exec' = [e \in Execs |-> IF exec[e].by \in mine THEN Done ELSE exec[e]]
        /\ slot' = [w \in Workers |-> IF w \in mine THEN [j \in Jobs |-> 0]
                                      ELSE slot[w]]
        /\ cancels' = {c \in cancels : c[1] # i}
        /\ UNCHANGED <<dbVars, rowVars>>

\* wg.Wait() of Manager.Stop returns once every Worker.Start has.
ProcessExit(i) ==
    /\ inst[i] = "stopping"
    /\ \A w \in Workers : Host[w] = i => proc[w] \in {"new", "stopped"}
    /\ EndProcess(i)

Crash(i) ==
    /\ i \in Crashable /\ Alive(i)
    /\ EndProcess(i)

(***************************************************************************)
(* The life of a worker: Worker.Start, heartbeatLoop and their clock.      *)
(***************************************************************************)
Active(i) == {w \in Workers : Host[w] = i /\ proc[w] \in {"up", "signalled", "draining"}}
Initial(i) == {w \in Workers : Host[w] = i /\ w \notin Replacements}

\* Worker.Start: RegisterWorker, then the four loops.  A replacement starts
\* when the supervisor learnt of a failure and is below its target.
StartWorker(w) ==
    /\ inst[Host[w]] = "up" /\ proc[w] = "new"
    /\ w \in Replacements =>
         /\ Cardinality(Active(Host[w])) < Cardinality(Initial(Host[w]))
         /\ \A v \in Initial(Host[w]) : proc[v] # "new"
    /\ reg' = [reg EXCEPT ![w] = "active"]
    /\ hb' = [hb EXCEPT ![w] = "fresh"]
    /\ proc' = [proc EXCEPT ![w] = "up"]
    /\ beat' = [beat EXCEPT ![w] = TRUE]
    /\ UNCHANGED <<dbVars, inst, loopVars, execVars, cancels>>

\* UpdateWorkerHeartbeat; 0 rows, and only a warning, once the row is gone.
Heartbeat(w) ==
    /\ beat[w] /\ reg[w] # "none" /\ hb[w] = "stale" /\ ~CtxDone(w)
    /\ hb' = [hb EXCEPT ![w] = "fresh"]
    /\ UNCHANGED <<dbVars, reg, lifeVars, loopVars, execVars, cancels>>

\* worker_timeout passes since the last heartbeat.
HeartbeatGoesStale(w) ==
    /\ reg[w] # "none" /\ hb[w] = "fresh"
    /\ ~beat[w] \/ w \in Stallable \/ CtxDone(w)
    /\ hb' = [hb EXCEPT ![w] = "stale"]
    /\ UNCHANGED <<dbVars, reg, lifeVars, loopVars, execVars, cancels>>

\* Worker.Stop or, when a loop panicked (Worker.fail), signalShutdown.
SignalShutdown(w) ==
    /\ proc[w] = "up"
    /\ inst[Host[w]] = "stopping" \/ w \in Fragile
    /\ proc' = [proc EXCEPT ![w] = "signalled"]
    /\ UNCHANGED <<dbVars, rowVars, inst, beat, loopVars, execVars, cancels>>

\* heartbeatLoop sees shutdownChan: status "stopped" and no more heartbeats,
\* at any moment after the signal.
HeartbeatLoopExits(w) ==
    /\ beat[w] /\ proc[w] \in {"signalled", "draining", "stopped"}
    /\ beat' = [beat EXCEPT ![w] = FALSE]
    /\ UpdateWorkerStatus(w, "stopped")
    /\ UNCHANGED <<dbVars, hb, inst, proc, loopVars, execVars, cancels>>

\* Start: setDraining(true), then status "draining".
BeginDrain(w) ==
    /\ proc[w] = "signalled"
    /\ proc' = [proc EXCEPT ![w] = "draining"]
    /\ UpdateWorkerStatus(w, "draining")
    /\ UNCHANGED <<dbVars, hb, inst, beat, loopVars, execVars, cancels>>

\* The ticker of Start finds the job count at 0: "All jobs completed".
DrainCompletes(w) ==
    /\ proc[w] = "draining" /\ Counted(w) = {}
    /\ proc' = [proc EXCEPT ![w] = "stopped"]
    /\ UNCHANGED <<dbVars, rowVars, inst, beat, loopVars, execVars, cancels>>

\* graceful_shutdown_timeout: interruptAllJobs, each job signalled and then
\* marked with InterruptJob.
DrainTimesOut(w) ==
    /\ proc[w] = "draining" /\ Counted(w) # {}
    /\ proc' = [proc EXCEPT ![w] = "stopped"]
    /\ exec' = [e \in Execs |-> IF slot[w][e[1]] = e[2]
                                THEN [exec[e] EXCEPT !.sig = "interrupted"]
                                ELSE exec[e]]
    /\ job' = [j \in Jobs |-> IF slot[w][j] # 0 THEN InterruptJob(job[j])
                              ELSE job[j]]
    /\ UNCHANGED <<resets, claims, rowVars, inst, beat, loopVars, slot, cancels>>

(***************************************************************************)
(* The loops of a worker.  A loop whose shutdownChan is closed may still   *)
(* take a tick, select being free to choose; pollLoop stops at the flag.   *)
(***************************************************************************)
Ticking(w) == proc[w] \in {"up", "signalled", "draining"}

\* pollLoop: isDraining() and hasCapacity() pass.
PollChecks(w) ==
    /\ proc[w] \in {"up", "signalled"} /\ ~poll[w]
    /\ Cardinality(Counted(w)) < MaxConcurrent
    /\ poll' = [poll EXCEPT ![w] = TRUE]
    /\ UNCHANGED <<dbVars, rowVars, lifeVars, sweep, timing, execVars, cancels>>

\* Mutant of Claimable: running jobs are not excluded.
ClaimableTwice(w) ==
    IF reg[w] = "none" \/ CtxDone(w) THEN {}
    ELSE {j \in Jobs : /\ job[j].status \in {"pending", "running"}
                       /\ claims[j] < MaxClaims}

\* What ClaimNextJob may claim: FOR UPDATE SKIP LOCKED passes over the rows
\* that other transactions hold, so any due row may come first.
Claimable(w) ==
    IF reg[w] = "none" \/ CtxDone(w) THEN {}
    ELSE {j \in Jobs : /\ job[j].status = "pending" /\ job[j].due
                       /\ claims[j] < MaxClaims}

\* ... ClaimNextJob, and the goroutine for the job.
ClaimNextJob(w, j) ==
    /\ poll[w] /\ j \in Claimable(w)
    /\ job' = [job EXCEPT ![j] = [@ EXCEPT !.status = "running", !.owner = w]]
    /\ claims' = [claims EXCEPT ![j] = @ + 1]
    /\ exec' = [exec EXCEPT ![<<j, claims[j] + 1>>] =
                  [phase |-> "claimed", by |-> w, seen |-> job[j].retries,
                   sig |-> "none"]]
    /\ poll' = [poll EXCEPT ![w] = FALSE]
    /\ UNCHANGED <<resets, rowVars, lifeVars, sweep, timing, slot, cancels>>

\* ... no rows, or an error.
ClaimsNothing(w) ==
    /\ poll[w] /\ (Claimable(w) = {} \/ DBMayFail)
    /\ poll' = [poll EXCEPT ![w] = FALSE]
    /\ UNCHANGED <<dbVars, rowVars, lifeVars, sweep, timing, execVars, cancels>>

\* staleWorkerCleanupLoop: CleanupStaleWorkers ...
SweepWorkers(w) ==
    /\ Ticking(w) /\ ~sweep[w]
    /\ StaleRows # {} \/ Orphans # {}
    /\ sweep' = [sweep EXCEPT ![w] = TRUE]
    /\ \E ok \in Outcomes(w) : DeleteRows(IF ok THEN StaleRows ELSE {})
    /\ UNCHANGED <<resets, claims, lifeVars, poll, timing, execVars, cancels>>

\* ... and ResetOrphanedJobs, whether or not the first succeeded.
SweepOrphans(w) ==
    /\ Running(w) /\ sweep[w]
    /\ sweep' = [sweep EXCEPT ![w] = FALSE]
    /\ \E ok \in Outcomes(w) : ResetJobs(IF ok THEN Orphans ELSE {})
    /\ UNCHANGED <<claims, rowVars, lifeVars, poll, timing, execVars, cancels>>

\* last_progress_at is older than the progress timeout: no execution of j has
\* just been claimed, and none is in progress unless its script is silent.
Overdue(j) ==
    \A e \in Execs : e[1] = j =>
       \/ exec[e].phase \in {"none", "unwinding", "done"}
       \/ exec[e].phase = "running" /\ j \in Silent

\* progressTimeoutLoop: ListJobs of the running jobs of w.  The context of the
\* loop has no tenant, so the query asks for tenant_id IS NULL.
ListOverdueJobs(w) ==
    /\ Ticking(w) /\ \A j \in Jobs : timing[w][j] = "no"
    /\ ~CtxDone(w)
    /\ \E S \in (SUBSET {j \in RunningJobs \ TenantJobs :
                           job[j].owner = w /\ Overdue(j)}) \ {{}} :
         timing' = [timing EXCEPT ![w] =
                      [j \in Jobs |-> IF j \in S THEN "listed" ELSE "no"]]
    /\ UNCHANGED <<dbVars, rowVars, lifeVars, poll, sweep, execVars, cancels>>

\* ... cancelJob of each ...
TimeoutSignals(w, j) ==
    /\ timing[w][j] = "listed"
    /\ timing' = [timing EXCEPT ![w][j] = "signalled"]
    /\ exec' = Cancel({w}, j)
    /\ UNCHANGED <<dbVars, rowVars, lifeVars, poll, sweep, slot, cancels>>

\* ... and FailJob.
TimeoutFails(w, j) ==
    /\ timing[w][j] = "signalled"
    /\ timing' = [timing EXCEPT ![w][j] = "no"]
    /\ \E ok \in Outcomes(w) : job' = IF ok THEN FailJob(j) ELSE job
    /\ UNCHANGED <<resets, claims, rowVars, lifeVars, poll, sweep, execVars, cancels>>

(***************************************************************************)
(* executeJob, for the execution e = <<job, claim>>.                       *)
(***************************************************************************)
Phase(e, p) == exec' = [exec EXCEPT ![e].phase = p]

\* incrementJobCount and currentJobs.Store; then the script starts or, its
\* function missing, disabled or empty, FailJob comes next.
BeginExecution(e) ==
    /\ exec[e].phase = "claimed"
    /\ Phase(e, "running") \/ Phase(e, "failing")
    /\ slot' = [slot EXCEPT ![exec[e].by][e[1]] = e[2]]
    /\ UNCHANGED <<dbVars, rowVars, lifeVars, loopVars, cancels>>

\* Runtime.Execute returns.  A cancelled execution returns at once; the retry
\* decision reads the retry_count of the claim.
ScriptEnds(e) ==
    /\ exec[e].phase = "running"
    /\ IF exec[e].sig # "none"
       THEN Phase(e, "unwinding")
       ELSE \/ Phase(e, "ok") /\ ~CtxDone(exec[e].by)
            \/ Phase(e, IF exec[e].seen < MaxRetries THEN "retrying" ELSE "failing")
    /\ UNCHANGED <<dbVars, rowVars, lifeVars, loopVars, slot, cancels>>

\* Execute returned a nil result (no token, no temporary directory) and
\* result.Error panics; the deferred calls run first.
ExecutionPanics(e) ==
    /\ exec[e].phase = "running" /\ exec[e].sig = "none"
    /\ Phase(e, "panicked")
    /\ slot' = [slot EXCEPT ![exec[e].by][e[1]] = 0]
    /\ UNCHANGED <<dbVars, rowVars, lifeVars, loopVars, cancels>>

\* pollLoop's recover: FailJob under a context of its own.
PanicFailsJob(e) ==
    /\ exec[e].phase = "panicked"
    /\ exec' = [exec EXCEPT ![e] = Done]
    /\ \E ok \in {TRUE, ~DBMayFail} : job' = IF ok THEN FailJob(e[1]) ELSE job
    /\ UNCHANGED <<resets, claims, rowVars, lifeVars, loopVars, slot, cancels>>

WriteCompleted(e) ==
    /\ exec[e].phase = "ok"
    /\ Phase(e, "unwinding")
    /\ \E ok \in Outcomes(exec[e].by) :
         job' = IF ok THEN CompleteJob(e[1]) ELSE job
    /\ UNCHANGED <<resets, claims, rowVars, lifeVars, loopVars, slot, cancels>>

\* RequeueJob; when it fails or matches no row, FailJob comes next.
WriteRequeue(e) ==
    /\ exec[e].phase = "retrying"
    /\ \E ok \in Outcomes(exec[e].by) :
         IF ok /\ CanRequeue(e[1], "running")
         THEN Phase(e, "unwinding") /\ job' = Requeue(e[1])
         ELSE Phase(e, "failing") /\ job' = job
    /\ UNCHANGED <<resets, claims, rowVars, lifeVars, loopVars, slot, cancels>>

WriteFailed(e) ==
    /\ exec[e].phase = "failing"
    /\ Phase(e, "unwinding")
    /\ \E ok \in Outcomes(exec[e].by) : job' = IF ok THEN FailJob(e[1]) ELSE job
    /\ UNCHANGED <<resets, claims, rowVars, lifeVars, loopVars, slot, cancels>>

\* The deferred calls: currentJobs.Delete(job.ID), whoever stored there, and
\* decrementJobCount.
Unwind(e) ==
    /\ exec[e].phase = "unwinding"
    /\ exec' = [exec EXCEPT ![e] = Done]
    /\ slot' = [slot EXCEPT ![exec[e].by][e[1]] = 0]
    /\ UNCHANGED <<dbVars, rowVars, lifeVars, loopVars, cancels>>

(***************************************************************************)
(* The specification.                                                      *)
(***************************************************************************)
UserStep == \E j \in Jobs : \/ SubmitJob(j) \/ RetryJob(j) \/ BecomesDue(j)
                            \/ \E i \in Instances : CancelJob(i, j) \/ SignalWorkers(i, j)

ManagerStep == \E i \in Instances :
    \/ RecoverStaleJobs(i) \/ CleanupAtStart(i)
    \/ StopManager(i) \/ ProcessExit(i) \/ Crash(i)

LifeStep(w) ==
    \/ StartWorker(w) \/ Heartbeat(w) \/ HeartbeatGoesStale(w)
    \/ SignalShutdown(w) \/ HeartbeatLoopExits(w)
    \/ BeginDrain(w) \/ DrainCompletes(w) \/ DrainTimesOut(w)

LoopStep(w) ==
    \/ PollChecks(w) \/ ClaimsNothing(w) \/ SweepWorkers(w) \/ SweepOrphans(w)
    \/ ListOverdueJobs(w)
    \/ \E j \in Jobs : ClaimNextJob(w, j) \/ TimeoutSignals(w, j) \/ TimeoutFails(w, j)

ExecStep(e) ==
    \/ BeginExecution(e) \/ ScriptEnds(e)
    \/ ExecutionPanics(e) \/ PanicFailsJob(e)
    \/ WriteCompleted(e) \/ WriteRequeue(e) \/ WriteFailed(e) \/ Unwind(e)

Next ==
    \/ UserStep \/ ManagerStep
    \/ \E w \in Workers : LifeStep(w) \/ LoopStep(w)
    \/ \E e \in Execs : ExecStep(e)

Spec == Init /\ [][Next]_vars

\* Fairness: goroutines are scheduled, tickers tick, scripts end (each has a
\* maximal duration), time passes, and a statement that a loop repeats on
\* every tick does not fail forever.  Nothing is asked of users, of crashes
\* and shutdowns, or of the one-shot writes of executeJob.
Fairness ==
    /\ WF_vars(\E j \in Jobs : BecomesDue(j))
    /\ WF_vars(\E e \in Execs : ExecStep(e))
    /\ \A i \in Instances : WF_vars(RecoverStaleJobs(i)) /\ WF_vars(CleanupAtStart(i))
    /\ \A w \in Workers :
         /\ WF_vars(StartWorker(w))
         /\ WF_vars(~beat[w] /\ HeartbeatGoesStale(w))
         /\ WF_vars(HeartbeatLoopExits(w))
         /\ WF_vars(\/ inst[Host[w]] = "stopping" /\ SignalShutdown(w)
                    \/ BeginDrain(w) \/ DrainCompletes(w) \/ DrainTimesOut(w))
         /\ WF_vars(PollChecks(w))
         /\ SF_vars(\E j \in Jobs : ClaimNextJob(w, j))
         /\ SF_vars(SweepWorkers(w) /\ (StaleRows = {} \/ reg' # reg))
         /\ SF_vars(SweepOrphans(w) /\ (Orphans = {} \/ job' # job))
         /\ WF_vars(ListOverdueJobs(w))
         /\ WF_vars(\E j \in Jobs : TimeoutSignals(w, j))
         /\ \A j \in Jobs : SF_vars(TimeoutFails(w, j) /\ job' = FailJob(j))

FairSpec == Spec /\ Fairness

(***************************************************************************)
(* Properties.                                                             *)
(***************************************************************************)
Job == [status : Status, owner : Workers \union {NoWorker},
        retries : 0..MaxRetries, due : BOOLEAN]
Exec == [phase : Phases, by : Workers \union {NoWorker}, seen : 0..MaxRetries,
         sig : {"none", "cancelled", "interrupted"}]

\* The types of the variables.  That retries stays below max_retries is the
\* guard of requeueJobWithStatus at work.
TypeOK ==
    /\ job \in [Jobs -> Job]
    /\ resets \in [Jobs -> Nat]
    /\ claims \in [Jobs -> 0..MaxClaims]
    /\ reg \in [Workers -> RowStatus]
    /\ hb \in [Workers -> {"fresh", "stale"}]
    /\ inst \in [Instances -> {"off", "recovering", "up", "stopping", "gone"}]
    /\ proc \in [Workers -> {"new", "up", "signalled", "draining", "stopped", "dead"}]
    /\ beat \in [Workers -> BOOLEAN]
    /\ poll \in [Workers -> BOOLEAN]
    /\ sweep \in [Workers -> BOOLEAN]
    /\ timing \in [Workers -> [Jobs -> {"no", "listed", "signalled"}]]
    /\ exec \in [Execs -> Exec]
    /\ slot \in [Workers -> [Jobs -> 0..MaxClaims]]
    /\ cancels \subseteq Instances \X Jobs

\* Every claim of a job is paid for: by its submission, by one retry that
\* retry_count records, or by one recovery of a worker declared dead.  So a
\* job is executed at most 1 + max_retries + resets times, whatever zombies,
\* users and starting instances do to its row meanwhile.
ClaimsArePaid ==
    \A j \in Jobs :
      LET paid == job[j].retries + resets[j]
      IN  /\ job[j].status \in {"none", "pending"} => claims[j] = paid
          /\ job[j].status = "cancelled" => claims[j] \in {paid, paid + 1}
          /\ job[j].status \in {"running", "completed", "failed"} =>
               claims[j] = paid + 1

\* A completed or cancelled job is final; a failed one leaves its state by a
\* retry only, and the retry is counted.  Late writes of other executions, of
\* the progress timeout and of recovery all have to respect it.
TerminalIsFinal ==
    [][\A j \in Jobs :
         /\ job[j].status \in {"completed", "cancelled"} =>
              /\ job'[j].status = job[j].status
              /\ claims'[j] = claims[j]
         /\ job[j].status = "failed" /\ job'[j].status # "failed" =>
              /\ job'[j].status = "pending"
              /\ job'[j].retries = job[j].retries + 1]_vars

\* The script of an execution runs and nobody asked it to stop.
Live(e) == exec[e].phase = "running" /\ exec[e].sig = "none"
LiveOf(j) == {e \in Execs : e[1] = j /\ Live(e)}

\* As long as every heartbeat is on time, no instance is shut down and no
\* script exceeds its progress timeout, a job has at most one live execution:
\* crashes, restarts, recoveries, retries, cancellations and lost writes never
\* start a second one next to it.
ExclusiveExecution == \A j \in Jobs : Cardinality(LiveOf(j)) <= 1

\* A live execution loses its job only when a worker was declared dead over
\* that job before, itself or an earlier owner whose zombie still writes: in
\* a history of a job without recovery, and whose scripts report progress in
\* time, no retry, lost write or shutdown ever puts a running script next to
\* a row that is pending or claimed again.
RobbedOnlyAfterRecovery ==
    \A e \in Execs :
      Live(e) /\ job[e[1]].status \in {"pending", "running"} =>
        \/ job[e[1]].status = "running" /\ claims[e[1]] = e[2]
        \/ resets[e[1]] > 0

\* Whatever crashes, stalls or loses its writes: a pending job is eventually
\* completed, failed or cancelled, provided one worker lives on.
EveryJobSettles ==
    \A j \in Jobs : job[j].status = "pending" ~>
                       job[j].status \in {"completed", "failed", "cancelled"}

\* The columns a user sees follow JobLifecycle.
Lifecycle == INSTANCE JobLifecycle WITH
    status <- [j \in Jobs |-> job[j].status],
    retries <- [j \in Jobs |-> job[j].retries]
RefinesLifecycle == Lifecycle!Spec

(***************************************************************************)
(* What comments and documents say of the program, and the code does not.  *)
(***************************************************************************)

\* manager.go, on RecoverStaleJobs: "live workers on other instances are never
\* disrupted".  A starting instance takes no job from a live execution.
LiveWorkersUndisturbed ==
    [][\A i \in Instances : inst[i] = "off" /\ inst'[i] = "recovering" =>
         \A e \in Execs : Live(e) /\ claims[e[1]] = e[2] =>
           resets'[e[1]] = resets[e[1]]]_vars
=============================================================================
