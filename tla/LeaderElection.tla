--------------------------- MODULE LeaderElection ---------------------------
(***************************************************************************)
(* The election of the instance that runs a cron scheduler                 *)
(* (internal/scaling/leader.go), the scheduler that it starts and stops    *)
(* (internal/scheduler, internal/jobs/scheduler.go), and the order in      *)
(* which an instance shuts them down (internal/api).                       *)
(*                                                                         *)
(* A PostgreSQL advisory lock belongs to a session.  The same session may  *)
(* take it several times, and then has to release it as often.  A session  *)
(* that ends gives it up.  The elector keeps one connection of the pool    *)
(* checked out and asks for the lock again on each tick.                   *)
(***************************************************************************)
EXTENDS Integers, FiniteSets

CONSTANTS
    Instances,     \* server processes, each with one life
    Sessions,      \* database sessions that the pools may open
    NoSession,     \* le.dedicatedConn == nil
    Nobody,        \* the owner of a session that is not open
    MaxHolds,      \* bound of the model: what "many" holds of the lock are
    MaxTicks,      \* bound of the model: times the cron schedule is due
    Crashable,     \* instances that may be killed
    Stoppable,     \* instances that may be shut down
    Droppable,     \* instances whose connections may break
    QueryMayFail   \* whether the query may fail on a connection that stays open

ASSUME NoSessionAssumption == NoSession \notin Sessions /\ Nobody \notin Instances
ASSUME CountsAssumption == MaxHolds \in Nat \ {0, 1} /\ MaxTicks \in Nat
ASSUME QueryAssumption == QueryMayFail \in BOOLEAN

VARIABLES
    holds,      \* the database: how often each session holds the lock
    owner,      \* the pool each open session belongs to
    conn,       \* le.dedicatedConn
    leader,     \* le.isLeader
    stage,      \* electionLoop: where it is in tryAcquireLock
    shut,       \* how far Server.Shutdown got
    cron,       \* whether the cron runner is on
    loaded,     \* whether it has its entries
    live,       \* whether CronScheduler.ctx is not cancelled
    due,        \* the runner's next tick
    tick,       \* the clock: ticks of the schedule so far
    enqueued    \* history: how often each tick was enqueued

dbVars == <<holds, owner>>
electorVars == <<conn, leader, stage, shut>>
cronVars == <<cron, loaded, live, due>>
clockVars == <<tick, enqueued>>
vars == <<dbVars, electorVars, cronVars, clockVars>>

Stages == {"off", "idle", "query", "locked", "refused", "become", "lose", "ended"}
ShutStages == {"no", "unlocking", "clearing", "released", "stopped", "gone"}

Up(i) == stage[i] # "off" /\ shut[i] # "gone"
Cancelled(i) == shut[i] # "no"                  \* le.ctx.Err() != nil
Holders == {s \in Sessions : holds[s] > 0}
Pooled(i) == {s \in Sessions : owner[s] = i /\ s # conn[i]}

\* pg_try_advisory_lock by session s.
MayLock(s) == Holders \subseteq {s}

\* The sessions in S end, and with them their locks.
EndSessions(S) ==
    /\ holds' = [s \in Sessions |-> IF s \in S THEN 0 ELSE holds[s]]
    /\ owner' = [s \in Sessions |-> IF s \in S THEN Nobody ELSE owner[s]]

Init ==
    /\ holds = [s \in Sessions |-> 0]
    /\ owner = [s \in Sessions |-> Nobody]
    /\ conn = [i \in Instances |-> NoSession]
    /\ leader = [i \in Instances |-> FALSE]
    /\ stage = [i \in Instances |-> "off"]
    /\ shut = [i \in Instances |-> "no"]
    /\ cron = [i \in Instances |-> FALSE]
    /\ loaded = [i \in Instances |-> FALSE]
    /\ live = [i \in Instances |-> TRUE]
    /\ due = [i \in Instances |-> 0]
    /\ tick = 0
    /\ enqueued = [t \in 1..MaxTicks |-> 0]

At(i, from, to) == stage[i] = from /\ stage' = [stage EXCEPT ![i] = to]

(***************************************************************************)
(* electionLoop.                                                           *)
(***************************************************************************)

\* BackgroundServicesModule.Init: leaderElect starts the elector.
StartElector(i) ==
    /\ At(i, "off", "idle")
    /\ UNCHANGED <<dbVars, conn, leader, shut, cronVars, clockVars>>

\* A tick without a connection: pool.Acquire.  The pool hands out any idle
\* session, or opens one.
AcquireConn(i) ==
    /\ At(i, "idle", "query")
    /\ ~Cancelled(i) /\ conn[i] = NoSession /\ ~leader[i]
    /\ \E s \in {s \in Sessions : owner[s] \in {i, Nobody}} :
         /\ conn' = [conn EXCEPT ![i] = s]
         /\ owner' = [owner EXCEPT ![s] = i]
    /\ UNCHANGED <<holds, leader, shut, cronVars, clockVars>>

\* ... and with isLeader still set, which Stop has not cleared yet: leadership
\* is given up, and pool.Acquire fails under the cancelled context.
ResetLeadership(i) ==
    /\ At(i, "idle", "lose")
    /\ conn[i] = NoSession /\ leader[i]
    /\ leader' = [leader EXCEPT ![i] = FALSE]
    /\ UNCHANGED <<dbVars, conn, shut, cronVars, clockVars>>

\* Mutant of UseConn: a leader does not check its lock again.
UseConnToBecome(i) ==
    /\ At(i, "idle", "query")
    /\ conn[i] # NoSession /\ ~leader[i]
    /\ UNCHANGED <<dbVars, conn, leader, shut, cronVars, clockVars>>

\* A tick with a connection.  The loop may take one more after le.cancel(),
\* select being free to choose.
UseConn(i) ==
    /\ At(i, "idle", "query")
    /\ conn[i] # NoSession
    /\ UNCHANGED <<dbVars, conn, leader, shut, cronVars, clockVars>>

\* le.ctx.Done() ends the loop.
LoopEnds(i) ==
    /\ At(i, "idle", "ended") /\ Cancelled(i)
    /\ UNCHANGED <<dbVars, conn, leader, shut, cronVars, clockVars>>

\* SELECT pg_try_advisory_lock is answered.
QueryAnswered(i) ==
    LET s == conn[i]
    IN  /\ ~Cancelled(i) /\ s # NoSession /\ owner[s] = i
        /\ \/ /\ At(i, "query", "locked") /\ MayLock(s)
              /\ holds' = [holds EXCEPT ![s] = IF @ < MaxHolds THEN @ + 1 ELSE @]
           \/ /\ At(i, "query", "refused") /\ ~MayLock(s)
              /\ UNCHANGED holds
        /\ UNCHANGED <<owner, conn, leader, shut, cronVars, clockVars>>

\* Mutant of GiveUp: leadership is assumed to outlive the query.
GiveUpConnOnly(i) ==
    /\ conn' = [conn EXCEPT ![i] = NoSession]
    /\ At(i, "query", "idle")
    /\ UNCHANGED leader

\* What follows an error, once the connection is released.
GiveUp(i) ==
    /\ conn' = [conn EXCEPT ![i] = NoSession]
    /\ leader' = [leader EXCEPT ![i] = FALSE]
    /\ At(i, "query", IF leader[i] THEN "lose" ELSE "idle")

\* The query fails and leaves the connection usable (an error of the server, or
\* a context that was cancelled before): Release puts it back into the pool.
\* A context cancelled meanwhile closes the connection.
QueryFails(i) ==
    /\ conn[i] # NoSession /\ owner[conn[i]] = i
    /\ \/ (QueryMayFail \/ Cancelled(i)) /\ UNCHANGED dbVars
       \/ Cancelled(i) /\ EndSessions({conn[i]})
    /\ GiveUp(i)
    /\ UNCHANGED <<shut, cronVars, clockVars>>

\* The query meets a session that is gone: Release destroys the connection.
QueryFindsNoSession(i) ==
    /\ conn[i] # NoSession /\ owner[conn[i]] # i
    /\ GiveUp(i)
    /\ UNCHANGED <<dbVars, shut, cronVars, clockVars>>

\* Stop took the connection away: a nil pointer, and the recover of the loop.
QueryPanics(i) ==
    /\ At(i, "query", "ended") /\ conn[i] = NoSession
    /\ UNCHANGED <<dbVars, conn, leader, shut, cronVars, clockVars>>

\* Mutant of StoreAnswer: an instance that is refused does not ask again.
StoreAnswerOnce(i) ==
    /\ \/ At(i, "locked", IF leader[i] THEN "idle" ELSE "become")
       \/ At(i, "refused", "ended")
    /\ leader' = [leader EXCEPT ![i] = (stage[i] = "locked")]
    /\ UNCHANGED <<dbVars, conn, shut, cronVars, clockVars>>

\* The answer is stored in isLeader.
StoreAnswer(i) ==
    /\ \/ At(i, "locked", IF leader[i] THEN "idle" ELSE "become")
       \/ At(i, "refused", IF leader[i] THEN "lose" ELSE "idle")
    /\ leader' = [leader EXCEPT ![i] = (stage[i] = "locked")]
    /\ conn' = [conn EXCEPT ![i] = IF stage[i] = "refused" /\ leader[i]
                                   THEN NoSession ELSE @]
    /\ UNCHANGED <<dbVars, shut, cronVars, clockVars>>

(***************************************************************************)
(* The scheduler: the callbacks of the elector, and the cron runner.       *)
(***************************************************************************)

\* Mutant of BecomeLeader: the runner starts with the tick that is just over.
BecomeLeaderNow(i) ==
    /\ At(i, "become", "idle")
    /\ cron' = [cron EXCEPT ![i] = TRUE]
    /\ loaded' = [loaded EXCEPT ![i] = @ \/ live[i]]
    /\ due' = [due EXCEPT ![i] = IF cron[i] THEN @ ELSE tick]
    /\ UNCHANGED <<dbVars, conn, leader, shut, live, clockVars>>

\* CronScheduler.Start: the runner computes its next tick from now; the loader
\* needs a context that is not cancelled, and keeps what was loaded before.
BecomeLeader(i) ==
    /\ At(i, "become", "idle")
    /\ cron' = [cron EXCEPT ![i] = TRUE]
    /\ loaded' = [loaded EXCEPT ![i] = @ \/ live[i]]
    /\ due' = [due EXCEPT ![i] = IF cron[i] THEN @ ELSE tick + 1]
    /\ UNCHANGED <<dbVars, conn, leader, shut, live, clockVars>>

\* Mutant of StopCron: the context survives.
StopRunner(i) ==
    /\ cron' = [cron EXCEPT ![i] = FALSE]
    /\ UNCHANGED <<loaded, live, due>>

\* CronScheduler.Stop: s.cancel() is for ever.
StopCron(i) ==
    /\ live' = [live EXCEPT ![i] = FALSE]
    /\ cron' = [cron EXCEPT ![i] = FALSE]
    /\ UNCHANGED <<loaded, due>>

LoseLeadership(i) ==
    /\ At(i, "lose", "idle")
    /\ StopCron(i)
    /\ UNCHANGED <<dbVars, conn, leader, shut, clockVars>>

\* The schedule is due once more.
ClockTicks ==
    /\ tick < MaxTicks
    /\ tick' = tick + 1
    /\ UNCHANGED <<dbVars, electorVars, cronVars, enqueued>>

\* The runner wakes up for a tick and runs enqueueScheduledJob, which may be
\* refused by the guard or fail, and always fails under a cancelled context.
Fire(i) ==
    /\ Up(i) /\ cron[i] /\ loaded[i] /\ due[i] <= tick
    /\ due' = [due EXCEPT ![i] = tick + 1]
    /\ \/ live[i] /\ enqueued' = [enqueued EXCEPT ![tick] = @ + 1]
       \/ UNCHANGED enqueued
    /\ UNCHANGED <<dbVars, electorVars, cron, loaded, live, tick>>

(***************************************************************************)
(* Server.Shutdown: ShutdownModules goes from the last module to the first,*)
(* background-services, then jobs; main closes the pool at the end.        *)
(***************************************************************************)
Shut(i, from, to) == shut[i] = from /\ shut' = [shut EXCEPT ![i] = to]

\* LeaderElector.Stop: le.cancel() ...
StopElector(i) ==
    /\ i \in Stoppable /\ Up(i) /\ Shut(i, "no", "unlocking")
    /\ UNCHANGED <<dbVars, conn, leader, stage, cronVars, clockVars>>

\* ... releaseLock: one pg_advisory_unlock, and the connection goes back to
\* the pool.  A connection on which the loop is busy is destroyed.
ReleaseLock(i) ==
    LET s == conn[i]
    IN  /\ Shut(i, "unlocking", "clearing")
        /\ conn' = [conn EXCEPT ![i] = NoSession]
        /\ IF s = NoSession \/ owner[s] # i THEN UNCHANGED dbVars
           ELSE \/ /\ holds' = [holds EXCEPT ![s] = IF @ > 0 THEN @ - 1 ELSE 0]
                   /\ UNCHANGED owner
                \/ stage[i] = "query" /\ EndSessions({s})
        /\ UNCHANGED <<leader, stage, cronVars, clockVars>>

\* ... isLeader = false.
ClearLeader(i) ==
    /\ Shut(i, "clearing", "released")
    /\ leader' = [leader EXCEPT ![i] = FALSE]
    /\ UNCHANGED <<dbVars, conn, stage, cronVars, clockVars>>

\* JobsModule.Shutdown.
StopScheduler(i) ==
    /\ Shut(i, "released", "stopped")
    /\ StopCron(i)
    /\ UNCHANGED <<dbVars, conn, leader, stage, clockVars>>

EndProcess(i) ==
    /\ shut' = [shut EXCEPT ![i] = "gone"]
    /\ stage' = [stage EXCEPT ![i] = "ended"]
    /\ leader' = [leader EXCEPT ![i] = FALSE]
    /\ cron' = [cron EXCEPT ![i] = FALSE]
    /\ UNCHANGED <<conn, loaded, live, due, clockVars>>

\* db.Close(), then the process ends.
ProcessExit(i) ==
    /\ shut[i] = "stopped"
    /\ EndProcess(i)
    /\ EndSessions({s \in Sessions : owner[s] = i})

\* A kill: the server learns of it later (SessionEnds).
Crash(i) ==
    /\ i \in Crashable /\ Up(i)
    /\ EndProcess(i)
    /\ UNCHANGED dbVars

(***************************************************************************)
(* The database and the pool.                                              *)
(***************************************************************************)

\* A session ends: its process is gone, its connection broke, or the pool
\* closes it, idle and past its lifetime.
SessionEnds(s) ==
    /\ \E i \in Instances :
         /\ owner[s] = i
         /\ shut[i] = "gone" \/ i \in Droppable \/ s \in Pooled(i)
    /\ EndSessions({s})
    /\ UNCHANGED <<electorVars, cronVars, clockVars>>

(***************************************************************************)
(* The specification.                                                      *)
(***************************************************************************)
LoopStep(i) ==
    \/ StartElector(i) \/ AcquireConn(i) \/ ResetLeadership(i) \/ UseConn(i)
    \/ LoopEnds(i) \/ QueryAnswered(i) \/ QueryFails(i) \/ QueryFindsNoSession(i)
    \/ QueryPanics(i) \/ StoreAnswer(i) \/ BecomeLeader(i) \/ LoseLeadership(i)

ShutdownStep(i) ==
    \/ ReleaseLock(i) \/ ClearLeader(i) \/ StopScheduler(i) \/ ProcessExit(i)

Next ==
    \/ \E i \in Instances :
         LoopStep(i) \/ ShutdownStep(i) \/ StopElector(i) \/ Crash(i) \/ Fire(i)
    \/ \E s \in Sessions : SessionEnds(s)
    \/ ClockTicks

Spec == Init /\ [][Next]_vars

\* Fairness: the loop of a process is scheduled and its ticker ticks, queries
\* are answered, shutdown goes on once it began, and the sessions of a process
\* that is gone end, as do those that sit idle in a pool.
Fairness ==
    /\ \A i \in Instances : WF_vars(LoopStep(i)) /\ WF_vars(ShutdownStep(i))
    /\ \A s \in Sessions :
         WF_vars(SessionEnds(s) /\ \E i \in Instances :
                   owner[s] = i /\ (shut[i] = "gone" \/ s \in Pooled(i)))

FairSpec == Spec /\ Fairness

(***************************************************************************)
(* Properties.                                                             *)
(***************************************************************************)
TypeOK ==
    /\ holds \in [Sessions -> 0..MaxHolds]
    /\ owner \in [Sessions -> Instances \union {Nobody}]
    /\ conn \in [Instances -> Sessions \union {NoSession}]
    /\ leader \in [Instances -> BOOLEAN]
    /\ stage \in [Instances -> Stages]
    /\ shut \in [Instances -> ShutStages]
    /\ cron \in [Instances -> BOOLEAN]
    /\ loaded \in [Instances -> BOOLEAN]
    /\ live \in [Instances -> BOOLEAN]
    /\ due \in [Instances -> 0..(MaxTicks + 1)]
    /\ tick \in 0..MaxTicks
    /\ enqueued \in [1..MaxTicks -> Nat]

\* An instance whose scheduler enqueues jobs.
Schedules(i) == Up(i) /\ cron[i] /\ loaded[i] /\ live[i]

Leads(i) == leader[i] /\ ~Cancelled(i)

\* As long as no connection of an elector breaks, no two instances that are
\* not shutting down hold themselves to be the leader: whether queries fail,
\* connections return to the pool with the lock or leaders are killed.
LeadersExclusive ==
    \A i, k \in Instances : Leads(i) /\ Leads(k) => i = k

\* A leader that is killed and the one that takes over never enqueue the same
\* tick of a schedule, whenever the second one starts.
EnqueuedOnce == \A t \in 1..MaxTicks : enqueued[t] <= 1

\* When JobsModule.Shutdown is over nothing is enqueued, even if the election
\* loop, overtaken by LeaderElector.Stop, starts the scheduler after it.
ShutdownIsFinal ==
    \A i \in Instances : shut[i] \in {"stopped", "gone"} => ~Schedules(i)

\* Leaders may be killed or shut down: as long as one instance is left, again
\* and again some scheduler runs.
Takeover == []<>(\E i \in Instances : Schedules(i))

\* When connections break, two instances may hold themselves to be the leader:
\* not for ever, since a leader asks for its lock on every tick.
SplitBrainHeals ==
    \A i, k \in Instances : i # k /\ Leads(i) /\ Leads(k) ~> ~(Leads(i) /\ Leads(k))

(***************************************************************************)
(* What the documents say of the program, and the code does not.           *)
(***************************************************************************)

\* deployment/scaling.md: "If the leader fails, another instance automatically
\* takes over".  A leader whose callback has run has a scheduler that works.
LeaderSchedules ==
    \A i \in Instances : Leads(i) /\ stage[i] = "idle" => Schedules(i)
=============================================================================
