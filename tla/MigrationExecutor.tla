-------------------------- MODULE MigrationExecutor --------------------------
(***************************************************************************)
(* The imperative migrations (internal/migrations/executor.go): the        *)
(* executors of several instances apply and roll back one migration, while *)
(* its row is created, edited and deleted through the API.  The script and *)
(* the status are committed by one transaction under an advisory lock; the *)
(* status is read before it, and the status "failed" is written after it.  *)
(***************************************************************************)
EXTENDS Naturals

CONSTANTS
    Executors,      \* the executor of each instance, one call at a time (its mutex)
    Texts,          \* contents of up_sql
    NoExecutor,     \* nobody holds migrationLockID
    MaxMigrations,        \* bound of the model: rows created under the name
    MaxUps,         \* bound of the model: commits of the up script
    MaxUnanswered   \* bound of the model: commits whose answer is lost

ASSUME MigrationAssumption ==
    /\ NoExecutor \notin Executors
    /\ MaxMigrations \in Nat \ {0} /\ MaxUps \in Nat \ {0} /\ MaxUnanswered \in Nat

VARIABLES
    migration,      \* the row: its id (0: there is none), status and up_sql
    rowIds,         \* rows created so far
    executor,       \* what each executor is doing, with what it read of the row
    lockHolder,     \* whose transaction holds the advisory lock
    ups,            \* commits of the up script since the down script last committed
    inSchema,       \* the up_sql that committed last
    unanswered,     \* commits whose answer was lost
    disturbed       \* history: two calls, or a call and an edit, overlapped

migrationVars == <<migration, rowIds, executor, lockHolder, ups, inSchema, unanswered, disturbed>>

SomeText == CHOOSE t \in Texts : TRUE
NoMigration == [id |-> 0, status |-> "none", text |-> SomeText]
IdleExecutor == [at |-> "idle", act |-> "apply", id |-> 0, text |-> SomeText]
BusyExecutors == {e \in Executors : executor[e].at # "idle"}

MigrationInit ==
    /\ migration = NoMigration /\ rowIds = 0
    /\ executor = [e \in Executors |-> IdleExecutor]
    /\ lockHolder = NoExecutor
    /\ ups = 0 /\ inSchema = SomeText
    /\ unanswered = 0
    /\ disturbed = FALSE

(***************************************************************************)
(* Storage.                                                                *)
(***************************************************************************)
CreateMigration(t) ==
    /\ migration.id = 0 /\ rowIds < MaxMigrations
    /\ rowIds' = rowIds + 1
    /\ migration' = [id |-> rowIds', status |-> "pending", text |-> t]
    /\ UNCHANGED <<executor, lockHolder, ups, inSchema, unanswered, disturbed>>

\* UPDATE ... WHERE status IN ('pending', 'failed'), with the reset that a
\* synchronisation adds for a failed migration.
UpdateMigration(t, reset) ==
    /\ migration.status \in {"pending", "failed"}
    /\ migration' = [migration EXCEPT !.text = t,
                                      !.status = IF reset THEN "pending" ELSE @]
    /\ disturbed' = (disturbed \/ BusyExecutors # {})
    /\ UNCHANGED <<rowIds, executor, lockHolder, ups, inSchema, unanswered>>

DeleteMigration ==
    /\ migration.status = "pending"
    /\ migration' = NoMigration
    /\ disturbed' = (disturbed \/ BusyExecutors # {})
    /\ UNCHANGED <<rowIds, executor, lockHolder, ups, inSchema, unanswered>>

(***************************************************************************)
(* ApplyMigration and RollbackMigration.                                   *)
(***************************************************************************)
\* Mutant of Allows: an applied migration is applied again.
AllowsAny(act) == migration.id # 0

Allows(act) == IF act = "apply" THEN migration.status \in {"pending", "failed"}
                                ELSE migration.status = "applied"

\* GetMigration and the checks of the status: without the lock.
ReadMigration(e, act) ==
    /\ executor[e].at = "idle" /\ Allows(act)
    /\ executor' = [executor EXCEPT ![e] =
         [at |-> "read", act |-> act, id |-> migration.id, text |-> migration.text]]
    /\ disturbed' = (disturbed \/ BusyExecutors # {})
    /\ UNCHANGED <<migration, rowIds, lockHolder, ups, inSchema, unanswered>>

\* An apply that failed goes on to write so; a rollback that failed returns.
Erred(e) == IF executor[e].act = "apply" THEN [executor[e] EXCEPT !.at = "erred"]
                                         ELSE IdleExecutor

TryLock(e) ==
    /\ executor[e].at = "read"
    /\ IF lockHolder = NoExecutor
       THEN /\ lockHolder' = e
            /\ executor' = [executor EXCEPT ![e].at = "locked"]
       ELSE /\ executor' = [executor EXCEPT ![e] = Erred(e)]
            /\ UNCHANGED lockHolder
    /\ UNCHANGED <<migration, rowIds, ups, inSchema, unanswered, disturbed>>

\* The script is refused or the transaction is lost: nothing of it remains.
ScriptFails(e) ==
    /\ executor[e].at = "locked"
    /\ lockHolder' = NoExecutor
    /\ executor' = [executor EXCEPT ![e] = Erred(e)]
    /\ UNCHANGED <<migration, rowIds, ups, inSchema, unanswered, disturbed>>

\* updateMigrationStatusTx: by id, so that the row of a deleted migration is missed.
StatusSet(e, status) ==
    IF executor[e].id = migration.id THEN [migration EXCEPT !.status = status] ELSE migration

\* The script and the status commit, and the lock goes with the transaction.  When
\* the answer of the commit is lost, the executor takes it for a failure.
Commit(e) ==
    /\ executor[e].at = "locked"
    /\ lockHolder' = NoExecutor
    /\ IF executor[e].act = "apply"
       THEN /\ ups < MaxUps /\ ups' = ups + 1
            /\ inSchema' = executor[e].text
            /\ migration' = StatusSet(e, "applied")
       ELSE /\ ups' = 0
            /\ migration' = StatusSet(e, "rolled_back")
            /\ UNCHANGED inSchema
    /\ \/ /\ executor' = [executor EXCEPT ![e] = IdleExecutor]
          /\ UNCHANGED unanswered
       \/ /\ unanswered < MaxUnanswered
          /\ unanswered' = unanswered + 1
          /\ executor' = [executor EXCEPT ![e] = Erred(e)]
    /\ UNCHANGED <<rowIds, disturbed>>

\* UpdateMigrationStatus "failed": by id and whatever the status is; its error is ignored.
MarkFailed(e) ==
    /\ executor[e].at = "erred"
    /\ executor' = [executor EXCEPT ![e] = IdleExecutor]
    /\ migration' \in {StatusSet(e, "failed"), migration}
    /\ UNCHANGED <<rowIds, lockHolder, ups, inSchema, unanswered, disturbed>>

\* The process dies; a transaction of its is rolled back.
ExecutorDies(e) ==
    /\ executor[e].at # "idle"
    /\ executor' = [executor EXCEPT ![e] = IdleExecutor]
    /\ lockHolder' = IF lockHolder = e THEN NoExecutor ELSE lockHolder
    /\ UNCHANGED <<migration, rowIds, ups, inSchema, unanswered, disturbed>>

MigrationNext ==
    \/ \E t \in Texts : CreateMigration(t) \/ \E reset \in BOOLEAN : UpdateMigration(t, reset)
    \/ DeleteMigration
    \/ \E e \in Executors :
         \/ \E act \in {"apply", "rollback"} : ReadMigration(e, act)
         \/ TryLock(e) \/ ScriptFails(e) \/ Commit(e) \/ MarkFailed(e) \/ ExecutorDies(e)

MigrationSpec == MigrationInit /\ [][MigrationNext]_migrationVars

(***************************************************************************)
(* Properties.                                                             *)
(***************************************************************************)
MigrationTypeOK ==
    /\ migration \in [id : 0..MaxMigrations, text : Texts,
                      status : {"none", "pending", "applied", "failed", "rolled_back"}]
    /\ rowIds \in 0..MaxMigrations
    /\ executor \in [Executors -> [at : {"idle", "read", "locked", "erred"},
                                   act : {"apply", "rollback"}, id : 0..MaxMigrations, text : Texts]]
    /\ lockHolder \in Executors \union {NoExecutor}
    /\ ups \in 0..MaxUps /\ inSchema \in Texts
    /\ unanswered \in 0..MaxUnanswered /\ disturbed \in BOOLEAN

\* As long as calls and edits do not overlap and the answers of commits arrive, the
\* status tells whether the up script is in the schema, once, and in the text of the
\* row, wherever executors die and whichever script or write of "failed" is lost.
StatusTellsSchema ==
    ~disturbed /\ unanswered = 0 =>
      /\ ups = IF migration.status = "applied" THEN 1 ELSE 0
      /\ migration.status = "applied" => inSchema = migration.text

\* Of the first row, whatever overlaps: applied says that the script is in the schema,
\* and rolled back that it is not.
StatusNeverClaimsMore ==
    rowIds = 1 => /\ migration.status = "applied" => ups > 0
                  /\ migration.status = "rolled_back" => ups = 0

\* Administrators can rely on the status: on all of it as long as nothing overlaps, and on
\* what it claims in any case.
StatusTruthful == StatusTellsSchema /\ StatusNeverClaimsMore

\* "if the status update failed separately after the SQL commit, the next apply would
\* re-execute an already-committed migration", which the transaction is to rule out: a
\* script that committed is not executed again before it is rolled back.
NeverReexecuted == ups <= 1
=============================================================================
