--------------------------- MODULE DatabaseProofs ---------------------------
(***************************************************************************)
(* Proofs about the databases that an instance manages, and the rows that  *)
(* describe them: migrations, branches and tenants, for any number of      *)
(* executors, operations, calls and names.                                 *)
(***************************************************************************)
EXTENDS MigrationExecutor, BranchLifecycle, TenantDatabases, FiniteSetTheorems, TLAPS

(***************************************************************************)
(* MigrationExecutor: the status of a migration tells whether its script   *)
(* is in the schema, on all of it while nothing overlaps, and on what it   *)
(* claims in any case.                                                     *)
(***************************************************************************)

Statuses == {"none", "pending", "applied", "failed", "rolled_back"}
RowTyped ==
    /\ migration \in [id : Nat, status : Statuses, text : Texts \union {SomeText}]
    /\ rowIds \in Nat /\ ups \in Nat /\ unanswered \in Nat
    /\ executor \in [Executors -> [at : {"idle", "read", "locked", "erred"},
                                   act : {"apply", "rollback"}, id : Nat,
                                   text : Texts \union {SomeText}]]

\* Ids are handed out in order: no row has the id of a later one, and what an executor
\* works on was a row.
RowsInOrder ==
    /\ migration.id <= rowIds /\ (migration.id = 0 <=> migration.status = "none")
    /\ \A e \in BusyExecutors : executor[e].id # 0 /\ executor[e].id <= rowIds
    /\ \A e \in Executors : executor[e].at = "erred" => executor[e].act = "apply"

\* As long as nothing overlapped, what the one busy executor read still holds.
ReadHolds ==
    ~disturbed =>
      /\ \A e, f \in BusyExecutors : e = f
      /\ \A e \in BusyExecutors :
           /\ executor[e].id = migration.id /\ executor[e].text = migration.text
           /\ unanswered = 0 => Allows(executor[e].act)

IInv == RowTyped /\ RowsInOrder /\ ReadHolds /\ StatusTellsSchema /\ StatusNeverClaimsMore

\* Initially there is no migration.
LEMMA MigrationStarts == MigrationInit => IInv
<1> SUFFICES ASSUME MigrationInit PROVE IInv
  OBVIOUS
<1>1. NoMigration \in [id : Nat, status : Statuses, text : Texts \union {SomeText}]
      /\ NoMigration.id = 0 /\ NoMigration.status = "none"
  BY DEF NoMigration, Statuses
<1>2. /\ IdleExecutor \in [at : {"idle", "read", "locked", "erred"},
                           act : {"apply", "rollback"}, id : Nat,
                           text : Texts \union {SomeText}]
      /\ IdleExecutor.at = "idle"
  BY DEF IdleExecutor
<1>3. RowTyped
  BY <1>1, <1>2 DEF MigrationInit, RowTyped
<1>4. BusyExecutors = {} /\ \A e \in Executors : executor[e].at # "erred"
  BY <1>2 DEF MigrationInit, BusyExecutors
<1>5. RowsInOrder /\ ReadHolds
  BY <1>1, <1>4 DEF MigrationInit, RowsInOrder, ReadHolds
<1>6. StatusTellsSchema /\ StatusNeverClaimsMore
  BY <1>1 DEF MigrationInit, StatusTellsSchema, StatusNeverClaimsMore
<1> QED BY <1>3, <1>5, <1>6 DEF IInv

\* A row is created where there is none: nobody works on one, if nothing overlapped.
LEMMA CreateKeeps == ASSUME IInv, NEW t \in Texts, CreateMigration(t) PROVE IInv'
<1>1. /\ migration.id = 0 /\ rowIds' = rowIds + 1
      /\ migration' = [id |-> rowIds', status |-> "pending", text |-> t]
      /\ UNCHANGED <<executor, ups, inSchema, unanswered, disturbed>>
  BY DEF CreateMigration
<1>2. RowTyped'
  BY <1>1 DEF IInv, RowTyped, Statuses
<1>3. BusyExecutors' = BusyExecutors
  BY <1>1 DEF BusyExecutors
<1>4. RowsInOrder'
  BY <1>1, <1>3 DEF IInv, RowTyped, RowsInOrder, BusyExecutors
<1>5. ReadHolds'
  <2>1. ~disturbed => BusyExecutors = {}
    BY <1>1 DEF IInv, RowsInOrder, ReadHolds
  <2> QED BY <1>1, <1>3, <2>1 DEF ReadHolds
<1>6. StatusTellsSchema' /\ StatusNeverClaimsMore'
  BY <1>1 DEF IInv, RowTyped, RowsInOrder, StatusTellsSchema, StatusNeverClaimsMore
<1> QED BY <1>2, <1>4, <1>5, <1>6 DEF IInv

\* An edit, or the deletion of the row, by whom overlapping calls are disturbed.
LEMMA EditKeeps ==
  ASSUME IInv, DeleteMigration \/ \E t \in Texts, reset \in BOOLEAN : UpdateMigration(t, reset)
  PROVE  IInv'
<1>1. /\ migration.status \in {"pending", "failed"}
      /\ disturbed' = (disturbed \/ BusyExecutors # {})
      /\ UNCHANGED <<rowIds, executor, ups, inSchema, unanswered>>
  BY DEF DeleteMigration, UpdateMigration
<1>2. /\ migration' \in [id : Nat, status : Statuses, text : Texts \union {SomeText}]
      /\ migration'.status \in {"none", "pending", "failed"}
      /\ \/ migration'.id = 0 /\ migration'.status = "none"
         \/ migration'.id = migration.id /\ migration'.status # "none"
  <2>1. CASE DeleteMigration
    BY <2>1 DEF DeleteMigration, NoMigration, Statuses
  <2>2. ASSUME NEW t \in Texts, NEW reset \in BOOLEAN, UpdateMigration(t, reset)
        PROVE  /\ migration' \in [id : Nat, status : Statuses, text : Texts \union {SomeText}]
               /\ migration'.status \in {"pending", "failed"}
               /\ migration'.id = migration.id
    BY <1>1, <2>2 DEF UpdateMigration, IInv, RowTyped, Statuses
  <2> QED BY <2>1, <2>2
<1>3. RowTyped'
  BY <1>1, <1>2 DEF IInv, RowTyped
<1>4. BusyExecutors' = BusyExecutors
  BY <1>1 DEF BusyExecutors
<1>5. RowsInOrder'
  BY <1>1, <1>2, <1>4 DEF IInv, RowTyped, RowsInOrder
<1>6. ReadHolds'
  BY <1>1, <1>4 DEF ReadHolds
<1>7. StatusTellsSchema' /\ StatusNeverClaimsMore'
  BY <1>1, <1>2 DEF IInv, StatusTellsSchema, StatusNeverClaimsMore
<1> QED BY <1>3, <1>5, <1>6, <1>7 DEF IInv

\* An executor reads a row that allows what it is to do.
LEMMA ReadKeeps ==
  ASSUME IInv, NEW e \in Executors, NEW act \in {"apply", "rollback"}, ReadMigration(e, act)
  PROVE  IInv'
<1>1. /\ Allows(act) /\ disturbed' = (disturbed \/ BusyExecutors # {})
      /\ executor' = [executor EXCEPT ![e] =
           [at |-> "read", act |-> act, id |-> migration.id, text |-> migration.text]]
      /\ UNCHANGED <<migration, rowIds, ups, inSchema, unanswered>>
  BY DEF ReadMigration
<1>2. RowTyped'
  BY <1>1 DEF IInv, RowTyped
<1>3. /\ executor'[e].at = "read" /\ executor'[e].act = act
      /\ executor'[e].id = migration.id /\ executor'[e].text = migration.text
      /\ \A f \in Executors : f # e => executor'[f] = executor[f]
      /\ BusyExecutors' = BusyExecutors \union {e}
  BY <1>1 DEF IInv, RowTyped, BusyExecutors
<1>4. RowsInOrder'
  <2>1. migration.id # 0
    BY <1>1 DEF Allows, IInv, RowsInOrder
  <2>2. \A f \in BusyExecutors : f # e => executor'[f] = executor[f]
    BY <1>3 DEF BusyExecutors
  <2>3. \A f \in Executors : executor'[f].at = "erred" => executor'[f].act = "apply"
    BY <1>3 DEF IInv, RowsInOrder
  <2> QED BY <1>1, <1>3, <2>1, <2>2, <2>3 DEF IInv, RowsInOrder
<1>5. ReadHolds'
  <2>1. ~disturbed' => BusyExecutors' = {e}
    BY <1>1, <1>3
  <2>2. Allows(act)'
    BY <1>1 DEF Allows
  <2> QED BY <1>1, <1>3, <2>1, <2>2 DEF ReadHolds
<1>6. StatusTellsSchema' /\ StatusNeverClaimsMore'
  BY <1>1 DEF IInv, StatusTellsSchema, StatusNeverClaimsMore
<1> QED BY <1>2, <1>4, <1>5, <1>6 DEF IInv

\* The steps by which an executor goes on or ends: with x as its next state, the row and
\* the schema as they are, or with the status "failed" after an error.
LEMMA GoesOnKeeps ==
  ASSUME IInv, NEW e \in BusyExecutors,
         NEW x \in {IdleExecutor, [executor[e] EXCEPT !.at = "locked"],
                    [executor[e] EXCEPT !.at = "erred"]},
         executor' = [executor EXCEPT ![e] = x],
         x.at = "erred" => executor[e].act = "apply",
         \/ migration' = migration
         \/ /\ executor[e].at = "erred" /\ x = IdleExecutor
            /\ executor[e].id = migration.id
            /\ migration' = [migration EXCEPT !.status = "failed"],
         UNCHANGED <<rowIds, ups, inSchema, unanswered, disturbed>>
  PROVE  IInv'
<1>1. /\ e \in Executors
      /\ x \in [at : {"idle", "read", "locked", "erred"}, act : {"apply", "rollback"},
                id : Nat, text : Texts \union {SomeText}]
      /\ x.at # "idle" => x.act = executor[e].act /\ x.id = executor[e].id
                          /\ x.text = executor[e].text
      /\ IdleExecutor.at = "idle"
  BY DEF IInv, RowTyped, BusyExecutors, IdleExecutor
<1>2. executor'[e] = x /\ \A f \in Executors : f # e => executor'[f] = executor[f]
  BY <1>1 DEF IInv, RowTyped
<1>3. /\ migration' \in [id : Nat, status : Statuses, text : Texts \union {SomeText}]
      /\ migration'.id = migration.id /\ migration'.text = migration.text
      /\ \/ migration'.status = migration.status
         \/ /\ migration'.status = "failed" /\ migration.status # "none"
            /\ executor[e].at = "erred" /\ x.at = "idle"
  BY <1>1 DEF IInv, RowTyped, Statuses, RowsInOrder
<1>4. RowTyped'
  BY <1>1, <1>3 DEF IInv, RowTyped
<1>5. BusyExecutors' \subseteq BusyExecutors /\ (x.at = "idle" => e \notin BusyExecutors')
  BY <1>2 DEF BusyExecutors
<1>6. \A f \in BusyExecutors' : /\ executor'[f].act = executor[f].act
                                /\ executor'[f].id = executor[f].id
                                /\ executor'[f].text = executor[f].text
  BY <1>1, <1>2, <1>5 DEF BusyExecutors
<1>7. RowsInOrder'
  <2>1. \A f \in Executors : executor'[f].at = "erred" => executor'[f].act = "apply"
    BY <1>1, <1>2 DEF IInv, RowsInOrder
  <2> QED BY <1>3, <1>5, <1>6, <2>1 DEF IInv, RowsInOrder
<1>8. ReadHolds'
  <2> SUFFICES ASSUME ~disturbed
               PROVE  /\ \A f, g \in BusyExecutors' : f = g
                      /\ \A f \in BusyExecutors' :
                           /\ executor'[f].id = migration'.id
                           /\ executor'[f].text = migration'.text
                           /\ unanswered = 0 => Allows(executor[f].act)'
    BY DEF ReadHolds
  <2>1. \A f, g \in BusyExecutors : f = g
    BY DEF IInv, ReadHolds
  <2>2. ASSUME NEW f \in BusyExecutors'
        PROVE  /\ executor'[f].id = migration'.id /\ executor'[f].text = migration'.text
               /\ unanswered = 0 => Allows(executor[f].act)'
    <3>1. f = e /\ f \in BusyExecutors
      BY <1>5, <2>1, <2>2
    <3>2. migration'.status = migration.status
      BY <1>3, <1>5, <2>2, <3>1
    <3>3. Allows(executor[f].act)' <=> Allows(executor[f].act)
      BY <1>6, <2>2, <3>2 DEF Allows
    <3> QED BY <1>3, <1>6, <2>2, <3>1, <3>3 DEF IInv, ReadHolds
  <2> QED BY <1>5, <2>1, <2>2
<1>9. StatusTellsSchema'
  <2>1. CASE migration'.status = migration.status
    BY <1>3, <2>1 DEF IInv, StatusTellsSchema
  <2>2. CASE migration'.status = "failed" /\ executor[e].at = "erred"
    <3>1. ~disturbed /\ unanswered = 0 => migration.status \in {"pending", "failed"}
      BY <1>1, <2>2 DEF IInv, ReadHolds, RowsInOrder, Allows
    <3> QED BY <2>2, <3>1 DEF IInv, StatusTellsSchema
  <2> QED BY <1>3, <2>1, <2>2
<1>10. StatusNeverClaimsMore'
  BY <1>3 DEF IInv, StatusNeverClaimsMore
<1> QED BY <1>4, <1>7, <1>8, <1>9, <1>10 DEF IInv

\* The script and the status commit together, in the row that was read.
LEMMA CommitKeeps == ASSUME IInv, NEW e \in Executors, Commit(e) PROVE IInv'
<1> DEFINE act == executor[e].act
           to == IF act = "apply" THEN "applied" ELSE "rolled_back"
<1>1. e \in BusyExecutors /\ act \in {"apply", "rollback"}
  BY DEF Commit, BusyExecutors, IInv, RowTyped
<1>2. /\ migration' = StatusSet(e, to)
      /\ IF act = "apply" THEN ups' = ups + 1 /\ inSchema' = executor[e].text
                          ELSE ups' = 0 /\ inSchema' = inSchema
      /\ \/ executor' = [executor EXCEPT ![e] = IdleExecutor] /\ unanswered' = unanswered
         \/ executor' = [executor EXCEPT ![e] = Erred(e)] /\ unanswered' = unanswered + 1
      /\ UNCHANGED <<rowIds, disturbed>>
  BY DEF Commit
<1>3. /\ migration' \in [id : Nat, status : Statuses, text : Texts \union {SomeText}]
      /\ migration'.id = migration.id /\ migration'.text = migration.text
      /\ IF executor[e].id = migration.id THEN migration'.status = to
                                          ELSE migration'.status = migration.status
  BY <1>2 DEF StatusSet, IInv, RowTyped, Statuses
<1> HIDE DEF to
<1>4. PICK x \in {IdleExecutor, Erred(e)} :
        /\ executor' = [executor EXCEPT ![e] = x]
        /\ \/ x = IdleExecutor /\ unanswered' = unanswered
           \/ x = Erred(e) /\ unanswered' = unanswered + 1
  <2>1. CASE executor' = [executor EXCEPT ![e] = IdleExecutor] /\ unanswered' = unanswered
    BY <2>1
  <2>2. CASE executor' = [executor EXCEPT ![e] = Erred(e)] /\ unanswered' = unanswered + 1
    BY <2>2
  <2> QED BY <1>2, <2>1, <2>2
<1>5. /\ IdleExecutor \in [at : {"idle", "read", "locked", "erred"},
                           act : {"apply", "rollback"}, id : Nat,
                           text : Texts \union {SomeText}]
      /\ IdleExecutor.at = "idle"
  BY DEF IdleExecutor
<1>6. /\ x \in [at : {"idle", "read", "locked", "erred"}, act : {"apply", "rollback"},
                id : Nat, text : Texts \union {SomeText}]
      /\ x.at # "idle" => /\ x.act = "apply" /\ act = "apply" /\ x.id = executor[e].id
                          /\ x.text = executor[e].text /\ unanswered' = unanswered + 1
  <2>1. [executor[e] EXCEPT !.at = "erred"]
          \in [at : {"idle", "read", "locked", "erred"}, act : {"apply", "rollback"},
               id : Nat, text : Texts \union {SomeText}]
    BY DEF IInv, RowTyped
  <2> QED BY <1>4, <1>5, <2>1 DEF Erred
<1>7. executor'[e] = x /\ \A f \in Executors : f # e => executor'[f] = executor[f]
  BY <1>4 DEF IInv, RowTyped
<1>8. RowTyped'
  BY <1>2, <1>3, <1>4, <1>6 DEF IInv, RowTyped
<1>9. BusyExecutors' \subseteq BusyExecutors /\ (x.at = "idle" => e \notin BusyExecutors')
  BY <1>1, <1>7 DEF BusyExecutors
<1>10. \A f \in BusyExecutors' : executor'[f].id = executor[f].id
                                 /\ executor'[f].text = executor[f].text
  BY <1>6, <1>7, <1>9 DEF BusyExecutors
<1>11. RowsInOrder'
  <2>1. \A f \in Executors : executor'[f].at = "erred" => executor'[f].act = "apply"
    BY <1>6, <1>7 DEF IInv, RowsInOrder
  <2>2. migration'.id = 0 <=> migration'.status = "none"
    BY <1>1, <1>3 DEF to, IInv, RowsInOrder
  <2> QED BY <1>2, <1>3, <1>9, <1>10, <2>1, <2>2 DEF IInv, RowsInOrder
<1>12. ReadHolds'
  <2> SUFFICES ASSUME ~disturbed
               PROVE  /\ \A f, g \in BusyExecutors' : f = g
                      /\ \A f \in BusyExecutors' :
                           /\ executor'[f].id = migration'.id
                           /\ executor'[f].text = migration'.text
                           /\ unanswered' # 0
    BY <1>2 DEF ReadHolds
  <2>1. \A f, g \in BusyExecutors : f = g
    BY DEF IInv, ReadHolds
  <2>2. ASSUME NEW f \in BusyExecutors'
        PROVE  /\ executor'[f].id = migration'.id /\ executor'[f].text = migration'.text
               /\ unanswered' # 0
    <3>1. f = e /\ f \in BusyExecutors
      BY <1>1, <1>9, <2>1, <2>2
    <3>2. unanswered' = unanswered + 1 /\ unanswered \in Nat
      BY <1>6, <1>9, <2>2, <3>1 DEF IInv, RowTyped
    <3> QED BY <1>3, <1>10, <2>2, <3>1, <3>2 DEF IInv, ReadHolds
  <2> QED BY <1>9, <2>1, <2>2
<1>13. StatusTellsSchema'
  <2> SUFFICES ASSUME ~disturbed, unanswered' = 0
               PROVE  /\ ups' = IF migration'.status = "applied" THEN 1 ELSE 0
                      /\ migration'.status = "applied" => inSchema' = migration'.text
    BY <1>2 DEF StatusTellsSchema
  <2>1. unanswered = 0
    BY <1>2 DEF IInv, RowTyped
  <2>2. executor[e].id = migration.id /\ executor[e].text = migration.text /\ Allows(act)
    BY <1>1, <2>1 DEF IInv, ReadHolds
  <2>3. act = "apply" => ups = 0
    BY <2>1, <2>2 DEF Allows, IInv, StatusTellsSchema
  <2> QED BY <1>2, <1>3, <2>2, <2>3 DEF to
<1>14. StatusNeverClaimsMore'
  <2> SUFFICES ASSUME rowIds = 1
               PROVE  /\ migration'.status = "applied" => ups' > 0
                      /\ migration'.status = "rolled_back" => ups' = 0
    BY <1>2 DEF StatusNeverClaimsMore
  <2>1. CASE executor[e].id = migration.id
    BY <1>2, <1>3, <2>1 DEF to, IInv, RowTyped
  <2>2. CASE executor[e].id # migration.id
    <3>1. migration.id = 0
      BY <1>1, <2>2 DEF IInv, RowTyped, RowsInOrder, BusyExecutors
    <3> QED BY <1>3, <2>2, <3>1 DEF IInv, RowsInOrder
  <2> QED BY <2>1, <2>2
<1> QED BY <1>8, <1>11, <1>12, <1>13, <1>14 DEF IInv

\* The other steps of an executor.
LEMMA ExecutorKeeps ==
  ASSUME IInv, NEW e \in Executors,
         TryLock(e) \/ ScriptFails(e) \/ MarkFailed(e) \/ ExecutorDies(e)
  PROVE  IInv'
<1>1. e \in BusyExecutors
      /\ UNCHANGED <<rowIds, ups, inSchema, unanswered, disturbed>>
  BY DEF TryLock, ScriptFails, MarkFailed, ExecutorDies, BusyExecutors
<1>2. IdleExecutor.at = "idle" /\ [executor[e] EXCEPT !.at = "locked"].at = "locked"
  BY DEF IdleExecutor, IInv, RowTyped
<1>3. CASE TryLock(e)
  BY <1>1, <1>2, <1>3, GoesOnKeeps DEF TryLock, Erred
<1>4. CASE ScriptFails(e)
  BY <1>1, <1>2, <1>4, GoesOnKeeps DEF ScriptFails, Erred
<1>5. CASE ExecutorDies(e)
  BY <1>1, <1>2, <1>5, GoesOnKeeps DEF ExecutorDies
<1>6. CASE MarkFailed(e)
  BY <1>1, <1>2, <1>6, GoesOnKeeps DEF MarkFailed, StatusSet
<1> QED BY <1>3, <1>4, <1>5, <1>6

\* Every step preserves the invariant.
LEMMA MigrationSteps == IInv /\ [MigrationNext]_migrationVars => IInv'
<1> SUFFICES ASSUME IInv, [MigrationNext]_migrationVars PROVE IInv'
  OBVIOUS
<1>1. CASE MigrationNext
  BY <1>1, CreateKeeps, EditKeeps, ReadKeeps, CommitKeeps, ExecutorKeeps DEF MigrationNext
<1>2. CASE UNCHANGED migrationVars
  BY <1>2 DEF migrationVars, IInv, RowTyped, RowsInOrder, ReadHolds, BusyExecutors, Allows,
              StatusTellsSchema, StatusNeverClaimsMore
<1> QED BY <1>1, <1>2

\* Administrators can rely on the status: on all of it as long as nothing overlaps and
\* the answers of commits arrive, and on what it claims of the first row in any case.
THEOREM StatusIsTruthful == MigrationSpec => []StatusTruthful
<1>1. IInv => StatusTruthful
  BY DEF IInv, StatusTruthful
<1> QED BY <1>1, MigrationStarts, MigrationSteps, PTL DEF MigrationSpec

(***************************************************************************)
(* BranchLifecycle: the rows are a true register of the databases, and the *)
(* limit of a tenant is overshot by fewer branches than operations run.    *)
(***************************************************************************)

AnOperation == [at : {"idle", "lookup", "insert", "clone", "ready", "failed", "begin", "drop",
                      "dropped"},
                does : {"none", "create", "delete", "reset"},
                name : Names \union {NoBranch}, row : Branches \union {NoRow}]
BranchStatuses == {"none", "creating", "ready", "migrating", "error", "deleting", "deleted"}

BranchTyped ==
    /\ name \in [Branches -> Names \union {NoBranch}] /\ status \in [Branches -> BranchStatuses]
    /\ operation \in [Ops -> AnOperation] /\ databases \subseteq Databases
    /\ \A b \in Recorded : name[b] \in Names

\* Rows are recorded one after the other.
BranchRowsInOrder == \E n \in 0..MaxRows : Recorded = 1..n

\* An operation that has taken up a row works on the database of its name; one that has
\* not does not touch any.
Working(o) == operation[o].row # NoRow
DatabaseOfOp(o) == DatabaseOf[operation[o].name]
OperationsWork ==
    \A o \in Ops :
      /\ Working(o) => operation[o].row \in Recorded /\ operation[o].name = name[operation[o].row]
      /\ operation[o].at \in {"clone", "ready", "failed", "begin", "drop", "dropped"} => Working(o)
      /\ operation[o].at \in {"lookup", "insert"} => operation[o].name \in Names /\ ~Working(o)

\* A database that is shared is mixed.
SharedIsMixed ==
    /\ \A b, c \in Recorded : b # c /\ DatabaseOf[name[b]] = DatabaseOf[name[c]] =>
         DatabaseOf[name[b]] \in mixed
    /\ \A o, p \in Ops : o # p /\ Working(o) /\ Working(p) /\ DatabaseOfOp(o) = DatabaseOfOp(p) =>
         DatabaseOfOp(o) \in mixed

\* What an operation knows of a database and a row that it alone works on.
Knows(o) ==
    /\ operation[o].row \in Live
    /\ operation[o].at = "ready" => DatabaseOfOp(o) \in databases
    /\ operation[o].at = "dropped" => DatabaseOfOp(o) \notin databases
    /\ operation[o].at \in {"clone", "drop", "dropped"} => status[operation[o].row] # "ready"
OperationsKnow == \A o \in Ops : Working(o) /\ DatabaseOfOp(o) \notin mixed => Knows(o)

BranchInv ==
    /\ BranchTyped /\ BranchRowsInOrder /\ OperationsWork /\ SharedIsMixed /\ OperationsKnow
    /\ RowTellsDatabase /\ OneRowPerName

\* Initially there is no branch.
LEMMA BranchStarts == BranchInit => BranchInv
<1> SUFFICES ASSUME BranchInit PROVE BranchInv
  OBVIOUS
<1>1. Recorded = {}
  BY DEF BranchInit, Recorded
<1>2. \A o \in Ops : ~Working(o) /\ operation[o].at = "idle"
  BY DEF BranchInit, Working, Resting
<1>3. BranchTyped
  BY <1>1 DEF BranchInit, BranchTyped, Resting, AnOperation, BranchStatuses
<1>4. BranchRowsInOrder
  BY <1>1, BranchAssumption DEF BranchRowsInOrder
<1>5. OperationsWork /\ SharedIsMixed /\ OperationsKnow
  BY <1>1, <1>2 DEF OperationsWork, SharedIsMixed, OperationsKnow
<1>6. RowTellsDatabase /\ OneRowPerName
  BY <1>1 DEF BranchInit, RowTellsDatabase, OneRowPerName
<1> QED BY <1>3, <1>4, <1>5, <1>6 DEF BranchInv

\* One operation comes to be w, and the others stay as they are.
Becomes(o, w) == w \in AnOperation /\ operation' = [operation EXCEPT ![o] = w]

\* What that does to the operations.
LEMMA OtherOpsKeep ==
  ASSUME BranchTyped, NEW o \in Ops, NEW w, Becomes(o, w)
  PROVE  /\ operation' \in [Ops -> AnOperation] /\ operation'[o] = w
         /\ \A p \in Ops : p # o => operation'[p] = operation[p]
  BY DEF BranchTyped, Becomes

\* An operation that goes on or ends becomes a record of an operation.
LEMMA StepOrRest ==
  ASSUME BranchTyped, NEW o \in Ops
  PROVE  /\ Rest(o) => Becomes(o, Resting)
         /\ \A at \in {"insert", "clone", "ready", "failed", "drop", "dropped"} :
              Step(o, at) => Becomes(o, [operation[o] EXCEPT !.at = at])
<1>1. Resting \in AnOperation
  BY DEF Resting, AnOperation
<1>2. ASSUME NEW at \in {"insert", "clone", "ready", "failed", "drop", "dropped"}
      PROVE  [operation[o] EXCEPT !.at = at] \in AnOperation
  BY DEF BranchTyped, AnOperation
<1> QED BY <1>1, <1>2 DEF Rest, Step, Becomes, BranchTyped, AnOperation

\* The limits are checked, the slug is looked up, or the operation ends.
LEMMA NoRowStep ==
  ASSUME BranchInv, NEW o \in Ops, NEW w, Becomes(o, w), w.row = NoRow,
         w.at \in {"idle", "lookup", "insert"}, w.at # "idle" => w.name \in Names,
         UNCHANGED <<name, status, databases, mixed>>
  PROVE  BranchInv'
<1>1. /\ operation' \in [Ops -> AnOperation] /\ operation'[o] = w
      /\ \A p \in Ops : p # o => operation'[p] = operation[p]
  BY OtherOpsKeep DEF BranchInv
<1>2. Recorded' = Recorded /\ Live' = Live
  BY DEF Recorded, Live
<1>3. BranchTyped' /\ BranchRowsInOrder' /\ RowTellsDatabase' /\ OneRowPerName'
  BY <1>1, <1>2 DEF BranchInv, BranchTyped, BranchRowsInOrder, RowTellsDatabase, OneRowPerName
<1>4. OperationsWork' /\ SharedIsMixed' /\ OperationsKnow'
  BY <1>1, <1>2 DEF BranchInv, OperationsWork, SharedIsMixed, OperationsKnow,
     Knows, Working, DatabaseOfOp
<1> QED BY <1>3, <1>4 DEF BranchInv

\* The steps of a creation before its row is recorded, and the end of an operation.
LEMMA BranchLookupStep ==
  ASSUME BranchInv, NEW o \in Ops,
         \/ \E n \in Names : CheckLimits(o, n)
         \/ GetBranchBySlug(o) \/ Abandon(o)
  PROVE  BranchInv'
<1>1. UNCHANGED <<name, status, databases, mixed>>
  BY DEF CheckLimits, GetBranchBySlug, Abandon
<1>2. ASSUME NEW n \in Names, CheckLimits(o, n) PROVE BranchInv'
  <2> DEFINE w == [at |-> "lookup", does |-> "create", name |-> n, row |-> NoRow]
  <2>1. Becomes(o, w)
    BY <1>2 DEF CheckLimits, Begin, Becomes, AnOperation
  <2>2. w.row = NoRow /\ w.at = "lookup" /\ w.name \in Names
    OBVIOUS
  <2> HIDE DEF w
  <2> QED BY <1>1, <2>1, <2>2, NoRowStep
<1>3. ASSUME Step(o, "insert"), operation[o].at = "lookup" PROVE BranchInv'
  <2> DEFINE w == [operation[o] EXCEPT !.at = "insert"]
  <2>1. Becomes(o, w)
    BY <1>3, StepOrRest DEF BranchInv
  <2>2. w.row = NoRow /\ w.at = "insert" /\ w.name \in Names
    BY <1>3 DEF BranchInv, BranchTyped, AnOperation, OperationsWork, Working
  <2> HIDE DEF w
  <2> QED BY <1>1, <2>1, <2>2, NoRowStep
<1>4. ASSUME Rest(o) PROVE BranchInv'
  <2>1. Becomes(o, Resting) /\ Resting.row = NoRow /\ Resting.at = "idle"
    BY <1>4, StepOrRest DEF BranchInv, Resting
  <2> QED BY <1>1, <2>1, NoRowStep
<1> QED BY <1>2, <1>3, <1>4 DEF GetBranchBySlug, Abandon

\* A row is recorded, the next one.
LEMMA RecordStep ==
  ASSUME BranchInv, NEW o \in Ops, RecordBranch(o)
  PROVE  BranchInv'
<1> DEFINE n == operation[o].name
           b == Cardinality(Recorded) + 1
           w == [operation[o] EXCEPT !.at = "clone", !.row = b]
<1>1. operation[o].at = "insert" /\ n \in Names /\ ~Working(o) /\ UNCHANGED databases
  BY DEF RecordBranch, BranchInv, OperationsWork
<1>2. CASE ~SlugIsFree(n)
  <2>1. UNCHANGED <<name, status, databases, mixed>> /\ Rest(o)
    BY <1>2 DEF RecordBranch
  <2>2. Becomes(o, Resting) /\ Resting.row = NoRow /\ Resting.at = "idle"
    BY <2>1, StepOrRest DEF BranchInv, Resting
  <2> QED BY <2>1, <2>2, NoRowStep
<1>3. CASE SlugIsFree(n)
  <2>1. /\ b \in Branches /\ name' = [name EXCEPT ![b] = n]
        /\ status' = [status EXCEPT ![b] = "creating"]
        /\ operation' = [operation EXCEPT ![o].at = "clone", ![o].row = b]
        /\ TakesUp(o, n, b)
    BY <1>3 DEF RecordBranch
  <2>2. b \notin Recorded /\ Recorded \union {b} = 1..b /\ b \in 0..MaxRows
    <3>1. PICK k \in 0..MaxRows : Recorded = 1..k
      BY DEF BranchInv, BranchRowsInOrder
    <3>2. Cardinality(1..k) = k
      BY <3>1, BranchAssumption, FS_Interval
    <3> QED BY <2>1, <3>1, <3>2, BranchAssumption DEF Branches
  <2>3. w \in AnOperation /\ w.at = "clone" /\ w.row = b /\ w.name = n
    BY <2>1 DEF BranchInv, BranchTyped, AnOperation
  <2>4. operation' = [operation EXCEPT ![o] = w]
    BY <2>1 DEF BranchInv, BranchTyped, AnOperation
  <2> HIDE DEF b, w
  <2>5. /\ operation' \in [Ops -> AnOperation] /\ operation'[o] = w
        /\ \A p \in Ops : p # o => operation'[p] = operation[p]
    BY <2>3, <2>4, OtherOpsKeep DEF BranchInv, Becomes
  <2>6. /\ name' \in [Branches -> Names \union {NoBranch}] /\ status' \in [Branches -> BranchStatuses]
        /\ name'[b] = n /\ status'[b] = "creating"
        /\ \A c \in Recorded : name'[c] = name[c] /\ status'[c] = status[c] /\ c # b
    BY <1>1, <2>1, <2>2 DEF BranchInv, BranchTyped, BranchStatuses, Recorded
  <2>7. Recorded' = Recorded \union {b} /\ Live' = Live \union {b}
    BY <2>1, <2>2, <2>6 DEF Recorded, Live, BranchInv, BranchTyped, BranchStatuses
  <2>8. BranchTyped' /\ BranchRowsInOrder'
    BY <1>1, <2>2, <2>5, <2>6, <2>7 DEF BranchInv, BranchTyped, BranchRowsInOrder
  <2>9. b # NoRow
    BY <2>1 DEF Branches, NoRow
  <2>10. OperationsWork'
    BY <1>1, <2>3, <2>5, <2>6, <2>7, <2>9 DEF BranchInv, OperationsWork, Working
  <2>11. /\ mixed \subseteq mixed'
         /\ \A c \in Recorded : DatabaseOf[name[c]] = DatabaseOf[n] => DatabaseOf[n] \in mixed'
         /\ \A p \in Ops : p # o /\ Working(p) /\ DatabaseOfOp(p) = DatabaseOf[n] => DatabaseOf[n] \in mixed'
    BY <2>1, <2>2 DEF TakesUp, WorksOn, Working, DatabaseOfOp
  <2>12. SharedIsMixed'
    <3>1. ASSUME NEW c \in Recorded', NEW d \in Recorded', c # d,
                 DatabaseOf[name'[c]] = DatabaseOf[name'[d]]
          PROVE  DatabaseOf[name'[c]] \in mixed'
      BY <2>6, <2>7, <2>11, <3>1 DEF BranchInv, SharedIsMixed
    <3>2. ASSUME NEW p \in Ops, NEW q \in Ops, p # q, Working(p)', Working(q)',
                 DatabaseOfOp(p)' = DatabaseOfOp(q)'
          PROVE  DatabaseOfOp(p)' \in mixed'
      BY <2>3, <2>5, <2>11, <3>2 DEF BranchInv, SharedIsMixed, Working, DatabaseOfOp
    <3> QED BY <3>1, <3>2 DEF SharedIsMixed
  <2>13. OperationsKnow'
    <3>1. ASSUME NEW p \in Ops, Working(p)', DatabaseOfOp(p)' \notin mixed'
          PROVE  Knows(p)'
      <4>1. CASE p = o
        BY <2>3, <2>5, <2>6, <2>7, <4>1 DEF Knows
      <4>2. CASE p # o
        <5>1. operation[p].row \in Recorded /\ Working(p)
          BY <2>5, <3>1, <4>2 DEF BranchInv, OperationsWork, Working
        <5> QED BY <1>1, <2>5, <2>6, <2>7, <2>11, <3>1, <4>2, <5>1 DEF BranchInv, OperationsKnow,
           Knows, DatabaseOfOp
      <4> QED BY <4>1, <4>2
    <3> QED BY <1>1, <3>1 DEF OperationsKnow
  <2>14. RowTellsDatabase'
    BY <1>1, <2>6, <2>7, <2>11 DEF BranchInv, RowTellsDatabase, Live
  <2>15. OneRowPerName'
    BY <1>3, <2>6, <2>7 DEF BranchInv, OneRowPerName, SlugIsFree
  <2> QED BY <2>8, <2>10, <2>12, <2>13, <2>14, <2>15 DEF BranchInv
<1> QED BY <1>2, <1>3

\* An operation goes on with its row b and the database of its name.  As long as the
\* database is not mixed nobody else looks at the row or the database.
LEMMA GoesOn ==
  ASSUME BranchInv, NEW o \in Ops, Working(o), NEW w, Becomes(o, w),
         w.row = NoRow => w.at = "idle",
         w.row # NoRow => w.row = operation[o].row /\ w.name = operation[o].name,
         w.at \notin {"lookup", "insert"},
         name' = name, mixed' = mixed, status' \in [Branches -> BranchStatuses],
         \A c \in Branches : c # operation[o].row => status'[c] = status[c],
         status'[operation[o].row] # "none",
         \A e \in Databases : e # DatabaseOfOp(o) => (e \in databases' <=> e \in databases),
         databases' \subseteq Databases,
         DatabaseOfOp(o) \notin mixed =>
           /\ status'[operation[o].row] = "ready" => DatabaseOfOp(o) \in databases'
           /\ DatabaseOfOp(o) \in databases' \/ w.row # NoRow => status'[operation[o].row] # "deleted"
           /\ w.at = "ready" => DatabaseOfOp(o) \in databases'
           /\ w.at = "dropped" => DatabaseOfOp(o) \notin databases'
           /\ w.at \in {"clone", "drop", "dropped"} => status'[operation[o].row] # "ready"
  PROVE  BranchInv'
<1> DEFINE b == operation[o].row
           d == DatabaseOfOp(o)
<1>1. /\ operation' \in [Ops -> AnOperation] /\ operation'[o] = w
      /\ \A p \in Ops : p # o => operation'[p] = operation[p]
  BY OtherOpsKeep DEF BranchInv
<1>2. b \in Recorded /\ b \in Branches /\ operation[o].name = name[b] /\ d = DatabaseOf[name[b]]
  BY DEF BranchInv, OperationsWork, Recorded, DatabaseOfOp
<1>3. Recorded' = Recorded
  BY <1>2 DEF Recorded, BranchInv, BranchTyped
<1>4. BranchTyped' /\ BranchRowsInOrder' /\ OneRowPerName'
  BY <1>1, <1>3 DEF BranchInv, BranchTyped, BranchRowsInOrder, OneRowPerName
<1>5. \A c \in Recorded : c # b /\ DatabaseOf[name[c]] \notin mixed =>
        DatabaseOf[name[c]] # d /\ status'[c] = status[c]
  BY <1>2 DEF BranchInv, SharedIsMixed, Recorded
<1>6. \A p \in Ops : p # o /\ Working(p) /\ DatabaseOfOp(p) \notin mixed => DatabaseOfOp(p) # d
  BY DEF BranchInv, SharedIsMixed
<1>7. \A c \in Recorded : DatabaseOf[name[c]] \in Databases
  BY DEF Databases, BranchInv, BranchTyped
<1>8. OperationsWork'
  BY <1>1, <1>2, <1>3 DEF BranchInv, OperationsWork, Working
<1>9. SharedIsMixed'
  BY <1>1, <1>3 DEF BranchInv, SharedIsMixed, Working, DatabaseOfOp
<1>10. OperationsKnow'
  <2>1. ASSUME NEW p \in Ops, Working(p)', DatabaseOfOp(p)' \notin mixed'
        PROVE  Knows(p)'
    <3>1. CASE p = o
      <4>1. w.row = b /\ DatabaseOfOp(p)' = d
        BY <1>1, <2>1, <3>1 DEF Working, DatabaseOfOp
      <4>2. d \notin mixed /\ w.row # NoRow
        BY <1>1, <2>1, <3>1, <4>1 DEF Working
      <4> QED BY <1>1, <1>2, <1>3, <3>1, <4>1, <4>2 DEF Knows, Live
    <3>2. CASE p # o
      <4>1. operation'[p] = operation[p] /\ Working(p) /\ DatabaseOfOp(p)' = DatabaseOfOp(p)
        BY <1>1, <2>1, <3>2 DEF Working, DatabaseOfOp
      <4>2. DatabaseOfOp(p) # d /\ DatabaseOfOp(p) \notin mixed
        BY <1>6, <2>1, <3>2, <4>1
      <4>3. operation[p].row \in Recorded /\ DatabaseOfOp(p) = DatabaseOf[name[operation[p].row]]
        BY <4>1 DEF BranchInv, OperationsWork, DatabaseOfOp
      <4>4. status'[operation[p].row] = status[operation[p].row]
        BY <1>2, <4>2, <4>3 DEF Recorded
      <4>5. DatabaseOfOp(p) \in databases' <=> DatabaseOfOp(p) \in databases
        BY <1>7, <4>2, <4>3
      <4> QED BY <1>3, <4>1, <4>2, <4>3, <4>4, <4>5 DEF BranchInv, OperationsKnow, Knows, Live,
         DatabaseOfOp
    <3> QED BY <3>1, <3>2
  <2> QED BY <2>1 DEF OperationsKnow
<1>11. RowTellsDatabase'
  <2>1. ASSUME NEW c \in Recorded, status'[c] = "ready"
        PROVE  DatabaseOf[name[c]] \in databases' \union mixed
    BY <1>2, <1>5, <1>7, <2>1 DEF BranchInv, RowTellsDatabase
  <2>2. ASSUME NEW e \in databases', e \notin mixed
        PROVE  \E c \in Live' : DatabaseOf[name[c]] = e
    <3>1. CASE e = d
      BY <1>2, <1>3, <2>2, <3>1 DEF Live
    <3>2. CASE e # d
      <4>1. PICK c \in Live : DatabaseOf[name[c]] = e
        BY <2>2, <3>2 DEF BranchInv, RowTellsDatabase
      <4>2. c \in Recorded /\ c # b /\ status'[c] = status[c]
        BY <1>2, <3>2, <4>1 DEF Live, Recorded
      <4> QED BY <1>3, <4>1, <4>2 DEF Live
    <3> QED BY <3>1, <3>2
  <2> QED BY <1>3, <2>1, <2>2 DEF RowTellsDatabase
<1> QED BY <1>4, <1>8, <1>9, <1>10, <1>11 DEF BranchInv

\* The steps of an operation on its row and its database.
LEMMA RowStep ==
  ASSUME BranchInv, NEW o \in Ops,
         CreateDatabase(o) \/ WriteStatus(o) \/ MarkBranch(o) \/ DropDatabase(o) \/ DeleteRow(o)
  PROVE  BranchInv'
<1> DEFINE b == operation[o].row
           d == DatabaseOfOp(o)
           S(at) == [operation[o] EXCEPT !.at = at]
<1>1. name' = name /\ mixed' = mixed /\ Working(o) /\ b \in Recorded /\ b \in Branches /\ b # NoRow
      /\ d \in Databases
  BY DEF CreateDatabase, WriteStatus, MarkBranch, DropDatabase, DeleteRow, BranchInv,
     BranchTyped, OperationsWork, Working, Recorded, DatabaseOfOp, Databases
<1>2. status \in [Branches -> BranchStatuses] /\ status[b] # "none" /\ databases \subseteq Databases
  BY <1>1 DEF BranchInv, BranchTyped, Recorded
<1>3. d \notin mixed =>
        /\ status[b] # "deleted"
        /\ operation[o].at = "ready" => d \in databases
        /\ operation[o].at = "dropped" => d \notin databases
        /\ operation[o].at \in {"clone", "drop", "dropped"} => status[b] # "ready"
  BY <1>1 DEF BranchInv, OperationsKnow, Knows, Live, DatabaseOfOp
<1>4. ASSUME NEW at \in {"clone", "ready", "failed", "drop", "dropped"}, Step(o, at)
      PROVE  Becomes(o, S(at)) /\ S(at).at = at /\ S(at).row = b /\ S(at).name = operation[o].name
  BY <1>4, StepOrRest DEF BranchInv, BranchTyped, AnOperation
<1>5. Rest(o) => Becomes(o, Resting) /\ Resting.row = NoRow /\ Resting.at = "idle"
  BY StepOrRest DEF BranchInv, Resting
<1> HIDE DEF S
<1>6. CASE CreateDatabase(o)
  <2>1. /\ operation[o].at = "clone" /\ status' = status
        /\ databases' \subseteq databases \union {d} /\ databases \subseteq databases'
        /\ \/ Step(o, "ready") /\ d \in databases'
           \/ Step(o, "failed")
    BY <1>6 DEF CreateDatabase, DatabaseOfOp
  <2>2. PICK at \in {"ready", "failed"} : Step(o, at) /\ (at = "ready" => d \in databases')
    BY <2>1
  <2>3. Becomes(o, S(at)) /\ S(at).at = at /\ S(at).row = b /\ S(at).name = operation[o].name
    BY <1>4, <2>2
  <2> HIDE DEF b, d
  <2> DEFINE w == S(at)
  <2>4. w.at = at /\ w.row = b
    BY <2>3
  <2> HIDE DEF w
  <2> QED BY <1>1, <1>2, <1>3, <2>1, <2>2, <2>3, <2>4, GoesOn DEF b, d, w
<1>7. CASE WriteStatus(o)
  <2>1. /\ operation[o].at \in {"ready", "failed"} /\ databases' = databases /\ Rest(o)
        /\ status' = [status EXCEPT ![b] = IF operation[o].at = "ready" THEN "ready" ELSE "error"]
    BY <1>7 DEF WriteStatus
  <2>2. status' \in [Branches -> BranchStatuses] /\ status'[b] \in {"ready", "error"}
        /\ (status'[b] = "ready" => operation[o].at = "ready")
        /\ \A c \in Branches : c # b => status'[c] = status[c]
    BY <1>1, <1>2, <2>1 DEF BranchStatuses
  <2> QED BY <1>1, <1>2, <1>3, <1>5, <2>1, <2>2, GoesOn
<1>8. CASE MarkBranch(o)
  <2>1. /\ operation[o].at = "begin" /\ databases' = databases /\ Step(o, "drop")
        /\ status' = [status EXCEPT ![b] =
                        IF operation[o].does = "delete" THEN "deleting" ELSE "migrating"]
    BY <1>8 DEF MarkBranch
  <2>2. status' \in [Branches -> BranchStatuses] /\ status'[b] \in {"deleting", "migrating"}
        /\ \A c \in Branches : c # b => status'[c] = status[c]
    BY <1>1, <1>2, <2>1 DEF BranchStatuses
  <2>3. Becomes(o, S("drop")) /\ S("drop").at = "drop" /\ S("drop").row = b
        /\ S("drop").name = operation[o].name
    BY <1>4, <2>1
  <2> QED BY <1>1, <1>2, <1>3, <2>1, <2>2, <2>3, GoesOn
<1>9. CASE DropDatabase(o)
  <2>1. PICK at \in {"clone", "dropped", "failed"} :
          /\ Step(o, at) /\ operation[o].at = "drop" /\ status' = status
          /\ \/ at # "failed" /\ databases' = databases \ {d}
             \/ at = "failed" /\ databases' = databases
    BY <1>9 DEF DropDatabase, DatabaseOfOp
  <2>2. Becomes(o, S(at)) /\ S(at).at = at /\ S(at).row = b /\ S(at).name = operation[o].name
    BY <1>4, <2>1
  <2> QED BY <1>1, <1>2, <1>3, <2>1, <2>2, GoesOn
<1>10. CASE DeleteRow(o)
  <2>1. /\ operation[o].at = "dropped" /\ databases' = databases /\ Rest(o)
        /\ status' = [status EXCEPT ![b] = "deleted"]
    BY <1>10 DEF DeleteRow
  <2>2. status' \in [Branches -> BranchStatuses] /\ status'[b] = "deleted"
        /\ \A c \in Branches : c # b => status'[c] = status[c]
    BY <1>1, <1>2, <2>1 DEF BranchStatuses
  <2> QED BY <1>1, <1>2, <1>3, <1>5, <2>1, <2>2, GoesOn
<1> QED BY <1>6, <1>7, <1>8, <1>9, <1>10

\* An operation begins with a row that exists, and shares its database from then on.
LEMMA BeginStep ==
  ASSUME BranchInv, NEW o \in Ops, NEW b \in Branches,
         GetBranch(o, b, "delete") \/ GetBranch(o, b, "reset")
  PROVE  BranchInv'
<1>1. PICK does \in {"delete", "reset"} : GetBranch(o, b, does)
  OBVIOUS
<1> DEFINE n == name[b]
           w == [at |-> "begin", does |-> does, name |-> n, row |-> b]
<1>2. /\ b \in Live /\ b \in Recorded /\ n \in Names /\ operation[o] = Resting
      /\ operation' = [operation EXCEPT ![o] = w] /\ TakesUp(o, n, b)
      /\ UNCHANGED <<name, status, databases>> /\ b # NoRow
  BY <1>1 DEF GetBranch, Begin, Live, BranchInv, BranchTyped, Branches, NoRow
<1>3. w \in AnOperation /\ w.at = "begin" /\ w.row = b /\ w.name = n
  BY <1>2 DEF AnOperation
<1> HIDE DEF w
<1>4. /\ operation' \in [Ops -> AnOperation] /\ operation'[o] = w
      /\ \A p \in Ops : p # o => operation'[p] = operation[p]
  BY <1>2, <1>3, OtherOpsKeep DEF BranchInv, Becomes
<1>5. Recorded' = Recorded /\ Live' = Live
  BY <1>2 DEF Recorded, Live
<1>6. /\ mixed \subseteq mixed'
      /\ \A p \in Ops : p # o /\ Working(p) /\ DatabaseOfOp(p) = DatabaseOf[n] => DatabaseOf[n] \in mixed'
  BY <1>2 DEF TakesUp, WorksOn, Working, DatabaseOfOp
<1>7. BranchTyped' /\ BranchRowsInOrder' /\ RowTellsDatabase' /\ OneRowPerName'
  BY <1>2, <1>4, <1>5, <1>6 DEF BranchInv, BranchTyped, BranchRowsInOrder, RowTellsDatabase,
     OneRowPerName
<1>8. OperationsWork'
  BY <1>2, <1>3, <1>4, <1>5 DEF BranchInv, OperationsWork, Working
<1>9. SharedIsMixed'
  <2>1. ASSUME NEW p \in Ops, NEW q \in Ops, p # q, Working(p)', Working(q)',
               DatabaseOfOp(p)' = DatabaseOfOp(q)'
        PROVE  DatabaseOfOp(p)' \in mixed'
    BY <1>3, <1>4, <1>6, <2>1 DEF BranchInv, SharedIsMixed, Working, DatabaseOfOp
  <2> QED BY <1>2, <1>5, <1>6, <2>1 DEF BranchInv, SharedIsMixed
<1>10. OperationsKnow'
  <2>1. ASSUME NEW p \in Ops, Working(p)', DatabaseOfOp(p)' \notin mixed'
        PROVE  Knows(p)'
    <3>1. CASE p = o
      BY <1>2, <1>3, <1>4, <1>5, <3>1 DEF Knows
    <3>2. CASE p # o
      BY <1>2, <1>4, <1>5, <1>6, <2>1, <3>2 DEF BranchInv, OperationsKnow, Knows, Working,
         DatabaseOfOp
    <3> QED BY <3>1, <3>2
  <2> QED BY <1>2, <2>1 DEF OperationsKnow
<1> QED BY <1>7, <1>8, <1>9, <1>10 DEF BranchInv

\* Every step of the operations preserves the invariant of the branches.
LEMMA BranchSteps == BranchInv /\ [BranchNext]_branchVars => BranchInv'
<1> SUFFICES ASSUME BranchInv, [BranchNext]_branchVars PROVE BranchInv'
  OBVIOUS
<1>1. CASE UNCHANGED branchVars
  <2>1. Recorded' = Recorded /\ Live' = Live
    BY <1>1 DEF branchVars, Recorded, Live
  <2>2. BranchTyped' /\ BranchRowsInOrder' /\ RowTellsDatabase' /\ OneRowPerName'
    BY <1>1, <2>1 DEF branchVars, BranchInv, BranchTyped, BranchRowsInOrder, RowTellsDatabase,
       OneRowPerName
  <2>3. OperationsWork' /\ SharedIsMixed' /\ OperationsKnow'
    BY <1>1, <2>1 DEF branchVars, BranchInv, OperationsWork, SharedIsMixed, OperationsKnow,
       Knows, Working, DatabaseOfOp
  <2> QED BY <2>2, <2>3 DEF BranchInv
<1>2. CASE BranchNext
  BY <1>2, BranchLookupStep, RecordStep, RowStep, BeginStep DEF BranchNext
<1> QED BY <1>1, <1>2

\* Whatever the operations of any number of requests do at once, fail or leave undone, the
\* rows tell the truth about the databases that no two of them shared, and a tenant has
\* no name twice.
THEOREM RegisterIsTrue == BranchSpec => []RowsTellDatabases
<1>1. BranchInv => RowsTellDatabases
  BY DEF BranchInv, RowsTellDatabases
<1> QED BY BranchStarts, BranchSteps, <1>1, PTL DEF BranchSpec

\* The rows of a tenant that count, or that an operation may yet make count again, and
\* the creations that have passed the limit and not recorded a row.
Counting(t) ==
    {b \in Recorded : /\ TenantOf[name[b]] = t
                      /\ status[b] # "deleted" \/ \E o \in Ops : operation[o].row = b}
Admitted(t) == {o \in Ops : /\ operation[o].at \in {"lookup", "insert"}
                            /\ TenantOf[operation[o].name] = t}

Overshoot ==
    \A t \in Tenants :
      Cardinality(Counting(t)) + Cardinality(Admitted(t)) < MaxBranches + Cardinality(Ops)

\* The sets counted are finite.
LEMMA CountsAreFinite ==
  ASSUME IsFiniteSet(Ops), BranchTyped, NEW t
  PROVE  /\ IsFiniteSet(Counting(t)) /\ Cardinality(Counting(t)) \in Nat
         /\ IsFiniteSet(Admitted(t)) /\ Cardinality(Admitted(t)) \in Nat
         /\ Cardinality(Ops) \in Nat
<1>1. IsFiniteSet(Branches)
  BY BranchAssumption, FS_Interval DEF Branches
<1>2. Counting(t) \subseteq Branches /\ Admitted(t) \subseteq Ops
  BY DEF Counting, Recorded, Admitted
<1> QED BY <1>1, <1>2, FS_Subset, FS_CardinalityType

\* A step in which nothing comes to count and nothing is admitted.
LEMMA NothingAdded ==
  ASSUME IsFiniteSet(Ops), BranchTyped, Overshoot,
         \A t \in Tenants : Counting(t)' \subseteq Counting(t) /\ Admitted(t)' \subseteq Admitted(t)
  PROVE  Overshoot'
<1> SUFFICES ASSUME NEW t \in Tenants
             PROVE  Cardinality(Counting(t)') + Cardinality(Admitted(t)')
                      < MaxBranches + Cardinality(Ops)
  BY DEF Overshoot
<1>1. /\ Cardinality(Counting(t)') \in Nat /\ Cardinality(Counting(t)') <= Cardinality(Counting(t))
      /\ Cardinality(Admitted(t)') \in Nat /\ Cardinality(Admitted(t)') <= Cardinality(Admitted(t))
  BY CountsAreFinite, FS_Subset, FS_CardinalityType
<1>2. Cardinality(Counting(t)) + Cardinality(Admitted(t)) < MaxBranches + Cardinality(Ops)
  BY DEF Overshoot
<1> QED BY <1>1, <1>2, CountsAreFinite, BranchAssumption

\* One operation goes on with its row, with a row that counts, or without a row.
LEMMA OneOperationBounded ==
  ASSUME IsFiniteSet(Ops), BranchInv, Overshoot, NEW o \in Ops, NEW w, Becomes(o, w),
         name' = name, Recorded' = Recorded,
         w.row \in {NoRow, operation[o].row} \/ w.row \in Live,
         w.at \in {"lookup", "insert"} =>
           operation[o].at \in {"lookup", "insert"} /\ w.name = operation[o].name,
         \A b \in Recorded : b # operation[o].row => status'[b] = status[b]
  PROVE  Overshoot'
<1>1. operation'[o] = w
  BY OtherOpsKeep DEF BranchInv
<1>2. \A p \in Ops : p # o => operation'[p] = operation[p]
  BY OtherOpsKeep DEF BranchInv
<1>3. ASSUME NEW t \in Tenants, NEW b, b \in Counting(t)' PROVE b \in Counting(t)
  <2>1. b \in Recorded /\ TenantOf[name[b]] = t /\ b # NoRow
    BY <1>3, BranchAssumption DEF Counting, Recorded, Branches, NoRow
  <2>2. CASE b = operation[o].row
    BY <2>1, <2>2 DEF Counting
  <2>3. CASE b # operation[o].row /\ status[b] # "deleted"
    BY <2>1, <2>3 DEF Counting
  <2>4. CASE b # operation[o].row /\ status[b] = "deleted"
    <3>1. PICK p \in Ops : operation'[p].row = b
      BY <1>3, <2>1, <2>4 DEF Counting
    <3>2. p # o
      BY <1>1, <2>1, <2>4, <3>1 DEF Live
    <3> QED BY <1>2, <2>1, <3>1, <3>2 DEF Counting
  <2> QED BY <2>2, <2>3, <2>4
<1>4. ASSUME NEW t \in Tenants PROVE Admitted(t)' \subseteq Admitted(t)
  BY <1>1, <1>2 DEF Admitted
<1>5. BranchTyped
  BY DEF BranchInv
<1>6. \A t \in Tenants : Counting(t)' \subseteq Counting(t) /\ Admitted(t)' \subseteq Admitted(t)
  BY <1>3, <1>4
<1> QED BY <1>5, <1>6, NothingAdded

\* The limit is checked: those that count and are deleted have an operation each, and so
\* have the creations that were admitted.
LEMMA AdmissionBounded ==
  ASSUME IsFiniteSet(Ops), BranchInv, Overshoot, NEW o \in Ops, NEW n \in Names, CheckLimits(o, n)
  PROVE  Overshoot'
<1> DEFINE w == [at |-> "lookup", does |-> "create", name |-> n, row |-> NoRow]
<1>1. /\ operation[o] = Resting /\ Becomes(o, w) /\ UNCHANGED <<name, status>>
      /\ Recorded' = Recorded
  BY DEF CheckLimits, Begin, Becomes, AnOperation, Recorded
<1>2. w.at = "lookup" /\ w.name = n /\ w.row = NoRow /\ operation[o].row = NoRow
  BY <1>1 DEF Resting
<1> HIDE DEF w
<1>3. operation'[o] = w /\ \A p \in Ops : p # o => operation'[p] = operation[p]
  BY <1>1, OtherOpsKeep DEF BranchInv
<1>4. BranchTyped /\ BranchTyped'
  BY <1>1, BranchLookupStep DEF BranchInv
<1>5. ASSUME NEW t \in Tenants
      PROVE  Cardinality(Counting(t)') + Cardinality(Admitted(t)') < MaxBranches + Cardinality(Ops)
  <2>1. Counting(t)' = Counting(t)
    BY <1>1, <1>2, <1>3, BranchAssumption DEF Counting, Recorded, Branches, NoRow
  <2>2. CASE TenantOf[n] # t
    <3>1. Admitted(t)' = Admitted(t)
      BY <1>1, <1>2, <1>3, <2>2 DEF Admitted, Resting
    <3> QED BY <2>1, <3>1 DEF Overshoot
  <2>3. CASE TenantOf[n] = t
    <3> DEFINE W == {p \in Ops : operation'[p].row # NoRow}
               R == {operation'[p].row : p \in W}
               L == {b \in Live : TenantOf[name[b]] = t}
    <3>1. InScope(n) = L
      BY <2>3, BranchAssumption DEF InScope
    <3>2. Cardinality(L) < MaxBranches
      BY <3>1 DEF CheckLimits, WithinLimits
    <3>3. W \subseteq Ops /\ Admitted(t)' \subseteq Ops /\ W \intersect Admitted(t)' = {}
      <4>1. \A p \in Ops : operation'[p].at \in {"lookup", "insert"} => operation'[p].row = NoRow
        BY <1>2, <1>3 DEF BranchInv, OperationsWork, Working
      <4> QED BY <4>1 DEF Admitted
    <3>4. Counting(t) \subseteq L \union R
      <4> SUFFICES ASSUME NEW b \in Counting(t), b \notin L PROVE b \in R
        OBVIOUS
      <4>1. b # NoRow /\ \E p \in Ops : operation[p].row = b
        BY BranchAssumption DEF Counting, Live, Recorded, Branches, NoRow
      <4>2. PICK p \in Ops : operation[p].row = b
        BY <4>1
      <4>3. operation'[p].row = b
        BY <1>2, <1>3, <4>1, <4>2
      <4> QED BY <4>1, <4>3
    <3>5. IsFiniteSet(W) /\ IsFiniteSet(R) /\ Cardinality(R) <= Cardinality(W)
          /\ Cardinality(W) \in Nat /\ Cardinality(R) \in Nat
      <4>1. IsFiniteSet(W)
        BY FS_Subset
      <4> DEFINE f == [p \in W |-> operation'[p].row]
      <4>2. f \in Surjection(W, R)
        BY DEF Surjection
      <4> HIDE DEF W, R, f
      <4> QED BY <4>1, <4>2, FS_Surjection, FS_CardinalityType
    <3>6. IsFiniteSet(L) /\ Cardinality(L) \in Nat
      <4>1. L \subseteq Branches /\ IsFiniteSet(Branches)
        BY BranchAssumption, FS_Interval DEF Live, Recorded, Branches
      <4> QED BY <4>1, FS_Subset, FS_CardinalityType
    <3>7. IsFiniteSet(Admitted(t)') /\ Cardinality(Admitted(t)') \in Nat
      BY <3>3, FS_Subset, FS_CardinalityType
    <3> HIDE DEF W, R, L
    <3>8. /\ IsFiniteSet(L \union R)
          /\ Cardinality(L \union R) <= Cardinality(L) + Cardinality(R)
          /\ Cardinality(L \union R) \in Nat
      <4>1. IsFiniteSet(L \intersect R)
        BY <3>6, FS_Subset
      <4>2. Cardinality(L \intersect R) \in Nat
        BY <4>1, FS_CardinalityType
      <4>3. /\ IsFiniteSet(L \union R)
            /\ Cardinality(L \union R)
                 = Cardinality(L) + Cardinality(R) - Cardinality(L \intersect R)
        BY <3>5, <3>6, FS_Union
      <4>4. Cardinality(L \union R) \in Nat
        BY <4>3, FS_CardinalityType
      <4> QED BY <4>2, <4>3, <4>4, <3>5, <3>6
    <3>9. Cardinality(Counting(t)) <= Cardinality(L) + Cardinality(R)
          /\ Cardinality(Counting(t)) \in Nat
      BY <3>4, <3>5, <3>6, <3>8, FS_Subset, FS_CardinalityType
    <3>10. Cardinality(W) + Cardinality(Admitted(t)') <= Cardinality(Ops)
           /\ Cardinality(Ops) \in Nat
      <4>1. Cardinality(W \union Admitted(t)') = Cardinality(W) + Cardinality(Admitted(t)')
        <5>1. Cardinality(W \intersect Admitted(t)') = 0
          BY <3>3, FS_EmptySet
        <5>2. Cardinality(W \union Admitted(t)')
                = Cardinality(W) + Cardinality(Admitted(t)') - Cardinality(W \intersect Admitted(t)')
          BY <3>5, <3>7, FS_Union
        <5> QED BY <5>1, <5>2, <3>5, <3>7
      <4>2. W \union Admitted(t)' \subseteq Ops
        BY <3>3
      <4> QED BY <4>1, <4>2, FS_Subset, FS_CardinalityType
    <3>11. Cardinality(Counting(t)) + Cardinality(Admitted(t)')
             <= Cardinality(L) + Cardinality(W) + Cardinality(Admitted(t)')
      BY <3>5, <3>6, <3>7, <3>9
    <3>12. Cardinality(L) + Cardinality(W) + Cardinality(Admitted(t)')
             < MaxBranches + Cardinality(Ops)
      BY <3>2, <3>5, <3>6, <3>7, <3>10, BranchAssumption
    <3>13. Cardinality(Counting(t)) + Cardinality(Admitted(t)') < MaxBranches + Cardinality(Ops)
      BY <3>5, <3>6, <3>7, <3>9, <3>10, <3>11, <3>12, BranchAssumption
    <3> QED BY <2>1, <3>13
  <2> QED BY <2>2, <2>3
<1> QED BY <1>5 DEF Overshoot

\* An admitted creation records its row: it counts twice no longer than one step.
LEMMA RecordBounded ==
  ASSUME IsFiniteSet(Ops), BranchInv, Overshoot, NEW o \in Ops, RecordBranch(o), SlugIsFree(operation[o].name)
  PROVE  Overshoot'
<1> DEFINE n == operation[o].name
           b == Cardinality(Recorded) + 1
           w == [operation[o] EXCEPT !.at = "clone", !.row = b]
<1>1. /\ operation[o].at = "insert" /\ b \in Branches
      /\ name' = [name EXCEPT ![b] = n] /\ status' = [status EXCEPT ![b] = "creating"]
      /\ operation' = [operation EXCEPT ![o].at = "clone", ![o].row = b]
  BY DEF RecordBranch
<1>2. n \in Names /\ BranchTyped
  BY <1>1 DEF BranchInv, OperationsWork
<1>3. Becomes(o, w) /\ w.at = "clone" /\ w.row = b
  BY <1>1, <1>2 DEF BranchTyped, AnOperation, Becomes
<1> HIDE DEF b, w
<1>4. operation'[o] = w /\ \A p \in Ops : p # o => operation'[p] = operation[p]
  BY <1>2, <1>3, OtherOpsKeep
<1>5. /\ name'[b] = n /\ status'[b] = "creating"
      /\ \A c \in Branches : c # b => name'[c] = name[c] /\ status'[c] = status[c]
  BY <1>1, <1>2 DEF BranchTyped
<1>6. BranchTyped'
  BY RecordStep DEF BranchInv
<1>7. ASSUME NEW t \in Tenants
      PROVE  Cardinality(Counting(t)') + Cardinality(Admitted(t)') < MaxBranches + Cardinality(Ops)
  <2>0. Cardinality(Counting(t)) + Cardinality(Admitted(t)) < MaxBranches + Cardinality(Ops)
    BY DEF Overshoot
  <2>1. CASE TenantOf[n] # t
    <3>1. Counting(t)' \subseteq Counting(t)
      BY <1>3, <1>4, <1>5, <2>1 DEF Counting, Recorded
    <3>2. Admitted(t)' \subseteq Admitted(t)
      BY <1>3, <1>4, <2>1 DEF Admitted
    <3> QED BY <1>2, <2>0, <3>1, <3>2, CountsAreFinite, FS_Subset, FS_CardinalityType,
               BranchAssumption
  <2>2. CASE TenantOf[n] = t
    <3>1. Counting(t)' \subseteq Counting(t) \union {b}
      BY <1>3, <1>4, <1>5 DEF Counting, Recorded
    <3>2. Admitted(t)' = Admitted(t) \ {o} /\ o \in Admitted(t)
      BY <1>1, <1>3, <1>4, <2>2 DEF Admitted
    <3>3. /\ IsFiniteSet(Counting(t) \union {b})
          /\ Cardinality(Counting(t) \union {b}) <= Cardinality(Counting(t)) + 1
          /\ Cardinality(Counting(t) \union {b}) \in Nat
      <4>1. IsFiniteSet(Counting(t)) /\ Cardinality(Counting(t)) \in Nat
        BY <1>2, CountsAreFinite
      <4>2. /\ IsFiniteSet(Counting(t) \union {b})
            /\ Cardinality(Counting(t) \union {b}) \in
                 {Cardinality(Counting(t)), Cardinality(Counting(t)) + 1}
        BY <4>1, FS_AddElement
      <4> QED BY <4>1, <4>2
    <3>4. Cardinality(Counting(t)') <= Cardinality(Counting(t)) + 1
          /\ Cardinality(Counting(t)') \in Nat
      BY <1>2, <3>1, <3>3, CountsAreFinite, FS_Subset, FS_CardinalityType
    <3>5. Cardinality(Admitted(t)') = Cardinality(Admitted(t)) - 1
      BY <1>2, <3>2, CountsAreFinite, FS_RemoveElement
    <3> QED BY <1>2, <2>0, <3>4, <3>5, CountsAreFinite, BranchAssumption
  <2> QED BY <2>1, <2>2
<1> QED BY <1>7 DEF Overshoot

\* The other steps add nothing.
LEMMA OthersBounded ==
  ASSUME IsFiniteSet(Ops), BranchInv, Overshoot, NEW o \in Ops,
         \/ GetBranchBySlug(o) \/ Abandon(o) \/ CreateDatabase(o) \/ WriteStatus(o)
         \/ MarkBranch(o) \/ DropDatabase(o) \/ DeleteRow(o)
         \/ RecordBranch(o) /\ ~SlugIsFree(operation[o].name)
         \/ \E b \in Branches : GetBranch(o, b, "delete") \/ GetBranch(o, b, "reset")
  PROVE  Overshoot'
<1> DEFINE b == operation[o].row
<1>1. name' = name
  BY DEF GetBranchBySlug, Abandon, CreateDatabase, WriteStatus, MarkBranch, DropDatabase,
         DeleteRow, RecordBranch, GetBranch
<1>2. \/ status' = status
      \/ /\ Working(o) /\ \E s \in BranchStatuses \ {"none"} : status' = [status EXCEPT ![b] = s]
  BY DEF GetBranchBySlug, Abandon, CreateDatabase, WriteStatus, MarkBranch, DropDatabase,
         DeleteRow, RecordBranch, GetBranch, BranchInv, OperationsWork, BranchStatuses
<1>3. Recorded' = Recorded /\ \A c \in Recorded : c # b => status'[c] = status[c]
  BY <1>2 DEF Recorded, BranchInv, BranchTyped, OperationsWork, BranchStatuses
<1>4. CASE \E c \in Branches : GetBranch(o, c, "delete") \/ GetBranch(o, c, "reset")
  <2>1. PICK c \in Branches, does \in {"delete", "reset"} : GetBranch(o, c, does)
    BY <1>4
  <2> DEFINE w == [at |-> "begin", does |-> does, name |-> name[c], row |-> c]
  <2>2. Becomes(o, w) /\ w.row \in Live /\ w.at = "begin"
    BY <2>1 DEF GetBranch, Begin, Becomes, AnOperation, Live, BranchInv, BranchTyped
  <2>3. w.at \notin {"lookup", "insert"}
    BY <2>2
  <2> HIDE DEF w
  <2> QED BY <1>1, <1>3, <2>2, <2>3, OneOperationBounded DEF b
<1>5. ASSUME NEW at \in {"insert", "clone", "ready", "failed", "drop", "dropped"}, Step(o, at),
             at = "insert" => operation[o].at = "lookup"
      PROVE  Overshoot'
  <2> DEFINE w == [operation[o] EXCEPT !.at = at]
  <2>1. Becomes(o, w)
    BY <1>5, StepOrRest DEF BranchInv
  <2>2. w.row = b /\ w.at = at /\ w.name = operation[o].name
    BY DEF BranchInv, BranchTyped, AnOperation
  <2>3. w.at \in {"lookup", "insert"} => operation[o].at \in {"lookup", "insert"}
    BY <1>5, <2>2
  <2> HIDE DEF w
  <2> QED BY <1>1, <1>3, <2>1, <2>2, <2>3, OneOperationBounded DEF b
<1>6. ASSUME Rest(o) PROVE Overshoot'
  <2>1. Becomes(o, Resting) /\ Resting.row = NoRow /\ Resting.at = "idle"
    BY <1>6, StepOrRest DEF BranchInv, Resting
  <2>2. Resting.at \notin {"lookup", "insert"}
    BY <2>1
  <2> QED BY <1>1, <1>3, <2>1, <2>2, OneOperationBounded DEF b
<1>7. \/ \E c \in Branches : GetBranch(o, c, "delete") \/ GetBranch(o, c, "reset")
      \/ \E at \in {"insert", "clone", "ready", "failed", "drop", "dropped"} :
           Step(o, at) /\ (at = "insert" => operation[o].at = "lookup")
      \/ Rest(o)
  BY DEF GetBranchBySlug, Abandon, CreateDatabase, WriteStatus, MarkBranch, DropDatabase,
         DeleteRow, RecordBranch
<1> QED BY <1>4, <1>5, <1>6, <1>7

\* A tenant exceeds its limit by fewer branches than operations run at once.
THEOREM OvershootIsBounded ==
  ASSUME IsFiniteSet(Ops) PROVE BranchSpec => []OvershootBounded
<1>1. BranchInit => BranchInv /\ Overshoot
  <2> SUFFICES ASSUME BranchInit PROVE Overshoot
    BY BranchStarts
  <2>1. \A t \in Tenants : Counting(t) = {} /\ Admitted(t) = {}
    BY DEF BranchInit, Counting, Admitted, Recorded, Resting
  <2>2. Cardinality({}) = 0 /\ Cardinality(Ops) \in Nat
    BY FS_EmptySet, FS_CardinalityType
  <2>3. 0 + 0 < MaxBranches + Cardinality(Ops)
    BY <2>2, BranchAssumption
  <2> QED BY <2>1, <2>2, <2>3 DEF Overshoot
<1>2. BranchInv /\ Overshoot /\ [BranchNext]_branchVars => BranchInv' /\ Overshoot'
  <2> SUFFICES ASSUME BranchInv, Overshoot, [BranchNext]_branchVars PROVE Overshoot'
    BY BranchSteps
  <2>1. CASE BranchNext
    BY <2>1, AdmissionBounded, RecordBounded, OthersBounded DEF BranchNext
  <2>2. CASE UNCHANGED branchVars
    BY <2>2 DEF branchVars, Overshoot, Counting, Admitted, Recorded
  <2> QED BY <2>1, <2>2
<1>3. BranchInv /\ Overshoot => OvershootBounded
  <2> SUFFICES ASSUME BranchInv, Overshoot, NEW t \in Tenants
               PROVE  Cardinality({b \in Live : TenantOf[name[b]] = t})
                        < MaxBranches + Cardinality(Ops)
    BY DEF OvershootBounded
  <2>1. {b \in Live : TenantOf[name[b]] = t} \subseteq Counting(t)
    BY DEF Live, Counting
  <2>2. BranchTyped /\ Cardinality(Counting(t)) + Cardinality(Admitted(t)) < MaxBranches + Cardinality(Ops)
    BY DEF BranchInv, Overshoot
  <2> QED BY <2>1, <2>2, CountsAreFinite, FS_Subset, FS_CardinalityType, BranchAssumption
<1> QED BY <1>1, <1>2, <1>3, PTL DEF BranchSpec

(***************************************************************************)
(* TenantDatabases: tenants and databases match, and a deletion takes the  *)
(* pool along.                                                             *)
(***************************************************************************)

\* What a call is doing, for which id and slug.
ATenantCall ==
    [at : {"idle", "insert", "createdb", "provision", "rollback", "activate", "failed",
           "softdelete", "unpool", "drop", "remove", "open"},
     does : {"none", "create", "soft", "hard", "pool"},
     id : Ids \union {NoId}, slug : Slugs \union {NoSlug}]

CallsTyped == tenantCall \in [TenantCalls -> ATenantCall]
TurnsTo(c, r) == r \in ATenantCall /\ tenantCall' = [tenantCall EXCEPT ![c] = r]

\* What a call does next, and that the others stay as they are.
LEMMA OneCallTurns ==
  ASSUME CallsTyped, NEW c \in TenantCalls, NEW r, TurnsTo(c, r)
  PROVE  /\ CallsTyped' /\ tenantCall'[c] = r
         /\ \A d \in TenantCalls : d # c => tenantCall'[d] = tenantCall[d]
BY DEF CallsTyped, TurnsTo

\* A call that goes on, or is answered.
LEMMA ToOrAnswer ==
  ASSUME CallsTyped, NEW c \in TenantCalls
  PROVE  /\ Answer(c) => TurnsTo(c, Free)
         /\ \A at \in {"provision", "rollback", "activate", "failed", "unpool", "drop", "remove"} :
              To(c, at) => /\ TurnsTo(c, [tenantCall[c] EXCEPT !.at = at])
                           /\ [tenantCall[c] EXCEPT !.at = at].at = at
                           /\ [tenantCall[c] EXCEPT !.at = at].does = tenantCall[c].does
                           /\ [tenantCall[c] EXCEPT !.at = at].id = tenantCall[c].id
                           /\ [tenantCall[c] EXCEPT !.at = at].slug = tenantCall[c].slug
<1>1. Free \in ATenantCall
  BY DEF Free, ATenantCall
<1>2. ASSUME NEW at \in {"provision", "rollback", "activate", "failed", "unpool", "drop", "remove"}
      PROVE  /\ [tenantCall[c] EXCEPT !.at = at] \in ATenantCall
             /\ [tenantCall[c] EXCEPT !.at = at].at = at
             /\ [tenantCall[c] EXCEPT !.at = at].does = tenantCall[c].does
             /\ [tenantCall[c] EXCEPT !.at = at].id = tenantCall[c].id
             /\ [tenantCall[c] EXCEPT !.at = at].slug = tenantCall[c].slug
  BY DEF CallsTyped, ATenantCall
<1>3. ASSUME NEW at \in {"provision", "rollback", "activate", "failed", "unpool", "drop", "remove"},
             To(c, at)
      PROVE  tenantCall' = [tenantCall EXCEPT ![c] = [tenantCall[c] EXCEPT !.at = at]]
  BY <1>3 DEF To, CallsTyped, ATenantCall
<1> QED BY <1>1, <1>2, <1>3 DEF Answer, TurnsTo

(***************************************************************************)
(* The invariant.                                                          *)
(***************************************************************************)
Given(t) == t \in 1..lastId

Creating(c) ==
    /\ tenantCall[c].does = "create"
    /\ tenantCall[c].at \in {"createdb", "provision", "rollback", "activate", "failed", "remove"}
Deleting(c) ==
    tenantCall[c].does = "hard" /\ tenantCall[c].at \in {"unpool", "drop", "failed", "remove"}

RowsTyped ==
    /\ slug \in [Ids -> Slugs \union {NoSlug}]
    /\ tstatus \in [Ids -> {"none", "creating", "active", "error", "deleting"}]
    /\ lastId \in 0..MaxIds /\ tenantDbs \subseteq Slugs /\ CallsTyped
    /\ \A t \in Kept \union softDeleted \union sound : Given(t)

\* The calls that have an id have it from a row, whose slug they know for as long as it is
\* there, and the stages belong to what the call does.
CallKnows(c) ==
    /\ Creating(c) \/ Deleting(c) => tenantCall[c].id # NoId /\ tenantCall[c].slug \in Slugs
    /\ tenantCall[c].id # NoId => Given(tenantCall[c].id)
    /\ tenantCall[c].id \in Kept => tenantCall[c].slug = slug[tenantCall[c].id]
    /\ tenantCall[c].at = "softdelete" => tenantCall[c].does \in {"soft", "hard"}
    /\ tenantCall[c].at \in {"createdb", "provision", "rollback", "activate"} => Creating(c)
    /\ tenantCall[c].at \in {"failed", "remove"} => Creating(c) \/ Deleting(c)
    /\ tenantCall[c].at = "drop" => Deleting(c)
    /\ tenantCall[c].at = "insert" => tenantCall[c].does = "create" /\ tenantCall[c].slug \in Slugs
    /\ tenantCall[c].does = "create" /\ tenantCall[c].id # NoId => Creating(c)
CallsKnow == \A c \in TenantCalls : CallKnows(c)

\* A tenant has one creation, and one hard deletion as long as it is not muddled.
OneEach ==
    \A c, d \in TenantCalls : c # d /\ tenantCall[c].id = tenantCall[d].id =>
      /\ ~(Creating(c) /\ Creating(d))
      /\ Deleting(c) /\ Deleting(d) => tenantCall[c].slug \in muddled

\* What a creation and a hard deletion may rely on when nobody muddled the tenant.
CreationsKnow ==
    \A c \in TenantCalls : Creating(c) /\ tenantCall[c].slug \notin muddled =>
      /\ tenantCall[c].id \in Seen \ sound
      /\ tenantCall[c].at \in {"provision", "activate"} => tenantCall[c].slug \in tenantDbs
      /\ tenantCall[c].at \in {"createdb", "remove"} => tenantCall[c].slug \notin tenantDbs
DeletionsKnow ==
    \A c \in TenantCalls : Deleting(c) /\ tenantCall[c].slug \notin muddled =>
      /\ tenantCall[c].id \in (Kept \intersect softDeleted) \ sound
      /\ tenantCall[c].at = "remove" => tenantCall[c].slug \notin tenantDbs

\* A tenant that was activated, and has not been hard deleted, has its database: a
\* recovery may rely on it.
SoundHaveDatabases == \A t \in Kept \intersect sound : slug[t] \in tenantDbs \union muddled
ActiveAreSound == \A t \in Kept : tstatus[t] = "active" => t \in sound \/ slug[t] \in muddled

TenantInv ==
    /\ RowsTyped /\ CallsKnow /\ OneEach /\ CreationsKnow /\ DeletionsKnow
    /\ SoundHaveDatabases /\ ActiveAreSound /\ DatabaseHasTenant /\ OneTenantPerDatabase

\* Two calls that create or delete never work on one slug that is not muddled, and the slug
\* has no other tenant.
LEMMA Exclusive ==
  ASSUME TenantInv, NEW c \in TenantCalls, Creating(c) \/ Deleting(c),
         tenantCall[c].slug \notin muddled
  PROVE  /\ tenantCall[c].id \in Kept /\ slug[tenantCall[c].id] = tenantCall[c].slug
         /\ tenantCall[c].slug \in Slugs /\ tenantCall[c].id \notin sound
         /\ Creating(c) => tenantCall[c].id \notin softDeleted
         /\ Deleting(c) => tenantCall[c].id \in softDeleted
         /\ \A t \in Kept : slug[t] = tenantCall[c].slug => t = tenantCall[c].id
         /\ \A d \in TenantCalls : d # c /\ (Creating(d) \/ Deleting(d)) =>
              tenantCall[d].slug # tenantCall[c].slug
<1>1. \A d \in TenantCalls : (Creating(d) \/ Deleting(d)) /\ tenantCall[d].slug \notin muddled =>
        /\ tenantCall[d].id \in Kept /\ slug[tenantCall[d].id] = tenantCall[d].slug
        /\ Creating(d) => tenantCall[d].id \notin softDeleted
        /\ Deleting(d) => tenantCall[d].id \in softDeleted
        /\ tenantCall[d].id \notin sound
  BY DEF TenantInv, CreationsKnow, DeletionsKnow, CallsKnow, CallKnows, Seen
<1>2. tenantCall[c].slug \in Slugs
  BY <1>1 DEF TenantInv, RowsTyped, Kept
<1>3. \A t \in Kept : slug[t] = tenantCall[c].slug => t = tenantCall[c].id
  BY <1>1 DEF TenantInv, OneTenantPerDatabase
<1>4. ASSUME NEW d \in TenantCalls, d # c, Creating(d) \/ Deleting(d),
             tenantCall[d].slug = tenantCall[c].slug
      PROVE  FALSE
  <2>1. tenantCall[d].id = tenantCall[c].id
    BY <1>1, <1>3, <1>4
  <2> QED BY <1>1, <1>4, <2>1 DEF TenantInv, OneEach
<1> QED BY <1>1, <1>2, <1>3, <1>4

\* Initially there is no tenant but those that need no row.
LEMMA TenantStarts == TenantInit => TenantInv
<1> SUFFICES ASSUME TenantInit PROVE TenantInv
  OBVIOUS
<1>1. Kept = {} /\ sound = {} /\ tenantDbs = {}
  BY DEF TenantInit, Kept
<1>2. \A c \in TenantCalls : /\ tenantCall[c].at = "idle" /\ tenantCall[c].does = "none"
                             /\ tenantCall[c].id = NoId
  BY DEF TenantInit, Free
<1>3. RowsTyped
  BY <1>1, TenantAssumption DEF TenantInit, RowsTyped, CallsTyped, ATenantCall, Free
<1>4. CallsKnow /\ OneEach /\ CreationsKnow /\ DeletionsKnow
  BY <1>1, <1>2 DEF CallsKnow, CallKnows, OneEach, CreationsKnow, DeletionsKnow, Creating, Deleting
<1>5. SoundHaveDatabases /\ ActiveAreSound /\ DatabaseHasTenant /\ OneTenantPerDatabase
  BY <1>1 DEF SoundHaveDatabases, ActiveAreSound, DatabaseHasTenant, OneTenantPerDatabase
<1> QED BY <1>3, <1>4, <1>5 DEF TenantInv

\* A call goes on to r.  It may change the status of its own tenant and the database of its
\* own slug, and what it then relies on holds.
LEMMA CallGoesOn ==
  ASSUME TenantInv, NEW c \in TenantCalls, NEW r, TurnsTo(c, r),
         UNCHANGED <<slug, softDeleted, lastId, sound, muddled>>,
         tstatus' \in [Ids -> {"none", "creating", "active", "error", "deleting"}],
         \A t \in Ids : tstatus'[t] = "active" => tstatus[t] = "active",
         CallKnows(c)',
         Creating(c)' => Creating(c) /\ r.id = tenantCall[c].id /\ r.slug = tenantCall[c].slug,
         Deleting(c)' => Deleting(c) /\ r.id = tenantCall[c].id /\ r.slug = tenantCall[c].slug,
         tenantDbs' \subseteq Slugs,
         \/ tenantDbs' = tenantDbs
         \/ /\ Creating(c) \/ Deleting(c)
            /\ \A s \in Slugs \ {tenantCall[c].slug} : s \in tenantDbs' <=> s \in tenantDbs,
         tenantCall[c].slug \notin muddled =>
           /\ Creating(c)' /\ r.at \in {"provision", "activate"} => r.slug \in tenantDbs'
           /\ Creating(c)' /\ r.at \in {"createdb", "remove"} => r.slug \notin tenantDbs'
           /\ Deleting(c)' /\ r.at = "remove" => r.slug \notin tenantDbs'
  PROVE  TenantInv'
<1>1. /\ CallsTyped' /\ tenantCall'[c] = r
      /\ \A d \in TenantCalls : d # c => tenantCall'[d] = tenantCall[d]
  BY OneCallTurns DEF TenantInv, RowsTyped
<1>2. Kept' = Kept /\ Seen' = Seen /\ (\A t : Given(t)' <=> Given(t))
  BY DEF Kept, Seen, Given
<1>3. \A d \in TenantCalls : d # c =>
        (Creating(d)' <=> Creating(d)) /\ (Deleting(d)' <=> Deleting(d))
  BY <1>1 DEF Creating, Deleting
<1>4. RowsTyped' /\ OneTenantPerDatabase'
  BY <1>1, <1>2 DEF TenantInv, RowsTyped, OneTenantPerDatabase
<1>5. CallsKnow'
  <2> SUFFICES ASSUME NEW d \in TenantCalls, d # c PROVE CallKnows(d)'
    BY DEF CallsKnow
  <2>1. CallKnows(d)
    BY DEF TenantInv, CallsKnow
  <2> QED BY <1>1, <1>2, <1>3, <2>1 DEF CallKnows
<1>6. OneEach'
  BY <1>1, <1>3 DEF TenantInv, OneEach
<1>7. \A s \in Slugs : s \notin muddled /\ (s # tenantCall[c].slug \/ tenantDbs' = tenantDbs)
                       => (s \in tenantDbs' <=> s \in tenantDbs)
  OBVIOUS
<1>8. ASSUME NEW d \in TenantCalls, d # c, Creating(d) \/ Deleting(d),
             tenantCall[d].slug \notin muddled
      PROVE  tenantCall[d].slug \in tenantDbs' <=> tenantCall[d].slug \in tenantDbs
  <2>1. tenantCall[d].slug \in Slugs /\ (Creating(c) \/ Deleting(c) =>
                                           tenantCall[c].slug # tenantCall[d].slug)
    BY <1>8, Exclusive
  <2> QED BY <2>1
<1>9. CreationsKnow'
  <2> SUFFICES ASSUME NEW d \in TenantCalls, Creating(d)', tenantCall'[d].slug \notin muddled
               PROVE  /\ tenantCall'[d].id \in Seen \ sound
                      /\ tenantCall'[d].at \in {"provision", "activate"} => tenantCall'[d].slug \in tenantDbs'
                      /\ tenantCall'[d].at \in {"createdb", "remove"} => tenantCall'[d].slug \notin tenantDbs'
    BY <1>2 DEF CreationsKnow
  <2>1. CASE d = c
    BY <1>1, <2>1 DEF TenantInv, CreationsKnow
  <2>2. CASE d # c
    BY <1>1, <1>3, <1>8, <2>2 DEF TenantInv, CreationsKnow
  <2> QED BY <2>1, <2>2
<1>10. DeletionsKnow'
  <2> SUFFICES ASSUME NEW d \in TenantCalls, Deleting(d)', tenantCall'[d].slug \notin muddled
               PROVE  /\ tenantCall'[d].id \in (Kept \intersect softDeleted) \ sound
                      /\ tenantCall'[d].at = "remove" => tenantCall'[d].slug \notin tenantDbs'
    BY <1>2 DEF DeletionsKnow
  <2>1. CASE d = c
    BY <1>1, <2>1 DEF TenantInv, DeletionsKnow
  <2>2. CASE d # c
    BY <1>1, <1>3, <1>8, <2>2 DEF TenantInv, DeletionsKnow
  <2> QED BY <2>1, <2>2
<1>11. SoundHaveDatabases'
  <2> SUFFICES ASSUME NEW t \in Kept \intersect sound, slug[t] \notin muddled
               PROVE  slug[t] \in tenantDbs'
    BY <1>2 DEF SoundHaveDatabases
  <2>1. slug[t] \in Slugs /\ slug[t] \in tenantDbs
    BY DEF TenantInv, RowsTyped, Kept, SoundHaveDatabases
  <2>2. Creating(c) \/ Deleting(c) => slug[t] # tenantCall[c].slug
    BY Exclusive
  <2> QED BY <2>1, <2>2
<1>12. ActiveAreSound'
  BY <1>2 DEF TenantInv, ActiveAreSound, Kept
<1>13. DatabaseHasTenant'
  <2> SUFFICES ASSUME NEW s \in tenantDbs', s \notin muddled PROVE \E t \in Kept : slug[t] = s
    BY <1>2 DEF DatabaseHasTenant
  <2>1. CASE s \in tenantDbs
    BY <2>1 DEF TenantInv, DatabaseHasTenant
  <2>2. CASE s \notin tenantDbs
    <3>1. s = tenantCall[c].slug /\ (Creating(c) \/ Deleting(c))
      BY <2>2
    <3> QED BY <3>1, Exclusive
  <2> QED BY <2>1, <2>2
<1> QED BY <1>4, <1>5, <1>6, <1>9, <1>10, <1>11, <1>12, <1>13 DEF TenantInv

\* A call goes to another stage, or is answered.
LEMMA CallMoves ==
  ASSUME TenantInv, NEW c \in TenantCalls,
         NEW at \in {"provision", "rollback", "activate", "failed", "drop", "remove", "answered"},
         IF at = "answered" THEN Answer(c) ELSE To(c, at),
         UNCHANGED <<slug, softDeleted, lastId, sound, muddled>>,
         tstatus' \in [Ids -> {"none", "creating", "active", "error", "deleting"}],
         \A t \in Ids : tstatus'[t] = "active" => tstatus[t] = "active",
         at \in {"provision", "rollback", "activate"} => Creating(c),
         at \in {"failed", "remove"} => Creating(c) \/ Deleting(c),
         at = "drop" => Deleting(c),
         tenantDbs' \subseteq Slugs,
         \/ tenantDbs' = tenantDbs
         \/ /\ Creating(c) \/ Deleting(c)
            /\ \A s \in Slugs \ {tenantCall[c].slug} : s \in tenantDbs' <=> s \in tenantDbs,
         tenantCall[c].slug \notin muddled =>
           /\ at \in {"provision", "activate"} => tenantCall[c].slug \in tenantDbs'
           /\ at = "remove" => tenantCall[c].slug \notin tenantDbs'
  PROVE  TenantInv'
<1>1. CallsTyped /\ CallKnows(c)
  BY DEF TenantInv, RowsTyped, CallsKnow
<1>2. CASE at = "answered"
  <2>1. TurnsTo(c, Free)
    BY <1>1, <1>2, ToOrAnswer
  <2>2. tenantCall'[c] = Free
    BY <1>1, <2>1, OneCallTurns
  <2>3. ~Creating(c)' /\ ~Deleting(c)'
    BY <2>2 DEF Creating, Deleting, Free
  <2>4. CallKnows(c)'
    BY <2>2, <2>3 DEF CallKnows, Free, Kept, Ids, NoId
  <2> QED BY <2>1, <2>3, <2>4, CallGoesOn
<1>3. CASE at # "answered"
  <2> DEFINE r == [tenantCall[c] EXCEPT !.at = at]
  <2>1. TurnsTo(c, r) /\ r.at = at /\ r.does = tenantCall[c].does
        /\ r.id = tenantCall[c].id /\ r.slug = tenantCall[c].slug
    <3>1. To(c, at)
          /\ at \in {"provision", "rollback", "activate", "failed", "unpool", "drop", "remove"}
      BY <1>3
    <3> QED BY <1>1, <3>1, ToOrAnswer
  <2> HIDE DEF r
  <2>2. tenantCall'[c] = r
    BY <1>1, <2>1, OneCallTurns
  <2>3. /\ Creating(c)' => tenantCall[c].does = "create"
        /\ Deleting(c)' => tenantCall[c].does = "hard" /\ at \in {"drop", "failed", "remove"}
    BY <1>3, <2>1, <2>2 DEF Creating, Deleting
  <2>4. at \in {"provision", "rollback", "activate"} => Creating(c)'
    BY <1>3, <2>1, <2>2 DEF Creating
  <2>5. /\ at \in {"failed", "remove"} => Creating(c)' \/ Deleting(c)'
        /\ at = "drop" => Deleting(c)'
        /\ Creating(c) /\ at # "drop" => Creating(c)'
    BY <1>3, <2>1, <2>2 DEF Creating, Deleting
  <2>6. /\ Creating(c)' => Creating(c)
        /\ Deleting(c)' => Deleting(c)
    BY <1>3, <2>1, <2>2, <2>3 DEF Creating, Deleting
  <2>7. CallKnows(c)'
    <3>1. Creating(c) /\ at = "drop" => FALSE
      BY DEF Creating, Deleting
    <3>2. Creating(c) => Creating(c)'
      BY <2>5, <3>1
    <3>3. Kept' = Kept /\ lastId' = lastId /\ slug' = slug
      BY DEF Kept
    <3>5. Creating(c)' \/ Deleting(c)' => r.id # NoId /\ r.slug \in Slugs
      BY <1>1, <2>1, <2>6 DEF CallKnows
    <3>6. tenantCall'[c].id # NoId => Given(tenantCall[c].id)'
      BY <1>1, <2>1, <2>2, <3>3 DEF CallKnows, Given
    <3>4. r.does = "create" /\ r.id # NoId => Creating(c)'
      BY <1>1, <2>1, <3>2 DEF CallKnows
    <3> QED BY <1>1, <1>3, <2>1, <2>2, <2>4, <2>5, <3>3, <3>4, <3>5, <3>6 DEF CallKnows, Given
  <2> QED BY <1>3, <2>1, <2>6, <2>7, CallGoesOn
<1> QED BY <1>2, <1>3

\* A call begins: a creation without an id, a deletion or a pool with a tenant that is seen.
LEMMA CallBegins ==
  ASSUME TenantInv, NEW c \in TenantCalls,
         \/ \E s \in Slugs : CheckMaxTenants(c, s)
         \/ \E t \in Ids : GetTenant(c, t, "soft") \/ GetTenant(c, t, "hard") \/ GetPool(c, t)
  PROVE  TenantInv'
<1>1. UNCHANGED <<slug, tstatus, softDeleted, lastId, tenantDbs, sound, muddled>>
  BY DEF CheckMaxTenants, GetTenant, GetPool, tenantRow
<1>2. PICK r \in ATenantCall :
        /\ Serve(c, r)
        /\ \/ r.at = "insert" /\ r.does = "create" /\ r.id = NoId /\ r.slug \in Slugs
           \/ /\ r.at = "softdelete" /\ r.does \in {"soft", "hard"}
              /\ r.id \in Seen /\ r.slug = slug[r.id]
           \/ r.at = "open" /\ r.does = "pool" /\ r.id \in Seen /\ r.slug = slug[r.id]
  <2>1. ASSUME NEW s \in Slugs, CheckMaxTenants(c, s)
        PROVE  \E r \in ATenantCall :
                 Serve(c, r) /\ r.at = "insert" /\ r.does = "create" /\ r.id = NoId /\ r.slug \in Slugs
    <3> DEFINE r == [at |-> "insert", does |-> "create", id |-> NoId, slug |-> s]
    <3>1. r \in ATenantCall /\ Serve(c, r)
      BY <2>1 DEF CheckMaxTenants, ATenantCall
    <3> QED BY <3>1
  <2>2. ASSUME NEW t \in Ids, NEW does \in {"soft", "hard"}, GetTenant(c, t, does)
        PROVE  \E r \in ATenantCall :
                 /\ Serve(c, r) /\ r.at = "softdelete" /\ r.does \in {"soft", "hard"}
                 /\ r.id \in Seen /\ r.slug = slug[r.id]
    <3> DEFINE r == [at |-> "softdelete", does |-> does, id |-> t, slug |-> slug[t]]
    <3>1. r \in ATenantCall /\ Serve(c, r) /\ t \in Seen
      BY <2>2 DEF GetTenant, ATenantCall, TenantInv, RowsTyped
    <3> QED BY <3>1
  <2>3. ASSUME NEW t \in Ids, GetPool(c, t)
        PROVE  \E r \in ATenantCall :
                 Serve(c, r) /\ r.at = "open" /\ r.does = "pool" /\ r.id \in Seen /\ r.slug = slug[r.id]
    <3> DEFINE r == [at |-> "open", does |-> "pool", id |-> t, slug |-> slug[t]]
    <3>1. r \in ATenantCall /\ Serve(c, r) /\ t \in Seen
      BY <2>3 DEF GetPool, ATenantCall, TenantInv, RowsTyped
    <3> QED BY <3>1
  <2> QED BY <2>1, <2>2, <2>3
<1>3. TurnsTo(c, r) /\ CallsTyped
  BY <1>2 DEF Serve, TurnsTo, TenantInv, RowsTyped
<1>4. tenantCall'[c] = r
  BY <1>3, OneCallTurns
<1>5. ~Creating(c)' /\ ~Deleting(c)'
  BY <1>2, <1>4 DEF Creating, Deleting
<1>6. CallKnows(c)'
  <2>1. Kept' = Kept /\ (Given(r.id)' <=> Given(r.id)) /\ NoId \notin Kept
    BY <1>1 DEF Kept, Given, Ids, NoId
  <2>2. r.id # NoId => Given(r.id) /\ r.slug = slug[r.id]
    BY <1>2, <2>1 DEF Seen, TenantInv, RowsTyped
  <2> QED BY <1>1, <1>2, <1>4, <1>5, <2>1, <2>2 DEF CallKnows
<1> QED BY <1>1, <1>3, <1>5, <1>6, CallGoesOn DEF TenantInv, RowsTyped

\* The status of a failure is never the one of an active tenant.
LEMMA ErrorIsWritten ==
  ASSUME TenantInv, NEW t, WriteTenantStatus(t, "error")
  PROVE  /\ tstatus' \in [Ids -> {"none", "creating", "active", "error", "deleting"}]
         /\ \A u \in Ids : tstatus'[u] = "active" => tstatus[u] = "active"
BY DEF TenantInv, RowsTyped, WriteTenantStatus

\* The steps of the calls that move on within their own tenant.
LEMMA StageSteps ==
  ASSUME TenantInv, NEW c \in TenantCalls,
         \/ CreateTenantDb(c) \/ Provision(c) \/ RollbackTenantDatabase(c)
         \/ RemovePool(c) \/ DropTenantDb(c) \/ OpenPool(c) \/ Drop(c)
  PROVE  TenantInv'
<1>1. UNCHANGED <<slug, softDeleted, lastId, sound, muddled>>
  BY DEF CreateTenantDb, Provision, RollbackTenantDatabase, RemovePool, DropTenantDb, OpenPool,
         Drop, tenantRow
<1>2. /\ CallKnows(c) /\ tenantDbs \subseteq Slugs
      /\ tstatus \in [Ids -> {"none", "creating", "active", "error", "deleting"}]
  BY DEF TenantInv, CallsKnow, RowsTyped
<1>3. CASE Provision(c) \/ RemovePool(c) \/ OpenPool(c) \/ Drop(c)
  <2>1. tstatus' = tstatus /\ tenantDbs' = tenantDbs
    BY <1>3 DEF Provision, RemovePool, OpenPool, Drop, tenantRow
  <2>2. PICK at \in {"activate", "rollback", "failed", "drop", "answered"} :
          /\ IF at = "answered" THEN Answer(c) ELSE To(c, at)
          /\ at \in {"activate", "rollback", "failed"} => tenantCall[c].at = "provision"
          /\ at = "drop" => tenantCall[c].at = "unpool" /\ tenantCall[c].does = "hard"
    BY <1>3 DEF Provision, RemovePool, OpenPool, Drop
  <2>3. /\ at \in {"activate", "rollback", "failed"} => Creating(c)
        /\ at = "drop" => Deleting(c)
    BY <1>2, <2>2 DEF CallKnows, Deleting
  <2>4. tenantCall[c].slug \notin muddled /\ at = "activate" => tenantCall[c].slug \in tenantDbs
    BY <2>2, <2>3 DEF TenantInv, CreationsKnow
  <2> QED BY <1>1, <1>2, <2>1, <2>2, <2>3, <2>4, CallMoves
<1>4. CASE CreateTenantDb(c)
  <2>1. Creating(c) /\ tenantCall[c].at = "createdb"
    BY <1>2, <1>4 DEF CreateTenantDb, CallKnows
  <2>2. tenantCall[c].slug \notin muddled =>
          tenantCall[c].slug \in Slugs /\ tenantCall[c].slug \notin tenantDbs
    BY <2>1, Exclusive DEF TenantInv, CreationsKnow
  <2>3. tenantCall[c].slug \in Slugs
    BY <1>2, <2>1 DEF CallKnows
  <2>4. CASE /\ To(c, "provision") /\ tstatus' = tstatus
             /\ tenantDbs' = tenantDbs \union {tenantCall[c].slug}
    BY <1>1, <1>2, <2>1, <2>3, <2>4, CallMoves
  <2>5. CASE /\ To(c, "remove") /\ WriteTenantStatus(tenantCall[c].id, "error")
             /\ tenantDbs' = tenantDbs
    <3>1. /\ tstatus' \in [Ids -> {"none", "creating", "active", "error", "deleting"}]
          /\ \A t \in Ids : tstatus'[t] = "active" => tstatus[t] = "active"
      BY <2>5, ErrorIsWritten
    <3> QED BY <1>1, <1>2, <2>1, <2>2, <2>5, <3>1, CallMoves
  <2> QED BY <1>4, <2>4, <2>5 DEF CreateTenantDb
<1>5. CASE RollbackTenantDatabase(c)
  <2>1. /\ tenantCall[c].at = "rollback" /\ Creating(c) /\ To(c, "failed") /\ tstatus' = tstatus
        /\ tenantDbs' = tenantDbs \ {tenantCall[c].slug} \/ tenantDbs' = tenantDbs
    BY <1>2, <1>5 DEF RollbackTenantDatabase, tenantRow, CallKnows
  <2>2. /\ tenantDbs' \subseteq Slugs
        /\ \A s \in Slugs \ {tenantCall[c].slug} : s \in tenantDbs' <=> s \in tenantDbs
    BY <1>2, <2>1
  <2> QED BY <1>1, <1>2, <2>1, <2>2, CallMoves
<1>6. CASE DropTenantDb(c)
  <2>1. /\ Deleting(c) /\ tstatus' = tstatus
        /\ \/ tenantDbs' = tenantDbs \ {tenantCall[c].slug} /\ To(c, "remove")
           \/ tenantDbs' = tenantDbs /\ To(c, "failed")
    BY <1>2, <1>6 DEF DropTenantDb, tenantRow, CallKnows
  <2>2. /\ tenantDbs' \subseteq Slugs
        /\ \A s \in Slugs \ {tenantCall[c].slug} : s \in tenantDbs' <=> s \in tenantDbs
    BY <1>2, <2>1
  <2> QED BY <1>1, <1>2, <2>1, <2>2, CallMoves
<1> QED BY <1>3, <1>4, <1>5, <1>6

\* The end of a creation, and of a hard deletion that failed.
LEMMA FinishStep ==
  ASSUME TenantInv, NEW c \in TenantCalls, FinishTenant(c)
  PROVE  TenantInv'
<1> DEFINE t == tenantCall[c].id
<1>1. /\ tenantCall[c].at \in {"activate", "failed"} /\ Answer(c)
      /\ UNCHANGED <<slug, softDeleted, lastId, tenantDbs, muddled>>
      /\ CallKnows(c) /\ tenantDbs \subseteq Slugs
  BY DEF FinishTenant, TenantInv, CallsKnow, RowsTyped
<1>2. CASE tenantCall[c].at = "failed"
  <2>1. sound' = sound /\ WriteTenantStatus(t, "error")
    BY <1>2 DEF FinishTenant
  <2>2. /\ tstatus' \in [Ids -> {"none", "creating", "active", "error", "deleting"}]
        /\ \A u \in Ids : tstatus'[u] = "active" => tstatus[u] = "active"
    BY <2>1, ErrorIsWritten
  <2> QED BY <1>1, <2>1, <2>2, CallMoves
<1>3. CASE tenantCall[c].at = "activate"
  <2>1. /\ sound' = sound \union {t} /\ WriteTenantStatus(t, "active")
        /\ Creating(c) /\ t # NoId /\ Given(t) /\ CallsTyped
    BY <1>1, <1>3 DEF FinishTenant, CallKnows, TenantInv, RowsTyped
  <2>2. TurnsTo(c, Free)
    BY <1>1, <2>1, ToOrAnswer
  <2>3. /\ CallsTyped' /\ tenantCall'[c] = Free
        /\ \A d \in TenantCalls : d # c => tenantCall'[d] = tenantCall[d]
    BY <2>1, <2>2, OneCallTurns
  <2>4. Kept' = Kept /\ Seen' = Seen /\ (\A u : Given(u)' <=> Given(u))
    BY <1>1 DEF Kept, Seen, Given
  <2>5. ~Creating(c)' /\ ~Deleting(c)'
    BY <2>3 DEF Creating, Deleting, Free
  <2>6. \A d \in TenantCalls : d # c =>
          (Creating(d)' <=> Creating(d)) /\ (Deleting(d)' <=> Deleting(d))
    BY <2>3 DEF Creating, Deleting
  <2>7. RowsTyped' /\ OneTenantPerDatabase' /\ DatabaseHasTenant'
    BY <1>1, <2>1, <2>3, <2>4
       DEF TenantInv, RowsTyped, OneTenantPerDatabase, DatabaseHasTenant, WriteTenantStatus
  <2>8. CallsKnow'
    <3> SUFFICES ASSUME NEW d \in TenantCalls PROVE CallKnows(d)'
      BY DEF CallsKnow
    <3>1. CASE d = c
      BY <2>3, <2>4, <2>5, <3>1 DEF CallKnows, Free, Kept, Ids, NoId
    <3>2. CASE d # c
      BY <1>1, <2>3, <2>4, <2>6, <3>2 DEF TenantInv, CallsKnow, CallKnows
    <3> QED BY <3>1, <3>2
  <2>9. OneEach'
    BY <1>1, <2>3, <2>5, <2>6 DEF TenantInv, OneEach
  <2>10. \A d \in TenantCalls :
           d # c /\ (Creating(d) \/ Deleting(d)) /\ tenantCall[d].slug \notin muddled
           => tenantCall[d].id # t
    <3> SUFFICES ASSUME NEW d \in TenantCalls, d # c, Creating(d) \/ Deleting(d),
                        tenantCall[d].slug \notin muddled, tenantCall[d].id = t
                 PROVE  FALSE
      OBVIOUS
    <3>1. t \in Kept /\ slug[t] = tenantCall[d].slug
      BY Exclusive
    <3>2. tenantCall[c].slug = slug[t]
      BY <1>1, <3>1 DEF CallKnows
    <3> QED BY <2>1, <3>1, <3>2, Exclusive
  <2>11. CreationsKnow' /\ DeletionsKnow'
    BY <1>1, <2>1, <2>3, <2>4, <2>5, <2>6, <2>10 DEF TenantInv, CreationsKnow, DeletionsKnow
  <2>12. SoundHaveDatabases'
    <3>1. t \in Kept => slug[t] \in tenantDbs \union muddled
      BY <1>1, <1>3, <2>1 DEF TenantInv, CreationsKnow, CallKnows
    <3> QED BY <1>1, <2>1, <2>4, <3>1 DEF TenantInv, SoundHaveDatabases
  <2>13. ActiveAreSound'
    BY <1>1, <2>1, <2>4 DEF TenantInv, ActiveAreSound, WriteTenantStatus, RowsTyped, Kept
  <2> QED BY <2>7, <2>8, <2>9, <2>11, <2>12, <2>13 DEF TenantInv
<1> QED BY <1>1, <1>2, <1>3

\* A tenant is recorded, under an id that no call has seen.
LEMMA CreateStep ==
  ASSUME TenantInv, NEW c \in TenantCalls, CreateTenant(c)
  PROVE  TenantInv'
<1> DEFINE s == tenantCall[c].slug
<1> PICK t : t = lastId + 1
  OBVIOUS
<1>1. /\ tenantCall[c].at = "insert" /\ UNCHANGED <<softDeleted, tenantDbs, sound, muddled>>
      /\ CallKnows(c) /\ CallsTyped /\ tenantDbs \subseteq Slugs
  BY DEF CreateTenant, TenantInv, CallsKnow, RowsTyped
<1>2. CASE ~SlugUnused(s)
  BY <1>1, <1>2, CallMoves DEF CreateTenant, TenantInv, RowsTyped
<1>3. CASE SlugUnused(s)
  <2> DEFINE r == [tenantCall[c] EXCEPT !.at = "createdb", !.id = t]
  <2>1. /\ t \in Ids /\ lastId' = t /\ slug' = [slug EXCEPT ![t] = s]
        /\ tstatus' = [tstatus EXCEPT ![t] = "creating"]
        /\ tenantCall' = [tenantCall EXCEPT ![c].at = "createdb", ![c].id = t]
    BY <1>3 DEF CreateTenant
  <2>2. s \in Slugs /\ tenantCall[c].does = "create" /\ lastId \in Nat /\ t # NoId
    BY <1>1, <2>1 DEF CallKnows, TenantInv, RowsTyped, Ids, NoId
  <2>3. r \in ATenantCall /\ r.at = "createdb" /\ r.id = t /\ r.slug = s /\ r.does = "create"
    BY <1>1, <2>1, <2>2 DEF CallsTyped, ATenantCall
  <2>4. tenantCall' = [tenantCall EXCEPT ![c] = r]
    BY <1>1, <2>1 DEF CallsTyped, ATenantCall
  <2> HIDE DEF r
  <2>5. /\ CallsTyped' /\ tenantCall'[c] = r
        /\ \A d \in TenantCalls : d # c => tenantCall'[d] = tenantCall[d]
    BY <1>1, <2>3, <2>4, OneCallTurns DEF TurnsTo
  <2>6. /\ \A u : Given(u) => Given(u)' /\ u # t
        /\ t \notin Kept /\ t \notin softDeleted /\ t \notin sound /\ Given(t)'
    BY <2>1, <2>2 DEF Given, TenantInv, RowsTyped
  <2>7. /\ slug' \in [Ids -> Slugs \union {NoSlug}] /\ slug'[t] = s
        /\ tstatus' \in [Ids -> {"none", "creating", "active", "error", "deleting"}]
        /\ tstatus'[t] = "creating"
        /\ \A u \in Ids : u # t => slug'[u] = slug[u] /\ tstatus'[u] = tstatus[u]
    BY <2>1, <2>2 DEF TenantInv, RowsTyped
  <2>8. Kept' = Kept \union {t} /\ Seen' = Seen \union {t}
    BY <1>1, <2>1, <2>2, <2>6, <2>7, TenantAssumption DEF Kept, Seen
  <2>9. Creating(c)' /\ ~Deleting(c)' /\ ~Creating(c) /\ ~Deleting(c)
    BY <1>1, <2>3, <2>5 DEF Creating, Deleting
  <2>10. \A d \in TenantCalls : d # c =>
           /\ Creating(d)' <=> Creating(d)
           /\ Deleting(d)' <=> Deleting(d)
           /\ tenantCall[d].id # t
    BY <2>2, <2>5, <2>6 DEF Creating, Deleting, TenantInv, CallsKnow, CallKnows
  <2>11. RowsTyped'
    BY <1>1, <2>1, <2>2, <2>5, <2>6, <2>7, <2>8 DEF TenantInv, RowsTyped, Ids
  <2>12. CallsKnow'
    <3> SUFFICES ASSUME NEW d \in TenantCalls PROVE CallKnows(d)'
      BY DEF CallsKnow
    <3>1. CASE d = c
      BY <2>2, <2>3, <2>5, <2>6, <2>7, <2>9, <3>1 DEF CallKnows
    <3>2. CASE d # c
      <4>1. /\ tenantCall'[d] = tenantCall[d] /\ CallKnows(d)
            /\ tenantCall[d].id \in Kept' => /\ tenantCall[d].id \in Kept
                                             /\ slug'[tenantCall[d].id] = slug[tenantCall[d].id]
        BY <2>5, <2>7, <2>8, <2>10, <3>2 DEF TenantInv, CallsKnow, Kept
      <4> QED BY <2>6, <2>10, <3>2, <4>1 DEF CallKnows
    <3> QED BY <3>1, <3>2
  <2>13. OneEach'
    BY <1>1, <2>3, <2>5, <2>9, <2>10 DEF TenantInv, OneEach
  <2>14. CreationsKnow'
    <3>1. s \notin muddled => s \notin tenantDbs
      BY <1>3 DEF TenantInv, DatabaseHasTenant, SlugUnused
    <3> QED BY <1>1, <2>3, <2>5, <2>6, <2>8, <2>10, <3>1 DEF TenantInv, CreationsKnow
  <2>15. DeletionsKnow'
    BY <1>1, <2>3, <2>5, <2>8, <2>9, <2>10 DEF TenantInv, DeletionsKnow
  <2>16. SoundHaveDatabases' /\ ActiveAreSound'
    BY <1>1, <2>6, <2>7, <2>8 DEF TenantInv, SoundHaveDatabases, ActiveAreSound, Kept
  <2>17. DatabaseHasTenant' /\ OneTenantPerDatabase'
    BY <1>1, <1>3, <2>6, <2>7, <2>8
       DEF TenantInv, DatabaseHasTenant, OneTenantPerDatabase, SlugUnused, Kept
  <2> QED BY <2>11, <2>12, <2>13, <2>14, <2>15, <2>16, <2>17 DEF TenantInv
<1> QED BY <1>2, <1>3

\* A row is marked as deleted: a creation that is still at work on it is muddled with the
\* deletion.
LEMMA SoftDeleteStep ==
  ASSUME TenantInv, NEW c \in TenantCalls, SoftDeleteTenant(c)
  PROVE  TenantInv'
<1> DEFINE t == tenantCall[c].id
<1>1. /\ tenantCall[c].at = "softdelete" /\ UNCHANGED <<slug, lastId, tenantDbs>>
      /\ CallKnows(c) /\ CallsTyped /\ tenantDbs \subseteq Slugs
  BY DEF SoftDeleteTenant, TenantInv, CallsKnow, RowsTyped
<1>2. CASE t \notin Seen
  BY <1>1, <1>2, CallMoves DEF SoftDeleteTenant, Deletable, TenantInv, RowsTyped
<1>3. CASE t \in Seen
  <2> DEFINE r == [tenantCall[c] EXCEPT !.at = "unpool"]
  <2>1. /\ softDeleted' = softDeleted \union {t} /\ tstatus' = [tstatus EXCEPT ![t] = "deleting"]
        /\ To(c, "unpool")
        /\ sound' = IF tenantCall[c].does = "hard" THEN sound \ {t} ELSE sound
        /\ muddled \subseteq muddled'
        /\ \A d \in TenantCalls \ {c} :
             tenantCall[d].id = t /\ tenantCall[d].does = "create" => slug[t] \in muddled'
    BY <1>3 DEF SoftDeleteTenant, Deletable
  <2>2. TurnsTo(c, r) /\ r.at = "unpool" /\ r.does = tenantCall[c].does
        /\ r.id = t /\ r.slug = tenantCall[c].slug
    BY <1>1, <2>1, ToOrAnswer
  <2> HIDE DEF r
  <2>3. /\ CallsTyped' /\ tenantCall'[c] = r
        /\ \A d \in TenantCalls : d # c => tenantCall'[d] = tenantCall[d]
    BY <1>1, <2>2, OneCallTurns
  <2>4. /\ Kept' = Kept /\ Seen' = Seen \ {t} /\ (\A u : Given(u)' <=> Given(u))
        /\ t \in Kept /\ t \in Ids /\ t \notin softDeleted /\ t # NoId /\ slug[t] = tenantCall[c].slug
    BY <1>1, <1>3, <2>1 DEF Kept, Seen, Given, Ids, NoId, CallKnows
  <2>5. /\ ~Creating(c)' /\ ~Creating(c) /\ ~Deleting(c) /\ slug[t] \in Slugs
        /\ Deleting(c)' => t \notin sound'
    BY <1>1, <2>1, <2>2, <2>3, <2>4 DEF Creating, Deleting, CallKnows, TenantInv, RowsTyped, Kept
  <2>6. \A d \in TenantCalls : d # c =>
          (Creating(d)' <=> Creating(d)) /\ (Deleting(d)' <=> Deleting(d))
    BY <2>3 DEF Creating, Deleting
  <2>7. RowsTyped' /\ OneTenantPerDatabase' /\ DatabaseHasTenant'
    BY <1>1, <2>1, <2>3, <2>4
       DEF TenantInv, RowsTyped, OneTenantPerDatabase, DatabaseHasTenant
  <2>8. CallsKnow'
    <3> SUFFICES ASSUME NEW d \in TenantCalls PROVE CallKnows(d)'
      BY DEF CallsKnow
    <3>1. CASE d = c
      BY <1>1, <2>2, <2>3, <2>4, <2>5, <3>1 DEF CallKnows
    <3>2. CASE d # c
      BY <1>1, <2>3, <2>4, <2>6, <3>2 DEF TenantInv, CallsKnow, CallKnows
    <3> QED BY <3>1, <3>2
  <2>9. OneEach'
    <3>1. \A d \in TenantCalls : d # c /\ Deleting(d) /\ tenantCall[d].id = t =>
            tenantCall[d].slug \in muddled /\ tenantCall[d].slug = tenantCall[c].slug
      BY <2>4 DEF TenantInv, DeletionsKnow, CallsKnow, CallKnows
    <3> QED BY <2>1, <2>2, <2>3, <2>5, <2>6, <3>1 DEF TenantInv, OneEach
  <2>10. CreationsKnow'
    <3> SUFFICES ASSUME NEW d \in TenantCalls, d # c, Creating(d), tenantCall[d].slug \notin muddled'
                 PROVE  tenantCall[d].id # t
      BY <1>1, <2>1, <2>3, <2>4, <2>5, <2>6 DEF TenantInv, CreationsKnow
    <3> QED BY <2>1, <2>4 DEF TenantInv, CallsKnow, CallKnows, Creating
  <2>11. DeletionsKnow'
    BY <1>1, <2>1, <2>2, <2>3, <2>4, <2>5, <2>6 DEF TenantInv, DeletionsKnow
  <2>12. SoundHaveDatabases' /\ ActiveAreSound'
    BY <1>1, <2>1, <2>4 DEF TenantInv, SoundHaveDatabases, ActiveAreSound, RowsTyped, Kept
  <2> QED BY <2>7, <2>8, <2>9, <2>10, <2>11, <2>12 DEF TenantInv
<1> QED BY <1>2, <1>3

\* A row is removed, by the creation that failed or by the deletion.
LEMMA HardDeleteStep ==
  ASSUME TenantInv, NEW c \in TenantCalls, HardDeleteTenant(c)
  PROVE  TenantInv'
<1> DEFINE t == tenantCall[c].id
<1>1. /\ tenantCall[c].at = "remove" /\ Answer(c) /\ CallKnows(c) /\ CallsTyped
      /\ tenantDbs \subseteq Slugs /\ UNCHANGED <<lastId, tenantDbs, sound, muddled>>
  BY DEF HardDeleteTenant, TenantInv, CallsKnow, RowsTyped
<1>2. CASE UNCHANGED <<slug, tstatus, softDeleted>>
  BY <1>1, <1>2, CallMoves DEF TenantInv, RowsTyped
<1>3. CASE /\ slug' = [slug EXCEPT ![t] = NoSlug] /\ tstatus' = [tstatus EXCEPT ![t] = "none"]
           /\ softDeleted' = softDeleted \ {t}
  <2>1. /\ CallsTyped' /\ tenantCall'[c] = Free
        /\ \A d \in TenantCalls : d # c => tenantCall'[d] = tenantCall[d]
    BY <1>1, OneCallTurns, ToOrAnswer
  <2>2. ~Creating(c)' /\ ~Deleting(c)' /\ (Creating(c) \/ Deleting(c))
    BY <1>1, <2>1 DEF Creating, Deleting, Free, CallKnows
  <2>3. \A d \in TenantCalls : d # c =>
          (Creating(d)' <=> Creating(d)) /\ (Deleting(d)' <=> Deleting(d))
    BY <2>1 DEF Creating, Deleting
  <2>4. t \in Ids
    BY <1>1, <2>2 DEF CallKnows, CallsTyped, ATenantCall
  <2>5. /\ slug' \in [Ids -> Slugs \union {NoSlug}] /\ slug'[t] = NoSlug
        /\ tstatus' \in [Ids -> {"none", "creating", "active", "error", "deleting"}]
        /\ \A u \in Ids : u # t => slug'[u] = slug[u] /\ tstatus'[u] = tstatus[u]
    BY <1>3, <2>4 DEF TenantInv, RowsTyped
  <2>6. /\ Kept' = Kept \ {t} /\ Seen' = Seen \ {t} /\ (\A u : Given(u)' <=> Given(u))
    BY <1>1, <1>3, <2>4, <2>5 DEF Kept, Seen, Given
  <2>7. RowsTyped' /\ OneTenantPerDatabase'
    BY <1>1, <1>3, <2>1, <2>5, <2>6 DEF TenantInv, RowsTyped, OneTenantPerDatabase, Kept
  <2>8. CallsKnow'
    <3> SUFFICES ASSUME NEW d \in TenantCalls PROVE CallKnows(d)'
      BY DEF CallsKnow
    <3>1. CASE d = c
      BY <2>1, <2>2, <2>6, <3>1 DEF CallKnows, Free, Kept, Ids, NoId
    <3>2. CASE d # c
      BY <2>1, <2>3, <2>5, <2>6, <3>2 DEF TenantInv, CallsKnow, CallKnows, Kept
    <3> QED BY <3>1, <3>2
  <2>9. OneEach'
    BY <1>1, <2>1, <2>2, <2>3 DEF TenantInv, OneEach
  <2>10. t \in Kept => slug[t] = tenantCall[c].slug
    BY <1>1 DEF CallKnows
  <2>11. ASSUME NEW d \in TenantCalls, d # c, Creating(d) \/ Deleting(d),
                tenantCall[d].slug \notin muddled
         PROVE  tenantCall[d].id # t
    <3> SUFFICES ASSUME tenantCall[d].id = t PROVE FALSE
      OBVIOUS
    <3>1. t \in Kept /\ slug[t] = tenantCall[d].slug
      BY <2>11, Exclusive
    <3> QED BY <2>2, <2>10, <2>11, <3>1, Exclusive
  <2>12. CreationsKnow' /\ DeletionsKnow'
    BY <1>1, <1>3, <2>1, <2>2, <2>3, <2>6, <2>11 DEF TenantInv, CreationsKnow, DeletionsKnow
  <2>13. SoundHaveDatabases' /\ ActiveAreSound'
    BY <1>1, <2>5, <2>6 DEF TenantInv, SoundHaveDatabases, ActiveAreSound, Kept
  <2>14. DatabaseHasTenant'
    <3> SUFFICES ASSUME NEW s \in tenantDbs, s \notin muddled PROVE \E u \in Kept' : slug'[u] = s
      BY <1>1 DEF DatabaseHasTenant
    <3>1. PICK u \in Kept : slug[u] = s
      BY DEF TenantInv, DatabaseHasTenant
    <3>2. u # t
      BY <1>1, <2>2, <2>10, <3>1 DEF TenantInv, CreationsKnow, DeletionsKnow
    <3> QED BY <2>5, <2>6, <3>1, <3>2 DEF Kept
  <2> QED BY <2>7, <2>8, <2>9, <2>12, <2>13, <2>14 DEF TenantInv
<1> QED BY <1>2, <1>3 DEF HardDeleteTenant

\* A recovery: the tenant is sound and nobody works on it, or it is muddled.
LEMMA RecoverStep == ASSUME TenantInv, NEW t \in Ids, RecoverTenant(t) PROVE TenantInv'
<1>1. /\ t \in Kept /\ t \in softDeleted /\ softDeleted' = softDeleted \ {t}
      /\ tstatus' = [tstatus EXCEPT ![t] = "active"] /\ muddled \subseteq muddled'
      /\ UNCHANGED <<slug, lastId, tenantDbs, tenantCall, sound>>
      /\ slug[t] \notin muddled' => t \in sound /\ \A c \in TenantCalls : tenantCall[c].id # t
  BY DEF RecoverTenant
<1>2. Kept' = Kept /\ Seen' = Seen \union {t} /\ (\A u : Given(u)' <=> Given(u))
  BY <1>1 DEF Kept, Seen, Given
<1>3. \A c \in TenantCalls : (Creating(c)' <=> Creating(c)) /\ (Deleting(c)' <=> Deleting(c))
  BY <1>1 DEF Creating, Deleting
<1>4. RowsTyped' /\ OneTenantPerDatabase' /\ DatabaseHasTenant'
  BY <1>1, <1>2 DEF TenantInv, RowsTyped, CallsTyped, OneTenantPerDatabase, DatabaseHasTenant
<1>5. CallsKnow' /\ OneEach'
  BY <1>1, <1>2, <1>3 DEF TenantInv, CallsKnow, CallKnows, OneEach
<1>6. CreationsKnow'
  BY <1>1, <1>2, <1>3 DEF TenantInv, CreationsKnow
<1>7. DeletionsKnow'
  <2>1. \A c \in TenantCalls : tenantCall[c].id = t => tenantCall[c].slug \in muddled'
    BY <1>1 DEF TenantInv, CallsKnow, CallKnows
  <2> QED BY <1>1, <1>2, <1>3, <2>1 DEF TenantInv, DeletionsKnow
<1>8. SoundHaveDatabases' /\ ActiveAreSound'
  BY <1>1, <1>2 DEF TenantInv, SoundHaveDatabases, ActiveAreSound, RowsTyped, Kept
<1> QED BY <1>4, <1>5, <1>6, <1>7, <1>8 DEF TenantInv

\* A crash ends every call.
LEMMA InstanceCrashStep == TenantInv /\ InstanceCrash => TenantInv'
<1> SUFFICES ASSUME TenantInv, InstanceCrash PROVE TenantInv'
  OBVIOUS
<1>1. /\ tenantCall' = [c \in TenantCalls |-> Free]
      /\ UNCHANGED <<slug, tstatus, softDeleted, lastId, tenantDbs, sound, muddled>>
  BY DEF InstanceCrash, tenantRow
<1>2. Kept' = Kept /\ Seen' = Seen /\ (\A u : Given(u)' <=> Given(u)) /\ NoId \notin Kept
  BY <1>1 DEF Kept, Seen, Given, Ids, NoId
<1>3. \A c \in TenantCalls : ~Creating(c)' /\ ~Deleting(c)'
  BY <1>1 DEF Creating, Deleting, Free
<1>4. RowsTyped' /\ OneTenantPerDatabase' /\ DatabaseHasTenant'
  BY <1>1, <1>2 DEF TenantInv, RowsTyped, CallsTyped, ATenantCall, Free, OneTenantPerDatabase,
                    DatabaseHasTenant
<1>5. CallsKnow' /\ OneEach' /\ CreationsKnow' /\ DeletionsKnow'
  BY <1>1, <1>2, <1>3 DEF CallsKnow, CallKnows, OneEach, CreationsKnow, DeletionsKnow, Free
<1>6. SoundHaveDatabases' /\ ActiveAreSound'
  BY <1>1, <1>2 DEF TenantInv, SoundHaveDatabases, ActiveAreSound
<1> QED BY <1>4, <1>5, <1>6 DEF TenantInv

\* Every step preserves the invariant.
LEMMA TenantSteps == TenantInv /\ [TenantNext]_tenantVars => TenantInv'
<1> SUFFICES ASSUME TenantInv, [TenantNext]_tenantVars PROVE TenantInv'
  OBVIOUS
<1>1. CASE UNCHANGED tenantVars
  <2>1. UNCHANGED <<slug, tstatus, softDeleted, lastId, tenantDbs, tenantCall, sound, muddled>>
    BY <1>1 DEF tenantVars, tenantRow
  <2>2. Kept' = Kept /\ Seen' = Seen /\ (\A u : Given(u)' <=> Given(u))
    BY <2>1 DEF Kept, Seen, Given
  <2>3. \A c \in TenantCalls : (Creating(c)' <=> Creating(c)) /\ (Deleting(c)' <=> Deleting(c))
    BY <2>1 DEF Creating, Deleting
  <2>4. RowsTyped' /\ CallsKnow' /\ OneEach'
    BY <2>1, <2>2, <2>3 DEF TenantInv, RowsTyped, CallsTyped, CallsKnow, CallKnows, OneEach
  <2>5. CreationsKnow' /\ DeletionsKnow'
    BY <2>1, <2>2, <2>3 DEF TenantInv, CreationsKnow, DeletionsKnow
  <2>6. SoundHaveDatabases' /\ ActiveAreSound' /\ OneTenantPerDatabase' /\ DatabaseHasTenant'
    BY <2>1, <2>2 DEF TenantInv, SoundHaveDatabases, ActiveAreSound, OneTenantPerDatabase,
                      DatabaseHasTenant
  <2> QED BY <2>4, <2>5, <2>6 DEF TenantInv
<1>2. CASE TenantNext
  BY <1>2, CallBegins, CreateStep, StageSteps, FinishStep, SoftDeleteStep, HardDeleteStep,
     RecoverStep, InstanceCrashStep DEF TenantNext
<1> QED BY <1>1, <1>2

\* Whatever requests create, delete and recover tenants at once, fail or leave undone:
\* tenants and databases belong together one to one, but for those that a recovery or
\* overlapping operations muddled.
THEOREM TenantsAndDatabasesMatch == TenantSpec => []TenantsMatchDatabases
<1>1. TenantInv => TenantsMatchDatabases
  BY DEF TenantInv, TenantsMatchDatabases, ActiveHasDatabase, SoundHaveDatabases, ActiveAreSound,
         Seen
<1> QED BY <1>1, TenantStarts, TenantSteps, PTL DEF TenantSpec

(***************************************************************************)
(* The pools.                                                              *)
(***************************************************************************)
\* A deletion that has marked its row is about to take the pool away, and the steps of the
\* others do not open it again unless they read the tenant before.
LEMMA PoolSteps == TenantInv /\ PoolsOfTheSeen /\ [TenantNext]_tenantVars => PoolsOfTheSeen'
<1> SUFFICES ASSUME TenantInv, PoolsOfTheSeen, [TenantNext]_tenantVars,
                    NEW t \in pools', t \in softDeleted', t \notin late'
             PROVE  \E c \in TenantCalls : tenantCall'[c].id = t /\ tenantCall'[c].at = "unpool"
  BY DEF PoolsOfTheSeen
<1>1. CallsTyped
  BY DEF TenantInv, RowsTyped
<1>2. CASE t \in pools /\ t \in softDeleted /\ t \notin late
  <2>1. PICK c \in TenantCalls : tenantCall[c].id = t /\ tenantCall[c].at = "unpool"
    BY <1>2 DEF PoolsOfTheSeen
  <2>2. tenantCall'[c] = tenantCall[c]
    <3>1. CASE UNCHANGED tenantVars
      BY <3>1 DEF tenantVars
    <3>2. CASE TenantNext
      <4>1. ~InstanceCrash
        BY DEF InstanceCrash
      <4>2. \A u \in Ids : RecoverTenant(u) => tenantCall' = tenantCall
        BY DEF RecoverTenant
      <4>3. ASSUME NEW d \in TenantCalls, RemovePool(d) PROVE d # c
        BY <2>1, <4>3 DEF RemovePool
      <4>4. ASSUME NEW d \in TenantCalls,
                   \/ \E s \in Slugs : CheckMaxTenants(d, s)
                   \/ \E u \in Ids : \/ GetTenant(d, u, "soft") \/ GetTenant(d, u, "hard")
                                     \/ GetPool(d, u)
                   \/ CreateTenant(d) \/ CreateTenantDb(d) \/ Provision(d)
                   \/ RollbackTenantDatabase(d) \/ FinishTenant(d)
                   \/ SoftDeleteTenant(d) \/ DropTenantDb(d) \/ HardDeleteTenant(d)
                   \/ OpenPool(d) \/ Drop(d)
            PROVE  d # c
        BY <2>1, <4>4
           DEF CheckMaxTenants, GetTenant, GetPool, Serve, Free, CreateTenant, CreateTenantDb,
               Provision, RollbackTenantDatabase, FinishTenant, SoftDeleteTenant, DropTenantDb,
               HardDeleteTenant, OpenPool, Drop
      <4>5. ASSUME NEW d \in TenantCalls, d # c,
                   \/ \E s \in Slugs : CheckMaxTenants(d, s)
                   \/ \E u \in Ids : \/ GetTenant(d, u, "soft") \/ GetTenant(d, u, "hard")
                                     \/ GetPool(d, u)
                   \/ CreateTenant(d) \/ CreateTenantDb(d) \/ Provision(d)
                   \/ RollbackTenantDatabase(d) \/ FinishTenant(d)
                   \/ SoftDeleteTenant(d) \/ DropTenantDb(d) \/ HardDeleteTenant(d)
                   \/ OpenPool(d) \/ Drop(d) \/ RemovePool(d)
            PROVE  tenantCall'[c] = tenantCall[c]
        BY <1>1, <4>5
           DEF CheckMaxTenants, GetTenant, GetPool, Serve, CreateTenant, CreateTenantDb,
               Provision, RollbackTenantDatabase, FinishTenant, SoftDeleteTenant, DropTenantDb,
               HardDeleteTenant, OpenPool, Drop, RemovePool, To, Answer, CallsTyped
      <4> QED BY <3>2, <4>1, <4>2, <4>3, <4>4, <4>5 DEF TenantNext
    <3> QED BY <3>1, <3>2
  <2> QED BY <2>1, <2>2
<1>3. CASE ~(t \in pools /\ t \in softDeleted /\ t \notin late)
  <2>1. CASE \E d \in TenantCalls : SoftDeleteTenant(d)
    <3>1. PICK d \in TenantCalls : SoftDeleteTenant(d)
      BY <2>1
    <3>2. /\ UNCHANGED <<pools, late>> /\ tenantCall[d].id = t /\ To(d, "unpool")
      BY <1>3, <3>1 DEF SoftDeleteTenant
    <3>3. tenantCall'[d].id = t /\ tenantCall'[d].at = "unpool"
      BY <1>1, <3>2 DEF To, CallsTyped, ATenantCall
    <3> QED BY <3>3
  <2>2. ASSUME NEW d \in TenantCalls, OpenPool(d) PROVE FALSE
    <3>1. softDeleted' = softDeleted
      BY <2>2 DEF OpenPool, tenantRow
    <3>2. ~UNCHANGED <<pools, late>>
      BY <1>3, <3>1
    <3>3. PICK gone \in SUBSET pools :
            /\ tenantCall[d].id \notin pools /\ pools' = (pools \ gone) \union {tenantCall[d].id}
            /\ late' = (late \ gone) \union ({tenantCall[d].id} \ Seen)
      BY <2>2, <3>2 DEF OpenPool
    <3> QED BY <1>3, <3>1, <3>3 DEF Seen
  <2>3. ASSUME NEW d \in TenantCalls, RemovePool(d) PROVE FALSE
    BY <1>3, <2>3 DEF RemovePool, tenantRow
  <2>4. CASE UNCHANGED <<pools, late>> /\ softDeleted' \subseteq softDeleted
    BY <1>3, <2>4
  <2>5. ~InstanceCrash
    BY DEF InstanceCrash
  <2>6. CASE UNCHANGED tenantVars
    BY <2>4, <2>6 DEF tenantVars, tenantRow
  <2>7. ASSUME NEW d \in TenantCalls,
               \/ \E s \in Slugs : CheckMaxTenants(d, s)
               \/ \E u \in Ids : \/ GetTenant(d, u, "soft") \/ GetTenant(d, u, "hard")
                                 \/ GetPool(d, u)
               \/ CreateTenant(d) \/ CreateTenantDb(d) \/ Provision(d)
               \/ RollbackTenantDatabase(d) \/ FinishTenant(d)
               \/ DropTenantDb(d) \/ HardDeleteTenant(d) \/ Drop(d)
        PROVE  UNCHANGED <<pools, late>> /\ softDeleted' \subseteq softDeleted
    BY <2>7 DEF CheckMaxTenants, GetTenant, GetPool, CreateTenant, CreateTenantDb, Provision,
                RollbackTenantDatabase, FinishTenant, DropTenantDb, HardDeleteTenant, Drop,
                tenantRow
  <2>8. ASSUME NEW u \in Ids, RecoverTenant(u)
        PROVE  UNCHANGED <<pools, late>> /\ softDeleted' \subseteq softDeleted
    BY <2>8 DEF RecoverTenant
  <2> QED BY <2>1, <2>2, <2>3, <2>4, <2>5, <2>6, <2>7, <2>8 DEF TenantNext
<1> QED BY <1>2, <1>3

\* A cached pool of a deleted tenant is one that its deletion is about to remove, or that was
\* opened by a request that had read the tenant before.
THEOREM DeletionsTakeThePool == TenantSpec => []PoolsOfTheSeen
<1>1. TenantInit => PoolsOfTheSeen
  BY DEF TenantInit, PoolsOfTheSeen
<1> QED BY <1>1, TenantStarts, TenantSteps, PoolSteps, PTL DEF TenantSpec
=============================================================================
