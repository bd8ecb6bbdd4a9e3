-------------------------- MODULE BranchLifecycle --------------------------
(***************************************************************************)
(* Database branches (internal/branching): Manager.CreateBranch, Delete-   *)
(* Branch and ResetBranch, each a sequence of statements on the row of the *)
(* branch and of CREATE and DROP DATABASE, with no lock and no transaction *)
(* around them.  A branch name stands for a tenant (or none) and a slug.   *)
(***************************************************************************)
EXTENDS Integers, FiniteSets

CONSTANTS
    Ops,            \* the operations that run at once, on all instances
    Names,          \* names of branches
    Tenants, TenantOf, Instance,    \* the tenant of a name; Instance when it has none
    SlugOf, DatabaseOf,             \* its slug, and the database name made of both
    MaxRows,        \* bound of the model: branches recorded
    MaxBranches,    \* MaxTotalBranches, without the main branch
    NoBranch,
    MaxDbErrors,    \* bound of the model: statements on databases that fail
    MaxBegun        \* bound of the model: operations begun

ASSUME BranchAssumption ==
    /\ MaxBranches \in Nat \ {0} /\ MaxRows \in Nat /\ MaxDbErrors \in Nat
    /\ MaxBegun \in Nat
    /\ TenantOf \in [Names -> Tenants \union {Instance}] /\ Instance \notin Tenants
    /\ NoBranch \notin Names

Branches == 1..MaxRows
NoRow == 0
Databases == {DatabaseOf[n] : n \in Names}

VARIABLES
    name,       \* branching.branches: the name of each row
    status,     \* and its status
    databases,  \* databases of branches that exist
    operation,  \* what each operation does, for which name and row
    mixed,      \* history: databases that two rows, or two operations, shared
    dbErrors,   \* statements that failed
    begun       \* operations begun

branchVars == <<name, status, databases, operation, mixed, dbErrors, begun>>

Resting == [at |-> "idle", does |-> "none", name |-> NoBranch, row |-> NoRow]

BranchInit ==
    /\ name = [b \in Branches |-> NoBranch]
    /\ status = [b \in Branches |-> "none"]
    /\ databases = {}
    /\ operation = [o \in Ops |-> Resting]
    /\ mixed = {}
    /\ dbErrors = 0
    /\ begun = 0

Recorded == {b \in Branches : status[b] # "none"}
Live == {b \in Recorded : status[b] # "deleted"}
InScope(n) == {b \in Live : TenantOf[n] \in {Instance, TenantOf[name[b]]}}
WorksOn(o, n) == operation[o].row # NoRow /\ DatabaseOf[operation[o].name] = DatabaseOf[n]

Step(o, at) == operation' = [operation EXCEPT ![o].at = at]
Rest(o) == operation' = [operation EXCEPT ![o] = Resting]
Begin(o, w) ==
    /\ operation[o] = Resting /\ begun < MaxBegun /\ begun' = begun + 1
    /\ operation' = [operation EXCEPT ![o] = w]
DbFails == dbErrors < MaxDbErrors /\ dbErrors' = dbErrors + 1

\* An operation takes up row b: the database is mixed from now on when another
\* row has it too, or another operation works on it.
TakesUp(o, n, b) ==
    mixed' = mixed \union
      (IF \/ \E c \in Recorded \ {b} : DatabaseOf[name[c]] = DatabaseOf[n]
          \/ \E p \in Ops \ {o} : WorksOn(p, n)
       THEN {DatabaseOf[n]} ELSE {})

\* Mutant of WithinLimits: the limit counts one branch too few.
WithinLimitsLate(n) == Cardinality(InScope(n)) <= MaxBranches

\* checkLimits: the branches of the tenant that are not deleted, or of all when
\* there is no tenant.
WithinLimits(n) == Cardinality(InScope(n)) < MaxBranches

\* CreateBranch: the limits.
CheckLimits(o, n) ==
    /\ WithinLimits(n)
    /\ Begin(o, [at |-> "lookup", does |-> "create", name |-> n, row |-> NoRow])
    /\ UNCHANGED <<name, status, databases, mixed, dbErrors>>

\* GetBranchBySlug finds one row of the slug: of the tenant, or of anybody when
\* there is no tenant.  It ends the call when it is of the same tenant.
GetBranchBySlug(o) ==
    LET n == operation[o].name
        found == {b \in Live : /\ SlugOf[name[b]] = SlugOf[n]
                               /\ TenantOf[n] \in {Instance, TenantOf[name[b]]}}
    IN  /\ operation[o].at = "lookup"
        /\ \/ /\ \/ found = {}
                 \/ \E b \in found : TenantOf[name[b]] # TenantOf[n]
              /\ Step(o, "insert")
           \/ (\E b \in found : TenantOf[name[b]] = TenantOf[n]) /\ Rest(o)
        /\ UNCHANGED <<name, status, databases, mixed, dbErrors, begun>>

\* UNIQUE (slug, tenant_id), over the deleted rows too; it says nothing of rows
\* without a tenant.
SlugIsFree(n) ==
    TenantOf[n] = Instance \/ \A b \in Recorded : name[b] # n

\* Storage.CreateBranch: the row is recorded, or the constraint refuses it.
RecordBranch(o) ==
    LET n == operation[o].name
        b == Cardinality(Recorded) + 1
    IN  /\ operation[o].at = "insert"
        /\ IF SlugIsFree(n)
           THEN /\ b \in Branches
                /\ name' = [name EXCEPT ![b] = n]
                /\ status' = [status EXCEPT ![b] = "creating"]
                /\ operation' = [operation EXCEPT ![o].at = "clone", ![o].row = b]
                /\ TakesUp(o, n, b)
           ELSE Rest(o) /\ UNCHANGED <<name, status, mixed>>
        /\ UNCHANGED <<databases, dbErrors, begun>>

\* createDatabase: a database that exists is an error; the seeds may fail after
\* the database was created.
CreateDatabase(o) ==
    LET d == DatabaseOf[operation[o].name]
    IN  /\ operation[o].at = "clone"
        /\ \/ /\ d \notin databases /\ databases' = databases \union {d}
              /\ \/ Step(o, "ready") /\ UNCHANGED dbErrors
                 \/ DbFails /\ Step(o, "failed")
           \/ d \in databases /\ Step(o, "failed") /\ UNCHANGED <<databases, dbErrors>>
           \/ DbFails /\ Step(o, "failed") /\ UNCHANGED databases
        /\ UNCHANGED <<name, status, mixed, begun>>

\* Mutant of WriteStatus: a failure is recorded as the end of the operation.
WriteStatusReady(o) ==
    /\ operation[o].at \in {"ready", "failed"}
    /\ status' = [status EXCEPT ![operation[o].row] = "ready"]
    /\ Rest(o)
    /\ UNCHANGED <<name, databases, mixed, dbErrors, begun>>

\* UpdateBranchStatus at the end, whatever the status is by now: of a creation
\* or a reset, and of any of the three that failed.
WriteStatus(o) ==
    /\ operation[o].at \in {"ready", "failed"}
    /\ status' = [status EXCEPT ![operation[o].row] =
                    IF operation[o].at = "ready" THEN "ready" ELSE "error"]
    /\ Rest(o)
    /\ UNCHANGED <<name, databases, mixed, dbErrors, begun>>

\* DeleteBranch and ResetBranch: GetBranch finds the row unless it is deleted.
\* The expired branches are deleted by the cleanup with the same DeleteBranch.
GetBranch(o, b, does) ==
    /\ b \in Live
    /\ Begin(o, [at |-> "begin", does |-> does, name |-> name[b], row |-> b])
    /\ TakesUp(o, name[b], b)
    /\ UNCHANGED <<name, status, databases, dbErrors>>

\* The status that says what is under way, again whatever it is by now.
MarkBranch(o) ==
    /\ operation[o].at = "begin"
    /\ status' = [status EXCEPT ![operation[o].row] =
                    IF operation[o].does = "delete" THEN "deleting" ELSE "migrating"]
    /\ Step(o, "drop")
    /\ UNCHANGED <<name, databases, mixed, dbErrors, begun>>

\* dropDatabase: DROP DATABASE IF EXISTS; it fails, say, when a connection of a
\* pool came back.  A reset goes on to create the database again.
DropDatabase(o) ==
    /\ operation[o].at = "drop"
    /\ \/ /\ databases' = databases \ {DatabaseOf[operation[o].name]}
          /\ Step(o, IF operation[o].does = "delete" THEN "dropped" ELSE "clone")
          /\ UNCHANGED dbErrors
       \/ DbFails /\ Step(o, "failed") /\ UNCHANGED databases
    /\ UNCHANGED <<name, status, mixed, begun>>

\* Storage.DeleteBranch: the row stays, as deleted.
DeleteRow(o) ==
    /\ operation[o].at = "dropped"
    /\ status' = [status EXCEPT ![operation[o].row] = "deleted"]
    /\ Rest(o)
    /\ UNCHANGED <<name, databases, mixed, dbErrors, begun>>

\* The instance crashes, or a statement on the row fails: the operation ends
\* where it is, and nothing takes it up again.
Abandon(o) == operation[o].at # "idle" /\ Rest(o)
              /\ UNCHANGED <<name, status, databases, mixed, dbErrors, begun>>

BranchNext ==
    \E o \in Ops :
      \/ \E n \in Names : CheckLimits(o, n)
      \/ \E b \in Branches : GetBranch(o, b, "delete") \/ GetBranch(o, b, "reset")
      \/ GetBranchBySlug(o) \/ RecordBranch(o) \/ CreateDatabase(o) \/ WriteStatus(o)
      \/ MarkBranch(o) \/ DropDatabase(o) \/ DeleteRow(o) \/ Abandon(o)

BranchSpec == BranchInit /\ [][BranchNext]_branchVars

(***************************************************************************)
(* Properties.                                                             *)
(***************************************************************************)
BranchTypeOK ==
    /\ name \in [Branches -> Names \union {NoBranch}]
    /\ status \in [Branches -> {"none", "creating", "ready", "migrating", "error",
                                "deleting", "deleted"}]
    /\ databases \subseteq Databases /\ mixed \subseteq Databases
    /\ operation \in [Ops -> [at : {"idle", "lookup", "insert", "clone", "ready", "failed",
                               "begin", "drop", "dropped"},
                         does : {"none", "create", "delete", "reset"},
                         name : Names \union {NoBranch},
                         row : Branches \union {NoRow}]]
    /\ dbErrors \in 0..MaxDbErrors /\ begun \in 0..MaxBegun

\* The row says the truth about its database as long as no other row or
\* operation shared it, whatever failed or was cut short: a branch that is ready
\* has its database, and a database has a row with which it can be deleted.
RowTellsDatabase ==
    /\ \A b \in Recorded : status[b] = "ready" => DatabaseOf[name[b]] \in databases \union mixed
    /\ \A d \in databases \ mixed : \E b \in Live : DatabaseOf[name[b]] = d

\* The limit is checked before the branch is recorded, so creations that run at
\* once exceed it; also a deletion may be undone by a reset that read the branch
\* before.  Together they never exceed it by more than the operations that run
\* at once, less one.
OvershootBounded ==
    \A t \in Tenants :
      Cardinality({b \in Live : TenantOf[name[b]] = t}) < MaxBranches + Cardinality(Ops)

\* A tenant's branch name is recorded once and for all: whatever the creations
\* and deletions that race, no two rows of a tenant have the same slug.
OneRowPerName ==
    \A b, c \in Recorded : name[b] = name[c] /\ TenantOf[name[b]] # Instance => b = c

\* The rows are a register of the databases: truthful, and without a name twice.
RowsTellDatabases == RowTellsDatabase /\ OneRowPerName
=============================================================================
