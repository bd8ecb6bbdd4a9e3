-------------------------- MODULE TenantDatabases --------------------------
(***************************************************************************)
(* Tenants with a database of their own (internal/tenantdb): Manager.      *)
(* CreateTenantDatabase, DeleteTenantDatabase, HardDeleteTenantDatabase and*)
(* RecoverTenantDatabase, each a sequence of statements on the row and on  *)
(* the database, and Router.GetPool, which reads the row before it takes   *)
(* the lock of the pools.  The database is named after the tenant's slug.  *)
(***************************************************************************)
EXTENDS Integers, FiniteSets

CONSTANTS
    TenantCalls,    \* the operations that run at once
    Slugs, NoSlug,
    MaxIds,         \* bound of the model: tenants recorded
    MaxTenants,     \* the limit of the configuration, without the default tenant
    MaxSlips,       \* bound of the model: statements that fail
    MaxTenantCalls  \* bound of the model: requests begun

ASSUME TenantAssumption ==
    /\ NoSlug \notin Slugs /\ MaxIds \in Nat /\ MaxTenants \in Nat \ {0}
    /\ MaxSlips \in Nat /\ MaxTenantCalls \in Nat

Ids == 1..MaxIds
NoId == 0

VARIABLES
    slug,       \* platform.tenants: the slug of each row, NoSlug before and after
    tstatus,    \* its status
    softDeleted,\* the rows with a deleted_at
    lastId,     \* ids given so far
    tenantDbs,  \* slugs whose database exists
    pools,      \* Router.pools: tenants with a cached pool
    tenantCall, \* what each operation does, and its tenant
    sound,      \* history: tenants activated, and not yet hard deleted
    muddled,    \* history: slugs of tenants on which operations overlapped, or
                \* that were recovered though they were not sound
    late,       \* history: pools opened for a tenant that was deleted meanwhile
    slips, requests     \* statements that failed, requests begun

tenantRow == <<slug, tstatus, softDeleted, lastId>>
tenantVars == <<tenantRow, tenantDbs, pools, tenantCall, sound, muddled, late, slips, requests>>

Free == [at |-> "idle", does |-> "none", id |-> NoId, slug |-> NoSlug]

TenantInit ==
    /\ slug = [t \in Ids |-> NoSlug]
    /\ tstatus = [t \in Ids |-> "none"]
    /\ softDeleted = {}
    /\ lastId = 0
    /\ tenantDbs = {} /\ pools = {}
    /\ tenantCall = [c \in TenantCalls |-> Free]
    /\ sound = {} /\ muddled = {} /\ late = {}
    /\ slips = 0 /\ requests = 0

Kept == {t \in Ids : slug[t] # NoSlug}
Seen == Kept \ softDeleted                  \* WHERE deleted_at IS NULL
Busy(c, t) == \E d \in TenantCalls \ {c} : tenantCall[d].id = t /\ tenantCall[d].does # "pool"

Slips == slips < MaxSlips /\ slips' = slips + 1
To(c, at) == tenantCall' = [tenantCall EXCEPT ![c].at = at]
Answer(c) == tenantCall' = [tenantCall EXCEPT ![c] = Free]
Serve(c, r) ==
    /\ tenantCall[c] = Free /\ requests < MaxTenantCalls /\ requests' = requests + 1
    /\ tenantCall' = [tenantCall EXCEPT ![c] = r]

\* UpdateTenantStatus: the row if it is there, whatever its status.
WriteTenantStatus(t, s) == tstatus' = IF t \in Kept THEN [tstatus EXCEPT ![t] = s] ELSE tstatus

(***************************************************************************)
(* CreateTenantDatabase.                                                   *)
(***************************************************************************)
CheckMaxTenants(c, s) ==
    /\ Cardinality(Seen) < MaxTenants
    /\ Serve(c, [at |-> "insert", does |-> "create", id |-> NoId, slug |-> s])
    /\ UNCHANGED <<tenantRow, tenantDbs, pools, sound, muddled, late, slips>>

\* tenants_slug_key, over the rows that are soft deleted too.
SlugUnused(s) == \A t \in Kept : slug[t] # s

CreateTenant(c) ==
    LET s == tenantCall[c].slug
        t == lastId + 1
    IN  /\ tenantCall[c].at = "insert"
        /\ IF SlugUnused(s)
           THEN /\ t \in Ids /\ lastId' = t
                /\ slug' = [slug EXCEPT ![t] = s]
                /\ tstatus' = [tstatus EXCEPT ![t] = "creating"]
                /\ tenantCall' = [tenantCall EXCEPT ![c].at = "createdb", ![c].id = t]
           ELSE Answer(c) /\ UNCHANGED <<slug, tstatus, lastId>>
        /\ UNCHANGED <<softDeleted, tenantDbs, pools, sound, muddled, late, slips, requests>>

\* CREATE DATABASE; when it fails the status is written and the row removed.
CreateTenantDb(c) ==
    LET s == tenantCall[c].slug
    IN  /\ tenantCall[c].at = "createdb"
        /\ \/ s \notin tenantDbs /\ tenantDbs' = tenantDbs \union {s}
              /\ To(c, "provision") /\ UNCHANGED <<tstatus, slips>>
           \/ s \in tenantDbs /\ WriteTenantStatus(tenantCall[c].id, "error")
              /\ To(c, "remove") /\ UNCHANGED <<tenantDbs, slips>>
           \/ Slips /\ WriteTenantStatus(tenantCall[c].id, "error")
              /\ To(c, "remove") /\ UNCHANGED tenantDbs
        /\ UNCHANGED <<slug, softDeleted, lastId, pools, sound, muddled, late, requests>>

\* The bootstrap, the internal schemas and the foreign tables.  The failure of
\* the first or the last drops the database, that of the schemas does not.
Provision(c) ==
    /\ tenantCall[c].at = "provision"
    /\ \/ To(c, "activate") /\ UNCHANGED slips
       \/ Slips /\ \E at \in {"rollback", "failed"} : To(c, at)
    /\ UNCHANGED <<tenantRow, tenantDbs, pools, sound, muddled, late, requests>>

\* rollbackTenantDatabase, at best effort.
RollbackTenantDatabase(c) ==
    /\ tenantCall[c].at = "rollback"
    /\ \/ tenantDbs' = tenantDbs \ {tenantCall[c].slug} /\ UNCHANGED slips
       \/ Slips /\ UNCHANGED tenantDbs
    /\ To(c, "failed")
    /\ UNCHANGED <<tenantRow, pools, sound, muddled, late, requests>>

\* Mutant of FinishTenant: a tenant whose provisioning failed is activated.
FinishTenantAnyway(c) ==
    /\ tenantCall[c].at \in {"activate", "failed"}
    /\ WriteTenantStatus(tenantCall[c].id, "active")
    /\ sound' = sound \union {tenantCall[c].id}
    /\ Answer(c)
    /\ UNCHANGED <<slug, softDeleted, lastId, tenantDbs, pools, muddled, late, slips, requests>>

\* The status at the end of a creation, and of a hard deletion that failed.
FinishTenant(c) ==
    /\ tenantCall[c].at \in {"activate", "failed"}
    /\ WriteTenantStatus(tenantCall[c].id, IF tenantCall[c].at = "activate" THEN "active" ELSE "error")
    /\ sound' = IF tenantCall[c].at = "activate" THEN sound \union {tenantCall[c].id} ELSE sound
    /\ Answer(c)
    /\ UNCHANGED <<slug, softDeleted, lastId, tenantDbs, pools, muddled, late, slips, requests>>

(***************************************************************************)
(* Deletion and recovery.                                                  *)
(***************************************************************************)
\* GetTenant shows no row that is soft deleted.
GetTenant(c, t, does) ==
    /\ t \in Seen
    /\ Serve(c, [at |-> "softdelete", does |-> does, id |-> t, slug |-> slug[t]])
    /\ UNCHANGED <<tenantRow, tenantDbs, pools, sound, muddled, late, slips>>

\* AND deleted_at IS NULL: of two deletions of a tenant one goes on.
Deletable(t) == t \in Seen

SoftDeleteTenant(c) ==
    LET t == tenantCall[c].id
    IN  /\ tenantCall[c].at = "softdelete"
        /\ IF Deletable(t)
           THEN /\ softDeleted' = softDeleted \union {t}
                /\ tstatus' = [tstatus EXCEPT ![t] = "deleting"]
                /\ To(c, "unpool")
                /\ sound' = IF tenantCall[c].does = "hard" THEN sound \ {t} ELSE sound
                /\ muddled' = muddled \union
                     {s \in {slug[t]} : \E d \in TenantCalls \ {c} :
                        tenantCall[d].id = t /\ tenantCall[d].does = "create"}
           ELSE Answer(c) /\ UNCHANGED <<softDeleted, tstatus, sound, muddled>>
        /\ UNCHANGED <<slug, lastId, tenantDbs, pools, late, slips, requests>>

\* Mutant of RemovePool: the pool stays in the cache.
RemovePoolNot(c) ==
    /\ tenantCall[c].at = "unpool"
    /\ IF tenantCall[c].does = "hard" THEN To(c, "drop") ELSE Answer(c)
    /\ UNCHANGED <<tenantRow, tenantDbs, pools, sound, muddled, late, slips, requests>>

RemovePool(c) ==
    /\ tenantCall[c].at = "unpool"
    /\ pools' = pools \ {tenantCall[c].id} /\ late' = late \ {tenantCall[c].id}
    /\ IF tenantCall[c].does = "hard" THEN To(c, "drop") ELSE Answer(c)
    /\ UNCHANGED <<tenantRow, tenantDbs, sound, muddled, slips, requests>>

\* CleanupTenantData and DROP DATABASE: when one fails the status is written.
DropTenantDb(c) ==
    /\ tenantCall[c].at = "drop"
    /\ \/ tenantDbs' = tenantDbs \ {tenantCall[c].slug} /\ To(c, "remove") /\ UNCHANGED slips
       \/ Slips /\ To(c, "failed") /\ UNCHANGED tenantDbs
    /\ UNCHANGED <<tenantRow, pools, sound, muddled, late, requests>>

\* HardDeleteTenant: a failure is logged.
HardDeleteTenant(c) ==
    LET t == tenantCall[c].id
    IN  /\ tenantCall[c].at = "remove"
        /\ \/ /\ slug' = [slug EXCEPT ![t] = NoSlug]
              /\ tstatus' = [tstatus EXCEPT ![t] = "none"]
              /\ softDeleted' = softDeleted \ {t}
              /\ UNCHANGED slips
           \/ Slips /\ UNCHANGED <<slug, tstatus, softDeleted>>
        /\ Answer(c)
        /\ UNCHANGED <<lastId, tenantDbs, pools, sound, muddled, late, requests>>

\* RecoverTenant makes the row active, whatever it was before it was deleted.
RecoverTenant(t) ==
    /\ t \in Kept \intersect softDeleted /\ requests < MaxTenantCalls
    /\ requests' = requests + 1
    /\ softDeleted' = softDeleted \ {t}
    /\ tstatus' = [tstatus EXCEPT ![t] = "active"]
    /\ muddled' = IF t \in sound /\ \A c \in TenantCalls : tenantCall[c].id # t
                  THEN muddled ELSE muddled \union {slug[t]}
    /\ UNCHANGED <<slug, lastId, tenantDbs, pools, tenantCall, sound, late, slips>>

\* A statement fails, or the context of the request ends: it goes no further.
Drop(c) ==
    /\ tenantCall[c].at \notin {"idle", "unpool"} /\ Answer(c)
    /\ UNCHANGED <<tenantRow, tenantDbs, pools, sound, muddled, late, slips, requests>>

\* The instance crashes, with its requests and its pools.
InstanceCrash ==
    /\ tenantCall' = [c \in TenantCalls |-> Free]
    /\ pools' = {} /\ late' = {}
    /\ UNCHANGED <<tenantRow, tenantDbs, sound, muddled, slips, requests>>

(***************************************************************************)
(* The pools.                                                              *)
(***************************************************************************)
\* GetPool: the row is read with no lock; a tenant being created has a pool too.
GetPool(c, t) ==
    /\ t \in Seen /\ tstatus[t] # "deleting"
    /\ Serve(c, [at |-> "open", does |-> "pool", id |-> t, slug |-> slug[t]])
    /\ UNCHANGED <<tenantRow, tenantDbs, pools, sound, muddled, late, slips>>

\* getOrCreatePool: pools of other tenants may be evicted to make room.
OpenPool(c) ==
    LET t == tenantCall[c].id
    IN  /\ tenantCall[c].at = "open"
        /\ \/ t \in pools /\ UNCHANGED <<pools, late>>
           \/ /\ t \notin pools
              /\ \E gone \in SUBSET pools :
                   /\ pools' = (pools \ gone) \union {t}
                   /\ late' = (late \ gone) \union ({t} \ Seen)
        /\ Answer(c)
        /\ UNCHANGED <<tenantRow, tenantDbs, sound, muddled, slips, requests>>

TenantNext ==
    \/ \E c \in TenantCalls :
         \/ \E s \in Slugs : CheckMaxTenants(c, s)
         \/ \E t \in Ids : GetTenant(c, t, "soft") \/ GetTenant(c, t, "hard") \/ GetPool(c, t)
         \/ CreateTenant(c) \/ CreateTenantDb(c) \/ Provision(c)
         \/ RollbackTenantDatabase(c) \/ FinishTenant(c)
         \/ SoftDeleteTenant(c) \/ RemovePool(c) \/ DropTenantDb(c) \/ HardDeleteTenant(c)
         \/ OpenPool(c) \/ Drop(c)
    \/ \E t \in Ids : RecoverTenant(t)
    \/ InstanceCrash

TenantSpec == TenantInit /\ [][TenantNext]_tenantVars

(***************************************************************************)
(* Properties.                                                             *)
(***************************************************************************)
TenantTypeOK ==
    /\ slug \in [Ids -> Slugs \union {NoSlug}]
    /\ tstatus \in [Ids -> {"none", "creating", "active", "error", "deleting"}]
    /\ softDeleted \subseteq Ids /\ pools \subseteq Ids
    /\ sound \subseteq Ids /\ late \subseteq Ids
    /\ lastId \in Ids \union {0}
    /\ tenantDbs \subseteq Slugs /\ muddled \subseteq Slugs
    /\ tenantCall \in [TenantCalls ->
         [at : {"idle", "insert", "createdb", "provision", "rollback", "activate", "failed",
                "softdelete", "unpool", "drop", "remove", "open"},
          does : {"none", "create", "soft", "hard", "pool"},
          id : Ids \union {NoId}, slug : Slugs \union {NoSlug}]]
    /\ slips \in 0..MaxSlips /\ requests \in 0..MaxTenantCalls

\* An active tenant has its database, whatever failed and however the requests
\* for tenants of the same slug were ordered, unless a recovery took up a tenant
\* that was not whole or two operations ran on one tenant at once.
ActiveHasDatabase ==
    \A t \in Seen : tstatus[t] = "active" => slug[t] \in tenantDbs \union muddled

\* No database outlives its tenant: the database of a slug has a row, with which
\* it can be deleted.
DatabaseHasTenant ==
    \A s \in tenantDbs \ muddled : \E t \in Kept : slug[t] = s

\* A deletion takes the pool of the tenant from the cache: a pool of a tenant
\* that is soft deleted is there only as long as RemovePool has still to come, or
\* when a request had read the tenant before and opened it afterwards.
PoolsOfTheSeen ==
    \A t \in (pools \intersect softDeleted) \ late :
      \E c \in TenantCalls : tenantCall[c].id = t /\ tenantCall[c].at = "unpool"

\* Deleting and creating again: no two tenants ever have the same database.
OneTenantPerDatabase ==
    \A t, u \in Kept : slug[t] = slug[u] => t = u

\* Tenants and databases belong together one to one, but for those that a recovery or
\* overlapping operations muddled.
TenantsMatchDatabases == ActiveHasDatabase /\ DatabaseHasTenant /\ OneTenantPerDatabase
=============================================================================
