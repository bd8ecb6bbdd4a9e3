----------------------------- MODULE MCRequests -----------------------------
(***************************************************************************)
(* Small instances of the components whose operations run concurrently in  *)
(* the requests of several instances.  They share no state, so that one run*)
(* checks them side by side: `part' names the component that moves in a    *)
(* behaviour, and the others rest.                                         *)
(***************************************************************************)
EXTENDS WebhookDelivery, WebhookTriggers, PresenceTracking, PostgresPubSub,
        IdempotencyKeys, SessionRotation, TokenRevocation, LoginLockout,
        BranchLifecycle, TenantDatabases, ChunkedUpload, MigrationExecutor,
        SchemaCache, BranchPools, TLC

CONSTANTS a1, a2, a3, b1, b2

VARIABLE part

OneHook == [e \in Events |-> b1]
OneServiceEach == a1 :> b1 @@ a2 :> b2
TwoOnSchema == a1 :> "schema" @@ a2 :> "schema" @@ a3 :> "logs"
SameButLast == a1 :> "A" @@ a2 :> "A" @@ a3 :> "B"
BranchTenant == a1 :> "t" @@ a2 :> "t" @@ a3 :> "t" @@ b1 :> "i"
BranchSlug == a1 :> 1 @@ a2 :> 2 @@ a3 :> 3 @@ b1 :> 1
BranchDatabase == a1 :> 1 @@ a2 :> 2 @@ a3 :> 3 @@ b1 :> 4
TwoOnOneChunk == a1 :> 1 @@ a2 :> 1 @@ a3 :> 2
AllOnFirst == [r \in Readers |-> b1]
OneOnEach == a1 :> b1 @@ a2 :> b2

MCInit ==
    /\ part \in {"hooks", "triggers", "presence", "pubsub", "keys", "sessions", "tokens",
                 "lockout", "branches", "tenants", "upload", "migrations", "cache", "pools"}
    /\ HookInit /\ TriggerInit /\ PresenceInit /\ PubSubInit /\ KeyInit /\ RotationInit
    /\ RevocationInit /\ LockoutInit /\ BranchInit /\ TenantInit /\ ChunkedInit
    /\ MigrationInit /\ CacheInit /\ PoolsInit
    /\ part # "upload" => file = "none"

MCNext ==
    /\ \/ part = "hooks" /\ HookNext
       \/ part = "triggers" /\ TriggerNext
       \/ part = "presence" /\ PresenceNext
       \/ part = "pubsub" /\ PubSubNext
       \/ part = "keys" /\ KeyNext
       \/ part = "sessions" /\ RotationNext
       \/ part = "tokens" /\ RevocationNext
       \/ part = "lockout" /\ LockoutNext
       \/ part = "branches" /\ BranchNext
       \/ part = "tenants" /\ TenantNext
       \/ part = "upload" /\ ChunkedNext
       \/ part = "migrations" /\ MigrationNext
       \/ part = "cache" /\ CacheNext
       \/ part = "pools" /\ PoolsNext
    /\ UNCHANGED part
    /\ IF part = "hooks" THEN TRUE ELSE UNCHANGED hookVars
    /\ IF part = "triggers" THEN TRUE ELSE UNCHANGED triggerVars
    /\ IF part = "presence" THEN TRUE ELSE UNCHANGED presenceVars
    /\ IF part = "pubsub" THEN TRUE ELSE UNCHANGED pubsubVars
    /\ IF part = "keys" THEN TRUE ELSE UNCHANGED keyVars
    /\ IF part = "sessions" THEN TRUE ELSE UNCHANGED sessionVars
    /\ IF part = "tokens" THEN TRUE ELSE UNCHANGED revocationVars
    /\ IF part = "lockout" THEN TRUE ELSE UNCHANGED lockoutVars
    /\ IF part = "branches" THEN TRUE ELSE UNCHANGED branchVars
    /\ IF part = "tenants" THEN TRUE ELSE UNCHANGED tenantVars
    /\ IF part = "upload" THEN TRUE ELSE UNCHANGED chunkedVars
    /\ IF part = "migrations" THEN TRUE ELSE UNCHANGED migrationVars
    /\ IF part = "cache" THEN TRUE ELSE UNCHANGED cacheVars
    /\ IF part = "pools" THEN TRUE ELSE UNCHANGED poolVars

allVars == <<part, hookVars, triggerVars, presenceVars, pubsubVars, keyVars, sessionVars,
             revocationVars, lockoutVars, branchVars, tenantVars, chunkedVars, migrationVars,
             cacheVars, poolVars>>
MCSpec == MCInit /\ [][MCNext]_allVars
=============================================================================
