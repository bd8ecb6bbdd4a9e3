---------------------------- MODULE MCDelivery ----------------------------
(***************************************************************************)
(* Small instances of the components that pass events, messages and log    *)
(* entries on, and of the branch router, whose callers wait.  They share no*)
(* state, so that one run checks them side by side: `part' names the       *)
(* component of a behaviour, and the others rest.                          *)
(***************************************************************************)
EXTENDS WebhookDelivery, RealtimeConnections, LogBatcher, BranchPools, TLC

CONSTANTS w1, w2, s1, s2, h1, c1, c2

VARIABLE part

OneHook == [e \in Events |-> h1]
OneServiceEach == w1 :> s1 @@ w2 :> s2
OneOwner == [c \in Conns |-> "owner"]

SameSlug == [b \in RoutedBranches |-> 1]

MCInit ==
    /\ part \in {"hooks", "realtime", "logs", "pools"}
    /\ HookInit /\ RealtimeInit /\ BatcherInit /\ PoolsInit

MCNext ==
    /\ UNCHANGED part
    /\ \/ part = "hooks" /\ HookNext /\ UNCHANGED <<realtimeVars, batcherVars, poolVars>>
       \/ part = "realtime" /\ RealtimeNext /\ UNCHANGED <<hookVars, batcherVars, poolVars>>
       \/ part = "logs" /\ BatcherNext /\ UNCHANGED <<hookVars, realtimeVars, poolVars>>
       \/ part = "pools" /\ PoolsNext /\ UNCHANGED <<hookVars, realtimeVars, batcherVars>>

MCSpec ==
    /\ MCInit
    /\ [][MCNext]_<<part, hookVars, realtimeVars, batcherVars, poolVars>>
    /\ \/ part = "hooks" /\ HookFairness
       \/ part = "realtime" /\ RealtimeFairness
       \/ part = "logs" /\ BatcherFairness
       \/ part = "pools" /\ PoolsFairness
=============================================================================
