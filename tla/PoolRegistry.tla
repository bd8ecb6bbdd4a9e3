---------------------------- MODULE PoolRegistry ----------------------------
(***************************************************************************)
(* What the router promises to the requests of an instance: a registry of  *)
(* pools in which everything happens at once.  A branch has a pool or none;*)
(* the pools are in the order of their use, their connections are counted, *)
(* and a request is handed the pool that its branch has at that moment.    *)
(***************************************************************************)
EXTENDS Naturals, Sequences, SequencesExt

CONSTANTS Users, Branches, Pools, PoolConns, MaxConns

VARIABLES
    pool,       \* the pool of each branch, or 0
    order,      \* the pools, the least recently used first
    count,      \* connections of all pools
    closed,     \* pools that were closed
    hand        \* the branch and the pool that each user was handed, or nothing
vars == <<pool, order, count, closed, hand>>

Init ==
    /\ pool = [b \in Branches |-> 0] /\ order = <<>> /\ count = 0 /\ closed = {}
    /\ hand = [u \in Users |-> <<>>]

ToBack(p) == Append(RemoveFirst(order, p), p)
Hand(u, b, p) == hand[u] = <<>> /\ hand' = [hand EXCEPT ![u] = <<b, p>>]

Get(u, b) ==
    /\ pool[b] # 0
    /\ Hand(u, b, pool[b])
    /\ order' \in {order, ToBack(pool[b])}
    /\ UNCHANGED <<pool, count, closed>>

Touch(b) ==
    /\ pool[b] # 0
    /\ order' = ToBack(pool[b])
    /\ UNCHANGED <<pool, count, closed, hand>>

\* A new pool, as long as the connections are below the limit.
Open(u, b, p) ==
    /\ pool[b] = 0 /\ count < MaxConns
    /\ p \notin closed /\ \A c \in Branches : pool[c] # p
    /\ pool' = [pool EXCEPT ![b] = p]
    /\ order' = Append(order, p)
    /\ count' = count + PoolConns
    /\ Hand(u, b, p)
    /\ UNCHANGED closed

Close(b) ==
    /\ pool[b] # 0
    /\ pool' = [pool EXCEPT ![b] = 0]
    /\ order' = RemoveFirst(order, pool[b])
    /\ count' = count - PoolConns
    /\ closed' = closed \union {pool[b]}
    /\ UNCHANGED hand

Leave(u) ==
    /\ hand' = [hand EXCEPT ![u] = <<>>]
    /\ UNCHANGED <<pool, order, count, closed>>

Next ==
    \/ \E u \in Users, b \in Branches : Get(u, b) \/ \E p \in Pools : Open(u, b, p)
    \/ \E b \in Branches : Touch(b) \/ Close(b)
    \/ \E u \in Users : Leave(u)

Spec == Init /\ [][Next]_vars
=============================================================================
