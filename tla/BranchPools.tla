----------------------------- MODULE BranchPools -----------------------------
(***************************************************************************)
(* The pools of connections to branch databases that an instance keeps     *)
(* (internal/branching/router.go): requests look pools up, create them and *)
(* evict others to make room, while branches are deleted and reset and     *)
(* idle pools are closed.  A pool that is closed waits, under poolsMu,     *)
(* until its connections have been returned.                               *)
(***************************************************************************)
EXTENDS Naturals, Sequences, FiniteSets, SequencesExt

CONSTANTS
    Lookups, Nobody,    \* requests and background loops; nobody holds poolsMu
    RoutedBranches,     \* branches of all tenants
    BranchSlugOf,       \* the slug of each, unique in its tenant
    ClosedBy,           \* what closes pools: "delete", "reset" and "idle"
    PoolConns,          \* MaxConns of a pool
    MaxConns,           \* Router.maxConns
    MaxPools            \* bound of the model: pools created

ASSUME PoolAssumption ==
    /\ Nobody \notin Lookups
    /\ ClosedBy \subseteq {"delete", "reset", "idle"}
    /\ PoolConns \in Nat \ {0} /\ MaxConns \in Nat \ {0} /\ MaxPools \in Nat

PoolIds == 1..MaxPools
NoPool == 0

VARIABLES
    poolOf,     \* Router.pools: the pool of each branch, or NoPool
    lruList,    \* Router.lruList: pools, the least recently used first
    branchOf,   \* the branch of each pool created so far
    conns,      \* Router.currentConns
    poolsMu,    \* who has locked poolsMu
    closedPools,\* pools that are closed or closing
    lookup,     \* what each caller does, to which branch, and its pool
    branchStatus,   \* "ready", "changing" (its database may be gone) or "gone"
    between     \* history: branches whose pool was made when a deletion had closed it

routerVars == <<poolOf, lruList, conns, closedPools>>
poolVars == <<routerVars, branchOf, poolsMu, lookup, branchStatus, between>>

SomeBranch == CHOOSE b \in RoutedBranches : TRUE
IdleRequest == [at |-> "idle", does |-> "query", branch |-> SomeBranch, pool |-> NoPool]
Cached == {p \in DOMAIN branchOf : \E b \in RoutedBranches : poolOf[b] = p}

PoolsInit ==
    /\ poolOf = [b \in RoutedBranches |-> NoPool]
    /\ lruList = <<>> /\ branchOf = <<>>
    /\ conns = 0 /\ poolsMu = Nobody /\ closedPools = {}
    /\ lookup = [r \in Lookups |-> IdleRequest]
    /\ branchStatus = [b \in RoutedBranches |-> "ready"]
    /\ between = {}

Is(r, at) == lookup[r].at = at
Becomes(r, at) == lookup' = [lookup EXCEPT ![r].at = at]
Gets(r, p) == lookup' = [lookup EXCEPT ![r].at = "holding", ![r].pool = p]
Return(r) == lookup' = [lookup EXCEPT ![r] = IdleRequest]
Starts(r, does, b, at) ==
    /\ Is(r, "idle")
    /\ lookup' = [lookup EXCEPT ![r] =
         [at |-> at, does |-> does, branch |-> b, pool |-> IF at = "touch" THEN poolOf[b] ELSE NoPool]]

\* MoveToBack does nothing for an element that was removed from the list.
MovedToBack(p) ==
    IF Contains(lruList, p) THEN Append(RemoveFirst(lruList, p), p) ELSE lruList

\* pool.Close has begun; the pool is out of the list and of the count.
BeginClose(p) ==
    /\ lruList' = RemoveFirst(lruList, p)
    /\ conns' = conns - PoolConns
    /\ closedPools' = closedPools \union {p}

(***************************************************************************)
(* GetPoolForBranch, and the query for which the pool was looked up.       *)
(***************************************************************************)
GetPoolForBranch(r, b) ==
    /\ poolsMu = Nobody
    /\ Starts(r, "query", b, IF poolOf[b] = NoPool THEN "create" ELSE "touch")
    /\ UNCHANGED <<routerVars, branchOf, poolsMu, branchStatus, between>>

\* updateAccess: the entry of the branch is looked up once more.
UpdateAccess(r) ==
    LET p == poolOf[lookup[r].branch]
    IN  /\ Is(r, "touch") /\ poolsMu = Nobody
        /\ lruList' = MovedToBack(p)
        /\ Becomes(r, "holding")
        /\ UNCHANGED <<poolOf, conns, closedPools, branchOf, poolsMu, branchStatus, between>>

\* The first connection; a pool that was closed meanwhile refuses.
Acquire(r) ==
    LET p == lookup[r].pool
    IN  /\ Is(r, "holding")
        /\ IF p \in closedPools THEN Return(r) ELSE Becomes(r, "using")
        /\ UNCHANGED <<routerVars, branchOf, poolsMu, branchStatus, between>>

QueryEnds(r) ==
    /\ Is(r, "using")
    /\ Return(r)
    /\ UNCHANGED <<routerVars, branchOf, poolsMu, branchStatus, between>>

\* Mutant of LimitReached: one pool too many.
LimitReachedLate == conns > MaxConns

(***************************************************************************)
(* createPoolForBranch, under poolsMu to its end.                          *)
(***************************************************************************)
LimitReached == conns >= MaxConns

\* Mutant of DoubleCheck: a pool found now is touched by updateAccess, which locks again.
DoubleCheckAndTouch(r) ==
    LET p == poolOf[lookup[r].branch]
    IN  /\ Is(r, "create") /\ poolsMu = Nobody
        /\ poolsMu' = r
        /\ Becomes(r, IF p # NoPool THEN "touch" ELSE IF LimitReached THEN "evict" ELSE "resolve")
        /\ UNCHANGED <<routerVars, branchOf, branchStatus, between>>

\* Another lookup may have made the pool before this one got the lock.
DoubleCheck(r) ==
    LET p == poolOf[lookup[r].branch]
    IN  /\ Is(r, "create") /\ poolsMu = Nobody
        /\ IF p # NoPool
           THEN /\ lruList' = MovedToBack(p)
                /\ Gets(r, p) /\ UNCHANGED poolsMu
           ELSE /\ poolsMu' = r /\ UNCHANGED lruList
                /\ Becomes(r, IF LimitReached THEN "evict" ELSE "resolve")
        /\ UNCHANGED <<poolOf, conns, closedPools, branchOf, branchStatus, between>>

\* evictLRUPool
EvictLRUPool(r) ==
    /\ Is(r, "evict")
    /\ IF lruList = <<>>
       THEN Return(r) /\ poolsMu' = Nobody /\ UNCHANGED <<lruList, conns, closedPools>>
       ELSE /\ BeginClose(Head(lruList))
            /\ lookup' = [lookup EXCEPT ![r].at = "evicting", ![r].pool = Head(lruList)]
            /\ UNCHANGED poolsMu
    /\ UNCHANGED <<poolOf, branchOf, branchStatus, between>>

\* pool.Close returns when nobody has a connection of the pool any more.
InUse(p) == \E r \in Lookups : lookup[r].at = "using" /\ lookup[r].pool = p

Removed(p) == [poolOf EXCEPT ![branchOf[p]] = NoPool]

Evicted(r) ==
    LET p == lookup[r].pool
    IN  /\ Is(r, "evicting") /\ ~InUse(p)
        /\ poolOf' = Removed(p)
        /\ lookup' = [lookup EXCEPT ![r].at = "resolve", ![r].pool = NoPool]
        /\ UNCHANGED <<lruList, conns, closedPools, branchOf, poolsMu, branchStatus, between>>

\* resolveBranch: the branch must be ready.
ResolveBranch(r) ==
    /\ Is(r, "resolve")
    /\ IF branchStatus[lookup[r].branch] = "ready"
       THEN Becomes(r, "connect") /\ UNCHANGED poolsMu
       ELSE Return(r) /\ poolsMu' = Nobody
    /\ UNCHANGED <<routerVars, branchOf, branchStatus, between>>

\* The new pool answers the ping and is entered.
ConnectPool(r) ==
    LET b == lookup[r].branch
        p == Len(branchOf) + 1
    IN  /\ Is(r, "connect") /\ p \in PoolIds /\ branchStatus[b] # "gone"
        /\ branchOf' = Append(branchOf, b)
        /\ poolOf' = [poolOf EXCEPT ![b] = p]
        /\ lruList' = Append(lruList, p)
        /\ conns' = conns + PoolConns
        /\ between' = IF \E d \in Lookups : lookup[d].branch = b /\ lookup[d].at \in {"mark", "drop"}
                      THEN between \union {b} ELSE between
        /\ Gets(r, p)
        /\ poolsMu' = Nobody
        /\ UNCHANGED <<closedPools, branchStatus>>

\* It cannot be made, or the ping fails.
ConnectFails(r) ==
    /\ Is(r, "connect")
    /\ Return(r) /\ poolsMu' = Nobody
    /\ UNCHANGED <<routerVars, branchOf, branchStatus, between>>

(***************************************************************************)
(* Closing: ClosePool of a deletion or a reset, and evictIdlePools.         *)
(***************************************************************************)
\* The handlers of a deletion and of a reset, and the cleanup of expired branches.
BeginChange(r, does, b) ==
    /\ branchStatus[b] # "gone"
    /\ Starts(r, does, b, "close")
    /\ UNCHANGED <<routerVars, branchOf, poolsMu, branchStatus, between>>

\* The ticker finds a pool that nobody has looked up for evictionAge; it looks again
\* under the lock.
EvictIdlePool(r, b) ==
    /\ poolOf[b] # NoPool
    /\ Starts(r, "idle", b, "close")
    /\ UNCHANGED <<routerVars, branchOf, poolsMu, branchStatus, between>>

\* Mutant of Victims: ClosePool closes the pool of the instance's own branch only.
VictimsOfInstance(r) == Cached \intersect {poolOf[SomeBranch]}

\* ClosePool knows the slug only: pools of other tenants' branches go with it.
Victims(r) ==
    LET b == lookup[r].branch
    IN  Cached \intersect
          IF lookup[r].does = "idle" THEN {poolOf[b]}
          ELSE {p \in Cached : BranchSlugOf[branchOf[p]] = BranchSlugOf[b]}

\* The lock is taken, and one pool after the other is closed.
LockForClose(r) ==
    /\ Is(r, "close") /\ poolsMu = Nobody
    /\ poolsMu' = r
    /\ Becomes(r, "closing")
    /\ UNCHANGED <<routerVars, branchOf, branchStatus, between>>

CloseNext(r) ==
    /\ Is(r, "closing")
    /\ \E p \in Victims(r) :
         BeginClose(p) /\ lookup' = [lookup EXCEPT ![r].at = "closes", ![r].pool = p]
    /\ UNCHANGED <<poolOf, branchOf, poolsMu, branchStatus, between>>

Closed(r) ==
    LET p == lookup[r].pool
    IN  /\ Is(r, "closes") /\ ~InUse(p)
        /\ poolOf' = Removed(p)
        /\ lookup' = [lookup EXCEPT ![r].at = "closing", ![r].pool = NoPool]
        /\ UNCHANGED <<lruList, conns, closedPools, branchOf, poolsMu, branchStatus, between>>

\* The lock is released; RefreshPool goes on to make the pool anew.
AllClosed(r) ==
    /\ Is(r, "closing") /\ Victims(r) = {}
    /\ poolsMu' = Nobody
    /\ CASE lookup[r].does \in {"delete", "reset"} -> Becomes(r, "mark")
         [] lookup[r].does = "refresh" -> Becomes(r, "create")
         [] OTHER -> Return(r)
    /\ UNCHANGED <<routerVars, branchOf, branchStatus, between>>

\* DeleteBranch and ResetBranch: the status, then the database.
MarkBranchChanging(r) ==
    LET b == lookup[r].branch
    IN  /\ Is(r, "mark")
        /\ IF branchStatus[b] = "gone"
           THEN Return(r) /\ UNCHANGED branchStatus
           ELSE Becomes(r, "drop") /\ branchStatus' = [branchStatus EXCEPT ![b] = "changing"]
        /\ UNCHANGED <<routerVars, branchOf, poolsMu, between>>

\* The database is dropped, or dropped and made again; either may fail.
ChangeBranch(r) ==
    LET b == lookup[r].branch
    IN  /\ Is(r, "drop")
        /\ \/ /\ lookup[r].does = "delete" /\ Return(r)
              /\ branchStatus' = [branchStatus EXCEPT ![b] = "gone"]
           \/ /\ lookup[r].does = "reset" /\ branchStatus[b] # "gone"
              /\ lookup' = [lookup EXCEPT ![r].at = "close", ![r].does = "refresh"]
              /\ branchStatus' = [branchStatus EXCEPT ![b] = "ready"]
           \/ Return(r) /\ UNCHANGED branchStatus
        /\ UNCHANGED <<routerVars, branchOf, poolsMu, between>>

Creates(r) ==
    \/ DoubleCheck(r) \/ EvictLRUPool(r) \/ Evicted(r) \/ ResolveBranch(r)
    \/ ConnectPool(r) \/ ConnectFails(r)

PoolsNext ==
    \E r \in Lookups :
      \/ \E b \in RoutedBranches :
           \/ GetPoolForBranch(r, b)
           \/ "idle" \in ClosedBy /\ EvictIdlePool(r, b)
           \/ \E does \in ClosedBy \ {"idle"} : BeginChange(r, does, b)
      \/ UpdateAccess(r) \/ Acquire(r) \/ QueryEnds(r) \/ Creates(r)
      \/ LockForClose(r) \/ CloseNext(r) \/ Closed(r) \/ AllClosed(r)
      \/ MarkBranchChanging(r) \/ ChangeBranch(r)

PoolsSpec == PoolsInit /\ [][PoolsNext]_poolVars

\* Queries end, whoever holds the lock goes on, and a mutex is granted in turn.
PoolsFairness ==
    \A r \in Lookups :
      /\ WF_poolVars(Acquire(r) \/ QueryEnds(r))
      /\ WF_poolVars(EvictLRUPool(r) \/ Evicted(r) \/ ResolveBranch(r) \/ ConnectFails(r))
      /\ WF_poolVars(CloseNext(r) \/ Closed(r) \/ AllClosed(r))
      /\ SF_poolVars(UpdateAccess(r)) /\ SF_poolVars(DoubleCheck(r)) /\ SF_poolVars(LockForClose(r))

(***************************************************************************)
(* Properties.                                                             *)
(***************************************************************************)
PoolsTypeOK ==
    /\ poolOf \in [RoutedBranches -> PoolIds \union {NoPool}]
    /\ branchOf \in Seq(RoutedBranches) /\ Len(branchOf) <= MaxPools
    /\ lruList \in Seq(PoolIds)
    /\ conns \in 0..(MaxPools * PoolConns)
    /\ poolsMu \in Lookups \union {Nobody}
    /\ closedPools \subseteq PoolIds
    /\ lookup \in [Lookups ->
         [at : {"idle", "touch", "holding", "using", "create", "evict", "evicting", "resolve",
                "connect", "close", "closing", "closes", "mark", "drop"},
          does : {"query", "delete", "reset", "refresh", "idle"},
          branch : RoutedBranches, pool : PoolIds \union {NoPool}]]
    /\ branchStatus \in [RoutedBranches -> {"ready", "changing", "gone"}]
    /\ between \subseteq RoutedBranches

\* Whichever of the three ways a pool is closed, and whatever is looked up at the same
\* time: when poolsMu is free the map, the LRU list and the count of connections
\* agree, no pool that is closed is in the map, and the limit of connections holds for
\* all pools together, to within one pool.
RouterConsistent ==
    poolsMu = Nobody =>
      /\ {lruList[i] : i \in DOMAIN lruList} = Cached
      /\ Len(lruList) = Cardinality(Cached)
      /\ conns = PoolConns * Cardinality(Cached)
      /\ conns < MaxConns + PoolConns
      /\ Cached \intersect closedPools = {}

\* A branch that was deleted has no pool, unless a lookup made it after the handler
\* of the deletion had closed the pools and before it had dropped the database.
DeletedHasNoPool ==
    \A b \in RoutedBranches : branchStatus[b] = "gone" => poolOf[b] = NoPool \/ b \in between

\* The router tells the truth about its own pools and about the branches there are.
RouterTruthful == RouterConsistent /\ DeletedHasNoPool

\* The operations of the router are those of PoolRegistry, each of which happens at once:
\* a pool is gone when its closing begins, although it stays in the map until its last
\* connection has been returned, and nobody is handed such a pool.
Registry == INSTANCE PoolRegistry WITH
    Users <- Lookups, Branches <- RoutedBranches, Pools <- PoolIds,
    pool <- [b \in RoutedBranches |-> IF poolOf[b] \in closedPools THEN NoPool ELSE poolOf[b]],
    order <- lruList, count <- conns, closed <- closedPools,
    hand <- [r \in Lookups |-> IF lookup[r].at \in {"touch", "holding", "using"}
                               THEN <<lookup[r].branch, lookup[r].pool>> ELSE <<>>]
RefinesRegistry == Registry!Spec

\* Every lookup gets the lock that it waits for, although closing a pool waits for
\* queries with the lock held: no lookup waits for itself.
LookupsReturn ==
    \A r \in Lookups : lookup[r].at \in {"touch", "create"} ~> lookup[r].at \in {"holding", "idle"}
=============================================================================
