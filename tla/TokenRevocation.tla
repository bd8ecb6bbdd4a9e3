-------------------------- MODULE TokenRevocation --------------------------
(***************************************************************************)
(* User-wide revocation of tokens (internal/auth/token_blacklist.go and the*)
(* middleware that asks it): a marker in the database, with which tokens   *)
(* issued before it are refused, and in every instance a cache of the last *)
(* marker.  A check reads the cache, or reads the database and then writes *)
(* the cache; a revocation drops the entry of its own instance and then    *)
(* inserts the marker.                                                     *)
(***************************************************************************)
EXTENDS Integers, FiniteSets

CONSTANTS
    Auths,          \* instances of TokenBlacklistService
    Checks,         \* requests that carry an access token
    Revokers,       \* calls of RevokeAllUserTokens
    Tokens,         \* access tokens of the user
    CacheTTL,       \* cacheTTL, in ticks
    Second,         \* ticks in a second, to which a token's iat is truncated
    Patience,       \* ticks that a check may take
    MaxClock        \* bound of the model: ticks

ASSUME RevocationAssumption ==
    /\ Patience \in Nat /\ MaxClock \in Nat
    /\ CacheTTL \in Nat \ {0} /\ Second \in Nat \ {0}

VARIABLES
    clock,
    born,       \* when each token was issued
    marker,     \* created_at of the last marker
    killed,     \* history: the first marker after each token was issued
    cache,      \* userRevocationCache of each instance
    check,      \* each check: its token, instance, step and what it read
    revoker     \* the instance of each revocation on its way

revocationVars == <<clock, born, marker, killed, cache, check, revoker>>

Ticks == 0..MaxClock
Never == -1
NoEntry == [at |-> Never, revoked |-> Never]
NoCheck == [step |-> "idle", token |-> Never, auth |-> Never, began |-> Never, read |-> Never]

RevocationInit ==
    /\ clock = 0
    /\ born = [k \in Tokens |-> Never]
    /\ marker = Never
    /\ killed = [k \in Tokens |-> Never]
    /\ cache = [i \in Auths |-> NoEntry]
    /\ check = [c \in Checks |-> NoCheck]
    /\ revoker = [v \in Revokers |-> "new"]

\* Time passes, for no check longer than it may take.
Tick ==
    /\ clock < MaxClock
    /\ \A c \in Checks : check[c].step \in {"cache", "query", "store"} =>
         clock < check[c].began + Patience
    /\ clock' = clock + 1
    /\ UNCHANGED <<born, marker, killed, cache, check, revoker>>

IssueToken(k) ==
    /\ born[k] = Never
    /\ born' = [born EXCEPT ![k] = clock]
    /\ UNCHANGED <<clock, marker, killed, cache, check, revoker>>

\* The middleware of an instance takes a token that is not blacklisted by itself.
BeginCheck(c, k, i) ==
    /\ check[c].step \in {"idle", "accepted", "refused"} /\ born[k] # Never
    /\ check' = [check EXCEPT ![c] = [step |-> "cache", token |-> k, auth |-> i,
                                      began |-> clock, read |-> Never]]
    /\ UNCHANGED <<clock, born, marker, killed, cache, revoker>>

\* tokenIssuedAt.Before(revokedAt): iat holds whole seconds.
IssuedBefore(k, t) == born[k] - (born[k] % Second) < t

\* IsTokenRevoked from the time of the last marker.
Decide(c, t) ==
    check' = [check EXCEPT ![c].step =
                IF t # Never /\ IssuedBefore(check[c].token, t) THEN "refused" ELSE "accepted"]

\* Mutant of Fresh: an entry lasts while it names no marker.
FreshForEver(i) == cache[i].at # Never

Fresh(i) == cache[i].at # Never /\ clock - cache[i].at < CacheTTL

\* getUserRevocationTime: a fresh entry is used, an old one removed.
LookInCache(c) ==
    LET i == check[c].auth
    IN  /\ check[c].step = "cache"
        /\ IF Fresh(i)
           THEN Decide(c, cache[i].revoked) /\ UNCHANGED cache
           ELSE /\ check' = [check EXCEPT ![c].step = "query"]
                /\ cache' = [cache EXCEPT ![i] = NoEntry]
        /\ UNCHANGED <<clock, born, marker, killed, revoker>>

\* The query; after an error the answer depends on the operation.
QueryMarker(c) ==
    /\ check[c].step = "query"
    /\ \/ check' = [check EXCEPT ![c].step = "store", ![c].read = marker]
       \/ check' = [check EXCEPT ![c] = NoCheck]
    /\ UNCHANGED <<clock, born, marker, killed, cache, revoker>>

Entry(t) == [at |-> clock, revoked |-> t]

\* The entry is stored with the time of storing, and the check decided.
StoreEntry(c) ==
    /\ check[c].step = "store"
    /\ cache' = [cache EXCEPT ![check[c].auth] = Entry(check[c].read)]
    /\ Decide(c, check[c].read)
    /\ UNCHANGED <<clock, born, marker, killed, revoker>>

\* RevokeAllUserTokens: first invalidateUserCache ...
InvalidateUserCache(v, i) ==
    /\ revoker[v] = "new"
    /\ cache' = [cache EXCEPT ![i] = NoEntry]
    /\ revoker' = [revoker EXCEPT ![v] = "insert"]
    /\ UNCHANGED <<clock, born, marker, killed, check>>

\* ... then the marker, or an error that the callers log.
InsertMarker(v) ==
    /\ revoker[v] = "insert"
    /\ revoker' = [revoker EXCEPT ![v] = "done"]
    /\ \/ /\ marker' = clock
          /\ killed' = [k \in Tokens |-> IF born[k] \in 0..(clock - 1) /\ killed[k] = Never
                                         THEN clock ELSE killed[k]]
       \/ UNCHANGED <<marker, killed>>
    /\ UNCHANGED <<clock, born, cache, check>>

RevocationNext ==
    \/ Tick
    \/ \E k \in Tokens : IssueToken(k)
    \/ \E c \in Checks : \/ LookInCache(c) \/ QueryMarker(c) \/ StoreEntry(c)
                         \/ \E k \in Tokens, i \in Auths : BeginCheck(c, k, i)
    \/ \E v \in Revokers : InsertMarker(v) \/ \E i \in Auths : InvalidateUserCache(v, i)

RevocationSpec == RevocationInit /\ [][RevocationNext]_revocationVars

(***************************************************************************)
(* Properties.                                                             *)
(***************************************************************************)
RevocationTypeOK ==
    /\ clock \in Ticks
    /\ born \in [Tokens -> Ticks \union {Never}]
    /\ marker \in Ticks \union {Never}
    /\ killed \in [Tokens -> Ticks \union {Never}]
    /\ cache \in [Auths -> [at : Ticks \union {Never}, revoked : Ticks \union {Never}]]
    /\ check \in [Checks -> [step : {"idle", "cache", "query", "store", "accepted", "refused"},
                             token : Tokens \union {Never}, auth : Auths \union {Never},
                             began : Ticks \union {Never}, read : Ticks \union {Never}]]
    /\ revoker \in [Revokers -> {"new", "insert", "done"}]

\* A token that was issued before a marker is refused, on any instance, by each
\* check that begins CacheTTL, and the time a check may take, after the marker:
\* also if a check that read the database before writes the cache after it.
RevokedSoonRefused ==
    \A c \in Checks : check[c].step = "accepted" /\ killed[check[c].token] # Never =>
      check[c].began < killed[check[c].token] + CacheTTL + Patience

\* A token of a later second than every marker is not refused, whatever the
\* caches hold.
LaterTokensLive ==
    \A c \in Checks : check[c].step = "refused" =>
      marker - (marker % Second) >= born[check[c].token] - (born[check[c].token] % Second)

\* A revocation reaches the tokens it is meant for, in time, and no others.
RevocationExact == RevokedSoonRefused /\ LaterTokensLive
=============================================================================
