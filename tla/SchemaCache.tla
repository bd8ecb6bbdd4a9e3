----------------------------- MODULE SchemaCache -----------------------------
(***************************************************************************)
(* The schema cache of each instance (internal/database/schema_cache.go):  *)
(* requests refresh it when it is stale or older than its TTL; whoever     *)
(* changes the schema invalidates the cache of the own instance and        *)
(* publishes that to the caches of all instances.                          *)
(***************************************************************************)
EXTENDS Naturals

CONSTANTS
    Servers,        \* instances, each with one cache
    Readers,        \* requests that need the cache
    ReadAt,         \* the instance that serves each of them
    Alterers,       \* requests that change the schema
    AlteredAt       \* the instance that serves each of them

ASSUME CacheAssumption ==
    ReadAt \in [Readers -> Servers] /\ AlteredAt \in [Alterers -> Servers]

VARIABLES
    version,        \* of the schema: the changes that have been committed
    cached,         \* the changes that each cache knows of
    stale,          \* SchemaCache.stale
    expired,        \* more than the TTL has passed since lastRefresh
    reader,         \* each reader: "idle", "refreshing" or "fetched"
    fetched,        \* the changes that its Refresh has read
    alterer,        \* "start", "altered", "invalidated" or "done"
    inbox,          \* invalidations on their way to each instance, by their sender
    outrun,         \* history: of a reader's Refresh, an invalidation came after its read
    missed          \* history: an invalidation of what the cache holds came to nothing

cacheVars == <<version, cached, stale, expired, reader, fetched, alterer, inbox, outrun, missed>>

CacheInit ==
    /\ version = {}
    /\ cached = [s \in Servers |-> {}]
    /\ stale = [s \in Servers |-> TRUE]
    /\ expired = [s \in Servers |-> TRUE]
    /\ reader = [r \in Readers |-> "idle"]
    /\ fetched = [r \in Readers |-> {}]
    /\ alterer = [a \in Alterers |-> "start"]
    /\ inbox = [s \in Servers |-> {}]
    /\ outrun = [r \in Readers |-> FALSE]
    /\ missed = [s \in Servers |-> FALSE]

(***************************************************************************)
(* Requests that read.                                                     *)
(***************************************************************************)
NeedsRefresh(s) == stale[s] \/ expired[s]

\* GetTable, GetAllTables, IsTableWritable ...: a cache that is fresh answers at once.
StartRefresh(r) ==
    /\ reader[r] = "idle" /\ NeedsRefresh(ReadAt[r])
    /\ reader' = [reader EXCEPT ![r] = "refreshing"]
    /\ UNCHANGED <<version, cached, stale, expired, fetched, alterer, inbox, outrun, missed>>

\* The database is read without the lock.
Fetch(r) ==
    /\ reader[r] = "refreshing"
    /\ reader' = [reader EXCEPT ![r] = "fetched"]
    /\ fetched' = [fetched EXCEPT ![r] = version]
    /\ outrun' = [outrun EXCEPT ![r] = FALSE]
    /\ UNCHANGED <<version, cached, stale, expired, alterer, inbox, missed>>

FetchFails(r) ==
    /\ reader[r] = "refreshing"
    /\ reader' = [reader EXCEPT ![r] = "idle"]
    /\ UNCHANGED <<version, cached, stale, expired, fetched, alterer, inbox, outrun, missed>>

\* The maps are swapped and the cache is fresh, whatever happened since the read.
Swap(r) ==
    LET s == ReadAt[r]
    IN  /\ reader[r] = "fetched"
        /\ reader' = [reader EXCEPT ![r] = "idle"]
        /\ cached' = [cached EXCEPT ![s] = fetched[r]]
        /\ stale' = [stale EXCEPT ![s] = FALSE]
        /\ expired' = [expired EXCEPT ![s] = FALSE]
        /\ missed' = [missed EXCEPT ![s] = outrun[r]]
        /\ fetched' = [fetched EXCEPT ![r] = {}]
        /\ outrun' = [outrun EXCEPT ![r] = FALSE]
        /\ UNCHANGED <<version, alterer, inbox>>

Expire(s) ==
    /\ ~expired[s]
    /\ expired' = [expired EXCEPT ![s] = TRUE]
    /\ UNCHANGED <<version, cached, stale, reader, fetched, alterer, inbox, outrun, missed>>

(***************************************************************************)
(* Requests that change the schema.                                        *)
(***************************************************************************)
Alter(a) ==
    /\ alterer[a] = "start"
    /\ alterer' = [alterer EXCEPT ![a] = "altered"]
    /\ version' = version \union {a}
    /\ UNCHANGED <<cached, stale, expired, reader, fetched, inbox, outrun, missed>>

\* The readers at s that have read the database: what they read may be old by now.
Outrun(s) == [r \in Readers |-> outrun[r] \/ (ReadAt[r] = s /\ reader[r] = "fetched")]

\* InvalidateAll: first the own cache ...
InvalidateOwn(a) ==
    LET s == AlteredAt[a]
    IN  /\ alterer[a] = "altered"
        /\ alterer' = [alterer EXCEPT ![a] = "invalidated"]
        /\ stale' = [stale EXCEPT ![s] = TRUE]
        /\ outrun' = Outrun(s)
        /\ UNCHANGED <<version, cached, expired, reader, fetched, inbox, missed>>

\* Mutant of Addressees: only the own instance is told.
AddresseesOwn(a) == {AlteredAt[a]}

Addressees(a) == Servers

\* ... then Publish; its error is logged.
PublishInvalidation(a) ==
    /\ alterer[a] = "invalidated"
    /\ alterer' = [alterer EXCEPT ![a] = "done"]
    /\ inbox' = [s \in Servers |-> IF s \in Addressees(a) THEN inbox[s] \union {a} ELSE inbox[s]]
    /\ UNCHANGED <<version, cached, stale, expired, reader, fetched, outrun, missed>>

\* handleInvalidation
ReceiveInvalidation(s, a) ==
    /\ a \in inbox[s]
    /\ inbox' = [inbox EXCEPT ![s] = @ \ {a}]
    /\ stale' = [stale EXCEPT ![s] = TRUE]
    /\ outrun' = Outrun(s)
    /\ UNCHANGED <<version, cached, expired, reader, fetched, alterer, missed>>

\* Pub/sub delivers to whoever listens just then.
LoseInvalidation(s, a) ==
    /\ a \in inbox[s]
    /\ inbox' = [inbox EXCEPT ![s] = @ \ {a}]
    /\ missed' = [missed EXCEPT ![s] = TRUE]
    /\ outrun' = Outrun(s)
    /\ UNCHANGED <<version, cached, stale, expired, reader, fetched, alterer>>

CacheNext ==
    \/ \E r \in Readers : StartRefresh(r) \/ Fetch(r) \/ FetchFails(r) \/ Swap(r)
    \/ \E a \in Alterers :
         \/ Alter(a) \/ InvalidateOwn(a) \/ PublishInvalidation(a)
         \/ \E s \in Servers : ReceiveInvalidation(s, a) \/ LoseInvalidation(s, a)
    \/ \E s \in Servers : Expire(s)

CacheSpec == CacheInit /\ [][CacheNext]_cacheVars

(***************************************************************************)
(* Properties.                                                             *)
(***************************************************************************)
CacheTypeOK ==
    /\ version \subseteq Alterers
    /\ cached \in [Servers -> SUBSET Alterers]
    /\ stale \in [Servers -> BOOLEAN] /\ expired \in [Servers -> BOOLEAN]
    /\ reader \in [Readers -> {"idle", "refreshing", "fetched"}]
    /\ fetched \in [Readers -> SUBSET Alterers]
    /\ alterer \in [Alterers -> {"start", "altered", "invalidated", "done"}]
    /\ inbox \in [Servers -> SUBSET Alterers]
    /\ outrun \in [Readers -> BOOLEAN] /\ missed \in [Servers -> BOOLEAN]

\* A cache that answers without a refresh knows every change whose invalidation has
\* reached it, unless what it holds was read before an invalidation and swapped in
\* after it, or an invalidation was lost.
InvalidatedIsReread ==
    \A s \in Servers, a \in Alterers :
      alterer[a] = "done" /\ a \notin inbox[s] /\ ~missed[s] /\ ~NeedsRefresh(s)
      => a \in cached[s]
=============================================================================
