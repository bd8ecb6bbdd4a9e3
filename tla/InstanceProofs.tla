--------------------------- MODULE InstanceProofs ---------------------------
(***************************************************************************)
(* Proofs about what each server instance keeps in its memory: who is      *)
(* present on its connections, the schema it has read, the log entries it  *)
(* gathers and the connections it serves, for any number of each.          *)
(***************************************************************************)
EXTENDS PresenceTracking, SchemaCache, LogBatcher, RealtimeConnections, FiniteSetTheorems,
        TLAPS

(***************************************************************************)
(* PresenceTracking: the two maps of the manager agree, so that the end of *)
(* a connection removes its presences and nobody else's.                   *)
(***************************************************************************)

\* What a connection tracks is in its own entry, which the cleanup works from, unless it
\* turned to another key of the channel.
Indexed ==
    \A c \in Members, ch \in Channels, k \in Keys :
      presences[ch][k] = c => connPresences[c][ch] = k \/ <<c, ch, k>> \in abandoned

\* Only a connection that is open has entries.
OnlyOpen ==
    \A c \in Members, ch \in Channels : member[c] # "open" => connPresences[c][ch] = NoKey

PresenceInv == PresenceTypeOK /\ Indexed /\ OnlyOpen /\ PresentWhileOpen

\* Initially nobody is present.
LEMMA PresenceStarts == PresenceInit => PresenceInv
BY PresenceAssumption
   DEF PresenceInit, PresenceInv, PresenceTypeOK, Indexed, OnlyOpen, PresentWhileOpen

\* A connection opens.
LEMMA ConnectKeeps == ASSUME PresenceInv, NEW c \in Members, Connect(c) PROVE PresenceInv'
<1>1. /\ member' = [member EXCEPT ![c] = "open"]
      /\ UNCHANGED <<presences, connPresences, contested, abandoned>>
  BY DEF Connect
<1>2. PresenceTypeOK'
  BY <1>1 DEF PresenceInv, PresenceTypeOK
<1>3. Indexed' /\ OnlyOpen' /\ PresentWhileOpen'
  BY <1>1 DEF PresenceInv, PresenceTypeOK, Indexed, OnlyOpen, PresentWhileOpen
<1> QED BY <1>2, <1>3 DEF PresenceInv

\* Track and Untrack: the key gets the connection x, itself or nobody, and the own entry
\* the key y, the same or none.  What the connection left, and whom it took the key from,
\* is noted.
LEMMA MessageKeeps ==
  ASSUME PresenceInv, NEW c \in Members, NEW ch \in Channels, NEW k \in Keys,
         Track(c, ch, k) \/ Untrack(c, ch, k)
  PROVE  PresenceInv'
<1>1. PICK x \in {c, NoMember}, y \in {k, NoKey} :
        /\ x = c <=> y = k
        /\ presences' = [presences EXCEPT ![ch][k] = x]
        /\ connPresences' = [connPresences EXCEPT ![c][ch] = y]
  BY PresenceAssumption DEF Track, Untrack
<1>2. member[c] = "open" /\ Noted(c, ch, k) /\ member' = member
  BY DEF Track, Untrack
<1>3. PresenceTypeOK'
  <2>1. contested' \subseteq Channels \X Keys
    BY <1>2 DEF Noted, PresenceInv, PresenceTypeOK
  <2>2. abandoned' \subseteq Members \X Channels \X Keys
    BY <1>2 DEF Noted, PresenceInv, PresenceTypeOK
  <2>3. /\ presences' \in [Channels -> [Keys -> Members \union {NoMember}]]
        /\ connPresences' \in [Members -> [Channels -> Keys \union {NoKey}]]
    BY <1>1 DEF PresenceInv, PresenceTypeOK
  <2> QED BY <1>2, <2>1, <2>2, <2>3 DEF PresenceInv, PresenceTypeOK
<1>4. Indexed'
  <2> SUFFICES ASSUME NEW d \in Members, NEW h \in Channels, NEW l \in Keys,
                      presences'[h][l] = d
               PROVE  connPresences'[d][h] = l \/ <<d, h, l>> \in abandoned'
    BY DEF Indexed
  <2>1. abandoned \subseteq abandoned'
    BY <1>2 DEF Noted
  <2>2. CASE h = ch /\ l = k
    BY <1>1, <2>2, PresenceAssumption DEF PresenceInv, PresenceTypeOK
  <2>3. CASE ~(h = ch /\ l = k)
    <3>1. presences[h][l] = d
      BY <1>1, <2>3 DEF PresenceInv, PresenceTypeOK
    <3>2. connPresences[d][h] = l \/ <<d, h, l>> \in abandoned
      BY <3>1 DEF PresenceInv, Indexed
    <3>3. CASE d = c /\ h = ch
      BY <1>2, <2>1, <2>3, <3>2, <3>3, PresenceAssumption DEF Noted
    <3>4. CASE ~(d = c /\ h = ch)
      BY <1>1, <2>1, <3>2, <3>4 DEF PresenceInv, PresenceTypeOK
    <3> QED BY <3>3, <3>4
  <2> QED BY <2>2, <2>3
<1>5. OnlyOpen'
  BY <1>1, <1>2 DEF PresenceInv, PresenceTypeOK, OnlyOpen
<1>6. PresentWhileOpen'
  <2> SUFFICES ASSUME NEW d \in Members, NEW h \in Channels, NEW l \in Keys,
                      connPresences'[d][h] = l
               PROVE  presences'[h][l] = d \/ <<h, l>> \in contested'
    BY DEF PresentWhileOpen
  <2>1. contested \subseteq contested'
    BY <1>2 DEF Noted
  <2>2. CASE d = c /\ h = ch
    BY <1>1, <2>2, PresenceAssumption DEF PresenceInv, PresenceTypeOK
  <2>3. CASE ~(d = c /\ h = ch)
    <3>1. presences[h][l] = d \/ <<h, l>> \in contested
      BY <1>1, <2>3 DEF PresenceInv, PresenceTypeOK, PresentWhileOpen
    <3>2. CASE h = ch /\ l = k
      BY <1>2, <2>1, <2>3, <3>1, <3>2, PresenceAssumption DEF Noted
    <3>3. CASE ~(h = ch /\ l = k)
      BY <1>1, <2>1, <3>1, <3>3 DEF PresenceInv, PresenceTypeOK
    <3> QED BY <3>2, <3>3
  <2> QED BY <2>2, <2>3
<1> QED BY <1>3, <1>4, <1>5, <1>6 DEF PresenceInv

\* The end of a connection: its entries go, and the keys they name.
LEMMA CleanupKeeps == ASSUME PresenceInv, NEW c \in Members, CleanupConnection(c) PROVE PresenceInv'
<1>1. /\ member' = [member EXCEPT ![c] = "left"] /\ abandoned' = abandoned
      /\ connPresences' = [connPresences EXCEPT ![c] = [ch \in Channels |-> NoKey]]
  BY DEF CleanupConnection
<1>2. \A ch \in Channels, k \in Keys :
        presences'[ch][k] = IF connPresences[c][ch] = k THEN NoMember ELSE presences[ch][k]
  BY DEF CleanupConnection, CleanedUp
<1>3. /\ contested \subseteq contested' /\ contested' \subseteq Channels \X Keys
      /\ \A ch \in Channels, k \in Keys :
           connPresences[c][ch] = k /\ presences[ch][k] \notin {NoMember, c}
           => <<ch, k>> \in contested'
  BY DEF CleanupConnection, PresenceInv, PresenceTypeOK
<1>4. PresenceTypeOK'
  <2>1. presences' \in [Channels -> [Keys -> Members \union {NoMember}]]
    BY DEF CleanupConnection, CleanedUp, PresenceInv, PresenceTypeOK
  <2> QED BY <1>1, <1>3, <2>1 DEF PresenceInv, PresenceTypeOK
<1>5. Indexed'
  BY <1>1, <1>2, PresenceAssumption DEF PresenceInv, PresenceTypeOK, Indexed
<1>6. OnlyOpen'
  BY <1>1 DEF PresenceInv, PresenceTypeOK, OnlyOpen
<1>7. PresentWhileOpen'
  <2> SUFFICES ASSUME NEW d \in Members, NEW h \in Channels, NEW l \in Keys,
                      connPresences'[d][h] = l
               PROVE  presences'[h][l] = d \/ <<h, l>> \in contested'
    BY DEF PresentWhileOpen
  <2>1. d # c /\ connPresences[d][h] = l
    BY <1>1, PresenceAssumption DEF PresenceInv, PresenceTypeOK
  <2>2. presences[h][l] = d \/ <<h, l>> \in contested
    BY <2>1 DEF PresenceInv, PresentWhileOpen
  <2> QED BY <1>2, <1>3, <2>1, <2>2, PresenceAssumption
<1> QED BY <1>4, <1>5, <1>6, <1>7 DEF PresenceInv

\* Every step preserves the invariant.
LEMMA PresenceSteps == PresenceInv /\ [PresenceNext]_presenceVars => PresenceInv'
<1> SUFFICES ASSUME PresenceInv, [PresenceNext]_presenceVars PROVE PresenceInv'
  OBVIOUS
<1>1. CASE PresenceNext
  BY <1>1, ConnectKeeps, MessageKeeps, CleanupKeeps DEF PresenceNext
<1>2. CASE UNCHANGED presenceVars
  BY <1>2 DEF presenceVars, PresenceInv, PresenceTypeOK, Indexed, OnlyOpen, PresentWhileOpen
<1> QED BY <1>1, <1>2

\* Who is present is who is connected, but for keys that several connections used and
\* keys that a connection left for another one of the channel.
THEOREM PresenceIsTruthful == PresenceSpec => []PresenceTruthful
<1>1. PresenceInv => PresenceTruthful
  <2> SUFFICES ASSUME PresenceInv PROVE NoGhosts
    BY DEF PresenceInv, PresenceTruthful
  <2> QED BY PresenceAssumption DEF PresenceInv, Indexed, OnlyOpen, NoGhosts
<1> QED BY <1>1, PresenceStarts, PresenceSteps, PTL DEF PresenceSpec

(***************************************************************************)
(* SchemaCache: a cache that answers without a refresh knows every change  *)
(* whose invalidation has reached it.                                      *)
(***************************************************************************)

\* A request that invalidates has changed the schema before.
Committed == \A a \in Alterers : alterer[a] # "start" => a \in version

\* What a Refresh has read holds every change whose invalidation arrived before it: the
\* invalidations that arrive after it are the ones outrun records.
FetchedWhole ==
    \A r \in Readers, a \in Alterers :
      /\ reader[r] = "fetched" /\ ~outrun[r]
      /\ alterer[a] = "done" /\ a \notin inbox[ReadAt[r]]
      => a \in fetched[r]

\* InvalidatedIsReread of a cache that may be older than its TTL.
CachedWhole ==
    \A s \in Servers, a \in Alterers :
      alterer[a] = "done" /\ a \notin inbox[s] /\ ~missed[s] /\ ~stale[s] => a \in cached[s]

CacheInv == CacheTypeOK /\ Committed /\ FetchedWhole /\ CachedWhole

\* Initially every cache is stale and nobody has changed the schema.
LEMMA CacheStarts == CacheInit => CacheInv
BY DEF CacheInit, CacheInv, CacheTypeOK, Committed, FetchedWhole, CachedWhole

\* The steps of a reader: only a Fetch has to establish what it read, and only a Swap
\* changes what the cache holds.
LEMMA ReaderKeeps ==
  ASSUME CacheInv, NEW r \in Readers,
         StartRefresh(r) \/ Fetch(r) \/ FetchFails(r) \/ Swap(r)
  PROVE  CacheInv'
<1>1. ReadAt[r] \in Servers /\ UNCHANGED <<version, alterer, inbox>>
  BY CacheAssumption DEF StartRefresh, Fetch, FetchFails, Swap
<1>2. Committed'
  BY <1>1 DEF CacheInv, Committed
<1>3. CASE StartRefresh(r) \/ FetchFails(r)
  <2>1. UNCHANGED <<cached, stale, expired, fetched, outrun, missed>>
        /\ \/ reader' = [reader EXCEPT ![r] = "refreshing"]
           \/ reader' = [reader EXCEPT ![r] = "idle"]
    BY <1>3 DEF StartRefresh, FetchFails
  <2>2. CacheTypeOK'
    BY <1>1, <2>1 DEF CacheInv, CacheTypeOK
  <2>3. FetchedWhole' /\ CachedWhole'
    BY <1>1, <2>1 DEF CacheInv, CacheTypeOK, FetchedWhole, CachedWhole
  <2> QED BY <1>2, <2>2, <2>3 DEF CacheInv
<1>4. CASE Fetch(r)
  <2>1. /\ reader' = [reader EXCEPT ![r] = "fetched"]
        /\ fetched' = [fetched EXCEPT ![r] = version]
        /\ outrun' = [outrun EXCEPT ![r] = FALSE]
        /\ UNCHANGED <<cached, stale, expired, missed>>
    BY <1>4 DEF Fetch
  <2>2. CacheTypeOK'
    BY <1>1, <2>1 DEF CacheInv, CacheTypeOK
  <2>3. FetchedWhole'
    BY <1>1, <2>1 DEF CacheInv, CacheTypeOK, Committed, FetchedWhole
  <2>4. CachedWhole'
    BY <1>1, <2>1 DEF CacheInv, CachedWhole
  <2> QED BY <1>2, <2>2, <2>3, <2>4 DEF CacheInv
<1>5. CASE Swap(r)
  <2> DEFINE s == ReadAt[r]
  <2>1. /\ reader[r] = "fetched" /\ reader' = [reader EXCEPT ![r] = "idle"]
        /\ cached' = [cached EXCEPT ![s] = fetched[r]]
        /\ stale' = [stale EXCEPT ![s] = FALSE] /\ expired' = [expired EXCEPT ![s] = FALSE]
        /\ missed' = [missed EXCEPT ![s] = outrun[r]]
        /\ fetched' = [fetched EXCEPT ![r] = {}] /\ outrun' = [outrun EXCEPT ![r] = FALSE]
    BY <1>5 DEF Swap
  <2>2. CacheTypeOK'
    BY <1>1, <2>1 DEF CacheInv, CacheTypeOK
  <2>3. FetchedWhole'
    BY <1>1, <2>1 DEF CacheInv, CacheTypeOK, FetchedWhole
  <2>4. CachedWhole'
    BY <1>1, <2>1 DEF CacheInv, CacheTypeOK, FetchedWhole, CachedWhole
  <2> QED BY <1>2, <2>2, <2>3, <2>4 DEF CacheInv
<1> QED BY <1>3, <1>4, <1>5

\* The steps of a request that changes the schema: the change is committed, the own cache
\* is invalidated, and the others are told.
LEMMA AltererKeeps ==
  ASSUME CacheInv, NEW a \in Alterers, Alter(a) \/ InvalidateOwn(a) \/ PublishInvalidation(a)
  PROVE  CacheInv'
<1>1. AlteredAt[a] \in Servers /\ UNCHANGED <<cached, expired, reader, fetched, missed>>
  BY CacheAssumption DEF Alter, InvalidateOwn, PublishInvalidation
<1>2. \A r \in Readers : ReadAt[r] \in Servers
  BY CacheAssumption
<1>3. CASE Alter(a)
  <2>1. /\ alterer' = [alterer EXCEPT ![a] = "altered"] /\ version' = version \union {a}
        /\ UNCHANGED <<stale, inbox, outrun>>
    BY <1>3 DEF Alter
  <2>2. CacheTypeOK'
    BY <1>1, <2>1 DEF CacheInv, CacheTypeOK
  <2>3. Committed' /\ FetchedWhole' /\ CachedWhole'
    BY <1>1, <2>1 DEF CacheInv, CacheTypeOK, Committed, FetchedWhole, CachedWhole
  <2> QED BY <2>2, <2>3 DEF CacheInv
<1>4. CASE InvalidateOwn(a)
  <2>1. /\ alterer[a] = "altered" /\ alterer' = [alterer EXCEPT ![a] = "invalidated"]
        /\ stale' = [stale EXCEPT ![AlteredAt[a]] = TRUE]
        /\ outrun' = Outrun(AlteredAt[a])
        /\ UNCHANGED <<version, inbox>>
    BY <1>4 DEF InvalidateOwn
  <2>2. CacheTypeOK'
    BY <1>1, <2>1 DEF CacheInv, CacheTypeOK, Outrun
  <2>3. Committed' /\ CachedWhole'
    BY <1>1, <2>1 DEF CacheInv, CacheTypeOK, Committed, CachedWhole
  <2>4. FetchedWhole'
    BY <1>1, <2>1 DEF CacheInv, CacheTypeOK, FetchedWhole, Outrun
  <2> QED BY <2>2, <2>3, <2>4 DEF CacheInv
<1>5. CASE PublishInvalidation(a)
  <2>1. /\ alterer[a] = "invalidated" /\ alterer' = [alterer EXCEPT ![a] = "done"]
        /\ inbox' = [s \in Servers |-> inbox[s] \union {a}]
        /\ UNCHANGED <<version, stale, outrun>>
    BY <1>5 DEF PublishInvalidation, Addressees
  <2>2. CacheTypeOK'
    BY <1>1, <2>1 DEF CacheInv, CacheTypeOK
  <2>3. Committed' /\ CachedWhole'
    BY <1>1, <2>1 DEF CacheInv, CacheTypeOK, Committed, CachedWhole
  <2>4. FetchedWhole'
    BY <1>1, <1>2, <2>1 DEF CacheInv, CacheTypeOK, FetchedWhole
  <2> QED BY <2>2, <2>3, <2>4 DEF CacheInv
<1> QED BY <1>3, <1>4, <1>5

\* An invalidation that arrives marks the cache stale, one that is lost is recorded as
\* missed, and either outruns the refreshes that have read the database.
LEMMA DeliveryKeeps ==
  ASSUME CacheInv, NEW s \in Servers, NEW a \in Alterers,
         ReceiveInvalidation(s, a) \/ LoseInvalidation(s, a)
  PROVE  CacheInv'
<1>1. /\ inbox' = [inbox EXCEPT ![s] = @ \ {a}] /\ outrun' = Outrun(s)
      /\ \/ stale' = [stale EXCEPT ![s] = TRUE] /\ missed' = missed
         \/ missed' = [missed EXCEPT ![s] = TRUE] /\ stale' = stale
      /\ UNCHANGED <<version, cached, expired, reader, fetched, alterer>>
  BY DEF ReceiveInvalidation, LoseInvalidation
<1>2. CacheTypeOK'
  BY <1>1 DEF CacheInv, CacheTypeOK, Outrun
<1>3. Committed' /\ CachedWhole'
  BY <1>1 DEF CacheInv, CacheTypeOK, Committed, CachedWhole
<1>4. FetchedWhole'
  <2>1. \A r \in Readers : ReadAt[r] # s => inbox'[ReadAt[r]] = inbox[ReadAt[r]]
    BY <1>1, CacheAssumption DEF CacheInv, CacheTypeOK
  <2>2. \A r \in Readers : reader[r] = "fetched" /\ ~outrun'[r]
                           => ReadAt[r] # s /\ ~outrun[r]
    BY <1>1 DEF Outrun
  <2> QED BY <1>1, <2>1, <2>2 DEF CacheInv, FetchedWhole
<1> QED BY <1>2, <1>3, <1>4 DEF CacheInv

\* Every step preserves the invariant.
LEMMA CacheSteps == CacheInv /\ [CacheNext]_cacheVars => CacheInv'
<1> SUFFICES ASSUME CacheInv, [CacheNext]_cacheVars PROVE CacheInv'
  OBVIOUS
<1>1. CASE \E r \in Readers : StartRefresh(r) \/ Fetch(r) \/ FetchFails(r) \/ Swap(r)
  BY <1>1, ReaderKeeps
<1>2. CASE \E a \in Alterers :
             \/ Alter(a) \/ InvalidateOwn(a) \/ PublishInvalidation(a)
             \/ \E s \in Servers : ReceiveInvalidation(s, a) \/ LoseInvalidation(s, a)
  BY <1>2, AltererKeeps, DeliveryKeeps
<1>3. ASSUME NEW s \in Servers, Expire(s) PROVE CacheInv'
  <2>1. /\ expired' = [expired EXCEPT ![s] = TRUE]
        /\ UNCHANGED <<version, cached, stale, reader, fetched, alterer, inbox, outrun, missed>>
    BY <1>3 DEF Expire
  <2> QED BY <2>1 DEF CacheInv, CacheTypeOK, Committed, FetchedWhole, CachedWhole
<1>4. CASE UNCHANGED cacheVars
  BY <1>4 DEF cacheVars, CacheInv, CacheTypeOK, Committed, FetchedWhole, CachedWhole
<1> QED BY <1>1, <1>2, <1>3, <1>4 DEF CacheNext

\* A cache that answers without a refresh knows every change whose invalidation has
\* reached it, with the two exceptions of InvalidatedIsReread: a Refresh that an
\* invalidation outran, and an invalidation that was lost.
THEOREM InvalidatedCachesReread == CacheSpec => []InvalidatedIsReread
<1>1. CacheInv => InvalidatedIsReread
  BY DEF CacheInv, CachedWhole, InvalidatedIsReread, NeedsRefresh
<1> QED BY <1>1, CacheStarts, CacheSteps, PTL DEF CacheSpec

(***************************************************************************)
(* LogBatcher: what the callers of Flush and Close are told holds for the  *)
(* entries of each.                                                        *)
(***************************************************************************)

\* What a Flush that waits was asked for is on its way or settled.
OwedOnTheirWay ==
    \A f \in Flushes : flush[f] = "asked" =>
      \A e \in owed[f] : place[e] \in {"queued", "batched", "written", "failed"}

\* After CloseMarks only the calls of Add that had seen the batcher open may still send.
CheckedBelated == closing # "no" => \A e \in Entries : place[e] = "checked" => e \in belated

\* When the loop has ended nothing else is in memory, and Close returns after that.
EndedEmpty ==
    /\ ~loop => closing # "no"
    /\ ~loop => \A e \in Entries : place[e] \in {"queued", "batched"} => e \in belated
    /\ closing = "returned" => ~loop

IInv == BatcherTypeOK /\ OwedOnTheirWay /\ FlushSettles /\ CheckedBelated /\ EndedEmpty

\* Initially nothing is under way.
LEMMA BatcherStarts == BatcherInit => IInv
BY BatcherAssumption
   DEF BatcherInit, IInv, BatcherTypeOK, Places, OwedOnTheirWay, FlushSettles,
       CheckedBelated, EndedEmpty

\* A batch of entries that are in memory is written or fails, and they are settled.
LEMMA BatchSettles ==
  ASSUME IInv, NEW B \in SUBSET Entries, FlushBatch(B)
  PROVE  /\ place' \in [Entries -> Places] /\ writeErrors' \in 0..MaxWriteErrors
         /\ \A e \in Entries : IF e \in B THEN place'[e] \in {"written", "failed"}
                                          ELSE place'[e] = place[e]
BY BatcherAssumption DEF FlushBatch, IInv, BatcherTypeOK, Places

\* The steps in which the loop settles a batch, or puts an entry into it.
LEMMA LoopKeeps ==
  ASSUME IInv, NEW B \in SUBSET Entries, loop,
         \A e \in B : place[e] \in {"queued", "batched"},
         UNCHANGED <<closing, owed, belated>>,
         place' \in [Entries -> Places], writeErrors' \in 0..MaxWriteErrors,
         \A e \in Entries : IF e \in B THEN place'[e] \in {"batched", "written", "failed"}
                                       ELSE place'[e] = place[e],
         \/ loop' = loop
         \/ /\ loop' = FALSE /\ closing = "signalled"
            /\ \A e \in Entries : place'[e] \notin {"queued", "batched"},
         \/ flush' = flush
         \/ \E f \in Flushes :
              /\ flush[f] = "asked"
              /\ \/ flush' = [flush EXCEPT ![f] = "failed"]
                 \/ /\ flush' = [flush EXCEPT ![f] = "done"]
                    /\ \A e \in Entries : place'[e] \notin {"queued", "batched"}
  PROVE  IInv'
<1>1. BatcherTypeOK'
  BY DEF IInv, BatcherTypeOK
<1>2. OwedOnTheirWay'
  BY DEF IInv, BatcherTypeOK, OwedOnTheirWay
<1>3. FlushSettles'
  <2>1. \A f \in Flushes : \A e \in owed[f] :
          flush[f] = "done" => place'[e] \in {"written", "failed"}
    BY DEF IInv, BatcherTypeOK, FlushSettles
  <2>2. \A f \in Flushes : \A e \in owed[f] :
          flush[f] = "asked" => place'[e] \in {"queued", "batched", "written", "failed"}
    BY DEF IInv, BatcherTypeOK, OwedOnTheirWay
  <2>3. CASE flush' = flush
    BY <2>1, <2>3 DEF FlushSettles
  <2>4. ASSUME NEW f \in Flushes, flush[f] = "asked",
               \/ flush' = [flush EXCEPT ![f] = "failed"]
               \/ /\ flush' = [flush EXCEPT ![f] = "done"]
                  /\ \A e \in Entries : place'[e] \notin {"queued", "batched"}
        PROVE  FlushSettles'
    BY <2>1, <2>2, <2>4 DEF IInv, BatcherTypeOK, FlushSettles
  <2> QED BY <2>3, <2>4
<1>4. CheckedBelated' /\ EndedEmpty'
  BY DEF IInv, BatcherTypeOK, CheckedBelated, EndedEmpty
<1> QED BY <1>1, <1>2, <1>3, <1>4 DEF IInv

\* The steps of run.
LEMMA RunKeeps ==
  ASSUME IInv,
         \/ \E e \in Entries : TakeEntry(e)
         \/ \E f \in Flushes : ServeFlush(f)
         \/ FlushTick \/ RunEnds
  PROVE  IInv'
<1>1. In("batched") \subseteq Entries /\ Drained \subseteq Entries
      /\ \A e \in Entries : /\ e \in In("batched") <=> place[e] = "batched"
                            /\ e \in Drained <=> place[e] \in {"queued", "batched"}
  BY DEF In, Drained
<1>2. ASSUME NEW e \in Entries, TakeEntry(e) PROVE IInv'
  <2> DEFINE B == In("batched") \union {e}
  <2>1. loop /\ place[e] = "queued" /\ UNCHANGED <<flush, closing, loop, owed, belated>>
    BY <1>2 DEF TakeEntry
  <2>2. B \in SUBSET Entries /\ \A x \in B : place[x] \in {"queued", "batched"}
    BY <1>1, <2>1
  <2>3. CASE FlushBatch(B)
    <3> HIDE DEF B
    <3>1. /\ place' \in [Entries -> Places] /\ writeErrors' \in 0..MaxWriteErrors
          /\ \A x \in Entries : IF x \in B THEN place'[x] \in {"written", "failed"}
                                           ELSE place'[x] = place[x]
      BY <2>2, <2>3, BatchSettles
    <3> QED BY <2>1, <2>2, <3>1, LoopKeeps
  <2>4. CASE place' = [place EXCEPT ![e] = "batched"] /\ UNCHANGED writeErrors
    <3>1. /\ place' \in [Entries -> Places] /\ writeErrors' \in 0..MaxWriteErrors
          /\ \A x \in Entries : IF x \in {e} THEN place'[x] \in {"batched", "written", "failed"}
                                             ELSE place'[x] = place[x]
      BY <2>4 DEF IInv, BatcherTypeOK, Places
    <3>2. {e} \in SUBSET Entries /\ \A x \in {e} : place[x] \in {"queued", "batched"}
      BY <2>1
    <3> QED BY <2>1, <3>1, <3>2, LoopKeeps
  <2> QED BY <1>2, <2>3, <2>4 DEF TakeEntry
<1>3. ASSUME NEW B \in SUBSET Entries, loop, FlushBatch(B),
             \A e \in B : place[e] \in {"queued", "batched"},
             UNCHANGED <<flush, closing, loop, owed, belated>>
      PROVE  IInv'
  <2>1. /\ place' \in [Entries -> Places] /\ writeErrors' \in 0..MaxWriteErrors
        /\ \A x \in Entries : IF x \in B THEN place'[x] \in {"written", "failed"}
                                         ELSE place'[x] = place[x]
    BY <1>3, BatchSettles
  <2> QED BY <1>3, <2>1, LoopKeeps
<1>4. CASE FlushTick
  BY <1>1, <1>3, <1>4 DEF FlushTick
<1>5. CASE (\E f \in Flushes : ServeFlush(f)) \/ RunEnds
  <2>1. loop /\ FlushBatch(Drained) /\ UNCHANGED <<closing, owed, belated>>
    BY <1>5 DEF ServeFlush, RunEnds
  <2>2. /\ place' \in [Entries -> Places] /\ writeErrors' \in 0..MaxWriteErrors
        /\ \A x \in Entries : IF x \in Drained THEN place'[x] \in {"written", "failed"}
                                               ELSE place'[x] = place[x]
    BY <1>1, <2>1, BatchSettles
  <2>3. \A x \in Entries : place'[x] \notin {"queued", "batched"}
    BY <1>1, <2>2
  <2>4. CASE RunEnds
    <3>1. flush' = flush /\ loop' = FALSE /\ closing = "signalled"
      BY <2>4 DEF RunEnds
    <3> QED BY <1>1, <2>1, <2>2, <2>3, <3>1, LoopKeeps
  <2>5. ASSUME NEW f \in Flushes, ServeFlush(f) PROVE IInv'
    <3>1. /\ flush[f] = "asked" /\ loop' = loop
          /\ \/ flush' = [flush EXCEPT ![f] = "failed"]
             \/ flush' = [flush EXCEPT ![f] = "done"]
      BY <2>5 DEF ServeFlush
    <3> QED BY <1>1, <2>1, <2>2, <2>3, <3>1, LoopKeeps
  <2> QED BY <1>5, <2>4, <2>5
<1> QED BY <1>2, <1>4, <1>5

\* The steps of the callers of Add, Flush and Close.
LEMMA CallersKeep ==
  ASSUME IInv,
         \/ \E e \in Entries : AddChecks(e) \/ AddSends(e)
         \/ \E f \in Flushes : CallFlush(f) \/ FlushLeaves(f)
         \/ CloseMarks \/ CloseSignals \/ CloseReturns
  PROVE  IInv'
<1>1. ASSUME NEW e \in Entries, AddChecks(e) \/ AddSends(e) PROVE IInv'
  <2>1. UNCHANGED <<flush, closing, loop, writeErrors, owed, belated>>
    BY <1>1 DEF AddChecks, AddSends
  <2>2. PICK p \in {"checked", "ignored", "queued", "dropped"} :
          place' = [place EXCEPT ![e] = p]
    BY <1>1 DEF AddChecks, AddSends
  <2>3. /\ place[e] \in {"new", "checked"}
        /\ p = "checked" => closing = "no"
        /\ p = "queued" => place[e] = "checked"
    BY <1>1, <2>2 DEF AddChecks, AddSends, IInv, BatcherTypeOK
  <2>4. BatcherTypeOK'
    BY <2>1, <2>2 DEF IInv, BatcherTypeOK, Places
  <2>5. OwedOnTheirWay' /\ FlushSettles'
    BY <2>1, <2>2, <2>3 DEF IInv, BatcherTypeOK, OwedOnTheirWay, FlushSettles
  <2>6. CheckedBelated' /\ EndedEmpty'
    BY <2>1, <2>2, <2>3 DEF IInv, BatcherTypeOK, CheckedBelated, EndedEmpty
  <2> QED BY <2>4, <2>5, <2>6 DEF IInv
<1>2. ASSUME NEW f \in Flushes, CallFlush(f) \/ FlushLeaves(f) PROVE IInv'
  <2>1. /\ UNCHANGED <<place, closing, loop, writeErrors, belated>>
        /\ \E t \in {"asked", "closed", "failed"} :
             /\ flush' = [flush EXCEPT ![f] = t]
             /\ t = "asked" => owed' = [owed EXCEPT ![f] = In("queued") \union In("batched")]
        /\ owed' \in {owed, [owed EXCEPT ![f] = In("queued") \union In("batched")]}
    BY <1>2 DEF CallFlush, FlushLeaves
  <2>2. In("queued") \subseteq Entries /\ In("batched") \subseteq Entries
        /\ \A e \in In("queued") \union In("batched") : place[e] \in {"queued", "batched"}
    BY DEF In
  <2>3. BatcherTypeOK'
    BY <2>1, <2>2 DEF IInv, BatcherTypeOK
  <2>4. OwedOnTheirWay' /\ FlushSettles'
    BY <2>1, <2>2 DEF IInv, BatcherTypeOK, OwedOnTheirWay, FlushSettles
  <2>5. CheckedBelated' /\ EndedEmpty'
    BY <2>1 DEF IInv, CheckedBelated, EndedEmpty
  <2> QED BY <2>3, <2>4, <2>5 DEF IInv
<1>3. CASE CloseMarks
  <2>1. /\ closing = "no" /\ closing' = "marked" /\ belated' = In("checked")
        /\ UNCHANGED <<place, flush, loop, writeErrors, owed>>
    BY <1>3 DEF CloseMarks
  <2>2. In("checked") \subseteq Entries
        /\ \A e \in Entries : place[e] = "checked" => e \in In("checked")
    BY DEF In
  <2> QED BY <2>1, <2>2 DEF IInv, BatcherTypeOK, OwedOnTheirWay, FlushSettles,
                            CheckedBelated, EndedEmpty
<1>4. CASE CloseSignals \/ CloseReturns
  <2>1. /\ closing # "no" /\ UNCHANGED <<place, flush, loop, writeErrors, owed, belated>>
        /\ closing' = "signalled" \/ (closing' = "returned" /\ ~loop)
    BY <1>4 DEF CloseSignals, CloseReturns
  <2> QED BY <2>1 DEF IInv, BatcherTypeOK, OwedOnTheirWay, FlushSettles,
                      CheckedBelated, EndedEmpty
<1> QED BY <1>1, <1>2, <1>3, <1>4

\* Every step preserves the invariant.
LEMMA BatcherSteps == IInv /\ [BatcherNext]_batcherVars => IInv'
<1> SUFFICES ASSUME IInv, [BatcherNext]_batcherVars PROVE IInv'
  OBVIOUS
<1>1. CASE BatcherNext
  BY <1>1, RunKeeps, CallersKeep DEF BatcherNext
<1>2. CASE UNCHANGED batcherVars
  BY <1>2 DEF batcherVars, IInv, BatcherTypeOK, OwedOnTheirWay, FlushSettles,
              CheckedBelated, EndedEmpty
<1> QED BY <1>1, <1>2

\* When Flush reports success what it was asked for is settled, and when Close has
\* returned nothing is left in memory but entries of an Add that raced it.
THEOREM CallersToldTheTruth == BatcherSpec => []NothingLostSilently
<1>1. IInv => NothingLostSilently
  BY DEF IInv, EndedEmpty, NothingLostSilently, CloseLosesOnlyLate
<1> QED BY <1>1, BatcherStarts, BatcherSteps, PTL DEF BatcherSpec

(***************************************************************************)
(* RealtimeConnections: the registry knows exactly the connections that    *)
(* are served.                                                             *)
(***************************************************************************)

\* The connections of an owner.
OwnedBy(o) == {c \in connections : OwnerOf[c] = o}

RegistryTyped ==
    /\ connections \in SUBSET Conns /\ closed \subseteq Conns /\ subscribed \subseteq Conns
    /\ ownerConns \in [Owners -> Nat]
    /\ handler \in [Conns -> {"new", "serving", "subscriptions", "close", "remove", "gone"}]

\* A connection is in the maps from its admission on, at most until its handler returns.
HandledConnections ==
    \A c \in connections : handler[c] \in {"serving", "subscriptions", "close", "remove"}

\* A handler takes its connection's subscriptions out, then closes it, then removes it.
EndsInOrder ==
    /\ \A c \in subscribed : handler[c] \in {"serving", "subscriptions"}
    /\ \A c \in Conns : handler[c] \in {"remove", "gone"} => c \in closed

RegistryInv ==
    /\ RegistryTyped /\ HandledConnections /\ EndsInOrder
    /\ counted = connections /\ IsFiniteSet(connections) /\ OwnersCounted

LEMMA RegistryStarts == RealtimeInit => RegistryInv
<1> SUFFICES ASSUME RealtimeInit PROVE RegistryInv
  OBVIOUS
<1>1. RegistryTyped /\ HandledConnections /\ EndsInOrder /\ counted = connections
  BY DEF RealtimeInit, RegistryTyped, HandledConnections, EndsInOrder
<1>2. \A o \in Owners : {c \in connections : OwnerOf[c] = o} = {}
  BY DEF RealtimeInit
<1>3. IsFiniteSet(connections) /\ OwnersCounted
  BY <1>2, FS_EmptySet DEF RealtimeInit, OwnersCounted
<1> QED BY <1>1, <1>3 DEF RegistryInv

\* A connection is admitted.
LEMMA AdmissionKeeps == ASSUME RegistryInv, NEW c \in Conns, AddConnection(c) PROVE RegistryInv'
<1> DEFINE p == OwnerOf[c]
<1>1. p \in Owners /\ handler[c] = "new" /\ subscribed' = subscribed
  BY RealtimeAssumption DEF AddConnection
<1>2. c \notin connections
  BY <1>1 DEF RegistryInv, HandledConnections
<1>3. CASE connections' = connections
  <2>1. /\ handler' = [handler EXCEPT ![c] = "gone"]
        /\ closed' = closed \union {c} /\ UNCHANGED <<ownerConns, counted>>
    BY <1>2, <1>3 DEF AddConnection
  <2>2. RegistryTyped' /\ HandledConnections' /\ EndsInOrder' /\ counted' = connections'
    BY <1>1, <1>2, <1>3, <2>1
       DEF RegistryInv, RegistryTyped, HandledConnections, EndsInOrder
  <2> QED BY <1>3, <2>1, <2>2 DEF RegistryInv, OwnersCounted
<1>4. CASE connections' # connections
  <2>1. /\ handler' = [handler EXCEPT ![c] = "serving"]
        /\ connections' = connections \union {c} /\ counted' = counted \union {c}
        /\ ownerConns' = [ownerConns EXCEPT ![p] = @ + 1] /\ closed' = closed
    BY <1>4 DEF AddConnection
  <2>2. RegistryTyped' /\ HandledConnections' /\ EndsInOrder' /\ counted' = connections'
    BY <1>1, <1>2, <2>1
       DEF RegistryInv, RegistryTyped, HandledConnections, EndsInOrder
  <2>3. IsFiniteSet(connections')
    BY <2>1, FS_AddElement DEF RegistryInv
  <2>4. ASSUME NEW o \in Owners
        PROVE  ownerConns'[o] = Cardinality({d \in connections' : OwnerOf[d] = o})
    <3>1. IsFiniteSet(OwnedBy(o)) /\ c \notin OwnedBy(o) /\ ownerConns[o] = Cardinality(OwnedBy(o))
      BY <1>2, FS_Subset DEF RegistryInv, OwnedBy, OwnersCounted
    <3>2. CASE o = p
      <4>1. {d \in connections' : OwnerOf[d] = o} = OwnedBy(o) \union {c}
        BY <2>1, <3>2 DEF OwnedBy
      <4>2. Cardinality(OwnedBy(o) \union {c}) = ownerConns[o] + 1
        BY <3>1, FS_AddElement
      <4> QED BY <2>1, <3>2, <4>1, <4>2 DEF RegistryInv, RegistryTyped
    <3>3. CASE o # p
      <4>1. {d \in connections' : OwnerOf[d] = o} = OwnedBy(o)
        BY <2>1, <3>3 DEF OwnedBy
      <4> QED BY <2>1, <3>1, <3>3, <4>1 DEF RegistryInv, RegistryTyped
    <3> QED BY <3>2, <3>3
  <2> QED BY <2>2, <2>3, <2>4 DEF RegistryInv, OwnersCounted
<1> QED BY <1>3, <1>4

\* RemoveConnection, by whomever: the maps and the counts lose the connection if they
\* have it, and it is closed in every case in which they had it.
LEMMA RemovalKeeps ==
  ASSUME RegistryInv, NEW c \in Conns, RemoveConnection(c)
  PROVE  /\ connections' = connections \ {c} /\ counted' = connections'
         /\ closed \subseteq closed' /\ closed' \subseteq Conns
         /\ IsFiniteSet(connections')
         /\ ownerConns' \in [Owners -> Nat] /\ OwnersCounted'
<1>1. CASE c \notin connections
  <2>1. UNCHANGED <<connections, ownerConns, counted, closed>>
    BY <1>1 DEF RemoveConnection
  <2>2. connections = connections \ {c}
    BY <1>1
  <2> QED BY <2>1, <2>2 DEF RegistryInv, RegistryTyped, OwnersCounted
<1>2. CASE c \in connections
  <2> DEFINE p == OwnerOf[c]
  <2>1. p \in Owners
    BY RealtimeAssumption
  <2>2. /\ connections' = connections \ {c} /\ counted' = counted \ {c}
        /\ closed' = closed \union {c}
        /\ ownerConns' = [ownerConns EXCEPT ![p] = @ - 1]
    BY <1>2 DEF RemoveConnection, CountedAs, RegistryInv
  <2>3. IsFiniteSet(connections')
    BY <2>2, FS_RemoveElement DEF RegistryInv
  <2>4. ASSUME NEW o \in Owners
        PROVE  /\ ownerConns'[o] \in Nat
               /\ ownerConns'[o] = Cardinality({d \in connections' : OwnerOf[d] = o})
    <3>1. IsFiniteSet(OwnedBy(o)) /\ ownerConns[o] = Cardinality(OwnedBy(o))
      BY FS_Subset DEF RegistryInv, OwnedBy, OwnersCounted
    <3>2. CASE o = p
      <4>1. /\ {d \in connections' : OwnerOf[d] = o} = OwnedBy(o) \ {c}
            /\ c \in OwnedBy(o)
        BY <1>2, <2>2, <3>2 DEF OwnedBy
      <4>2. /\ IsFiniteSet(OwnedBy(o) \ {c})
            /\ Cardinality(OwnedBy(o) \ {c}) = ownerConns[o] - 1
        BY <3>1, <4>1, FS_RemoveElement
      <4>3. Cardinality(OwnedBy(o) \ {c}) \in Nat
        BY <4>2, FS_CardinalityType
      <4> QED BY <2>2, <3>2, <4>1, <4>2, <4>3 DEF RegistryInv, RegistryTyped
    <3>3. CASE o # p
      <4>1. {d \in connections' : OwnerOf[d] = o} = OwnedBy(o)
        BY <2>2, <3>3 DEF OwnedBy
      <4> QED BY <2>1, <2>2, <3>1, <3>3, <4>1 DEF RegistryInv, RegistryTyped
    <3> QED BY <3>2, <3>3
  <2>5. ownerConns' \in [Owners -> Nat]
    BY <2>2, <2>4 DEF RegistryInv, RegistryTyped
  <2> QED BY <1>2, <2>2, <2>3, <2>4, <2>5 DEF RegistryInv, RegistryTyped, OwnersCounted
<1> QED BY <1>1, <1>2

\* The steps of a client and of the deferred function up to the removal, which leave the
\* maps and the counts alone.
LEMMA HandlingKeeps ==
  ASSUME RegistryInv, NEW c \in Conns,
         \/ CreateSubscription(c) \/ RemoveSubscription(c) \/ \E o \in Owners : UpdateAuth(c, o)
         \/ LoopEnds(c) \/ RemoveConnectionSubscriptions(c) \/ CloseConnection(c)
         \/ ClientIsSlow(c) \/ ClientCatchesUp(c) \/ CheckSlowClients
  PROVE  RegistryInv'
<1>1. UNCHANGED <<connections, ownerConns, counted>>
  BY DEF CreateSubscription, RemoveSubscription, UpdateAuth, LoopEnds,
         RemoveConnectionSubscriptions, CloseConnection, ClientIsSlow, ClientCatchesUp,
         CheckSlowClients
<1>2. RegistryTyped' /\ HandledConnections' /\ EndsInOrder'
  <2>1. \/ UNCHANGED <<closed, handler>> /\ subscribed' = subscribed \ {c}
        \/ /\ UNCHANGED <<closed, handler>>
           /\ subscribed' = subscribed \union {c} /\ handler[c] = "serving"
        \/ UNCHANGED <<closed, handler, subscribed>>
        \/ /\ At(c, "serving", "subscriptions") /\ UNCHANGED <<closed, subscribed>>
        \/ /\ At(c, "subscriptions", "close") /\ closed' = closed
           /\ subscribed' = subscribed \ {c}
        \/ /\ At(c, "close", "remove") /\ closed' = closed \union {c}
           /\ subscribed' = subscribed
    BY DEF CreateSubscription, RemoveSubscription, UpdateAuth, LoopEnds,
           RemoveConnectionSubscriptions, CloseConnection, ClientIsSlow, ClientCatchesUp,
           CheckSlowClients
  <2> QED BY <1>1, <2>1
             DEF At, RegistryInv, RegistryTyped, HandledConnections, EndsInOrder
<1> QED BY <1>1, <1>2 DEF RegistryInv, OwnersCounted

\* The handler returns, or the check disconnects a slow client.
LEMMA EndingKeeps ==
  ASSUME RegistryInv, NEW c \in Conns, HandlerReturns(c) \/ DisconnectSlowClient(c)
  PROVE  RegistryInv'
<1>1. RemoveConnection(c) /\ subscribed' = subscribed
  BY DEF HandlerReturns, DisconnectSlowClient
<1>2. \/ handler[c] = "remove" /\ handler' = [handler EXCEPT ![c] = "gone"]
      \/ handler' = handler
  BY DEF HandlerReturns, DisconnectSlowClient, At
<1>3. RegistryTyped' /\ HandledConnections' /\ EndsInOrder'
  BY <1>1, <1>2, RemovalKeeps
     DEF RegistryInv, RegistryTyped, HandledConnections, EndsInOrder
<1> QED BY <1>1, <1>3, RemovalKeeps DEF RegistryInv

\* The shutdown empties the maps.
LEMMA ShutdownEmpties == RegistryInv /\ CloseAllConnections => RegistryInv'
<1> SUFFICES ASSUME RegistryInv, CloseAllConnections PROVE RegistryInv'
  OBVIOUS
<1>1. /\ connections' = {} /\ counted' = {} /\ ownerConns' = [o \in Owners |-> 0]
      /\ closed' = closed \union connections /\ UNCHANGED <<handler, subscribed>>
  BY DEF CloseAllConnections
<1>2. RegistryTyped' /\ HandledConnections' /\ EndsInOrder' /\ IsFiniteSet(connections')
  BY <1>1, FS_EmptySet DEF RegistryInv, RegistryTyped, HandledConnections, EndsInOrder
<1>3. \A o \in Owners : {c \in connections' : OwnerOf[c] = o} = {}
  BY <1>1
<1>4. OwnersCounted'
  BY <1>1, <1>3, FS_EmptySet DEF OwnersCounted
<1> QED BY <1>1, <1>2, <1>4 DEF RegistryInv

\* Every step preserves the invariant.
LEMMA RegistrySteps == RegistryInv /\ [RealtimeNext]_realtimeVars => RegistryInv'
<1> SUFFICES ASSUME RegistryInv, [RealtimeNext]_realtimeVars PROVE RegistryInv'
  OBVIOUS
<1>1. CASE UNCHANGED realtimeVars
  BY <1>1 DEF realtimeVars, RegistryInv, RegistryTyped, HandledConnections, EndsInOrder,
              OwnersCounted
<1>2. CASE CheckSlowClients
  <2>1. UNCHANGED <<connections, ownerConns, counted, identity, handler, closed, subscribed>>
    BY <1>2 DEF CheckSlowClients
  <2> QED BY <2>1 DEF RegistryInv, RegistryTyped, HandledConnections, EndsInOrder,
                      OwnersCounted
<1>3. CASE CloseAllConnections
  BY <1>3, ShutdownEmpties
<1>4. CASE \E c \in Conns :
         \/ AddConnection(c) \/ CreateSubscription(c) \/ RemoveSubscription(c)
         \/ \E o \in Owners : UpdateAuth(c, o)
         \/ LoopEnds(c) \/ RemoveConnectionSubscriptions(c)
         \/ CloseConnection(c) \/ HandlerReturns(c)
         \/ ClientIsSlow(c) \/ ClientCatchesUp(c) \/ DisconnectSlowClient(c)
  BY <1>4, AdmissionKeeps, HandlingKeeps, EndingKeeps
<1> QED BY <1>1, <1>2, <1>3, <1>4 DEF RealtimeNext

\* For every number of connections, owners and limits: the connections that an owner is
\* charged with are those in the map, and a handler that returned left neither a
\* connection nor a subscription behind.
THEOREM RegistryIsConsistent == RealtimeSpec => []RegistryConsistent
<1>1. RegistryInv => RegistryConsistent
  BY DEF RegistryInv, RegistryTyped, HandledConnections, EndsInOrder, RegistryConsistent,
         NothingLeftBehind
<1> QED BY <1>1, RegistryStarts, RegistrySteps, PTL DEF RealtimeSpec
=============================================================================
