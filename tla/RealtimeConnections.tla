------------------------ MODULE RealtimeConnections ------------------------
(***************************************************************************)
(* The WebSocket connections of an instance (internal/realtime): the maps  *)
(* and counts of the Manager, the subscriptions, and the goroutines that   *)
(* end a connection: its handler, the check for slow clients and the       *)
(* shutdown.  An owner is a user, or the address of an anonymous client.   *)
(***************************************************************************)
EXTENDS Integers, FiniteSets

CONSTANTS
    Conns,                      \* connection ids, each used once
    Owners, OwnerOf,            \* the owner of a connection when it is opened
    MaxConnections, MaxPerOwner \* maxConnections, maxConnectionsPerUser and PerIP

ASSUME RealtimeAssumption ==
    /\ OwnerOf \in [Conns -> Owners]
    /\ MaxConnections \in Nat /\ MaxPerOwner \in Nat

VARIABLES
    connections,    \* Manager.connections
    ownerConns,     \* userConnections and ipConnections
    counted,        \* connectionUserMap and connectionIPMap
    identity,       \* the owner by the connection's latest access token
    handler,        \* how far handleConnection is
    closed,         \* Connection.closed
    subscribed,     \* connections with an entry in SubscriptionManager.subscriptions
    slow,           \* clients that do not read
    firstSeen,      \* slowClientFirstSeen
    condemned       \* of one check: the slow clients that it will disconnect

slowVars == <<slow, firstSeen, condemned>>
realtimeVars == <<connections, ownerConns, counted, identity, handler, closed,
                  subscribed, slowVars>>

RealtimeInit ==
    /\ connections = {} /\ counted = {} /\ closed = {} /\ subscribed = {}
    /\ ownerConns = [o \in Owners |-> 0]
    /\ identity = OwnerOf
    /\ handler = [c \in Conns |-> "new"]
    /\ slow = {} /\ firstSeen = {} /\ condemned = {}

At(c, from, to) == handler[c] = from /\ handler' = [handler EXCEPT ![c] = to]

(***************************************************************************)
(* The Manager.                                                            *)
(***************************************************************************)
\* AddConnection, under the lock; a connection over a limit is refused.
AddConnection(c) ==
    LET o == OwnerOf[c]
    IN  /\ handler[c] = "new"
        /\ IF Cardinality(connections) < MaxConnections /\ ownerConns[o] < MaxPerOwner
           THEN /\ connections' = connections \union {c}
                /\ ownerConns' = [ownerConns EXCEPT ![o] = @ + 1]
                /\ counted' = counted \union {c}
                /\ handler' = [handler EXCEPT ![c] = "serving"]
                /\ UNCHANGED closed
           ELSE /\ handler' = [handler EXCEPT ![c] = "gone"]
                /\ closed' = closed \union {c}
                /\ UNCHANGED <<connections, ownerConns, counted>>
        /\ UNCHANGED <<identity, subscribed, slowVars>>

\* Mutant of CountedAs: the count of the user of the latest token goes down.
CountedAsLatest(c) == identity[c]

\* connectionUserMap: the owner the connection was counted for.
CountedAs(c) == OwnerOf[c]

\* RemoveConnection: nothing when another caller removed it before.
RemoveConnection(c) ==
    IF c \notin connections THEN UNCHANGED <<connections, ownerConns, counted, closed>>
    ELSE /\ connections' = connections \ {c}
         /\ closed' = closed \union {c}
         /\ ownerConns' = IF c \in counted
                          THEN [ownerConns EXCEPT ![CountedAs(c)] = @ - 1] ELSE ownerConns
         /\ counted' = counted \ {c}

\* Manager.Shutdown closes what it finds; a client may still connect later.
CloseAllConnections ==
    /\ connections # {}
    /\ connections' = {} /\ counted' = {}
    /\ ownerConns' = [o \in Owners |-> 0]
    /\ closed' = closed \union connections
    /\ UNCHANGED <<identity, handler, subscribed, slowVars>>

(***************************************************************************)
(* The messages of a client, handled one after the other.                  *)
(***************************************************************************)
CreateSubscription(c) ==
    /\ handler[c] = "serving"
    /\ subscribed' = subscribed \union {c}
    /\ UNCHANGED <<connections, ownerConns, counted, identity, handler, closed,
                   slowVars>>

RemoveSubscription(c) ==
    /\ handler[c] = "serving"
    /\ subscribed' = subscribed \ {c}
    /\ UNCHANGED <<connections, ownerConns, counted, identity, handler, closed,
                   slowVars>>

\* handleAccessToken: the connection goes on as another user.
UpdateAuth(c, o) ==
    /\ handler[c] = "serving"
    /\ identity' = [identity EXCEPT ![c] = o]
    /\ UNCHANGED <<connections, ownerConns, counted, handler, closed, subscribed,
                   slowVars>>

(***************************************************************************)
(* The end of a connection: the deferred function of handleConnection.     *)
(***************************************************************************)
\* The loop ends with the first read that fails, at the latest when the
\* connection was closed, or with a heartbeat that a slow client refuses.
LoopEnds(c) ==
    /\ At(c, "serving", "subscriptions")
    /\ UNCHANGED <<connections, ownerConns, counted, identity, closed, subscribed,
                   slowVars>>

RemoveConnectionSubscriptions(c) ==
    /\ At(c, "subscriptions", "close")
    /\ subscribed' = subscribed \ {c}
    /\ UNCHANGED <<connections, ownerConns, counted, identity, closed, slowVars>>

CloseConnection(c) ==
    /\ At(c, "close", "remove")
    /\ closed' = closed \union {c}
    /\ UNCHANGED <<connections, ownerConns, counted, identity, subscribed, slowVars>>

HandlerReturns(c) ==
    /\ At(c, "remove", "gone")
    /\ RemoveConnection(c)
    /\ UNCHANGED <<identity, subscribed, slowVars>>

(***************************************************************************)
(* Slow clients.                                                           *)
(***************************************************************************)
ClientIsSlow(c) ==
    /\ c \in connections /\ c \notin slow
    /\ slow' = slow \union {c}
    /\ UNCHANGED <<connections, ownerConns, counted, identity, handler, closed, subscribed,
                   firstSeen, condemned>>

ClientCatchesUp(c) ==
    /\ c \in slow
    /\ slow' = slow \ {c}
    /\ UNCHANGED <<connections, ownerConns, counted, identity, handler, closed, subscribed,
                   firstSeen, condemned>>

\* Mutant of Remembered: the first sight of a slow client is not kept.
RememberedNever == firstSeen \ (connections \intersect slow)

\* The connections found slow stay marked; those of connections that are gone
\* are never taken out.
Remembered == (firstSeen \ connections) \union (connections \intersect slow)

\* checkAndDisconnectSlowClients, under the lock: a client that was slow at an
\* earlier check, slowClientTimeout ago, is condemned.
CheckSlowClients ==
    /\ condemned = {}
    /\ firstSeen' = Remembered
    /\ condemned' = connections \intersect slow \intersect firstSeen
    /\ <<firstSeen', condemned'>> # <<firstSeen, condemned>>
    /\ UNCHANGED <<connections, ownerConns, counted, identity, handler, closed, subscribed,
                   slow>>

\* disconnectSlowClient, after the unlock: the client may have caught up, or be gone.
DisconnectSlowClient(c) ==
    /\ c \in condemned
    /\ condemned' = condemned \ {c}
    /\ RemoveConnection(c)
    /\ UNCHANGED <<identity, handler, subscribed, slow, firstSeen>>

RealtimeNext ==
    \/ \E c \in Conns :
         \/ AddConnection(c) \/ CreateSubscription(c) \/ RemoveSubscription(c)
         \/ \E o \in Owners : UpdateAuth(c, o)
         \/ LoopEnds(c) \/ RemoveConnectionSubscriptions(c)
         \/ CloseConnection(c) \/ HandlerReturns(c)
         \/ ClientIsSlow(c) \/ ClientCatchesUp(c) \/ DisconnectSlowClient(c)
    \/ CheckSlowClients \/ CloseAllConnections

RealtimeSpec == RealtimeInit /\ [][RealtimeNext]_realtimeVars

\* The ticker goes on, and the handler of a connection that was closed returns.
RealtimeFairness ==
    /\ WF_realtimeVars(CheckSlowClients)
    /\ \A c \in Conns :
         /\ WF_realtimeVars(DisconnectSlowClient(c))
         /\ WF_realtimeVars(c \in closed /\ LoopEnds(c))
         /\ WF_realtimeVars(\/ RemoveConnectionSubscriptions(c)
                            \/ CloseConnection(c) \/ HandlerReturns(c))

FairRealtimeSpec == RealtimeSpec /\ RealtimeFairness

(***************************************************************************)
(* Properties.                                                             *)
(***************************************************************************)
RealtimeTypeOK ==
    /\ connections \subseteq Conns /\ counted \subseteq Conns /\ closed \subseteq Conns
    /\ subscribed \subseteq Conns
    /\ ownerConns \in [Owners -> 0..Cardinality(Conns)]
    /\ identity \in [Conns -> Owners]
    /\ handler \in [Conns -> {"new", "serving", "subscriptions", "close",
                              "remove", "gone"}]
    /\ slow \subseteq Conns /\ firstSeen \subseteq Conns /\ condemned \subseteq Conns

\* The counts that the limits are checked against are those of the connections
\* there are, though a connection is removed by its handler, by the check for slow
\* clients and by the shutdown, and though its user may change meanwhile.
OwnersCounted ==
    \A o \in Owners :
      ownerConns[o] = Cardinality({c \in connections : OwnerOf[c] = o})

\* However a connection came to its end, in any order of the three, its handler
\* leaves nothing of it: no entry of the Manager and no subscription.
NothingLeftBehind ==
    \A c \in Conns : handler[c] = "gone" =>
      c \notin connections /\ c \notin subscribed /\ c \in closed

\* The Manager's books are those of the connections there are.
RegistryConsistent == OwnersCounted /\ NothingLeftBehind

\* A client that stays slow is disconnected.
SlowClientsLeave ==
    \A c \in Conns : <>[](c \in slow) => <>(handler[c] = "gone")
=============================================================================
