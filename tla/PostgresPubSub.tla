--------------------------- MODULE PostgresPubSub ---------------------------
(***************************************************************************)
(* The publish/subscribe of one instance over LISTEN and NOTIFY            *)
(* (internal/pubsub/postgres.go): the goroutine of listenLoop, which hands *)
(* out what the server sends, against Subscribe, unsubscribe and Close.    *)
(* Messages are numbered in the order in which they are published.         *)
(***************************************************************************)
EXTENDS Naturals, Sequences, SequencesExt

CONSTANTS
    Subscriptions, TopicOf, \* calls of Subscribe, and the channel of each
    Topics, ListenedTo,     \* channels, and those that listenLoop listens to
    MaxMessages,            \* bound of the model: messages published
    SubBuffer,              \* capacity of a subscriber's channel
    MaxBreaks               \* bound of the model: connections that break

ASSUME PubSubAssumption ==
    /\ TopicOf \in [Subscriptions -> Topics] /\ ListenedTo \subseteq Topics
    /\ MaxMessages \in Nat /\ SubBuffer \in Nat \ {0} /\ MaxBreaks \in Nat

VARIABLES
    subscribers,    \* PostgresPubSub.subscribers
    listener,       \* listenLoop: "down", "listening", "delivering", "ended" or "panicked"
    pending,        \* notifications that the server has for the connection
    delivery,       \* of deliverMessage: the message and what is left of subs
    buffered,       \* messages in the channel of each subscription
    closedSubs,     \* subscriptions whose channel is closed
    shutting,       \* Close: "no", "cancelled" or "closed"
    published,      \* messages so far
    breaks,
    received,       \* history: what was sent to each subscription
    owing,          \* history: what each subscription should still be sent
    racing          \* history: a subscription ended during a delivery to its channel

pubsubVars == <<subscribers, listener, pending, delivery, buffered, closedSubs, shutting,
                published, breaks, received, owing, racing>>

NoDelivery == [topic |-> "none", message |-> 0, rest |-> <<>>]
Subscribed(s) == \E i \in DOMAIN subscribers[TopicOf[s]] : subscribers[TopicOf[s]][i] = s

PubSubInit ==
    /\ subscribers = [t \in Topics |-> <<>>]
    /\ listener = "down"
    /\ pending = <<>> /\ delivery = NoDelivery
    /\ buffered = [s \in Subscriptions |-> 0]
    /\ closedSubs = {} /\ shutting = "no"
    /\ published = 0 /\ breaks = 0
    /\ received = [s \in Subscriptions |-> <<>>]
    /\ owing = [s \in Subscriptions |-> {}]
    /\ racing = FALSE

(***************************************************************************)
(* Publish, Subscribe and their ends.                                      *)
(***************************************************************************)
\* pg_notify: the server keeps it for the connections that listen to the channel.
Publish(t) ==
    /\ published < MaxMessages
    /\ published' = published + 1
    /\ pending' = IF listener \in {"listening", "delivering"} /\ t \in ListenedTo
                  THEN Append(pending, [topic |-> t, message |-> published'])
                  ELSE pending
    /\ owing' = [s \in Subscriptions |->
         IF listener \in {"listening", "delivering"} /\ TopicOf[s] = t /\ Subscribed(s)
         THEN owing[s] \union {published'} ELSE owing[s]]
    /\ UNCHANGED <<subscribers, listener, delivery, buffered, closedSubs, shutting, breaks,
                   received, racing>>

Added(list, s) == Append(list, s)

Subscribe(s) ==
    /\ ~Subscribed(s) /\ s \notin closedSubs /\ shutting = "no"
    /\ subscribers' = [subscribers EXCEPT ![TopicOf[s]] = Added(@, s)]
    /\ UNCHANGED <<listener, pending, delivery, buffered, closedSubs, shutting, published,
                   breaks, received, owing, racing>>

\* Of the array that deliverMessage goes through, what is behind s moves up by one
\* place: the next subscriber is passed over, and the last one comes twice.
Shifted(rest, s) ==
    IF \E i \in DOMAIN rest : rest[i] = s
    THEN [i \in DOMAIN rest |->
            IF i >= SelectInSeq(rest, LAMBDA x : x = s) /\ i < Len(rest)
            THEN rest[i + 1] ELSE rest[i]]
    ELSE IF rest = <<>> THEN rest ELSE Append(Tail(rest), Last(rest))

Without(list, s) == RemoveFirst(list, s)

\* The subscriber's context ends: its channel is removed and closed.  A delivery in
\* progress sees the array change, unless a larger one has replaced it.
Unsubscribe(s) ==
    LET under == delivery.topic = TopicOf[s]
    IN  /\ Subscribed(s) /\ s \notin closedSubs
        /\ subscribers' = [subscribers EXCEPT ![TopicOf[s]] = Without(@, s)]
        /\ closedSubs' = closedSubs \union {s}
        /\ racing' = (racing \/ under)
        /\ \/ under /\ delivery' = [delivery EXCEPT !.rest = Shifted(@, s)]
           \/ UNCHANGED delivery
        /\ owing' = [owing EXCEPT ![s] = {}]
        /\ UNCHANGED <<listener, pending, buffered, shutting, published, breaks, received>>

\* The subscriber takes a message out of its channel.
Take(s) ==
    /\ buffered[s] > 0
    /\ buffered' = [buffered EXCEPT ![s] = @ - 1]
    /\ UNCHANGED <<subscribers, listener, pending, delivery, closedSubs, shutting, published,
                   breaks, received, owing, racing>>

(***************************************************************************)
(* listenLoop.                                                             *)
(***************************************************************************)
\* A connection is acquired and LISTENs.
Listen ==
    /\ listener = "down"
    /\ listener' = IF shutting = "no" THEN "listening" ELSE "ended"
    /\ UNCHANGED <<subscribers, pending, delivery, buffered, closedSubs, shutting, published,
                   breaks, received, owing, racing>>

\* The connection breaks while the loop waits: what the server had for it is lost.
ConnectionBreaks ==
    /\ listener = "listening" /\ breaks < MaxBreaks
    /\ breaks' = breaks + 1
    /\ listener' = "down"
    /\ pending' = <<>>
    /\ owing' = [s \in Subscriptions |-> {}]
    /\ UNCHANGED <<subscribers, delivery, buffered, closedSubs, shutting, published, received,
                   racing>>

\* Close cancelled the context of the loop.
ListenerEnds ==
    /\ listener = "listening" /\ shutting # "no"
    /\ listener' = "ended"
    /\ UNCHANGED <<subscribers, pending, delivery, buffered, closedSubs, shutting, published,
                   breaks, received, owing, racing>>

\* deliverMessage reads the list under the lock ...
WaitForNotification ==
    /\ listener = "listening" /\ pending # <<>>
    /\ listener' = "delivering"
    /\ delivery' = [topic |-> Head(pending).topic, message |-> Head(pending).message,
                    rest |-> subscribers[Head(pending).topic]]
    /\ pending' = Tail(pending)
    /\ UNCHANGED <<subscribers, buffered, closedSubs, shutting, published, breaks, received,
                   owing, racing>>

\* ... and sends without it: to a closed channel this panics, and the recovered
\* goroutine is at its end; a full channel is passed over.
DeliverMessage ==
    LET s == Head(delivery.rest)
        m == delivery.message
    IN  /\ listener = "delivering" /\ delivery.rest # <<>>
        /\ IF s \in closedSubs
           THEN /\ listener' = "panicked" /\ delivery' = NoDelivery
                /\ UNCHANGED <<buffered, received, owing>>
           ELSE /\ delivery' = [delivery EXCEPT !.rest = Tail(@)]
                /\ owing' = [owing EXCEPT ![s] = @ \ {m}]
                /\ IF buffered[s] < SubBuffer
                   THEN /\ buffered' = [buffered EXCEPT ![s] = @ + 1]
                        /\ received' = [received EXCEPT ![s] = Append(@, m)]
                   ELSE UNCHANGED <<buffered, received>>
                /\ UNCHANGED listener
        /\ UNCHANGED <<subscribers, pending, closedSubs, shutting, published, breaks, racing>>

\* Mutant of DeliveryEnds: the loop leaves at the first full channel.
DeliveryEndsWhenFull ==
    /\ listener = "delivering"
    /\ delivery.rest # <<>> => buffered[Head(delivery.rest)] = SubBuffer
    /\ listener' = "listening" /\ delivery' = NoDelivery
    /\ UNCHANGED <<subscribers, pending, buffered, closedSubs, shutting, published, breaks,
                   received, owing, racing>>

DeliveryEnds ==
    /\ listener = "delivering" /\ delivery.rest = <<>>
    /\ listener' = "listening" /\ delivery' = NoDelivery
    /\ UNCHANGED <<subscribers, pending, buffered, closedSubs, shutting, published, breaks,
                   received, owing, racing>>

(***************************************************************************)
(* Close.                                                                  *)
(***************************************************************************)
CancelListener ==
    /\ shutting = "no"
    /\ shutting' = "cancelled"
    /\ UNCHANGED <<subscribers, listener, pending, delivery, buffered, closedSubs, published,
                   breaks, received, owing, racing>>

\* wg.Wait
ListenerGone == listener \in {"ended", "panicked"}

CloseSubscribers ==
    /\ shutting = "cancelled" /\ ListenerGone
    /\ shutting' = "closed"
    /\ closedSubs' = closedSubs \union {s \in Subscriptions : Subscribed(s)}
    /\ subscribers' = [t \in Topics |-> <<>>]
    /\ owing' = [s \in Subscriptions |-> {}]
    /\ UNCHANGED <<listener, pending, delivery, buffered, published, breaks, received, racing>>

PubSubNext ==
    \/ \E t \in Topics : Publish(t)
    \/ \E s \in Subscriptions : Subscribe(s) \/ Unsubscribe(s) \/ Take(s)
    \/ Listen \/ ConnectionBreaks \/ ListenerEnds
    \/ WaitForNotification \/ DeliverMessage \/ DeliveryEnds
    \/ CancelListener \/ CloseSubscribers

PubSubSpec == PubSubInit /\ [][PubSubNext]_pubsubVars

(***************************************************************************)
(* Properties.                                                             *)
(***************************************************************************)
PubSubTypeOK ==
    /\ subscribers \in [Topics -> Seq(Subscriptions)]
    /\ listener \in {"down", "listening", "delivering", "ended", "panicked"}
    /\ pending \in Seq([topic : Topics, message : 1..MaxMessages])
    /\ delivery.rest \in Seq(Subscriptions)
    /\ buffered \in [Subscriptions -> 0..SubBuffer]
    /\ closedSubs \subseteq Subscriptions
    /\ shutting \in {"no", "cancelled", "closed"}
    /\ published \in 0..MaxMessages /\ breaks \in 0..MaxBreaks
    /\ received \in [Subscriptions -> Seq(1..MaxMessages)]
    /\ owing \in [Subscriptions -> SUBSET (1..MaxMessages)]
    /\ racing \in BOOLEAN

\* A subscriber gets the messages of its channel in the order in which they were
\* published and none twice, if no subscription ended under a delivery.
InOrderOnce ==
    ~racing => \A s \in Subscriptions : \A i, k \in DOMAIN received[s] :
                 i < k => received[s][i] < received[s][k]

\* The loop only panics, and with it ends all delivery to the instance, when a
\* subscription ended under a delivery: Close, which closes every channel, and
\* subscriptions that end at another time never do this to it.
PanicOnlyByRace == listener = "panicked" => racing

\* One full subscriber, or one that comes or goes at another time, keeps no message
\* from the others: when the loop is idle, nothing is owed on the channels it listens to.
NobodySkipped ==
    listener = "listening" /\ pending = <<>> /\ ~racing =>
      \A s \in Subscriptions : TopicOf[s] \in ListenedTo => owing[s] = {}

\* Subscribers that are slow, come or go between deliveries disturb neither the loop nor
\* what the others receive.
DeliveryUndisturbed == InOrderOnce /\ PanicOnlyByRace /\ NobodySkipped
=============================================================================
