--------------------------- MODULE RoutingProofs ----------------------------
(***************************************************************************)
(* Proofs about what an instance keeps in lists: the subscribers of its    *)
(* channels, and its pools of connections to branches, for any number of   *)
(* each.                                                                   *)
(***************************************************************************)
EXTENDS PostgresPubSub, BranchPools, FiniteSetTheorems, SequenceTheorems, TLAPS

(***************************************************************************)
(* Lists: what removing, appending and taking an element does to them.     *)
(***************************************************************************)

\* A list whose elements all differ.
Distinct(list) == \A i, k \in 1..Len(list) : list[i] = list[k] => i = k
Elements(list) == {list[i] : i \in 1..Len(list)}

\* What a list is when the element at one place has been taken out.
LEMMA TakenOut ==
  ASSUME NEW S, NEW list \in Seq(S), NEW i \in 1..Len(list)
  PROVE  /\ RemoveAt(list, i) \in Seq(S)
         /\ Len(RemoveAt(list, i)) = Len(list) - 1
         /\ \A k \in 1..Len(list) - 1 :
              RemoveAt(list, i)[k] = IF k < i THEN list[k] ELSE list[k + 1]
<1> DEFINE n == Len(list)
           front == SubSeq(list, 1, i - 1)
           back == SubSeq(list, i + 1, n)
<1>1. n \in Nat /\ i \in Nat /\ 1 <= i /\ i <= n
  BY LenProperties
<1>2. \A k \in 1..n : list[k] \in S
  BY ElementOfSeq
<1>3. /\ front \in Seq(S) /\ Len(front) = i - 1
      /\ \A k \in 1..i - 1 : front[k] = list[k]
  <2>1. \A k \in 1..i - 1 : list[k] \in S
    BY <1>1, <1>2
  <2>2. /\ front \in Seq(S) /\ Len(front) = IF 1 <= i - 1 THEN i - 1 - 1 + 1 ELSE 0
        /\ \A k \in 1..i - 1 - 1 + 1 : front[k] = list[1 + k - 1]
    BY <1>1, <2>1, SubSeqProperties
  <2> QED BY <1>1, <2>2
<1>4. /\ back \in Seq(S) /\ Len(back) = n - i
      /\ \A k \in 1..n - i : back[k] = list[i + k]
  <2>1. \A k \in i + 1..n : list[k] \in S
    BY <1>1, <1>2
  <2>2. /\ back \in Seq(S) /\ Len(back) = IF i + 1 <= n THEN n - (i + 1) + 1 ELSE 0
        /\ \A k \in 1..n - (i + 1) + 1 : back[k] = list[i + 1 + k - 1]
    BY <1>1, <2>1, SubSeqProperties
  <2> QED BY <1>1, <2>2
<1>5. RemoveAt(list, i) = front \o back
  BY DEF RemoveAt
<1> HIDE DEF front, back
<1>6. /\ front \o back \in Seq(S) /\ Len(front \o back) = Len(front) + Len(back)
      /\ \A k \in 1..Len(front) + Len(back) :
           (front \o back)[k] = IF k <= Len(front) THEN front[k] ELSE back[k - Len(front)]
  BY <1>3, <1>4, ConcatProperties
<1>7. ASSUME NEW k \in 1..n - 1
      PROVE  (front \o back)[k] = IF k < i THEN list[k] ELSE list[k + 1]
  <2>1. CASE k < i
    BY <1>1, <1>3, <1>4, <1>6, <2>1
  <2>2. CASE k >= i
    <3>1. (front \o back)[k] = back[k - (i - 1)]
      BY <1>1, <1>3, <1>4, <1>6, <2>2
    <3>2. k - (i - 1) \in 1..n - i /\ i + (k - (i - 1)) = k + 1
      BY <1>1, <2>2
    <3>3. back[k - (i - 1)] = list[i + (k - (i - 1))]
      BY <1>4, <3>2
    <3> QED BY <1>1, <2>2, <3>1, <3>2, <3>3
  <2>3. k < i \/ k >= i
    BY <1>1
  <2> QED BY <2>1, <2>2, <2>3
<1> QED BY <1>1, <1>3, <1>4, <1>5, <1>6, <1>7

\* Of a list without repetitions, the element that is removed goes, and all others stay.
LEMMA RemovedFromList ==
  ASSUME NEW S, NEW list \in Seq(S), Distinct(list), NEW e \in Elements(list)
  PROVE  /\ RemoveFirst(list, e) \in Seq(S) /\ Distinct(RemoveFirst(list, e))
         /\ Len(RemoveFirst(list, e)) = Len(list) - 1
         /\ Elements(RemoveFirst(list, e)) = Elements(list) \ {e}
<1>1. PICK i \in 1..Len(list) : list[i] = e
  BY DEF Elements
<1>2. Len(list) \in Nat /\ i \in Nat /\ 1 <= i /\ i <= Len(list)
  BY LenProperties
<1>3. SelectInSeq(list, LAMBDA v : v = e) = i
  <2>1. {k \in 1..Len(list) : list[k] = e} = {i}
    BY <1>1 DEF Distinct
  <2>2. Min({i}) = i
    BY <1>2 DEF Min
  <2> QED BY <2>1, <2>2 DEF SelectInSeq
<1>4. RemoveFirst(list, e) = RemoveAt(list, i)
  BY <1>1, <1>3 DEF RemoveFirst
<1> DEFINE new == RemoveAt(list, i)
<1>5. /\ new \in Seq(S) /\ Len(new) = Len(list) - 1
      /\ \A k \in 1..Len(list) - 1 : new[k] = IF k < i THEN list[k] ELSE list[k + 1]
  BY TakenOut
<1> HIDE DEF new
<1>6. Distinct(new)
  <2> SUFFICES ASSUME NEW k \in 1..Len(new), NEW l \in 1..Len(new), new[k] = new[l] PROVE k = l
    BY DEF Distinct
  <2>1. k \in 1..Len(list) - 1 /\ l \in 1..Len(list) - 1
    BY <1>5
  <2>2. PICK p \in 1..Len(list) : new[k] = list[p] /\ p = IF k < i THEN k ELSE k + 1
    BY <1>2, <1>5, <2>1
  <2>3. PICK q \in 1..Len(list) : new[l] = list[q] /\ q = IF l < i THEN l ELSE l + 1
    BY <1>2, <1>5, <2>1
  <2>4. p = q
    BY <2>2, <2>3 DEF Distinct
  <2> QED BY <1>2, <2>1, <2>2, <2>3, <2>4
<1>7. Elements(new) = Elements(list) \ {e}
  <2>1. ASSUME NEW k \in 1..Len(new) PROVE new[k] \in Elements(list) \ {e}
    <3>1. k \in 1..Len(list) - 1
      BY <1>5
    <3>2. PICK p \in 1..Len(list) : new[k] = list[p] /\ p # i
      BY <1>2, <1>5, <3>1
    <3> QED BY <1>1, <3>2 DEF Distinct, Elements
  <2>2. ASSUME NEW p \in 1..Len(list), list[p] # e PROVE list[p] \in Elements(new)
    <3>1. p # i
      BY <1>1, <2>2
    <3>2. CASE p < i
      <4>1. p \in 1..Len(list) - 1 /\ new[p] = list[p]
        BY <1>2, <1>5, <3>2
      <4> QED BY <1>5, <4>1 DEF Elements
    <3>3. CASE p > i
      <4>1. p - 1 \in 1..Len(list) - 1 /\ ~(p - 1 < i) /\ p - 1 + 1 = p
        BY <1>2, <3>3
      <4>2. new[p - 1] = list[p]
        BY <1>5, <4>1
      <4> QED BY <1>5, <4>1, <4>2 DEF Elements
    <3> QED BY <1>2, <3>1, <3>2, <3>3
  <2>3. Elements(new) \subseteq Elements(list) \ {e}
    BY <2>1 DEF Elements
  <2>4. Elements(list) \ {e} \subseteq Elements(new)
    BY <2>2 DEF Elements
  <2> QED BY <2>3, <2>4
<1> QED BY <1>4, <1>5, <1>6, <1>7 DEF new

\* An element that the list has not yet is appended to it.
LEMMA AppendedToList ==
  ASSUME NEW S, NEW list \in Seq(S), NEW e \in S
  PROVE  /\ Append(list, e) \in Seq(S) /\ Len(Append(list, e)) = Len(list) + 1
         /\ Elements(Append(list, e)) = Elements(list) \union {e}
         /\ Distinct(list) /\ e \notin Elements(list) => Distinct(Append(list, e))
<1> DEFINE new == Append(list, e)
<1>1. /\ new \in Seq(S) /\ Len(new) = Len(list) + 1 /\ Len(list) \in Nat
      /\ \A i \in 1..Len(list) : new[i] = list[i]
      /\ new[Len(list) + 1] = e
  BY AppendProperties, LenProperties
<1> HIDE DEF new
<1>2. \A i \in 1..Len(new) : i \in 1..Len(list) \/ i = Len(list) + 1
  BY <1>1
<1>3. Elements(new) = Elements(list) \union {e}
  <2>1. \A i \in 1..Len(new) : new[i] \in Elements(list) \union {e}
    BY <1>1, <1>2 DEF Elements
  <2>2. \A i \in 1..Len(list) : i \in 1..Len(new)
    BY <1>1
  <2>3. Len(list) + 1 \in 1..Len(new)
    BY <1>1
  <2>4. e \in Elements(new) /\ \A i \in 1..Len(list) : list[i] \in Elements(new)
    BY <1>1, <2>2, <2>3 DEF Elements
  <2> QED BY <2>1, <2>4 DEF Elements
<1>4. ASSUME Distinct(list), e \notin Elements(list) PROVE Distinct(new)
  <2>1. \A i \in 1..Len(list) : list[i] # e
    BY <1>4 DEF Elements
  <2> QED BY <1>1, <1>2, <1>4, <2>1 DEF Distinct
<1> QED BY <1>1, <1>3, <1>4 DEF new

\* The head and the rest of a list.
LEMMA HeadAndRest ==
  ASSUME NEW S, NEW list \in Seq(S), list # <<>>
  PROVE  /\ Head(list) \in S /\ Tail(list) \in Seq(S) /\ Len(Tail(list)) = Len(list) - 1
         /\ Len(list) \in Nat \ {0} /\ Head(list) = list[1]
         /\ \A i \in 1..Len(list) - 1 : Tail(list)[i] = list[i + 1]
         /\ Elements(list) = Elements(Tail(list)) \union {Head(list)}
         /\ Distinct(list) => Distinct(Tail(list)) /\ Head(list) \notin Elements(Tail(list))
<1> DEFINE new == Tail(list)
<1>1. /\ Head(list) \in S /\ new \in Seq(S) /\ Len(new) = Len(list) - 1
      /\ Len(list) \in Nat \ {0} /\ Head(list) = list[1]
      /\ \A i \in 1..Len(list) - 1 : new[i] = list[i + 1]
  BY HeadTailProperties, LenProperties, EmptySeq
<1> HIDE DEF new
<1>2. \A i \in 1..Len(list) : i = 1 \/ (i - 1 \in 1..Len(new) /\ list[i] = new[i - 1])
  BY <1>1
<1>3. \A i \in 1..Len(new) : i + 1 \in 1..Len(list) /\ new[i] = list[i + 1]
  BY <1>1
<1>4. Elements(list) = Elements(new) \union {Head(list)}
  <2>1. 1 \in 1..Len(list)
    BY <1>1
  <2>2. \A i \in 1..Len(list) : list[i] \in Elements(new) \union {Head(list)}
    BY <1>1, <1>2 DEF Elements
  <2>3. Elements(new) \union {Head(list)} \subseteq Elements(list)
    BY <1>1, <1>3, <2>1 DEF Elements
  <2> QED BY <2>2, <2>3 DEF Elements
<1>5. ASSUME Distinct(list) PROVE Distinct(new) /\ Head(list) \notin Elements(new)
  <2>1. 1 \in 1..Len(list)
    BY <1>1
  <2>2. \A i \in 1..Len(new) : new[i] # Head(list)
    BY <1>1, <1>3, <1>5, <2>1 DEF Distinct
  <2>3. ASSUME NEW i \in 1..Len(new), NEW k \in 1..Len(new), new[i] = new[k] PROVE i = k
    <3>1. i + 1 = k + 1
      BY <1>3, <1>5, <2>3 DEF Distinct
    <3> QED BY <1>1, <3>1
  <2> QED BY <2>2, <2>3 DEF Distinct, Elements
<1> QED BY <1>1, <1>4, <1>5 DEF new

(***************************************************************************)
(* PostgresPubSub: slow, new and leaving subscribers disturb nobody.       *)
(***************************************************************************)

ListsTyped ==
    /\ subscribers \in [Topics -> Seq(Subscriptions)]
    /\ \A t \in Topics : Distinct(subscribers[t])
    /\ \A t \in Topics : \A s \in Elements(subscribers[t]) : TopicOf[s] = t /\ s \notin closedSubs

\* What the server has for the connection is in the order of publication.
PendingInOrder ==
    /\ published \in Nat /\ pending \in Seq([topic : ListenedTo, message : Nat])
    /\ \A i \in 1..Len(pending) : pending[i].message <= published
    /\ \A i, k \in 1..Len(pending) : i < k => pending[i].message < pending[k].message

\* The message that is handed out was published before all those, and those that have
\* still to get it are subscribers of its channel.
HandedOut ==
    listener = "delivering" =>
      /\ delivery \in [topic : ListenedTo, message : Nat, rest : Seq(Subscriptions)]
      /\ delivery.message <= published
      /\ \A i \in 1..Len(pending) : delivery.message < pending[i].message
      /\ Distinct(delivery.rest)
      /\ \A s \in Elements(delivery.rest) : TopicOf[s] = delivery.topic /\ s \notin closedSubs

\* What was sent to a subscriber was published before all that is still on its way to it.
ReceivedBefore ==
    \A s \in Subscriptions : \A i \in 1..Len(received[s]) :
      /\ received[s][i] <= published
      /\ \A k \in 1..Len(pending) : received[s][i] < pending[k].message
      /\ listener = "delivering" =>
           /\ received[s][i] <= delivery.message
           /\ s \in Elements(delivery.rest) => received[s][i] < delivery.message
ReceivedInOrder ==
    /\ received \in [Subscriptions -> Seq(Nat)]
    /\ \A s \in Subscriptions : \A i, k \in 1..Len(received[s]) :
         i < k => received[s][i] < received[s][k]

\* What a subscriber should still be sent is on its way to it.
OnTheWayTo(s, m) ==
    \/ \E i \in 1..Len(pending) : pending[i].topic = TopicOf[s] /\ pending[i].message = m
    \/ listener = "delivering" /\ s \in Elements(delivery.rest) /\ m = delivery.message
OwedIsOnTheWay ==
    /\ owing \in [Subscriptions -> SUBSET Nat]
    /\ \A s \in Subscriptions : owing[s] # {} => s \in Elements(subscribers[TopicOf[s]])
    /\ \A s \in Subscriptions : TopicOf[s] \in ListenedTo => \A m \in owing[s] : OnTheWayTo(s, m)

Undisturbed ==
    /\ ListsTyped /\ PendingInOrder /\ HandedOut /\ ReceivedBefore /\ ReceivedInOrder
    /\ OwedIsOnTheWay /\ listener # "panicked"
PubSubInv == ~racing => Undisturbed

LEMMA PubSubStarts == PubSubInit => PubSubInv
<1> SUFFICES ASSUME PubSubInit PROVE Undisturbed
  BY DEF PubSubInv
<1>1. /\ <<>> \in Seq(Subscriptions) /\ <<>> \in Seq([topic : ListenedTo, message : Nat])
      /\ <<>> \in Seq(Nat) /\ Len(<<>>) = 0
  BY EmptySeq
<1>2. Distinct(<<>>) /\ Elements(<<>>) = {}
  BY <1>1 DEF Distinct, Elements
<1>3. ListsTyped /\ PendingInOrder /\ ReceivedInOrder
  BY <1>1, <1>2 DEF PubSubInit, ListsTyped, PendingInOrder, ReceivedInOrder
<1>4. HandedOut /\ OwedIsOnTheWay /\ listener # "panicked"
  BY DEF PubSubInit, HandedOut, OwedIsOnTheWay
<1>5. ReceivedBefore
  BY <1>1 DEF PubSubInit, ReceivedBefore
<1> QED BY <1>3, <1>4, <1>5 DEF Undisturbed

LEMMA SubscribedIs ==
  ASSUME ListsTyped, NEW s \in Subscriptions
  PROVE  /\ TopicOf[s] \in Topics /\ subscribers[TopicOf[s]] \in Seq(Subscriptions)
         /\ Subscribed(s) <=> s \in Elements(subscribers[TopicOf[s]])
<1>1. TopicOf[s] \in Topics /\ subscribers[TopicOf[s]] \in Seq(Subscriptions)
  BY PubSubAssumption DEF ListsTyped
<1>2. DOMAIN subscribers[TopicOf[s]] = 1..Len(subscribers[TopicOf[s]])
  BY <1>1, LenProperties
<1> QED BY <1>1, <1>2 DEF Subscribed, Elements

\* A message is published.
LEMMA PublishKeeps == ASSUME Undisturbed, NEW t \in Topics, Publish(t) PROVE Undisturbed'
<1> DEFINE note == [topic |-> t, message |-> published']
           hears == listener \in {"listening", "delivering"}
<1>1. /\ published' = published + 1
      /\ pending' = IF hears /\ t \in ListenedTo THEN Append(pending, note) ELSE pending
      /\ owing' = [s \in Subscriptions |->
                     IF hears /\ TopicOf[s] = t /\ Subscribed(s)
                     THEN owing[s] \union {published'} ELSE owing[s]]
      /\ UNCHANGED <<subscribers, listener, delivery, closedSubs, received>>
  BY DEF Publish
<1> HIDE DEF hears
<1>2. published \in Nat /\ published' \in Nat /\ published < published'
      /\ pending \in Seq([topic : ListenedTo, message : Nat]) /\ Len(pending) \in Nat
  BY <1>1, LenProperties DEF Undisturbed, PendingInOrder
<1>3. /\ pending' \in Seq([topic : ListenedTo, message : Nat])
      /\ \A i \in 1..Len(pending) : i \in 1..Len(pending') /\ pending'[i] = pending[i]
      /\ \A i \in 1..Len(pending') : i \in 1..Len(pending) \/ i = Len(pending) + 1
      /\ Len(pending) + 1 \in 1..Len(pending') =>
           pending'[Len(pending) + 1] = note /\ Len(pending') = Len(pending) + 1
      /\ hears /\ t \in ListenedTo =>
           Len(pending) + 1 \in 1..Len(pending') /\ pending'[Len(pending) + 1] = note
  <2>1. CASE hears /\ t \in ListenedTo
    <3>1. note \in [topic : ListenedTo, message : Nat]
      BY <1>2, <2>1
    <3> QED BY <1>1, <1>2, <2>1, <3>1, AppendProperties
  <2>2. CASE ~(hears /\ t \in ListenedTo)
    BY <1>1, <1>2, <2>2
  <2> QED BY <2>1, <2>2
<1>4. note.message = published'
  OBVIOUS
<1> HIDE DEF note
<1>5. ListsTyped'
  BY <1>1 DEF Undisturbed, ListsTyped
<1>6. \A i \in 1..Len(pending) : pending[i].message \in Nat /\ pending[i].message <= published
  <2>1. \A i \in 1..Len(pending) : pending[i] \in [topic : ListenedTo, message : Nat]
    BY <1>2, ElementOfSeq
  <2> QED BY <2>1 DEF Undisturbed, PendingInOrder
<1>7. \A i \in 1..Len(pending') : pending'[i].message = IF i \in 1..Len(pending)
                                                      THEN pending[i].message ELSE published'
  BY <1>3, <1>4
<1>8. PendingInOrder'
  <2>1. \A i \in 1..Len(pending') : pending'[i].message <= published'
    BY <1>2, <1>6, <1>7
  <2>2. ASSUME NEW i \in 1..Len(pending'), NEW k \in 1..Len(pending'), i < k
        PROVE  pending'[i].message < pending'[k].message
    <3>1. i \in 1..Len(pending)
      BY <1>2, <1>3, <2>2
    <3>2. CASE k \in 1..Len(pending)
      BY <1>7, <2>2, <3>1, <3>2 DEF Undisturbed, PendingInOrder
    <3>3. CASE k \notin 1..Len(pending)
      BY <1>2, <1>6, <1>7, <3>1, <3>3
    <3> QED BY <3>2, <3>3
  <2> QED BY <1>2, <1>3, <2>1, <2>2 DEF PendingInOrder
<1>9. HandedOut'
  <2> SUFFICES ASSUME listener = "delivering" PROVE HandedOut'
    BY <1>1 DEF HandedOut
  <2>1. delivery.message \in Nat /\ delivery.message < published'
    BY <1>2 DEF Undisturbed, HandedOut
  <2>2. \A i \in 1..Len(pending') : delivery.message < pending'[i].message
    BY <1>7, <2>1 DEF Undisturbed, HandedOut
  <2> QED BY <1>1, <2>1, <2>2 DEF Undisturbed, HandedOut
<1>10. ReceivedInOrder'
  BY <1>1 DEF Undisturbed, ReceivedInOrder
<1>11. ReceivedBefore'
  <2> SUFFICES ASSUME NEW s \in Subscriptions, NEW i \in 1..Len(received[s])
               PROVE  /\ received[s][i] <= published'
                      /\ \A k \in 1..Len(pending') : received[s][i] < pending'[k].message
    BY <1>1 DEF Undisturbed, ReceivedBefore
  <2>1. received[s][i] \in Nat
    BY ElementOfSeq DEF Undisturbed, ReceivedInOrder
  <2>2. received[s][i] < published'
    BY <1>2, <2>1 DEF Undisturbed, ReceivedBefore
  <2>3. ASSUME NEW k \in 1..Len(pending') PROVE received[s][i] < pending'[k].message
    <3>1. CASE k \in 1..Len(pending)
      BY <1>7, <3>1 DEF Undisturbed, ReceivedBefore
    <3>2. CASE k \notin 1..Len(pending)
      BY <1>7, <2>2, <3>2
    <3> QED BY <3>1, <3>2
  <2>4. received[s][i] <= published'
    BY <1>2, <2>1, <2>2
  <2> QED BY <2>3, <2>4
<1>12. OwedIsOnTheWay'
  <2>1. owing' \in [Subscriptions -> SUBSET Nat]
    BY <1>1, <1>2 DEF Undisturbed, OwedIsOnTheWay
  <2>2. ASSUME NEW s \in Subscriptions, owing'[s] # {}
        PROVE  s \in Elements(subscribers[TopicOf[s]])'
    BY <1>1, <2>2, SubscribedIs DEF Undisturbed, OwedIsOnTheWay
  <2>3. ASSUME NEW s \in Subscriptions, TopicOf[s] \in ListenedTo, NEW m \in owing'[s]
        PROVE  OnTheWayTo(s, m)'
    <3>1. CASE m \in owing[s]
      <4>1. OnTheWayTo(s, m)
        BY <2>3, <3>1 DEF Undisturbed, OwedIsOnTheWay
      <4> QED BY <1>1, <1>3, <4>1 DEF OnTheWayTo
    <3>2. CASE m \notin owing[s]
      <4>1. hears /\ TopicOf[s] = t /\ m = published'
        BY <1>1, <3>2, <2>3
      <4>2. pending'[Len(pending) + 1] = note /\ Len(pending) + 1 \in 1..Len(pending')
        BY <1>3, <2>3, <4>1
      <4> QED BY <1>4, <4>1, <4>2 DEF OnTheWayTo, note
    <3> QED BY <3>1, <3>2
  <2> QED BY <2>1, <2>2, <2>3 DEF OwedIsOnTheWay
<1>13. listener' # "panicked"
  BY <1>1 DEF Undisturbed
<1> QED BY <1>5, <1>8, <1>9, <1>10, <1>11, <1>12, <1>13 DEF Undisturbed

\* A subscription begins.
LEMMA SubscribeKeeps == ASSUME Undisturbed, NEW s \in Subscriptions, Subscribe(s) PROVE Undisturbed'
<1> DEFINE t == TopicOf[s]
<1>1. /\ ~Subscribed(s) /\ s \notin closedSubs
      /\ subscribers' = [subscribers EXCEPT ![t] = Append(@, s)]
      /\ UNCHANGED <<listener, pending, delivery, closedSubs, published, received, owing>>
  BY DEF Subscribe, Added
<1>2. ListsTyped /\ t \in Topics /\ subscribers[t] \in Seq(Subscriptions)
      /\ s \notin Elements(subscribers[t])
  BY <1>1, SubscribedIs DEF Undisturbed
<1>3. /\ Append(subscribers[t], s) \in Seq(Subscriptions)
      /\ Elements(Append(subscribers[t], s)) = Elements(subscribers[t]) \union {s}
      /\ Distinct(Append(subscribers[t], s))
  BY <1>2, AppendedToList DEF ListsTyped
<1>4. /\ subscribers' \in [Topics -> Seq(Subscriptions)]
      /\ subscribers'[t] = Append(subscribers[t], s)
      /\ \A u \in Topics : u # t => subscribers'[u] = subscribers[u]
  BY <1>1, <1>2, <1>3 DEF ListsTyped
<1>5. ListsTyped'
  <2>1. ASSUME NEW u \in Topics
        PROVE  /\ Distinct(subscribers'[u])
               /\ \A r \in Elements(subscribers'[u]) : TopicOf[r] = u /\ r \notin closedSubs'
    <3>1. CASE u = t
      BY <1>1, <1>2, <1>3, <1>4, <3>1 DEF ListsTyped
    <3>2. CASE u # t
      BY <1>1, <1>2, <1>4, <3>2 DEF ListsTyped
    <3> QED BY <3>1, <3>2
  <2> QED BY <1>4, <2>1 DEF ListsTyped
<1>6. \A u \in Topics : Elements(subscribers[u]) \subseteq Elements(subscribers'[u])
  BY <1>3, <1>4
<1>7. PendingInOrder' /\ HandedOut' /\ ReceivedBefore' /\ ReceivedInOrder' /\ listener' # "panicked"
  BY <1>1 DEF Undisturbed, PendingInOrder, HandedOut, ReceivedBefore, ReceivedInOrder
<1>8. OwedIsOnTheWay'
  <2>1. \A r \in Subscriptions : owing[r] # {} => r \in Elements(subscribers'[TopicOf[r]])
    BY <1>2, <1>6, SubscribedIs DEF Undisturbed, OwedIsOnTheWay
  <2>2. \A r, m : OnTheWayTo(r, m)' <=> OnTheWayTo(r, m)
    BY <1>1 DEF OnTheWayTo
  <2> QED BY <1>1, <2>1, <2>2 DEF Undisturbed, OwedIsOnTheWay
<1> QED BY <1>5, <1>7, <1>8 DEF Undisturbed

\* A subscription ends, and not under a delivery to its channel.
LEMMA UnsubscribeKeeps ==
  ASSUME Undisturbed, NEW s \in Subscriptions, Unsubscribe(s), ~racing'
  PROVE  Undisturbed'
<1> DEFINE t == TopicOf[s]
           rest == RemoveFirst(subscribers[t], s)
<1>1. /\ Subscribed(s) /\ delivery.topic # t
      /\ subscribers' = [subscribers EXCEPT ![t] = rest]
      /\ closedSubs' = closedSubs \union {s}
      /\ owing' = [owing EXCEPT ![s] = {}]
      /\ UNCHANGED <<listener, pending, delivery, published, received>>
  BY DEF Unsubscribe, Without
<1>2. ListsTyped /\ t \in Topics /\ subscribers[t] \in Seq(Subscriptions)
      /\ s \in Elements(subscribers[t])
  BY <1>1, SubscribedIs DEF Undisturbed
<1>3. /\ rest \in Seq(Subscriptions) /\ Distinct(rest)
      /\ Elements(rest) = Elements(subscribers[t]) \ {s}
  BY <1>2, RemovedFromList DEF ListsTyped
<1> HIDE DEF rest
<1>4. /\ subscribers' \in [Topics -> Seq(Subscriptions)] /\ subscribers'[t] = rest
      /\ \A u \in Topics : u # t => subscribers'[u] = subscribers[u]
  BY <1>1, <1>2, <1>3 DEF ListsTyped
<1>5. ListsTyped'
  <2>1. ASSUME NEW u \in Topics
        PROVE  /\ Distinct(subscribers'[u])
               /\ \A r \in Elements(subscribers'[u]) : TopicOf[r] = u /\ r \notin closedSubs'
    <3>1. CASE u = t
      BY <1>1, <1>2, <1>3, <1>4, <3>1 DEF ListsTyped
    <3>2. CASE u # t
      BY <1>1, <1>2, <1>4, <3>2 DEF ListsTyped
    <3> QED BY <3>1, <3>2
  <2> QED BY <1>4, <2>1 DEF ListsTyped
<1>6. PendingInOrder' /\ ReceivedBefore' /\ ReceivedInOrder' /\ listener' # "panicked"
  BY <1>1 DEF Undisturbed, PendingInOrder, ReceivedBefore, ReceivedInOrder
<1>7. HandedOut'
  <2>1. HandedOut
    BY DEF Undisturbed
  <2>2. listener = "delivering" =>
          \A r \in Elements(delivery.rest) : TopicOf[r] = delivery.topic /\ r \notin closedSubs'
    BY <1>1, <2>1 DEF HandedOut
  <2> QED BY <1>1, <2>1, <2>2 DEF HandedOut
<1>8. OwedIsOnTheWay'
  <2>1. /\ owing \in [Subscriptions -> SUBSET Nat] /\ owing'[s] = {}
        /\ \A r \in Subscriptions : r # s => owing'[r] = owing[r]
    BY <1>1 DEF Undisturbed, OwedIsOnTheWay
  <2>2. owing' \in [Subscriptions -> SUBSET Nat]
    BY <1>1, <2>1
  <2>3. ASSUME NEW r \in Subscriptions, owing'[r] # {}
        PROVE  r \in Elements(subscribers'[TopicOf[r]])
    <3>1. r # s /\ r \in Elements(subscribers[TopicOf[r]]) /\ TopicOf[r] \in Topics
      BY <1>2, <2>1, <2>3, SubscribedIs DEF Undisturbed, OwedIsOnTheWay
    <3> QED BY <1>3, <1>4, <3>1
  <2>4. \A r, m : OnTheWayTo(r, m)' <=> OnTheWayTo(r, m)
    BY <1>1 DEF OnTheWayTo
  <2>5. ASSUME NEW r \in Subscriptions, TopicOf[r] \in ListenedTo, NEW m \in owing'[r]
        PROVE  OnTheWayTo(r, m)'
    <3>1. m \in owing[r]
      BY <2>1, <2>5
    <3> QED BY <2>4, <2>5, <3>1 DEF Undisturbed, OwedIsOnTheWay
  <2> QED BY <2>2, <2>3, <2>5 DEF OwedIsOnTheWay
<1> QED BY <1>5, <1>6, <1>7, <1>8 DEF Undisturbed

\* The connection is made, breaks or is given up while nothing is handed out.
LEMMA LoopKeeps ==
  ASSUME Undisturbed, Listen \/ ConnectionBreaks \/ ListenerEnds \/ CancelListener
  PROVE  Undisturbed'
<1>1. /\ UNCHANGED <<subscribers, closedSubs, published, received, delivery>>
      /\ \/ listener # "delivering" /\ listener' \in {"down", "listening", "ended"}
         \/ listener' = listener
      /\ \/ pending' = pending /\ owing' = owing
         \/ pending' = <<>> /\ owing' = [s \in Subscriptions |-> {}]
  BY DEF Listen, ConnectionBreaks, ListenerEnds, CancelListener
<1>2. /\ listener' = "delivering" => listener = "delivering"
      /\ listener # "delivering" \/ listener' = listener
      /\ listener' # "panicked"
  BY <1>1 DEF Undisturbed
<1>3. ListsTyped' /\ ReceivedInOrder'
  BY <1>1 DEF Undisturbed, ListsTyped, ReceivedInOrder
<1>4. CASE pending' = pending /\ owing' = owing
  <2>1. PendingInOrder' /\ HandedOut' /\ ReceivedBefore'
    BY <1>1, <1>2, <1>4 DEF Undisturbed, PendingInOrder, HandedOut, ReceivedBefore
  <2>2. \A s, m : OnTheWayTo(s, m) => OnTheWayTo(s, m)'
    BY <1>1, <1>2, <1>4 DEF OnTheWayTo
  <2>3. OwedIsOnTheWay'
    BY <1>1, <1>4, <2>2 DEF Undisturbed, OwedIsOnTheWay
  <2> QED BY <1>2, <1>3, <2>1, <2>3 DEF Undisturbed
<1>5. CASE pending' = <<>> /\ owing' = [s \in Subscriptions |-> {}]
  <2>1. <<>> \in Seq([topic : ListenedTo, message : Nat]) /\ Len(<<>>) = 0
    BY EmptySeq
  <2>2. \A i \in 1..Len(pending') : FALSE
    BY <1>5, <2>1
  <2>3. PendingInOrder'
    BY <1>1, <1>5, <2>1, <2>2 DEF Undisturbed, PendingInOrder
  <2>4. HandedOut'
    BY <1>1, <1>2, <2>2 DEF Undisturbed, HandedOut
  <2>5. ReceivedBefore'
    BY <1>1, <1>2, <2>2 DEF Undisturbed, ReceivedBefore
  <2>6. OwedIsOnTheWay'
    BY <1>5 DEF OwedIsOnTheWay
  <2> QED BY <1>2, <1>3, <2>3, <2>4, <2>5, <2>6 DEF Undisturbed
<1> QED BY <1>1, <1>4, <1>5

\* A notification arrives.
LEMMA WaitKeeps == ASSUME Undisturbed, WaitForNotification PROVE Undisturbed'
<1> DEFINE note == Head(pending)
<1>1. /\ listener = "listening" /\ pending # <<>> /\ listener' = "delivering"
      /\ delivery' = [topic |-> note.topic, message |-> note.message,
                      rest |-> subscribers[note.topic]]
      /\ pending' = Tail(pending)
      /\ UNCHANGED <<subscribers, closedSubs, published, received, owing>>
  BY DEF WaitForNotification
<1>2. /\ note \in [topic : ListenedTo, message : Nat] /\ note = pending[1]
      /\ pending' \in Seq([topic : ListenedTo, message : Nat])
      /\ Len(pending') = Len(pending) - 1 /\ Len(pending) \in Nat \ {0}
      /\ \A i \in 1..Len(pending) - 1 : pending'[i] = pending[i + 1]
  <2> DEFINE Notes == [topic : ListenedTo, message : Nat]
  <2>1. pending \in Seq(Notes)
    BY DEF Undisturbed, PendingInOrder
  <2> HIDE DEF Notes
  <2>2. /\ note \in Notes /\ note = pending[1] /\ Tail(pending) \in Seq(Notes)
        /\ Len(Tail(pending)) = Len(pending) - 1 /\ Len(pending) \in Nat \ {0}
        /\ \A i \in 1..Len(pending) - 1 : Tail(pending)[i] = pending[i + 1]
    BY <1>1, <2>1, HeadAndRest
  <2> QED BY <1>1, <2>2 DEF Notes
<1> HIDE DEF note
<1>3. \A i \in 1..Len(pending') : i + 1 \in 1..Len(pending) /\ pending'[i] = pending[i + 1]
  BY <1>2
<1>4. 1 \in 1..Len(pending) /\ \A i \in 1..Len(pending) :
        i = 1 \/ (i - 1 \in 1..Len(pending') /\ pending'[i - 1] = pending[i])
  BY <1>2
<1>5. /\ note.topic \in ListenedTo /\ note.topic \in Topics /\ note.message \in Nat
      /\ subscribers[note.topic] \in Seq(Subscriptions)
  BY <1>2, PubSubAssumption DEF Undisturbed, ListsTyped
<1>6. /\ delivery' \in [topic : ListenedTo, message : Nat, rest : Seq(Subscriptions)]
      /\ delivery'.topic = note.topic /\ delivery'.message = note.message
      /\ delivery'.rest = subscribers[note.topic]
  BY <1>1, <1>5
<1>7. ListsTyped' /\ ReceivedInOrder' /\ listener' # "panicked"
  BY <1>1 DEF Undisturbed, ListsTyped, ReceivedInOrder
<1>8. PendingInOrder'
  <2>1. ASSUME NEW i \in 1..Len(pending'), NEW k \in 1..Len(pending'), i < k
        PROVE  pending'[i].message < pending'[k].message
    <3>1. i + 1 < k + 1
      BY <2>1
    <3> QED BY <1>3, <3>1 DEF Undisturbed, PendingInOrder
  <2> QED BY <1>1, <1>2, <1>3, <2>1 DEF Undisturbed, PendingInOrder
<1>9. HandedOut'
  <2>1. note.message <= published
    BY <1>2, <1>4 DEF Undisturbed, PendingInOrder
  <2>2. ASSUME NEW i \in 1..Len(pending') PROVE note.message < pending'[i].message
    <3>1. 1 < i + 1
      BY <2>2
    <3> QED BY <1>2, <1>3, <1>4, <3>1 DEF Undisturbed, PendingInOrder
  <2>3. /\ Distinct(subscribers[note.topic])
        /\ \A s \in Elements(subscribers[note.topic]) : TopicOf[s] = note.topic /\ s \notin closedSubs
    BY <1>5 DEF Undisturbed, ListsTyped
  <2> QED BY <1>1, <1>6, <2>1, <2>2, <2>3 DEF HandedOut
<1>10. ReceivedBefore'
  <2> SUFFICES ASSUME NEW s \in Subscriptions, NEW i \in 1..Len(received[s])
               PROVE  /\ received[s][i] <= published
                      /\ \A k \in 1..Len(pending') : received[s][i] < pending'[k].message
                      /\ received[s][i] <= note.message /\ received[s][i] < note.message
    BY <1>1, <1>6 DEF ReceivedBefore
  <2>1. received[s][i] \in Nat
    BY ElementOfSeq DEF Undisturbed, ReceivedInOrder
  <2>2. \A k \in 1..Len(pending) : received[s][i] < pending[k].message
    BY DEF Undisturbed, ReceivedBefore
  <2>3. received[s][i] < note.message
    BY <1>2, <1>4, <2>2
  <2>4. received[s][i] <= published
    BY DEF Undisturbed, ReceivedBefore
  <2> QED BY <1>3, <1>5, <2>1, <2>2, <2>3, <2>4
<1>11. OwedIsOnTheWay'
  <2>1. ASSUME NEW s \in Subscriptions, TopicOf[s] \in ListenedTo, NEW m \in owing[s]
        PROVE  OnTheWayTo(s, m)'
    <3>1. PICK i \in 1..Len(pending) : pending[i].topic = TopicOf[s] /\ pending[i].message = m
      BY <1>1, <2>1 DEF Undisturbed, OwedIsOnTheWay, OnTheWayTo
    <3>2. CASE i = 1
      <4>1. s \in Elements(subscribers[note.topic]) /\ m = note.message
        BY <1>2, <2>1, <3>1, <3>2 DEF Undisturbed, OwedIsOnTheWay
      <4> QED BY <1>1, <1>6, <4>1 DEF OnTheWayTo
    <3>3. CASE i # 1
      BY <1>4, <3>1, <3>3 DEF OnTheWayTo
    <3> QED BY <3>2, <3>3
  <2> QED BY <1>1, <2>1 DEF Undisturbed, OwedIsOnTheWay
<1> QED BY <1>7, <1>8, <1>9, <1>10, <1>11 DEF Undisturbed

\* It is sent to the next subscriber, whose channel is open.
LEMMA DeliverKeeps == ASSUME Undisturbed, DeliverMessage PROVE Undisturbed'
<1> DEFINE s == Head(delivery.rest)
           m == delivery.message
<1>1. /\ listener = "delivering" /\ delivery.rest # <<>>
      /\ UNCHANGED <<subscribers, pending, closedSubs, published>>
  BY DEF DeliverMessage
<1>2. /\ delivery \in [topic : ListenedTo, message : Nat, rest : Seq(Subscriptions)]
      /\ delivery.rest \in Seq(Subscriptions) /\ Distinct(delivery.rest) /\ m \in Nat
  BY <1>1 DEF Undisturbed, HandedOut
<1>3. /\ s \in Subscriptions /\ Tail(delivery.rest) \in Seq(Subscriptions)
      /\ Elements(delivery.rest) = Elements(Tail(delivery.rest)) \union {s}
      /\ Distinct(Tail(delivery.rest)) /\ s \notin Elements(Tail(delivery.rest))
  BY <1>1, <1>2, HeadAndRest
<1>4. s \notin closedSubs
  BY <1>1, <1>3 DEF Undisturbed, HandedOut
<1>5. /\ delivery' = [delivery EXCEPT !.rest = Tail(@)]
      /\ owing' = [owing EXCEPT ![s] = @ \ {m}]
      /\ received' = received \/ received' = [received EXCEPT ![s] = Append(@, m)]
      /\ listener' = listener
  BY <1>4 DEF DeliverMessage
<1> HIDE DEF s, m
<1>6. /\ delivery' \in [topic : ListenedTo, message : Nat, rest : Seq(Subscriptions)]
      /\ delivery'.topic = delivery.topic /\ delivery'.message = delivery.message
      /\ delivery'.rest = Tail(delivery.rest)
  BY <1>2, <1>3, <1>5
<1>7. ListsTyped' /\ PendingInOrder' /\ listener' # "panicked"
  BY <1>1, <1>5 DEF Undisturbed, ListsTyped, PendingInOrder
<1>8. HandedOut'
  BY <1>1, <1>3, <1>6 DEF Undisturbed, HandedOut
<1>9. ASSUME NEW r \in Subscriptions
      PROVE  /\ received'[r] \in Seq(Nat) /\ Len(received[r]) \in Nat
             /\ \A i \in 1..Len(received'[r]) :
                  IF i \in 1..Len(received[r]) THEN received'[r][i] = received[r][i]
                  ELSE r = s /\ received'[r][i] = m
             /\ Len(received'[r]) \in {Len(received[r]), Len(received[r]) + 1}
  <2>1. received[r] \in Seq(Nat) /\ received \in [Subscriptions -> Seq(Nat)] /\ Len(received[r]) \in Nat
    BY LenProperties DEF Undisturbed, ReceivedInOrder
  <2>2. CASE received'[r] = received[r]
    BY <2>1, <2>2
  <2>3. CASE r = s /\ received'[r] = Append(received[r], m)
    <3>1. m \in Nat
      BY <1>2 DEF m
    <3>2. /\ Append(received[r], m) \in Seq(Nat)
          /\ Len(Append(received[r], m)) = Len(received[r]) + 1
          /\ \A i \in 1..Len(received[r]) : Append(received[r], m)[i] = received[r][i]
          /\ Append(received[r], m)[Len(received[r]) + 1] = m
      BY <2>1, <3>1, AppendProperties
    <3>3. \A i \in 1..Len(received[r]) + 1 : i \in 1..Len(received[r]) \/ i = Len(received[r]) + 1
      BY <2>1
    <3> QED BY <2>1, <2>3, <3>2, <3>3
  <2> QED BY <1>3, <1>5, <2>1, <2>2, <2>3
<1>10. \A r \in Subscriptions : \A i \in 1..Len(received[r]) : received[r][i] \in Nat
  BY ElementOfSeq DEF Undisturbed, ReceivedInOrder
<1>11. \A i \in 1..Len(received[s]) : received[s][i] < m
  BY <1>1, <1>3 DEF Undisturbed, ReceivedBefore, m
<1>12. ReceivedInOrder'
  <2>1. ASSUME NEW r \in Subscriptions, NEW i \in 1..Len(received'[r]),
               NEW k \in 1..Len(received'[r]), i < k
        PROVE  received'[r][i] < received'[r][k]
    <3>1. Len(received[r]) \in Nat /\ Len(received'[r]) \in {Len(received[r]), Len(received[r]) + 1}
      BY <1>9
    <3>2. i \in 1..Len(received[r])
      BY <2>1, <3>1
    <3>3. received'[r][i] = received[r][i]
      BY <1>9, <3>2
    <3>4. CASE k \in 1..Len(received[r])
      <4>1. received'[r][k] = received[r][k]
        BY <1>9, <3>4
      <4> QED BY <2>1, <3>2, <3>3, <3>4, <4>1 DEF Undisturbed, ReceivedInOrder
    <3>5. CASE k \notin 1..Len(received[r])
      <4>1. r = s /\ received'[r][k] = m
        BY <1>9, <3>5
      <4> QED BY <1>11, <3>2, <3>3, <4>1
    <3> QED BY <3>4, <3>5
  <2>2. received' \in [Subscriptions -> Seq(Nat)]
    <3>1. received \in [Subscriptions -> Seq(Nat)]
      BY DEF Undisturbed, ReceivedInOrder
    <3>2. Append(received[s], m) \in Seq(Nat)
      BY <1>2, <1>3, <3>1, AppendProperties DEF m
    <3> QED BY <1>3, <1>5, <3>1, <3>2
  <2> QED BY <2>1, <2>2 DEF ReceivedInOrder
<1>13. ReceivedBefore'
  <2> SUFFICES ASSUME NEW r \in Subscriptions, NEW i \in 1..Len(received'[r])
               PROVE  /\ received'[r][i] <= published
                      /\ \A k \in 1..Len(pending) : received'[r][i] < pending[k].message
                      /\ received'[r][i] <= m
                      /\ r \in Elements(Tail(delivery.rest)) => received'[r][i] < m
    BY <1>1, <1>5, <1>6 DEF ReceivedBefore, m
  <2>1. CASE i \in 1..Len(received[r])
    <3>1. received'[r][i] = received[r][i]
      BY <1>9, <2>1
    <3>2. /\ received[r][i] <= published
          /\ \A k \in 1..Len(pending) : received[r][i] < pending[k].message
          /\ received[r][i] <= m
          /\ r \in Elements(delivery.rest) => received[r][i] < m
      BY <1>1, <2>1 DEF Undisturbed, ReceivedBefore, m
    <3> QED BY <1>3, <3>1, <3>2
  <2>2. CASE i \notin 1..Len(received[r])
    <3>1. r = s /\ received'[r][i] = m
      BY <1>9, <2>2
    <3>2. m \in Nat /\ m <= published /\ \A k \in 1..Len(pending) : m < pending[k].message
      BY <1>1, <1>2 DEF Undisturbed, HandedOut, m
    <3> QED BY <1>3, <3>1, <3>2
  <2> QED BY <2>1, <2>2
<1>14. OwedIsOnTheWay'
  <2>1. /\ owing \in [Subscriptions -> SUBSET Nat] /\ owing'[s] = owing[s] \ {m}
        /\ \A r \in Subscriptions : r # s => owing'[r] = owing[r]
    BY <1>3, <1>5 DEF Undisturbed, OwedIsOnTheWay
  <2>2. owing' \in [Subscriptions -> SUBSET Nat]
    BY <1>3, <1>5, <2>1
  <2>3. ASSUME NEW r \in Subscriptions,
               owing'[r] # {} PROVE r \in Elements(subscribers'[TopicOf[r]])
    <3>1. owing[r] # {}
      BY <2>1, <2>3
    <3> QED BY <1>1, <3>1 DEF Undisturbed, OwedIsOnTheWay
  <2>4. ASSUME NEW r \in Subscriptions, TopicOf[r] \in ListenedTo, NEW o \in owing'[r]
        PROVE  OnTheWayTo(r, o)'
    <3>1. o \in owing[r] /\ (r = s => o # m)
      BY <2>1, <2>4
    <3>2. OnTheWayTo(r, o)
      BY <2>4, <3>1 DEF Undisturbed, OwedIsOnTheWay
    <3>3. CASE \E i \in 1..Len(pending) : pending[i].topic = TopicOf[r] /\ pending[i].message = o
      BY <1>1, <3>3 DEF OnTheWayTo
    <3>4. CASE r \in Elements(delivery.rest) /\ o = delivery.message
      <4>1. r # s
        BY <3>1, <3>4 DEF m
      <4> QED BY <1>1, <1>3, <1>5, <1>6, <3>4, <4>1 DEF OnTheWayTo
    <3> QED BY <3>2, <3>3, <3>4 DEF OnTheWayTo
  <2> QED BY <2>2, <2>3, <2>4 DEF OwedIsOnTheWay
<1> QED BY <1>7, <1>8, <1>12, <1>13, <1>14 DEF Undisturbed

\* Every subscriber has been gone through.
LEMMA DeliveryEndKeeps == ASSUME Undisturbed, DeliveryEnds PROVE Undisturbed'
<1>1. /\ listener = "delivering" /\ delivery.rest = <<>> /\ listener' = "listening"
      /\ UNCHANGED <<subscribers, pending, closedSubs, published, received, owing>>
  BY DEF DeliveryEnds
<1>2. Elements(<<>>) = {}
  BY EmptySeq DEF Elements
<1>3. /\ ListsTyped' /\ PendingInOrder' /\ HandedOut' /\ ReceivedBefore' /\ ReceivedInOrder'
      /\ listener' # "panicked"
  BY <1>1 DEF Undisturbed, ListsTyped, PendingInOrder, HandedOut, ReceivedBefore, ReceivedInOrder
<1>4. \A s, m : OnTheWayTo(s, m) => OnTheWayTo(s, m)'
  BY <1>1, <1>2 DEF OnTheWayTo
<1>5. OwedIsOnTheWay'
  BY <1>1, <1>4 DEF Undisturbed, OwedIsOnTheWay
<1> QED BY <1>3, <1>5 DEF Undisturbed

\* Close closes every channel when the loop has ended.
LEMMA CloseKeeps == ASSUME Undisturbed, CloseSubscribers PROVE Undisturbed'
<1>1. /\ listener # "delivering" /\ subscribers' = [t \in Topics |-> <<>>]
      /\ owing' = [s \in Subscriptions |-> {}]
      /\ UNCHANGED <<listener, pending, delivery, published, received>>
  BY DEF CloseSubscribers, ListenerGone
<1>2. Elements(<<>>) = {} /\ Distinct(<<>>) /\ <<>> \in Seq(Subscriptions)
  BY EmptySeq DEF Elements, Distinct
<1>3. ListsTyped'
  BY <1>1, <1>2 DEF ListsTyped
<1>4. PendingInOrder' /\ HandedOut' /\ ReceivedBefore' /\ ReceivedInOrder' /\ listener' # "panicked"
  BY <1>1 DEF Undisturbed, PendingInOrder, HandedOut, ReceivedBefore, ReceivedInOrder
<1>5. OwedIsOnTheWay'
  BY <1>1 DEF OwedIsOnTheWay
<1> QED BY <1>3, <1>4, <1>5 DEF Undisturbed

\* Every step preserves the invariant.
LEMMA PubSubSteps == PubSubInv /\ [PubSubNext]_pubsubVars => PubSubInv'
<1> SUFFICES ASSUME PubSubInv, [PubSubNext]_pubsubVars, ~racing' PROVE Undisturbed'
  BY DEF PubSubInv
<1>1. racing => racing'
  BY DEF PubSubNext, pubsubVars, Publish, Subscribe, Unsubscribe, Take, Listen, ConnectionBreaks,
         ListenerEnds, WaitForNotification, DeliverMessage, DeliveryEnds, CancelListener,
         CloseSubscribers
<1>2. Undisturbed
  BY <1>1 DEF PubSubInv
<1>3. ASSUME UNCHANGED <<subscribers, listener, pending, delivery, closedSubs, published, received,
                         owing>>
      PROVE  Undisturbed'
  <2>1. \A s, m : OnTheWayTo(s, m) <=> OnTheWayTo(s, m)'
    BY <1>3 DEF OnTheWayTo
  <2>2. OwedIsOnTheWay'
    BY <1>2, <1>3, <2>1 DEF Undisturbed, OwedIsOnTheWay
  <2> QED BY <1>2, <1>3, <2>2 DEF Undisturbed, ListsTyped, PendingInOrder, HandedOut,
     ReceivedBefore,
                                  ReceivedInOrder
<1>4. CASE UNCHANGED pubsubVars
  BY <1>3, <1>4 DEF pubsubVars
<1>5. CASE \E t \in Topics : Publish(t)
  BY <1>2, <1>5, PublishKeeps
<1>6. CASE \E s \in Subscriptions : Subscribe(s)
  BY <1>2, <1>6, SubscribeKeeps
<1>7. CASE \E s \in Subscriptions : Unsubscribe(s)
  BY <1>2, <1>7, UnsubscribeKeeps
<1>8. CASE \E s \in Subscriptions : Take(s)
  BY <1>3, <1>8 DEF Take
<1>9. CASE Listen \/ ConnectionBreaks \/ ListenerEnds \/ CancelListener
  BY <1>2, <1>9, LoopKeeps
<1>10. CASE WaitForNotification
  BY <1>2, <1>10, WaitKeeps
<1>11. CASE DeliverMessage
  BY <1>2, <1>11, DeliverKeeps
<1>12. CASE DeliveryEnds
  BY <1>2, <1>12, DeliveryEndKeeps
<1>13. CASE CloseSubscribers
  BY <1>2, <1>13, CloseKeeps
<1> QED BY <1>4, <1>5, <1>6, <1>7, <1>8, <1>9, <1>10, <1>11, <1>12, <1>13 DEF PubSubNext

\* For every set of channels and subscribers, and any number of messages and broken
\* connections: as long as no subscription ended under a delivery to its own channel,
\* every subscriber gets what it gets in the order of publication and once, the loop does
\* not panic, and an idle loop owes nothing on the channels it listens to.
THEOREM DeliveryIsUndisturbed == PubSubSpec => []DeliveryUndisturbed
<1>1. PubSubInv => DeliveryUndisturbed
  <2> SUFFICES ASSUME PubSubInv PROVE DeliveryUndisturbed
    OBVIOUS
  <2>1. InOrderOnce
    <3>1. ASSUME ~racing, NEW s \in Subscriptions PROVE DOMAIN received[s] = 1..Len(received[s])
      BY <3>1, LenProperties DEF PubSubInv, Undisturbed, ReceivedInOrder
    <3> QED BY <3>1 DEF PubSubInv, Undisturbed, ReceivedInOrder, InOrderOnce
  <2>2. PanicOnlyByRace
    BY DEF PubSubInv, Undisturbed, PanicOnlyByRace
  <2>3. NobodySkipped
    <3> SUFFICES ASSUME listener = "listening", pending = <<>>, ~racing,
                        NEW s \in Subscriptions, TopicOf[s] \in ListenedTo, NEW m \in owing[s]
                 PROVE  FALSE
      BY DEF NobodySkipped
    <3>1. OnTheWayTo(s, m)
      BY DEF PubSubInv, Undisturbed, OwedIsOnTheWay
    <3>2. Len(<<>>) = 0
      BY EmptySeq
    <3> QED BY <3>1, <3>2 DEF OnTheWayTo
  <2> QED BY <2>1, <2>2, <2>3 DEF DeliveryUndisturbed
<1> QED BY <1>1, PubSubStarts, PubSubSteps, PTL DEF PubSubSpec

(***************************************************************************)
(* BranchPools: the map, the list and the count of the router agree.       *)
(***************************************************************************)

Creating == {"evict", "evicting", "resolve", "connect"}
Closing == {"evicting", "closes"}
UnderLock == Creating \union {"closing", "closes"}
ALookup ==
    [at : {"idle", "touch", "holding", "using", "create", "close", "mark", "drop"} \union UnderLock,
     does : {"query", "delete", "reset", "refresh", "idle"},
     branch : RoutedBranches \union {SomeBranch}, pool : Nat]

PoolsTyped ==
    /\ poolOf \in [RoutedBranches -> Nat] /\ branchOf \in Seq(RoutedBranches)
    /\ \A b \in RoutedBranches :
         poolOf[b] # NoPool => poolOf[b] \in 1..Len(branchOf) /\ branchOf[poolOf[b]] = b
    /\ lookup \in [Lookups -> ALookup]
    /\ \A r \in Lookups : lookup[r].at # "idle" => lookup[r].branch \in RoutedBranches
    /\ branchStatus \in [RoutedBranches -> {"ready", "changing", "gone"}]

\* Whoever is in a stage under poolsMu holds it.
LockHeld ==
    /\ poolsMu \in Lookups \union {Nobody}
    /\ \A r \in Lookups : lookup[r].at \in UnderLock <=> poolsMu = r

\* The pool that the holder of poolsMu is waiting to close.
BeingClosed ==
    IF poolsMu \in Lookups /\ lookup[poolsMu].at \in Closing THEN {lookup[poolsMu].pool} ELSE {}

\* The list holds every pool of the map but the one that is being closed, and the
\* connections of all that it holds are counted.
ListAgrees ==
    /\ lruList \in Seq(Nat) /\ Distinct(lruList)
    /\ Elements(lruList) = Cached \ BeingClosed
    /\ conns = PoolConns * Len(lruList) /\ conns < MaxConns + PoolConns
    /\ closedPools \subseteq 1..Len(branchOf) /\ closedPools \intersect Elements(lruList) = {}
    /\ BeingClosed \subseteq closedPools

\* What each stage under the lock has established and still relies on.
StageHolds(l) ==
    /\ l.at \in Closing => l.pool \in Cached
    /\ l.at \in Creating => poolOf[l.branch] = NoPool
    /\ l.at \in Creating \ {"evict"} => conns < MaxConns
NoPoolLeft(b) == poolOf[b] = NoPool \/ b \in between
ChangesHold ==
    /\ \A r \in Lookups : lookup[r].at \in {"mark", "drop"} => NoPoolLeft(lookup[r].branch)
    /\ \A b \in RoutedBranches : branchStatus[b] = "gone" => NoPoolLeft(b)

PoolInv ==
    /\ PoolsTyped /\ LockHeld /\ ListAgrees /\ ChangesHold
    /\ \A r \in Lookups : StageHolds(lookup[r])

LEMMA PoolsStart == PoolsInit => PoolInv
<1> SUFFICES ASSUME PoolsInit PROVE PoolInv
  OBVIOUS
<1>1. IdleRequest \in ALookup /\ IdleRequest.at = "idle"
  BY DEF IdleRequest, ALookup, NoPool
<1>2. <<>> \in Seq(RoutedBranches) /\ <<>> \in Seq(Nat) /\ Len(<<>>) = 0
  BY EmptySeq
<1>3. Distinct(<<>>) /\ Elements(<<>>) = {}
  BY <1>2 DEF Distinct, Elements
<1>4. PoolsTyped /\ LockHeld
  BY <1>1, <1>2, PoolAssumption
     DEF PoolsInit, PoolsTyped, LockHeld, NoPool, UnderLock, Creating
<1>5. Cached = {}
  BY DEF PoolsInit, Cached
<1>6. PoolConns * 0 = 0 /\ 0 < MaxConns + PoolConns
  BY PoolAssumption
<1>7. ListAgrees
  <2>1. BeingClosed = {}
    BY PoolAssumption DEF PoolsInit, BeingClosed
  <2> QED BY <1>2, <1>3, <1>5, <1>6, <2>1 DEF PoolsInit, ListAgrees
<1>8. ChangesHold /\ \A r \in Lookups : StageHolds(lookup[r])
  BY <1>1 DEF PoolsInit, ChangesHold, StageHolds, Creating, Closing
<1> QED BY <1>4, <1>7, <1>8 DEF PoolInv

\* A pool is in the map exactly as the pool of its branch.
LEMMA CachedIs ==
  ASSUME PoolsTyped, NEW p
  PROVE  p \in Cached <=> p \in 1..Len(branchOf) /\ poolOf[branchOf[p]] = p
<1>1. DOMAIN branchOf = 1..Len(branchOf) /\ \A i \in 1..Len(branchOf) : branchOf[i] \in RoutedBranches
  BY LenProperties, ElementOfSeq DEF PoolsTyped
<1>2. Len(branchOf) \in Nat
  BY LenProperties DEF PoolsTyped
<1>3. p \in 1..Len(branchOf) => p # NoPool
  BY <1>2 DEF NoPool
<1> QED BY <1>1, <1>3 DEF Cached, PoolsTyped

\* A caller goes on without opening or closing a pool: what it goes on to, and the
\* branches that are gone now, must be as the invariant says.
LEMMA CallerGoesOn ==
  ASSUME PoolInv, NEW r \in Lookups, NEW new \in ALookup,
         lookup' = [lookup EXCEPT ![r] = new],
         UNCHANGED <<poolOf, conns, closedPools, branchOf, between>>,
         lruList' \in Seq(Nat), Distinct(lruList'), Elements(lruList') = Elements(lruList),
         Len(lruList') = Len(lruList),
         lookup[r].at \notin Closing, new.at \notin Closing,
         new.at # "idle" => new.branch \in RoutedBranches,
         poolsMu' = poolsMu \/ (poolsMu \in {Nobody, r} /\ poolsMu' \in {Nobody, r}),
         new.at \in UnderLock <=> poolsMu' = r,
         new.at \in Creating => poolOf[new.branch] = NoPool,
         new.at \in Creating \ {"evict"} => conns < MaxConns,
         new.at \in {"mark", "drop"} => NoPoolLeft(new.branch),
         branchStatus' \in [RoutedBranches -> {"ready", "changing", "gone"}],
         \A b \in RoutedBranches : branchStatus'[b] = "gone" => NoPoolLeft(b)
  PROVE  PoolInv'
<1>1. lookup'[r] = new /\ \A q \in Lookups : q # r => lookup'[q] = lookup[q]
  BY DEF PoolInv, PoolsTyped
<1>2. PoolsTyped'
  BY <1>1 DEF PoolInv, PoolsTyped
<1>3. LockHeld'
  BY <1>1, PoolAssumption DEF PoolInv, LockHeld
<1>4. BeingClosed' = BeingClosed
  <2>1. CASE poolsMu' = poolsMu
    BY <1>1, <2>1 DEF BeingClosed
  <2>2. CASE poolsMu \in {Nobody, r} /\ poolsMu' \in {Nobody, r}
    BY <1>1, <2>2, PoolAssumption DEF BeingClosed
  <2> QED BY <2>1, <2>2
<1>5. Cached' = Cached
  BY DEF Cached
<1>6. ListAgrees'
  BY <1>4, <1>5 DEF PoolInv, ListAgrees
<1>7. \A b : NoPoolLeft(b)' <=> NoPoolLeft(b)
  BY DEF NoPoolLeft
<1>8. ChangesHold'
  BY <1>1, <1>7 DEF PoolInv, ChangesHold
<1>9. \A q \in Lookups : StageHolds(lookup[q])'
  BY <1>1, <1>5 DEF PoolInv, StageHolds
<1> QED BY <1>2, <1>3, <1>6, <1>8, <1>9 DEF PoolInv

\* The list keeps its pools when one moves to its end.
LEMMA MovedKeeps ==
  ASSUME PoolInv, NEW p
  PROVE  /\ MovedToBack(p) \in Seq(Nat) /\ Distinct(MovedToBack(p))
         /\ Elements(MovedToBack(p)) = Elements(lruList)
         /\ Len(MovedToBack(p)) = Len(lruList)
<1>1. lruList \in Seq(Nat) /\ Distinct(lruList) /\ Len(lruList) \in Nat
  BY LenProperties DEF PoolInv, ListAgrees
<1>2. CASE Contains(lruList, p)
  <2>1. p \in Elements(lruList) /\ p \in Nat
    BY <1>1, <1>2, ElementOfSeq DEF Contains, Elements
  <2> DEFINE without == RemoveFirst(lruList, p)
  <2>2. /\ without \in Seq(Nat) /\ Distinct(without) /\ Len(without) = Len(lruList) - 1
        /\ Elements(without) = Elements(lruList) \ {p}
    BY <1>1, <2>1, RemovedFromList
  <2>3. MovedToBack(p) = Append(without, p)
    BY <1>2 DEF MovedToBack
  <2> HIDE DEF without
  <2>4. /\ Append(without, p) \in Seq(Nat) /\ Len(Append(without, p)) = Len(without) + 1
        /\ Elements(Append(without, p)) = Elements(without) \union {p}
        /\ Distinct(Append(without, p))
    BY <2>1, <2>2, AppendedToList
  <2> QED BY <1>1, <2>1, <2>2, <2>3, <2>4
<1>3. CASE ~Contains(lruList, p)
  BY <1>1, <1>3 DEF MovedToBack
<1> QED BY <1>2, <1>3

\* The holder of the lock begins to close a pool of the list.
LEMMA CloseBegins ==
  ASSUME PoolInv, NEW r \in Lookups, NEW p \in Elements(lruList), NEW at \in Closing,
         lookup[r].at \in {"evict", "closing"}, at = "evicting" => lookup[r].at = "evict",
         lookup' = [lookup EXCEPT ![r].at = at, ![r].pool = p], BeginClose(p),
         UNCHANGED <<poolOf, branchOf, poolsMu, branchStatus, between>>
  PROVE  PoolInv'
<1>1. /\ lruList' = RemoveFirst(lruList, p) /\ conns' = conns - PoolConns
      /\ closedPools' = closedPools \union {p}
  BY DEF BeginClose
<1>2. /\ lruList \in Seq(Nat) /\ Distinct(lruList) /\ Len(lruList) \in Nat
      /\ conns = PoolConns * Len(lruList) /\ conns < MaxConns + PoolConns
  BY LenProperties DEF PoolInv, ListAgrees
<1>3. /\ lruList' \in Seq(Nat) /\ Distinct(lruList') /\ Len(lruList') = Len(lruList) - 1
      /\ Elements(lruList') = Elements(lruList) \ {p}
  BY <1>1, <1>2, RemovedFromList
<1>4. poolsMu = r /\ BeingClosed = {} /\ p \in Cached
  BY DEF PoolInv, LockHeld, UnderLock, Creating, Closing, BeingClosed, ListAgrees
<1>5. p \in 1..Len(branchOf) /\ p \in Nat
  <2>1. p \in 1..Len(branchOf) /\ Len(branchOf) \in Nat
    BY <1>4, CachedIs, LenProperties DEF PoolInv, PoolsTyped
  <2> QED BY <2>1
<1>6. /\ lookup'[r].at = at /\ lookup'[r].pool = p /\ lookup'[r].branch = lookup[r].branch
      /\ lookup'[r] \in ALookup /\ \A q \in Lookups : q # r => lookup'[q] = lookup[q]
      /\ lookup' \in [Lookups -> ALookup]
  <2>1. lookup[r] \in ALookup /\ lookup \in [Lookups -> ALookup]
    BY DEF PoolInv, PoolsTyped
  <2>2. lookup' = [lookup EXCEPT ![r] = [lookup[r] EXCEPT !.at = at, !.pool = p]]
    BY <2>1
  <2>3. /\ [lookup[r] EXCEPT !.at = at, !.pool = p] \in ALookup
        /\ [lookup[r] EXCEPT !.at = at, !.pool = p].at = at
        /\ [lookup[r] EXCEPT !.at = at, !.pool = p].pool = p
        /\ [lookup[r] EXCEPT !.at = at, !.pool = p].branch = lookup[r].branch
    BY <1>5, <2>1 DEF ALookup, Closing, UnderLock, Creating
  <2> QED BY <2>1, <2>2, <2>3
<1>7. at \in UnderLock /\ lookup[r].at \in UnderLock /\ at \notin {"mark", "drop", "idle"}
  BY DEF UnderLock, Closing, Creating
<1>8. PoolsTyped'
  BY <1>6 DEF PoolInv, PoolsTyped
<1>9. LockHeld'
  BY <1>6, <1>7 DEF PoolInv, LockHeld
<1>10. BeingClosed' = {p} /\ Cached' = Cached
  BY <1>4, <1>6 DEF BeingClosed, Cached
<1>11. conns' = PoolConns * Len(lruList') /\ conns' < MaxConns /\ conns' < MaxConns + PoolConns
  <2>1. PoolConns \in Nat \ {0} /\ MaxConns \in Nat \ {0}
    BY PoolAssumption
  <2>2. PoolConns * (Len(lruList) - 1) = PoolConns * Len(lruList) - PoolConns
    BY <1>2, <2>1
  <2>3. PoolConns * Len(lruList) \in Nat
    BY <1>2, <2>1
  <2> QED BY <1>1, <1>2, <1>3, <2>1, <2>2, <2>3
<1>12. ListAgrees'
  BY <1>1, <1>3, <1>4, <1>5, <1>10, <1>11 DEF PoolInv, ListAgrees
<1>13. ChangesHold'
  BY <1>6, <1>7 DEF PoolInv, ChangesHold, NoPoolLeft
<1>14. ASSUME NEW q \in Lookups PROVE StageHolds(lookup[q])'
  <2>1. CASE q = r
    <3>1. at = "evicting" => poolOf[lookup[r].branch] = NoPool
      BY DEF PoolInv, StageHolds, Creating
    <3> QED BY <1>4, <1>6, <1>10, <1>11, <2>1, <3>1 DEF StageHolds, Creating, Closing
  <2>2. CASE q # r
    <3>1. lookup[q].at \notin UnderLock
      BY <1>4, <2>2 DEF PoolInv, LockHeld
    <3> QED BY <1>6, <2>2, <3>1 DEF StageHolds, UnderLock, Creating, Closing
  <2> QED BY <2>1, <2>2
<1> QED BY <1>8, <1>9, <1>12, <1>13, <1>14 DEF PoolInv

\* The pool is closed, and leaves the map.
LEMMA CloseEnds ==
  ASSUME PoolInv, NEW r \in Lookups, NEW at \in {"resolve", "closing"},
         lookup[r].at \in Closing, at = "resolve" => lookup[r].at = "evicting",
         poolOf' = Removed(lookup[r].pool),
         lookup' = [lookup EXCEPT ![r].at = at, ![r].pool = NoPool],
         UNCHANGED <<lruList, conns, closedPools, branchOf, poolsMu, branchStatus, between>>
  PROVE  PoolInv'
<1> DEFINE p == lookup[r].pool
           b == branchOf[p]
<1>1. poolsMu = r /\ BeingClosed = {p} /\ p \in Cached
  BY DEF PoolInv, LockHeld, UnderLock, Closing, Creating, BeingClosed, StageHolds
<1>2. p \in 1..Len(branchOf) /\ poolOf[b] = p /\ b \in RoutedBranches
  BY <1>1, CachedIs, ElementOfSeq DEF PoolInv, PoolsTyped
<1>3. /\ poolOf' \in [RoutedBranches -> Nat] /\ poolOf'[b] = NoPool
      /\ \A c \in RoutedBranches : c # b => poolOf'[c] = poolOf[c]
  BY <1>2 DEF PoolInv, PoolsTyped, Removed, NoPool
<1>4. /\ lookup'[r].at = at /\ lookup'[r].branch = lookup[r].branch
      /\ lookup' \in [Lookups -> ALookup] /\ \A q \in Lookups : q # r => lookup'[q] = lookup[q]
  <2>1. lookup[r] \in ALookup /\ lookup \in [Lookups -> ALookup]
    BY DEF PoolInv, PoolsTyped
  <2>2. lookup' = [lookup EXCEPT ![r] = [lookup[r] EXCEPT !.at = at, !.pool = NoPool]]
    BY <2>1
  <2>3. /\ [lookup[r] EXCEPT !.at = at, !.pool = NoPool] \in ALookup
        /\ [lookup[r] EXCEPT !.at = at, !.pool = NoPool].at = at
        /\ [lookup[r] EXCEPT !.at = at, !.pool = NoPool].branch = lookup[r].branch
    BY <2>1 DEF ALookup, UnderLock, Creating, NoPool
  <2> QED BY <2>1, <2>2, <2>3
<1> HIDE DEF p, b
<1>5. at \in UnderLock /\ at \notin Closing /\ lookup[r].at \in UnderLock
  BY DEF UnderLock, Closing, Creating
<1>6. PoolsTyped'
  BY <1>3, <1>4, <1>5 DEF PoolInv, PoolsTyped, UnderLock, Creating
<1>7. LockHeld'
  BY <1>4, <1>5 DEF PoolInv, LockHeld
<1>8. BeingClosed' = {}
  BY <1>1, <1>4, <1>5 DEF BeingClosed
<1>9. Cached' = Cached \ {p}
  BY <1>1, <1>2, <1>3 DEF Cached, PoolInv, PoolsTyped, b, NoPool
<1>10. ListAgrees'
  BY <1>1, <1>8, <1>9 DEF PoolInv, ListAgrees
<1>11. \A c \in RoutedBranches : NoPoolLeft(c) => NoPoolLeft(c)'
  BY <1>3 DEF NoPoolLeft
<1>12. ChangesHold'
  <2>1. \A q \in Lookups : lookup'[q].at \in {"mark", "drop"} =>
          q # r /\ lookup'[q] = lookup[q] /\ lookup[q].branch \in RoutedBranches
    BY <1>4 DEF PoolInv, PoolsTyped
  <2> QED BY <1>11, <2>1 DEF PoolInv, ChangesHold
<1>13. ASSUME NEW q \in Lookups PROVE StageHolds(lookup[q])'
  <2>1. CASE q = r
    <3>1. lookup[r].branch \in RoutedBranches
      BY DEF PoolInv, PoolsTyped, Closing
    <3>2. at = "resolve" => poolOf[lookup[r].branch] = NoPool /\ conns < MaxConns
      BY DEF PoolInv, StageHolds, Creating
    <3>3. at = "resolve" => poolOf'[lookup[r].branch] = NoPool
      BY <1>3, <3>1, <3>2
    <3> QED BY <1>4, <2>1, <3>2, <3>3 DEF StageHolds, Creating, Closing
  <2>2. CASE q # r
    <3>1. lookup[q].at \notin UnderLock
      BY <1>1, <2>2 DEF PoolInv, LockHeld
    <3> QED BY <1>4, <2>2, <3>1 DEF StageHolds, UnderLock, Creating, Closing
  <2> QED BY <2>1, <2>2
<1> QED BY <1>6, <1>7, <1>10, <1>12, <1>13 DEF PoolInv

\* A new pool is entered.
LEMMA ConnectKeeps == ASSUME PoolInv, NEW r \in Lookups, ConnectPool(r) PROVE PoolInv'
<1> DEFINE b == lookup[r].branch
           p == Len(branchOf) + 1
<1>1. /\ lookup[r].at = "connect" /\ branchStatus[b] # "gone"
      /\ branchOf' = Append(branchOf, b)
      /\ poolOf' = [poolOf EXCEPT ![b] = p]
      /\ lruList' = Append(lruList, p)
      /\ conns' = conns + PoolConns
      /\ between' = IF \E d \in Lookups : lookup[d].branch = b /\ lookup[d].at \in {"mark", "drop"}
                    THEN between \union {b} ELSE between
      /\ lookup' = [lookup EXCEPT ![r].at = "holding", ![r].pool = p]
      /\ poolsMu' = Nobody
      /\ UNCHANGED <<closedPools, branchStatus>>
  BY DEF ConnectPool, Is, Gets
<1>2. /\ poolsMu = r /\ BeingClosed = {} /\ b \in RoutedBranches /\ poolOf[b] = NoPool
      /\ conns < MaxConns
  BY <1>1 DEF PoolInv, PoolsTyped, LockHeld, UnderLock, Creating, Closing, BeingClosed, StageHolds
<1>3. branchOf \in Seq(RoutedBranches) /\ Len(branchOf) \in Nat
  BY LenProperties DEF PoolInv, PoolsTyped
<1>4. /\ branchOf' \in Seq(RoutedBranches) /\ Len(branchOf') = p /\ branchOf'[p] = b
      /\ \A i \in 1..Len(branchOf) : branchOf'[i] = branchOf[i]
  BY <1>1, <1>2, <1>3, AppendProperties
<1>5. /\ p \in Nat /\ p # NoPool /\ p \in 1..p /\ p \notin 1..Len(branchOf)
      /\ 1..p = 1..Len(branchOf) \union {p}
  BY <1>3 DEF NoPool
<1>6. /\ lookup'[r].at = "holding" /\ lookup'[r].branch = b
      /\ lookup' \in [Lookups -> ALookup] /\ \A q \in Lookups : q # r => lookup'[q] = lookup[q]
  <2>1. lookup[r] \in ALookup /\ lookup \in [Lookups -> ALookup]
    BY DEF PoolInv, PoolsTyped
  <2>2. lookup' = [lookup EXCEPT ![r] = [lookup[r] EXCEPT !.at = "holding", !.pool = p]]
    BY <1>1, <2>1
  <2>3. /\ [lookup[r] EXCEPT !.at = "holding", !.pool = p] \in ALookup
        /\ [lookup[r] EXCEPT !.at = "holding", !.pool = p].at = "holding"
        /\ [lookup[r] EXCEPT !.at = "holding", !.pool = p].branch = b
    BY <1>5, <2>1 DEF ALookup
  <2> QED BY <2>1, <2>2, <2>3
<1> HIDE DEF p, b
<1>7. /\ poolOf' \in [RoutedBranches -> Nat] /\ poolOf'[b] = p
      /\ \A c \in RoutedBranches : c # b => poolOf'[c] = poolOf[c]
  BY <1>1, <1>2, <1>5 DEF PoolInv, PoolsTyped
<1>8. PoolsTyped'
  <2>1. ASSUME NEW c \in RoutedBranches, poolOf'[c] # NoPool
        PROVE  poolOf'[c] \in 1..Len(branchOf') /\ branchOf'[poolOf'[c]] = c
    <3>1. CASE c = b
      BY <1>4, <1>5, <1>7, <3>1
    <3>2. CASE c # b
      <4>1. poolOf'[c] = poolOf[c] /\ poolOf[c] \in 1..Len(branchOf) /\ branchOf[poolOf[c]] = c
        BY <1>7, <2>1, <3>2 DEF PoolInv, PoolsTyped
      <4> QED BY <1>4, <1>5, <4>1
    <3> QED BY <3>1, <3>2
  <2>2. \A q \in Lookups : lookup'[q].at # "idle" => lookup'[q].branch \in RoutedBranches
    BY <1>2, <1>6 DEF PoolInv, PoolsTyped
  <2>3. branchStatus' \in [RoutedBranches -> {"ready", "changing", "gone"}]
    BY <1>1 DEF PoolInv, PoolsTyped
  <2> QED BY <1>4, <1>6, <1>7, <2>1, <2>2, <2>3 DEF PoolsTyped
<1>9. LockHeld'
  BY <1>1, <1>2, <1>6, PoolAssumption DEF PoolInv, LockHeld, UnderLock, Creating
<1>10. BeingClosed' = {}
  BY <1>1, PoolAssumption DEF BeingClosed
<1>11. Cached' = Cached \union {p}
  <2>1. \A c \in RoutedBranches : c # b => branchOf[poolOf[c]] = c \/ poolOf[c] = NoPool
    BY DEF PoolInv, PoolsTyped
  <2>2. /\ \A i : i \in Cached <=> i \in 1..Len(branchOf) /\ poolOf[branchOf[i]] = i
        /\ \A i : i \in Cached' <=> i \in 1..Len(branchOf') /\ poolOf'[branchOf'[i]] = i
    <3>1. ASSUME NEW i PROVE i \in Cached <=> i \in 1..Len(branchOf) /\ poolOf[branchOf[i]] = i
      BY CachedIs DEF PoolInv
    <3>2. DOMAIN branchOf' = 1..Len(branchOf')
      BY <1>4, LenProperties
    <3>3. ASSUME NEW i
          PROVE  i \in Cached' <=> i \in 1..Len(branchOf') /\ poolOf'[branchOf'[i]] = i
      <4>1. i \in 1..Len(branchOf') => i # NoPool /\ branchOf'[i] \in RoutedBranches
        <5>1. i \in 1..Len(branchOf') => i # NoPool
          BY <1>4, <1>5 DEF NoPool
        <5>2. i \in 1..Len(branchOf') => branchOf'[i] \in RoutedBranches
          BY <1>4, ElementOfSeq
        <5> QED BY <5>1, <5>2
      <4> QED BY <1>8, <3>2, <4>1 DEF Cached, PoolsTyped
    <3> QED BY <3>1, <3>3
  <2>3. \A i \in 1..Len(branchOf) : branchOf[i] \in RoutedBranches
    BY <1>3, ElementOfSeq
  <2>4. ASSUME NEW i \in 1..Len(branchOf)
        PROVE  poolOf'[branchOf'[i]] = i <=> poolOf[branchOf[i]] = i
    <3>1. branchOf'[i] = branchOf[i] /\ i # p /\ i # NoPool
      BY <1>3, <1>4, <1>5 DEF NoPool
    <3> QED BY <1>2, <1>7, <2>3, <3>1
  <2> QED BY <1>4, <1>5, <1>7, <2>2, <2>4
<1>12. ListAgrees'
  <2>1. /\ lruList \in Seq(Nat) /\ Distinct(lruList) /\ Len(lruList) \in Nat
        /\ Elements(lruList) = Cached /\ conns = PoolConns * Len(lruList)
        /\ closedPools \subseteq 1..Len(branchOf) /\ closedPools \intersect Elements(lruList) = {}
    /\ BeingClosed \subseteq closedPools
    BY <1>2, LenProperties DEF PoolInv, ListAgrees
  <2>2. p \notin Elements(lruList) /\ p \notin closedPools
    BY <1>5, <2>1, CachedIs DEF PoolInv
  <2>3. /\ lruList' \in Seq(Nat) /\ Distinct(lruList') /\ Len(lruList') = Len(lruList) + 1
        /\ Elements(lruList') = Elements(lruList) \union {p}
    BY <1>1, <1>5, <2>1, <2>2, AppendedToList DEF p
  <2>4. conns' = PoolConns * Len(lruList') /\ conns' < MaxConns + PoolConns
    <3>1. PoolConns \in Nat /\ MaxConns \in Nat
      BY PoolAssumption
    <3>2. PoolConns * (Len(lruList) + 1) = PoolConns * Len(lruList) + PoolConns
      BY <2>1, <3>1
    <3>3. conns \in Nat
      BY <2>1, <3>1
    <3> QED BY <1>1, <1>2, <2>1, <2>3, <3>1, <3>2, <3>3
  <2> QED BY <1>1, <1>4, <1>5, <1>10, <1>11, <2>1, <2>2, <2>3, <2>4 DEF ListAgrees
<1>13. ChangesHold'
  <2>1. \A c \in RoutedBranches : c # b /\ NoPoolLeft(c) => NoPoolLeft(c)'
    BY <1>1, <1>7 DEF NoPoolLeft
  <2>2. ASSUME NEW q \in Lookups, lookup'[q].at \in {"mark", "drop"}
        PROVE  NoPoolLeft(lookup[q].branch)'
    <3>1. q # r /\ lookup'[q] = lookup[q] /\ lookup[q].branch \in RoutedBranches
      BY <1>6, <2>2 DEF PoolInv, PoolsTyped
    <3>2. CASE lookup[q].branch = b
      BY <1>1, <2>2, <3>1, <3>2 DEF NoPoolLeft
    <3>3. CASE lookup[q].branch # b
      BY <2>1, <2>2, <3>1, <3>3 DEF PoolInv, ChangesHold
    <3> QED BY <3>2, <3>3
  <2>3. ASSUME NEW q \in Lookups, lookup'[q].at \in {"mark", "drop"}
        PROVE  NoPoolLeft(lookup[q].branch)' /\ lookup'[q].branch = lookup[q].branch
    BY <1>6, <2>2, <2>3 DEF PoolInv
  <2>4. ASSUME NEW c \in RoutedBranches, branchStatus'[c] = "gone" PROVE NoPoolLeft(c)'
    BY <1>1, <2>1, <2>4 DEF PoolInv, ChangesHold
  <2> QED BY <2>3, <2>4 DEF ChangesHold, NoPoolLeft
<1>14. ASSUME NEW q \in Lookups PROVE StageHolds(lookup[q])'
  <2>1. CASE q = r
    BY <1>6, <2>1 DEF StageHolds, Creating, Closing
  <2>2. CASE q # r
    <3>1. lookup[q].at \notin UnderLock
      BY <1>2, <2>2 DEF PoolInv, LockHeld
    <3> QED BY <1>6, <2>2, <3>1 DEF StageHolds, UnderLock, Creating, Closing
  <2> QED BY <2>1, <2>2
<1> QED BY <1>8, <1>9, <1>12, <1>13, <1>14 DEF PoolInv

\* What CallerGoesOn asks of the list and of the branches, when an action leaves them alone.
LEMMA ListStays ==
  ASSUME PoolInv, UNCHANGED lruList
  PROVE  /\ lruList' \in Seq(Nat) /\ Distinct(lruList') /\ Elements(lruList') = Elements(lruList)
         /\ Len(lruList') = Len(lruList)
  BY DEF PoolInv, ListAgrees
LEMMA BranchesStay ==
  ASSUME PoolInv, UNCHANGED branchStatus
  PROVE  /\ branchStatus' \in [RoutedBranches -> {"ready", "changing", "gone"}]
         /\ \A b \in RoutedBranches : branchStatus'[b] = "gone" => NoPoolLeft(b)
  BY DEF PoolInv, PoolsTyped, ChangesHold

\* A caller has come to another stage of what it does.
LEMMA BecomesIs ==
  ASSUME PoolInv, NEW r \in Lookups, NEW at \in UnderLock \union
           {"touch", "holding", "using", "create", "close", "mark", "drop"},
         lookup[r].at # "idle"
  PROVE  LET new == [lookup[r] EXCEPT !.at = at]
         IN  /\ new \in ALookup /\ new.at = at /\ new.branch = lookup[r].branch
             /\ new.branch \in RoutedBranches
             /\ Becomes(r, at) => lookup' = [lookup EXCEPT ![r] = new]
<1>1. lookup[r] \in ALookup /\ lookup[r].branch \in RoutedBranches /\ lookup \in [Lookups -> ALookup]
  BY DEF PoolInv, PoolsTyped
<1> QED BY <1>1 DEF ALookup, Becomes

\* A caller outside the lock and after it.
LEMMA FreeSteps ==
  ASSUME PoolInv, NEW r \in Lookups,
         \/ \E b \in RoutedBranches :
              \/ GetPoolForBranch(r, b) \/ EvictIdlePool(r, b)
              \/ \E does \in ClosedBy \ {"idle"} : BeginChange(r, does, b)
         \/ UpdateAccess(r) \/ Acquire(r) \/ QueryEnds(r)
         \/ MarkBranchChanging(r) \/ ChangeBranch(r)
  PROVE  PoolInv'
<1>1. IdleRequest \in ALookup /\ IdleRequest.at = "idle"
  BY DEF IdleRequest, ALookup, NoPool
<1>2. /\ lookup[r].at \notin UnderLock => poolsMu # r
      /\ poolOf \in [RoutedBranches -> Nat] /\ lookup[r] \in ALookup
  BY DEF PoolInv, PoolsTyped, LockHeld
<1>3. ASSUME NEW b \in RoutedBranches, NEW does \in {"query", "delete", "reset", "refresh", "idle"},
             NEW at \in {"create", "touch", "close"}, Starts(r, does, b, at),
             UNCHANGED <<routerVars, branchOf, poolsMu, branchStatus, between>>
      PROVE  PoolInv'
  <2> DEFINE new == [at |-> at, does |-> does, branch |-> b,
                     pool |-> IF at = "touch" THEN poolOf[b] ELSE NoPool]
  <2>1. lookup' = [lookup EXCEPT ![r] = new] /\ lookup[r].at = "idle"
    BY <1>3 DEF Starts, Is
  <2>2. new \in ALookup /\ new.at = at /\ new.branch = b
    BY <1>2, <1>3 DEF ALookup, NoPool
  <2> HIDE DEF new
  <2>3. new.at \notin UnderLock /\ lookup[r].at \notin UnderLock
    BY <2>1, <2>2 DEF UnderLock, Creating
  <2>4. UNCHANGED <<poolOf, lruList, conns, closedPools, branchOf, poolsMu, branchStatus, between>>
    BY <1>3 DEF routerVars
  <2> QED BY <1>2, <1>3, <2>1, <2>2, <2>3, <2>4, ListStays, BranchesStay, CallerGoesOn
             DEF UnderLock, Creating, Closing
<1>4. CASE \E b \in RoutedBranches :
             \/ GetPoolForBranch(r, b) \/ EvictIdlePool(r, b)
             \/ \E does \in ClosedBy \ {"idle"} : BeginChange(r, does, b)
  <2>1. ASSUME NEW b \in RoutedBranches, GetPoolForBranch(r, b) PROVE PoolInv'
    <3>1. (IF poolOf[b] = NoPool THEN "create" ELSE "touch") \in {"create", "touch", "close"}
      OBVIOUS
    <3> QED BY <1>3, <2>1, <3>1 DEF GetPoolForBranch
  <2>2. ASSUME NEW b \in RoutedBranches, EvictIdlePool(r, b) PROVE PoolInv'
    BY <1>3, <2>2 DEF EvictIdlePool
  <2>3. ASSUME NEW b \in RoutedBranches, NEW does \in ClosedBy \ {"idle"}, BeginChange(r, does, b)
        PROVE  PoolInv'
    BY <1>3, <2>3, PoolAssumption DEF BeginChange
  <2> QED BY <1>4, <2>1, <2>2, <2>3
<1>5. ASSUME NEW at \in {"holding", "using"}, Becomes(r, at), lookup[r].at \in {"touch", "holding"},
             UNCHANGED <<poolOf, conns, closedPools, branchOf, poolsMu, branchStatus, between>>,
             lruList' \in Seq(Nat), Distinct(lruList'), Elements(lruList') = Elements(lruList),
             Len(lruList') = Len(lruList)
      PROVE  PoolInv'
  <2> DEFINE new == [lookup[r] EXCEPT !.at = at]
  <2>1. lookup' = [lookup EXCEPT ![r] = new] /\ new \in ALookup /\ new.at = at
        /\ new.branch \in RoutedBranches
    BY <1>5, BecomesIs
  <2> HIDE DEF new
  <2>2. new.at \notin UnderLock /\ lookup[r].at \notin UnderLock
    BY <1>5, <2>1 DEF UnderLock, Creating
  <2> QED BY <1>2, <1>5, <2>1, <2>2, BranchesStay, CallerGoesOn DEF UnderLock, Creating, Closing
<1>6. ASSUME Return(r), lookup[r].at \notin UnderLock,
             UNCHANGED <<routerVars, branchOf, poolsMu, between>>,
             branchStatus' \in [RoutedBranches -> {"ready", "changing", "gone"}],
             \A b \in RoutedBranches : branchStatus'[b] = "gone" => NoPoolLeft(b)
      PROVE  PoolInv'
  <2>1. lookup' = [lookup EXCEPT ![r] = IdleRequest]
    BY <1>6 DEF Return
  <2>2. UNCHANGED <<poolOf, lruList, conns, closedPools, branchOf, poolsMu, between>>
    BY <1>6 DEF routerVars
  <2> QED BY <1>1, <1>2, <1>6, <2>1, <2>2, ListStays, CallerGoesOn DEF UnderLock, Creating, Closing
<1>7. CASE UpdateAccess(r)
  BY <1>5, <1>7, MovedKeeps DEF UpdateAccess, Is
<1>8. CASE Acquire(r) \/ QueryEnds(r)
  <2>1. lookup[r].at \in {"holding", "using"}
        /\ UNCHANGED <<routerVars, branchOf, poolsMu, branchStatus, between>>
    BY <1>8 DEF Acquire, QueryEnds, Is
  <2>2. lookup[r].at \notin UnderLock
    BY <2>1 DEF UnderLock, Creating
  <2>3. CASE Return(r)
    BY <1>6, <2>1, <2>2, <2>3, BranchesStay
  <2>4. CASE lookup[r].at = "holding" /\ Becomes(r, "using")
    BY <1>5, <2>1, <2>4, ListStays DEF routerVars
  <2> QED BY <1>8, <2>3, <2>4 DEF Acquire, QueryEnds, Is
<1> DEFINE c == lookup[r].branch
<1>9. CASE MarkBranchChanging(r)
  <2>1. lookup[r].at = "mark" /\ UNCHANGED <<routerVars, branchOf, poolsMu, between>>
    BY <1>9 DEF MarkBranchChanging, Is
  <2>2. lookup[r].at \notin UnderLock /\ NoPoolLeft(c)
    BY <2>1 DEF UnderLock, Creating, PoolInv, ChangesHold
  <2>3. CASE Return(r) /\ UNCHANGED branchStatus
    BY <1>6, <2>1, <2>2, <2>3, BranchesStay
  <2>4. CASE Becomes(r, "drop") /\ branchStatus' = [branchStatus EXCEPT ![c] = "changing"]
    <3> DEFINE new == [lookup[r] EXCEPT !.at = "drop"]
    <3>1. lookup' = [lookup EXCEPT ![r] = new] /\ new \in ALookup /\ new.at = "drop"
          /\ new.branch = c /\ c \in RoutedBranches
      BY <2>1, <2>4, BecomesIs
    <3> HIDE DEF new
    <3>2. /\ branchStatus' \in [RoutedBranches -> {"ready", "changing", "gone"}]
          /\ \A b \in RoutedBranches : branchStatus'[b] = "gone" => NoPoolLeft(b)
      BY <2>4, <3>1 DEF PoolInv, PoolsTyped, ChangesHold
    <3>3. UNCHANGED <<poolOf, lruList, conns, closedPools, branchOf, poolsMu, between>>
      BY <2>1 DEF routerVars
    <3>4. new.at \notin UnderLock /\ new.at \notin Closing /\ lookup[r].at \notin Closing
      BY <2>1, <3>1 DEF UnderLock, Creating, Closing
    <3> QED BY <1>2, <2>2, <3>1, <3>2, <3>3, <3>4, ListStays, CallerGoesOn DEF UnderLock
  <2> QED BY <1>9, <2>3, <2>4 DEF MarkBranchChanging
<1>10. CASE ChangeBranch(r)
  <2>1. lookup[r].at = "drop" /\ UNCHANGED <<routerVars, branchOf, poolsMu, between>>
    BY <1>10 DEF ChangeBranch, Is
  <2>2. lookup[r].at \notin UnderLock /\ NoPoolLeft(c) /\ c \in RoutedBranches
    BY <2>1 DEF UnderLock, Creating, PoolInv, PoolsTyped, ChangesHold
  <2>3. CASE Return(r) /\ UNCHANGED branchStatus
    BY <1>6, <2>1, <2>2, <2>3, BranchesStay
  <2>4. CASE Return(r) /\ branchStatus' = [branchStatus EXCEPT ![c] = "gone"]
    <3>1. /\ branchStatus' \in [RoutedBranches -> {"ready", "changing", "gone"}]
          /\ \A b \in RoutedBranches : branchStatus'[b] = "gone" => NoPoolLeft(b)
      BY <2>2, <2>4 DEF PoolInv, PoolsTyped, ChangesHold
    <3> QED BY <1>6, <2>1, <2>2, <2>4, <3>1
  <2>5. CASE /\ lookup' = [lookup EXCEPT ![r].at = "close", ![r].does = "refresh"]
             /\ branchStatus' = [branchStatus EXCEPT ![c] = "ready"]
    <3> DEFINE new == [lookup[r] EXCEPT !.at = "close", !.does = "refresh"]
    <3>1. lookup' = [lookup EXCEPT ![r] = new] /\ new \in ALookup /\ new.at = "close"
          /\ new.branch = c
      <4>1. lookup \in [Lookups -> ALookup]
        BY DEF PoolInv, PoolsTyped
      <4> QED BY <1>2, <2>5, <4>1 DEF ALookup
    <3> HIDE DEF new
    <3>2. /\ branchStatus' \in [RoutedBranches -> {"ready", "changing", "gone"}]
          /\ \A b \in RoutedBranches : branchStatus'[b] = "gone" => NoPoolLeft(b)
      BY <2>2, <2>5 DEF PoolInv, PoolsTyped, ChangesHold
    <3>3. UNCHANGED <<poolOf, lruList, conns, closedPools, branchOf, poolsMu, between>>
      BY <2>1 DEF routerVars
    <3>4. new.at \notin UnderLock /\ new.at \notin Closing /\ lookup[r].at \notin Closing
      BY <2>1, <3>1 DEF UnderLock, Creating, Closing
    <3> QED BY <1>2, <2>2, <3>1, <3>2, <3>3, <3>4, ListStays, CallerGoesOn DEF UnderLock
  <2> QED BY <1>10, <2>3, <2>4, <2>5 DEF ChangeBranch
<1> QED BY <1>4, <1>7, <1>8, <1>9, <1>10

\* The lock is taken, kept from one stage to the next, and released.
LEMMA LockSteps ==
  ASSUME PoolInv, NEW r \in Lookups,
         DoubleCheck(r) \/ ResolveBranch(r) \/ ConnectFails(r) \/ LockForClose(r) \/ AllClosed(r)
         \/ (EvictLRUPool(r) /\ lruList = <<>>)
  PROVE  PoolInv'
<1>1. IdleRequest \in ALookup /\ IdleRequest.at = "idle"
  BY DEF IdleRequest, ALookup, NoPool
<1>2. /\ poolsMu \in Lookups \union {Nobody} /\ Nobody \notin Lookups
      /\ lookup[r].at \in UnderLock <=> poolsMu = r
      /\ poolOf \in [RoutedBranches -> Nat] /\ lookup[r] \in ALookup
  BY PoolAssumption DEF PoolInv, PoolsTyped, LockHeld
<1> DEFINE b == lookup[r].branch
<1>3. /\ lookup[r].at \in {"create", "close", "resolve", "connect", "closing", "evict"}
      /\ UNCHANGED <<poolOf, conns, closedPools, branchOf, branchStatus, between>>
  BY DEF DoubleCheck, ResolveBranch, ConnectFails, LockForClose, AllClosed, EvictLRUPool, Is,
     routerVars
<1>4. lookup[r].at \notin Closing /\ b \in RoutedBranches /\ lookup[r].at # "idle"
  BY <1>3 DEF Closing, PoolInv, PoolsTyped
<1>5. ASSUME Return(r), poolsMu = r, poolsMu' = Nobody, UNCHANGED lruList PROVE PoolInv'
  <2>1. lookup' = [lookup EXCEPT ![r] = IdleRequest]
    BY <1>5 DEF Return
  <2> QED BY <1>1, <1>2, <1>3, <1>4, <1>5, <2>1, ListStays, BranchesStay, CallerGoesOn
             DEF UnderLock, Creating, Closing
<1>6. ASSUME NEW at \in {"evict", "resolve", "connect", "closing", "create", "mark"}, Becomes(r,
             at),
             UNCHANGED lruList,
             poolsMu' = poolsMu \/ (poolsMu \in {Nobody, r} /\ poolsMu' \in {Nobody, r}),
             at \in UnderLock <=> poolsMu' = r,
             at \in Creating => poolOf[b] = NoPool,
             at \in Creating \ {"evict"} => conns < MaxConns,
             at = "mark" => poolOf[b] = NoPool
      PROVE  PoolInv'
  <2> DEFINE new == [lookup[r] EXCEPT !.at = at]
  <2>1. lookup' = [lookup EXCEPT ![r] = new] /\ new \in ALookup /\ new.at = at
        /\ new.branch = b
    BY <1>4, <1>6, BecomesIs DEF UnderLock, Creating
  <2> HIDE DEF new
  <2>2. new.at \notin Closing /\ new.at # "drop"
    BY <1>6, <2>1 DEF Closing
  <2>3. at = "mark" => NoPoolLeft(b)
    BY <1>6 DEF NoPoolLeft
  <2> HIDE DEF b
  <2> QED BY <1>2, <1>3, <1>4, <1>6, <2>1, <2>2, <2>3, ListStays, BranchesStay, CallerGoesOn
<1>7. StageHolds(lookup[r])
  BY DEF PoolInv
<1>8. conns \in Nat /\ MaxConns \in Nat
  <2>1. Len(lruList) \in Nat
    BY LenProperties DEF PoolInv, ListAgrees
  <2>2. PoolConns \in Nat /\ conns = PoolConns * Len(lruList)
    BY PoolAssumption DEF PoolInv, ListAgrees
  <2> QED BY <2>1, <2>2, PoolAssumption
<1>9. CASE DoubleCheck(r)
  <2>1. lookup[r].at = "create" /\ poolsMu = Nobody
    BY <1>9 DEF DoubleCheck, Is
  <2>2. CASE poolOf[b] # NoPool
    <3> DEFINE new == [lookup[r] EXCEPT !.at = "holding", !.pool = poolOf[b]]
    <3>1. /\ lruList' = MovedToBack(poolOf[b]) /\ poolsMu' = poolsMu
          /\ lookup' = [lookup EXCEPT ![r].at = "holding", ![r].pool = poolOf[b]]
      BY <1>9, <2>2 DEF DoubleCheck, Gets
    <3>2. lookup' = [lookup EXCEPT ![r] = new] /\ new \in ALookup /\ new.at = "holding"
          /\ new.branch = b
      <4>1. lookup \in [Lookups -> ALookup] /\ poolOf[b] \in Nat
        BY <1>2, <1>4 DEF PoolInv, PoolsTyped
      <4> QED BY <1>2, <3>1, <4>1 DEF ALookup
    <3> HIDE DEF new
    <3>3. new.at \notin UnderLock /\ new.at \notin Closing
      BY <3>2 DEF UnderLock, Creating, Closing
    <3>4. /\ lruList' \in Seq(Nat) /\ Distinct(lruList') /\ Elements(lruList') = Elements(lruList)
          /\ Len(lruList') = Len(lruList)
      BY <3>1, MovedKeeps
    <3>5. new.at \notin Creating /\ new.at \notin {"mark", "drop"}
      BY <3>2 DEF Creating
    <3> HIDE DEF b
    <3> QED BY <1>2, <1>3, <1>4, <2>1, <3>1, <3>2, <3>3, <3>4, <3>5, BranchesStay, CallerGoesOn
  <2>3. CASE poolOf[b] = NoPool
    <3> DEFINE at == IF LimitReached THEN "evict" ELSE "resolve"
    <3>1. poolsMu' = r /\ UNCHANGED lruList /\ Becomes(r, at)
      BY <1>9, <2>3 DEF DoubleCheck
    <3>2. at \in {"evict", "resolve"} /\ (at = "resolve" => conns < MaxConns)
      BY <1>8 DEF LimitReached
    <3> HIDE DEF at
    <3> QED BY <1>6, <2>1, <2>3, <3>1, <3>2 DEF UnderLock, Creating
  <2> QED BY <2>2, <2>3
<1>10. CASE ResolveBranch(r)
  <2>1. lookup[r].at = "resolve" /\ UNCHANGED lruList
    BY <1>10 DEF ResolveBranch, Is, routerVars
  <2>2. poolsMu = r /\ poolOf[b] = NoPool /\ conns < MaxConns
    BY <1>2, <1>7, <2>1 DEF UnderLock, Creating, StageHolds
  <2>3. CASE Becomes(r, "connect") /\ UNCHANGED poolsMu
    BY <1>6, <2>1, <2>2, <2>3 DEF UnderLock, Creating
  <2> QED BY <1>5, <1>10, <2>1, <2>2, <2>3 DEF ResolveBranch
<1>11. CASE ConnectFails(r)
  BY <1>2, <1>5, <1>11 DEF ConnectFails, Is, routerVars, UnderLock, Creating
<1>12. CASE LockForClose(r)
  BY <1>6, <1>12 DEF LockForClose, routerVars, UnderLock, Creating
<1>13. CASE EvictLRUPool(r) /\ lruList = <<>>
  BY <1>2, <1>5, <1>13 DEF EvictLRUPool, Is, UnderLock, Creating
<1>14. CASE AllClosed(r)
  <2>1. /\ lookup[r].at = "closing" /\ UNCHANGED lruList /\ Victims(r) = {} /\ poolsMu' = Nobody
    BY <1>14 DEF AllClosed, Is, routerVars
  <2>2. poolsMu = r
    BY <1>2, <2>1 DEF UnderLock
  <2>3. CASE Return(r)
    BY <1>5, <2>1, <2>2, <2>3
  <2>4. CASE Becomes(r, "create")
    BY <1>2, <1>6, <2>1, <2>2, <2>4 DEF UnderLock, Creating
  <2>5. CASE lookup[r].does \in {"delete", "reset"} /\ Becomes(r, "mark")
    <3>1. poolOf[b] = NoPool
      <4> SUFFICES ASSUME poolOf[b] # NoPool PROVE FALSE
        OBVIOUS
      <4>1. poolOf[b] \in Cached /\ branchOf[poolOf[b]] = b
        BY <1>4, CachedIs DEF PoolInv, PoolsTyped
      <4> QED BY <2>1, <2>5, <4>1 DEF Victims
    <3> QED BY <1>2, <1>6, <2>1, <2>2, <2>5, <3>1 DEF UnderLock, Creating
  <2> QED BY <1>14, <2>3, <2>4, <2>5 DEF AllClosed
<1> QED BY <1>9, <1>10, <1>11, <1>12, <1>13, <1>14

\* Every step preserves the invariant.
LEMMA PoolRouterSteps == PoolInv /\ [PoolsNext]_poolVars => PoolInv'
<1> SUFFICES ASSUME PoolInv, [PoolsNext]_poolVars PROVE PoolInv'
  OBVIOUS
<1>1. CASE UNCHANGED poolVars
  <2>1. Cached' = Cached /\ BeingClosed' = BeingClosed
    BY <1>1 DEF poolVars, routerVars, Cached, BeingClosed
  <2>2. PoolsTyped' /\ LockHeld' /\ ChangesHold'
    BY <1>1 DEF poolVars, routerVars, PoolInv, PoolsTyped, LockHeld, ChangesHold, NoPoolLeft
  <2>3. ListAgrees' /\ \A r \in Lookups : StageHolds(lookup[r])'
    BY <1>1, <2>1 DEF poolVars, routerVars, PoolInv, ListAgrees, StageHolds
  <2> QED BY <2>2, <2>3 DEF PoolInv
<1>2. ASSUME NEW r \in Lookups, EvictLRUPool(r), lruList # <<>> PROVE PoolInv'
  <2>1. /\ lookup[r].at = "evict" /\ BeginClose(Head(lruList))
        /\ lookup' = [lookup EXCEPT ![r].at = "evicting", ![r].pool = Head(lruList)]
        /\ UNCHANGED <<poolOf, branchOf, poolsMu, branchStatus, between>>
    BY <1>2 DEF EvictLRUPool, Is
  <2>2. Head(lruList) \in Elements(lruList)
    BY <1>2, HeadAndRest DEF PoolInv, ListAgrees
  <2> QED BY <2>1, <2>2, CloseBegins DEF Closing
<1>3. ASSUME NEW r \in Lookups, CloseNext(r) PROVE PoolInv'
  <2>1. PICK p \in Victims(r) :
          BeginClose(p) /\ lookup' = [lookup EXCEPT ![r].at = "closes", ![r].pool = p]
    BY <1>3 DEF CloseNext
  <2>2. lookup[r].at = "closing" /\ UNCHANGED <<poolOf, branchOf, poolsMu, branchStatus, between>>
    BY <1>3 DEF CloseNext, Is
  <2>3. poolsMu = r
    BY <2>2 DEF PoolInv, LockHeld, UnderLock
  <2>4. p \in Elements(lruList)
    BY <2>2, <2>3 DEF Victims, PoolInv, ListAgrees, BeingClosed, Closing
  <2> QED BY <2>1, <2>2, <2>4, CloseBegins DEF Closing
<1>4. ASSUME NEW r \in Lookups, Evicted(r) PROVE PoolInv'
  BY <1>4, CloseEnds DEF Evicted, Is, Closing
<1>5. ASSUME NEW r \in Lookups, Closed(r) PROVE PoolInv'
  BY <1>5, CloseEnds DEF Closed, Is, Closing
<1>6. CASE PoolsNext
  <2> PICK r \in Lookups :
        \/ \E b \in RoutedBranches :
             \/ GetPoolForBranch(r, b) \/ EvictIdlePool(r, b)
             \/ \E does \in ClosedBy \ {"idle"} : BeginChange(r, does, b)
        \/ UpdateAccess(r) \/ Acquire(r) \/ QueryEnds(r) \/ Creates(r)
        \/ LockForClose(r) \/ CloseNext(r) \/ Closed(r) \/ AllClosed(r)
        \/ MarkBranchChanging(r) \/ ChangeBranch(r)
    BY <1>6 DEF PoolsNext
  <2>1. CASE Creates(r)
    BY <1>2, <1>4, <2>1, LockSteps, ConnectKeeps DEF Creates
  <2>2. CASE ~Creates(r)
    BY <1>3, <1>5, <2>2, FreeSteps, LockSteps
  <2> QED BY <2>1, <2>2
<1> QED BY <1>1, <1>6

\* For every number of branches, lookups, closings and pools and every limit: whenever
\* poolsMu is free the map, the list and the count of connections agree, the limit holds
\* to within one pool and no closed pool is in the map; and a branch that was deleted has
\* a pool only if a lookup made it in the middle of the deletion.
THEOREM RouterIsTruthful == PoolsSpec => []RouterTruthful
<1>1. PoolInv => RouterTruthful
  <2> SUFFICES ASSUME PoolInv PROVE RouterTruthful
    OBVIOUS
  <2>1. DeletedHasNoPool
    BY DEF PoolInv, ChangesHold, NoPoolLeft, DeletedHasNoPool
  <2>2. ASSUME poolsMu = Nobody
        PROVE  /\ {lruList[i] : i \in DOMAIN lruList} = Cached
               /\ Len(lruList) = Cardinality(Cached)
               /\ conns = PoolConns * Cardinality(Cached)
               /\ conns < MaxConns + PoolConns
               /\ Cached \intersect closedPools = {}
    <3>1. BeingClosed = {}
      BY <2>2, PoolAssumption DEF BeingClosed
    <3>2. /\ lruList \in Seq(Nat) /\ Distinct(lruList) /\ Elements(lruList) = Cached
          /\ conns = PoolConns * Len(lruList) /\ conns < MaxConns + PoolConns
          /\ Cached \intersect closedPools = {}
      BY <3>1 DEF PoolInv, ListAgrees
    <3>3. DOMAIN lruList = 1..Len(lruList) /\ Len(lruList) \in Nat
          /\ lruList \in [1..Len(lruList) -> Nat]
      BY <3>2, LenProperties
    <3>4. lruList \in Bijection(1..Len(lruList), Cached)
      BY <3>2, <3>3 DEF Elements, Distinct, Bijection, Injection, IsInjective, Surjection
    <3>5. IsFiniteSet(1..Len(lruList)) /\ Cardinality(1..Len(lruList)) = Len(lruList)
      BY <3>3, FS_Interval
    <3>6. Cardinality(Cached) = Len(lruList)
      BY <3>4, <3>5, FS_Bijection DEF ExistsBijection
    <3> QED BY <3>2, <3>3, <3>6 DEF Elements
  <2> QED BY <2>1, <2>2 DEF RouterTruthful, RouterConsistent
<1> QED BY <1>1, PoolsStart, PoolRouterSteps, PTL DEF PoolsSpec
(***************************************************************************)
(* BranchPools implements PoolRegistry.                                    *)
(***************************************************************************)
InHands == {"touch", "holding", "using"}
Entry == [b \in RoutedBranches |-> IF poolOf[b] \in closedPools THEN NoPool ELSE poolOf[b]]
InHand == [r \in Lookups |-> IF lookup[r].at \in InHands
                             THEN <<lookup[r].branch, lookup[r].pool>> ELSE <<>>]

\* The registry has the pools of the list; while none is being closed, they are those of
\* the map.
LEMMA EntryIs ==
  ASSUME PoolInv, NEW b \in RoutedBranches
  PROVE  /\ Entry[b] # NoPool <=> poolOf[b] \in Elements(lruList)
         /\ Entry[b] # NoPool => Entry[b] = poolOf[b]
         /\ BeingClosed = {} => Entry[b] = poolOf[b]
<1>1. Entry[b] = IF poolOf[b] \in closedPools THEN NoPool ELSE poolOf[b]
  BY DEF Entry
<1>2. Len(branchOf) \in Nat /\ NoPool \notin 1..Len(branchOf)
  BY LenProperties DEF PoolInv, PoolsTyped, NoPool
<1>3. poolOf[b] \in Cached <=> poolOf[b] # NoPool
  <2>1. poolOf[b] \in Cached <=> poolOf[b] \in 1..Len(branchOf) /\ poolOf[branchOf[poolOf[b]]] = poolOf[b]
    BY CachedIs DEF PoolInv
  <2> QED BY <1>2, <2>1 DEF PoolInv, PoolsTyped
<1>4. /\ Elements(lruList) = Cached \ BeingClosed /\ BeingClosed \subseteq closedPools
      /\ closedPools \intersect Elements(lruList) = {}
  BY DEF PoolInv, ListAgrees
<1> QED BY <1>1, <1>3, <1>4

\* What a caller has in hand changes with its own stage only.
LEMMA HandIs ==
  ASSUME PoolInv, NEW r \in Lookups, NEW new \in ALookup, lookup' = [lookup EXCEPT ![r] = new]
  PROVE  /\ InHand' = [InHand EXCEPT ![r] = IF new.at \in InHands
                                            THEN <<new.branch, new.pool>> ELSE <<>>]
         /\ lookup[r].at \notin InHands => InHand[r] = <<>>
         /\ /\ new.at \in InHands <=> lookup[r].at \in InHands
            /\ new.at \in InHands => new.branch = lookup[r].branch /\ new.pool = lookup[r].pool
            => InHand' = InHand
  BY DEF PoolInv, PoolsTyped, InHand

\* A caller goes on with what it has, and nothing happens to the pools.
LEMMA RegistryRests ==
  ASSUME UNCHANGED <<poolOf, lruList, conns, closedPools>>, UNCHANGED InHand
  PROVE  UNCHANGED Registry!vars
  BY DEF Registry!vars, InHand, InHands

\* A caller has come to another stage, with nothing in hand before and after.
LEMMA EmptyHanded ==
  ASSUME PoolInv, NEW r \in Lookups, NEW new \in ALookup, lookup' = [lookup EXCEPT ![r] = new],
         lookup[r].at \notin InHands, new.at \notin InHands,
         UNCHANGED <<poolOf, lruList, conns, closedPools>>
  PROVE  UNCHANGED Registry!vars
  BY HandIs, RegistryRests

\* A caller has nothing any more.
LEMMA CallerLeaves ==
  ASSUME PoolInv, NEW r \in Lookups, Return(r), UNCHANGED <<poolOf, lruList, conns, closedPools>>
  PROVE  Registry!Next
<1>1. IdleRequest \in ALookup /\ IdleRequest.at \notin InHands
  BY DEF IdleRequest, ALookup, NoPool, InHands
<1>2. InHand' = [InHand EXCEPT ![r] = <<>>]
  BY <1>1, HandIs DEF Return
<1>3. Registry!Leave(r)
  BY <1>2 DEF Registry!Leave, InHand, InHands
<1> QED BY <1>3 DEF Registry!Next

\* The registry takes an element out of its list as the router does.
LEMMA SameRemoval == ASSUME NEW list, NEW e PROVE Registry!RemoveFirst(list, e) = RemoveFirst(list, e)
  BY DEF RemoveFirst, Registry!RemoveFirst, SelectInSeq, Registry!SelectInSeq,
         RemoveAt, Registry!RemoveAt, Min, Registry!Min

\* A request is handed the pool of its branch, which may be touched at once.
LEMMA CallerGets ==
  ASSUME PoolInv, NEW r \in Lookups, NEW b \in RoutedBranches, NEW new \in ALookup,
         lookup' = [lookup EXCEPT ![r] = new], lookup[r].at \notin InHands,
         new.at \in InHands, new.branch = b, new.pool = poolOf[b],
         poolOf[b] # NoPool, BeingClosed = {},
         lruList' \in {lruList, MovedToBack(poolOf[b])},
         UNCHANGED <<poolOf, conns, closedPools>>
  PROVE  Registry!Next
<1> DEFINE p == poolOf[b]
<1>1. Entry[b] = p /\ p \in Elements(lruList) /\ Entry[b] # 0
  BY EntryIs DEF NoPool
<1>2. InHand' = [InHand EXCEPT ![r] = <<b, p>>] /\ InHand[r] = <<>>
  BY HandIs
<1>3. MovedToBack(p) = Append(RemoveFirst(lruList, p), p)
  <2>1. Contains(lruList, p)
    BY <1>1, LenProperties DEF Contains, Elements, PoolInv, ListAgrees
  <2> QED BY <2>1 DEF MovedToBack
<1>4. Entry' = Entry
  BY DEF Entry
<1> HIDE DEF p
<1>5. /\ Entry[b] # 0 /\ InHand[r] = <<>> /\ InHand' = [InHand EXCEPT ![r] = <<b, Entry[b]>>]
      /\ lruList' \in {lruList, Append(RemoveFirst(lruList, Entry[b]), Entry[b])}
      /\ Entry' = Entry /\ UNCHANGED <<conns, closedPools>>
  BY <1>1, <1>2, <1>3, <1>4 DEF p
<1>6. Registry!Get(r, b)
  BY <1>5, SameRemoval DEF Registry!Get, Registry!Hand, Registry!ToBack, Entry, InHand, InHands
<1> QED BY <1>6 DEF Registry!Next

\* A pool is gone as soon as its closing begins.
LEMMA PoolCloses ==
  ASSUME PoolInv, NEW p \in Elements(lruList), BeginClose(p), UNCHANGED poolOf, UNCHANGED InHand
  PROVE  Registry!Next
<1>1. p \in Cached /\ p \notin closedPools
  BY DEF PoolInv, ListAgrees
<1>2. PICK b \in RoutedBranches : poolOf[b] = p
  BY <1>1 DEF Cached
<1>3. \A c \in RoutedBranches : poolOf[c] = p => c = b
  <2>1. p # NoPool
    BY <1>1, CachedIs, LenProperties DEF NoPool, PoolInv, PoolsTyped
  <2> QED BY <1>2, <2>1 DEF PoolInv, PoolsTyped
<1>4. Entry[b] = p /\ Entry[b] # 0
  BY <1>2, EntryIs DEF NoPool
<1>5. Entry' = [Entry EXCEPT ![b] = 0]
  BY <1>2, <1>3 DEF Entry, BeginClose, NoPool
<1>6. /\ lruList' = RemoveFirst(lruList, p) /\ conns' = conns - PoolConns
      /\ closedPools' = closedPools \union {p}
  BY DEF BeginClose
<1>7. /\ Entry[b] # 0 /\ Entry' = [Entry EXCEPT ![b] = 0] /\ InHand' = InHand
      /\ lruList' = RemoveFirst(lruList, Entry[b]) /\ conns' = conns - PoolConns
      /\ closedPools' = closedPools \union {Entry[b]}
  BY <1>4, <1>5, <1>6
<1>8. Registry!Close(b)
  BY <1>7, SameRemoval DEF Registry!Close, Entry, InHand, InHands
<1> QED BY <1>8 DEF Registry!Next

\* When its closing ends it leaves the map, which nobody can tell any more.
LEMMA ClosedPoolLeaves ==
  ASSUME PoolInv, NEW r \in Lookups, lookup[r].at \in Closing,
         poolOf' = Removed(lookup[r].pool),
         UNCHANGED <<lruList, conns, closedPools>>, UNCHANGED InHand
  PROVE  UNCHANGED Registry!vars
<1> DEFINE p == lookup[r].pool
<1>1. BeingClosed = {p} /\ p \in closedPools /\ p \in Cached
  BY DEF PoolInv, LockHeld, ListAgrees, StageHolds, BeingClosed, UnderLock, Creating, Closing
<1>2. poolOf[branchOf[p]] = p
  BY <1>1, CachedIs DEF PoolInv
<1>3. Entry' = Entry
  BY <1>1, <1>2 DEF Entry, Removed, NoPool, PoolInv, PoolsTyped
<1> QED BY <1>3 DEF Registry!vars, Entry, InHand, InHands

\* A new pool is opened for a branch that has none, below the limit.
LEMMA PoolOpens == ASSUME PoolInv, NEW r \in Lookups, ConnectPool(r) PROVE Registry!Next
<1> DEFINE b == lookup[r].branch
           p == Len(branchOf) + 1
           new == [lookup[r] EXCEPT !.at = "holding", !.pool = p]
<1>1. /\ lookup[r].at = "connect" /\ p \in PoolIds
      /\ poolOf' = [poolOf EXCEPT ![b] = p] /\ lruList' = Append(lruList, p)
      /\ conns' = conns + PoolConns /\ UNCHANGED closedPools
      /\ lookup' = [lookup EXCEPT ![r].at = "holding", ![r].pool = p]
  BY DEF ConnectPool, Is, Gets
<1>2. /\ b \in RoutedBranches /\ poolOf[b] = NoPool /\ conns < MaxConns
  BY <1>1 DEF PoolInv, PoolsTyped, UnderLock, Creating, StageHolds
<1>3. Len(branchOf) \in Nat
  BY LenProperties DEF PoolInv, PoolsTyped
<1>4. /\ p \notin closedPools /\ p \in Nat /\ p # 0
      /\ \A c \in RoutedBranches : poolOf[c] # p
  BY <1>3 DEF PoolInv, PoolsTyped, ListAgrees, NoPool
<1>5. /\ new \in ALookup /\ new.at = "holding" /\ new.branch = b /\ new.pool = p
      /\ lookup' = [lookup EXCEPT ![r] = new]
  <2>1. lookup[r] \in ALookup /\ lookup \in [Lookups -> ALookup]
    BY DEF PoolInv, PoolsTyped
  <2> QED BY <1>1, <1>4, <2>1 DEF ALookup
<1> HIDE DEF b, p, new
<1>6. InHand' = [InHand EXCEPT ![r] = <<b, p>>] /\ InHand[r] = <<>>
  BY <1>1, <1>5, HandIs DEF InHands
<1>7. poolOf \in [RoutedBranches -> Nat]
  BY DEF PoolInv, PoolsTyped
<1>8. Entry' = [Entry EXCEPT ![b] = p]
  BY <1>1, <1>2, <1>4, <1>7 DEF Entry
<1>9. Entry[b] = 0 /\ \A c \in RoutedBranches : Entry[c] # p
  BY <1>2, <1>4 DEF Entry, NoPool
<1>10. Registry!Open(r, b, p)
  BY <1>1, <1>2, <1>4, <1>6, <1>8, <1>9 DEF Registry!Open, Registry!Hand, Entry, InHand, InHands
<1>11. \E u \in Lookups, c \in RoutedBranches, q \in PoolIds : Registry!Open(u, c, q)
  BY <1>1, <1>2, <1>10 DEF Registry!Open, Registry!Hand
<1> QED BY <1>11 DEF Registry!Next

\* The second step of a lookup that found a pool: whatever pool its branch has now is touched.
LEMMA AccessTouches ==
  ASSUME PoolInv, NEW r \in Lookups, UpdateAccess(r) PROVE [Registry!Next]_Registry!vars
<1> DEFINE b == lookup[r].branch
           p == poolOf[b]
           new == [lookup[r] EXCEPT !.at = "holding"]
<1>1. /\ lookup[r].at = "touch" /\ poolsMu = Nobody /\ lruList' = MovedToBack(p)
      /\ Becomes(r, "holding") /\ UNCHANGED <<poolOf, conns, closedPools>>
  BY DEF UpdateAccess, Is
<1>2. /\ new \in ALookup /\ new.at = "holding" /\ new.branch = b /\ new.pool = lookup[r].pool
      /\ lookup' = [lookup EXCEPT ![r] = new] /\ b \in RoutedBranches
  BY <1>1, BecomesIs DEF PoolInv, PoolsTyped, ALookup
<1> HIDE DEF new
<1>3. InHand' = InHand
  BY <1>1, <1>2, HandIs DEF InHands
<1>4. CASE Contains(lruList, p)
  <2>1. p \in Elements(lruList)
    BY <1>4, LenProperties DEF Contains, Elements, PoolInv, ListAgrees
  <2>2. Entry[b] = p /\ Entry[b] # 0
    BY <1>2, <2>1, EntryIs DEF NoPool
  <2>3. Entry' = Entry
    BY <1>1 DEF Entry
  <2>4. lruList' = Append(RemoveFirst(lruList, Entry[b]), Entry[b])
    BY <1>1, <1>4, <2>2 DEF MovedToBack
  <2>5. /\ Entry[b] # 0 /\ lruList' = Append(RemoveFirst(lruList, Entry[b]), Entry[b])
        /\ Entry' = Entry /\ InHand' = InHand /\ UNCHANGED <<conns, closedPools>>
    BY <1>1, <1>3, <2>2, <2>3, <2>4
  <2> HIDE DEF b, p
  <2>6. Registry!Touch(b)
    BY <2>5, SameRemoval DEF Registry!Touch, Registry!ToBack, Entry, InHand, InHands
  <2> QED BY <1>2, <2>6 DEF Registry!Next
<1>5. CASE ~Contains(lruList, p)
  BY <1>1, <1>3, <1>5, RegistryRests DEF MovedToBack
<1> QED BY <1>4, <1>5

\* A caller becomes something that has nothing in hand, or what it had.
LEMMA StageMoves ==
  ASSUME PoolInv, NEW r \in Lookups,
         NEW at \in UnderLock \union {"touch", "holding", "using", "create", "close", "mark", "drop"},
         lookup[r].at # "idle", Becomes(r, at), at \in InHands <=> lookup[r].at \in InHands,
         UNCHANGED <<poolOf, lruList, conns, closedPools>>
  PROVE  UNCHANGED Registry!vars
<1> DEFINE new == [lookup[r] EXCEPT !.at = at]
<1>1. /\ new \in ALookup /\ new.at = at /\ new.branch = lookup[r].branch
      /\ lookup' = [lookup EXCEPT ![r] = new]
  BY BecomesIs
<1>2. new.pool = lookup[r].pool
  BY DEF PoolInv, PoolsTyped, ALookup
<1> HIDE DEF new
<1> QED BY <1>1, <1>2, HandIs, RegistryRests

\* A caller at rest begins something.
LEMMA CallerStarts ==
  ASSUME PoolInv, NEW r \in Lookups, NEW b \in RoutedBranches,
         NEW does \in {"query", "delete", "reset", "refresh", "idle"}, NEW at \in {"create", "close"},
         Starts(r, does, b, at), UNCHANGED <<poolOf, lruList, conns, closedPools>>
  PROVE  UNCHANGED Registry!vars
<1> DEFINE new == [at |-> at, does |-> does, branch |-> b, pool |-> NoPool]
<1>1. lookup' = [lookup EXCEPT ![r] = new] /\ lookup[r].at = "idle"
  BY DEF Starts, Is
<1>2. new \in ALookup /\ new.at = at
  BY DEF ALookup, NoPool
<1> HIDE DEF new
<1> QED BY <1>1, <1>2, EmptyHanded DEF InHands

\* What a caller does outside the lock.
LEMMA FreeMoves ==
  ASSUME PoolInv, NEW r \in Lookups,
         \/ \E b \in RoutedBranches :
              \/ GetPoolForBranch(r, b) \/ EvictIdlePool(r, b)
              \/ \E does \in ClosedBy \ {"idle"} : BeginChange(r, does, b)
         \/ UpdateAccess(r) \/ Acquire(r) \/ QueryEnds(r)
         \/ MarkBranchChanging(r) \/ ChangeBranch(r)
  PROVE  [Registry!Next]_Registry!vars
<1>1. ASSUME NEW b \in RoutedBranches, GetPoolForBranch(r, b) PROVE [Registry!Next]_Registry!vars
  <2>1. UNCHANGED <<poolOf, lruList, conns, closedPools>> /\ poolsMu = Nobody
    BY <1>1 DEF GetPoolForBranch, routerVars
  <2>2. CASE poolOf[b] = NoPool
    BY <1>1, <2>1, <2>2, CallerStarts DEF GetPoolForBranch
  <2>3. CASE poolOf[b] # NoPool
    <3> DEFINE new == [at |-> "touch", does |-> "query", branch |-> b, pool |-> poolOf[b]]
    <3>1. lookup' = [lookup EXCEPT ![r] = new] /\ lookup[r].at = "idle"
      BY <1>1, <2>3 DEF GetPoolForBranch, Starts, Is
    <3>2. new \in ALookup /\ new.at = "touch" /\ new.branch = b /\ new.pool = poolOf[b]
      BY DEF ALookup, PoolInv, PoolsTyped
    <3> HIDE DEF new
    <3>3. BeingClosed = {}
      BY <2>1, PoolAssumption DEF BeingClosed
    <3> QED BY <2>1, <2>3, <3>1, <3>2, <3>3, CallerGets DEF InHands
  <2> QED BY <2>2, <2>3
<1>2. ASSUME NEW b \in RoutedBranches, EvictIdlePool(r, b) PROVE UNCHANGED Registry!vars
  BY <1>2, CallerStarts DEF EvictIdlePool, routerVars
<1>3. ASSUME NEW b \in RoutedBranches, NEW does \in ClosedBy \ {"idle"}, BeginChange(r, does, b)
      PROVE  UNCHANGED Registry!vars
  <2>1. does \in {"query", "delete", "reset", "refresh", "idle"}
    BY PoolAssumption
  <2> QED BY <1>3, <2>1, CallerStarts DEF BeginChange, routerVars
<1>4. CASE Acquire(r)
  <2>1. lookup[r].at = "holding" /\ UNCHANGED <<poolOf, lruList, conns, closedPools>>
    BY <1>4 DEF Acquire, Is, routerVars
  <2> QED BY <1>4, <2>1, CallerLeaves, StageMoves DEF Acquire, InHands
<1>5. CASE QueryEnds(r)
  BY <1>5, CallerLeaves DEF QueryEnds, routerVars
<1>6. CASE MarkBranchChanging(r)
  <2>1. lookup[r].at = "mark" /\ UNCHANGED <<poolOf, lruList, conns, closedPools>>
        /\ (Return(r) \/ Becomes(r, "drop"))
    BY <1>6 DEF MarkBranchChanging, Is, routerVars
  <2> QED BY <2>1, CallerLeaves, StageMoves DEF InHands
<1>7. CASE ChangeBranch(r)
  <2>1. lookup[r].at = "drop" /\ UNCHANGED <<poolOf, lruList, conns, closedPools>>
    BY <1>7 DEF ChangeBranch, Is, routerVars
  <2>2. CASE Return(r)
    BY <2>1, <2>2, CallerLeaves
  <2>3. CASE lookup' = [lookup EXCEPT ![r].at = "close", ![r].does = "refresh"]
    <3> DEFINE new == [lookup[r] EXCEPT !.at = "close", !.does = "refresh"]
    <3>1. lookup[r] \in ALookup /\ lookup \in [Lookups -> ALookup]
      BY DEF PoolInv, PoolsTyped
    <3>2. lookup' = [lookup EXCEPT ![r] = new] /\ new \in ALookup /\ new.at = "close"
      BY <2>3, <3>1 DEF ALookup
    <3> HIDE DEF new
    <3> QED BY <2>1, <3>2, EmptyHanded DEF InHands
  <2> QED BY <1>7, <2>2, <2>3 DEF ChangeBranch
<1> QED BY <1>1, <1>2, <1>3, <1>4, <1>5, <1>6, <1>7, AccessTouches

\* What a caller does to get the lock, or with it.
LEMMA LockedMoves ==
  ASSUME PoolInv, NEW r \in Lookups,
         Creates(r) \/ LockForClose(r) \/ CloseNext(r) \/ Closed(r) \/ AllClosed(r)
  PROVE  [Registry!Next]_Registry!vars
<1>1. CASE DoubleCheck(r)
  <2> DEFINE b == lookup[r].branch
  <2>1. lookup[r].at = "create" /\ poolsMu = Nobody /\ UNCHANGED <<poolOf, conns, closedPools>>
    BY <1>1 DEF DoubleCheck, Is
  <2>2. b \in RoutedBranches /\ lookup[r] \in ALookup /\ lookup \in [Lookups -> ALookup]
        /\ poolOf[b] \in Nat
    BY <2>1 DEF PoolInv, PoolsTyped
  <2>3. CASE poolOf[b] # NoPool
    <3> DEFINE new == [lookup[r] EXCEPT !.at = "holding", !.pool = poolOf[b]]
    <3>1. lruList' = MovedToBack(poolOf[b]) /\ lookup' = [lookup EXCEPT ![r] = new]
      BY <1>1, <2>2, <2>3 DEF DoubleCheck, Gets
    <3>2. new \in ALookup /\ new.at = "holding" /\ new.branch = b /\ new.pool = poolOf[b]
      BY <2>2 DEF ALookup
    <3> HIDE DEF new
    <3>3. BeingClosed = {}
      BY <2>1, PoolAssumption DEF BeingClosed
    <3> QED BY <2>1, <2>2, <2>3, <3>1, <3>2, <3>3, CallerGets DEF InHands
  <2>4. CASE poolOf[b] = NoPool
    <3>1. UNCHANGED lruList /\ (Becomes(r, "evict") \/ Becomes(r, "resolve"))
      BY <1>1, <2>4 DEF DoubleCheck
    <3> QED BY <2>1, <3>1, StageMoves DEF UnderLock, Creating, InHands
  <2> QED BY <2>3, <2>4
<1>2. ASSUME NEW p \in Elements(lruList), NEW at \in Closing, lookup[r].at \in UnderLock,
             BeginClose(p), lookup' = [lookup EXCEPT ![r].at = at, ![r].pool = p], UNCHANGED poolOf
      PROVE  Registry!Next
  <2> DEFINE new == [lookup[r] EXCEPT !.at = at, !.pool = p]
  <2>1. p \in Nat
    BY LenProperties, ElementOfSeq DEF Elements, PoolInv, ListAgrees
  <2>2. lookup[r] \in ALookup /\ lookup \in [Lookups -> ALookup]
    BY DEF PoolInv, PoolsTyped
  <2>3. new \in ALookup /\ new.at = at /\ lookup' = [lookup EXCEPT ![r] = new]
    BY <1>2, <2>1, <2>2 DEF ALookup, Closing, UnderLock, Creating
  <2> HIDE DEF new
  <2>4. InHand' = InHand
    BY <1>2, <2>3, HandIs DEF InHands, Closing, UnderLock, Creating
  <2> QED BY <1>2, <2>4, PoolCloses
<1>3. CASE EvictLRUPool(r)
  <2>1. lookup[r].at = "evict" /\ UNCHANGED poolOf
    BY <1>3 DEF EvictLRUPool, Is
  <2>2. CASE lruList = <<>>
    BY <1>3, <2>2, CallerLeaves DEF EvictLRUPool
  <2>3. CASE lruList # <<>>
    <3>1. Head(lruList) \in Elements(lruList)
      BY <2>3, HeadAndRest DEF PoolInv, ListAgrees
    <3>2. /\ BeginClose(Head(lruList))
          /\ lookup' = [lookup EXCEPT ![r].at = "evicting", ![r].pool = Head(lruList)]
      BY <1>3, <2>3 DEF EvictLRUPool
    <3> QED BY <1>2, <2>1, <3>1, <3>2 DEF Closing, UnderLock, Creating
  <2> QED BY <2>2, <2>3
<1>4. CASE CloseNext(r)
  <2>1. PICK p \in Victims(r) :
          BeginClose(p) /\ lookup' = [lookup EXCEPT ![r].at = "closes", ![r].pool = p]
    BY <1>4 DEF CloseNext
  <2>2. lookup[r].at = "closing" /\ UNCHANGED poolOf
    BY <1>4 DEF CloseNext, Is
  <2>3. poolsMu = r
    BY <2>2 DEF PoolInv, LockHeld, UnderLock
  <2>4. p \in Elements(lruList)
    BY <2>2, <2>3 DEF Victims, PoolInv, ListAgrees, BeingClosed, Closing
  <2> QED BY <1>2, <2>1, <2>2, <2>4 DEF Closing, UnderLock
<1>5. ASSUME lookup[r].at \in Closing, NEW at \in {"resolve", "closing"},
             poolOf' = Removed(lookup[r].pool), UNCHANGED <<lruList, conns, closedPools>>,
             lookup' = [lookup EXCEPT ![r].at = at, ![r].pool = NoPool]
      PROVE  UNCHANGED Registry!vars
  <2> DEFINE new == [lookup[r] EXCEPT !.at = at, !.pool = NoPool]
  <2>1. lookup[r] \in ALookup /\ lookup \in [Lookups -> ALookup]
    BY DEF PoolInv, PoolsTyped
  <2>2. new \in ALookup /\ new.at = at /\ lookup' = [lookup EXCEPT ![r] = new]
    BY <1>5, <2>1 DEF ALookup, UnderLock, Creating, NoPool
  <2> HIDE DEF new
  <2>3. InHand' = InHand
    BY <1>5, <2>2, HandIs DEF InHands, Closing
  <2> QED BY <1>5, <2>3, ClosedPoolLeaves
<1>6. CASE Evicted(r)
  BY <1>5, <1>6 DEF Evicted, Is, Closing
<1>7. CASE Closed(r)
  BY <1>5, <1>7 DEF Closed, Is, Closing
<1>8. CASE ResolveBranch(r)
  <2>1. lookup[r].at = "resolve" /\ UNCHANGED <<poolOf, lruList, conns, closedPools>>
        /\ (Return(r) \/ Becomes(r, "connect"))
    BY <1>8 DEF ResolveBranch, Is, routerVars
  <2> QED BY <2>1, CallerLeaves, StageMoves DEF InHands, UnderLock, Creating
<1>9. CASE ConnectFails(r)
  BY <1>9, CallerLeaves DEF ConnectFails, routerVars
<1>10. CASE LockForClose(r)
  <2>1. lookup[r].at = "close" /\ UNCHANGED <<poolOf, lruList, conns, closedPools>>
        /\ Becomes(r, "closing")
    BY <1>10 DEF LockForClose, Is, routerVars
  <2> QED BY <2>1, StageMoves DEF InHands, UnderLock
<1>11. CASE AllClosed(r)
  <2>1. lookup[r].at = "closing" /\ UNCHANGED <<poolOf, lruList, conns, closedPools>>
        /\ (Return(r) \/ Becomes(r, "mark") \/ Becomes(r, "create"))
    BY <1>11 DEF AllClosed, Is, routerVars
  <2> QED BY <2>1, CallerLeaves, StageMoves DEF InHands
<1> QED BY <1>1, <1>3, <1>4, <1>6, <1>7, <1>8, <1>9, <1>10, <1>11, PoolOpens DEF Creates

\* The router implements PoolRegistry: although an eviction or a closing takes several
\* steps, in the middle of which queries go on and lookups come, to its callers each happens
\* at once, and nobody is handed a pool whose closing has begun or which is another branch's.
THEOREM RouterIsARegistry == PoolsSpec => RefinesRegistry
<1>1. PoolsInit => Registry!Init
  <2> SUFFICES ASSUME PoolsInit PROVE Registry!Init
    OBVIOUS
  <2>1. Entry = [b \in RoutedBranches |-> 0]
    BY DEF PoolsInit, Entry, NoPool
  <2>2. InHand = [r \in Lookups |-> <<>>]
    BY DEF PoolsInit, InHand, InHands, IdleRequest
  <2> QED BY <2>1, <2>2 DEF PoolsInit, Registry!Init, Entry, InHand, InHands
<1>2. PoolInv /\ [PoolsNext]_poolVars => [Registry!Next]_Registry!vars
  <2> SUFFICES ASSUME PoolInv, [PoolsNext]_poolVars PROVE [Registry!Next]_Registry!vars
    OBVIOUS
  <2>1. CASE UNCHANGED poolVars
    BY <2>1 DEF poolVars, routerVars, Registry!vars
  <2>2. CASE PoolsNext
    BY <2>2, FreeMoves, LockedMoves DEF PoolsNext
  <2> QED BY <2>1, <2>2
<1>3. PoolsSpec => []PoolInv
  BY PoolsStart, PoolRouterSteps, PTL DEF PoolsSpec
<1> QED BY <1>1, <1>2, <1>3, PTL DEF PoolsSpec, RefinesRegistry, Registry!Spec

=============================================================================
