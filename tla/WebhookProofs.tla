--------------------------- MODULE WebhookProofs ----------------------------
(***************************************************************************)
(* Proofs about webhooks: that events are delivered, for any number of     *)
(* events, services and workers, any limits and any failures; and that the *)
(* triggers which make the events follow the webhooks, for any number of   *)
(* tables and callers.                                                     *)
(***************************************************************************)
EXTENDS WebhookDelivery, WebhookTriggers, FiniteSetTheorems, TLAPS

(***************************************************************************)
(* WebhookDelivery: no event is given up early, and a worker delivers an   *)
(* event twice only when it lost an outcome.                               *)
(***************************************************************************)

\* The types of what the counts are about.
CountedRow == [st : {"none", "pending", "processed", "purged", "dropped"},
               attempts : Nat, retry : {"null", "now", "later"}]
CountsTyped ==
    /\ row \in [Events -> CountedRow]
    /\ work \in [Deliverers -> {"idle", "batch", "accepted", "refused"}]
    /\ batch \in [Deliverers -> [Events -> {NotRead} \union Nat]]
    /\ got \in [Deliverers -> [Events -> Nat]]
    /\ lost \in [Deliverers -> [Events -> Nat]]
    /\ failed \in [Events -> Nat] /\ faults \in Nat

\* The attempts in a row, and those that a worker read with it, were deliveries that
\* failed; a worker that is refused has seen one more fail than it read.
AttemptsFailed ==
    /\ \A e \in Events : row[e].attempts <= failed[e]
    /\ \A w \in Deliverers, e \in Events :
         /\ batch[w][e] <= failed[e]
         /\ work[w] = "refused" /\ Current(w, e) => batch[w][e] + 1 <= failed[e]
         /\ work[w] = "accepted" /\ Current(w, e) => got[w][e] > 0

\* A success of a worker that is not lost is in the row, or about to be written; an event
\* in a batch is one whose successes were lost, but for the one being written.
SuccessWritten ==
    \A w \in Deliverers, e \in Events :
      /\ batch[w][e] # NotRead => row[e].st # "none"
      /\ got[w][e] > lost[w][e] =>
           \/ work[w] = "accepted" /\ Current(w, e)
           \/ batch[w][e] = NotRead /\ row[e].st \notin {"none", "pending"}

IInv == CountsTyped /\ AttemptsFailed /\ SuccessWritten /\ NotGivenUpEarly /\ DuplicatesBounded

\* Initially there is no event.
LEMMA HooksStart == HookInit => IInv
BY DeliveryBoundsAssumption
   DEF HookInit, IInv, CountsTyped, CountedRow, NotRead, AttemptsFailed, SuccessWritten,
       NotGivenUpEarly, DuplicatesBounded, Current

\* A worker is at one event of its batch.
LEMMA OneCurrent ==
  ASSUME NEW w \in Deliverers, NEW e \in Events, NEW f \in Events,
         Current(w, e), Current(w, f)
  PROVE  e = f
BY HooksAssumption, SMT DEF Current

\* Rows move on: the ones that are settled stay settled, and only failures count.
Moves(old, new) ==
    /\ new \in CountedRow /\ new.attempts <= old.attempts
    /\ old.st # "none" => new.st # "none"
    /\ old.st \notin {"none", "pending"} => new.st \notin {"none", "pending"}
    /\ new.st \in {"processed", "purged"} => old.st \in {"processed", "purged"}

\* The steps that leave the workers alone: the table, the administrators and the loops of
\* the services.
LEMMA OthersKeep ==
  ASSUME IInv, UNCHANGED <<workerVars, outcomeVars>>, faults' = faults,
         row' \in [Events -> CountedRow], \A e \in Events : Moves(row[e], row'[e])
  PROVE  IInv'
<1>1. UNCHANGED <<work, batch, got, lost, failed>>
  BY DEF workerVars, outcomeVars
<1>2. \A w, e : Current(w, e)' <=> Current(w, e)
  BY <1>1 DEF Current
<1>3. CountsTyped'
  BY <1>1 DEF IInv, CountsTyped
<1>4. AttemptsFailed'
  BY <1>1, <1>2 DEF IInv, CountsTyped, CountedRow, AttemptsFailed, Moves
<1>5. SuccessWritten'
  BY <1>1, <1>2 DEF IInv, SuccessWritten, Moves
<1>6. NotGivenUpEarly' /\ DuplicatesBounded'
  BY <1>1 DEF IInv, NotGivenUpEarly, DuplicatesBounded, Moves
<1> QED BY <1>3, <1>4, <1>5, <1>6 DEF IInv

\* The table: a row is inserted, becomes due, is purged or goes with its webhook.
LEMMA TableMoves ==
  ASSUME IInv,
         \/ \E e \in Events : QueueEvent(e) \/ BecomesRetryable(e) \/ CleanupOldEvents(e)
         \/ \E h \in Hooks, to \in {"enabled", "disabled", "gone"} : EditWebhook(h, to)
  PROVE  IInv'
<1>1. UNCHANGED <<workerVars, outcomeVars>> /\ faults' = faults
  BY DEF QueueEvent, BecomesRetryable, CleanupOldEvents, EditWebhook, boundVars
<1>2. \A e \in Events : row[e] \in CountedRow
  BY DEF IInv, CountsTyped
<1>3. ASSUME NEW e \in Events, NEW r \in CountedRow, Moves(row[e], r),
             row' = [row EXCEPT ![e] = r]
      PROVE  IInv'
  <2>1. row' \in [Events -> CountedRow]
    BY <1>3 DEF IInv, CountsTyped
  <2>2. \A f \in Events : Moves(row[f], row'[f])
    BY <1>2, <1>3 DEF IInv, CountsTyped, Moves, CountedRow
  <2> QED BY <1>1, <2>1, <2>2, OthersKeep
<1>4. ASSUME NEW e \in Events, QueueEvent(e) PROVE IInv'
  <2>1. NewRow(e) \in CountedRow /\ Moves(row[e], NewRow(e))
    BY <1>2, <1>4 DEF QueueEvent, NewRow, Moves, CountedRow
  <2> QED BY <1>3, <1>4, <2>1 DEF QueueEvent
<1>5. ASSUME NEW e \in Events, BecomesRetryable(e) PROVE IInv'
  <2> DEFINE r == [row[e] EXCEPT !.retry = "now"]
  <2>1. r \in CountedRow /\ Moves(row[e], r)
    BY <1>2 DEF Moves, CountedRow
  <2>2. row' = [row EXCEPT ![e] = r]
    BY <1>5 DEF BecomesRetryable
  <2> QED BY <1>3, <2>1, <2>2
<1>6. ASSUME NEW e \in Events, CleanupOldEvents(e) PROVE IInv'
  <2> DEFINE r == [row[e] EXCEPT !.st = "purged"]
  <2>1. r \in CountedRow /\ Moves(row[e], r)
    BY <1>2, <1>6 DEF CleanupOldEvents, Moves, CountedRow
  <2>2. row' = [row EXCEPT ![e] = r]
    BY <1>6 DEF CleanupOldEvents
  <2> QED BY <1>3, <2>1, <2>2
<1>7. ASSUME NEW h \in Hooks, NEW to, EditWebhook(h, to) PROVE IInv'
  <2>1. row' \in [Events -> CountedRow]
    BY <1>2, <1>7 DEF EditWebhook, CountedRow
  <2>2. \A e \in Events : Moves(row[e], row'[e])
    BY <1>2, <1>7 DEF EditWebhook, Moves, CountedRow
  <2> QED BY <1>1, <2>1, <2>2, OthersKeep
<1> QED BY <1>4, <1>5, <1>6, <1>7

\* The listener and the backlog loop only move webhooks to the channel.
LEMMA LoopsMove ==
  ASSUME IInv,
         \/ \E s \in Services : StartService(s) \/ ListenerFails(s) \/ CheckForRetries(s)
         \/ \E s \in Services, h \in Hooks : QueueRetry(s, h)
  PROVE  IInv'
<1>1. UNCHANGED <<workerVars, outcomeVars>> /\ faults' = faults /\ row' = row
  BY DEF StartService, ListenerFails, CheckForRetries, QueueRetry, tableVars, boundVars
<1>2. row \in [Events -> CountedRow] /\ \A e \in Events : Moves(row[e], row[e])
  BY DEF IInv, CountsTyped, Moves, CountedRow
<1> QED BY <1>1, <1>2, OthersKeep

\* A service ends: what its workers held is forgotten, and what they had not written lost.
LEMMA ServiceEndKeeps == ASSUME IInv, NEW s \in Services, ServiceEnds(s) PROVE IInv'
<1>1. UNCHANGED <<row, got, failed, faults>>
  BY DEF ServiceEnds, tableVars, boundVars
<1>2. \A w \in Deliverers : ServiceOf[w] = s =>
        /\ work'[w] = "idle" /\ batch'[w] = [e \in Events |-> NotRead]
        /\ \A e \in Events : lost'[w][e] = IF work[w] = "accepted" /\ Current(w, e)
                                           THEN lost[w][e] + 1 ELSE lost[w][e]
  BY DEF ServiceEnds
<1>3. \A w \in Deliverers : ServiceOf[w] # s =>
        /\ work'[w] = work[w] /\ batch'[w] = batch[w]
        /\ \A e \in Events : lost'[w][e] = lost[w][e]
  BY DEF ServiceEnds
<1>4. \A w \in Deliverers, e \in Events :
        Current(w, e)' <=> ServiceOf[w] # s /\ Current(w, e)
  BY <1>2, <1>3 DEF Current
<1>5. CountsTyped'
  <2>1. work' \in [Deliverers -> {"idle", "batch", "accepted", "refused"}]
    BY DEF ServiceEnds, IInv, CountsTyped
  <2>2. batch' \in [Deliverers -> [Events -> {NotRead} \union Nat]]
    BY DEF ServiceEnds, IInv, CountsTyped
  <2>3. lost' \in [Deliverers -> [Events -> Nat]]
    BY DEF ServiceEnds, IInv, CountsTyped
  <2> QED BY <1>1, <2>1, <2>2, <2>3 DEF IInv, CountsTyped
<1>6. AttemptsFailed'
  <2>1. \A e \in Events : row[e].attempts <= failed[e] /\ NotRead <= failed[e]
    BY SMT DEF IInv, CountsTyped, AttemptsFailed, NotRead
  <2>2. ASSUME NEW w \in Deliverers, NEW e \in Events
        PROVE  /\ batch'[w][e] <= failed[e]
               /\ work'[w] = "refused" /\ Current(w, e)' => batch'[w][e] + 1 <= failed[e]
               /\ work'[w] = "accepted" /\ Current(w, e)' => got[w][e] > 0
    <3>1. CASE ServiceOf[w] = s
      BY <1>2, <2>1, <3>1
    <3>2. CASE ServiceOf[w] # s
      BY <1>3, <1>4, <3>2 DEF IInv, AttemptsFailed
    <3> QED BY <3>1, <3>2
  <2> QED BY <1>1, <2>1, <2>2 DEF AttemptsFailed
<1>7. SuccessWritten'
  <2> SUFFICES ASSUME NEW w \in Deliverers, NEW e \in Events
               PROVE  /\ batch'[w][e] # NotRead => row[e].st # "none"
                      /\ got[w][e] > lost'[w][e] =>
                           \/ work'[w] = "accepted" /\ Current(w, e)'
                           \/ batch'[w][e] = NotRead /\ row[e].st \notin {"none", "pending"}
    BY <1>1 DEF SuccessWritten
  <2>1. CASE ServiceOf[w] = s
    <3>1. batch'[w][e] = NotRead
      BY <1>2, <2>1
    <3>2. got[w][e] > lost'[w][e] => ~(work[w] = "accepted" /\ Current(w, e)) /\ got[w][e] > lost[w][e]
      BY <1>2, <2>1 DEF IInv, CountsTyped, DuplicatesBounded
    <3> QED BY <3>1, <3>2 DEF IInv, SuccessWritten
  <2>2. CASE ServiceOf[w] # s
    BY <1>3, <1>4, <2>2 DEF IInv, SuccessWritten
  <2> QED BY <2>1, <2>2
<1>8. NotGivenUpEarly'
  BY <1>1 DEF IInv, NotGivenUpEarly
<1>9. DuplicatesBounded'
  <2>1. \A w \in Deliverers, e \in Events :
          /\ got[w][e] \in Nat /\ lost[w][e] \in Nat /\ got[w][e] <= lost[w][e] + 1
          /\ lost'[w][e] \in {lost[w][e], lost[w][e] + 1}
    BY <1>2, <1>3 DEF IInv, CountsTyped, DuplicatesBounded
  <2> QED BY <1>1, <2>1 DEF DuplicatesBounded
<1> QED BY <1>5, <1>6, <1>7, <1>8, <1>9 DEF IInv

\* A worker reads its batch from rows that are pending.
LEMMA ReadKeeps == ASSUME IInv, NEW w \in Deliverers, ProcessWebhookEvents(w) PROVE IInv'
<1>1. UNCHANGED <<row, got, lost, failed>> /\ faults' \in Nat /\ work[w] = "idle"
  BY DEF ProcessWebhookEvents, tableVars, outcomeVars, StatementFails, IInv, CountsTyped
<1>2. CASE UNCHANGED workerVars
  <2>1. UNCHANGED <<work, batch>> /\ \A v, e : Current(v, e)' <=> Current(v, e)
    BY <1>2 DEF workerVars, Current
  <2> QED BY <1>1, <2>1 DEF IInv, CountsTyped, AttemptsFailed, SuccessWritten,
                            NotGivenUpEarly, DuplicatesBounded
<1>3. ASSUME NEW S \in SUBSET Events, \A e \in S : row[e].st = "pending",
             batch' = [batch EXCEPT ![w] = [e \in Events |-> IF e \in S THEN row[e].attempts
                                                             ELSE NotRead]],
             work' = [work EXCEPT ![w] = IF S = {} THEN "idle" ELSE "batch"]
      PROVE  IInv'
  <2>1. /\ work'[w] \in {"idle", "batch"}
        /\ \A e \in Events : batch'[w][e] = IF e \in S THEN row[e].attempts ELSE NotRead
        /\ \A v \in Deliverers : v # w => work'[v] = work[v] /\ batch'[v] = batch[v]
    BY <1>3 DEF IInv, CountsTyped
  <2>2. \A v \in Deliverers, e \in Events : v # w => (Current(v, e)' <=> Current(v, e))
    BY <2>1 DEF Current
  <2>3. CountsTyped'
    <3>1. \A e \in Events : row[e].attempts \in Nat
      BY DEF IInv, CountsTyped, CountedRow
    <3>2. batch' \in [Deliverers -> [Events -> {NotRead} \union Nat]]
      BY <1>3, <3>1 DEF IInv, CountsTyped
    <3>3. work' \in [Deliverers -> {"idle", "batch", "accepted", "refused"}]
      BY <1>3 DEF IInv, CountsTyped
    <3> QED BY <1>1, <3>2, <3>3 DEF IInv, CountsTyped
  <2>4. AttemptsFailed'
    <3>1. \A e \in Events : row[e].attempts <= failed[e] /\ NotRead <= failed[e]
      BY SMT DEF IInv, CountsTyped, AttemptsFailed, NotRead
    <3>2. \A e \in Events : batch'[w][e] <= failed[e]
      BY <2>1, <3>1
    <3>3. \A v \in Deliverers, e \in Events : v # w =>
            /\ batch'[v][e] <= failed[e]
            /\ work'[v] = "refused" /\ Current(v, e)' => batch'[v][e] + 1 <= failed[e]
            /\ work'[v] = "accepted" /\ Current(v, e)' => got[v][e] > 0
      BY <2>1, <2>2 DEF IInv, AttemptsFailed
    <3> QED BY <1>1, <2>1, <3>1, <3>2, <3>3 DEF AttemptsFailed
  <2>5. SuccessWritten'
    BY <1>1, <1>3, <2>1, <2>2 DEF IInv, SuccessWritten
  <2>6. NotGivenUpEarly' /\ DuplicatesBounded'
    BY <1>1 DEF IInv, NotGivenUpEarly, DuplicatesBounded
  <2> QED BY <2>3, <2>4, <2>5, <2>6 DEF IInv
<1>4. \A h : \A e \in Readable(h) : e \in Events /\ row[e].st = "pending"
  BY DEF Readable
<1> QED BY <1>2, <1>3, <1>4 DEF ProcessWebhookEvents

\* What an UPDATE by id leaves of the table, when it succeeds.
LEMMA RowsUpdated ==
  ASSUME CountsTyped, NEW e \in Events, NEW r \in CountedRow, UpdateRow(e, r)
  PROVE  /\ row' \in [Events -> CountedRow] /\ faults' \in Nat
         /\ \A f \in Events : f # e => row'[f] = row[f]
         /\ \/ /\ faults' = faults
               /\ row'[e] = IF row[e].st \in {"pending", "processed"} THEN r ELSE row[e]
            \/ faults' = faults + 1 /\ row'[e] = row[e]
BY DEF UpdateRow, StatementFails, CountsTyped

\* deliverEvent is over: the worker has no event it is at in another stage than "batch",
\* and goes on with the rest of its batch.
LEMMA EventOver ==
  ASSUME CountsTyped, NEW w \in Deliverers, NEW e \in Events, NextEvent(w, e)
  PROVE  /\ work' \in [Deliverers -> {"idle", "batch", "accepted", "refused"}]
         /\ batch' \in [Deliverers -> [Events -> {NotRead} \union Nat]]
         /\ work'[w] \in {"idle", "batch"} /\ batch'[w][e] = NotRead
         /\ \A f \in Events : f # e => batch'[w][f] = batch[w][f]
         /\ \A v \in Deliverers : v # w =>
              /\ work'[v] = work[v] /\ batch'[v] = batch[v]
              /\ \A f \in Events : Current(v, f)' <=> Current(v, f)
BY DEF NextEvent, CountsTyped, NotRead, Current

\* The end of a delivery, in each of the three ways: the row gets what was counted, and a
\* success that was accepted is written or lost.
LEMMA OverKeeps ==
  ASSUME IInv, NEW w \in Deliverers, NEW e \in Events, NEW r \in CountedRow,
         Current(w, e), UpdateRow(e, r), NextEvent(w, e), UNCHANGED <<got, failed>>,
         r.attempts <= failed[e],
         row[e].st # "none" => r.st # "none",
         row[e].st \notin {"none", "pending"} => r.st \notin {"none", "pending"},
         r.st \in {"processed", "purged"} =>
           \/ row[e].st \in {"processed", "purged"}
           \/ failed[e] >= MaxAttempts
           \/ got[w][e] > 0,
         \/ work[w] # "accepted" /\ lost' = lost
         \/ /\ work[w] = "accepted" /\ r.st = "processed"
            /\ lost' = [lost EXCEPT ![w][e] = @ + (faults' - faults)]
  PROVE  IInv'
<1>1. CountsTyped
  BY DEF IInv
<1>2. /\ row' \in [Events -> CountedRow] /\ faults' \in Nat
      /\ \A f \in Events : f # e => row'[f] = row[f]
      /\ \/ /\ faults' = faults
            /\ row'[e] = IF row[e].st \in {"pending", "processed"} THEN r ELSE row[e]
         \/ faults' = faults + 1 /\ row'[e] = row[e]
  BY <1>1, RowsUpdated
<1>3. /\ work' \in [Deliverers -> {"idle", "batch", "accepted", "refused"}]
      /\ batch' \in [Deliverers -> [Events -> {NotRead} \union Nat]]
      /\ work'[w] \in {"idle", "batch"} /\ batch'[w][e] = NotRead
      /\ \A f \in Events : f # e => batch'[w][f] = batch[w][f]
      /\ \A v \in Deliverers : v # w =>
           /\ work'[v] = work[v] /\ batch'[v] = batch[v]
           /\ \A f \in Events : Current(v, f)' <=> Current(v, f)
  BY <1>1, EventOver
<1>4. \A v \in Deliverers, f \in Events :
        /\ got[v][f] \in Nat /\ lost[v][f] \in Nat /\ lost'[v][f] \in Nat
        /\ lost[v][f] <= lost'[v][f]
        /\ v # w \/ f # e => lost'[v][f] = lost[v][f]
        /\ work[w] = "accepted" /\ faults' # faults => lost'[w][e] = lost[w][e] + 1
  BY <1>1, <1>2 DEF CountsTyped
<1>5. lost' \in [Deliverers -> [Events -> Nat]]
  <2> DEFINE n == lost[w][e] + (faults' - faults)
  <2>1. n \in Nat
    BY <1>1, <1>2 DEF CountsTyped
  <2>2. lost' = lost \/ lost' = [lost EXCEPT ![w][e] = n]
    OBVIOUS
  <2> HIDE DEF n
  <2>3. [lost EXCEPT ![w][e] = n] \in [Deliverers -> [Events -> Nat]]
    BY <1>1, <2>1 DEF CountsTyped
  <2> QED BY <1>1, <2>2, <2>3 DEF CountsTyped
<1>6. CountsTyped'
  BY <1>1, <1>2, <1>3, <1>5 DEF CountsTyped
<1>7. AttemptsFailed'
  <2>1. \A f \in Events : row'[f].attempts <= failed[f] /\ NotRead <= failed[f]
    <3>1. \A f \in Events : row[f].attempts <= failed[f] /\ NotRead <= failed[f]
      BY SMT DEF IInv, CountsTyped, AttemptsFailed, NotRead
    <3>2. \A f \in Events : row'[f] = row[f] \/ (f = e /\ row'[f] = r)
      BY <1>2
    <3> QED BY <3>1, <3>2
  <2>2. \A f \in Events : batch'[w][f] <= failed[f]
    BY <1>3, <2>1 DEF IInv, AttemptsFailed
  <2>3. \A v \in Deliverers, f \in Events : v # w =>
          /\ batch'[v][f] <= failed[f]
          /\ work'[v] = "refused" /\ Current(v, f)' => batch'[v][f] + 1 <= failed[f]
          /\ work'[v] = "accepted" /\ Current(v, f)' => got[v][f] > 0
    BY <1>3 DEF IInv, AttemptsFailed
  <2> QED BY <1>3, <2>1, <2>2, <2>3 DEF AttemptsFailed
<1>8. SuccessWritten'
  <2> SUFFICES ASSUME NEW v \in Deliverers, NEW f \in Events
               PROVE  /\ batch'[v][f] # NotRead => row'[f].st # "none"
                      /\ got[v][f] > lost'[v][f] =>
                           \/ work'[v] = "accepted" /\ Current(v, f)'
                           \/ /\ batch'[v][f] = NotRead
                              /\ row'[f].st \notin {"none", "pending"}
    BY DEF SuccessWritten
  <2>0. row[e].st # "none"
    BY DEF IInv, SuccessWritten, Current
  <2>1. /\ row[f].st # "none" => row'[f].st # "none"
        /\ row[f].st \notin {"none", "pending"} => row'[f].st \notin {"none", "pending"}
    BY <1>2, <2>0
  <2>2. CASE v # w
    BY <1>3, <1>4, <2>1, <2>2 DEF IInv, SuccessWritten
  <2>3. CASE v = w /\ f # e
    <3>1. ~Current(w, f)
      BY <2>3, OneCurrent
    <3> QED BY <1>3, <1>4, <2>1, <2>3, <3>1 DEF IInv, SuccessWritten
  <2>4. CASE v = w /\ f = e
    <3>1. CASE work[w] # "accepted"
      <4>1. batch[w][e] # NotRead /\ got[w][e] <= lost[w][e]
        BY <1>4, <3>1 DEF Current, IInv, SuccessWritten
      <4> QED BY <1>3, <1>4, <2>4, <4>1
    <3>2. CASE work[w] = "accepted" /\ faults' # faults
      <4>1. got[w][e] <= lost'[w][e]
        BY <1>4, <3>2 DEF IInv, DuplicatesBounded
      <4> QED BY <1>3, <1>4, <2>4, <4>1
    <3>3. CASE work[w] = "accepted" /\ faults' = faults
      <4>1. row'[e].st \notin {"none", "pending"}
        <5>1. row'[e] = IF row[e].st \in {"pending", "processed"} THEN r ELSE row[e]
          BY <1>1, <1>2, <3>3 DEF CountsTyped
        <5> QED BY <2>0, <3>3, <5>1
      <4> QED BY <1>3, <2>4, <4>1
    <3> QED BY <3>1, <3>2, <3>3
  <2> QED BY <2>2, <2>3, <2>4
<1>9. NotGivenUpEarly'
  <2> SUFFICES ASSUME NEW f \in Events, row'[f].st \in {"processed", "purged"}
               PROVE  failed[f] >= MaxAttempts \/ \E v \in Deliverers : got[v][f] > 0
    BY DEF NotGivenUpEarly
  <2>1. CASE row[f].st \in {"processed", "purged"}
    BY <2>1 DEF IInv, NotGivenUpEarly
  <2>2. CASE row[f].st \notin {"processed", "purged"}
    <3>1. f = e /\ row'[f] = r
      BY <1>2, <2>2
    <3> QED BY <2>2, <3>1
  <2> QED BY <2>1, <2>2
<1>10. DuplicatesBounded'
  BY <1>4 DEF IInv, DuplicatesBounded
<1> QED BY <1>6, <1>7, <1>8, <1>9, <1>10 DEF IInv

\* The steps of a worker with its event.
LEMMA WorkerKeeps ==
  ASSUME IInv, NEW w \in Deliverers, NEW e \in Events, DelivererStep(w, e)
  PROVE  IInv'
<1>1. /\ row[e] \in CountedRow /\ row[e].attempts <= failed[e] /\ failed[e] \in Nat
      /\ batch[w][e] \in {NotRead} \union Nat
  BY DEF IInv, CountsTyped, AttemptsFailed
<1>2. CASE ScheduleRetryWithoutIncrement(w, e)
  <2> DEFINE r == [row[e] EXCEPT !.retry = "later"]
  <2>1. r \in CountedRow /\ r.attempts = row[e].attempts /\ r.st = row[e].st
    BY <1>1 DEF CountedRow
  <2>2. /\ work[w] = "batch" /\ Current(w, e) /\ UpdateRow(e, r) /\ NextEvent(w, e)
        /\ UNCHANGED <<got, lost, failed>>
    BY <1>2 DEF ScheduleRetryWithoutIncrement, PutOff, outcomeVars
  <2> HIDE DEF r
  <2> QED BY <1>1, <2>1, <2>2, OverKeeps
<1>3. CASE Deliver(w, e)
  <2>1. /\ work[w] = "batch" /\ Current(w, e) /\ UNCHANGED <<row, batch, lost, faults>>
        /\ \/ /\ work' = [work EXCEPT ![w] = "accepted"]
              /\ got' = [got EXCEPT ![w][e] = @ + 1] /\ failed' = failed
           \/ /\ work' = [work EXCEPT ![w] = "refused"]
              /\ failed' = [failed EXCEPT ![e] = @ + 1] /\ got' = got
    BY <1>3 DEF Deliver, tableVars, boundVars
  <2>2. /\ work'[w] \in {"accepted", "refused"}
        /\ \A v \in Deliverers : v # w => work'[v] = work[v]
        /\ \A v, f : Current(v, f)' <=> Current(v, f)
    BY <2>1 DEF IInv, CountsTyped, Current
  <2>3. \A v \in Deliverers, f \in Events :
          /\ got[v][f] \in Nat /\ got[v][f] <= got'[v][f] /\ got'[v][f] \in Nat
          /\ v # w \/ f # e => got'[v][f] = got[v][f]
          /\ work'[w] = "accepted" => got'[w][e] = got[w][e] + 1
          /\ work'[w] = "refused" => got'[w][e] = got[w][e]
    BY <2>1 DEF IInv, CountsTyped
  <2>4. \A f \in Events :
          /\ failed[f] \in Nat /\ failed[f] <= failed'[f] /\ failed'[f] \in Nat
          /\ work'[w] = "refused" => failed'[e] = failed[e] + 1
    <3>1. failed \in [Events -> Nat] /\ work \in [Deliverers -> {"idle", "batch", "accepted", "refused"}]
      BY DEF IInv, CountsTyped
    <3>2. CASE work' = [work EXCEPT ![w] = "accepted"] /\ failed' = failed
      <4>1. work'[w] # "refused"
        BY <3>1, <3>2
      <4> QED BY <3>1, <3>2, <4>1
    <3>3. CASE failed' = [failed EXCEPT ![e] = @ + 1]
      BY <3>1, <3>3
    <3> QED BY <2>1, <3>2, <3>3
  <2>5. batch[w][e] # NotRead /\ row[e].st # "none" /\ got[w][e] <= lost[w][e]
    <3>1. batch[w][e] # NotRead
      BY <2>1 DEF Current
    <3>2. row[e].st # "none" /\ ~(got[w][e] > lost[w][e])
      BY <2>1, <3>1 DEF IInv, SuccessWritten
    <3>3. got[w][e] \in Nat /\ lost[w][e] \in Nat
      BY DEF IInv, CountsTyped
    <3> QED BY <3>1, <3>2, <3>3
  <2>6. CountsTyped'
    <3>1. work' \in [Deliverers -> {"idle", "batch", "accepted", "refused"}]
      BY <2>1 DEF IInv, CountsTyped
    <3>2. got' \in [Deliverers -> [Events -> Nat]]
      <4>1. got[w][e] + 1 \in Nat
        BY <2>3
      <4>2. [got EXCEPT ![w][e] = got[w][e] + 1] \in [Deliverers -> [Events -> Nat]]
        BY <4>1 DEF IInv, CountsTyped
      <4> QED BY <2>1, <4>2 DEF IInv, CountsTyped
    <3>3. failed' \in [Events -> Nat]
      <4>1. failed[e] + 1 \in Nat
        BY <2>4
      <4>2. [failed EXCEPT ![e] = failed[e] + 1] \in [Events -> Nat]
        BY <4>1 DEF IInv, CountsTyped
      <4> QED BY <2>1, <4>2 DEF IInv, CountsTyped
    <3> QED BY <2>1, <3>1, <3>2, <3>3 DEF IInv, CountsTyped
  <2>7. AttemptsFailed'
    <3>1. \A f \in Events : row[f].attempts \in Nat /\ row[f].attempts <= failed'[f]
      BY <2>4 DEF IInv, CountsTyped, CountedRow, AttemptsFailed
    <3>2. \A v \in Deliverers, f \in Events :
            batch[v][f] \in Int /\ batch[v][f] <= failed[f] /\ batch[v][f] <= failed'[f]
      BY <2>4 DEF IInv, CountsTyped, AttemptsFailed, NotRead
    <3>3. ASSUME NEW v \in Deliverers, NEW f \in Events, Current(v, f)
          PROVE  /\ work'[v] = "refused" => batch[v][f] + 1 <= failed'[f]
                 /\ work'[v] = "accepted" => got'[v][f] > 0
      <4>1. CASE v = w
        BY <2>1, <2>3, <2>4, <3>2, <3>3, <4>1, OneCurrent
      <4>2. CASE v # w
        BY <2>2, <2>3, <2>4, <3>2, <3>3, <4>2 DEF IInv, AttemptsFailed
      <4> QED BY <4>1, <4>2
    <3> QED BY <2>1, <2>2, <3>1, <3>2, <3>3 DEF AttemptsFailed
  <2>8. SuccessWritten'
    <3> SUFFICES ASSUME NEW v \in Deliverers, NEW f \in Events
                 PROVE  /\ batch[v][f] # NotRead => row[f].st # "none"
                        /\ got'[v][f] > lost[v][f] =>
                             \/ work'[v] = "accepted" /\ Current(v, f)
                             \/ batch[v][f] = NotRead /\ row[f].st \notin {"none", "pending"}
      BY <2>1, <2>2 DEF SuccessWritten
    <3>1. CASE v = w /\ f = e
      <4>1. got[w][e] \in Nat /\ lost[w][e] \in Nat
        BY DEF IInv, CountsTyped
      <4>2. CASE work'[w] = "accepted"
        BY <2>1, <2>5, <3>1, <4>2
      <4>3. CASE work'[w] = "refused"
        BY <2>3, <2>5, <3>1, <4>1, <4>3
      <4> QED BY <2>2, <4>2, <4>3
    <3>2. CASE v = w /\ f # e
      BY <2>1, <2>3, <3>2 DEF IInv, SuccessWritten
    <3>3. CASE v # w
      BY <2>2, <2>3, <3>3 DEF IInv, SuccessWritten
    <3> QED BY <3>1, <3>2, <3>3
  <2>9. NotGivenUpEarly'
    <3> SUFFICES ASSUME NEW f \in Events, row[f].st \in {"processed", "purged"}
                 PROVE  failed'[f] >= MaxAttempts \/ \E v \in Deliverers : got'[v][f] > 0
      BY <2>1 DEF NotGivenUpEarly
    <3>1. failed[f] >= MaxAttempts \/ \E v \in Deliverers : got[v][f] > 0
      BY DEF IInv, NotGivenUpEarly
    <3> QED BY <2>3, <2>4, <3>1, DeliveryBoundsAssumption
  <2>10. DuplicatesBounded'
    <3> SUFFICES ASSUME NEW v \in Deliverers, NEW f \in Events
                 PROVE  got'[v][f] <= lost[v][f] + 1
      BY <2>1 DEF DuplicatesBounded
    <3>1. lost[v][f] \in Nat /\ got[v][f] <= lost[v][f] + 1
      BY DEF IInv, CountsTyped, DuplicatesBounded
    <3> QED BY <2>2, <2>3, <2>5, <3>1
  <2> QED BY <2>6, <2>7, <2>8, <2>9, <2>10 DEF IInv
<1>4. CASE MarkEventSuccess(w, e)
  <2> DEFINE r == [row[e] EXCEPT !.st = "processed"]
  <2>1. r \in CountedRow /\ r.attempts = row[e].attempts /\ r.st = "processed"
    BY <1>1 DEF CountedRow
  <2>2. /\ work[w] = "accepted" /\ Current(w, e) /\ UpdateRow(e, r) /\ NextEvent(w, e)
        /\ lost' = [lost EXCEPT ![w][e] = @ + (faults' - faults)]
        /\ UNCHANGED <<got, failed>>
    BY <1>4 DEF MarkEventSuccess
  <2>3. got[w][e] > 0
    BY <2>2 DEF IInv, AttemptsFailed
  <2> HIDE DEF r
  <2> QED BY <1>1, <2>1, <2>2, <2>3, OverKeeps
<1>5. CASE HandleDeliveryFailure(w, e)
  <2> DEFINE r == Failure(w, e)
  <2>1. /\ work[w] = "refused" /\ Current(w, e) /\ UpdateRow(e, r) /\ NextEvent(w, e)
        /\ UNCHANGED <<got, lost, failed>>
    BY <1>5 DEF HandleDeliveryFailure, outcomeVars
  <2>2. batch[w][e] \in Nat /\ batch[w][e] + 1 <= failed[e]
    BY <1>1, <2>1 DEF Current, IInv, AttemptsFailed
  <2>3. /\ r \in CountedRow /\ r.attempts = batch[w][e] + 1
        /\ \/ r.st = "processed" /\ batch[w][e] + 1 >= MaxAttempts
           \/ r.st = row[e].st
    <3> DEFINE n == batch[w][e] + 1
    <3>1. n \in Nat
      BY <2>2
    <3>2. CASE n >= MaxAttempts
      <4>1. r = [row[e] EXCEPT !.st = "processed", !.attempts = n]
        BY <3>2 DEF Failure
      <4> HIDE DEF n, r
      <4>2. r \in CountedRow /\ r.attempts = n /\ r.st = "processed"
        BY <1>1, <3>1, <4>1 DEF CountedRow
      <4> QED BY <3>2, <4>2 DEF n
    <3>3. CASE ~(n >= MaxAttempts)
      <4>1. r = [row[e] EXCEPT !.attempts = n, !.retry = "later"]
        BY <3>3 DEF Failure
      <4> HIDE DEF n, r
      <4>2. r \in CountedRow /\ r.attempts = n /\ r.st = row[e].st
        BY <1>1, <3>1, <4>1 DEF CountedRow
      <4> QED BY <4>2 DEF n
    <3> QED BY <3>2, <3>3
  <2>4. failed[e] >= MaxAttempts \/ r.st = row[e].st
    BY <1>1, <2>2, <2>3, DeliveryBoundsAssumption
  <2> HIDE DEF r
  <2>5. r.attempts <= failed[e]
    BY <2>2, <2>3
  <2>6. /\ row[e].st # "none" => r.st # "none"
        /\ row[e].st \notin {"none", "pending"} => r.st \notin {"none", "pending"}
        /\ r.st \in {"processed", "purged"} =>
             row[e].st \in {"processed", "purged"} \/ failed[e] >= MaxAttempts
    BY <2>3, <2>4
  <2> QED BY <2>1, <2>3, <2>5, <2>6, OverKeeps
<1> QED BY <1>2, <1>3, <1>4, <1>5 DEF DelivererStep

\* Every step preserves the invariant.
LEMMA HookSteps == IInv /\ [HookNext]_hookVars => IInv'
<1> SUFFICES ASSUME IInv, [HookNext]_hookVars PROVE IInv'
  OBVIOUS
<1>1. CASE HookNext
  BY <1>1, TableMoves, LoopsMove, ServiceEndKeeps, ReadKeeps, WorkerKeeps DEF HookNext
<1>2. CASE UNCHANGED hookVars
  <2>1. UNCHANGED <<row, work, batch, got, lost, failed, faults>>
        /\ \A v, f : Current(v, f)' <=> Current(v, f)
    BY <1>2 DEF hookVars, tableVars, workerVars, outcomeVars, boundVars, Current
  <2> QED BY <2>1 DEF IInv, CountsTyped, AttemptsFailed, SuccessWritten,
                      NotGivenUpEarly, DuplicatesBounded
<1> QED BY <1>1, <1>2

\* At least once: an event is set aside only after a success or MaxRetries failures,
\* however many workers overwrite each other's count of attempts.
THEOREM EventsNotGivenUp == HookSpec => []NotGivenUpEarly
<1>1. IInv => NotGivenUpEarly
  BY DEF IInv
<1> QED BY <1>1, HooksStart, HookSteps, PTL DEF HookSpec

\* A worker delivers an event once, and once more for each outcome it lost.
THEOREM DuplicatesOnlyWhenLost == HookSpec => []DuplicatesBounded
<1>1. IInv => DuplicatesBounded
  BY DEF IInv
<1> QED BY <1>1, HooksStart, HookSteps, PTL DEF HookSpec

(***************************************************************************)
(* WebhookTriggers: a table has the trigger exactly while webhooks use it. *)
(***************************************************************************)

ACall == [of : Webhooks \union {NoWebhook}, old : Config, written : BOOLEAN]
TriggersTyped ==
    /\ webhook \in [Webhooks -> Config] /\ count \in [Tables -> Nat]
    /\ trigger \in [Tables -> BOOLEAN] /\ regular \in BOOLEAN
    /\ call \in [Admins -> ACall] /\ adjust \in [Admins -> [Tables -> Int]]
    /\ \A p \in Admins : call[p].of = NoWebhook => call[p] = IdleCall

\* Adjustments follow the write.
AdjustAfterWrite == \A p \in Admins : ~call[p].written => adjust[p] = NoChange

\* Two calls that regular requests make at once are for different webhooks.
NoOverlap ==
    \A p, q \in Admins : p # q /\ call[p] # IdleCall => call[p].of # call[q].of

\* A call that has still to write has read what is there.
ReadWhatIsThere ==
    \A p \in Admins : call[p] # IdleCall /\ ~call[p].written => call[p].old = webhook[call[p].of]
OneEntryEach == \A h \in Webhooks, t \in Tables : webhook[h].entries[t] <= 1

\* A table that a call has still to count for a webhook is one that the webhook uses.
RisingForUsers ==
    \A p \in Admins, t \in Tables : adjust[p][t] > 0 => call[p] # IdleCall /\ call[p].of \in Users(t)
AllFinite ==
    \A t \in Tables : IsFiniteSet(Users(t)) /\ IsFiniteSet(Rising(t)) /\ IsFiniteSet(Falling(t))
Balanced ==
    \A t \in Tables :
      /\ \A p \in Admins : adjust[p][t] \in -1..1
      /\ count[t] + Cardinality(Rising(t)) = Cardinality(Users(t)) + Cardinality(Falling(t))
Regular ==
    NoOverlap /\ ReadWhatIsThere /\ OneEntryEach /\ RisingForUsers /\ AllFinite /\ Balanced

TriggerInv ==
    /\ TriggersTyped /\ AdjustAfterWrite /\ TriggerIffCounted
    /\ regular => Regular

\* It holds initially.
LEMMA TriggerStarts == TriggerInit => TriggerInv
<1> SUFFICES ASSUME TriggerInit PROVE TriggerInv
  OBVIOUS
<1>1. Absent \in Config /\ IdleCall \in ACall /\ NoChange \in [Tables -> Int] /\ ~Absent.on
      /\ \A t \in Tables : Absent.entries[t] = 0 /\ NoChange[t] = 0
  BY TriggerAssumption DEF Absent, Config, IdleCall, ACall, NoChange
<1>2. TriggersTyped /\ AdjustAfterWrite /\ TriggerIffCounted
  BY <1>1 DEF TriggerInit, TriggersTyped, AdjustAfterWrite, TriggerIffCounted
<1>3. \A t \in Tables : Users(t) = {} /\ Rising(t) = {} /\ Falling(t) = {}
  BY <1>1 DEF TriggerInit, Users, Rising, Falling
<1>4. NoOverlap /\ ReadWhatIsThere /\ OneEntryEach /\ RisingForUsers
  BY <1>1 DEF TriggerInit, NoOverlap, ReadWhatIsThere, OneEntryEach, RisingForUsers
<1>6. /\ \A t \in Tables : count[t] = 0
      /\ \A p \in Admins, t \in Tables : adjust[p][t] = 0
  BY <1>1 DEF TriggerInit
<1>5. AllFinite /\ Balanced
  <2>1. IsFiniteSet({}) /\ Cardinality({}) = 0
    BY FS_EmptySet
  <2>2. AllFinite
    BY <1>3, <2>1 DEF AllFinite
  <2>3. ASSUME NEW t \in Tables
        PROVE  count[t] + Cardinality(Rising(t)) = Cardinality(Users(t)) + Cardinality(Falling(t))
    <3>1. count[t] = 0 /\ Cardinality(Rising(t)) = 0 /\ Cardinality(Users(t)) = 0
          /\ Cardinality(Falling(t)) = 0
      BY <1>3, <1>6, <2>1
    <3> QED BY <3>1
  <2> QED BY <1>6, <2>2, <2>3 DEF Balanced
<1> QED BY <1>2, <1>4, <1>5 DEF TriggerInv, Regular

\* A webhook is read.
LEMMA WebhookReadKeeps ==
  ASSUME TriggerInv, NEW p \in Admins, NEW h \in Webhooks, GetWebhook(p, h)
  PROVE  TriggerInv'
<1> DEFINE r == [of |-> h, old |-> webhook[h], written |-> FALSE]
<1>1. /\ call[p] = IdleCall /\ call' = [call EXCEPT ![p] = r]
      /\ regular' = (regular /\ \A q \in Admins : call[q].of # h)
      /\ UNCHANGED <<webhook, count, trigger, adjust>>
  BY DEF GetWebhook
<1>2. r \in ACall /\ r.of = h /\ r.old = webhook[h] /\ ~r.written /\ h # NoWebhook /\ r # IdleCall
  BY TriggerAssumption DEF TriggerInv, TriggersTyped, ACall, IdleCall
<1> HIDE DEF r
<1>3. call'[p] = r /\ call' \in [Admins -> ACall]
      /\ \A q \in Admins : q # p => call'[q] = call[q]
  BY <1>1, <1>2 DEF TriggerInv, TriggersTyped
<1>4. adjust[p] = NoChange
  BY <1>1 DEF IdleCall, TriggerInv, AdjustAfterWrite
<1>5. TriggersTyped' /\ AdjustAfterWrite' /\ TriggerIffCounted'
  BY <1>1, <1>2, <1>3, <1>4 DEF TriggerInv, TriggersTyped, AdjustAfterWrite, TriggerIffCounted
<1>6. ASSUME regular' PROVE Regular'
  <2>1. Regular /\ \A q \in Admins : call[q].of # h
    BY <1>1, <1>6 DEF TriggerInv
  <2>2. NoOverlap'
    BY <1>2, <1>3, <2>1 DEF Regular, NoOverlap
  <2>3. ReadWhatIsThere' /\ OneEntryEach'
    BY <1>1, <1>2, <1>3, <2>1 DEF Regular, ReadWhatIsThere, OneEntryEach
  <2>4. /\ \A t : Users(t)' = Users(t) /\ Rising(t)' = Rising(t) /\ Falling(t)' = Falling(t)
    BY <1>1 DEF Users, Rising, Falling
  <2>5. RisingForUsers'
    BY <1>1, <1>2, <1>3, <1>4, <2>1, <2>4 DEF Regular, RisingForUsers, NoChange
  <2>6. AllFinite' /\ Balanced'
    BY <1>1, <2>1, <2>4 DEF Regular, AllFinite, Balanced
  <2> QED BY <2>2, <2>3, <2>5, <2>6 DEF Regular
<1> QED BY <1>5, <1>6 DEF TriggerInv

\* What a regular write leaves to adjust for a table is the difference it makes.
LEMMA ChangesAreTheDifference ==
  ASSUME NEW old \in Config, NEW new \in Config, NEW t \in Tables,
         old.entries[t] <= 1, new.entries[t] <= 1
  PROVE  LET Uses(c) == c.on /\ c.entries[t] > 0
         IN  /\ Changes(old, new)[t] \in -1..1
             /\ Changes(old, new)[t] = 1 <=> ~Uses(old) /\ Uses(new)
             /\ Changes(old, new)[t] = -1 <=> Uses(old) /\ ~Uses(new)
<1>1. old.entries[t] \in {0, 1} /\ new.entries[t] \in {0, 1} /\ old.on \in BOOLEAN /\ new.on \in BOOLEAN
  BY TriggerAssumption DEF Config
<1> QED BY <1>1 DEF Changes

\* The webhook is written.
LEMMA WriteKeeps ==
  ASSUME TriggerInv, NEW p \in Admins, NEW c \in Config, WriteWebhook(p, c)
  PROVE  TriggerInv'
<1> DEFINE h == call[p].of
<1>1. /\ call[p] # IdleCall /\ ~call[p].written
      /\ webhook' = [webhook EXCEPT ![h] = c]
      /\ adjust' = [adjust EXCEPT ![p] = Changes(call[p].old, c)]
      /\ call' = [call EXCEPT ![p].written = TRUE]
      /\ regular' = (regular /\ \A t \in Tables : c.entries[t] <= 1)
      /\ UNCHANGED <<count, trigger>>
  BY DEF WriteWebhook
<1>2. h \in Webhooks /\ call[p].old \in Config /\ adjust[p] = NoChange
  BY <1>1 DEF TriggerInv, TriggersTyped, ACall, AdjustAfterWrite
<1>3. Changes(call[p].old, c) \in [Tables -> Int]
  BY <1>2, TriggerAssumption DEF Changes, Config
<1>4. /\ call' \in [Admins -> ACall] /\ call'[p].of = h /\ call'[p].old = call[p].old
      /\ call'[p].written /\ \A q \in Admins : q # p => call'[q] = call[q]
  BY <1>1 DEF TriggerInv, TriggersTyped, ACall
<1>5. TriggersTyped'
  BY <1>1, <1>2, <1>3, <1>4, TriggerAssumption DEF TriggerInv, TriggersTyped
<1>6. AdjustAfterWrite' /\ TriggerIffCounted'
  BY <1>1, <1>4 DEF TriggerInv, TriggersTyped, AdjustAfterWrite, TriggerIffCounted
<1>7. ASSUME regular' PROVE Regular'
  <2>1. Regular /\ (\A t \in Tables : c.entries[t] <= 1) /\ call[p].old = webhook[h]
    BY <1>1, <1>7 DEF TriggerInv, Regular, ReadWhatIsThere
  <2>2. \A q \in Admins : q # p /\ call[q] # IdleCall => call[q].of # h
    BY <1>1, <2>1 DEF Regular, NoOverlap
  <2>3. call'[p] # IdleCall
    BY <1>4 DEF IdleCall
  <2>4. NoOverlap'
    BY <1>1, <1>4, <2>1 DEF Regular, NoOverlap
  <2>5. ReadWhatIsThere' /\ OneEntryEach'
    BY <1>1, <1>2, <1>4, <2>1, <2>2
       DEF Regular, ReadWhatIsThere, OneEntryEach, TriggerInv, TriggersTyped
  <2>6. /\ webhook'[h] = c /\ \A g \in Webhooks : g # h => webhook'[g] = webhook[g]
        /\ adjust'[p] = Changes(webhook[h], c)
        /\ \A q \in Admins : q # p => adjust'[q] = adjust[q]
    BY <1>1, <1>2, <2>1 DEF TriggerInv, TriggersTyped
  <2>7. ASSUME NEW t \in Tables
        PROVE  /\ \A q \in Admins : adjust'[q][t] \in -1..1
               /\ adjust'[p][t] = 1 <=> h \notin Users(t) /\ h \in Users(t)'
               /\ adjust'[p][t] = -1 <=> h \in Users(t) /\ h \notin Users(t)'
               /\ Users(t)' \ {h} = Users(t) \ {h}
               /\ adjust[p][t] = 0
    <3>1. webhook[h] \in Config /\ webhook[h].entries[t] <= 1 /\ c.entries[t] <= 1
      BY <1>2, <2>1 DEF Regular, OneEntryEach, TriggerInv, TriggersTyped
    <3>2. /\ h \in Users(t) <=> webhook[h].on /\ webhook[h].entries[t] > 0
          /\ h \in Users(t)' <=> c.on /\ c.entries[t] > 0
      BY <1>2, <2>6 DEF Users
    <3>3. /\ adjust'[p][t] \in -1..1
          /\ adjust'[p][t] = 1 <=> h \notin Users(t) /\ h \in Users(t)'
          /\ adjust'[p][t] = -1 <=> h \in Users(t) /\ h \notin Users(t)'
      BY <2>6, <3>1, <3>2, ChangesAreTheDifference
    <3>4. Users(t)' \ {h} = Users(t) \ {h}
      BY <2>6 DEF Users
    <3> QED BY <1>2, <2>1, <2>6, <3>3, <3>4 DEF Regular, Balanced, NoChange
  <2>8. RisingForUsers'
    <3> SUFFICES ASSUME NEW q \in Admins, NEW t \in Tables, adjust'[q][t] > 0
                 PROVE  call'[q] # IdleCall /\ call'[q].of \in Users(t)'
      BY DEF RisingForUsers
    <3>1. CASE q = p
      BY <1>4, <2>3, <2>7, <3>1
    <3>2. CASE q # p
      <4>1. adjust[q][t] > 0 /\ call'[q] = call[q]
        BY <1>4, <2>6, <3>2
      <4>2. call[q] # IdleCall /\ call[q].of \in Users(t)
        BY <2>1, <4>1 DEF Regular, RisingForUsers
      <4> QED BY <2>2, <2>7, <3>2, <4>1, <4>2
    <3> QED BY <3>1, <3>2
  <2>9. ASSUME NEW t \in Tables
        PROVE  /\ IsFiniteSet(Users(t)') /\ IsFiniteSet(Rising(t)') /\ IsFiniteSet(Falling(t)')
               /\ count'[t] + Cardinality(Rising(t)')
                    = Cardinality(Users(t)') + Cardinality(Falling(t)')
    <3>1. /\ IsFiniteSet(Users(t)) /\ IsFiniteSet(Rising(t)) /\ IsFiniteSet(Falling(t))
          /\ count[t] + Cardinality(Rising(t)) = Cardinality(Users(t)) + Cardinality(Falling(t))
          /\ count[t] \in Nat /\ count'[t] = count[t]
      BY <1>1, <2>1 DEF Regular, AllFinite, Balanced, TriggerInv, TriggersTyped
    <3>2. /\ Cardinality(Users(t)) \in Nat /\ Cardinality(Rising(t)) \in Nat
          /\ Cardinality(Falling(t)) \in Nat
      BY <3>1, FS_CardinalityType
    <3>3. p \notin Rising(t) /\ p \notin Falling(t)
      BY <2>7 DEF Rising, Falling
    <3>4. adjust'[p][t] \in {-1, 0, 1}
      BY <2>7
    <3>5. CASE adjust'[p][t] = 1
      <4>1. /\ Rising(t)' = Rising(t) \union {p} /\ Falling(t)' = Falling(t)
            /\ Users(t)' = Users(t) \union {h} /\ h \notin Users(t)
        BY <2>6, <2>7, <3>3, <3>5 DEF Rising, Falling
      <4>2. /\ IsFiniteSet(Rising(t)') /\ IsFiniteSet(Users(t)')
            /\ Cardinality(Rising(t)') = Cardinality(Rising(t)) + 1
            /\ Cardinality(Users(t)') = Cardinality(Users(t)) + 1
        BY <3>1, <3>3, <4>1, FS_AddElement
      <4> QED BY <3>1, <3>2, <4>1, <4>2
    <3>6. CASE adjust'[p][t] = -1
      <4>1. Falling(t)' = Falling(t) \union {p} /\ Rising(t)' = Rising(t)
        BY <2>6, <3>3, <3>6 DEF Rising, Falling
      <4>2. Users(t)' = Users(t) \ {h} /\ h \in Users(t)
        BY <2>7, <3>6
      <4>3. /\ IsFiniteSet(Falling(t)')
            /\ Cardinality(Falling(t)') = Cardinality(Falling(t)) + 1
        BY <3>1, <3>3, <4>1, FS_AddElement
      <4>4. /\ IsFiniteSet(Users(t)')
            /\ Cardinality(Users(t)') = Cardinality(Users(t)) - 1
        <5>1. /\ IsFiniteSet(Users(t) \ {h})
              /\ Cardinality(Users(t) \ {h}) = Cardinality(Users(t)) - 1
          BY <3>1, <4>2, FS_RemoveElement
        <5> QED BY <4>2, <5>1
      <4> QED BY <3>1, <3>2, <4>1, <4>3, <4>4
    <3>7. CASE adjust'[p][t] = 0
      <4>1. Rising(t)' = Rising(t) /\ Falling(t)' = Falling(t)
        BY <2>6, <3>3, <3>7 DEF Rising, Falling
      <4>2. Users(t)' = Users(t)
        <5>1. h \in Users(t)' <=> h \in Users(t)
          BY <2>7, <3>7
        <5>2. Users(t)' \ {h} = Users(t) \ {h}
          BY <2>7
        <5> HIDE DEF h
        <5>3. \A g : g \in Users(t)' \ {h} <=> g \in Users(t) \ {h}
          BY <5>2
        <5>4. \A g : g \in Users(t)' <=> g \in Users(t)
          BY <5>1, <5>3
        <5> QED BY <5>4
      <4> QED BY <3>1, <4>1, <4>2
    <3> QED BY <3>4, <3>5, <3>6, <3>7
  <2> QED BY <2>4, <2>5, <2>7, <2>8, <2>9 DEF Regular, AllFinite, Balanced
<1> QED BY <1>5, <1>6, <1>7 DEF TriggerInv

\* No more calls have a table still to count than webhooks use it.
LEMMA RisingBounded ==
  ASSUME TriggerInv, regular, NEW t \in Tables
  PROVE  /\ Cardinality(Rising(t)) \in Nat /\ Cardinality(Users(t)) \in Nat
         /\ Cardinality(Falling(t)) \in Nat
         /\ Cardinality(Rising(t)) <= Cardinality(Users(t))
<1>1. IsFiniteSet(Users(t)) /\ IsFiniteSet(Rising(t)) /\ IsFiniteSet(Falling(t))
  BY DEF TriggerInv, Regular, AllFinite
<1> DEFINE f == [p \in Rising(t) |-> call[p].of]
<1>2. \A p \in Rising(t) : p \in Admins /\ call[p] # IdleCall /\ call[p].of \in Users(t)
  BY DEF Rising, TriggerInv, Regular, RisingForUsers
<1>3. /\ f \in [Rising(t) -> Users(t)]
      /\ \A p, q \in Rising(t) : p # q => f[p] # f[q]
  BY <1>2 DEF TriggerInv, Regular, NoOverlap
<1> HIDE DEF f
<1>4. f \in Injection(Rising(t), Users(t))
  BY <1>3 DEF Injection, IsInjective
<1> QED BY <1>1, <1>4, FS_Injection, FS_CardinalityType

\* A table is adjusted, or the adjustment fails.
LEMMA AdjustKeeps ==
  ASSUME TriggerInv, NEW p \in Admins, NEW t \in Tables, AdjustCount(p, t)
  PROVE  TriggerInv'
<1>1. UNCHANGED <<webhook, call>> /\ adjust[p][t] # 0 /\ adjust[p][t] \in Int /\ count[t] \in Nat
  BY DEF AdjustCount, TriggerInv, TriggersTyped
<1>2. \A u : Users(u)' = Users(u)
  BY <1>1 DEF Users
<1>3. TriggersTyped'
  <2>1. NoChange \in [Tables -> Int]
    BY DEF NoChange
  <2>2. adjust' \in [Admins -> [Tables -> Int]]
    <3>1. adjust[p] \in [Tables -> Int] /\ adjust \in [Admins -> [Tables -> Int]]
          /\ adjust[p][t] - 1 \in Int /\ adjust[p][t] + 1 \in Int
      BY <1>1 DEF TriggerInv, TriggersTyped
    <3>2. \/ adjust' = [adjust EXCEPT ![p][t] = adjust[p][t] - 1]
          \/ adjust' = [adjust EXCEPT ![p][t] = adjust[p][t] + 1]
          \/ adjust' = [adjust EXCEPT ![p] = NoChange]
      BY DEF AdjustCount
    <3> QED BY <2>1, <3>1, <3>2
  <2>4. regular' \in BOOLEAN
    BY DEF AdjustCount, TriggerInv, TriggersTyped
  <2>3. count' \in [Tables -> Nat] /\ trigger' \in [Tables -> BOOLEAN]
    <3>1. CASE IncrementTableCount(t)
      BY <3>1 DEF IncrementTableCount, TriggerInv, TriggersTyped
    <3>2. CASE DecrementTableCount(t)
      <4>1. (IF count[t] > 0 THEN count[t] - 1 ELSE 0) \in Nat
        BY <1>1
      <4> QED BY <3>2, <4>1 DEF DecrementTableCount, TriggerInv, TriggersTyped
    <3>3. CASE UNCHANGED <<count, trigger>>
      BY <3>3 DEF TriggerInv, TriggersTyped
    <3> QED BY <3>1, <3>2, <3>3 DEF AdjustCount
  <2> QED BY <1>1, <2>2, <2>3, <2>4 DEF TriggerInv, TriggersTyped
<1>4. call[p].written
  BY <1>1 DEF TriggerInv, AdjustAfterWrite, NoChange
<1>5. AdjustAfterWrite'
  BY <1>1, <1>4 DEF AdjustCount, TriggerInv, TriggersTyped, AdjustAfterWrite
<1>6. TriggerIffCounted'
  BY <1>1, <1>3 DEF AdjustCount, IncrementTableCount, DecrementTableCount, TriggerInv,
                    TriggersTyped, TriggerIffCounted
<1>7. ASSUME regular' PROVE Regular'
  <2>1. /\ regular /\ Regular
        /\ \/ /\ adjust[p][t] > 0 /\ count' = [count EXCEPT ![t] = @ + 1]
              /\ adjust' = [adjust EXCEPT ![p][t] = @ - 1]
           \/ /\ adjust[p][t] < 0 /\ count' = [count EXCEPT ![t] = IF @ > 0 THEN @ - 1 ELSE 0]
              /\ adjust' = [adjust EXCEPT ![p][t] = @ + 1]
    BY <1>7 DEF AdjustCount, IncrementTableCount, DecrementTableCount, TriggerInv
  <2>2. adjust[p][t] \in {-1, 1}
    BY <1>1, <2>1 DEF Regular, Balanced
  <2>3. /\ adjust'[p][t] = 0
        /\ \A q \in Admins, u \in Tables : q # p \/ u # t => adjust'[q][u] = adjust[q][u]
        /\ \A u \in Tables : u # t => count'[u] = count[u]
    BY <2>1, <2>2 DEF TriggerInv, TriggersTyped
  <2>4. NoOverlap' /\ ReadWhatIsThere' /\ OneEntryEach'
    BY <1>1, <2>1 DEF Regular, NoOverlap, ReadWhatIsThere, OneEntryEach
  <2>5. RisingForUsers'
    BY <1>1, <1>2, <2>1, <2>3 DEF Regular, RisingForUsers
  <2>6. \A u \in Tables : u # t => Rising(u)' = Rising(u) /\ Falling(u)' = Falling(u)
    BY <2>3 DEF Rising, Falling
  <2>7. /\ IsFiniteSet(Users(t)) /\ IsFiniteSet(Rising(t)) /\ IsFiniteSet(Falling(t))
        /\ count[t] + Cardinality(Rising(t)) = Cardinality(Users(t)) + Cardinality(Falling(t))
    BY <2>1 DEF Regular, AllFinite, Balanced
  <2>8. /\ Cardinality(Rising(t)) \in Nat /\ Cardinality(Users(t)) \in Nat
        /\ Cardinality(Falling(t)) \in Nat /\ Cardinality(Rising(t)) <= Cardinality(Users(t))
    BY <2>1, RisingBounded
  <2>9. /\ IsFiniteSet(Rising(t)') /\ IsFiniteSet(Falling(t)')
        /\ count'[t] + Cardinality(Rising(t)') = Cardinality(Users(t)) + Cardinality(Falling(t)')
    <3>1. CASE adjust[p][t] = 1
      <4>1. /\ Rising(t)' = Rising(t) \ {p} /\ p \in Rising(t) /\ Falling(t)' = Falling(t)
            /\ count'[t] = count[t] + 1
        BY <1>1, <2>1, <2>3, <3>1 DEF Rising, Falling, TriggerInv, TriggersTyped
      <4>2. /\ IsFiniteSet(Rising(t)') /\ Cardinality(Rising(t)') = Cardinality(Rising(t)) - 1
        BY <2>7, <4>1, FS_RemoveElement
      <4> QED BY <1>1, <2>7, <2>8, <4>1, <4>2
    <3>2. CASE adjust[p][t] = -1
      <4>1. /\ Falling(t)' = Falling(t) \ {p} /\ p \in Falling(t) /\ Rising(t)' = Rising(t)
            /\ count'[t] = IF count[t] > 0 THEN count[t] - 1 ELSE 0
        <5>1. Falling(t)' = Falling(t) \ {p} /\ p \in Falling(t)
          BY <2>3, <3>2 DEF Falling
        <5>2. Rising(t)' = Rising(t)
          BY <2>3, <3>2 DEF Rising
        <5>3. count'[t] = IF count[t] > 0 THEN count[t] - 1 ELSE 0
          BY <2>1, <3>2 DEF TriggerInv, TriggersTyped
        <5> QED BY <5>1, <5>2, <5>3
      <4>2. /\ IsFiniteSet(Falling(t)') /\ Cardinality(Falling(t)') = Cardinality(Falling(t)) - 1
        BY <2>7, <4>1, FS_RemoveElement
      <4>3. Cardinality(Falling(t)') \in Nat
        BY <4>2, FS_CardinalityType
      <4>4. count[t] > 0
        BY <1>1, <2>7, <2>8, <4>2, <4>3
      <4> QED BY <1>1, <2>7, <2>8, <4>1, <4>2, <4>4
    <3> QED BY <2>2, <3>1, <3>2
  <2>10. AllFinite'
    BY <1>2, <2>1, <2>6, <2>9 DEF Regular, AllFinite
  <2>11. \A u \in Tables : \A q \in Admins : adjust'[q][u] \in -1..1
    BY <2>1, <2>3 DEF Regular, Balanced
  <2>12. \A u \in Tables :
           count'[u] + Cardinality(Rising(u)') = Cardinality(Users(u)') + Cardinality(Falling(u)')
    BY <1>2, <2>1, <2>3, <2>6, <2>9 DEF Regular, Balanced
  <2> QED BY <2>4, <2>5, <2>10, <2>11, <2>12 DEF Regular, Balanced
<1> QED BY <1>3, <1>5, <1>6, <1>7 DEF TriggerInv

\* The call ends: a regular one with nothing left to adjust.
LEMMA EndKeeps == ASSUME TriggerInv, NEW p \in Admins, CallEnds(p) PROVE TriggerInv'
<1>1. /\ call' = [call EXCEPT ![p] = IdleCall] /\ adjust' = [adjust EXCEPT ![p] = NoChange]
      /\ regular' = (regular /\ adjust[p] = NoChange) /\ UNCHANGED <<webhook, count, trigger>>
  BY DEF CallEnds
<1>2. IdleCall \in ACall /\ IdleCall.of = NoWebhook /\ NoChange \in [Tables -> Int]
      /\ \A t \in Tables : NoChange[t] = 0
  BY TriggerAssumption DEF Absent, Config, IdleCall, ACall, NoChange
<1>3. TriggersTyped' /\ AdjustAfterWrite' /\ TriggerIffCounted'
  BY <1>1, <1>2 DEF TriggerInv, TriggersTyped, AdjustAfterWrite, TriggerIffCounted
<1>4. ASSUME regular' PROVE Regular'
  <2>1. Regular /\ adjust' = adjust
    BY <1>1, <1>4 DEF TriggerInv, TriggersTyped
  <2>2. /\ \A t : Users(t)' = Users(t) /\ Rising(t)' = Rising(t) /\ Falling(t)' = Falling(t)
    BY <1>1, <2>1 DEF Users, Rising, Falling
  <2>3. /\ call'[p] = IdleCall /\ \A q \in Admins : q # p => call'[q] = call[q]
        /\ \A t \in Tables : adjust'[p][t] = 0
    BY <1>1, <1>2 DEF TriggerInv, TriggersTyped
  <2>4. NoOverlap'
    <3> SUFFICES ASSUME NEW q \in Admins, NEW r \in Admins, q # r, call'[q] # IdleCall
                 PROVE  call'[q].of # call'[r].of
      BY DEF NoOverlap
    <3>1. q # p /\ call'[q].of # NoWebhook
      BY <2>3, <1>3 DEF TriggersTyped
    <3> QED BY <1>2, <2>1, <2>3, <3>1 DEF Regular, NoOverlap
  <2>5. ReadWhatIsThere' /\ OneEntryEach'
    BY <1>1, <2>1, <2>3 DEF Regular, ReadWhatIsThere, OneEntryEach
  <2>6. RisingForUsers'
    BY <2>1, <2>2, <2>3 DEF Regular, RisingForUsers
  <2>7. AllFinite' /\ Balanced'
    BY <1>1, <2>1, <2>2 DEF Regular, AllFinite, Balanced
  <2> QED BY <2>4, <2>5, <2>6, <2>7 DEF Regular
<1> QED BY <1>3, <1>4 DEF TriggerInv

\* Every step preserves the invariant.
LEMMA TriggerSteps == TriggerInv /\ [TriggerNext]_triggerVars => TriggerInv'
<1> SUFFICES ASSUME TriggerInv, [TriggerNext]_triggerVars PROVE TriggerInv'
  OBVIOUS
<1>1. CASE UNCHANGED triggerVars
  <2>1. UNCHANGED <<webhook, count, trigger, call, adjust, regular>>
    BY <1>1 DEF triggerVars, adminVars
  <2>2. \A t : Users(t)' = Users(t) /\ Rising(t)' = Rising(t) /\ Falling(t)' = Falling(t)
    BY <2>1 DEF Users, Rising, Falling
  <2>3. TriggersTyped' /\ AdjustAfterWrite' /\ TriggerIffCounted'
    BY <2>1 DEF TriggerInv, TriggersTyped, AdjustAfterWrite, TriggerIffCounted
  <2>4. regular => Regular'
    BY <2>1, <2>2 DEF TriggerInv, Regular, NoOverlap, ReadWhatIsThere, OneEntryEach,
                      RisingForUsers, AllFinite, Balanced
  <2> QED BY <2>1, <2>3, <2>4 DEF TriggerInv
<1>2. CASE TriggerNext
  BY <1>2, WebhookReadKeeps, WriteKeeps, AdjustKeeps, EndKeeps DEF TriggerNext
<1> QED BY <1>1, <1>2

\* For every number of webhooks, tables, callers and calls: a table has the trigger
\* exactly while its count is not zero; and when no call failed, overlapped another
\* one for the same webhook or named a table twice, the count of a table, with the
\* adjustments still to be made, is the number of enabled webhooks that use it.
THEOREM TriggersFollowWebhooks == TriggerSpec => []TablesWatched
<1>1. TriggerInv => TablesWatched
  BY DEF TriggerInv, Regular, Balanced, TablesWatched, CountsExact
<1> QED BY <1>1, TriggerStarts, TriggerSteps, PTL DEF TriggerSpec
=============================================================================
