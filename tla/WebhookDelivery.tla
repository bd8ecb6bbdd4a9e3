-------------------------- MODULE WebhookDelivery --------------------------
(***************************************************************************)
(* Delivery of webhook events (internal/webhook/trigger.go): the trigger   *)
(* queue_webhook_event writes a row for an event and notifies, the         *)
(* listener and the backlog loop of every service pass webhook ids to the  *)
(* service's channel, and its workers read the rows, deliver and write the *)
(* outcome.  No row is claimed, so that workers may hold the same event.   *)
(* Receivers, the database and the services may fail.                      *)
(***************************************************************************)
EXTENDS Integers, Sequences, FiniteSets

CONSTANTS
    Events,         \* row numbers, in the order of created_at
    Hooks,          \* webhooks
    HookOf,         \* the webhook of each event
    Services,       \* trigger services, each with one life
    Deliverers,     \* their workers
    ServiceOf,      \* the service of each worker
    MaxAttempts,    \* webhook.MaxRetries
    BatchLimit,     \* LIMIT of processWebhookEvents
    BacklogLimit,   \* LIMIT of checkForRetries
    ChanCap,        \* capacity of eventChan
    MaxFaults,      \* bound of the model: statements that fail
    MaxEdits,       \* bound of the model: updates and deletions of webhooks
    Mortal,         \* services that may be stopped or killed
    Deaf            \* services whose listener may fail

ASSUME HooksAssumption ==
    /\ Events \subseteq Nat /\ HookOf \in [Events -> Hooks]
    /\ ServiceOf \in [Deliverers -> Services]
ASSUME DeliveryBoundsAssumption ==
    /\ MaxAttempts \in Nat \ {0} /\ MaxFaults \in Nat /\ MaxEdits \in Nat
    /\ BatchLimit \in Nat /\ BacklogLimit \in Nat /\ ChanCap \in Nat

VARIABLES
    row,        \* auth.webhook_events
    hook,       \* auth.webhooks
    service,    \* the life of each service
    listens,    \* whether its listener has its connection
    eventChan,  \* its channel
    backlog,    \* webhooks checkForRetries has still to queue
    work,       \* where each worker is
    batch,      \* the events it has read, with the attempts it read
    got,        \* history: deliveries answered with success, per worker
    lost,       \* history: of those, the ones whose outcome was not written
    failed,     \* history: deliveries of each event that failed
    faults,     \* statements that failed
    edits       \* updates of webhooks

tableVars == <<row, hook>>
serviceVars == <<service, listens, eventChan, backlog>>
workerVars == <<work, batch>>
outcomeVars == <<got, lost, failed>>
boundVars == <<faults, edits>>
hookVars == <<tableVars, serviceVars, workerVars, outcomeVars, boundVars>>

Row == [st : {"none", "pending", "processed", "purged", "dropped"},
        attempts : 0..MaxAttempts, retry : {"null", "now", "later"}]
NotRead == -1

\* The event that worker w is at: the oldest that is left of its batch.
Current(w, e) ==
    /\ batch[w][e] # NotRead
    /\ \A f \in Events : f < e => batch[w][f] = NotRead

HookInit ==
    /\ row = [e \in Events |-> [st |-> "none", attempts |-> 0, retry |-> "null"]]
    /\ hook = [h \in Hooks |-> "enabled"]
    /\ service = [s \in Services |-> "off"]
    /\ listens = [s \in Services |-> FALSE]
    /\ eventChan = [s \in Services |-> <<>>]
    /\ backlog = [s \in Services |-> {}]
    /\ work = [w \in Deliverers |-> "idle"]
    /\ batch = [w \in Deliverers |-> [e \in Events |-> NotRead]]
    /\ got = [w \in Deliverers |-> [e \in Events |-> 0]]
    /\ lost = [w \in Deliverers |-> [e \in Events |-> 0]]
    /\ failed = [e \in Events |-> 0]
    /\ faults = 0
    /\ edits = 0

\* A statement fails, and the code logs and goes on.
StatementFails == faults < MaxFaults /\ faults' = faults + 1

(***************************************************************************)
(* The table: the database trigger, time, and the administrators.          *)
(***************************************************************************)

\* Mutant of NewRow: next_retry_at is left to the default of the column.
NewRowUnscheduled(e) == [st |-> "pending", attempts |-> 0, retry |-> "null"]

NewRow(e) == [st |-> "pending", attempts |-> 0, retry |-> "now"]

\* A send to eventChan with a default branch.
Push(q, h) == IF Len(q) < ChanCap THEN Append(q, h) ELSE q

\* queue_webhook_event: the row, and pg_notify to all that listen.
QueueEvent(e) ==
    /\ row[e].st = "none" /\ hook[HookOf[e]] = "enabled"
    /\ \A f \in Events : f < e => row[f].st # "none"
    /\ row' = [row EXCEPT ![e] = NewRow(e)]
    /\ eventChan' = [s \in Services |-> IF listens[s] THEN Push(eventChan[s], HookOf[e])
                                        ELSE eventChan[s]]
    /\ UNCHANGED <<hook, service, listens, backlog, workerVars, outcomeVars, boundVars>>

\* next_retry_at is reached.
BecomesRetryable(e) ==
    /\ row[e].st = "pending" /\ row[e].retry = "later"
    /\ row' = [row EXCEPT ![e].retry = "now"]
    /\ UNCHANGED <<hook, serviceVars, workerVars, outcomeVars, boundVars>>

\* cleanupOldEvents of some service, seven days later.
CleanupOldEvents(e) ==
    /\ row[e].st = "processed" /\ \E s \in Services : service[s] = "up"
    /\ row' = [row EXCEPT ![e].st = "purged"]
    /\ UNCHANGED <<hook, serviceVars, workerVars, outcomeVars, boundVars>>

\* WebhookService.Update of enabled, and Delete, which cascades to the events.
EditWebhook(h, to) ==
    /\ edits < MaxEdits /\ hook[h] # "gone" /\ hook[h] # to
    /\ edits' = edits + 1
    /\ hook' = [hook EXCEPT ![h] = to]
    /\ row' = [e \in Events |->
                 IF to = "gone" /\ HookOf[e] = h /\ row[e].st \in {"pending", "processed"}
                 THEN [row[e] EXCEPT !.st = "dropped"] ELSE row[e]]
    /\ UNCHANGED <<serviceVars, workerVars, outcomeVars, faults>>

(***************************************************************************)
(* A service: the listener and the backlog loop.                           *)
(***************************************************************************)

\* Start: workers, listener (which may not get its LISTEN) and backlog loop.
StartService(s) ==
    /\ service[s] = "off"
    /\ service' = [service EXCEPT ![s] = "up"]
    /\ \E b \in {TRUE} \union (IF s \in Deaf THEN {FALSE} ELSE {}) :
         listens' = [listens EXCEPT ![s] = b]
    /\ UNCHANGED <<tableVars, eventChan, backlog, workerVars, outcomeVars, boundVars>>

\* The connection of the listener breaks: it is never replaced.
ListenerFails(s) ==
    /\ s \in Deaf /\ listens[s]
    /\ listens' = [listens EXCEPT ![s] = FALSE]
    /\ UNCHANGED <<tableVars, service, eventChan, backlog, workerVars, outcomeVars, boundVars>>

\* Stop, which cancels the context of all statements and deliveries, or a kill.
\* An outcome that is not written yet is lost.
ServiceEnds(s) ==
    /\ s \in Mortal /\ service[s] = "up"
    /\ service' = [service EXCEPT ![s] = "gone"]
    /\ listens' = [listens EXCEPT ![s] = FALSE]
    /\ eventChan' = [eventChan EXCEPT ![s] = <<>>]
    /\ backlog' = [backlog EXCEPT ![s] = {}]
    /\ work' = [w \in Deliverers |-> IF ServiceOf[w] = s THEN "idle" ELSE work[w]]
    /\ batch' = [w \in Deliverers |-> IF ServiceOf[w] = s THEN [e \in Events |-> NotRead]
                                      ELSE batch[w]]
    /\ lost' = [w \in Deliverers |->
                  [e \in Events |-> IF /\ ServiceOf[w] = s /\ work[w] = "accepted"
                                       /\ Current(w, e)
                                    THEN lost[w][e] + 1 ELSE lost[w][e]]]
    /\ UNCHANGED <<tableVars, got, failed, boundVars>>

\* What checkForRetries selects: next_retry_at IS NOT NULL and past.
Retryable(e) == row[e].st = "pending" /\ row[e].retry = "now"

\* checkForRetries: at most BacklogLimit webhooks, disabled ones too.
CheckForRetries(s) ==
    LET H == {HookOf[e] : e \in {e \in Events : Retryable(e)}}
    IN  /\ service[s] = "up" /\ backlog[s] = {} /\ H # {}
        /\ \E S \in SUBSET H :
             /\ IF Cardinality(H) <= BacklogLimit THEN S = H
                ELSE Cardinality(S) = BacklogLimit
             /\ backlog' = [backlog EXCEPT ![s] = S]
        /\ UNCHANGED <<tableVars, service, listens, eventChan, workerVars, outcomeVars, boundVars>>

QueueRetry(s, h) ==
    /\ h \in backlog[s]
    /\ backlog' = [backlog EXCEPT ![s] = @ \ {h}]
    /\ eventChan' = [eventChan EXCEPT ![s] = Push(@, h)]
    /\ UNCHANGED <<tableVars, service, listens, workerVars, outcomeVars, boundVars>>
(***************************************************************************)
(* A worker.                                                               *)
(***************************************************************************)

\* Mutant of Readable: events that are done are read again.
ReadableAgain(h) == {e \in Events : HookOf[e] = h /\ row[e].st \in {"pending", "processed"}}

\* What processWebhookEvents selects.
Readable(h) ==
    {e \in Events : HookOf[e] = h /\ row[e].st = "pending" /\ row[e].retry # "later"}

\* A worker takes the next webhook and reads the webhook and its oldest events.
ProcessWebhookEvents(w) ==
    LET s == ServiceOf[w]
        h == Head(eventChan[s])
    IN  /\ service[s] = "up" /\ work[w] = "idle" /\ eventChan[s] # <<>>
        /\ eventChan' = [eventChan EXCEPT ![s] = Tail(@)]
        /\ \/ /\ \E S \in SUBSET (IF hook[h] = "enabled" THEN Readable(h) ELSE {}) :
                   /\ \A e \in S, f \in Readable(h) \ S : e < f
                   /\ \/ S = Readable(h) /\ Cardinality(S) <= BatchLimit
                      \/ Cardinality(S) = BatchLimit
                      \/ hook[h] # "enabled"
                   /\ batch' = [batch EXCEPT ![w] =
                                  [e \in Events |-> IF e \in S THEN row[e].attempts
                                                    ELSE NotRead]]
                   /\ work' = [work EXCEPT ![w] = IF S = {} THEN "idle" ELSE "batch"]
              /\ UNCHANGED faults
           \/ StatementFails /\ UNCHANGED workerVars
        /\ UNCHANGED <<tableVars, service, listens, backlog, outcomeVars, edits>>

\* deliverEvent is over, for good or ill.
NextEvent(w, e) ==
    /\ batch' = [batch EXCEPT ![w][e] = NotRead]
    /\ work' = [work EXCEPT ![w] = IF \A f \in Events \ {e} : batch[w][f] = NotRead
                                   THEN "idle" ELSE "batch"]

\* An UPDATE by id, which may find no row or fail.
UpdateRow(e, r) ==
    \/ /\ row' = [row EXCEPT ![e] = IF @.st \in {"pending", "processed"} THEN r ELSE @]
       /\ UNCHANGED faults
    \/ StatementFails /\ UNCHANGED row

\* Mutant of PutOff: a delivery that is put off counts as an attempt.
PutOffCounted(w, e) ==
    UpdateRow(e, [row[e] EXCEPT !.st = IF batch[w][e] + 1 >= MaxAttempts THEN "processed" ELSE @,
                                !.attempts = batch[w][e] + 1, !.retry = "later"])

PutOff(w, e) == UpdateRow(e, [row[e] EXCEPT !.retry = "later"])

\* The rate limiter refuses: scheduleRetryWithoutIncrement.
ScheduleRetryWithoutIncrement(w, e) ==
    /\ work[w] = "batch" /\ Current(w, e)
    /\ PutOff(w, e)
    /\ NextEvent(w, e)
    /\ UNCHANGED <<hook, serviceVars, outcomeVars, edits>>

\* Deliver: the receiver accepts, or there is an error.
Deliver(w, e) ==
    /\ work[w] = "batch" /\ Current(w, e)
    /\ \/ /\ work' = [work EXCEPT ![w] = "accepted"]
          /\ got' = [got EXCEPT ![w][e] = @ + 1]
          /\ UNCHANGED failed
       \/ /\ work' = [work EXCEPT ![w] = "refused"]
          /\ failed' = [failed EXCEPT ![e] = @ + 1]
          /\ UNCHANGED got
    /\ UNCHANGED <<tableVars, serviceVars, batch, lost, boundVars>>

\* markEventSuccess; when it fails, the event will be delivered again.
MarkEventSuccess(w, e) ==
    /\ work[w] = "accepted" /\ Current(w, e)
    /\ UpdateRow(e, [row[e] EXCEPT !.st = "processed"])
    /\ lost' = [lost EXCEPT ![w][e] = @ + (faults' - faults)]
    /\ NextEvent(w, e)
    /\ UNCHANGED <<hook, serviceVars, got, failed, edits>>

\* What a failure writes, from the attempts that were read with the event.
Failure(w, e) ==
    LET n == batch[w][e] + 1
    IN  IF n >= MaxAttempts THEN [row[e] EXCEPT !.st = "processed", !.attempts = n]
        ELSE [row[e] EXCEPT !.attempts = n, !.retry = "later"]

HandleDeliveryFailure(w, e) ==
    /\ work[w] = "refused" /\ Current(w, e)
    /\ UpdateRow(e, Failure(w, e))
    /\ NextEvent(w, e)
    /\ UNCHANGED <<hook, serviceVars, outcomeVars, edits>>

(***************************************************************************)
(* The specification.                                                      *)
(***************************************************************************)
DelivererStep(w, e) ==
    \/ ScheduleRetryWithoutIncrement(w, e) \/ Deliver(w, e)
    \/ MarkEventSuccess(w, e) \/ HandleDeliveryFailure(w, e)

HookNext ==
    \/ \E e \in Events : QueueEvent(e) \/ BecomesRetryable(e) \/ CleanupOldEvents(e)
    \/ \E h \in Hooks, to \in {"enabled", "disabled", "gone"} : EditWebhook(h, to)
    \/ \E s \in Services : StartService(s) \/ ListenerFails(s) \/ ServiceEnds(s)
                           \/ CheckForRetries(s)
    \/ \E s \in Services, h \in Hooks : QueueRetry(s, h)
    \/ \E w \in Deliverers : ProcessWebhookEvents(w)
    \/ \E w \in Deliverers, e \in Events : DelivererStep(w, e)

HookSpec == HookInit /\ [][HookNext]_hookVars

\* Fairness: services start, their loops and workers are scheduled, next_retry_at
\* is reached, the rate limiter lets a worker through again and again, and a
\* retry again and again finds room in the channel.
HookFairness ==
    /\ \A e \in Events : WF_hookVars(BecomesRetryable(e))
    /\ \A s \in Services :
         WF_hookVars(StartService(s)) /\ WF_hookVars(CheckForRetries(s))
    /\ \A s \in Services, h \in Hooks :
         /\ WF_hookVars(QueueRetry(s, h))
         /\ SF_hookVars(QueueRetry(s, h) /\ Len(eventChan[s]) < ChanCap)
    /\ \A w \in Deliverers :
         /\ WF_hookVars(ProcessWebhookEvents(w))
         /\ SF_hookVars(\E e \in Events : Deliver(w, e))
         /\ WF_hookVars(\E e \in Events : DelivererStep(w, e))

FairHookSpec == HookSpec /\ HookFairness

(***************************************************************************)
(* Properties.                                                             *)
(***************************************************************************)
HookTypeOK ==
    /\ row \in [Events -> Row]
    /\ hook \in [Hooks -> {"enabled", "disabled", "gone"}]
    /\ service \in [Services -> {"off", "up", "gone"}]
    /\ listens \in [Services -> BOOLEAN]
    /\ eventChan \in [Services -> Seq(Hooks)]
    /\ backlog \in [Services -> SUBSET Hooks]
    /\ work \in [Deliverers -> {"idle", "batch", "accepted", "refused"}]
    /\ batch \in [Deliverers -> [Events -> {NotRead} \union 0..(MaxAttempts - 1)]]
    /\ got \in [Deliverers -> [Events -> Nat]]
    /\ lost \in [Deliverers -> [Events -> Nat]]
    /\ failed \in [Events -> Nat]
    /\ faults \in 0..MaxFaults
    /\ edits \in 0..MaxEdits

\* At least once: an event is not set aside before some receiver accepted it or
\* MaxRetries deliveries failed, however many workers, whose reads go stale,
\* overwrite each other's count of attempts.
NotGivenUpEarly ==
    \A e \in Events : row[e].st \in {"processed", "purged"} =>
      failed[e] >= MaxAttempts \/ \E w \in Deliverers : got[w][e] > 0

\* Duplicates come from workers that hold the same event, or from an outcome
\* that was not written: a worker delivers an event once more for each outcome
\* it lost, and no further.
DuplicatesBounded ==
    \A w \in Deliverers, e \in Events : got[w][e] <= lost[w][e] + 1

\* Notifications are lost, channels are full and services die: as long as one
\* service lives, each event of a webhook that stays enabled is settled.
EveryEventSettles ==
    \A e \in Events :
      (row[e].st = "pending" /\ <>[](hook[HookOf[e]] = "enabled")) ~> row[e].st # "pending"
=============================================================================
