-------------------------- MODULE WebhookTriggers --------------------------
(***************************************************************************)
(* The database triggers that the webhooks need (internal/webhook), counted*)
(* per table: WebhookService.Create, Update and Delete write the webhook in*)
(* one transaction and adjust the count of each table in transactions of   *)
(* their own.  The function increment_webhook_table_count creates the      *)
(* trigger of a table with its first webhook, decrement removes it with the*)
(* last.  A table may be named by several entries of a webhook.            *)
(***************************************************************************)
EXTENDS Integers, FiniteSets

CONSTANTS
    Webhooks, Tables,
    Admins,         \* requests to the API
    NoWebhook,      \* an admin that is idle
    MaxEntries,     \* bound of the model: entries of a webhook for one table
    MaxCalls        \* bound of the model: calls of the API

ASSUME TriggerAssumption ==
    NoWebhook \notin Webhooks /\ MaxEntries \in Nat /\ MaxCalls \in Nat

VARIABLES
    webhook,    \* auth.webhooks: whether enabled, and the entries for each table
    count,      \* webhook_monitored_tables
    trigger,    \* whether the table has the trigger
    call,       \* the webhook each admin writes, the row it read, and its step
    adjust,     \* the increments or decrements it has still to make
    calls,      \* calls so far
    regular     \* history: no call failed, overlapped another one for the same
                \* webhook, or wrote two entries for a table

adminVars == <<call, adjust, calls, regular>>
triggerVars == <<webhook, count, trigger, adminVars>>

Config == [there : BOOLEAN, on : BOOLEAN, entries : [Tables -> 0..MaxEntries]]
Absent == [there |-> FALSE, on |-> FALSE, entries |-> [t \in Tables |-> 0]]
IdleCall == [of |-> NoWebhook, old |-> Absent, written |-> FALSE]
NoChange == [t \in Tables |-> 0]

TriggerInit ==
    /\ webhook = [h \in Webhooks |-> Absent]
    /\ count = [t \in Tables |-> 0]
    /\ trigger = [t \in Tables |-> FALSE]
    /\ call = [p \in Admins |-> IdleCall]
    /\ adjust = [p \in Admins |-> NoChange]
    /\ calls = 0
    /\ regular = TRUE

\* Mutant of Changes: a webhook that stays enabled keeps the counts of the
\* tables that it drops.
ChangesUpOnly(old, new) ==
    [t \in Tables |->
       IF ~old.on /\ new.on THEN new.entries[t]
       ELSE IF old.on /\ ~new.on THEN -old.entries[t]
       ELSE IF old.on /\ old.entries[t] = 0 /\ new.entries[t] > 0 THEN 1
       ELSE 0]

\* What follows a write.  A webhook that is enabled or disabled counts every
\* entry; one that stays enabled compares the sets of its tables.
Changes(old, new) ==
    [t \in Tables |->
       IF ~old.on /\ new.on THEN new.entries[t]
       ELSE IF old.on /\ ~new.on THEN -old.entries[t]
       ELSE IF old.on /\ old.entries[t] = 0 /\ new.entries[t] > 0 THEN 1
       ELSE IF old.on /\ old.entries[t] > 0 /\ new.entries[t] = 0 THEN -1
       ELSE 0]

\* Update and Delete read the webhook; Create finds nothing.
GetWebhook(p, h) ==
    /\ call[p] = IdleCall /\ calls < MaxCalls
    /\ call' = [call EXCEPT ![p] = [of |-> h, old |-> webhook[h], written |-> FALSE]]
    /\ calls' = calls + 1
    /\ regular' = (regular /\ \A q \in Admins : call[q].of # h)
    /\ UNCHANGED <<webhook, count, trigger, adjust>>

\* The webhook is written if it is still there, whatever became of it since;
\* Absent deletes it.
WriteWebhook(p, c) ==
    /\ call[p] # IdleCall /\ ~call[p].written
    /\ call[p].old.there = webhook[call[p].of].there
    /\ c.there \/ c = Absent
    /\ webhook' = [webhook EXCEPT ![call[p].of] = c]
    /\ adjust' = [adjust EXCEPT ![p] = Changes(call[p].old, c)]
    /\ call' = [call EXCEPT ![p].written = TRUE]
    /\ regular' = (regular /\ \A t \in Tables : c.entries[t] <= 1)
    /\ UNCHANGED <<count, trigger, calls>>

IncrementTableCount(t) ==
    /\ count' = [count EXCEPT ![t] = @ + 1]
    /\ trigger' = [trigger EXCEPT ![t] = @ \/ count'[t] = 1]

\* GREATEST(0, webhook_count - 1); the row goes with the last one.
DecrementTableCount(t) ==
    /\ count' = [count EXCEPT ![t] = IF @ > 0 THEN @ - 1 ELSE 0]
    /\ trigger' = [trigger EXCEPT ![t] = @ /\ count'[t] > 0]

\* Manage- and CleanupTriggersForWebhook, and the loops of Update.  An error
\* ends the loop over new entries; all errors are only logged.
AdjustCount(p, t) ==
    /\ \/ adjust[p][t] > 0 /\ IncrementTableCount(t)
          /\ adjust' = [adjust EXCEPT ![p][t] = @ - 1] /\ UNCHANGED regular
       \/ adjust[p][t] < 0 /\ DecrementTableCount(t)
          /\ adjust' = [adjust EXCEPT ![p][t] = @ + 1] /\ UNCHANGED regular
       \/ adjust[p][t] > 0 /\ UNCHANGED <<count, trigger>>
          /\ adjust' = [adjust EXCEPT ![p] = NoChange] /\ regular' = FALSE
       \/ adjust[p][t] < 0 /\ UNCHANGED <<count, trigger>>
          /\ adjust' = [adjust EXCEPT ![p][t] = @ + 1] /\ regular' = FALSE
    /\ UNCHANGED <<webhook, call, calls>>

\* The call returns.  A failed write, or the end of the server, ends it early.
CallEnds(p) ==
    /\ call[p] # IdleCall
    /\ call' = [call EXCEPT ![p] = IdleCall]
    /\ adjust' = [adjust EXCEPT ![p] = NoChange]
    /\ regular' = (regular /\ adjust[p] = NoChange)
    /\ UNCHANGED <<webhook, count, trigger, calls>>

TriggerNext ==
    \E p \in Admins :
      \/ \E h \in Webhooks : GetWebhook(p, h)
      \/ \E c \in Config : WriteWebhook(p, c)
      \/ \E t \in Tables : AdjustCount(p, t)
      \/ CallEnds(p)

TriggerSpec == TriggerInit /\ [][TriggerNext]_triggerVars

(***************************************************************************)
(* Properties.                                                             *)
(***************************************************************************)
TriggerTypeOK ==
    /\ webhook \in [Webhooks -> Config]
    /\ count \in [Tables -> Nat]
    /\ trigger \in [Tables -> BOOLEAN]
    /\ call \in [Admins -> [of : Webhooks \union {NoWebhook}, old : Config,
                            written : BOOLEAN]]
    /\ adjust \in [Admins -> [Tables -> (-MaxEntries)..MaxEntries]]
    /\ calls \in 0..MaxCalls /\ regular \in BOOLEAN

\* The trigger is there exactly as long as the count says so, in any order of
\* the adjustments of several calls.
TriggerIffCounted == \A t \in Tables : trigger[t] <=> count[t] > 0

\* The enabled webhooks that name table t, and the calls that have still to count it
\* for a webhook, or to stop counting it.
Users(t) == {h \in Webhooks : webhook[h].on /\ webhook[h].entries[t] > 0}
Rising(t) == {p \in Admins : adjust[p][t] > 0}
Falling(t) == {p \in Admins : adjust[p][t] < 0}

\* After regular calls, those for different webhooks overlapping, each has at most one
\* adjustment of a table on its way, and the counts with those adjustments make up
\* the webhooks that use a table.
CountsExact ==
    regular => \A t \in Tables :
      /\ \A p \in Admins : adjust[p][t] \in -1..1
      /\ count[t] + Cardinality(Rising(t)) = Cardinality(Users(t)) + Cardinality(Falling(t))

\* Monitoring follows the webhooks: triggers and counts agree with one another and, after
\* regular calls, with the webhooks.
TablesWatched == TriggerIffCounted /\ CountsExact
=============================================================================
