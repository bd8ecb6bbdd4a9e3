---------------------------- MODULE LogBatcher ------------------------------
(***************************************************************************)
(* The batcher of the central logs (internal/storage/batcher.go): callers  *)
(* of Add, Flush and Close against the goroutine of run.  Every entry is   *)
(* somewhere on its way from Add to the table or to its loss.              *)
(***************************************************************************)
EXTENDS Naturals, FiniteSets

CONSTANTS
    Entries, Flushes,   \* log entries, and calls of Flush
    BufferSize,         \* capacity of the channel
    BatchSize,          \* batchSize
    MaxWriteErrors      \* bound of the model: writes that fail

ASSUME BatcherAssumption ==
    BufferSize \in Nat \ {0} /\ BatchSize \in Nat \ {0} /\ MaxWriteErrors \in Nat

VARIABLES
    place,          \* where each entry is
    flush,          \* how far each call of Flush is
    closing,        \* Close: "no", "marked" (closed), "signalled" (done), "returned"
    loop,           \* whether the goroutine of run goes on
    writeErrors,
    owed,           \* history: what a Flush found on its way when it was called
    belated         \* history: entries whose Add saw the batcher open before Close

batcherVars == <<place, flush, closing, loop, writeErrors, owed, belated>>

Places == {"new", "checked", "queued", "batched", "written", "failed", "dropped", "ignored"}
In(p) == {e \in Entries : place[e] = p}

BatcherInit ==
    /\ place = [e \in Entries |-> "new"]
    /\ flush = [f \in Flushes |-> "none"]
    /\ closing = "no" /\ loop = TRUE
    /\ writeErrors = 0
    /\ owed = [f \in Flushes |-> {}]
    /\ belated = {}

(***************************************************************************)
(* Add: the flag is read under the mutex, the channel is used after it.    *)
(***************************************************************************)
AddChecks(e) ==
    /\ place[e] = "new"
    /\ place' = [place EXCEPT ![e] = IF closing = "no" THEN "checked" ELSE "ignored"]
    /\ UNCHANGED <<flush, closing, loop, writeErrors, owed, belated>>

AddSends(e) ==
    /\ place[e] = "checked"
    /\ place' = [place EXCEPT ![e] =
         IF Cardinality(In("queued")) < BufferSize THEN "queued" ELSE "dropped"]
    /\ UNCHANGED <<flush, closing, loop, writeErrors, owed, belated>>

(***************************************************************************)
(* run.                                                                    *)
(***************************************************************************)
\* flushBatch writes the batch B, or loses it when the write fails; the loop does
\* nothing else meanwhile.
FlushBatch(B) ==
    \/ /\ place' = [e \in Entries |-> IF e \in B THEN "written" ELSE place[e]]
       /\ UNCHANGED writeErrors
    \/ /\ B # {} /\ writeErrors < MaxWriteErrors
       /\ writeErrors' = writeErrors + 1
       /\ place' = [e \in Entries |-> IF e \in B THEN "failed" ELSE place[e]]

\* The batch after the loops that take from the channel until it is empty.
Drained == In("batched") \union In("queued")

TakeEntry(e) ==
    /\ loop /\ place[e] = "queued"
    /\ IF Cardinality(In("batched")) + 1 >= BatchSize
       THEN FlushBatch(In("batched") \union {e})
       ELSE /\ place' = [place EXCEPT ![e] = "batched"]
            /\ UNCHANGED writeErrors
    /\ UNCHANGED <<flush, closing, loop, owed, belated>>

\* Mutant of FlushTick: the ticker only flushes a full batch.
FlushTickFull ==
    /\ loop /\ Cardinality(In("batched")) >= BatchSize
    /\ FlushBatch(In("batched"))
    /\ UNCHANGED <<flush, closing, loop, owed, belated>>

FlushTick ==
    /\ loop /\ In("batched") # {}
    /\ FlushBatch(In("batched"))
    /\ UNCHANGED <<flush, closing, loop, owed, belated>>

\* A request is taken from flushReq; the caller gets the error of the write, or
\* that of its context when it ended meanwhile.
ServeFlush(f) ==
    /\ loop /\ flush[f] = "asked"
    /\ FlushBatch(Drained)
    /\ \/ flush' = [flush EXCEPT ![f] = "failed"]
       \/ writeErrors' = writeErrors /\ flush' = [flush EXCEPT ![f] = "done"]
    /\ UNCHANGED <<closing, loop, owed, belated>>

\* done is closed: what is in the channel is flushed and the loop returns.
RunEnds ==
    /\ loop /\ closing = "signalled"
    /\ FlushBatch(Drained)
    /\ loop' = FALSE
    /\ UNCHANGED <<flush, closing, owed, belated>>

(***************************************************************************)
(* Flush and Close.                                                        *)
(***************************************************************************)
CallFlush(f) ==
    /\ flush[f] = "none"
    /\ flush' = [flush EXCEPT ![f] = IF closing = "no" THEN "asked" ELSE "closed"]
    /\ owed' = [owed EXCEPT ![f] = In("queued") \union In("batched")]
    /\ UNCHANGED <<place, closing, loop, writeErrors, belated>>

\* The request is not taken: done was closed, which is no error, or the context ended.
FlushLeaves(f) ==
    /\ flush[f] = "asked"
    /\ \/ closing \in {"signalled", "returned"}
          /\ flush' = [flush EXCEPT ![f] = "closed"]
       \/ flush' = [flush EXCEPT ![f] = "failed"]
    /\ UNCHANGED <<place, closing, loop, writeErrors, owed, belated>>

\* The first call of Close; a second one returns at once.
CloseMarks ==
    /\ closing = "no"
    /\ closing' = "marked"
    /\ belated' = In("checked")
    /\ UNCHANGED <<place, flush, loop, writeErrors, owed>>

CloseSignals ==
    /\ closing = "marked"
    /\ closing' = "signalled"
    /\ UNCHANGED <<place, flush, loop, writeErrors, owed, belated>>

\* Mutant of CloseReturns: the wait for the loop is missing.
CloseReturnsAtOnce ==
    /\ closing = "signalled"
    /\ closing' = "returned"
    /\ UNCHANGED <<place, flush, loop, writeErrors, owed, belated>>

CloseReturns ==
    /\ closing = "signalled" /\ ~loop
    /\ closing' = "returned"
    /\ UNCHANGED <<place, flush, loop, writeErrors, owed, belated>>

BatcherNext ==
    \/ \E e \in Entries : AddChecks(e) \/ AddSends(e) \/ TakeEntry(e)
    \/ \E f \in Flushes : CallFlush(f) \/ ServeFlush(f) \/ FlushLeaves(f)
    \/ FlushTick \/ RunEnds \/ CloseMarks \/ CloseSignals \/ CloseReturns

BatcherSpec == BatcherInit /\ [][BatcherNext]_batcherVars

\* The goroutine of run and its ticker go on.
BatcherFairness ==
    /\ \A e \in Entries : WF_batcherVars(TakeEntry(e))
    /\ WF_batcherVars(FlushTick) /\ WF_batcherVars(RunEnds)

FairBatcherSpec == BatcherSpec /\ BatcherFairness

(***************************************************************************)
(* Properties.                                                             *)
(***************************************************************************)
BatcherTypeOK ==
    /\ place \in [Entries -> Places]
    /\ flush \in [Flushes -> {"none", "asked", "done", "failed", "closed"}]
    /\ closing \in {"no", "marked", "signalled", "returned"}
    /\ loop \in BOOLEAN
    /\ writeErrors \in 0..MaxWriteErrors
    /\ owed \in [Flushes -> SUBSET Entries]
    /\ belated \subseteq Entries

\* When Flush reports success, no entry that Add had taken before the call is still
\* in memory: it is in the table, or was lost to a write that failed earlier.
FlushSettles ==
    \A f \in Flushes : flush[f] = "done" =>
      \A e \in owed[f] : place[e] \in {"written", "failed"}

\* When Close has returned nothing is left in memory, except entries of an Add that
\* saw the batcher open and reached the channel after the loop had drained it.
CloseLosesOnlyLate ==
    closing = "returned" =>
      \A e \in Entries : place[e] \in {"queued", "batched"} => e \in belated

\* What the callers of Flush and Close are told holds for the entries of each.
NothingLostSilently == FlushSettles /\ CloseLosesOnlyLate

\* Every entry taken by Add is written, or lost to a failed write, if it did not
\* race Close: no entry waits for a batch that never gets full.
EntriesSettle ==
    \A e \in Entries :
      place[e] = "queued" ~> (place[e] \in {"written", "failed"} \/ e \in belated)
=============================================================================
