-------------------------- MODULE IdempotencyKeys --------------------------
(***************************************************************************)
(* The idempotency middleware (internal/middleware/idempotency.go), for    *)
(* the requests that carry one key.  The record of the key is read,        *)
(* inserted, read again and updated by statements of their own, between    *)
(* which other requests, the cleanup and the end of the server may come.   *)
(***************************************************************************)
EXTENDS Integers, FiniteSets

CONSTANTS
    Requests,    \* requests with the key, retries included
    Content,     \* method, path and body hash of each request
    NoRequest,   \* no record, or a record without a response
    MaxErrors,   \* bound of the model: statements that fail
    MaxLapses    \* bound of the model: times the record expires

ASSUME KeyAssumption ==
    /\ NoRequest \notin Requests /\ MaxErrors \in Nat /\ MaxLapses \in Nat
    /\ Requests \intersect {"none", "own", "mismatch", "conflict"} = {}

VARIABLES
    record,     \* the row of platform.idempotency_keys
    request,    \* how far each request is
    answer,     \* what it was answered, and from whose response
    done,       \* history: how often the handler succeeded
    erred,      \* history: how often the handler failed
    raced,      \* history: whether requests overlapped
    errors,     \* statements that failed
    lapses      \* times the record expired

historyVars == <<done, erred, raced>>
keyVars == <<record, request, answer, historyVars, errors, lapses>>

Record == [status : {"none", "processing", "completed", "failed"}, expired : BOOLEAN,
           for : Requests \union {NoRequest}, response : Requests \union {NoRequest}]
NoRecord == [status |-> "none", expired |-> FALSE,
             for |-> NoRequest, response |-> NoRequest]

KeyStages == {"new", "lookup", "create", "recheck", "drop", "run", "bare",
              "succeeded", "failed", "over", "lost"}
Answers == {"none", "own", "mismatch", "conflict"}

KeyInit ==
    /\ record = NoRecord
    /\ request = [r \in Requests |-> "new"]
    /\ answer = [r \in Requests |-> "none"]
    /\ done = 0 /\ erred = 0 /\ raced = FALSE
    /\ errors = 0 /\ lapses = 0

InFlight == {r \in Requests : request[r] \notin {"new", "over", "lost"}}
Goes(r, from, to) == request[r] = from /\ request' = [request EXCEPT ![r] = to]

\* A statement fails: the middleware logs and goes on.
KeyStatementFails == errors < MaxErrors /\ errors' = errors + 1

\* getRecord: WHERE expires_at > NOW().
Found == record.status # "none" /\ ~record.expired

Send(r) ==
    /\ Goes(r, "new", "lookup")
    /\ raced' = (raced \/ InFlight # {})
    /\ UNCHANGED <<record, answer, done, erred, errors, lapses>>

\* Mutant of HandleExistingKey: the request is not compared.
HandleAnyRequest(r, from) ==
    \/ record.status = "processing" /\ Goes(r, from, "over")
       /\ answer' = [answer EXCEPT ![r] = "conflict"]
    \/ record.status = "completed" /\ Goes(r, from, "over")
       /\ answer' = [answer EXCEPT ![r] = record.response]
    \/ record.status = "failed" /\ Goes(r, from, "drop") /\ UNCHANGED answer

\* handleExistingKey: a mismatch, a conflict, a replay, or a new attempt.
HandleExistingKey(r, from) ==
    IF Content[record.for] # Content[r]
    THEN Goes(r, from, "over") /\ answer' = [answer EXCEPT ![r] = "mismatch"]
    ELSE \/ record.status = "processing" /\ Goes(r, from, "over")
            /\ answer' = [answer EXCEPT ![r] = "conflict"]
         \/ record.status = "completed" /\ Goes(r, from, "over")
            /\ answer' = [answer EXCEPT ![r] = record.response]
         \/ record.status = "failed" /\ Goes(r, from, "drop") /\ UNCHANGED answer

\* The first getRecord.
Lookup(r) ==
    /\ \/ /\ UNCHANGED errors
          /\ IF Found THEN HandleExistingKey(r, "lookup")
             ELSE Goes(r, "lookup", "create") /\ UNCHANGED answer
       \/ KeyStatementFails /\ Goes(r, "lookup", "bare") /\ UNCHANGED answer
    /\ UNCHANGED <<record, historyVars, lapses>>

\* createRecord: ON CONFLICT DO NOTHING, with an expired row as well.
CreateRecord(r) ==
    /\ \/ /\ Goes(r, "create", "recheck") /\ UNCHANGED errors
          /\ record' = IF record.status # "none" THEN record
                       ELSE [NoRecord EXCEPT !.status = "processing", !.for = r]
       \/ KeyStatementFails /\ Goes(r, "create", "bare") /\ UNCHANGED record
    /\ UNCHANGED <<answer, historyVars, lapses>>

\* The second getRecord: whoever finds the record processing takes it for its
\* own, compared or not.
Recheck(r) ==
    /\ \/ /\ UNCHANGED errors
          /\ IF Found /\ record.status # "processing" THEN HandleExistingKey(r, "recheck")
             ELSE Goes(r, "recheck", "run") /\ UNCHANGED answer
       \/ KeyStatementFails /\ Goes(r, "recheck", "bare") /\ UNCHANGED answer
    /\ UNCHANGED <<record, historyVars, lapses>>

\* A record that failed is deleted, whatever it is by now, and the request runs
\* without one.
DropRecord(r) ==
    /\ Goes(r, "drop", "bare")
    /\ \/ record' = NoRecord /\ UNCHANGED errors
       \/ KeyStatementFails /\ UNCHANGED record
    /\ UNCHANGED <<answer, historyVars, lapses>>

\* c.Next(): an error or a status of 500 and above is a failure.
RunHandler(r) ==
    /\ \/ done' = done + 1 /\ UNCHANGED erred
          /\ (Goes(r, "run", "succeeded") \/ Goes(r, "bare", "over"))
       \/ erred' = erred + 1 /\ UNCHANGED done
          /\ (Goes(r, "run", "failed") \/ Goes(r, "bare", "over"))
    /\ answer' = [answer EXCEPT ![r] = "own"]
    /\ UNCHANGED <<record, raced, errors, lapses>>

\* Mutant of UpdateRecord: a success leaves no record.
UpdateRecordOnFailure(r) ==
    /\ \/ /\ UNCHANGED errors
          /\ record' = IF record.status = "none" THEN record
                       ELSE IF request[r] = "succeeded" THEN NoRecord
                       ELSE [record EXCEPT !.status = "failed", !.response = r]
       \/ KeyStatementFails /\ UNCHANGED record
    /\ Goes(r, "succeeded", "over") \/ Goes(r, "failed", "over")
    /\ UNCHANGED <<answer, historyVars, lapses>>

\* updateRecord: WHERE key = $1, whoever inserted the row.
UpdateRecord(r) ==
    /\ \/ /\ UNCHANGED errors
          /\ record' = IF record.status = "none" THEN record
                       ELSE [record EXCEPT !.response = r,
                               !.status = IF request[r] = "succeeded" THEN "completed"
                                          ELSE "failed"]
       \/ KeyStatementFails /\ UNCHANGED record
    /\ Goes(r, "succeeded", "over") \/ Goes(r, "failed", "over")
    /\ UNCHANGED <<answer, historyVars, lapses>>

\* A day later the record expires; no request takes that long.
RecordExpires ==
    /\ Found /\ InFlight = {} /\ lapses < MaxLapses
    /\ record' = [record EXCEPT !.expired = TRUE]
    /\ lapses' = lapses + 1
    /\ UNCHANGED <<request, answer, historyVars, errors>>

CleanupExpiredKeys ==
    /\ record.expired
    /\ record' = NoRecord
    /\ UNCHANGED <<request, answer, historyVars, errors, lapses>>

\* The server ends, and with it the requests it was serving.
ServerEnds ==
    /\ InFlight # {}
    /\ request' = [r \in Requests |-> IF r \in InFlight THEN "lost" ELSE request[r]]
    /\ UNCHANGED <<record, answer, historyVars, errors, lapses>>

KeyNext ==
    \/ \E r \in Requests :
         \/ Send(r) \/ Lookup(r) \/ CreateRecord(r) \/ Recheck(r)
         \/ DropRecord(r) \/ RunHandler(r) \/ UpdateRecord(r)
    \/ RecordExpires \/ CleanupExpiredKeys \/ ServerEnds

KeySpec == KeyInit /\ [][KeyNext]_keyVars

(***************************************************************************)
(* Properties.                                                             *)
(***************************************************************************)
KeyTypeOK ==
    /\ record \in Record
    /\ request \in [Requests -> KeyStages]
    /\ answer \in [Requests -> Answers \union Requests]
    /\ done \in Nat /\ erred \in Nat /\ raced \in BOOLEAN
    /\ errors \in 0..MaxErrors /\ lapses \in 0..MaxLapses

\* Retries that wait for the answer, or for the end of the server, repeat an
\* operation that succeeded, within the life of its record, no oftener than there
\* are failures to excuse it: a run that failed, whose retry leaves no record,
\* or a statement that failed.
RepeatsExcused == ~raced /\ lapses = 0 => done <= 1 + erred + errors

\* A replayed response was given to a request with the same content, as long as
\* requests do not overlap.
ReplayIsOwn ==
    \A r \in Requests : ~raced /\ answer[r] \in Requests =>
      Content[answer[r]] = Content[r]
=============================================================================
