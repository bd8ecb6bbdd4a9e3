--------------------------- MODULE RequestProofs ----------------------------
(***************************************************************************)
(* Proofs about requests that change data in several steps without a lock: *)
(* idempotency keys and chunked uploads, for any number of requests,       *)
(* chunks and completions.                                                 *)
(***************************************************************************)
EXTENDS IdempotencyKeys, ChunkedUpload, FiniteSetTheorems, TLAPS

(***************************************************************************)
(* IdempotencyKeys: the repeats of an operation are excused by failures,   *)
(* and a replay is of the same request.                                    *)
(***************************************************************************)

\* Requests that do not overlap are served one at a time.
OneServed == ~raced => \A r, q \in InFlight : r = q

\* What the successes so far leave of the failures that excuse them.
Excuses == erred + errors - done

\* What the record keeps of them.
Kept(s) == IF s = "none" THEN 0 ELSE IF s = "failed" THEN 1 ELSE -1

\* As long as requests do not overlap and no record has expired, each stage of the
\* record and of the request being served has its part of the excuses in hand: a record
\* that failed keeps one for the run without a record that follows it, and so does a
\* request that runs without one.
ExcusesLeft ==
    ~raced /\ lapses = 0 =>
      /\ ~record.expired
      /\ Excuses >= Kept(record.status)
      /\ \A r \in Requests :
           /\ request[r] = "create" => record.status = "none"
           /\ request[r] \in {"recheck", "run"} => record.status = "processing" /\ Excuses >= 0
           /\ request[r] \in {"succeeded", "failed"} => record.status = "processing"
           /\ request[r] = "failed" => Excuses >= 1
           /\ request[r] = "drop" => record.status = "failed"
           /\ request[r] = "bare" => Excuses >= 1 + Kept(record.status)

\* A record with a response that may be replayed has it from a request with the content
\* of the one it was made for; the request being served finds its own record, or none
\* that is valid.
ResponseFits ==
    ~raced =>
      /\ record.status \in {"completed", "failed"} /\ ~record.expired =>
           record.response \in Requests /\ Content[record.response] = Content[record.for]
      /\ \A r \in Requests :
           /\ request[r] = "create" => ~Found
           /\ request[r] \in {"recheck", "run", "succeeded", "failed"} =>
                (Found => record.status = "processing" /\ record.for = r)

KeyTyped ==
    /\ record \in Record /\ request \in [Requests -> KeyStages]
    /\ answer \in [Requests -> Answers \union Requests \union {NoRequest}]
    /\ done \in Nat /\ erred \in Nat /\ raced \in BOOLEAN
    /\ errors \in Nat /\ lapses \in Nat

KeyInv == KeyTyped /\ OneServed /\ ExcusesLeft /\ ResponseFits /\ RepeatsExcused /\ ReplayIsOwn

\* Initially there is no record.
LEMMA KeyStarts == KeyInit => KeyInv
<1> SUFFICES ASSUME KeyInit PROVE KeyInv
  OBVIOUS
<1>1. KeyTyped /\ OneServed
  BY DEF KeyInit, KeyTyped, OneServed, InFlight, Record, NoRecord, KeyStages, Answers
<1>2. ExcusesLeft /\ RepeatsExcused
  BY DEF KeyInit, ExcusesLeft, Excuses, Kept, RepeatsExcused, NoRecord
<1>3. ResponseFits /\ ReplayIsOwn
  BY KeyAssumption DEF KeyInit, ResponseFits, ReplayIsOwn, NoRecord, Found
<1> QED BY <1>1, <1>2, <1>3 DEF KeyInv

\* A request moves from one stage to another.
LEMMA Moved ==
  ASSUME KeyTyped, NEW r \in Requests, NEW from, NEW to \in KeyStages, Goes(r, from, to)
  PROVE  /\ request' \in [Requests -> KeyStages]
         /\ request[r] = from /\ request'[r] = to
         /\ \A q \in Requests : q # r => request'[q] = request[q]
  BY DEF KeyTyped, Goes

\* A request is sent, and overlaps or is the only one.
LEMMA SendStep ==
  ASSUME KeyInv, NEW r \in Requests, Send(r)
  PROVE  KeyInv'
<1>1. KeyTyped'
  BY DEF KeyInv, Send, Goes, KeyTyped, KeyStages
<1>2. request'[r] = "lookup" /\ \A q \in Requests : q # r => request'[q] = request[q]
  BY DEF KeyInv, KeyTyped, Send, Goes
<1>3. OneServed'
  BY <1>2 DEF KeyInv, Send, OneServed, InFlight
<1>4. ExcusesLeft' /\ RepeatsExcused'
  BY <1>2 DEF KeyInv, Send, ExcusesLeft, Excuses, RepeatsExcused
<1>5. ResponseFits' /\ ReplayIsOwn'
  BY <1>2 DEF KeyInv, Send, ResponseFits, ReplayIsOwn, Found
<1> QED BY <1>1, <1>3, <1>4, <1>5 DEF KeyInv

\* A request that is being served goes on: as long as requests do not overlap no other
\* one is being served, before and after.
LEMMA OneGoesOn ==
  ASSUME KeyTyped, OneServed, UNCHANGED raced,
         NEW r \in Requests, r \in InFlight, NEW to \in KeyStages,
         request' = [request EXCEPT ![r] = to]
  PROVE  /\ OneServed'
         /\ request' \in [Requests -> KeyStages] /\ request'[r] = to
         /\ ~raced => \A q \in Requests : q # r => request'[q] \in {"new", "over", "lost"}
<1>1. /\ request' \in [Requests -> KeyStages] /\ request'[r] = to
      /\ \A q \in Requests : q # r => request'[q] = request[q]
  BY DEF KeyTyped
<1>2. ~raced => \A q \in Requests : q # r => request[q] \in {"new", "over", "lost"}
  BY DEF OneServed, InFlight
<1> QED BY <1>1, <1>2 DEF OneServed, InFlight

\* The record answers a request, or has failed and is to be dropped.
LEMMA HandleStep ==
  ASSUME KeyInv, NEW r \in Requests, NEW from \in {"lookup", "recheck"},
         HandleExistingKey(r, from), Found,
         UNCHANGED <<record, historyVars, errors, lapses>>
  PROVE  KeyInv'
<1>1. PICK to \in {"over", "drop"} : Goes(r, from, to) /\ (to = "drop" => record.status = "failed")
  BY DEF HandleExistingKey
<1>2. r \in InFlight /\ request' = [request EXCEPT ![r] = to] /\ to \in KeyStages
  BY <1>1 DEF Goes, InFlight, KeyStages
<1>3. /\ OneServed' /\ request' \in [Requests -> KeyStages] /\ request'[r] = to
      /\ ~raced => \A q \in Requests : q # r => request'[q] \in {"new", "over", "lost"}
  BY <1>2, OneGoesOn DEF KeyInv, historyVars
<1>4. ExcusesLeft' /\ RepeatsExcused'
  BY <1>1, <1>3 DEF KeyInv, ExcusesLeft, Excuses, RepeatsExcused, historyVars
<1>5. ResponseFits'
  BY <1>1, <1>3 DEF KeyInv, ResponseFits, Found, historyVars
<1>6. \/ UNCHANGED answer
      \/ \E a \in {"mismatch", "conflict"} : answer' = [answer EXCEPT ![r] = a]
      \/ /\ record.status = "completed" /\ Content[record.for] = Content[r]
         /\ answer' = [answer EXCEPT ![r] = record.response]
  BY DEF HandleExistingKey
<1>7. ReplayIsOwn'
  BY <1>6, KeyAssumption DEF KeyInv, KeyTyped, ReplayIsOwn, ResponseFits, Found, historyVars
<1>8. answer' \in [Requests -> Answers \union Requests \union {NoRequest}]
  BY <1>6 DEF KeyInv, KeyTyped, Answers, Record
<1>9. KeyTyped'
  BY <1>3, <1>8 DEF KeyInv, KeyTyped, historyVars
<1> QED BY <1>3, <1>4, <1>5, <1>7, <1>9 DEF KeyInv

\* The first lookup, and the second one after the insertion.
LEMMA KeyLookupStep ==
  ASSUME KeyInv, NEW r \in Requests, Lookup(r) \/ Recheck(r)
  PROVE  KeyInv'
<1>1. CASE /\ Found /\ UNCHANGED errors
           /\ HandleExistingKey(r, "lookup") \/ HandleExistingKey(r, "recheck")
  BY <1>1, HandleStep DEF Lookup, Recheck
<1>2. CASE ~(/\ Found /\ UNCHANGED errors
             /\ HandleExistingKey(r, "lookup") \/ HandleExistingKey(r, "recheck"))
  <2>1. \/ Goes(r, "lookup", "create") /\ ~Found /\ UNCHANGED errors
        \/ /\ Goes(r, "recheck", "run") /\ UNCHANGED errors
           /\ Found => record.status = "processing"
        \/ /\ Goes(r, "lookup", "bare") \/ Goes(r, "recheck", "bare")
           /\ errors' = errors + 1
    BY <1>2 DEF Lookup, Recheck, KeyStatementFails
  <2>2. UNCHANGED <<record, answer, done, erred, raced, lapses>>
    BY <1>2 DEF Lookup, Recheck, historyVars
  <2>3. PICK to \in {"create", "run", "bare"} : \E from \in {"lookup", "recheck"} : Goes(r, from, to)
    BY <2>1
  <2>4. r \in InFlight /\ request' = [request EXCEPT ![r] = to] /\ to \in KeyStages
    BY <2>3 DEF Goes, InFlight, KeyStages
  <2>5. /\ OneServed' /\ request' \in [Requests -> KeyStages] /\ request'[r] = to
        /\ ~raced => \A q \in Requests : q # r => request'[q] \in {"new", "over", "lost"}
    BY <2>2, <2>4, OneGoesOn DEF KeyInv
  <2>6. errors \in Nat /\ (errors' = errors \/ errors' = errors + 1)
    BY <2>1 DEF KeyInv, KeyTyped
  <2>7. KeyTyped'
    BY <2>2, <2>5, <2>6 DEF KeyInv, KeyTyped
  <2>8. ExcusesLeft'
    <3>1. SUFFICES ASSUME ~raced, lapses = 0 PROVE ExcusesLeft'
      BY <2>2 DEF ExcusesLeft
    <3>2. CASE Goes(r, "lookup", "create") /\ ~Found /\ UNCHANGED errors
      BY <2>2, <2>5, <3>1, <3>2 DEF KeyInv, KeyTyped, ExcusesLeft, Excuses, Found, Goes
    <3>3. CASE /\ Goes(r, "recheck", "run") /\ UNCHANGED errors
               /\ Found => record.status = "processing"
      BY <2>2, <2>5, <3>1, <3>3 DEF KeyInv, KeyTyped, ExcusesLeft, Excuses, Found, Goes
    <3>4. CASE /\ Goes(r, "lookup", "bare") \/ Goes(r, "recheck", "bare")
               /\ errors' = errors + 1
      <4>1. Excuses' = Excuses + 1 /\ Excuses \in Int
        BY <2>2, <3>4 DEF KeyInv, KeyTyped, Excuses
      <4>2. request'[r] = "bare"
        BY <2>4, <2>5, <3>4 DEF Goes, KeyInv, KeyTyped
      <4>3. ~record.expired /\ Excuses >= Kept(record.status) /\ Kept(record.status) \in Int
        BY <3>1 DEF KeyInv, ExcusesLeft, Kept
      <4> QED BY <2>2, <2>5, <3>1, <4>1, <4>2, <4>3 DEF ExcusesLeft
    <3> QED BY <2>1, <3>2, <3>3, <3>4
  <2>9. RepeatsExcused'
    BY <2>2, <2>6 DEF KeyInv, KeyTyped, RepeatsExcused
  <2>11. ReplayIsOwn'
    BY <2>2 DEF KeyInv, ReplayIsOwn
  <2>10. ResponseFits'
    BY <2>1, <2>2, <2>5 DEF KeyInv, KeyTyped, ResponseFits, Found, Goes
  <2> QED BY <2>5, <2>7, <2>8, <2>9, <2>10, <2>11 DEF KeyInv
<1> QED BY <1>1, <1>2

\* A record is inserted where there is none.
LEMMA CreateStep ==
  ASSUME KeyInv, NEW r \in Requests, CreateRecord(r)
  PROVE  KeyInv'
<1>1. /\ UNCHANGED <<answer, done, erred, raced, lapses>>
      /\ \/ /\ Goes(r, "create", "recheck") /\ UNCHANGED errors
            /\ record' = IF record.status # "none" THEN record
                         ELSE [NoRecord EXCEPT !.status = "processing", !.for = r]
         \/ Goes(r, "create", "bare") /\ errors' = errors + 1 /\ UNCHANGED record
  BY DEF CreateRecord, KeyStatementFails, historyVars
<1>2. PICK to \in {"recheck", "bare"} : Goes(r, "create", to)
  BY <1>1
<1>3. r \in InFlight /\ request' = [request EXCEPT ![r] = to] /\ to \in KeyStages
  BY <1>2 DEF Goes, InFlight, KeyStages
<1>4. /\ OneServed' /\ request' \in [Requests -> KeyStages] /\ request'[r] = to
      /\ ~raced => \A q \in Requests : q # r => request'[q] \in {"new", "over", "lost"}
  BY <1>1, <1>3, OneGoesOn DEF KeyInv
<1>5. errors' \in Nat /\ errors' >= errors
  BY <1>1 DEF KeyInv, KeyTyped
<1>6. record' \in Record
  BY <1>1 DEF KeyInv, KeyTyped, Record, NoRecord
<1>7. KeyTyped'
  BY <1>1, <1>4, <1>5, <1>6 DEF KeyInv, KeyTyped
<1>8. RepeatsExcused'
  BY <1>1, <1>5 DEF KeyInv, KeyTyped, RepeatsExcused
<1>9. ReplayIsOwn'
  BY <1>1 DEF KeyInv, ReplayIsOwn
<1>10. ~raced /\ lapses = 0 => record.status = "none" /\ Excuses >= 0 /\ Excuses \in Int
  <2>1. Excuses \in Int
    BY DEF KeyInv, KeyTyped, Excuses
  <2>2. ~raced /\ lapses = 0 => record.status = "none" /\ Excuses >= Kept(record.status)
    BY <1>2 DEF KeyInv, ExcusesLeft, Goes
  <2> QED BY <2>1, <2>2 DEF Kept
<1>11. ExcusesLeft'
  <2>1. SUFFICES ASSUME ~raced, lapses = 0 PROVE ExcusesLeft'
    BY <1>1 DEF ExcusesLeft
  <2>2. CASE Goes(r, "create", "recheck") /\ UNCHANGED errors /\ record'.status = "processing"
             /\ record'.expired = FALSE
    BY <1>1, <1>4, <1>10, <2>1, <2>2, Moved DEF KeyInv, KeyStages, ExcusesLeft, Excuses, Kept
  <2>3. CASE Goes(r, "create", "bare") /\ errors' = errors + 1 /\ UNCHANGED record
    <3>1. Excuses' \in Int /\ Excuses' >= 1
      BY <1>1, <1>10, <2>1, <2>3 DEF KeyInv, KeyTyped, Excuses
    <3>2. request'[r] = "bare" /\ record.status = "none" /\ ~record.expired
      BY <1>10, <2>1, <2>3, Moved DEF KeyInv, KeyStages, ExcusesLeft
    <3>3. ~raced' /\ \A q \in Requests : q # r => request'[q] \in {"new", "over", "lost"}
      BY <1>1, <1>4, <2>1
    <3>4. Excuses' >= Kept(record'.status) /\ Excuses' >= 1 + Kept(record'.status)
      BY <2>3, <3>1, <3>2 DEF Kept
    <3> QED BY <2>3, <3>2, <3>3, <3>4 DEF ExcusesLeft
  <2> QED BY <1>1, <1>10, <2>1, <2>2, <2>3 DEF NoRecord
<1>12. ResponseFits'
  BY <1>1, <1>4 DEF KeyInv, KeyTyped, ResponseFits, Found, NoRecord, Goes
<1> QED BY <1>4, <1>11, <1>12, <1>7, <1>8, <1>9 DEF KeyInv

\* A record that failed is dropped, whatever it is by now.
LEMMA DropStep ==
  ASSUME KeyInv, NEW r \in Requests, DropRecord(r)
  PROVE  KeyInv'
<1>1. /\ UNCHANGED <<answer, done, erred, raced, lapses>> /\ Goes(r, "drop", "bare")
      /\ \/ record' = NoRecord /\ UNCHANGED errors
         \/ errors' = errors + 1 /\ UNCHANGED record
  BY DEF DropRecord, KeyStatementFails, historyVars
<1>2. r \in InFlight /\ request' = [request EXCEPT ![r] = "bare"] /\ "bare" \in KeyStages
  BY <1>1 DEF Goes, InFlight, KeyStages
<1>3. /\ OneServed' /\ request' \in [Requests -> KeyStages] /\ request'[r] = "bare"
      /\ ~raced => \A q \in Requests : q # r => request'[q] \in {"new", "over", "lost"}
  BY <1>1, <1>2, OneGoesOn DEF KeyInv
<1>4. errors \in Nat /\ (errors' = errors \/ errors' = errors + 1)
  BY <1>1 DEF KeyInv, KeyTyped
<1>5. record' \in Record
  <2>1. NoRecord \in Record
    BY DEF NoRecord, Record
  <2> QED BY <1>1, <2>1 DEF KeyInv, KeyTyped
<1>6. KeyTyped'
  <2>1. errors' \in Nat
    BY <1>4
  <2>2. UNCHANGED <<answer, done, erred, raced, lapses>>
    BY <1>1
  <2> QED BY <1>3, <1>5, <2>1, <2>2 DEF KeyInv, KeyTyped
<1>7. RepeatsExcused'
  BY <1>1, <1>4 DEF KeyInv, KeyTyped, RepeatsExcused
<1>8. ReplayIsOwn'
  BY <1>1 DEF KeyInv, ReplayIsOwn
<1>9. ExcusesLeft'
  <2>1. SUFFICES ASSUME ~raced, lapses = 0 PROVE ExcusesLeft'
    BY <1>1 DEF ExcusesLeft
  <2>2. Excuses \in Int /\ Excuses >= 1 /\ record.status = "failed" /\ ~record.expired
    BY <1>1, <2>1 DEF KeyInv, KeyTyped, ExcusesLeft, Excuses, Goes, Kept
  <2>3. Excuses' >= Kept(record'.status) /\ Excuses' >= 1 + Kept(record'.status)
        /\ ~record'.expired
    <3>1. CASE record' = NoRecord /\ UNCHANGED errors
      <4>1. Excuses' = Excuses
        BY <1>1, <3>1 DEF Excuses
      <4> QED BY <2>2, <3>1, <4>1 DEF Kept, NoRecord
    <3>2. CASE errors' = errors + 1 /\ UNCHANGED record
      <4>1. Excuses' = Excuses + 1
        BY <1>1, <3>2 DEF KeyInv, KeyTyped, Excuses
      <4> QED BY <2>2, <3>2, <4>1 DEF Kept
    <3> QED BY <1>1, <3>1, <3>2
  <2> QED BY <1>1, <1>3, <2>1, <2>3 DEF ExcusesLeft
<1>10. ResponseFits'
  BY <1>1, <1>3 DEF KeyInv, KeyTyped, ResponseFits, Found, NoRecord, Goes
<1> QED BY <1>3, <1>6, <1>7, <1>8, <1>9, <1>10 DEF KeyInv

\* The handler runs, and spends an excuse or earns one.
LEMMA RunStep ==
  ASSUME KeyInv, NEW r \in Requests, RunHandler(r)
  PROVE  KeyInv'
<1>1. /\ UNCHANGED <<record, raced, errors, lapses>> /\ answer' = [answer EXCEPT ![r] = "own"]
      /\ \/ /\ done' = done + 1 /\ UNCHANGED erred
            /\ Goes(r, "run", "succeeded") \/ Goes(r, "bare", "over")
         \/ /\ erred' = erred + 1 /\ UNCHANGED done
            /\ Goes(r, "run", "failed") \/ Goes(r, "bare", "over")
  BY DEF RunHandler
<1>2. PICK to \in {"succeeded", "failed", "over"} : Goes(r, "run", to) \/ Goes(r, "bare", to)
  BY <1>1
<1>3. r \in InFlight /\ request' = [request EXCEPT ![r] = to] /\ to \in KeyStages
  BY <1>2 DEF Goes, InFlight, KeyStages
<1>4. /\ OneServed' /\ request' \in [Requests -> KeyStages] /\ request'[r] = to
      /\ ~raced => \A q \in Requests : q # r => request'[q] \in {"new", "over", "lost"}
  BY <1>1, <1>3, OneGoesOn DEF KeyInv
<1>5. KeyTyped'
  <2>1. done' \in Nat /\ erred' \in Nat
    BY <1>1 DEF KeyInv, KeyTyped
  <2>2. answer' \in [Requests -> Answers \union Requests \union {NoRequest}]
    BY <1>1 DEF KeyInv, KeyTyped, Answers
  <2> QED BY <1>1, <1>4, <2>1, <2>2 DEF KeyInv, KeyTyped
<1>6. ReplayIsOwn'
  BY <1>1, KeyAssumption DEF KeyInv, KeyTyped, ReplayIsOwn
<1>7. ExcusesLeft' /\ RepeatsExcused'
  <2>1. SUFFICES ASSUME ~raced, lapses = 0 PROVE ExcusesLeft' /\ RepeatsExcused'
    BY <1>1 DEF ExcusesLeft, RepeatsExcused
  <2>2. /\ Excuses \in Int /\ Excuses >= Kept(record.status) /\ Kept(record.status) \in {-1, 0, 1}
        /\ ~record.expired
        /\ request[r] = "run" => record.status = "processing" /\ Excuses >= 0
        /\ request[r] = "bare" => Excuses >= 1 + Kept(record.status)
    BY <2>1 DEF KeyInv, KeyTyped, ExcusesLeft, Excuses, Kept
  <2>3. request' = [request EXCEPT ![r] = to] /\ request'[r] = to
    BY <1>3, <1>4
  <2>4. CASE /\ done' = done + 1 /\ UNCHANGED erred
             /\ Goes(r, "run", "succeeded") \/ Goes(r, "bare", "over")
    <3>1. Excuses' = Excuses - 1
      BY <1>1, <2>4 DEF KeyInv, KeyTyped, Excuses
    <3>2. Excuses >= 0 /\ Excuses >= 1 + Kept(record.status)
      BY <2>2, <2>4 DEF Goes, Kept
    <3>3. Excuses' >= Kept(record.status) /\ Excuses' >= -1
      BY <2>2, <3>1, <3>2
    <3>4. to # "failed" /\ (to = "succeeded" => record.status = "processing")
      BY <2>2, <2>3, <2>4, Moved DEF Goes, KeyInv, KeyTyped, KeyStages
    <3>5. RepeatsExcused'
      BY <1>1, <3>3, <2>4 DEF KeyInv, KeyTyped, Excuses, RepeatsExcused
    <3> QED BY <1>1, <1>2, <1>4, <2>1, <2>2, <3>3, <3>4, <3>5 DEF ExcusesLeft
  <2>5. CASE /\ erred' = erred + 1 /\ UNCHANGED done
             /\ Goes(r, "run", "failed") \/ Goes(r, "bare", "over")
    <3>1. Excuses' = Excuses + 1
      BY <1>1, <2>5 DEF KeyInv, KeyTyped, Excuses
    <3>2. Excuses' >= Kept(record.status)
      BY <2>2, <3>1
    <3>3. to # "succeeded" /\ (to = "failed" => request[r] = "run")
      BY <2>3, <2>5, Moved DEF Goes, KeyInv, KeyTyped, KeyStages
    <3>5. request[r] = "run" => record.status = "processing" /\ Excuses' >= 1
      BY <2>2, <3>1
    <3>4. RepeatsExcused'
      BY <1>1, <2>5 DEF KeyInv, KeyTyped, RepeatsExcused
    <3> QED BY <1>1, <1>2, <1>4, <2>1, <2>2, <3>2, <3>3, <3>4, <3>5 DEF ExcusesLeft
  <2> QED BY <1>1, <2>4, <2>5
<1>8. ResponseFits'
  BY <1>1, <1>2, <1>4 DEF KeyInv, KeyTyped, ResponseFits, Found, Goes
<1> QED BY <1>4, <1>5, <1>6, <1>7, <1>8 DEF KeyInv

\* The result is stored in the row of the key, whoever inserted it.
LEMMA UpdateStep ==
  ASSUME KeyInv, NEW r \in Requests, UpdateRecord(r)
  PROVE  KeyInv'
<1>1. /\ UNCHANGED <<answer, done, erred, raced, lapses>>
      /\ Goes(r, "succeeded", "over") \/ Goes(r, "failed", "over")
      /\ \/ /\ UNCHANGED errors
            /\ record' = IF record.status = "none" THEN record
                         ELSE [record EXCEPT !.response = r,
                                 !.status = IF request[r] = "succeeded" THEN "completed"
                                            ELSE "failed"]
         \/ errors' = errors + 1 /\ UNCHANGED record
  BY DEF UpdateRecord, KeyStatementFails, historyVars
<1>2. /\ r \in InFlight /\ request' = [request EXCEPT ![r] = "over"] /\ "over" \in KeyStages
      /\ request[r] \in {"succeeded", "failed"}
  BY <1>1 DEF Goes, InFlight, KeyStages
<1>3. /\ OneServed' /\ request' \in [Requests -> KeyStages] /\ request'[r] = "over"
      /\ ~raced => \A q \in Requests : q # r => request'[q] \in {"new", "over", "lost"}
  BY <1>1, <1>2, OneGoesOn DEF KeyInv
<1>4. errors \in Nat /\ (errors' = errors \/ errors' = errors + 1)
  BY <1>1 DEF KeyInv, KeyTyped
<1>5. record' \in Record
  BY <1>1 DEF KeyInv, KeyTyped, Record
<1>6. KeyTyped'
  <2>1. errors' \in Nat
    BY <1>4
  <2> QED BY <1>1, <1>3, <1>5, <2>1 DEF KeyInv, KeyTyped
<1>7. RepeatsExcused'
  BY <1>1, <1>4 DEF KeyInv, KeyTyped, RepeatsExcused
<1>8. ReplayIsOwn'
  BY <1>1 DEF KeyInv, ReplayIsOwn
<1>9. ExcusesLeft'
  <2>1. SUFFICES ASSUME ~raced, lapses = 0 PROVE ExcusesLeft'
    BY <1>1 DEF ExcusesLeft
  <2>2. /\ Excuses \in Int /\ Excuses >= -1 /\ record.status = "processing" /\ ~record.expired
        /\ request[r] = "failed" => Excuses >= 1
    BY <1>2, <2>1 DEF KeyInv, KeyTyped, ExcusesLeft, Excuses, Kept
  <2>3. Excuses' >= Kept(record'.status) /\ ~record'.expired
    <3>1. CASE UNCHANGED errors /\ record'.expired = record.expired
               /\ record'.status = IF request[r] = "succeeded" THEN "completed" ELSE "failed"
      <4>1. Excuses' = Excuses
        BY <1>1, <3>1 DEF Excuses
      <4> QED BY <1>2, <2>2, <3>1, <4>1 DEF Kept
    <3>2. CASE errors' = errors + 1 /\ UNCHANGED record
      <4>1. Excuses' = Excuses + 1
        BY <1>1, <3>2 DEF KeyInv, KeyTyped, Excuses
      <4> QED BY <2>2, <3>2, <4>1 DEF Kept
    <3> QED BY <1>1, <2>2, <3>1, <3>2 DEF KeyInv, KeyTyped, Record
  <2> QED BY <1>1, <1>3, <2>1, <2>3 DEF ExcusesLeft
<1>10. ResponseFits'
  <2>1. SUFFICES ASSUME ~raced PROVE ResponseFits'
    BY <1>1 DEF ResponseFits
  <2>2. Found => record.status = "processing" /\ record.for = r
    BY <1>2, <2>1 DEF KeyInv, ResponseFits
  <2>3. record'.status \in {"completed", "failed"} /\ ~record'.expired =>
          record'.response \in Requests /\ Content[record'.response] = Content[record'.for]
    BY <1>1, <2>2 DEF KeyInv, KeyTyped, Record, Found
  <2> QED BY <1>3, <2>1, <2>3 DEF ResponseFits
<1> QED BY <1>3, <1>6, <1>7, <1>8, <1>9, <1>10 DEF KeyInv

\* The record expires or is cleaned up, or the server ends.
LEMMA KeyRest ==
  ASSUME KeyInv, RecordExpires \/ CleanupExpiredKeys \/ ServerEnds
  PROVE  KeyInv'
<1>1. CASE RecordExpires
  <2>1. record' \in Record
    BY <1>1 DEF KeyInv, KeyTyped, RecordExpires, Record
  <2>2. lapses' \in Nat /\ lapses' # 0
    BY <1>1 DEF KeyInv, KeyTyped, RecordExpires
  <2>3. KeyTyped'
    BY <1>1, <2>1, <2>2 DEF KeyInv, KeyTyped, RecordExpires, historyVars
  <2>4. OneServed' /\ ExcusesLeft' /\ RepeatsExcused' /\ ReplayIsOwn'
    BY <1>1, <2>2 DEF KeyInv, RecordExpires, historyVars, OneServed, InFlight, ExcusesLeft,
       RepeatsExcused, ReplayIsOwn
  <2>5. ResponseFits'
    BY <1>1 DEF KeyInv, KeyTyped, Record, RecordExpires, historyVars, InFlight, ResponseFits, Found
  <2> QED BY <2>3, <2>4, <2>5 DEF KeyInv
<1>2. CASE CleanupExpiredKeys
  <2>1. KeyTyped'
    BY <1>2 DEF KeyInv, KeyTyped, CleanupExpiredKeys, Record, NoRecord, historyVars
  <2>2. OneServed' /\ RepeatsExcused' /\ ReplayIsOwn'
    BY <1>2 DEF KeyInv, CleanupExpiredKeys, historyVars, OneServed, InFlight,
       RepeatsExcused, ReplayIsOwn
  <2>3. ExcusesLeft'
    BY <1>2 DEF KeyInv, CleanupExpiredKeys, historyVars, ExcusesLeft
  <2>4. ResponseFits'
    BY <1>2 DEF KeyInv, CleanupExpiredKeys, historyVars, ResponseFits, NoRecord, Found
  <2> QED BY <2>1, <2>2, <2>3, <2>4 DEF KeyInv
<1>3. CASE ServerEnds
  <2>1. /\ UNCHANGED <<record, answer, done, erred, raced, errors, lapses>>
        /\ \A r \in Requests : request'[r] \in {"new", "over", "lost"}
    BY <1>3 DEF ServerEnds, InFlight, historyVars
  <2>2. request' \in [Requests -> KeyStages]
    BY <1>3 DEF ServerEnds, KeyInv, KeyTyped, KeyStages
  <2>3. KeyTyped' /\ OneServed'
    BY <2>1, <2>2 DEF KeyInv, KeyTyped, OneServed, InFlight
  <2>4. ExcusesLeft' /\ RepeatsExcused'
    BY <2>1 DEF KeyInv, ExcusesLeft, Excuses, RepeatsExcused
  <2>5. ResponseFits' /\ ReplayIsOwn'
    BY <2>1 DEF KeyInv, ResponseFits, Found, ReplayIsOwn
  <2> QED BY <2>3, <2>4, <2>5 DEF KeyInv
<1> QED BY <1>1, <1>2, <1>3

\* Every step of the requests that carry the key preserves the invariant.
LEMMA KeySteps == KeyInv /\ [KeyNext]_keyVars => KeyInv'
<1>1. ASSUME KeyInv, KeyNext PROVE KeyInv'
  BY <1>1, SendStep, KeyLookupStep, CreateStep, DropStep, RunStep, UpdateStep, KeyRest DEF KeyNext
<1>2. ASSUME KeyInv, UNCHANGED keyVars PROVE KeyInv'
  BY <1>2 DEF keyVars, historyVars, KeyInv, KeyTyped, OneServed, InFlight, ExcusesLeft, Excuses,
     ResponseFits, Found, RepeatsExcused, ReplayIsOwn
<1> QED BY <1>1, <1>2

\* However requests with the key fail, are lost and are repeated, one at a time and before
\* the record expires, the operation succeeds once, and once more for each failure at most.
THEOREM RetriesExcused == KeySpec => []RepeatsExcused
<1>1. KeyInv => RepeatsExcused
  BY DEF KeyInv
<1> QED BY KeyStarts, KeySteps, <1>1, PTL DEF KeySpec

\* As long as requests with the key do not overlap, a replayed response is that of a
\* request with the same content.
THEOREM RepliesOwn == KeySpec => []ReplayIsOwn
<1>1. KeyInv => ReplayIsOwn
  BY DEF KeyInv
<1> QED BY KeyStarts, KeySteps, <1>1, PTL DEF KeySpec

(***************************************************************************)
(* ChunkedUpload: what was answered is stored, and no reservation is left. *)
(***************************************************************************)

PutStages == {"new", "loaded", "writing", "stored", "failed", "refused"}
CompletionStages == Ended \union {"authorize", "assemble", "copy", "clean", "store", "undo"}
UploadTyped ==
    /\ completion \in [Completions -> CompletionStages] /\ put \in [Puts -> PutStages]
    /\ chunk \in [Chunks -> {"none", "begun", "short", "holed", "whole"}]
    /\ overlapped \subseteq Chunks /\ reserved \subseteq Completions
    /\ directory \in BOOLEAN /\ crossed \in BOOLEAN /\ answered \in BOOLEAN

\* A chunk with a hole was written by two requests at the same time.
HolesOverlap ==
    /\ \A i \in Chunks : chunk[i] = "holed" => i \in overlapped
    /\ \A p, r \in Puts : p # r /\ put[p] = "writing" /\ put[r] = "writing"
         /\ ChunkOf[p] = ChunkOf[r] => ChunkOf[p] \in overlapped

\* A placeholder is the reservation of a completion that runs.
ReservedRuns ==
    /\ \A q \in Completions : completion[q] \in {"new", "refused", "authorize"} => q \notin reserved
    /\ objectRow = "placeholder" => reserved \intersect Running # {}

Copied == file = "new" \/ (file = "holed" /\ overlapped # {})

\* As long as no completion is crossed there is one at most, and the row and the file
\* are as it has left them.
Uncrossed ==
    ~crossed =>
      /\ \A p, q \in Running : p = q
      /\ Running = {} => (objectRow = "none" => file = "none")
      /\ answered => Running = {} /\ objectRow = "new" /\ Copied
      /\ \A q \in Completions :
           /\ completion[q] = "authorize" => (objectRow = "none" => file = "none")
           /\ completion[q] \in {"assemble", "copy", "clean", "store", "undo"} =>
                objectRow # "none" /\ (objectRow = "placeholder" => q \in reserved)
           /\ completion[q] = "copy" => file = "begun"
           /\ completion[q] \in {"clean", "store"} => Copied

UploadInv ==
    /\ UploadTyped /\ HolesOverlap /\ ReservedRuns /\ Uncrossed
    /\ answered => ~directory
    /\ \A q \in Completions : completion[q] = "store" => ~directory

\* Initially nothing was uploaded.
LEMMA UploadStarts == ChunkedInit => UploadInv
<1> SUFFICES ASSUME ChunkedInit PROVE UploadInv
  OBVIOUS
<1>1. UploadTyped /\ HolesOverlap
  BY DEF ChunkedInit, UploadTyped, HolesOverlap, PutStages, CompletionStages, Ended
<1>2. Running = {}
  BY DEF ChunkedInit, Running, Ended
<1>3. ReservedRuns /\ Uncrossed /\ ~answered
  BY <1>2 DEF ChunkedInit, ReservedRuns, Uncrossed
<1> QED BY <1>1, <1>3 DEF UploadInv, ChunkedInit

\* A request for a chunk: what was written at the same time overlaps.
LEMMA PutStep ==
  ASSUME UploadInv, NEW p \in Puts,
         LoadForPut(p) \/ CreateChunk(p) \/ WriteChunk(p) \/ WriteChunkFails(p)
  PROVE  UploadInv'
<1>1. /\ UNCHANGED <<directory, file, objectRow, completion, reserved, crossed, answered>>
      /\ overlapped \subseteq overlapped'
  BY DEF LoadForPut, CreateChunk, WriteChunk, WriteChunkFails, fileVars, objectVars
<1>2. ChunkOf[p] \in Chunks
  BY DEF Chunks
<1>3. PICK to \in PutStages : put' = [put EXCEPT ![p] = to]
  BY DEF LoadForPut, CreateChunk, WriteChunk, WriteChunkFails, PutTo, PutStages
<1>4. put' \in [Puts -> PutStages] /\ put'[p] = to /\ \A r \in Puts : r # p => put'[r] = put[r]
  BY <1>3 DEF UploadInv, UploadTyped
<1>5. chunk' \in [Chunks -> {"none", "begun", "short", "holed", "whole"}]
  BY <1>2 DEF UploadInv, UploadTyped, LoadForPut, CreateChunk, WriteChunk, WriteChunkFails, fileVars
<1>6. overlapped' \subseteq Chunks
  BY <1>2 DEF UploadInv, UploadTyped, LoadForPut, CreateChunk, WriteChunk, WriteChunkFails
<1>7. HolesOverlap'
  <2>1. CASE LoadForPut(p) \/ WriteChunkFails(p)
    BY <1>2, <1>4, <2>1 DEF UploadInv, UploadTyped, HolesOverlap, LoadForPut, WriteChunkFails,
       fileVars, PutTo
  <2>2. CASE CreateChunk(p)
    BY <1>2, <1>4, <2>2 DEF UploadInv, UploadTyped, HolesOverlap, CreateChunk, Writers, PutTo
  <2>3. CASE WriteChunk(p)
    <3>1. put[p] = "writing" /\ put'[p] = "stored" /\ UNCHANGED overlapped
      BY <1>4, <2>3 DEF WriteChunk, PutTo, UploadInv, UploadTyped
    <3>2. Writers(ChunkOf[p]) # {p} => ChunkOf[p] \in overlapped
      BY <3>1 DEF UploadInv, HolesOverlap, Writers
    <3>3. \A i \in Chunks : chunk'[i] = "holed" => i \in overlapped
      BY <1>2, <2>3, <3>2 DEF WriteChunk, UploadInv, UploadTyped, HolesOverlap
    <3> QED BY <1>4, <3>1, <3>3 DEF UploadInv, HolesOverlap
  <2> QED BY <2>1, <2>2, <2>3
<1>8. UploadTyped'
  BY <1>1, <1>4, <1>5, <1>6 DEF UploadInv, UploadTyped
<1>9. ReservedRuns' /\ Uncrossed' /\ (answered => ~directory)'
  BY <1>1 DEF UploadInv, ReservedRuns, Uncrossed, Running, Copied
<1> QED BY <1>1, <1>7, <1>8, <1>9 DEF UploadInv

\* A completion goes on, and what the others are doing stays.
LEMMA Completes ==
  ASSUME UploadInv, NEW q \in Completions, NEW from, NEW to \in CompletionStages,
         Completing(q, from, to)
  PROVE  /\ completion[q] = from /\ completion'[q] = to
         /\ completion' \in [Completions -> CompletionStages]
         /\ \A r \in Completions : r # q => completion'[r] = completion[r]
         /\ Running' = IF to \in Ended THEN Running \ {q} ELSE Running \union {q}
<1>1. /\ completion[q] = from /\ completion'[q] = to
      /\ completion' \in [Completions -> CompletionStages]
      /\ \A r \in Completions : r # q => completion'[r] = completion[r]
  BY DEF Completing, UploadInv, UploadTyped
<1> QED BY <1>1 DEF Running

\* A completion is let in, alone or crossing another.
LEMMA LoadStep ==
  ASSUME UploadInv, NEW q \in Completions, LoadForCompletion(q)
  PROVE  UploadInv'
<1>1. /\ UNCHANGED <<directory, active, chunk, file, objectRow, put, reserved, overlapped, answered>>
      /\ crossed' = (crossed \/ (completion'[q] = "authorize" /\ Running # {}))
  BY DEF LoadForCompletion, fileVars, objectVars
<1>2. PICK to \in {"authorize", "refused"} : Completing(q, "new", to) /\ (to = "authorize" => directory)
  BY DEF LoadForCompletion
<1>3. to \in CompletionStages
  BY DEF CompletionStages, Ended
<1>4. /\ completion[q] = "new" /\ completion'[q] = to
      /\ completion' \in [Completions -> CompletionStages]
      /\ \A r \in Completions : r # q => completion'[r] = completion[r]
      /\ Running' = IF to \in Ended THEN Running \ {q} ELSE Running \union {q}
  BY <1>2, <1>3, Completes
<1>5. UploadTyped' /\ HolesOverlap'
  BY <1>1, <1>4 DEF UploadInv, UploadTyped, HolesOverlap
<1>6. q \notin Running
  BY <1>4 DEF Running, Ended
<1>7. ReservedRuns' /\ (answered => ~directory)'
  BY <1>1, <1>4, <1>6 DEF UploadInv, ReservedRuns, Ended
<1>8. Uncrossed'
  <2>1. CASE to = "refused"
    <3>1. Running' = Running /\ crossed' = crossed
      BY <1>1, <1>4, <1>6, <2>1 DEF UploadInv, UploadTyped, Ended
    <3> QED BY <1>1, <1>4, <2>1, <3>1 DEF UploadInv, Uncrossed, Copied
  <2>2. CASE to = "authorize"
    <3>1. SUFFICES ASSUME ~crossed' PROVE Uncrossed'
      BY DEF Uncrossed
    <3>2. ~crossed /\ Running = {} /\ Running' = {q} /\ ~answered
      BY <1>1, <1>2, <1>4, <2>2, <3>1 DEF UploadInv, Ended
    <3>3. \A r \in Completions : r # q => completion'[r] \in Ended
      BY <1>4, <3>2 DEF Running
    <3> QED BY <1>1, <1>4, <2>2, <3>2, <3>3 DEF UploadInv, Uncrossed, Ended
  <2> QED BY <1>2, <2>1, <2>2
<1> QED BY <1>1, <1>2, <1>4, <1>5, <1>7, <1>8 DEF UploadInv

\* A completion that runs does its next step, alone unless completions are crossed.
LEMMA RunningStep ==
  ASSUME UploadInv, NEW q \in Completions, NEW from \in CompletionStages \ Ended,
         NEW to \in CompletionStages \ {"new", "refused", "authorize"}, Completing(q, from, to),
         UNCHANGED <<put, overlapped, crossed>>,
         chunk' \in [Chunks -> {"none", "begun", "short", "holed", "whole"}],
         \A i \in Chunks : chunk'[i] \in {chunk[i], "none"},
         directory' \in BOOLEAN, directory' => directory, to = "store" => ~directory',
         answered' \in BOOLEAN, answered' => answered \/ ~directory',
         reserved' \subseteq Completions, reserved \subseteq reserved',
         reserved' \subseteq reserved \union {q},
         objectRow' = "placeholder" =>
           \/ objectRow = "placeholder" /\ (to \in Ended => q \notin reserved)
           \/ q \in reserved' /\ to \notin Ended,
         ~crossed =>
           /\ to \notin Ended => /\ objectRow' # "none" /\ (objectRow' = "placeholder" => q \in reserved')
                                 /\ to = "copy" => file' = "begun"
                                 /\ to \in {"clean", "store"} => Copied'
                                 /\ answered' = answered
           /\ to \in Ended => /\ objectRow' = "none" => file' = "none"
                              /\ answered' => objectRow' = "new" /\ Copied'
  PROVE  UploadInv'
<1>1. /\ completion[q] = from /\ completion'[q] = to
      /\ completion' \in [Completions -> CompletionStages]
      /\ \A r \in Completions : r # q => completion'[r] = completion[r]
      /\ Running' = IF to \in Ended THEN Running \ {q} ELSE Running \union {q}
      /\ q \in Running
  BY Completes DEF Running
<1>2. UploadTyped'
  BY <1>1 DEF UploadInv, UploadTyped
<1>3. HolesOverlap'
  BY DEF UploadInv, UploadTyped, HolesOverlap
<1>4. (answered => ~directory)'
  BY DEF UploadInv
<1>5. ReservedRuns'
  <2>1. \A r \in Completions : completion'[r] \in {"new", "refused", "authorize"} => r \notin reserved'
    BY <1>1 DEF UploadInv, ReservedRuns
  <2>2. objectRow' = "placeholder" => reserved' \intersect Running' # {}
    <3>1. CASE q \in reserved' /\ to \notin Ended
      BY <1>1, <3>1
    <3>2. CASE objectRow = "placeholder" /\ (to \in Ended => q \notin reserved)
      <4>1. PICK r \in reserved : r \in Running
        BY <3>2 DEF UploadInv, ReservedRuns
      <4> QED BY <1>1, <3>2, <4>1
    <3> QED BY <3>1, <3>2
  <2> QED BY <2>1, <2>2 DEF ReservedRuns
<1>6. Uncrossed'
  <2>1. SUFFICES ASSUME ~crossed PROVE Uncrossed'
    BY DEF Uncrossed
  <2>2. Running = {q} /\ \A r \in Completions : r # q => completion'[r] \in Ended
    BY <1>1, <2>1 DEF UploadInv, Uncrossed, Running
  <2>3. CASE to \in Ended
    <3>1. Running' = {} /\ \A r \in Completions : completion'[r] \in Ended
      BY <1>1, <2>2, <2>3
    <3>2. /\ objectRow' = "none" => file' = "none"
          /\ answered' => objectRow' = "new" /\ Copied'
      BY <2>1, <2>3 DEF Copied
    <3> QED BY <3>1, <3>2 DEF Uncrossed, Ended
  <2>4. CASE to \notin Ended
    <3>1. ~answered
      BY <2>1, <2>2 DEF UploadInv, Uncrossed
    <3>2. Running' = {q}
      BY <1>1, <2>2, <2>4
    <3>3. /\ objectRow' # "none" /\ (objectRow' = "placeholder" => q \in reserved')
          /\ to = "copy" => file' = "begun"
          /\ to \in {"clean", "store"} => Copied'
          /\ ~answered'
      BY <2>1, <2>4, <3>1 DEF Copied
    <3> QED BY <1>1, <2>2, <3>2, <3>3 DEF Uncrossed, Ended
  <2> QED BY <2>3, <2>4
<1>7. \A r \in Completions : completion'[r] = "store" => ~directory'
  BY <1>1 DEF UploadInv
<1> QED BY <1>2, <1>3, <1>4, <1>5, <1>6, <1>7 DEF UploadInv

\* The steps of a completion that was let in.
LEMMA CompletionStep ==
  ASSUME UploadInv, NEW q \in Completions,
         \/ AuthorizeUploadWrite(q) \/ CreateObject(q) \/ CopyChunks(q) \/ CleanUp(q)
         \/ StoreUploadedObject(q) \/ StoreUploadedObjectFails(q) \/ Undo(q)
  PROVE  UploadInv'
<1> USE DEF fileVars, objectVars, CompletionStages, Ended
<1>1. CASE AuthorizeUploadWrite(q)
  <2>1. q \notin reserved
    BY <1>1 DEF AuthorizeUploadWrite, Completing, UploadInv, ReservedRuns
  <2>2. ~crossed => objectRow # "placeholder"
    BY <1>1, <2>1 DEF AuthorizeUploadWrite, Completing, UploadInv, ReservedRuns, Uncrossed, Running
  <2>3. CASE objectRow = "none"
    BY <1>1, <2>1, <2>3, RunningStep DEF AuthorizeUploadWrite, UploadInv, UploadTyped
  <2>4. CASE objectRow # "none"
    BY <1>1, <2>1, <2>2, <2>4, RunningStep DEF AuthorizeUploadWrite, UploadInv, UploadTyped
  <2> QED BY <2>3, <2>4
<1>2. CASE CreateObject(q)
  <2>1. /\ completion[q] = "assemble"
        /\ ~crossed => objectRow # "none" /\ (objectRow = "placeholder" => q \in reserved)
    BY <1>2 DEF CreateObject, Completing, UploadInv, Uncrossed
  <2>2. CASE Stored = Chunks
    BY <1>2, <2>1, <2>2, RunningStep DEF CreateObject, UploadInv, UploadTyped
  <2>3. CASE Stored # Chunks
    BY <1>2, <2>1, <2>3, RunningStep DEF CreateObject, UploadInv, UploadTyped
  <2> QED BY <2>2, <2>3
<1>3. CASE CopyChunks(q)
  <2>1. /\ completion[q] = "copy"
        /\ ~crossed => /\ objectRow # "none" /\ (objectRow = "placeholder" => q \in reserved)
                       /\ file = "begun"
    BY <1>3 DEF CopyChunks, Completing, UploadInv, Uncrossed
  <2>2. CASE Assembled
    <3>1. ~crossed => Copied'
      BY <1>3, <2>1, <2>2 DEF CopyChunks, Assembled, Copied, UploadInv, HolesOverlap
    <3> QED BY <1>3, <2>1, <2>2, <3>1, RunningStep DEF CopyChunks, UploadInv, UploadTyped
  <2>3. CASE ~Assembled
    BY <1>3, <2>1, <2>3, RunningStep DEF CopyChunks, UploadInv, UploadTyped
  <2> QED BY <2>2, <2>3
<1>4. CASE CleanUp(q)
  <2>1. /\ completion[q] = "clean"
        /\ ~crossed => /\ objectRow # "none" /\ (objectRow = "placeholder" => q \in reserved)
                       /\ Copied
    BY <1>4 DEF CleanUp, Completing, UploadInv, Uncrossed
  <2>2. Copied' = Copied /\ chunk' \in [Chunks -> {"none", "begun", "short", "holed", "whole"}]
        /\ \A i \in Chunks : chunk'[i] \in {chunk[i], "none"}
    BY <1>4 DEF CleanUp, Copied, NoChunks
  <2>3. PICK to \in {"undo", "store"} : Completing(q, "clean", to)
    BY <1>4 DEF CleanUp
  <2> QED BY <1>4, <2>1, <2>2, <2>3, RunningStep DEF CleanUp, UploadInv, UploadTyped
<1>5. CASE StoreUploadedObject(q)
  <2>1. completion[q] = "store" /\ ~directory /\ (~crossed => Copied) /\ Copied' = Copied
    BY <1>5 DEF StoreUploadedObject, Completing, UploadInv, Uncrossed, Copied
  <2> QED BY <1>5, <2>1, RunningStep DEF StoreUploadedObject, UploadInv, UploadTyped
<1>6. CASE StoreUploadedObjectFails(q)
  <2>1. ~crossed => objectRow # "none" /\ (objectRow = "placeholder" => q \in reserved)
    BY <1>6 DEF StoreUploadedObjectFails, Completing, UploadInv, Uncrossed
  <2> QED BY <1>6, <2>1, RunningStep DEF StoreUploadedObjectFails, UploadInv, UploadTyped
<1>7. CASE Undo(q)
  <2>1. /\ completion[q] = "undo"
        /\ ~crossed => /\ objectRow # "none" /\ (objectRow = "placeholder" => q \in reserved)
                       /\ ~answered
    BY <1>7 DEF Undo, Completing, UploadInv, Uncrossed, Running
  <2> QED BY <1>7, <2>1, RunningStep DEF Undo, CleanupUploadPlaceholder, UploadInv, UploadTyped
<1> QED BY <1>1, <1>2, <1>3, <1>4, <1>5, <1>6, <1>7

\* The upload is aborted, under a completion or with none.
LEMMA AbortStep == UploadInv /\ AbortChunkedUpload => UploadInv'
<1> SUFFICES ASSUME UploadInv, AbortChunkedUpload PROVE UploadInv'
  OBVIOUS
<1>1. /\ UNCHANGED <<file, objectRow, put, completion, reserved, overlapped, answered>>
      /\ directory' = FALSE /\ chunk' = NoChunks /\ crossed' = (crossed \/ Running # {})
  BY DEF AbortChunkedUpload, objectVars
<1>2. UploadTyped' /\ HolesOverlap'
  BY <1>1 DEF UploadInv, UploadTyped, HolesOverlap, NoChunks
<1>3. Running' = Running
  BY <1>1 DEF Running
<1>4. ReservedRuns' /\ Uncrossed'
  BY <1>1, <1>3 DEF UploadInv, ReservedRuns, Uncrossed, Copied
<1> QED BY <1>1, <1>2, <1>4 DEF UploadInv

\* Every step preserves the invariant of the upload.
LEMMA UploadSteps == UploadInv /\ [ChunkedNext]_chunkedVars => UploadInv'
<1>1. ASSUME UploadInv, UNCHANGED chunkedVars PROVE UploadInv'
  BY <1>1 DEF chunkedVars, fileVars, objectVars, UploadInv, UploadTyped, HolesOverlap, ReservedRuns,
     Uncrossed, Running, Copied
<1> QED BY <1>1, PutStep, LoadStep, CompletionStep, AbortStep DEF ChunkedNext

\* A completion that was answered as successful has its object, whole unless two requests
\* wrote one chunk at the same time, as long as no completion was crossed.
THEOREM AnswerIsKept == ChunkedSpec => []AnsweredIsStored
<1>1. UploadInv => AnsweredIsStored
  BY DEF UploadInv, Uncrossed, Copied, AnsweredIsStored
<1> QED BY UploadStarts, UploadSteps, <1>1, PTL DEF ChunkedSpec

\* When no completion runs any more, none has left a placeholder behind; and unless
\* completions crossed, no bytes are left without a row.
THEOREM ReservationsEnd == ChunkedSpec => []NoReservationLeft
<1>1. UploadInv => NoReservationLeft
  BY DEF UploadInv, ReservedRuns, Uncrossed, NoReservationLeft
<1> QED BY UploadStarts, UploadSteps, <1>1, PTL DEF ChunkedSpec
=============================================================================
