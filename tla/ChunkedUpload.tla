--------------------------- MODULE ChunkedUpload ----------------------------
(***************************************************************************)
(* One chunked upload to the local storage (internal/api/                  *)
(* storage_chunked.go, internal/storage/local_chunked.go): requests that   *)
(* store chunks, complete or abort the upload, all at the same time, work  *)
(* on the session's directory, on the file of the object and on its row.   *)
(***************************************************************************)
EXTENDS Naturals, FiniteSets

CONSTANTS
    Puts, ChunkOf,      \* requests that store a chunk, and which one
    Completions,        \* requests that complete the upload
    MaxRowErrors        \* bound of the model: upserts of the row that fail

Chunks == {ChunkOf[p] : p \in Puts}

ASSUME ChunkAssumption == MaxRowErrors \in Nat

VARIABLES
    directory,  \* whether the session's directory exists
    active,     \* the Status of session.json is "active", not "completing"
    chunk,      \* the files of the chunks
    file,       \* the object's file: "none", "old", "begun", "holed" or "new"
    objectRow,  \* its row: "none", "placeholder", "old" or "new"
    put,        \* how far each request for a chunk is
    completion, \* how far each completion is
    reserved,   \* completions that inserted the placeholder
    rowErrors,
    overlapped, \* history: chunks that two requests wrote at the same time
    crossed,    \* history: two completions ran, or the upload was aborted under one
    answered    \* history: a completion reported success

fileVars == <<directory, active, chunk>>
objectVars == <<file, objectRow>>
chunkedVars == <<fileVars, objectVars, put, completion, reserved, rowErrors,
                 overlapped, crossed, answered>>

\* InitChunkedUpload made the directory; the object may exist already.
ChunkedInit ==
    /\ directory = TRUE /\ active = TRUE
    /\ chunk = [i \in Chunks |-> "none"]
    /\ \E old \in {"none", "old"} : file = old /\ objectRow = old
    /\ put = [p \in Puts |-> "new"]
    /\ completion = [q \in Completions |-> "new"]
    /\ reserved = {} /\ rowErrors = 0
    /\ overlapped = {} /\ crossed = FALSE /\ answered = FALSE

(***************************************************************************)
(* Storing a chunk.                                                        *)
(***************************************************************************)
Writers(i) == {p \in Puts : ChunkOf[p] = i /\ put[p] = "writing"}
PutTo(p, to) == put' = [put EXCEPT ![p] = to]

\* The session is read, and must be active.
LoadForPut(p) ==
    /\ put[p] = "new"
    /\ PutTo(p, IF directory /\ active THEN "loaded" ELSE "refused")
    /\ UNCHANGED <<fileVars, objectVars, completion, reserved, rowErrors, overlapped,
                   crossed, answered>>

\* os.Create makes the file or empties it.
CreateChunk(p) ==
    LET i == ChunkOf[p]
    IN  /\ put[p] = "loaded"
        /\ IF directory
           THEN /\ PutTo(p, "writing")
                /\ chunk' = [chunk EXCEPT ![i] = "begun"]
                /\ overlapped' = IF Writers(i) = {} THEN overlapped
                                 ELSE overlapped \union {i}
           ELSE PutTo(p, "refused") /\ UNCHANGED <<chunk, overlapped>>
        /\ UNCHANGED <<directory, active, objectVars, completion, reserved, rowErrors,
                       crossed, answered>>

\* io.Copy ends: with all bytes, or with fewer when the client sent fewer.  Another
\* request that has emptied the file since leaves a hole.  A file that was removed
\* meanwhile stays removed.  Then the session that was loaded is written back.
WriteChunk(p) ==
    LET i == ChunkOf[p]
    IN  /\ put[p] = "writing"
        /\ PutTo(p, "stored")
        /\ IF chunk[i] = "none" THEN UNCHANGED chunk
           ELSE \E size \in {"short", "holed", "whole"} :
                  /\ size = "holed" => Writers(i) # {p}
                  /\ chunk' = [chunk EXCEPT ![i] = size]
        /\ active' = IF directory THEN TRUE ELSE active
        /\ UNCHANGED <<directory, objectVars, completion, reserved, rowErrors,
                       overlapped, crossed, answered>>

\* The body cannot be read to its end: the file is removed.
WriteChunkFails(p) ==
    /\ put[p] = "writing"
    /\ PutTo(p, "failed")
    /\ chunk' = [chunk EXCEPT ![ChunkOf[p]] = "none"]
    /\ UNCHANGED <<directory, active, objectVars, completion, reserved, rowErrors,
                   overlapped, crossed, answered>>

(***************************************************************************)
(* Completing the upload.                                                  *)
(***************************************************************************)
Completing(q, from, to) ==
    completion[q] = from /\ completion' = [completion EXCEPT ![q] = to]

Ended == {"new", "refused", "done", "failed"}
Running == {q \in Completions : completion[q] \notin Ended}
Stored == {i \in Chunks : chunk[i] # "none"}
NoChunks == [i \in Chunks |-> "none"]

\* The session is read and its chunks are counted; its status is not looked at.
LoadForCompletion(q) ==
    /\ Completing(q, "new", IF directory /\ Stored = Chunks THEN "authorize" ELSE "refused")
    /\ crossed' = (crossed \/ (completion'[q] = "authorize" /\ Running # {}))
    /\ UNCHANGED <<fileVars, objectVars, put, reserved, rowErrors, overlapped, answered>>

\* AuthorizeUploadWrite reserves the path; then the session is marked "completing".
AuthorizeUploadWrite(q) ==
    /\ Completing(q, "authorize", "assemble")
    /\ objectRow' = IF objectRow = "none" THEN "placeholder" ELSE objectRow
    /\ reserved' = IF objectRow = "none" THEN reserved \union {q} ELSE reserved
    /\ active' = IF directory THEN FALSE ELSE active
    /\ UNCHANGED <<directory, chunk, file, put, rowErrors, overlapped, crossed, answered>>

\* All chunks exist: os.Create empties the object's file.
CreateObject(q) ==
    /\ IF Stored = Chunks
       THEN Completing(q, "assemble", "copy") /\ file' = "begun"
       ELSE Completing(q, "assemble", "undo") /\ UNCHANGED file
    /\ UNCHANGED <<fileVars, objectRow, put, reserved, rowErrors, overlapped, crossed,
                   answered>>

\* Mutant of Assembled: the chunks are not measured.
AssembledUnmeasured == Stored = Chunks

\* Every chunk can be opened and the sizes add up to TotalSize.
Assembled == \A i \in Chunks : chunk[i] \in {"holed", "whole"}

\* The chunks are copied one by one; a failure removes the object's file.
CopyChunks(q) ==
    /\ IF Assembled
       THEN /\ Completing(q, "copy", "clean")
            /\ file' = IF file = "none" THEN "none"
                       ELSE IF \E i \in Chunks : chunk[i] # "whole" THEN "holed" ELSE "new"
       ELSE Completing(q, "copy", "undo") /\ file' = "none"
    /\ UNCHANGED <<fileVars, objectRow, put, reserved, rowErrors, overlapped, crossed,
                   answered>>

\* os.RemoveAll of the directory; the object's file is looked up once more.
CleanUp(q) ==
    /\ Completing(q, "clean", IF file = "none" THEN "undo" ELSE "store")
    /\ directory' = FALSE
    /\ chunk' = NoChunks
    /\ UNCHANGED <<active, objectVars, put, reserved, rowErrors, overlapped, crossed,
                   answered>>

\* storeUploadedObject: the upsert of the row.
StoreUploadedObject(q) ==
    /\ Completing(q, "store", "done")
    /\ objectRow' = "new"
    /\ answered' = TRUE
    /\ UNCHANGED <<fileVars, file, put, reserved, rowErrors, overlapped, crossed>>

StoreUploadedObjectFails(q) ==
    /\ rowErrors < MaxRowErrors
    /\ Completing(q, "store", "undo")
    /\ rowErrors' = rowErrors + 1
    /\ UNCHANGED <<fileVars, objectVars, put, reserved, overlapped, crossed, answered>>

\* Mutant of CleanupUploadPlaceholder: only the bytes go.
CleanupBytesOnly(q) ==
    IF q \in reserved THEN file' = "none" /\ UNCHANGED objectRow ELSE UNCHANGED objectVars

\* The row and the bytes of a placeholder of this completion go.
CleanupUploadPlaceholder(q) ==
    IF q \in reserved THEN file' = "none" /\ objectRow' = "none" ELSE UNCHANGED objectVars

\* The completion failed: the session is active again.
Undo(q) ==
    /\ Completing(q, "undo", "failed")
    /\ CleanupUploadPlaceholder(q)
    /\ active' = IF directory THEN TRUE ELSE active
    /\ UNCHANGED <<directory, chunk, put, reserved, rowErrors, overlapped, crossed,
                   answered>>

\* AbortChunkedUpload of a client, or CleanupExpiredChunkedUploads.
AbortChunkedUpload ==
    /\ directory
    /\ directory' = FALSE
    /\ chunk' = NoChunks
    /\ crossed' = (crossed \/ Running # {})
    /\ UNCHANGED <<active, objectVars, put, completion, reserved, rowErrors, overlapped,
                   answered>>

ChunkedNext ==
    \/ \E p \in Puts :
         LoadForPut(p) \/ CreateChunk(p) \/ WriteChunk(p) \/ WriteChunkFails(p)
    \/ \E q \in Completions :
         \/ LoadForCompletion(q) \/ AuthorizeUploadWrite(q) \/ CreateObject(q)
         \/ CopyChunks(q) \/ CleanUp(q) \/ StoreUploadedObject(q)
         \/ StoreUploadedObjectFails(q) \/ Undo(q)
    \/ AbortChunkedUpload

ChunkedSpec == ChunkedInit /\ [][ChunkedNext]_chunkedVars

(***************************************************************************)
(* Properties.                                                             *)
(***************************************************************************)
ChunkedTypeOK ==
    /\ directory \in BOOLEAN /\ active \in BOOLEAN
    /\ chunk \in [Chunks -> {"none", "begun", "short", "holed", "whole"}]
    /\ file \in {"none", "old", "begun", "holed", "new"}
    /\ objectRow \in {"none", "placeholder", "old", "new"}
    /\ put \in [Puts -> {"new", "loaded", "writing", "stored", "failed", "refused"}]
    /\ completion \in [Completions -> Ended \union
         {"authorize", "assemble", "copy", "clean", "store", "undo"}]
    /\ reserved \subseteq Completions
    /\ rowErrors \in 0..MaxRowErrors
    /\ overlapped \subseteq Chunks /\ crossed \in BOOLEAN /\ answered \in BOOLEAN

\* An upload that was reported complete has its object, row and bytes, and the bytes
\* are those of its chunks: unless completions, or a completion and an abort,
\* crossed, or two requests wrote the same chunk at the same time.
AnsweredIsStored ==
    answered /\ ~crossed =>
      objectRow = "new" /\ (file = "new" \/ (file = "holed" /\ overlapped # {}))

\* When all completions have ended no reservation is left, whichever of them failed
\* and however they crossed; and without a crossing no bytes are left without a row.
NoReservationLeft ==
    Running = {} =>
      /\ objectRow # "placeholder"
      /\ objectRow = "none" /\ ~crossed => file = "none"
=============================================================================
