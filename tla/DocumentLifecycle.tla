------------------------- MODULE DocumentLifecycle -------------------------
(***************************************************************************)
(* The life of ONE document of a channel: the create, update, reindex and  *)
(* delete requests of FacadeService, the index run of IndexingService, and *)
(* the background job that drives the run.  The row lives in PostgreSQL    *)
(* (status, etag), the file in DIAL storage (file), the chunks in          *)
(* PostgreSQL (chunks), the index records in stores that commit on their   *)
(* own connection (records): no transaction spans them.  Handlers are      *)
(* coroutines that interleave at every await; one action is one            *)
(* transaction, one storage call or one committed statement.               *)
(*                                                                         *)
(* A content stands for the bytes of a file AND for the etag the storage   *)
(* gives them: equal bytes have equal etags, different bytes different     *)
(* ones.  Every content yields at least one chunk in every part.           *)
(***************************************************************************)
EXTENDS Integers, FiniteSets

CONSTANTS
  Handlers,     \* processes that serve API requests
  Runners,      \* processes that serve the requests of the job worker
  Contents,     \* contents a client may upload
  NoContent,    \* no file, no chunk, nothing read yet
  NumParts,     \* batches of chunks the parsers of the channel produce
  ChunkIndexes, \* indexes over chunks
  DocIndexes,   \* indexes over documents (with $.content among their fields)
  MaxAttempts,  \* attempts of a job before it ends as "exception"
  Requests,     \* the kinds of requests clients send
  ForceModes,   \* values of `force` a reindexing may ask for
  AccessModes,  \* outcomes of _check_application_access: may a job be queued?
  FaultKinds,   \* faults that may happen ...
  MaxFaults     \* ... and how many of them in a behaviour (a bound)

Procs    == Handlers \union Runners
Parts    == 1..NumParts
Indexes  == ChunkIndexes \union DocIndexes
Sources  == Parts \union DocIndexes
Content0 == Contents \union {NoContent}
NoProc   == "none"
Chunks   == "chunks"

ASSUME LifecycleAssumption ==
  /\ NoContent \notin Contents
  /\ NumParts \in Nat \ {0}
  /\ MaxAttempts \in Nat \ {0}
  /\ MaxFaults \in Nat
  /\ ForceModes \subseteq BOOLEAN
  /\ AccessModes \subseteq BOOLEAN
  /\ NoProc \notin Procs
  /\ Chunks \notin Indexes
  /\ ChunkIndexes \intersect DocIndexes = {}
  /\ Parts \intersect DocIndexes = {}

VARIABLES
  status,    \* documents.status, "absent" when there is no row
  etag,      \* documents.etag
  file,      \* content of the document's file
  chunks,    \* content each stored batch of chunks was extracted from
  records,   \* copies of each entry in each index
  job,       \* the reindex job with this document's dedupe key
  pc, loc,   \* control state and local variables of each process
  faults,    \* number of faults so far
  \* History: not part of the program.
  lost,      \* a run was cut off from its job, or died
  clean,     \* nobody else changed the document's data since p began
  base,      \* the data were verified when p's run began
  verified,  \* a run nobody disturbed finished, and nothing changed since
  erased     \* a deletion nobody disturbed finished, and nothing changed since

store   == <<status, etag, file, chunks, records>>
history == <<clean, base, verified, erased>>
vars    == <<store, job, pc, loc, faults, lost, history>>

Statuses == {"created", "processing", "processed", "indexing", "ready", "error"}
NoChunks == [k \in Parts |-> NoContent]
NoBuffer == [s \in Sources |-> NoContent]
Entries  == Sources \X Contents
Empty    == [e \in Entries |-> 0]
NoJob    == [state |-> "none", force |-> FALSE, names |-> {}, attempts |-> 0, owner |-> NoProc]
Resting  == [op |-> "none", content |-> NoContent, force |-> FALSE, names |-> {},
             seen |-> "absent", seenEtag |-> NoContent, part |-> 1, todo |-> {},
             buf |-> NoBuffer, full |-> FALSE]

\* `index_names or None`: no name means every index.
Chosen(names) == IF names = {} THEN Indexes ELSE names

\* The entries index i takes up: the chunks, or the document itself.
Feeds(i) == IF i \in DocIndexes THEN {i} ELSE Parts

Init ==
  /\ status = "absent" /\ etag = NoContent /\ file = NoContent
  /\ chunks = NoChunks
  /\ records = [i \in Indexes |-> Empty]
  /\ job = NoJob
  /\ pc = [p \in Procs |-> "idle"]
  /\ loc = [p \in Procs |-> Resting]
  /\ faults = 0 /\ lost = FALSE
  /\ clean = [p \in Procs |-> FALSE]
  /\ base = [p \in Procs |-> FALSE]
  /\ verified = FALSE /\ erased = FALSE

(***************************************************************************)
(* Helpers.                                                                *)
(***************************************************************************)
Goto(p, label) == pc' = [pc EXCEPT ![p] = label]

\* The process ends what it was doing.
Rest(p) == Goto(p, "idle") /\ loc' = [loc EXCEPT ![p] = Resting]

\* The UPDATE of set_status: it matches no row once the document is gone.
SetStatus(s) == status' = IF status = "absent" THEN "absent" ELSE s

(***************************************************************************)
(* Mutations: bugs this code could plausibly have.  Each replaces the       *)
(* definition of the same arity named in its comment, and one of the        *)
(* properties below must then fail; no specification uses them.             *)
(***************************************************************************)
\* for Emptied: the records of an index are not removed before others are added
Kept(i) == records

\* for Duplicate: the dedupe index covers queued jobs only
DuplicateIfQueued == job.state = "queued"

\* for DeleteStart: only the chunks of the document are removed
DeleteStartChunksOnly(p) ==
  /\ pc[p] = "idle"
  /\ status # "absent"
  /\ Goto(p, "wipe")
  /\ loc' = [loc EXCEPT ![p] = [Resting EXCEPT !.op = "delete", !.todo = {Chunks}]]
  /\ UNCHANGED <<store, job>>

\* for SetError: an exception leaves the status as it is
SetErrorNot(p) ==
  /\ pc[p] = "fail"
  /\ IF loc[p].op = "job" THEN Goto(p, "err") /\ UNCHANGED loc ELSE Rest(p)
  /\ UNCHANGED <<status, etag, file, chunks, records, job>>

(***************************************************************************)
(* Effects shared by several actions.                                      *)
(***************************************************************************)
\* The DELETE of Storage.remove, committed on its own connection.
Emptied(i) == [records EXCEPT ![i] = Empty]

\* The unique index on dedupe_key covers queued and picked jobs.
Duplicate == job.state # "none"

\* DatabaseRetryEntrypointExecutor: queued again until the attempts are used up.
Retried == IF job.attempts + 1 < MaxAttempts
             THEN [job EXCEPT !.state = "queued", !.attempts = @ + 1, !.owner = NoProc]
             ELSE NoJob

\* The end of one task of a TaskGroup; the last one moves the process on.
TaskDone(p, t, next) ==
  /\ loc' = [loc EXCEPT ![p].todo = @ \ {t}]
  /\ Goto(p, IF loc[p].todo = {t} THEN next ELSE pc[p])

(***************************************************************************)
(* DocumentService.create_document and update_document.                    *)
(***************************************************************************)

\* A create passes the existence check: no file yet, or overwriting allowed.
CreateStart(p, c, overwrite) ==
  /\ pc[p] = "idle"
  /\ file = NoContent \/ overwrite
  /\ Goto(p, "put")
  /\ loc' = [loc EXCEPT ![p] = [Resting EXCEPT !.op = "create", !.content = c]]
  /\ UNCHANGED <<store, job>>

\* An update reads the row first; c = NoContent when only metadata is given.
UpdateStart(p, c) ==
  /\ pc[p] = "idle"
  /\ status # "absent"
  /\ Goto(p, IF c = NoContent THEN "write" ELSE "put")
  /\ loc' = [loc EXCEPT ![p] = [Resting EXCEPT !.op = "update", !.content = c,
                                               !.seen = status, !.seenEtag = etag]]
  /\ UNCHANGED <<store, job>>

PutFile(p) ==
  /\ pc[p] = "put"
  /\ file' = loc[p].content
  /\ Goto(p, IF loc[p].op = "create" THEN "find" ELSE "write")
  /\ UNCHANGED <<status, etag, chunks, records, job, loc>>

FindByUrl(p) ==
  /\ pc[p] = "find"
  /\ Goto(p, IF status = "absent" THEN "insert" ELSE "write")
  /\ loc' = [loc EXCEPT ![p].seen = status, ![p].seenEtag = etag]
  /\ UNCHANGED <<store, job>>

\* _create_document; the row of another creator is in the way until it is
\* deleted, and the request fails when the attempts are used up.
InsertRow(p) ==
  /\ pc[p] = "insert"
  /\ \/ /\ status = "absent"
        /\ status' = "created" /\ etag' = loc[p].content
        /\ loc' = [loc EXCEPT ![p].seen = "created", ![p].todo = Indexes \union {Chunks}]
        /\ Goto(p, "wipe")
     \/ /\ status # "absent"
        /\ Rest(p)
        /\ UNCHANGED <<status, etag>>
  /\ UNCHANGED <<file, chunks, records, job>>

\* The ORM's UPDATE holds the attributes that differ from the row as it was
\* READ: a status that was read as "created" and is assigned "created" is not
\* written.  A row that was modified is then refreshed, so the status the
\* handler goes on with is the stored one.  `touched` says that the display
\* name or the metadata differ.  The commit releases the row.
UploadedEtag(p) == IF loc[p].content = NoContent THEN loc[p].seenEtag ELSE loc[p].content
WrittenStatus(p) ==
  IF loc[p].seenEtag # UploadedEtag(p) /\ loc[p].seen # "created" THEN "created" ELSE status
ReturnedStatus(p, touched) ==
  IF loc[p].seenEtag # UploadedEtag(p) \/ touched THEN WrittenStatus(p) ELSE loc[p].seen

WriteRow(p, touched) ==
  /\ pc[p] = "write"
  /\ \/ loc[p].seenEtag = UploadedEtag(p) /\ ~touched
     \/ status # "absent"
  /\ status' = WrittenStatus(p)
  /\ etag' = IF loc[p].seenEtag # UploadedEtag(p) THEN loc[p].content ELSE etag
  /\ IF ReturnedStatus(p, touched) = "ready"
       THEN Rest(p)
       ELSE /\ Goto(p, "wipe")
            /\ loc' = [loc EXCEPT ![p].seen = ReturnedStatus(p, touched),
                                  ![p].todo = Indexes \union {Chunks}]
  /\ UNCHANGED <<file, chunks, records, job>>

\* The row was deleted since it was read: StaleDataError, rolled back.
WriteStale(p) ==
  /\ pc[p] = "write"
  /\ status = "absent"
  /\ Rest(p)
  /\ UNCHANGED <<store, job>>

(***************************************************************************)
(* FacadeService._delete_document_data: one task per index and one for the *)
(* chunks.  In a deletion the chunks go with the enclosing transaction.    *)
(***************************************************************************)
AfterWipe(p) == IF loc[p].op = "delete" THEN "erase" ELSE "submit"

WipeIndex(p, i) ==
  /\ pc[p] = "wipe" /\ i \in loc[p].todo
  /\ records' = Emptied(i)
  /\ TaskDone(p, i, AfterWipe(p))
  /\ UNCHANGED <<status, etag, file, chunks, job>>

WipeChunks(p) ==
  /\ pc[p] = "wipe" /\ Chunks \in loc[p].todo
  /\ chunks' = IF loc[p].op = "delete" THEN chunks ELSE NoChunks
  /\ TaskDone(p, Chunks, AfterWipe(p))
  /\ UNCHANGED <<status, etag, file, records, job>>

(***************************************************************************)
(* FacadeService.delete_document, one transaction around it all.           *)
(***************************************************************************)
DeleteStart(p) ==
  /\ pc[p] = "idle"
  /\ status # "absent"
  /\ Goto(p, "wipe")
  /\ loc' = [loc EXCEPT ![p] = [Resting EXCEPT !.op = "delete", !.todo = Indexes \union {Chunks}]]
  /\ UNCHANGED <<store, job>>

EraseFile(p) ==
  /\ pc[p] = "erase"
  /\ IF status = "absent"
       THEN Rest(p) /\ UNCHANGED file
       ELSE file' = NoContent /\ Goto(p, "commit") /\ UNCHANGED loc
  /\ UNCHANGED <<status, etag, chunks, records, job>>

\* The row goes, and with it every chunk (on delete cascade).
CommitDelete(p) ==
  /\ pc[p] = "commit"
  /\ status' = "absent" /\ etag' = NoContent
  /\ chunks' = NoChunks
  /\ Rest(p)
  /\ UNCHANGED <<file, records, job>>

(***************************************************************************)
(* FacadeService.reindex_document and _index_document.                     *)
(***************************************************************************)
ReindexStart(p, names, force) ==
  /\ pc[p] = "idle"
  /\ Goto(p, "load")
  /\ loc' = [loc EXCEPT ![p] = [Resting EXCEPT !.op = "reindex", !.names = names, !.force = force]]
  /\ UNCHANGED <<store, job>>

\* get_document: 404 ends a request, and ends a job's run with an error.
Load(p) ==
  /\ pc[p] = "load"
  /\ IF status = "absent"
       THEN IF loc[p].op = "job" THEN Goto(p, "err") /\ UNCHANGED loc ELSE Rest(p)
       ELSE /\ loc' = [loc EXCEPT ![p].seen = status]
            /\ Goto(p, IF loc[p].op = "job" THEN "begin" ELSE "submit")
  /\ UNCHANGED <<store, job>>

\* enqueue_job: the dedupe key admits one queued or picked job; a duplicate is
\* refused.  Without access for the worker the request runs the indexing itself.
Submit(p, access) ==
  /\ pc[p] = "submit"
  /\ \/ /\ access /\ ~Duplicate
        /\ job' = [state |-> "queued", force |-> loc[p].force, names |-> loc[p].names,
                   attempts |-> 0, owner |-> NoProc]
        /\ Rest(p)
     \/ /\ access /\ Duplicate
        /\ Rest(p)
        /\ UNCHANGED job
     \/ /\ ~access
        /\ Goto(p, "begin")
        /\ UNCHANGED <<loc, job>>
  /\ UNCHANGED store

(***************************************************************************)
(* IndexingService.index_document, the first block: processing.            *)
(***************************************************************************)
NeedsProcessing(p) == loc[p].force \/ loc[p].seen \notin {"processed", "ready"}

StartProcessing(p) ==
  /\ pc[p] = "begin"
  /\ NeedsProcessing(p)
  /\ SetStatus("processing")
  /\ Goto(p, "clear")
  /\ loc' = [loc EXCEPT ![p].full = TRUE]
  /\ UNCHANGED <<etag, file, chunks, records, job>>

ClearChunks(p) ==
  /\ pc[p] = "clear"
  /\ chunks' = NoChunks
  /\ Goto(p, "extract")
  /\ UNCHANGED <<status, etag, file, records, job, loc>>

\* A parser downloads the file as it is now; without a file it raises.
Extract(p) ==
  /\ pc[p] = "extract"
  /\ Goto(p, IF file = NoContent THEN "fail" ELSE "save")
  /\ loc' = [loc EXCEPT ![p].buf[loc[p].part] = file]
  /\ UNCHANGED <<store, job>>

\* The batch is inserted, unless the foreign key or the primary key refuses it.
SaveChunks(p) ==
  /\ pc[p] = "save"
  /\ IF status = "absent" \/ chunks[loc[p].part] # NoContent
       THEN Goto(p, "fail") /\ UNCHANGED <<chunks, loc>>
       ELSE /\ chunks' = [chunks EXCEPT ![loc[p].part] = loc[p].buf[loc[p].part]]
            /\ IF loc[p].part = NumParts
                 THEN Goto(p, "parsed") /\ UNCHANGED loc
                 ELSE Goto(p, "extract") /\ loc' = [loc EXCEPT ![p].part = @ + 1]
  /\ UNCHANGED <<status, etag, file, records, job>>

\* After a processing block every index is rebuilt (index_names = None).
FinishProcessing(p) ==
  /\ pc[p] = "parsed"
  /\ SetStatus("processed")
  /\ Goto(p, "processed")
  /\ loc' = [loc EXCEPT ![p].names = {}]
  /\ UNCHANGED <<etag, file, chunks, records, job>>

(***************************************************************************)
(* The second block: indexing.                                             *)
(***************************************************************************)
StartIndexing(p) ==
  /\ pc[p] = "processed" \/ (pc[p] = "begin" /\ ~NeedsProcessing(p))
  /\ SetStatus("indexing")
  /\ Goto(p, "unindex")
  /\ loc' = [loc EXCEPT ![p].todo = Chosen(loc[p].names), ![p].buf = NoBuffer]
  /\ UNCHANGED <<etag, file, chunks, records, job>>

RemoveRecords(p, i) ==
  /\ pc[p] = "unindex" /\ i \in loc[p].todo
  /\ records' = Emptied(i)
  /\ IF loc[p].todo = {i}
       THEN Goto(p, "index") /\ loc' = [loc EXCEPT ![p].todo = Chosen(loc[p].names) \union {Chunks}]
       ELSE UNCHANGED pc /\ loc' = [loc EXCEPT ![p].todo = @ \ {i}]
  /\ UNCHANGED <<status, etag, file, chunks, job>>

\* get_chunks_by_document, one transaction.
ReadChunks(p) ==
  /\ pc[p] = "index" /\ Chunks \in loc[p].todo
  /\ loc' = [loc EXCEPT ![p].buf = [s \in Sources |-> IF s \in Parts THEN chunks[s] ELSE @[s]],
                        ![p].todo = @ \ {Chunks}]
  /\ Goto(p, IF loc[p].todo = {Chunks} THEN "finish" ELSE "index")
  /\ UNCHANGED <<store, job>>

\* DocumentIndex._extract_text downloads the file as it is now.
ReadDocument(p, i) ==
  /\ pc[p] = "index" /\ i \in loc[p].todo \intersect DocIndexes
  /\ loc[p].buf[i] = NoContent
  /\ Goto(p, IF file = NoContent THEN "fail" ELSE "index")
  /\ loc' = [loc EXCEPT ![p].buf[i] = file]
  /\ UNCHANGED <<store, job>>

\* Storage.add only ever adds: nothing in an index is unique.
AddRecords(p, i) ==
  /\ pc[p] = "index" /\ i \in loc[p].todo \intersect Indexes
  /\ IF i \in DocIndexes THEN loc[p].buf[i] # NoContent ELSE Chunks \notin loc[p].todo
  /\ records' = [records EXCEPT ![i] =
       [e \in Entries |-> @[e] + IF e[1] \in Feeds(i) /\ loc[p].buf[e[1]] = e[2] THEN 1 ELSE 0]]
  /\ TaskDone(p, i, "finish")
  /\ UNCHANGED <<status, etag, file, chunks, job>>

FinishIndexing(p) ==
  /\ pc[p] = "finish"
  /\ SetStatus("ready")
  /\ IF loc[p].op = "job" THEN Goto(p, "ok") /\ UNCHANGED loc ELSE Rest(p)
  /\ UNCHANGED <<etag, file, chunks, records, job>>

\* DocumentStatusUpdateHelper: whatever the block raised, the status is "error".
SetError(p) ==
  /\ pc[p] = "fail"
  /\ SetStatus("error")
  /\ IF loc[p].op = "job" THEN Goto(p, "err") /\ UNCHANGED loc ELSE Rest(p)
  /\ UNCHANGED <<etag, file, chunks, records, job>>

(***************************************************************************)
(* The job worker.                                                         *)
(***************************************************************************)
Dispatch(p) ==
  /\ pc[p] = "idle"
  /\ job.state = "queued"
  /\ job' = [job EXCEPT !.state = "picked", !.owner = p]
  /\ Goto(p, "load")
  /\ loc' = [loc EXCEPT ![p] = [Resting EXCEPT !.op = "job", !.force = job.force, !.names = job.names]]
  /\ UNCHANGED store

\* The result, or the exception, reaches the worker, if it still listens.
JobEnd(p) ==
  /\ pc[p] \in {"ok", "err"}
  /\ job' = IF job.owner # p THEN job ELSE IF pc[p] = "ok" THEN NoJob ELSE Retried
  /\ Rest(p)
  /\ UNCHANGED store

\* A worker that got an error instead of a result, or was shut down: the
\* executor puts the job back.
JobLost ==
  /\ job.state = "picked" /\ job.owner = NoProc
  /\ job' = Retried
  /\ UNCHANGED <<store, pc, loc, faults, lost, history>>

(***************************************************************************)
(* Faults.                                                                 *)
(***************************************************************************)
Guarded == {"clear", "extract", "save", "unindex", "index"}
Running == Guarded \union {"begin", "parsed", "processed", "finish", "fail"}

Fault(kind) == kind \in FaultKinds /\ faults < MaxFaults /\ faults' = faults + 1

\* The run of a job whose worker is gone; it is cancelled at a later heartbeat.
Deserted(p) == loc[p].op = "job" /\ job.owner # p

\* Something inside a status block raises, or is cancelled.
RunFails(p) ==
  /\ pc[p] \in Guarded
  /\ Fault("fail") \/ (Deserted(p) /\ UNCHANGED faults)
  /\ Goto(p, "fail")
  /\ UNCHANGED <<store, job, loc, lost>>

\* A status is being written, or the document read, when the cancellation
\* comes: the transaction is rolled back and no status block notices.
RunStops(p) ==
  /\ pc[p] \in (Running \ Guarded) \union {"load"}
  /\ Deserted(p)
  /\ Goto(p, "err")
  /\ UNCHANGED <<store, job, loc, faults, lost>>

\* The connection to the worker ends: with an error, or like a stream that is
\* complete, and then the job counts as done.
CutOff == [job EXCEPT !.owner = NoProc]

\* The process dies, or a call outside a status block raises: an open
\* transaction is rolled back, everything else stays as it is.
Abort(p) ==
  /\ pc[p] # "idle"
  /\ Fault("abort")
  /\ Rest(p)
  /\ job' \in IF job.owner = p THEN {CutOff, NoJob} ELSE {job}
  /\ lost' = (lost \/ loc[p].op = "job" \/ pc[p] \in Running)
  /\ UNCHANGED store

\* The worker loses the event stream while the run goes on.
Disconnect(p) ==
  /\ job.owner = p
  /\ \/ Fault("disconnect") /\ job' = CutOff
     \/ Fault("close") /\ job' = NoJob
  /\ lost' = TRUE
  /\ UNCHANGED <<store, pc, loc>>

(***************************************************************************)
(* History variables, and the next-state relation.                         *)
(***************************************************************************)
data == <<file, status = "absent", chunks, records>>

Track(p, v, e) ==
  /\ clean' = [q \in Procs |-> IF q = p THEN clean[q] \/ pc[q] \in {"idle", "begin"}
                                        ELSE clean[q] /\ data' = data]
  /\ base' = IF pc[p] = "begin" THEN [base EXCEPT ![p] = verified] ELSE base
  /\ verified' = v
  /\ erased' = e

Request(p) ==
  \/ /\ "create" \in Requests
     /\ \E c \in Contents, overwrite \in BOOLEAN : CreateStart(p, c, overwrite)
  \/ /\ "update" \in Requests
     /\ \E c \in Content0 : UpdateStart(p, c)
  \/ /\ "delete" \in Requests
     /\ DeleteStart(p)
  \/ /\ "reindex" \in Requests
     /\ \E names \in SUBSET Indexes, force \in ForceModes : ReindexStart(p, names, force)

RequestStep(p) ==
  \/ PutFile(p) \/ FindByUrl(p) \/ InsertRow(p)
  \/ \E touched \in BOOLEAN : WriteRow(p, touched)
  \/ WriteStale(p)
  \/ \E i \in Indexes : WipeIndex(p, i)
  \/ WipeChunks(p) \/ EraseFile(p)
  \/ \E access \in AccessModes : Submit(p, access)

RunStep(p) ==
  \/ Load(p)
  \/ StartProcessing(p) \/ ClearChunks(p) \/ Extract(p) \/ SaveChunks(p) \/ FinishProcessing(p)
  \/ StartIndexing(p) \/ ReadChunks(p) \/ SetError(p)
  \/ \E i \in Indexes : RemoveRecords(p, i) \/ ReadDocument(p, i) \/ AddRecords(p, i)

Tracked(p) == Track(p, verified /\ data' = data, erased /\ data' = data)
Calm       == UNCHANGED <<faults, lost>>

Begin(p)    == Request(p) /\ Calm /\ Tracked(p)
Pick(p)     == Dispatch(p) /\ Calm /\ Tracked(p)
Advance(p)  == (RequestStep(p) \/ RunStep(p) \/ JobEnd(p)) /\ Calm /\ Tracked(p)
Complete(p) == FinishIndexing(p) /\ Calm /\ Track(p, clean[p] /\ (loc[p].full \/ base[p]), erased)
Delete(p)   == CommitDelete(p) /\ Calm /\ Track(p, FALSE, clean[p])
Break(p)    == (RunFails(p) \/ RunStops(p) \/ Abort(p) \/ Disconnect(p)) /\ Tracked(p)

Next ==
  \/ \E p \in Handlers : Begin(p)
  \/ \E p \in Runners : Pick(p)
  \/ \E p \in Procs : Advance(p) \/ Complete(p) \/ Delete(p) \/ Break(p)
  \/ JobLost

Spec == Init /\ [][Next]_vars

\* The event loop runs every handler that can go on, and the worker polls the
\* queue and reacts to a lost stream; nobody has to send a request.
Fairness ==
  /\ \A p \in Procs : WF_vars(Advance(p) \/ Complete(p) \/ Delete(p))
  /\ \A p \in Runners : WF_vars(Pick(p))
  /\ WF_vars(JobLost)

FairSpec == Spec /\ Fairness

-----------------------------------------------------------------------------
(***************************************************************************)
(* Properties.                                                             *)
(***************************************************************************)
Labels == {"idle", "put", "find", "write", "insert", "wipe", "erase", "commit", "load", "submit",
           "begin", "clear", "extract", "save", "parsed", "processed", "unindex", "index",
           "finish", "fail", "ok", "err"}
Locals == [op : {"none", "create", "update", "delete", "reindex", "job"}, content : Content0,
           force : BOOLEAN, names : SUBSET Indexes, seen : Statuses \union {"absent"},
           seenEtag : Content0, part : Parts, todo : SUBSET (Indexes \union {Chunks}),
           buf : [Sources -> Content0], full : BOOLEAN]
Jobs   == [state : {"none", "queued", "picked"}, force : BOOLEAN, names : SUBSET Indexes,
           attempts : 0..(MaxAttempts - 1), owner : Procs \union {NoProc}]

\* Every variable has its type; in particular a job never starts an attempt
\* beyond max_attempts, and a document without a row has no etag.
TypeOK ==
  /\ status \in Statuses \union {"absent"}
  /\ etag \in Content0
  /\ file \in Content0
  /\ chunks \in [Parts -> Content0]
  /\ records \in [Indexes -> [Entries -> Nat]]
  /\ job \in Jobs
  /\ pc \in [Procs -> Labels]
  /\ loc \in [Procs -> Locals]
  /\ faults \in 0..MaxFaults /\ lost \in BOOLEAN
  /\ clean \in [Procs -> BOOLEAN] /\ base \in [Procs -> BOOLEAN]
  /\ verified \in BOOLEAN /\ erased \in BOOLEAN

\* The index holds every entry of content c exactly once, and nothing else.
Exact(i, c) ==
  \A e \in Entries : records[i][e] = IF e[1] \in Feeds(i) /\ e[2] = c THEN 1 ELSE 0

\* A run of index_document that nobody disturbed repairs whatever it found
\* (leftovers of failed runs, of racing runs, of a half-done update or
\* deletion): once it says `ready`, and until something writes to the document
\* again, the chunks are those of the stored file and every index holds them
\* exactly once.
VerifiedMeansExact ==
  verified => /\ status # "absent"
              /\ \A k \in Parts : chunks[k] = file
              /\ \A i \in Indexes : Exact(i, file)

\* delete_document removes the document "and all related data": after a
\* deletion during which nobody else wrote, nothing is left in any store.
ErasedMeansEmpty ==
  erased => /\ status = "absent" /\ file = NoContent
            /\ chunks = NoChunks
            /\ \A i \in Indexes : records[i] = Empty

\* DocumentStatusUpdateHelper: as long as no run was killed or cut off, a status
\* of work in progress is the status of a run that is still there to end it,
\* whatever requests and other runs wrote in between.
InProgressHasRun ==
  ~lost /\ status \in {"processing", "processed", "indexing"}
    => \E p \in Procs : pc[p] \in Running \ {"begin"}

\* The dedupe key and the worker together keep the runs that jobs start apart:
\* without a lost connection there is never a second one for the document.
OneJobRun ==
  ~lost => \A p, q \in Procs : loc[p].op = "job" /\ loc[q].op = "job" => p = q

\* A queued job brings the document to the end of its pipeline, through
\* retries, lost streams and requests that arrive meanwhile.
QueuedJobSettles ==
  job.state = "queued" ~> status \in {"ready", "error", "absent"}

\* facade_service.py:139, "Delete document with given id (and all related
\* data)": once everything is at rest a document without a row has no records.
DeletedLeavesNothing ==
  status = "absent" /\ job.state = "none" /\ (\A p \in Procs : pc[p] = "idle")
    => \A i \in Indexes : records[i] = Empty

\* routes.py:474-476: a `ready` document has no text chunks when none could be
\* extracted from it.  Every content of this model yields chunks.
ReadyHasChunks ==
  status = "ready" /\ job.state = "none" /\ (\A p \in Procs : pc[p] = "idle")
    => chunks # NoChunks

\* facade_service.py:92, "Update document with given ID by replacing its
\* content": an update that is answered with a `ready` document leaves the
\* chunks of the uploaded content.
UpdatedContentIsIndexed ==
  [][\A p \in Procs :
       /\ \E touched \in BOOLEAN : WriteRow(p, touched)
       /\ pc'[p] = "idle" /\ faults' = faults
       /\ loc[p].op = "update" /\ loc[p].content # NoContent
       => \A k \in Parts : chunks[k] = loc[p].content]_vars
=============================================================================
