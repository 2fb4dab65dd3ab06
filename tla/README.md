# Formal models of the DIAL generic RAG backend

TLA+ models of `epam/ai-dial-generic-rag-backend`, checked with TLC on small
instances and proved with TLAPS for all instances where that is possible.
Paths below are relative to `src/generic_rag/` of the repository.

## 1. The system

The backend serves *channels*. A channel holds documents; a document is a file
in DIAL storage, a row in PostgreSQL, chunks extracted from the file, and
records in the indexes of the channel. A chat request retrieves chunks through
the indexes and lets a language model answer.

| Part | State it keeps | Operations | Talks to |
|---|---|---|---|
| Facade (`services/facade_service.py`) | none | create, update, reindex, delete a document; create, upload, import, reset the export archive | everything below |
| Document registry (`services/document_service.py`, `db/`) | table `documents`: id, url (unique), etag, status, metadata | create, update, delete, set status, list, search | PostgreSQL, file storage |
| Indexing run (`services/indexing_service.py`) | status of the document | process (parse, chunk), index | registry, chunk store, indexes |
| Chunk store (`services/chunk_service.py`) | tables `text_chunks`, `image_chunks` (foreign key to the document), image files | add, delete, read by document / reference / page | PostgreSQL, file storage |
| Index storage (`components/storage`, `components/search_index.py`) | one table (or Elasticsearch index) per index; no foreign key, no uniqueness | add, remove, export, search | own connections |
| Background jobs (`app/jobs.py`) | pgqueuer's table: state, attempts, dedupe key | enqueue, run, retry, supervise the worker | calls this same API back over an event stream |
| Export and import (`services/export_service.py`) | archive file | export, import of documents and channels | all stores |
| File client and cache (`dial_client.py`, `utils/caching.py`) | files with etags, cached copies | get, put, delete, metadata | DIAL core |
| Retrieval (`components/retrieval`, `utils/ranking.py`) | none | search, filter, fuse, load chunks | indexes, chunk store |
| Answers (`utils/answers.py`, `components/generation`) | parser state of a stream | stream the answer, resolve references | language model |
| MCP, routes, settings, DI | per request | parse, authorise, dispatch | services |

Three facts make it hard:

* **No transaction spans the stores.** The row and the chunks are in one
  database, index records are written on other connections and commit at once,
  files are written by HTTP calls.
* **Handlers are coroutines** that interleave at every `await`, and several
  workers of the API may run. Nothing locks a document: requests and index runs
  of the same document may overlap in any order.
* **A job is a request to oneself.** The worker calls the API and reads an
  event stream; the run and the worker may lose each other, the job is retried
  while the first run still goes on, and a stream that just ends counts as done.

What makes each part correct:

* facade and indexing run: whatever failed or was interrupted before, a run that
  nobody disturbs leaves exactly the file's chunks in every store; a deletion
  leaves nothing; a status of work in progress is somebody's work; a queued job
  gets the document to a final status;
* jobs: one run per document, bounded attempts;
* registry: unique ids and urls under concurrent creation, no file replaced
  without `overwrite`, bounded retries;
* worker: supervised as long as it is not stopped, never afterwards; a job counts
  as done only if it ran;
* export: the archive that is served shows the channel as it is; whatever races
  it, an archive says nothing that was not so while it was made;
* import: what is reported as imported is, exactly once; a retry can do its work;
* index storage: servers and requests that meet at a new index agree on it;
* file cache: what is returned was the file at some moment of the request, but for
  contents that raced an earlier download of the same etag;
* retrieval: paging, fusion and page images equal their definitions, and only gaps
  in the stores, left by a failure or made by a change, lose results;
* answers: the text is independent of how the stream was cut, marks and
  attachments match, locks are released.

`PROJECT.json` lists the hazards with the line where each one bites and the
properties that would show it.

## 2. Modules

| Module | Component | Composes | Runs | Proofs |
|---|---|---|---|---|
| `DocumentLifecycle` | facade, row, indexing run, chunk store, index records and job of ONE document | five components that share no transaction | `lifecycle_races`, `lifecycle_liveness`, `lifecycle_emptied` | `DocumentLifecycleProofs` |
| `DocumentIds` | creation, update and deletion of MANY documents: ids, urls, retries | registry, file storage | `ids_requests` | `DocumentIdsProofs` |
| `ChannelExport` | the export archive of a channel against everything that changes it | facade, export service, jobs, registry paging | `export_archive` | `ChannelExportProofs` |
| `ArchiveRegister` | abstract: what an archive promises | refined by `ChannelExport` | `export_archive` | `ChannelExportProofs` |
| `JobWorker` | supervised worker, attempts, event streams | both ends of `app/jobs.py` | `job_worker` | `JobWorkerProofs` |
| `ChannelImport` | import of an archive with its retries | facade, export service, jobs | `import_channel` | `ChannelImportProofs` |
| `IndexTables` | tables of the index storage over several servers | start-up, pool, locks, DDL | `index_tables`, `index_pool` | `IndexTablesProofs` |
| `FileCache` | download and sharing through the cache | cache, file client | `file_cache` | `ReadingProofs` |
| `DocumentMatcher` | metadata filters and top documents, as operators | used by `Retrieval` | `retrieval` | `ReadingProofs` |
| `Retrieval` | search for chunks and documents while documents change | selector, indexes, chunk store, registry, fusion | `retrieval` | `ReadingProofs` |
| `Answering` | stream parser, citations, sharing | generator, answers, file client | `answering` | `AnsweringProofs` |

Every module takes its bounds as CONSTANTS with a named assumption and has one
action per step between two awaits of the code (or per statement of a
transaction, where others can see it). Instances for TLC are in `<Module>MC`,
proofs in `<Module>Proofs`; those of `FileCache` and `Retrieval` are both in
`ReadingProofs`, which extends the two, so `FileCache` calls its initial states,
steps and types `CacheInit`, `CacheNext` and `CacheTypeOK`. Operators named "Mutant of ..." in a comment are
plausible bugs of the definition that follows them; with the mutant in place TLC
finds the property that `PROJECT.json` names violated.

## 3. DocumentLifecycle

### State

| Variable | In the program |
|---|---|
| `status`, `etag` | columns of the document's row; `status = "absent"`: no row |
| `file` | the content stored under the document's url |
| `chunks[k]` | content the stored chunks of part `k` (a batch of a parser) came from |
| `records[i][e]` | how many copies of entry `e` index `i` holds |
| `job` | the job with the document's dedupe key: state, arguments, attempts, and the run whose stream the worker reads (`owner`) |
| `pc`, `loc` | control state and local variables of the coroutines |

A *content* stands for the bytes and for their etag. A request is one process of
`Handlers`, the API call of a job one of `Runners`; a process in both sets serves
one after the other. `faults` bounds the faults (`MaxFaults`). `lost`, `clean`,
`base`, `verified`, `erased` are history variables and are read by properties
only.

### Actions

| Action | Code |
|---|---|
| `CreateStart`, `PutFile`, `FindByUrl`, `InsertRow`, `WriteRow`, `WriteStale` | `DocumentService.create_document`, `_create_document`: existence check, upload, row by url, insert or update |
| `UpdateStart`, `PutFile`, `WriteRow`, `WriteStale` | `DocumentService.update_document` |
| `WipeIndex`, `WipeChunks` | the tasks of `FacadeService._delete_document_data`, in any order |
| `DeleteStart`, `EraseFile`, `CommitDelete` | `FacadeService.delete_document`: records go at once, chunks and row at the commit |
| `ReindexStart`, `Load`, `Submit` | `reindex_document`, `_index_document`, `enqueue_job`: queued, refused as a duplicate, or run by the request |
| `StartProcessing`, `ClearChunks`, `Extract`, `SaveChunks`, `FinishProcessing` | first status block of `index_document` |
| `StartIndexing`, `RemoveRecords`, `ReadChunks`, `ReadDocument`, `AddRecords`, `FinishIndexing` | second status block |
| `SetError` | `DocumentStatusUpdateHelper` on an exception |
| `Dispatch`, `JobEnd`, `JobLost` | the worker: pick, result or exception, retry |
| `RunFails`, `RunStops`, `Abort`, `Disconnect` | exception or cancellation inside a status block, cancellation outside one, death of the process, loss of the stream |

Two details of the ORM matter and are modelled: an UPDATE holds only attributes
that differ from the row as it was *read* (`WrittenStatus`), and a row that was
modified is re-read after the flush (`ReturnedStatus`, `RepositoryMixin.save`).

### Abstractions

* Metadata and display name appear only as "differ or not" (`touched`).
* A document has at most `INDEXING_BATCH_SIZE` chunks, so an index gets one `add`
  per run; text and image chunks of a part are one batch; the two selects of
  `get_chunks_by_document` are one step.
* Image files of chunks are in `Retrieval`, the export archive in `ChannelExport`,
  the file cache in `FileCache`; index tables are taken to exist (`IndexTables`).
* The deletion of chunks by a deletion request takes effect at its commit, and
  row locks are not modelled: more interleavings than PostgreSQL allows.
* Document indexes are taken to include `$.content`, the case in which they
  depend on the file.
* pgqueuer is modelled from its use: unique dedupe key over queued and picked
  jobs (migration 003), retry up to `max_attempts`.
* After a disconnection the run may be cancelled at any later await
  (`Deserted`), as `run_as_event_stream` does at a heartbeat.

### Properties

* `TypeOK` - types; attempts never exceed their bound (proved).
* `VerifiedMeansExact` - a run that nobody disturbed repairs whatever it found:
  once it says `ready` the chunks are the file's and every index holds each
  exactly once.
* `ErasedMeansEmpty` - an undisturbed deletion leaves nothing in any store.
* `InProgressHasRun` - `processing`, `processed`, `indexing` are the statuses of a
  run that is still there, unless one was killed or cut off.
* `OneJobRun` - jobs never start two runs at a time, unless a connection was lost.
* `QueuedJobSettles` - a queued job brings the document to a final status.

"Undisturbed" is precise: no other process changed the file, the chunks, the
records or the existence of the row since the run (or the deletion) began. What
happened before is arbitrary, and so is what others read meanwhile. Without the
condition the properties are false.

### Runs

| Run | Instance | Shows |
|---|---|---|
| `lifecycle_races` | a create, update or delete request, which may run the indexing itself (`AccessModes`), against the run of a job; 2 contents, a document index, 1 fault | `InProgressHasRun`, `VerifiedMeansExact`, `ErasedMeansEmpty` under races of two runs |
| `lifecycle_liveness` | two coroutines that serve jobs, one of which also serves requests; a chunk index; a failure or a lost stream | `OneJobRun`, `QueuedJobSettles` |
| `lifecycle_emptied` | one process for requests and jobs in turn, 1 fault | violated: `ReadyHasChunks` |

Why the bounds are enough: a race needs two processes; two contents tell the old
from the new one; two attempts (`lifecycle_liveness`) are a retry and an end (the code has
3; `lifecycle_races` has one, and its reruns come from requests); one fault meets
every step of the others. What needs more - two parts, a chunk and a
document index together, more faults, several deletions - is covered by the
theorems, which have no bounds. Deadlock is not checked: the system rests when
there is no request.

Fairness (`FairSpec`): every coroutine that can go on does (the event loop), the
worker picks queued jobs and reacts to a lost stream. Nobody has to send a
request, and no fault or cancellation has to happen. `QueuedJobSettles` is about
lost connections that are fewer than the attempts, and about documents that are
not deleted: with `"delete"` among the requests TLC finds a document that was
created anew under the id of a deleted one while the old job is still queued. Its
own job is refused as a duplicate, the old one has used up its attempts and gives
up, and the document stays `created` without a job.

### Findings

1. **`ready` without chunks** (`lifecycle_emptied`). A run stops between its two
   blocks (status `processed`); a request that changes nothing but metadata wipes
   the chunks and keeps the status; the next run skips the processing.

`DeletedLeavesNothing` and `UpdatedContentIsIndexed` are statements of the
facade's docstrings that the code does not meet. No run lists them; put into a
configuration, TLC refutes them:

* a deletion overtakes an index run, which adds records after the row is gone; a
  later document with the same id (`max + 1`) inherits them until its own run;
* an update reads the row as `created`, a run finishes, the handler assigns
  `created`, which the ORM does not write, and the refreshed row says `ready`:
  the new content is not indexed;
* an update fails between its upload and the validation of the metadata: the file
  is one that the row's etag does not describe, and uploading the old content
  again counts as no change.

## 4. DocumentIds

`DocumentLifecycle` follows one document and takes its id for granted. This
module is about the ids: many requests, each about some url or id, in channels
that share the table `documents` and a DIAL bucket. (The url index covers all
channels; the lookups are per channel. `get_bucket` returns the bucket of a
project when the API key is a project key, so channels may share urls.)

| Variable | In the program |
|---|---|
| `request` | channel, url (what `_get_upload_filepath` makes of folder and name) and `overwrite` of each creation |
| `table` | the committed rows; `by` (who inserted) is history |
| `file` | whose upload is stored under each url |
| `pc`, `id`, `loaded`, `tries` | control state, `document_id`, row that was read, failed attempts |
| `beaten` | history: who took an id from whom |

| Action | Code |
|---|---|
| `CheckFile`, `PutFile`, `FindByUrl`, `WriteRow` | `create_document` up to the update of an existing row |
| `NextId`, `InsertKey`, `KeyConflict`, `InsertUrl`, `UrlConflict`, `CommitRow` | `_create_document`: savepoint, `get_next_id`, insert, retry, commit of the outer transaction |
| `LoadRow`, `ReplaceFile`, `SaveRow` | `update_document` with an attachment |
| `LoadRow`, `EraseFile`, `DeleteRow` | `delete_document` |
| `Fail` | the transaction of a request fails from outside |

PostgreSQL is modelled as the code relies on it, at READ COMMITTED: queries see
committed rows; an insert enters its row in the primary key, then in the url
index; it fails on a committed entry and waits on one of a running transaction.
An update or delete is flushed right before the commit and is one step with it.
A process is one request; its name stands for the content it uploads, so all
contents differ. Metadata, status and the index run are `DocumentLifecycle`'s.
A file that is already gone is no error for `delete_file`, nor is a row that is
already gone for the DELETE; for the UPDATE it is (`StaleDataError`).

### Properties and run

* `RowsUnique` - an id names one document of a channel, a url one of the database.
* `GivesUpForCause` - a creation gives up only if its url was taken or as many
  others as it had attempts were created in its channel.
* `CreatedStays` - a created document keeps its id, channel and url until somebody
  deletes that id.
* `RequestsEnd` - no circular waiting, no endless retry.

`ids_requests`: 2 creations, an update, a deletion, 2 channels, 2 urls (one per
creation), 2 attempts, 1 failing transaction. Two creations are the least that wait for each
other and lose an id to each other; two channels show the url index biting across
channels; the deletion frees an id that is taken again. A creation that loses
*all* its attempts to others needs more of them than TLC can afford, and is
covered by the theorem alone. Fairness: every request that is not waiting goes
on; failures need not happen. Deadlock in TLC's sense is not checked, as all
requests end; `RequestsEnd` says that they do.

`NoSilentOverwrite` and `UpdatedHoldsUpload` are statements of docstrings that the
code does not meet; TLC refutes them when a configuration lists them:

* the check for the file and the upload are separate calls of the storage; two
  creations without `overwrite` both pass the check, and the later upload wins
  even if its request then fails;
* the id of a deleted last document is given to the next one; an update that read
  the old row and was uploading meanwhile writes its etag into the new row.

## 5. ChannelExport and ArchiveRegister

The archive of a channel is made by a job while requests change the channel. Each
change first cancels the job and deletes the archive, except `import_document`.

| Variable | In the program |
|---|---|
| `row[d]`, `data[d][part]` | version of the row and of each part of the data of a document: the chunks, the records of each index, the file |
| `stored`, `archive` | the archive file and its entries |
| `job`, `broken` | the export job in pgqueuer's table; a job left with the status `exception` |
| `request[r]` | control state of a request: kind, document, and the parts it has `left` to write |
| `export[e]` | coroutine of an export: offset, page, batch of half-read bundles, bundles packed so far |
| `window`, `quiet`, `fresh` | history, for the properties only |

| Action | Code |
|---|---|
| `StartChange`, `PutFile`, `SaveRow`, `CancelJobs`, `LookArchive`, `DropArchive`, `EraseFile`, `CommitDelete` | the requests of the facade in the order of their awaits, `_reset_channel_export_archive` in three steps |
| `WipeData` | one task of `_delete_document_data` (of a deletion, the chunks go with its commit) |
| `IndexDocument`, `BeginRun`, `RunIndexing` | `_index_document` (a job, or the run in this request) and `index_document`: the status is written into the row, then the chunks, then the records of each index |
| `ImportRow`, `ImportData` | `import_document` |
| `AskStatus`, `EnqueueExport` | `create_channel_export_archive` |
| `Pick`, `ListPage`, `Upload`, `FinishExport` | `export_channel`: pages by LIMIT and OFFSET, batches of concurrent exports, the upload |
| `ReadPart`, `PackDocument` | `export_document`: the chunks, the records of one index after another, the file, each at an await of its own; with the file the bundle is packed |
| `ExportFails`, `LoseStream`, `Abandon`, `RequestFails` | failures, lost streams, cancellation at a heartbeat |

`ArchiveRegister` is the abstract specification: facts (this part of this document
has this version), windows of facts that held during a running export, and an
archive that may only be replaced by facts of one window or be removed.
`ImplementsRegister` is the refinement; the mapping takes the facts of all
entries of the archive.

* `ServedIsCurrent` - an archive written while no request changed the channel is
  the channel, for as long as it is served.
* `ImplementsRegister` - what an archive says of the row or of a part of a document
  was true at some moment of the export that wrote it. It may mix moments. A
  document deleted between two pages shifts the offset, and another one is then
  missing. A bundle may be torn: TLC finds one with the old chunks and the records
  and the row of an import that ran between the two reads. No read of the code asks
  for more, so the register promises no more.
* `ExportSettles` - an export that was asked for ends.

`export_archive`: ids 1 and 2, of which document 1 is there and the other one may be
imported; one update, deletion or import; an update may go on as a reindexing. One
request for an export, two coroutines; one index, so that a bundle has three parts
read apart; pages of one and batches of two, so that a batch spans pages; two
attempts and one fault. For creations, reindexing on request and more of everything
the two safety properties are covered by the theorems; `ExportSettles` is checked for this instance
only. A second request for an export meets a queued job, a status or an archive
just as the first does after its retry, and was left out to make room for the parts.

Fairness: a coroutine that exports goes on, fails or notices that it was cancelled
(which of these is left open), and the worker picks queued jobs.

A full batch goes on with what is left of the page (`Fill`). When a change shifts
the rows between two queries, a page may repeat a document that the batch already
holds: the code then packs it in two tasks into the same file of the archive, the
model once.

Abstractions: ids are not used twice (`DocumentIds` does that); text and image
chunks, two statements of one transaction, are one part, and so are the batches
that a run writes to an index; the status is written with the part that it
precedes or follows; the run of a job is a request of kind `reindex`; the status
query is atomic; a request that failed half-way is excepted from `ServedIsCurrent`; a dying server is
taken to end the stream like a complete one.

`ReadyIsCurrent` (a `ready` archive is the channel) does not hold: imports never
reset the archive. The deprecated metadata route (`app/routes.py:397-409`), which is
not modelled, has the same effect: it calls the registry without the facade.

## 6. JobWorker

Both ends of `app/jobs.py`: `_worker_main` with its done callback, the cached
access check, `enqueue_job`, the retry of `_executor_factory`, the client side
`_event_stream_helper` and the server side `run_as_event_stream`.

| Variable | In the program |
|---|---|
| `main`, `worker`, `failures` | `_worker_main`, its `worker_task`, the failures in a row |
| `access`, `known` | whether the application answers, and the answer cached for an hour |
| `job[j]` | state, attempts, and the stream the worker reads |
| `serve[s]` | an event stream of the API: its task, whether the worker still listens, the last event |
| `answered`, `late` | history |

`RunWorker`, `WorkerEnds`, `OnTaskDone`, `StopWorker`, `WorkerStops`, `MainEnds`
are the supervisor; `CheckAccess`, `EnqueueJob`, `Pick`, `Refused`, `Receive`,
`LoseStream`, `LoseWorker`, `CancelJob` the worker's side; `TaskEnds`, `Report`,
`Desert`, `TaskStops`, `ServerDies` the API's. pgqueuer is modelled from its use.

* `WorkerLives` - until the stop there is a worker or one about to be made, after
  any number of failed runs, unless the delay overflows: `2.0 ** (failures - 1)`
  is computed before it is limited and raises after 1024 unstable runs in a row,
  whereupon the callback dies. (`MaxDoublings = 0` in the run shows this case.)
* `StopsForGood` - after `_worker_main` no worker goes on, unless one ended by
  itself at the moment of the stop: its callback makes another, which nobody
  stops (`late`).
* `DoneMeansRan` - a job is successful only if an attempt returned or died with its
  server. A stream that just ends is read like a result; this is why the server
  that died is in the property.
* `DesertedEnds` - a run whose worker has left is cancelled, however long it is.
* `QueuedIsTried` - a queued job is tried, however often the worker fails.

`job_worker`: one job, two streams, two attempts, two failures of the worker, one
fault. Two failures make a first and a later restart; a lost stream and a retry
are two streams of one job. Fairness: the event loops and the worker's polling;
a job need not end unless it is cancelled. `Limit` bites in the theorems only.

## 7. ChannelImport

An archive is uploaded by a request and imported by a job in batches of
concurrent documents. `gather` raises the first exception and leaves the other
coroutines running, so the tasks of a failed attempt may go on beside the next.

| Variable | In the program |
|---|---|
| `upload`, `archive` | the request `upload_channel_archive`, its file |
| `job`, `attempt[a]` | the job and the coroutine of each attempt, with the documents left |
| `task[a][d]` | `import_document` of one document |
| `file`, `status`, `chunks`, `records` | whose content the stores of a document hold |
| `apart`, `killed` | history: attempts that no other one wrote beside; a server died |

* `ReturnedIsImported` - an attempt that returned has made each document what the
  archive says, once in every store, whatever earlier attempts left half done, if
  no other attempt was still at work beside it. With a sibling the records may be
  doubled, or the primary key of the chunks fails the retry.
* `RetryFindsArchive` - the file is deleted only when an attempt is complete or
  gives up. (A server that dies between the deletion and the end of the job makes
  the retry fail; the property speaks of attempts that did not return.)
* `SuccessMeansComplete` - a successful job has written every document, unless the
  archive was refused (`InvalidRequestError` deletes it and counts as success, a
  todo of the code) or a server died.
* `ImportEnds` - an accepted import ends.

`import_channel`: three documents in batches of two, one of them with records and
present before, one that may be refused, two attempts, two faults. Two batches
have a batch after a failed one; two attempts a retry. Fairness: coroutines that
can go on do.

Also seen in the code and part of the model: an index that the bundle has no data
for keeps its old records; when the attempts are used up the archive stays
(a todo of the code).

## 8. IndexTables

Servers share a list of indexes and a table per index, made at the first use.
`_schema_lock` serialises a server with itself only, and is released before the
transaction under it ends.

| Variable | In the program |
|---|---|
| `listing`, `entry`, `tables`, `legacy` | table `_indexes`, its rows, the tables, those of the old structure |
| `boot`, `todo`, `altered` | start of a server: `_initialize`, `_migrate_indexes` |
| `lock`, `ensure`, `known` | `_schema_lock`, the shared run of `ensure_table_exists`, `_EntityBase.metadata` |
| `op[o]` | an operation: `_get_table_name` with its retries, `_get_table`, the statement |
| `torn` | history: tables that a server knows although making them failed |

Connections are counted (`Connected`): a transaction takes one with its first
statement; one inside a request needs a second one. PostgreSQL's part (waiting
for a row or table of another transaction, failing afterwards, breaking circles
of waiting migrations) is modelled as the code relies on it.

* `UsersAgree` - whoever uses the table was configured with the metadata in the
  list, whoever inserted it.
* `KnownExists` - a table a server knows exists or is being made by the holder of
  the lock, unless making it failed: the `Table` object stays in the process's
  metadata after a rollback, and later calls skip the creation and fail until
  the server restarts (`torn`).
* `UpMeansMigrated` - no server works with tables of the old structure.
* `TriesSuffice` - there are two rows to race for, so three tries are never used up
  (the code has ten). The theorem about any number of servers has `MaxTries > 2` as
  its hypothesis; the module itself allows fewer.
* `OperationsEnd` - operations end as long as nested requests leave a connection.

`index_tables`: two servers, a new index and an old one, three operations (two of
one server, configured differently; one nested), pool of 2, two faults.
`index_pool` has two nested operations and a pool of 2.

2. **Finding: the pool deadlocks** (`index_pool`). As many deletions as the pool has
   connections hold one each and wait for another for the index storage;
   `pool.acquire` has no timeout. `document_service.search` with a matcher nests
   in the same way. The code has a todo about a separate connection.

## 9. FileCache

A download asks for metadata, asks again, and then reads the content; the file
may change in between, and the content is cached under the etag that came first.
`ReadMetadata`, `CheckFile`, `LoadFile`, `AddContent`, `CheckDirect`, `StreamFile`
are these requests, `ReadSource`, `ReadTarget`, `CopyFile`, `EndShare` those of
`copy_file_to_user`; `PutFile`, `DeleteFile`, `CachePut`, `Evict` disturb them.

An etag is a hash of the content (`document_service.py:369` and `:413` rely on it), so
a content is its own etag here, and a content that is stored again has the etag it
had before. `races` remembers which content was stored while a download that had
read an etag had not yet read the content.

* `ReadsWereTrue` - a download returns what the file was at some moment since it
  began, or a content of `races` for the etag it has read. Any other content that
  is stale, or was cached under an etag that it never met, violates the property.
* `SharedWasTrue` - the user's copy is what the document was at some moment since
  the citation was being added, whichever request made it. There is no exception:
  equal etags are equal contents.

The exception is what the code does. `DownloadsWereTrue` is the first property
without it, which is what one expects of "Download content of file with given url"
(`types.py`, `FileStorage.download_file`). No run lists it; when `file_cache` does, TLC refutes it: a
download reads the etag of A, the file becomes B, the download reads B and stores it
under the etag of A (`utils/caching.py:38`), the file becomes A again, and the next download
gets B, until the entry is evicted. The etag of the content that was delivered is
not looked at.

`file_cache`: two readers, who fill each other's entry; two sharers of one user, one of
whom may copy between the two looks of the other; three contents, one of them
too large for the cache; two writes, which bring a content back.

## 10. DocumentMatcher and Retrieval

A search reads the registry (which documents), every index in pages (which
chunks), the chunk tables, the registry again and the image files, each in its
own transaction. A deletion or an index run goes on meanwhile (`BeginChange` to
`AddRecords`); `Reorder` lets equally relevant rows change places between pages.

| Action | Code |
|---|---|
| `Select` | document selector (exact, explicit, all) or matcher; `Subsets` is `get_documents_subset` |
| `SearchPage` | `relevance_search`: one page, `Collect` keeps each result once |
| `LoadChunks`, `LoadSources`, `Expand` | `_index_search` of the classic retriever; an exception ends the index's stage (`Lose`); an image is replaced by the texts of its page (`Replaced`) |
| `Combine` (`Fused`) | `rank_fusion` over all indexes |
| `Attach` (`Required`, `ImagesOf`) | `_get_image_by_page`: all images of the required pages are loaded, those of figures too, and one without its file fails the search |
| `LoadDocuments` | `DocumentService.search` |

An image chunk is the image of a whole page or of a `figure` on it (a table or a
diagram). The search may begin over any of `Stores`: complete ones, and what
deletions and index runs leave that failed half-way. In `Lefts` of `RetrievalMC` these
are a deletion whose database part was rolled back after the files and one index
were cleaned, and an index with the records of a document that was deleted while it was
being indexed (section 3). `Gaps` is what indexes may name and is not
all there, and `unread` is what was a gap at some moment of the search.

Scores of the fusion are integers: `Scale` is a common multiple of the
denominators 60 + rank, so comparisons are exact.

* `HitsAreTheFirst` - paging gives the most relevant results, each once, as many as
  asked for or as there are.
* `ScopeKept` - nothing is found outside of what was asked for; `Asked` is the
  definition that the clauses of the matcher are judged by.
* `FusionAgrees` - the fused list has each result once and keeps every order that
  all lists agree on.
* `ImagesWithinLimit` - no more images than `num_page_images_to_use`, none twice, and
  pages that were found by their image are preferred. It holds for positive limits.
* `LosesOnlyToGaps` - the search of an index fails only if one of its hits was a gap
  at some moment, chunks are lost only if they were, and the whole search fails only
  for a gap among the documents it is about. The damage is larger than the gap: a
  missing image or a deleted document costs an index its whole list, and a page image
  without its file, or a document that a document search has found and that is gone,
  fails the whole search. Nothing has to change during the search for that: with the stores left by
  a failure it happens in peace.

`retrieval`: two documents with nine chunks (a page with two texts, its image and a
figure; a page with a text and its image twice; a page that is only an image), three
stores, two indexes, every metadata of two fields with
values in {missing, 1, 2}, every pair of four filters, with and without top
documents, a list of named documents one of which (`d3`) does not exist, pages of
4 and 2 rows, limits of 2 results and 2 images, so that a third page goes without, one disturbance. One disturbance is a whole deletion or a
whole reindexing, at any speed; two documents and two indexes are what it takes to
lose the list of one index and not that of the other. More of everything is covered
by the theorems.

What the code does with generators, dictionaries and sorting is written by places:
`Sorted` (an ordering by rank), `Firsts` (what is not preceded by its like), `At`
and `Only` (a selection), `Joined` (a concatenation of lists). Only sums (`Total`,
`Scale`) are recursive functions.

Noted while modelling: the expansion of pages may put one chunk twice into a
list, although `rank_fusion` says that lists hold unique items, hence
`UniqueLists` in `FusionAgrees`; with `num_page_images_to_use = 0`, the "maximum number
of page images" (`classic_retriever.py:180`), one image is sent, as the limit is looked
at after a page was added (line 151; TLC refutes `ImagesWithinLimit` when the run is given
`NumImages = 0`); a table or a diagram is replaced by the texts of its page if the same list has
the image of that page (line 58), although "image chunks with images of other types
are returned "as is"" (line 196); a filter without criteria is skipped when there
are others, although its description says that any filter may match.

## 11. Answering

The generator reads the model's stream, `ReferencesParser` finds references that
may be cut anywhere, and each becomes a citation: written out (MCP), an annotation
or an attachment. A cited document is shared with the user once, under a lock
per url that all chats of a server use.

`Receive` takes any prefix of the unread text (`Cut` decides how much is held back),
`EndStream` flushes; `AppendContent`, `CiteShared`, `LockUrl`, `FindDocument`,
`CopyToUser` process what was parsed; `DeleteDocument` disturbs.

* `StreamMatchesText` - sent, parsed and held back text together are the text so
  far, wherever the stream was cut. `Reading` is the definition: what references
  a whole text has.
* `MarksMatch` - numbers in the text are those of the right attachments, and no
  page is attached twice.
* `TagsFollowText` - two citations share a tag exactly when only blanks separate them.
* `AnswersEnd`, `TypeOK` - every chat ends, and a lock is held exactly while its chat
  shares the document, although another one fails in the middle.

`answering`: all texts of up to four characters over `< [ 1 ] > x`, references cut
and nested, longer texts with several citations in each kind of answer, two chats
that cite the same document, one deletion. A digit is a character; larger
numbers are a sequence of digits (`RefIndex`). `Characters` is what a text is
written in: anything but the two marks that items without a character use.

What filters a sequence or reads a number (`Selected`, `Only`, `Decimal`) is a
recursive function over positions, so that proofs can follow it: a claim about all
positions is proved by the least one at which it might fail.

Noted: text after an unterminated `<[` is held back to the end of the stream; the
attachment of a page shows only the first chunk cited; locks are never removed
from their table; a document deleted meanwhile fails the whole chat.

## 12. Proofs

Proofs are in `<Module>Proofs`, from the module's named assumption, for any
number of processes, documents, attempts and faults. Two theorems have a hypothesis
of their own: `TriesSufficeCorrect` (at least three tries) and `ImagesWithinLimitCorrect` (a
limit that is not zero); without it each is false.

`DocumentLifecycleProofs`, from `LifecycleAssumption` (distinctness of sentinels,
positive bounds; no finiteness):

| Theorem | Argument |
|---|---|
| `TypeCorrect` | one lemma per group of actions; `TypeOK` is inductive |
| `JobCorrect` | `JobInv` is inductive with `TypeOK`: the owner of the job runs it, a job that is not picked has no owner, without a lost connection every run of a job is the owner, and such a run is never inside a request |
| `OneJobRunCorrect` | `JobInv => OneJobRun`; `OneJobRun` alone is not inductive, as nothing keeps a job from being queued again while its run goes on |
| `InProgressCorrect` | inductive with `TypeOK` and `JobInv`: who leaves the run writes a final status, or was deserted, which `lost` records |
| `ErasedCorrect` | `EraseInv`: the indexes whose task ended are empty, before the commit the file is gone; `clean` carries it across the steps of others |
| `VerifiedCorrect` | `VerifyInv`: parts before `loc.part` are stored, then all; indexes outside `index_names` are exact because the run began from verified data or rebuilds all of them; the others are emptied, then filled from what was read |

`DocumentIdsProofs`, from `IdsAssumption` (finitely many creations, distinct
sentinels, at least one attempt):

| Theorem | Argument |
|---|---|
| `IdsTypeCorrect` | `TypeInv`: the bound on `tries` needs that a creation with all attempts used has given up (`TriesInv`) |
| `RowsUniqueCorrect` | `TableInv`: `RowsUnique` is not inductive, since nothing in the rows forbids a second commit of the same id; `EntryInv` says that an insert past an index excludes rows and other inserts with that entry, `RowInv` ties a row to its creation |
| `GivesUpForCauseCorrect` | `BeatenInv`: the attempts lost on ids are paid for by *distinct* creations, because the next id is greater than those of all rows, so the same winner cannot beat a creation twice (cardinality of `beaten`); an attempt lost on the url names a rival |
| `CreatedStaysCorrect` | `KeptInv` and `RowInv`: steps rewrite the etag of rows and no more, until the id is erased |

`ChannelExportProofs`, from `ExportAssumption`:

| Theorem | Argument |
|---|---|
| `ExportTypeCorrect` | `TypeOK` is inductive |
| `ExportImplementsRegister` | `WindowInv`: every part that an export has read, of bundles listed, half-read or packed, is a fact in its window, and windows only grow while the export runs; each action is then a step of the register or a stutter |
| `ServedIsCurrentCorrect` | paging loses nothing, and who changes the channel owes a reset: see below |

Documents are counted by rank: the rows of a page are those with ranks from the
offset on (`PageRanks`), a page with room left was the last one (`RoomMeansWhole`),
and filling a batch loses nothing of page and batch (`FillLosesNothing`). The
invariant is a conjunction. `QuietInv`: while an export is undisturbed no request
changes the channel. `PagingInv`: what such an export has packed are documents of the
channel as they are, the bundles of its batch are current as far as they have been read
(`Current`; the next part keeps it, and the last one completes the document, `NextIsCurrent`),
and it holds all documents with a rank below its offset. `ServedInv`: an undisturbed export's archive that is not the channel is owed
a reset by a request that has begun, and is gone once that request is past its reset.
`AskInv`: requests for an export change nothing. `ServedIsCurrent` alone is not
inductive, as it does not say that the archive is gone before a change ends.

`JobWorkerProofs`, from `WorkerAssumption`:

| Theorem | Argument |
|---|---|
| `WorkerTypeCorrect` | `TypeOK` is inductive; the attempts stay below the bound because a retry at the bound ends the job |
| `WorkerLivesCorrect`, `StopsForGoodCorrect` | an invariant over `main`, `worker`, `late`: the callback leaves no worker only if it was cancelled, which needs the stop, or overflows |
| `DoneMeansRanCorrect` | an invariant over job, owner and stream: a closed stream of an owner either carries its task's event or belongs to a server that died |

`ChannelImportProofs`, from `ImportAssumption`:

| Theorem | Argument |
|---|---|
| `ImportTypeCorrect` | `TypeOK` is inductive |
| `RetryFindsArchiveCorrect` | `Numbering` (attempts follow each other) and `Phases`: the archive is there while no attempt has returned or given up |
| `ReturnedIsImportedCorrect` | `Kept`, `Alone`, and `Progress` of each task: what a task of an attempt apart has written so far stays, since only tasks of that attempt write and a document belongs to one batch |
| `SuccessMeansCompleteCorrect` | `SuccessInv` with `Numbering`, `Kept` and `Phases`: a task that has come past its file (`Written`) has written it, an attempt returns when all its tasks have, and nobody brings the old content back; without a dead server only an attempt that returned, or gave up, makes the job successful |

`ReadingProofs`, the file cache, from `CacheAssumption`:

| Theorem | Argument |
|---|---|
| `CacheTypeCorrect` | `CacheTypeOK` with `EtagInv`: a download goes to the cache only with the etag of a file that was there |
| `ReadsWereTrueCorrect` | `CacheInv`: the entry of an etag is its content or one of `races` (`Told`), which only grow; `ReaderInv`: a download has seen its etag and the file as it is, and while it is between its two readings the file is absent, its etag's content, or one that `races` records |
| `SharedWasTrueCorrect` | `SharerInv`: what a copy holds is what the sharer has compared it with, or copied itself |

`IndexTablesProofs`, from `IndexAssumption`:

| Theorem | Argument |
|---|---|
| `TablesTypeCorrect` | `TypeOK` with `TriesInv`: who goes on has a try left |
| `UsersAgreeCorrect` | `RowInv`: at most one transaction is about to commit the row of an index, and only while there is none, so a row never changes |
| `UpMeansMigratedCorrect` | `MigrationInv`: each server that starts has every old table before it or in its transaction |
| `KnownExistsCorrect` | `LockInv`: who selects, inserts or makes a table holds the lock of its server, so nobody else gets between the entry in the metadata and the table |
| `TriesSufficeCorrect` | hypothesis `MaxTries > 2`; `RacesInv`: a try is lost while the list of indexes is made, or to the row of the index, each of which happens once |

`AnsweringProofs`, from `AnsweringAssumption`:

| Theorem | Argument |
|---|---|
| `AnsweringInvCorrect` | the inductive invariant `AnsweringInv`: `TypesInv`; `LocksInv`, the lock of a document is its chat's while that chat shares it; `FitInv`, for each chat the text, the stream and the answer fit (`Fits`), in three parts from which three of the theorems below follow |
| `TypeOKCorrect` | `TypesInv` and `LocksInv`: a chat shares one document at a time, that of its next item |
| `StreamMatchesTextCorrect` | `Streaming`: the readings of two parts of a text make up that of the whole (`ReadingConcat`) when no reference lies across the cut (`Torn`), and `Cut` tears none (`CutTearsNothing`), since what may begin a reference is held back |
| `MarksMatchCorrect` | `Marked`: a citation writes one number, the place of its page among the attachments, and attachments are only added |
| `TagsFollowTextCorrect` | `Grouped`: no tag without a group; the notes of an open group are those after which no letter was written |

The lemmas about the parser are induction over positions, by the least number at
which a claim fails (`LeastNumber`, `UpTo`), which needs no induction theorem with an
operator parameter. They say what `Only` does to a concatenation, where the
references of a concatenation lie (`RefsConcat`), and that two references never
overlap (`RefsApart`), so that each character has one `Part`.

`ReadingProofs`, the search, from `RetrievalAssumption` (finitely many chunks, with
document, type and number as key; any number of indexes, any page sizes and limit
but zero, any stores left). `RetrievalInvariant` is the inductive invariant `RetrievalInv`, the
conjunction of the parts below; `LimitOK`, which holds for zero, too, says what the images are, up to one:

| Part | Says |
|---|---|
| `StoreOK`, `RequestOK` | types; a change that goes on is one of a document; the search is restricted to documents that were asked for (`subset` within `scope`) |
| `TasksOK`, `FoundOK` | hits and results of every index are of documents of `subset`, no more than the limit; what is found is of documents of `scope`; a result said to be found by an image is on a page that has one |
| `QuietOK` | while nothing has changed, what was found by an image still has a page image in the chunk tables |
| `GapsOK` | `unread` has all gaps; what failed, or is not in a list any more, was one of its hits and unread (`OnlyGaps`) |
| `FirstOK` | while nothing has changed, the hits of an index are the first of the rows up to its offset, or of all rows once it is not read any more |
| `FusedOK` | until the images are attached or the documents loaded, what was found is what the lists combine to |

| Theorem | Argument |
|---|---|
| `RetrievalTypeCorrect` | from `StoreOK`, `RequestOK`, `TasksOK`; `CollectType` bounds the hits, `Slice` the lists |
| `HitsAreTheFirstCorrect` | the property alone is not inductive, as it says nothing of an index that is still read; `FirstOK` does, and one page more keeps it (`CollectKeeps`): what is left out of a page was met before, or the limit is reached |
| `ScopeKeptCorrect` | `SubsetsAre`: whatever filters and top documents leave was asked for; the texts of a page are of the document of its image |
| `FusionAgreesCorrect` | a result that is ahead of another in every list that has that one has a share at least as great in each (`Scale \div (60 + rank)` falls with the rank), so its sum is at least as great (`TotalIs`), and at equal sums its first place is the earlier one |
| `ImagesWithinLimitCorrect` | the pages in `Required` are the first ones of an ordering, so at most as many as the limit, and those found by an image are ahead of the others; each is given to the first result of its page |
| `LosesOnlyToGapsCorrect` | `GapsOK`: `unread` never shrinks, and each failing step names the chunk, document or file that it did not find, which is in `Gaps` at that moment |

They rest on lemmas about the operators. `SortedIs`: in a total order of a finite
set each element is at its rank, so `Sorted` has all of them, once, in order; the
ranks are cardinalities of initial parts, and every number below the cardinality is
a rank (`RankOnto`). From it follow what `At`, `Only`, `Joined` and `Firsts` return.
`RecursiveExists` says that a function with a recursive definition exists, for any
number of steps; its proof takes the least number of steps for which there is none.

The proof about the fusion is about exact shares. The program adds floating-point
numbers, one list after the other; rounded division and addition are monotone, so
the comparison of sums holds there too, but two sums that are equal here may differ
there in the last bit if the ranks come in another order of the lists.

The type invariants are theorems, also those that no run lists because nothing but
their types is in them; the runs `retrieval` and `answering` check theirs, as they say
how long the lists may be and who holds a lock.

Model-checked only: liveness under fairness, which is out of the prover's reach
(`QueuedJobSettles`, `RequestsEnd`, `ExportSettles`, `DesertedEnds`, `QueuedIsTried`,
`ImportEnds`, `OperationsEnd`, `AnswersEnd`). Every other property of a
passing run, each safety invariant, the action properties and the refinement, is a
theorem.

## 13. Not modelled

* Parsers, indexers, prompts and model calls: functions of their input.
* MCP server, request parsing, settings and dependency injection: no state beyond
  a request (the connection pool is in `IndexTables`).
* Statistics and the listing of filter values: single read-only queries. In READ
  COMMITTED the three queries of `get_channel_chunk_stats` may see different
  moments and report a `ready` document with the counts of before.
* Elasticsearch's own requests; its contract is that of the other backend. The
  creation of an index is a check and a call, so two first requests may collide.
* Authorisation and buckets of the file client; response headers. The routes
  that download an archive or a document read its metadata first and the content
  later, so the length they announce may be that of another version.
* A changed display name or metadata in document indexes: `update_document`
  returns early for a document that is `ready` (`facade_service.py:101`).
* A failed export job stays in the queue table and its status hides an archive
  that a later export wrote (`facade_service.py:219`; `Status` says so).
* Scripts, sample configuration, data classes.
