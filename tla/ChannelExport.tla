--------------------------- MODULE ChannelExport ---------------------------
(***************************************************************************)
(* The export archive of one channel: requests change documents and reset  *)
(* the archive (FacadeService), jobs write it (ExportService), a status is *)
(* reported and the archive is served.                                     *)
(*                                                                         *)
(* A document is its row and its data, in parts that are written and read  *)
(* apart: the chunks, the records of each index, the file.                 *)
(* Every change raises the versions of what it writes.  Nothing locks a    *)
(* channel, so an export, the changes and the resets interleave at every   *)
(* await, and a bundle may mix the parts of two states of its document.    *)
(***************************************************************************)
EXTENDS Naturals, Sequences, FiniteSets

CONSTANTS
  Ids,          \* document ids
  Present,      \* the documents that are there at the start
  Changers,     \* handlers of requests that change the channel, one each
  Askers,       \* handlers of requests for an export, one each
  Kinds,        \* the kinds of change that are made
  Exporters,    \* coroutines that serve export jobs
  NumIndexes,   \* indexes of the channel
  PageSize,     \* documents per page of _iter_documents (25 in the code)
  BatchSize,    \* documents exported at a time (10 in the code)
  MaxAttempts,  \* attempts of a job (3 in the code)
  MaxFaults,    \* bound on faults
  NoExporter, NoDoc

ASSUME ExportAssumption ==
  /\ Ids \subseteq Nat /\ IsFiniteSet(Ids)
  /\ Present \subseteq Ids
  /\ Kinds \subseteq {"create", "update", "delete", "reindex", "import"}
  /\ Changers \intersect Askers = {}
  /\ NumIndexes \in Nat
  /\ PageSize \in Nat \ {0} /\ BatchSize \in Nat \ {0}
  /\ MaxAttempts \in Nat \ {0} /\ MaxFaults \in Nat
  /\ NoExporter \notin Exporters
  /\ NoDoc \notin Ids

VARIABLES
  row,      \* version of each row, 0: there is none
  data,     \* version of each part of a document's data, 0: there is no file
  stored,   \* whether there is an archive
  archive,  \* its entries
  job,      \* the export job of this channel that is queued or picked
  broken,   \* whether an export job was left with the status `exception'
  request,  \* control state of the requests
  export,   \* control state and local variables of the exports
  faults,   \* faults so far
  window,   \* history: what held of the channel since each export began
  quiet,    \* history: exports during which no request changed the channel
  fresh     \* history: whether a quiet export wrote the archive

vars == <<row, data, stored, archive, job, broken, request, export, faults,
          window, quiet, fresh>>

Requests == Changers \union Askers

Steps == {"idle", "put", "row", "cancel", "look", "drop", "wipe", "index", "begin",
          "run", "fill", "erase", "commit", "ask", "enqueue", "done"}

(* The parts of a document, in the order in which an export reads them; all *)
(* but the file are made by indexing.                                       *)
Row == 0
Chunks == 1
Indexes == 2..(NumIndexes + 1)
File == NumIndexes + 2

Parts == 1..File
Indexed == {Chunks} \union Indexes

(* What an export holds of a document: its row and the parts read so far.  *)
Bundle == [doc : Ids, row : Nat, data : Seq(Nat)]
Fact == [doc : Ids, part : {Row} \union Parts, version : Nat]

FactsOf(x) == {[doc |-> x.doc, part |-> Row, version |-> x.row]}
              \union {[doc |-> x.doc, part |-> p, version |-> x.data[p]] : p \in DOMAIN x.data}

Rows == {d \in Ids : row[d] # 0}

Shown(d) == [doc |-> d, row |-> row[d], data |-> data[d]]

(* The channel as an archive should show it. *)
Channel == {Shown(d) : d \in Rows}

Facts == UNION {FactsOf(Shown(d)) : d \in Ids}

Idle == [pc |-> "idle", offset |-> 0, page |-> {}, batch |-> {}, packed |-> {}]

NoJob == [state |-> "none", attempts |-> 0, owner |-> NoExporter]

Init ==
  /\ row = [d \in Ids |-> IF d \in Present THEN 1 ELSE 0]
  /\ data = [d \in Ids |-> [p \in Parts |-> IF d \in Present THEN 1 ELSE 0]]
  /\ stored = FALSE /\ archive = {}
  /\ job = NoJob
  /\ broken = FALSE
  /\ request = [r \in Requests |-> [pc |-> "idle", kind |-> "none", doc |-> NoDoc, left |-> {}]]
  /\ export = [e \in Exporters |-> Idle]
  /\ faults = 0
  /\ window = [e \in Exporters |-> {}]
  /\ quiet = {}
  /\ fresh = FALSE
----------------------------------------------------------------------------
(* Requests. *)

(* Requests that change the channel and have not ended. *)
Changing == {r \in Changers : request[r].pc \notin {"idle", "done"}}

Goto(r, pc) == request' = [request EXCEPT ![r].pc = pc]

(* These parts are left to write; the request goes on when none is.        *)
Proceed(r, parts, pc, next) ==
  request' = [request EXCEPT ![r].left = parts, ![r].pc = IF parts = {} THEN next ELSE pc]

(* The writes of a request, and what the running exports may see of them. *)
Write(newRow, newData) ==
  /\ row' = newRow
  /\ data' = newData
  /\ window' = [e \in Exporters |->
                  IF window[e] = {} THEN {} ELSE window[e] \union Facts']

Raise(f, d) == [f EXCEPT ![d] = @ + 1]

Renewed(d, part) == [data EXCEPT ![d][part] = @ + 1]

(* UPDATE: a row that is gone is not written. *)
Updated(d) == IF row[d] = 0 THEN row ELSE Raise(row, d)

NoWrite == UNCHANGED <<row, data, window>>

NoExport == UNCHANGED <<export, faults>>

(* The first step of create_document, update_document (which may have no   *)
(* file), delete_document, reindex_document and import_document.           *)
FirstSteps(kind) == IF kind \in {"delete", "reindex"} THEN {"cancel"}
                    ELSE IF kind = "update" THEN {"put", "row"} ELSE {"put"}

Begin(r, pc, kind, d) ==
  /\ request[r].pc = "idle"
  /\ request' = [request EXCEPT ![r] = [pc |-> pc, kind |-> kind, doc |-> d, left |-> {}]]
  /\ NoWrite /\ NoExport /\ UNCHANGED <<stored, archive, job, broken, fresh>>

(* A new document gets the next id. *)
StartChange(r, kind, d) ==
  /\ r \in Changers
  /\ \/ kind # "create" /\ row[d] # 0
     \/ /\ kind \in {"create", "import"} /\ data[d][File] = 0
        /\ \A x \in Rows : x < d
        /\ \A s \in Changers : request[s].doc # d
  /\ \E pc \in FirstSteps(kind) : Begin(r, pc, kind, d)
  /\ quiet' = {}

StartExport(r) ==
  /\ r \in Askers
  /\ Begin(r, "ask", "export", NoDoc)
  /\ UNCHANGED quiet

PutFile(r) ==
  /\ request[r].pc = "put"
  /\ Write(row, Renewed(request[r].doc, File))
  /\ Goto(r, "row")
  /\ NoExport /\ UNCHANGED <<stored, archive, job, broken, quiet, fresh>>

(* The row is inserted or updated. *)
SaveRow(r) ==
  LET d == request[r].doc IN
  /\ request[r].pc = "row" /\ request[r].kind \in {"create", "update"}
  /\ request[r].kind = "update" => row[d] # 0
  /\ Write(Raise(row, d), data)
  /\ Goto(r, "cancel")
  /\ NoExport /\ UNCHANGED <<stored, archive, job, broken, quiet, fresh>>

(* _reset_channel_export_archive: the export job is cancelled, a stored    *)
(* archive is looked for and deleted.                                      *)
CancelJobs(r) ==
  /\ request[r].pc = "cancel"
  /\ job' = NoJob
  /\ Goto(r, "look")
  /\ NoWrite /\ NoExport /\ UNCHANGED <<stored, archive, broken, quiet, fresh>>

(* What follows a reset.  A document that is ready needs no new data; the  *)
(* chunks of a deleted one are deleted in the transaction of the deletion. *)
AfterReset(r) ==
  CASE request[r].kind = "delete" -> Proceed(r, Indexes, "wipe", "erase")
    [] request[r].kind = "reindex" -> Goto(r, "begin")
    [] OTHER -> Proceed(r, Indexed, "wipe", "index") \/ Goto(r, "done")

LookArchive(r) ==
  /\ request[r].pc = "look"
  /\ \/ stored /\ Goto(r, "drop")
     \/ ~stored /\ AfterReset(r)
  /\ NoWrite /\ NoExport /\ UNCHANGED <<stored, archive, job, broken, quiet, fresh>>

DropArchive(r) ==
  /\ request[r].pc = "drop"
  /\ stored' = FALSE /\ archive' = {}
  /\ fresh' = FALSE
  /\ AfterReset(r)
  /\ NoWrite /\ NoExport /\ UNCHANGED <<job, broken, quiet>>

(* One of the parts that are left is written. *)
WritePart(r, part, newRow, next) ==
  /\ part \in request[r].left
  /\ Write(newRow, Renewed(request[r].doc, part))
  /\ Proceed(r, request[r].left \ {part}, request[r].pc, next)

(* Chunks are written first, and need their document's row. *)
InTurn(r, part) == Chunks \in request[r].left => part = Chunks /\ row[request[r].doc] # 0

(* _delete_document_data, in any order. *)
WipeData(r) ==
  /\ request[r].pc = "wipe"
  /\ \E part \in Indexed :
       WritePart(r, part, row, IF request[r].kind = "delete" THEN "erase" ELSE "index")
  /\ NoExport /\ UNCHANGED <<stored, archive, job, broken, quiet, fresh>>

(* The document is indexed by a job, or by this request, which resets the  *)
(* archive once more.                                                      *)
IndexDocument(r) ==
  /\ request[r].pc = "index"
  /\ \/ Goto(r, "done")
     \/ request' = [request EXCEPT ![r].pc = "cancel", ![r].kind = "reindex"]
  /\ NoWrite /\ NoExport /\ UNCHANGED <<stored, archive, job, broken, quiet, fresh>>

(* A run processes the document and builds every index, or builds some.    *)
BeginRun(r) ==
  /\ request[r].pc = "begin"
  /\ Write(Updated(request[r].doc), data)
  /\ \E parts \in {Indexed} \union SUBSET Indexes : Proceed(r, parts, "run", "done")
  /\ NoExport /\ UNCHANGED <<stored, archive, job, broken, quiet, fresh>>

(* The status is written around the chunks and around the records. *)
RunIndexing(r) ==
  /\ request[r].pc = "run"
  /\ \E part \in Indexed :
       InTurn(r, part) /\ WritePart(r, part, Updated(request[r].doc), "done")
  /\ NoExport /\ UNCHANGED <<stored, archive, job, broken, quiet, fresh>>

EraseFile(r) ==
  /\ request[r].pc = "erase"
  /\ Write(row, [data EXCEPT ![request[r].doc][File] = 0])
  /\ Goto(r, "commit")
  /\ NoExport /\ UNCHANGED <<stored, archive, job, broken, quiet, fresh>>

CommitDelete(r) ==
  /\ request[r].pc = "commit"
  /\ Write([row EXCEPT ![request[r].doc] = 0], Renewed(request[r].doc, Chunks))
  /\ Goto(r, "done")
  /\ NoExport /\ UNCHANGED <<stored, archive, job, broken, quiet, fresh>>

(* import_document writes the row, then the chunks and the records that the *)
(* bundle has, and resets nothing: neither it nor import_channel_archive    *)
(* knows of the archive.                                                    *)
ImportRow(r) ==
  /\ request[r].pc = "row" /\ request[r].kind = "import"
  /\ Write(Raise(row, request[r].doc), data)
  /\ fresh' = FALSE
  /\ \E parts \in SUBSET Indexes : Proceed(r, {Chunks} \union parts, "fill", "done")
  /\ NoExport /\ UNCHANGED <<stored, archive, job, broken, quiet>>

ImportData(r) ==
  /\ request[r].pc = "fill"
  /\ \E part \in Indexed : InTurn(r, part) /\ WritePart(r, part, row, "done")
  /\ fresh' = FALSE
  /\ NoExport /\ UNCHANGED <<stored, archive, job, broken, quiet>>

(* The row was deleted before it is updated or chunks are added. *)
RowGone(r) ==
  /\ row[request[r].doc] = 0
  /\ \/ request[r].pc = "row" /\ request[r].kind = "update"
     \/ request[r].pc \in {"run", "fill"} /\ Chunks \in request[r].left

(* An exception, after which a run writes `error', or the death of the     *)
(* process.  What a request has changed before its reset stays in a stored *)
(* archive.                                                                *)
RequestFails(r) ==
  /\ r \in Changing
  /\ \/ faults < MaxFaults /\ faults' = faults + 1
     \/ RowGone(r) /\ UNCHANGED faults
  /\ \/ NoWrite
     \/ request[r].pc = "run" /\ Write(Updated(request[r].doc), data)
  /\ Goto(r, "done")
  /\ fresh' = FALSE
  /\ quiet' = {}
  /\ UNCHANGED <<stored, archive, job, broken, export>>

(* create_channel_export_archive(background=True) *)
Status == IF job.state # "none" THEN "pending"
          ELSE IF broken THEN "error"
          ELSE IF stored THEN "ready" ELSE "not_found"

AskStatus(r) ==
  /\ request[r].pc = "ask"
  /\ Goto(r, IF Status \in {"pending", "ready"} THEN "done" ELSE "enqueue")
  /\ NoWrite /\ NoExport /\ UNCHANGED <<stored, archive, job, broken, quiet, fresh>>

(* The dedupe key refuses a second job. *)
EnqueueExport(r) ==
  /\ request[r].pc = "enqueue"
  /\ job' = IF job.state = "none" THEN [NoJob EXCEPT !.state = "queued"] ELSE job
  /\ Goto(r, "done")
  /\ NoWrite /\ NoExport /\ UNCHANGED <<stored, archive, broken, quiet, fresh>>
----------------------------------------------------------------------------
(* Exports. *)

(* Mutant of PageOf: the offset is counted from one. *)
PageOfFromOne(offset) ==
  {d \in Rows : LET before == Cardinality({x \in Rows : x > d}) + 1
                IN  offset < before - 1 /\ before <= offset + PageSize + 1}

(* The OFFSET and LIMIT of a page over ids in descending order. *)
PageOf(offset) ==
  {d \in Rows : LET before == Cardinality({x \in Rows : x > d})
                IN  offset <= before /\ before < offset + PageSize}

RowOf(d) == [doc |-> d, row |-> row[d], data |-> <<>>]

(* The first documents of a page, as many as a batch has room for. *)
Front(page, batch) ==
  {x \in page : Cardinality({y \in page : y.doc > x.doc}) < BatchSize - Cardinality(batch)}

(* batched_async: the batch is filled from the page; a full one is packed, *)
(* otherwise the next page is listed.  What changes meanwhile have listed   *)
(* twice is taken once.                                                     *)
Fill(x, page, batch) ==
  LET full == batch \union Front(page \ batch, batch)
  IN  [x EXCEPT !.page = page \ full, !.batch = full,
                !.pc = IF Cardinality(full) >= BatchSize THEN "pack" ELSE "list"]

Pick(e) ==
  /\ job.state = "queued" /\ export[e] = Idle
  /\ job' = [job EXCEPT !.state = "picked", !.owner = e]
  /\ export' = [export EXCEPT ![e].pc = "list"]
  /\ window' = [window EXCEPT ![e] = Facts]
  /\ quiet' = IF Changing = {} THEN quiet \union {e} ELSE quiet
  /\ UNCHANGED <<row, data, stored, archive, broken, request, faults, fresh>>

ListPage(e) ==
  LET x == export[e]
      ids == PageOf(x.offset)
  IN  /\ x.pc = "list"
      /\ export' = [export EXCEPT ![e] =
           IF ids = {} THEN [x EXCEPT !.pc = IF x.batch = {} THEN "upload" ELSE "last"]
           ELSE Fill([x EXCEPT !.offset = @ + Cardinality(ids)], {RowOf(d) : d \in ids}, x.batch)]
      /\ NoWrite /\ UNCHANGED <<stored, archive, job, broken, request, faults, quiet, fresh>>

(* export_document of one document of the batch: its parts are read one by *)
(* one, its row was read with the page.                                    *)
NextPart(x) == Len(x.data) + 1

WithNext(x) == [x EXCEPT !.data = Append(@, data[x.doc][NextPart(x)])]

ReadPart(e) ==
  /\ export[e].pc \in {"pack", "last"}
  /\ \E x \in export[e].batch :
       /\ NextPart(x) < File
       /\ export' = [export EXCEPT ![e].batch = (@ \ {x}) \union {WithNext(x)}]
  /\ NoWrite /\ UNCHANGED <<stored, archive, job, broken, request, faults, quiet, fresh>>

(* The file is read last; the bundle is packed.  *)
PackDocument(e) ==
  LET u == export[e] IN
  /\ u.pc \in {"pack", "last"}
  /\ \E x \in u.batch :
       /\ NextPart(x) = File /\ data[x.doc][File] # 0
       /\ LET rest == u.batch \ {x}
              v == [u EXCEPT !.batch = rest, !.packed = @ \union {WithNext(x)}]
          IN  export' = [export EXCEPT ![e] =
                IF rest # {} THEN v
                ELSE IF u.pc = "last" THEN [v EXCEPT !.pc = "upload"]
                ELSE Fill(v, u.page, {})]
  /\ NoWrite /\ UNCHANGED <<stored, archive, job, broken, request, faults, quiet, fresh>>

(* Mutant of Upload: the entries are added to those of an archive that is there. *)
UploadMore(e) ==
  /\ export[e].pc = "upload"
  /\ stored' = TRUE /\ archive' = archive \union export[e].packed
  /\ fresh' = (e \in quiet)
  /\ export' = [export EXCEPT ![e].pc = "published"]
  /\ NoWrite /\ UNCHANGED <<job, broken, request, faults, quiet>>

Upload(e) ==
  /\ export[e].pc = "upload"
  /\ stored' = TRUE /\ archive' = export[e].packed
  /\ fresh' = (e \in quiet)
  /\ export' = [export EXCEPT ![e].pc = "published"]
  /\ NoWrite /\ UNCHANGED <<job, broken, request, faults, quiet>>

Leave(e) ==
  /\ export' = [export EXCEPT ![e] = Idle]
  /\ window' = [window EXCEPT ![e] = {}]
  /\ quiet' = quiet \ {e}
  /\ UNCHANGED <<row, data>>

(* Mutant of Ended: the job stays with a coroutine that is gone. *)
EndedForNobody(e) == job

Ended(e) == IF job.owner = e THEN NoJob ELSE job

FinishExport(e) ==
  /\ export[e].pc = "published"
  /\ Leave(e)
  /\ job' = Ended(e)
  /\ UNCHANGED <<stored, archive, broken, request, faults, fresh>>

(* A document has no file, or loses the files of image chunks while they   *)
(* are read (they are deleted before their chunks are).                    *)
FileMissing(x) ==
  \/ NextPart(x) = File /\ data[x.doc][File] = 0
  \/ /\ NextPart(x) = Chunks
     /\ \E r \in Changing : request[r].doc = x.doc
                            /\ request[r].pc \in {"wipe", "run", "fill", "erase", "commit"}

(* A missing file, any other exception (answered with the status `error',  *)
(* and a job that is done), or the death of the process, after which the   *)
(* stream ends like a complete one.                                        *)
ExportFails(e) ==
  /\ export[e].pc \in {"list", "pack", "last", "upload"}
  /\ \/ faults < MaxFaults /\ faults' = faults + 1
     \/ /\ export[e].pc \in {"pack", "last"}
        /\ \E x \in export[e].batch : FileMissing(x)
        /\ UNCHANGED faults
  /\ Leave(e)
  /\ job' = Ended(e)
  /\ UNCHANGED <<stored, archive, broken, request, fresh>>

(* The worker loses the stream and retries; the export goes on. *)
LoseStream(e) ==
  /\ job.owner = e /\ faults < MaxFaults
  /\ faults' = faults + 1
  /\ \/ /\ job.attempts + 1 < MaxAttempts
        /\ job' = [state |-> "queued", attempts |-> job.attempts + 1, owner |-> NoExporter]
        /\ UNCHANGED broken
     \/ /\ job.attempts + 1 >= MaxAttempts
        /\ job' = NoJob
        /\ broken' = TRUE
  /\ NoWrite /\ UNCHANGED <<stored, archive, request, export, quiet, fresh>>

(* A heartbeat finds the worker gone: the job was cancelled or lost. *)
Abandon(e) ==
  /\ export[e] # Idle /\ job.owner # e
  /\ Leave(e)
  /\ UNCHANGED <<stored, archive, job, broken, request, faults, fresh>>
----------------------------------------------------------------------------
RequestStep(r) ==
  \/ PutFile(r) \/ SaveRow(r)
  \/ CancelJobs(r) \/ LookArchive(r) \/ DropArchive(r)
  \/ WipeData(r) \/ IndexDocument(r) \/ BeginRun(r) \/ RunIndexing(r) \/ EraseFile(r) \/ CommitDelete(r)
  \/ ImportRow(r) \/ ImportData(r)
  \/ AskStatus(r) \/ EnqueueExport(r)

ExportStep(e) ==
  ListPage(e) \/ ReadPart(e) \/ PackDocument(e) \/ Upload(e) \/ FinishExport(e)

Next ==
  \/ \E r \in Changers, kind \in Kinds, d \in Ids : StartChange(r, kind, d)
  \/ \E r \in Askers : StartExport(r)
  \/ \E r \in Requests : RequestStep(r) \/ RequestFails(r)
  \/ \E e \in Exporters : Pick(e) \/ ExportStep(e)
  \/ \E e \in Exporters : ExportFails(e) \/ LoseStream(e) \/ Abandon(e)

Spec == Init /\ [][Next]_vars

(* Coroutines that can go on do, the worker picks queued jobs, and a file  *)
(* that is missing fails the export.                                       *)
FairSpec ==
  /\ Spec
  /\ \A e \in Exporters : WF_vars(ExportStep(e) \/ ExportFails(e) \/ Abandon(e))
  /\ WF_vars(\E e \in Exporters : Pick(e))
----------------------------------------------------------------------------
TypeOK ==
  /\ row \in [Ids -> Nat] /\ data \in [Ids -> [Parts -> Nat]]
  /\ stored \in BOOLEAN /\ archive \in SUBSET Bundle
  /\ job \in [state : {"none", "queued", "picked"}, attempts : Nat,
              owner : Exporters \union {NoExporter}]
  /\ job.attempts < MaxAttempts
  /\ broken \in BOOLEAN
  /\ request \in [Requests -> [pc : Steps, doc : Ids \union {NoDoc}, left : SUBSET Indexed,
                               kind : {"none", "export", "create", "update", "delete",
                                       "reindex", "import"}]]
  /\ export \in [Exporters -> [pc : {"idle", "list", "pack", "last", "upload", "published"},
                               offset : Nat, page : SUBSET Bundle,
                               batch : SUBSET Bundle, packed : SUBSET Bundle]]
  /\ faults \in 0..MaxFaults
  /\ window \in [Exporters -> SUBSET Fact]
  /\ quiet \in SUBSET Exporters
  /\ fresh \in BOOLEAN

(* An archive that an export wrote while no request changed the channel is *)
(* the channel, for as long as it is served: every change since then has   *)
(* removed it (_reset_channel_export_archive), or is still going on.  No   *)
(* document is skipped or repeated by the pages and the batches.  Imports  *)
(* and changes that failed half-way are the exceptions.                    *)
ServedIsCurrent ==
  stored /\ fresh /\ Changing = {} => archive = Channel

(* Exports implement ArchiveRegister: what the archive says of a part of a *)
(* document was true at some moment of the export that wrote it, however   *)
(* requests, cancelled exports and retries interleave with the reads.  The *)
(* parts of one bundle may be of different moments.                        *)
Register == INSTANCE ArchiveRegister WITH
  facts <- Facts,
  archive <- UNION {FactsOf(x) : x \in archive}

ImplementsRegister == Register!RegSpec

(* An export that was asked for ends, published or failed, although its    *)
(* worker may be lost and requests may cancel it.                          *)
ExportSettles == (job.state # "none") ~> (job.state = "none")

(* "Create the archive with channel's content" (the docstring of           *)
(* create_channel_export_archive, which answers `ready' without an export  *)
(* when there is an archive): what is ready is the channel.                *)
ReadyIsCurrent ==
  Status = "ready" /\ Changing = {} => archive = Channel
============================================================================
