----------------------------- MODULE DocumentIds -----------------------------
(***************************************************************************)
(* How documents get their ids: concurrent create, update and delete       *)
(* requests of the channels that share one database and one DIAL bucket.   *)
(*                                                                         *)
(* A creation checks for the file, uploads it, looks for a row with its    *)
(* url, and either updates that row or inserts one under the id            *)
(* max(document_id) + 1.  The insert runs in a savepoint and is repeated   *)
(* on an IntegrityError; the row becomes visible at the commit.            *)
(*                                                                         *)
(* PostgreSQL at READ COMMITTED, as the code relies on it: a query sees    *)
(* the committed rows; an insert enters its row in the primary key and     *)
(* then in the unique index on url, fails on an entry of a committed row   *)
(* and waits on an entry of a running transaction.  The update and the     *)
(* delete of a row are flushed right before the commit: one step.          *)
(*                                                                         *)
(* A process serves one request.  Its name stands for the content it       *)
(* uploads and for the etag of that content: contents differ.              *)
(***************************************************************************)
EXTENDS Integers, FiniteSets

CONSTANTS
  Creators,   \* create requests
  Updaters,   \* update requests with an attachment
  Deleters,   \* delete requests
  Channels,   \* channels the requests are made to
  Urls,       \* urls of the uploaded files
  NoFile,     \* there is no file under the url
  NoUrl,      \* nothing loaded yet
  GivenIds,   \* ids the update and delete requests may name
  Attempts,   \* attempts to insert a row (10 in the code)
  MaxFaults   \* transactions that fail from outside, per behaviour (a bound)

Finders == Updaters \union Deleters     \* requests that name an id
Writers == Creators \union Updaters     \* requests that upload a file
Procs   == Creators \union Finders

ASSUME IdsAssumption ==
  /\ IsFiniteSet(Creators)
  /\ Creators \intersect Finders = {}
  /\ Updaters \intersect Deleters = {}
  /\ NoFile \notin Writers
  /\ NoUrl \notin Urls
  /\ GivenIds \subseteq Nat
  /\ Attempts \in Nat \ {0}
  /\ MaxFaults \in Nat

VARIABLES
  request,  \* what each creation asks for; never changes
  table,    \* the committed rows of `documents`
  file,     \* who uploaded the file now stored under each url
  pc,       \* control state of each request
  id,       \* document_id a request works with (0: none yet)
  loaded,   \* row an update or a deletion read: its channel and its url
  tries,    \* attempts to insert that failed
  faults,
  \* History: not part of the program.
  beaten    \* creations that took an id this creation was about to take

vars == <<request, table, file, pc, id, loaded, tries, faults, beaten>>

RequestType == [channel: Channels, url: Urls, overwrite: BOOLEAN]
RowType     == [channel: Channels, id: Nat, url: Urls, etag: Writers,
                by: Creators]   \* by: who inserted it (history)
LoadedType  == [channel: Channels, url: Urls \union {NoUrl}]

Ended  == {"refused", "created", "updated", "gaveup", "failed", "missing", "deleted"}
Labels == {"check", "put", "find", "write", "next", "key", "url", "commit",
           "load", "replace", "save", "erase", "delete"} \union Ended

Init ==
  /\ request \in [Creators -> RequestType]
  /\ table = {}
  /\ file = [u \in Urls |-> NoFile]
  /\ pc = [p \in Procs |-> IF p \in Creators THEN "check" ELSE "load"]
  /\ id = [p \in Procs |-> 0]
  /\ loaded \in [Finders -> {l \in LoadedType : l.url = NoUrl}]
  /\ tries = [p \in Creators |-> 0]
  /\ faults = 0
  /\ beaten = [p \in Creators |-> {}]

(***************************************************************************)
(* What the repository sees.                                               *)
(***************************************************************************)
Goto(p, label) == pc' = [pc EXCEPT ![p] = label]

\* The rows of the channel p works in.
Visible(p) == {r \in table : r.channel = request[p].channel}

\* The rows with the greatest id.
Last(p) == {r \in Visible(p) : \A s \in Visible(p) : s.id <= r.id}

(***************************************************************************)
(* Mutations: bugs this code could plausibly have; no specification uses   *)
(* them.                                                                   *)
(***************************************************************************)
\* for UrlRows: the index on url is not unique
NoRows(p) == {}

\* for NextIds: the greatest id itself
LastIds(p) == IF Visible(p) = {} THEN {1} ELSE {r.id : r \in Last(p)}

\* for Conflict: no limit on the attempts
ConflictAgain(p) == Goto(p, "next") /\ UNCHANGED tries

\* for FindByUrl: an existing row is deleted and inserted anew
FindByUrlReplacing(p) ==
  /\ pc[p] = "find"
  /\ table' = table \ {r \in Visible(p) : r.url = request[p].url}
  /\ Goto(p, "next")
  /\ UNCHANGED <<request, file, id, loaded, tries, faults, beaten>>

(***************************************************************************)
(* Ids and index entries.                                                  *)
(***************************************************************************)
\* max(document_id) + 1, or 1 when the channel has no row.
NextIds(p) == IF Visible(p) = {} THEN {1} ELSE {r.id + 1 : r \in Last(p)}

\* p has entered its row in the primary key, in the index on url.
HoldsKey(p) == pc[p] \in {"url", "commit"}
HoldsUrl(p) == pc[p] = "commit"

SameKey(p, q) == id[p] = id[q] /\ request[p].channel = request[q].channel
SameUrl(p, q) == request[p].url = request[q].url

\* Committed rows that already have the key, the url, of p's row.
KeyRows(p) == {r \in Visible(p) : r.id = id[p]}
UrlRows(p) == {r \in table : r.url = request[p].url}

KeyBusy(p) == \E q \in Creators \ {p} : HoldsKey(q) /\ SameKey(p, q)
UrlBusy(p) == \E q \in Creators \ {p} : HoldsUrl(q) /\ SameUrl(p, q)

(***************************************************************************)
(* DocumentService.create_document                                         *)
(***************************************************************************)
\* get_file_metadata: refused if there is a file, unless overwrite is set.
CheckFile(p) ==
  /\ pc[p] = "check"
  /\ Goto(p, IF file[request[p].url] # NoFile /\ ~request[p].overwrite
               THEN "refused" ELSE "put")
  /\ UNCHANGED <<request, table, file, id, loaded, tries, faults, beaten>>

\* put_file: replaces whatever is stored under the url.
PutFile(p) ==
  /\ pc[p] = "put"
  /\ file' = [file EXCEPT ![request[p].url] = p]
  /\ Goto(p, "find")
  /\ UNCHANGED <<request, table, id, loaded, tries, faults, beaten>>

\* get_by_url, within the channel.
FindByUrl(p) ==
  /\ pc[p] = "find"
  /\ \/ /\ \A r \in Visible(p) : r.url # request[p].url
        /\ Goto(p, "next")
        /\ UNCHANGED id
     \/ \E r \in Visible(p) :
          /\ r.url = request[p].url
          /\ Goto(p, "write")
          /\ id' = [id EXCEPT ![p] = r.id]
  /\ UNCHANGED <<request, table, file, loaded, tries, faults, beaten>>

\* UPDATE ... WHERE channel_key AND document_id, and the commit.  With no such
\* row the flush raises StaleDataError.
WriteRow(p) ==
  /\ pc[p] = "write"
  /\ table' = (table \ KeyRows(p)) \union {[r EXCEPT !.etag = p] : r \in KeyRows(p)}
  /\ Goto(p, IF KeyRows(p) = {} THEN "failed" ELSE "updated")
  /\ UNCHANGED <<request, file, id, loaded, tries, faults, beaten>>

(***************************************************************************)
(* DocumentService._create_document: one attempt after the other           *)
(***************************************************************************)
\* get_next_id in a new savepoint.
NextId(p) ==
  /\ pc[p] = "next"
  /\ \E n \in NextIds(p) : id' = [id EXCEPT ![p] = n]
  /\ Goto(p, "key")
  /\ UNCHANGED <<request, table, file, loaded, tries, faults, beaten>>

\* IntegrityError: back to the savepoint; the last attempt raises RetryError,
\* which rolls the whole transaction back.
Conflict(p) ==
  /\ tries' = [tries EXCEPT ![p] = @ + 1]
  /\ Goto(p, IF tries[p] + 1 < Attempts THEN "next" ELSE "gaveup")

\* INSERT, the entry in the primary key.
InsertKey(p) ==
  /\ pc[p] = "key"
  /\ KeyRows(p) = {}
  /\ ~KeyBusy(p)
  /\ Goto(p, "url")
  /\ UNCHANGED <<request, table, file, id, loaded, tries, faults, beaten>>

KeyConflict(p) ==
  /\ pc[p] = "key"
  /\ KeyRows(p) # {}
  /\ Conflict(p)
  /\ beaten' = [beaten EXCEPT ![p] = @ \union {r.by : r \in KeyRows(p)}]
  /\ UNCHANGED <<request, table, file, id, loaded, faults>>

\* INSERT, the entry in the unique index on url.
InsertUrl(p) ==
  /\ pc[p] = "url"
  /\ UrlRows(p) = {}
  /\ ~UrlBusy(p)
  /\ Goto(p, "commit")
  /\ UNCHANGED <<request, table, file, id, loaded, tries, faults, beaten>>

UrlConflict(p) ==
  /\ pc[p] = "url"
  /\ UrlRows(p) # {}
  /\ Conflict(p)
  /\ UNCHANGED <<request, table, file, id, loaded, faults, beaten>>

NewRow(p) == [channel |-> request[p].channel, id |-> id[p], url |-> request[p].url,
              etag |-> p, by |-> p]

CommitRow(p) ==
  /\ pc[p] = "commit"
  /\ table' = table \union {NewRow(p)}
  /\ Goto(p, "created")
  /\ UNCHANGED <<request, file, id, loaded, tries, faults, beaten>>

\* The transaction fails from outside (connection, storage, cancellation).
Fail(p) ==
  /\ faults < MaxFaults
  /\ pc[p] \notin Ended
  /\ faults' = faults + 1
  /\ Goto(p, "failed")
  /\ UNCHANGED <<request, table, file, id, loaded, tries, beaten>>

(***************************************************************************)
(* DocumentService.update_document and delete_document                     *)
(***************************************************************************)
\* get_by_id
LoadRow(p) ==
  /\ pc[p] = "load"
  /\ \E c \in Channels, i \in GivenIds :
       \/ /\ \A r \in table : r.channel # c \/ r.id # i
          /\ Goto(p, "missing")
          /\ UNCHANGED <<id, loaded>>
       \/ \E r \in table :
          /\ r.channel = c /\ r.id = i
          /\ id' = [id EXCEPT ![p] = i]
          /\ loaded' = [loaded EXCEPT ![p] = [channel |-> c, url |-> r.url]]
          /\ Goto(p, IF p \in Updaters THEN "replace" ELSE "erase")
  /\ UNCHANGED <<request, table, file, tries, faults, beaten>>

\* put_file under the url of the row that was read.
ReplaceFile(u) ==
  /\ pc[u] = "replace"
  /\ file' = [file EXCEPT ![loaded[u].url] = u]
  /\ Goto(u, "save")
  /\ UNCHANGED <<request, table, id, loaded, tries, faults, beaten>>

\* The rows with the primary key of the row p read.
LoadedRows(p) == {r \in table : r.channel = loaded[p].channel /\ r.id = id[p]}

\* The UPDATE holds the changed columns; url is not among them.
SaveRow(u) ==
  /\ pc[u] = "save"
  /\ table' = (table \ LoadedRows(u)) \union {[r EXCEPT !.etag = u] : r \in LoadedRows(u)}
  /\ Goto(u, IF LoadedRows(u) = {} THEN "failed" ELSE "updated")
  /\ UNCHANGED <<request, file, id, loaded, tries, faults, beaten>>

EraseFile(d) ==
  /\ pc[d] = "erase"
  /\ file' = [file EXCEPT ![loaded[d].url] = NoFile]
  /\ Goto(d, "delete")
  /\ UNCHANGED <<request, table, id, loaded, tries, faults, beaten>>

\* DELETE ... WHERE channel_key AND document_id at the commit; matching no row
\* is not an error.
DeleteRow(d) ==
  /\ pc[d] = "delete"
  /\ table' = table \ LoadedRows(d)
  /\ Goto(d, "deleted")
  /\ UNCHANGED <<request, file, id, loaded, tries, faults, beaten>>

Create(p) ==
  \/ CheckFile(p) \/ PutFile(p) \/ FindByUrl(p) \/ WriteRow(p)
  \/ NextId(p) \/ InsertKey(p) \/ KeyConflict(p)
  \/ InsertUrl(p) \/ UrlConflict(p) \/ CommitRow(p)

Update(u) == LoadRow(u) \/ ReplaceFile(u) \/ SaveRow(u)

Delete(d) == LoadRow(d) \/ EraseFile(d) \/ DeleteRow(d)

Next ==
  \/ \E p \in Creators : Create(p)
  \/ \E u \in Updaters : Update(u)
  \/ \E d \in Deleters : Delete(d)
  \/ \E p \in Procs : Fail(p)

Spec == Init /\ [][Next]_vars

\* The event loop and PostgreSQL keep running every request that is not waiting.
Fairness == /\ \A p \in Creators : WF_vars(Create(p))
            /\ \A u \in Updaters : WF_vars(Update(u))
            /\ \A d \in Deleters : WF_vars(Delete(d))

FairSpec == Spec /\ Fairness

(***************************************************************************)
(* Properties.                                                             *)
(***************************************************************************)
\* Values keep their types: ids are never negative, and no creation fails more
\* often than _create_document retries.
TypeOK ==
  /\ request \in [Creators -> RequestType]
  /\ table \subseteq RowType
  /\ file \in [Urls -> Writers \union {NoFile}]
  /\ pc \in [Procs -> Labels]
  /\ id \in [Procs -> Nat]
  /\ loaded \in [Finders -> LoadedType]
  /\ tries \in [Creators -> 0..Attempts]
  /\ faults \in 0..MaxFaults
  /\ beaten \in [Creators -> SUBSET Creators]

\* Whatever creations race for the greatest id, an id names one document of a
\* channel and a url one document of the database.
RowsUnique ==
  /\ \A r, s \in table : r.channel = s.channel /\ r.id = s.id => r = s
  /\ \A r, s \in table : r.url = s.url => r = s

Created(p) == pc[p] = "created"

\* A creation whose url nobody else inserted gives up only if at least as many
\* other creations of its channel as it had attempts (stop_after_attempt) each
\* took an id from it: with at most ten others at once, it never gives up.
GivesUpForCause ==
  \A p \in Creators : pc[p] = "gaveup" =>
    \/ \E q \in Creators \ {p} : Created(q) /\ SameUrl(p, q)
    \/ Cardinality({q \in Creators \ {p} :
                      Created(q) /\ request[q].channel = request[p].channel}) >= Attempts

\* A deletion of the id that creation p got has ended.
Erased(p) ==
  \E d \in Deleters : /\ pc[d] = "deleted" /\ id[d] = id[p]
                      /\ loaded[d].channel = request[p].channel

\* The document a creation returned stays in the channel under the id it was
\* returned with, however many others overwrite it, until somebody deletes it.
CreatedStays ==
  \A p \in Creators : Created(p) =>
    \/ Erased(p)
    \/ \E r \in table : /\ r.id = id[p] /\ r.channel = request[p].channel
                        /\ r.url = request[p].url

\* Requests that wait for each other's index entries never wait in a cycle, and
\* the retries end: every request is answered.
RequestsEnd == \A p \in Procs : <>(pc[p] \in Ended)

\* "Operation will overwrite existing file, which is not allowed": an upload
\* without `overwrite` replaces no file.
NoSilentOverwrite ==
  [][\A p \in Creators : pc[p] = "put" /\ pc'[p] = "find" /\ ~request[p].overwrite
       => file[request[p].url] = NoFile]_vars

\* "Update document with given ID by replacing its content": the row that an
\* update wrote and returns belongs to the file that the update uploaded.
UpdatedHoldsUpload ==
  [][\A u \in Updaters : pc[u] = "save" /\ pc'[u] = "updated" =>
       \E r \in table' : r.etag = u /\ r.url = loaded[u].url]_vars
=============================================================================
