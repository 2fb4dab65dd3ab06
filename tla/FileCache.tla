----------------------------- MODULE FileCache -----------------------------
(***************************************************************************)
(* Reading and sharing one file of the DIAL storage through the cache of a *)
(* server (CachingFileStorage over DialFileStorage).                       *)
(*                                                                         *)
(* A file is downloaded with several requests: its metadata, the metadata  *)
(* once more, then the content; it may change between any two of them.     *)
(* The content is cached under the etag that came first.  The etag is a    *)
(* hash, so a content is its own etag, and a content that is stored again  *)
(* has the etag it had before.                                             *)
(***************************************************************************)
EXTENDS Naturals

CONSTANTS
  Readers,     \* coroutines that download the file, one download each
  Sharers,     \* coroutines that share it with the same user
  Contents,    \* contents of the file
  Big,         \* those that do not fit into the cache
  Absent,      \* no file
  MaxWrites    \* bound on the changes of the file

ASSUME CacheAssumption ==
  /\ Big \subseteq Contents /\ Absent \notin Contents
  /\ MaxWrites \in Nat /\ Readers \intersect Sharers = {}

VARIABLES
  file,    \* the content that is stored, or Absent
  writes,  \* changes of the file so far
  cache,   \* for each etag the content cached under it, or Absent
  adding,  \* contents that the server has put and not cached yet
  reader,  \* control state and local variables of the downloads
  sharer,  \* of the copies to the user
  copy,    \* the user's copy
  seen,    \* history: the contents that were stored since a download or copy began
  races    \* history: <<etag, content>>: stored while a download that had read the
           \* etag had not read the content

cacheVars == <<file, writes, cache, adding, reader, sharer, copy, seen, races>>

Clients == Readers \union Sharers
Files == Contents \union {Absent}

CacheInit ==
  /\ file \in Files /\ writes = 0
  /\ cache = [e \in Contents |-> Absent]
  /\ adding = {}
  /\ reader = [r \in Readers |-> [pc |-> "idle", etag |-> Absent, got |-> Absent]]
  /\ sharer = [s \in Sharers |-> [pc |-> "idle", etag |-> Absent]]
  /\ copy \in Files  \* an earlier request may have shared the file
  /\ seen = [c \in Clients |-> {}]
  /\ races = {}
----------------------------------------------------------------------------
(* Changes of the file, by this server and others. *)

(* The downloads between their two readings. *)
Fetching == {r \in Readers : reader[r].pc \in {"check", "load"}}

Store(v) ==
  /\ writes < MaxWrites
  /\ writes' = writes + 1
  /\ file' = v
  /\ seen' = [c \in Clients |-> IF seen[c] = {} THEN {} ELSE seen[c] \union {v}]
  /\ races' = races \union {<<reader[r].etag, v>> : r \in Fetching}
  /\ UNCHANGED <<cache, reader, sharer, copy>>

(* put_file caches bytes, but not a stream. *)
PutFile ==
  \E v \in Contents : Store(v) /\ adding' \in {adding, adding \union {v}}

(* delete_file leaves the cache alone. *)
DeleteFile ==
  /\ file # Absent
  /\ Store(Absent)
  /\ UNCHANGED adding

(* _add_to_cache: what is too large for the cache is not added (ValueError). *)
Cached(etag, v) == IF v \in Big THEN cache ELSE [cache EXCEPT ![etag] = v]

CachePut ==
  /\ \E v \in adding : cache' = Cached(v, v) /\ adding' = adding \ {v}
  /\ UNCHANGED <<file, writes, reader, sharer, copy, seen, races>>

(* Other files push entries out. *)
Evict(e) ==
  /\ cache[e] # Absent
  /\ cache' = [cache EXCEPT ![e] = Absent]
  /\ UNCHANGED <<file, writes, adding, reader, sharer, copy, seen, races>>
----------------------------------------------------------------------------
(* download_file *)

Reading == UNCHANGED <<file, writes, adding, sharer, copy, races>>

Goto(r, pc) == reader' = [reader EXCEPT ![r].pc = pc]

Return(r, etag, v) == reader' = [reader EXCEPT ![r] = [pc |-> "done", etag |-> etag, got |-> v]]

Begin(c) == seen' = [seen EXCEPT ![c] = {file}]

(* Mutant of ReadMetadata: the cache is asked for the url alone. *)
ReadMetadataAnyEtag(r) ==
  /\ reader[r].pc = "idle"
  /\ Begin(r)
  /\ IF \E e \in Contents : cache[e] # Absent
     THEN \E e \in Contents : cache[e] # Absent /\ Return(r, file, cache[e])
     ELSE reader' = [reader EXCEPT ![r].etag = file,
            ![r].pc = IF file # Absent /\ file \notin Big THEN "check" ELSE "direct"]
  /\ Reading /\ UNCHANGED cache

Hit(etag) == etag # Absent /\ cache[etag] # Absent

(* The metadata: a hit is answered from the cache, and what is absent or    *)
(* too large for the cache is downloaded directly.                          *)
ReadMetadata(r) ==
  /\ reader[r].pc = "idle"
  /\ Begin(r)
  /\ IF Hit(file) THEN Return(r, file, cache[file])
     ELSE reader' = [reader EXCEPT ![r].etag = file,
            ![r].pc = IF file # Absent /\ file \notin Big THEN "check" ELSE "direct"]
  /\ Reading /\ UNCHANGED cache

(* The storage looks for the file again; meanwhile another download may     *)
(* have filled the entry.                                                   *)
CheckFile(r) ==
  /\ reader[r].pc = "check"
  /\ \/ file # Absent /\ Goto(r, "load")
     \/ file = Absent /\ Hit(reader[r].etag) /\ Return(r, reader[r].etag, cache[reader[r].etag])
     \/ file = Absent /\ ~Hit(reader[r].etag) /\ Goto(r, "direct")
  /\ Reading /\ UNCHANGED <<cache, seen>>

(* The content; a file that is gone raises. *)
LoadFile(r) ==
  /\ reader[r].pc = "load"
  /\ IF file = Absent THEN Goto(r, "failed")
     ELSE reader' = [reader EXCEPT ![r].pc = "add", ![r].got = file]
  /\ Reading /\ UNCHANGED <<cache, seen>>

(* All chunks are there: cached, and served from the cache. *)
AddContent(r) ==
  LET etag == reader[r].etag IN
  /\ reader[r].pc = "add"
  /\ cache' = Cached(etag, reader[r].got)
  /\ IF cache'[etag] # Absent THEN Return(r, etag, cache'[etag]) ELSE Goto(r, "direct")
  /\ Reading /\ UNCHANGED seen

(* The download without the cache. *)
CheckDirect(r) ==
  /\ reader[r].pc = "direct"
  /\ IF file = Absent THEN Return(r, reader[r].etag, Absent) ELSE Goto(r, "stream")
  /\ Reading /\ UNCHANGED <<cache, seen>>

StreamFile(r) ==
  /\ reader[r].pc = "stream"
  /\ IF file = Absent THEN Goto(r, "failed") ELSE Return(r, reader[r].etag, file)
  /\ Reading /\ UNCHANGED <<cache, seen>>
----------------------------------------------------------------------------
(* copy_file_to_user *)

Sharing == UNCHANGED <<file, writes, cache, adding, reader, races>>

Pass(s, pc) == sharer' = [sharer EXCEPT ![s].pc = pc]

(* The etag of the document's file. *)
ReadSource(s) ==
  /\ sharer[s].pc = "idle"
  /\ Begin(s)
  /\ sharer' = [sharer EXCEPT ![s] = [pc |-> "target", etag |-> file]]
  /\ UNCHANGED copy /\ Sharing

(* Mutant of ReadTarget: a copy that is there is left as it is. *)
ReadTargetAny(s) ==
  /\ sharer[s].pc = "target"
  /\ Pass(s, IF copy # Absent THEN "shared" ELSE "copy")
  /\ UNCHANGED <<copy, seen>> /\ Sharing

(* Nothing is copied when the etags are the same. *)
ReadTarget(s) ==
  /\ sharer[s].pc = "target"
  /\ Pass(s, IF copy # Absent /\ copy = sharer[s].etag THEN "shared" ELSE "copy")
  /\ UNCHANGED <<copy, seen>> /\ Sharing

CopyFile(s) ==
  /\ sharer[s].pc = "copy"
  /\ \/ file = Absent /\ Pass(s, "failed") /\ UNCHANGED copy
     \/ file # Absent /\ Pass(s, "shared") /\ copy' = file
  /\ UNCHANGED seen /\ Sharing

(* The answer has the url of the copy; the user reads it after this. *)
EndShare(s) ==
  /\ sharer[s].pc = "shared"
  /\ sharer' = [sharer EXCEPT ![s] = [pc |-> "done", etag |-> copy]]
  /\ UNCHANGED <<copy, seen>> /\ Sharing
----------------------------------------------------------------------------
ReadStep(r) ==
  \/ CheckFile(r) \/ LoadFile(r) \/ AddContent(r)
  \/ CheckDirect(r) \/ StreamFile(r)

ShareStep(s) == ReadTarget(s) \/ CopyFile(s) \/ EndShare(s)

CacheNext ==
  \/ PutFile \/ DeleteFile \/ CachePut
  \/ \E e \in Contents : Evict(e)
  \/ \E r \in Readers : ReadMetadata(r) \/ ReadStep(r)
  \/ \E s \in Sharers : ReadSource(s) \/ ShareStep(s)

CacheSpec == CacheInit /\ [][CacheNext]_cacheVars
----------------------------------------------------------------------------
(* The types; nothing that is too large is in the cache. *)
CacheTypeOK ==
  /\ file \in Files /\ writes \in 0..MaxWrites
  /\ cache \in [Contents -> Files \ Big]
  /\ adding \in SUBSET Contents
  /\ reader \in [Readers -> [pc : {"idle", "check", "load", "add", "direct", "stream",
                                   "done", "failed"}, etag : Files, got : Files]]
  /\ sharer \in [Sharers -> [pc : {"idle", "target", "copy", "shared", "done", "failed"},
                             etag : Files]]
  /\ copy \in Files
  /\ seen \in [Clients -> SUBSET Files]
  /\ races \in SUBSET (Contents \X Files)

(* A download returns what the file was at some moment since it began, and  *)
(* nothing only if it was absent at one, with one exception: the content    *)
(* that was stored while a download of the same etag was between its two    *)
(* readings is served for that etag later, too, when the file has the etag  *)
(* again.                                                                   *)
ReadsWereTrue ==
  \A r \in Readers : reader[r].pc = "done" =>
    reader[r].got \in seen[r] \/ <<reader[r].etag, reader[r].got>> \in races

(* What a user gets as a copy is what the document was at some moment since *)
(* the citation was being added, whichever request has copied it.           *)
SharedWasTrue ==
  \A s \in Sharers : sharer[s].pc = "done" => sharer[s].etag \in seen[s]

(* What a download is for (FileStorage.download_file, "Download content of  *)
(* file with given url"): it returns what the file was at some moment since *)
(* it began.  TLC refutes it: a cache that was filled from B under the etag *)
(* of A serves B when the file is A again.                                  *)
DownloadsWereTrue ==
  \A r \in Readers : reader[r].pc = "done" => reader[r].got \in seen[r]
============================================================================
