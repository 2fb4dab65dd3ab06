----------------------------- MODULE Retrieval -----------------------------
(***************************************************************************)
(* A search, over all indexes of a channel at once, for chunks (the        *)
(* classic retriever of the chat and the MCP server) or for documents, and *)
(* the deletions and index runs that go on meanwhile.                      *)
(*                                                                         *)
(* The search of an index reads the index in pages, then the chunks, then  *)
(* the documents, each in a transaction of its own, so every answer is put *)
(* together from several states of the store.                              *)
(***************************************************************************)
EXTENDS DocumentMatcher

CONSTANTS
  Stored,      \* the chunks of the documents: records of a document, type, page and id
  Stores,      \* what earlier deletions and index runs, failed ones too, may have left
  NumIndexes,  \* indexes 1..NumIndexes, in the order of the configuration
  Limit,       \* top_k, the results wanted of an index (and of a document search)
  PageSize,    \* for each index the rows that one query reads
  NumImages,   \* num_page_images_to_use
  Queries,     \* what may be asked: for each kind, the rows of each index by relevance
  Matchers,    \* matcher configurations
  Metadatas,   \* metadata that the documents may have
  MaxChanges   \* bound on the disturbances

Kinds == {"chunks", "documents"}
Indexes == 1..NumIndexes

DocOf(d) == [doc |-> d, type |-> "document", page |-> 0, id |-> 0]
Images == {c \in Stored : c.type # "text"}
IsPage(c) == c.type = "page"
Page(c) == <<c.doc, c.page>>
Refs == Stored \union {DocOf(d) : d \in Docs}

(* A chunk has its document, its number and whether it is text for a key.   *)
(* The image of a whole page differs from that of a figure on the page.     *)
ASSUME RetrievalAssumption ==
  /\ NumIndexes \in Nat \ {0} /\ Limit \in Nat \ {0} /\ NumImages \in Nat /\ MaxChanges \in Nat
  /\ PageSize \in [Indexes -> Nat \ {0}]
  /\ IsFiniteSet(Stored)
  /\ Stored \subseteq [doc : Docs, type : {"text", "page", "figure"}, page : Nat, id : Nat]
  /\ \A s, t \in Stored :
       s.doc = t.doc /\ (s.type = "text" <=> t.type = "text") /\ s.id = t.id => s = t
  /\ Stores \subseteq [present : SUBSET Docs, chunks : SUBSET Stored, files : SUBSET Images,
                       indexed : [Indexes -> SUBSET Docs]]
  /\ \A rows \in Queries["chunks"] : rows \in [Indexes -> Seq(Stored)]
  /\ \A rows \in Queries["documents"] : rows \in [Indexes -> Seq(Refs)]

VARIABLES
  present,  \* the documents in the registry
  chunks,   \* the rows of the chunk tables
  files,    \* the images in the file storage
  indexed,  \* for each index the documents whose records it has
  order,    \* the rows of each index in the order of their relevance
  change,   \* the deletion or index run that is going on
  changes,  \* history: disturbances so far
  unread,   \* history: what could not be read at some moment of the search
  kind,     \* what is searched for
  asked,    \* the matcher configuration and the metadata, until they are used
  subset,   \* the documents that the search is restricted to
  scope,    \* history: the documents that the configuration asked for
  task,     \* the searches of the indexes
  sources,  \* documents that the retriever has loaded
  pc, found \* the search as a whole and its result

store == <<present, chunks, files, indexed, order, change, changes, unread>>
request == <<kind, asked, subset, scope, sources, pc, found>>
vars == <<store, request, task>>

(* Documents that may be named, whether there are such or not. *)
Named == Docs \union UNION {m.exact : m \in Matchers}

Asks == [matcher : Matchers, meta : Metadatas]
Forgotten == CHOOSE a \in Asks : TRUE

NoTask == [pc |-> "search", offset |-> 0, hits |-> <<>>, list |-> <<>>]
NoChange == [doc |-> None, kind |-> "none", step |-> "none"]

(* What the records of the indexes may name and is not all there: the       *)
(* document, the row or the file of an image.                               *)
Gaps == {r \in Refs : r.doc \notin present} \union (Stored \ chunks) \union (Images \ files)

Init ==
  /\ \E left \in Stores :
       /\ present = left.present /\ chunks = left.chunks /\ files = left.files
       /\ indexed = left.indexed
  /\ unread = Gaps
  /\ order = [i \in Indexes |-> <<>>]
  /\ change = NoChange /\ changes = 0
  /\ kind \in Kinds
  /\ asked \in Asks
  /\ subset = Everything /\ scope = Docs
  /\ task = [i \in Indexes |-> NoTask]
  /\ sources = {} /\ pc = "select" /\ found = <<>>
----------------------------------------------------------------------------
(* Deletions and index runs, one at a time: the records of the indexes and  *)
(* the image files go at once, the chunks with the transaction.  Those that *)
(* were over when the registry was read are in the first store.             *)

Changing ==
  /\ unread' = unread \union Gaps'
  /\ UNCHANGED <<order, request, task>>
Doc == change.doc
Become(d, k, s) == change' = [doc |-> d, kind |-> k, step |-> s]

BeginChange(d, k) ==
  /\ change = NoChange /\ changes < MaxChanges /\ d \in present /\ pc # "select"
  /\ Become(d, k, "wipe")
  /\ changes' = changes + 1
  /\ UNCHANGED <<present, chunks, files, indexed>> /\ Changing

RemoveRecords(i) ==
  /\ change.step = "wipe" /\ Doc \in indexed[i]
  /\ indexed' = [indexed EXCEPT ![i] = @ \ {Doc}]
  /\ UNCHANGED <<present, chunks, files, change, changes>> /\ Changing

RemoveFiles ==
  /\ change.step = "wipe" /\ \E c \in files : c.doc = Doc
  /\ files' = {c \in files : c.doc # Doc}
  /\ UNCHANGED <<present, chunks, indexed, change, changes>> /\ Changing

CommitWipe ==
  /\ change.step = "wipe"
  /\ \A i \in Indexes : Doc \notin indexed[i]
  /\ \A c \in files : c.doc # Doc
  /\ chunks' = {c \in chunks : c.doc # Doc}
  /\ IF change.kind = "delete"
     THEN present' = present \ {Doc} /\ change' = NoChange
     ELSE Become(Doc, change.kind, "add") /\ UNCHANGED present
  /\ UNCHANGED <<files, indexed, changes>> /\ Changing

(* One of the stores fails: what it had not removed, and the rows, stay. *)
AbortWipe ==
  /\ change.step = "wipe"
  /\ change' = NoChange
  /\ UNCHANGED <<present, chunks, files, indexed, changes>> /\ Changing

AddChunks ==
  /\ change.step = "add"
  /\ chunks' = chunks \union {c \in Stored : c.doc = Doc}
  /\ files' = files \union {c \in Images : c.doc = Doc}
  /\ Become(Doc, change.kind, "index")
  /\ UNCHANGED <<present, indexed, changes>> /\ Changing

AddRecords(i) ==
  /\ change.step = "index" /\ Doc \notin indexed[i]
  /\ indexed' = [indexed EXCEPT ![i] = @ \union {Doc}]
  /\ IF \A j \in Indexes : Doc \in indexed'[j] THEN change' = NoChange ELSE UNCHANGED change
  /\ UNCHANGED <<present, chunks, files, changes>> /\ Changing

(* Rows that are equally relevant come in another order in the next query. *)
Reorder(i, n) ==
  /\ pc = "search" /\ changes < MaxChanges /\ n < Len(order[i])
  /\ order' = [order EXCEPT ![i] = [@ EXCEPT ![n] = order[i][n+1], ![n+1] = order[i][n]]]
  /\ changes' = changes + 1
  /\ UNCHANGED <<present, chunks, files, indexed, change, unread, request, task>>

Change ==
  \/ \E d \in Docs, k \in {"delete", "reindex"} : BeginChange(d, k)
  \/ \E i \in Indexes : RemoveRecords(i) \/ AddRecords(i)
  \/ RemoveFiles \/ CommitWipe \/ AbortWipe \/ AddChunks
  \/ \E i \in Indexes : \E n \in DOMAIN order[i] : Reorder(i, n)
----------------------------------------------------------------------------
(* Sequences and orders *)

(* The elements of a set, one after another; ahead has the pairs of which   *)
(* the first comes before the second.                                       *)
Sorted(S, ahead) ==
  [p \in 1..Cardinality(S) |-> CHOOSE x \in S : Cardinality({y \in S : <<y, x>> \in ahead}) = p - 1]

(* Those with no other of the same key before them. *)
Firsts(S, ahead, key) == {x \in S : \A y \in S : <<y, x>> \in ahead => key[y] # key[x]}

Less(S) == {p \in S \X S : p[1] < p[2]}

ToSet(s) == {s[n] : n \in DOMAIN s}

(* What s has at these places, in their order. *)
At(s, places) ==
  LET sorted == Sorted(places, Less(places)) IN [p \in DOMAIN sorted |-> s[sorted[p]]]

Only(s, S) == At(s, {n \in DOMAIN s : s[n] \in S})

(* The elements of s from an offset on, size at most. *)
Slice(s, offset, size) == SubSeq(s, offset + 1, IF offset + size > Len(s) THEN Len(s) ELSE offset + size)

(* The places in several lists, one list after another. *)
Places(lists) == UNION {{i} \X (DOMAIN lists[i]) : i \in DOMAIN lists}
Earlier(p, q) == p[1] < q[1] \/ (p[1] = q[1] /\ p[2] < q[2])
InTurn(places) == {e \in places \X places : Earlier(e[1], e[2])}

Joined(lists) ==
  LET sorted == Sorted(Places(lists), InTurn(Places(lists)))
  IN [p \in DOMAIN sorted |-> lists[sorted[p][1]][sorted[p][2]]]

Total(f, n) ==
  LET total[m \in 0..n] == IF m = 0 THEN 0 ELSE total[m-1] + f[m] IN total[n]
----------------------------------------------------------------------------
(* The search *)

(* A chat may name its documents; a document search has a matcher only. *)
Exact == kind = "chunks" /\ asked.matcher.exact # {}

(* The document selector, or the matcher of a document search, reads the    *)
(* registry; the query is what decides on the order of the rows.            *)
Select ==
  /\ pc = "select"
  /\ subset' \in IF Exact THEN {asked.matcher.exact}
                 ELSE Subsets(asked.meta, present, asked.matcher.filters, asked.matcher.tops)
  /\ scope' = IF Exact THEN asked.matcher.exact ELSE Asked(asked.meta, asked.matcher.filters)
  /\ asked' = Forgotten
  /\ IF subset' = {} THEN pc' = "done" /\ UNCHANGED order
     ELSE pc' = "search" /\ order' \in Queries[kind]
  /\ UNCHANGED <<present, chunks, files, indexed, change, changes, unread, kind, sources,
                 found, task>>

Searching == pc = "search" /\ UNCHANGED <<store, kind, asked, subset, scope, pc, found>>
Put(i, t) == task' = [task EXCEPT ![i] = t]

Rows(i) == Only(order[i], {r \in Refs : r.doc \in indexed[i] \intersect subset})

Entry(c, how) == [chunk |-> c, how |-> how, image |-> {}]

(* Mutant of Collect: the rows are counted, not the results. *)
CollectRows(hits, page) == Slice(hits \o page, 0, Limit)

(* Results are added up to the limit, each once. *)
Collect(hits, page) ==
  LET all == hits \o page
  IN Slice(At(all, Firsts(DOMAIN all, Less(DOMAIN all), all)), 0, Limit)

(* relevance_search: one page, until there are enough results or no rows. *)
SearchPage(i) ==
  LET page == Slice(Rows(i), task[i].offset, PageSize[i])
      hits == Collect(task[i].hits, page)
      docs == [n \in 1..Len(hits) |-> Entry(hits[n], "document")]
  IN /\ task[i].pc = "search"
     /\ IF page # <<>> /\ Len(hits) < Limit
        THEN Put(i, [task[i] EXCEPT !.hits = hits, !.offset = @ + Len(page)])
        ELSE Put(i, [pc |-> IF kind = "documents" THEN "done" ELSE "chunks", offset |-> 0, hits |-> hits,
                     list |-> IF kind = "documents" THEN docs ELSE <<>>])
     /\ Searching /\ UNCHANGED sources

(* An exception ends the stage of this index with no results. *)
Lose(i) == Put(i, [task[i] EXCEPT !.pc = "failed", !.list = <<>>])

(* Images are read from the file storage, the texts come with their rows. *)
Unreadable(c) == c \in Images \ files

(* Chunks that are gone are left out; an image without its file fails. *)
LoadChunks(i) ==
  LET hits == task[i].hits IN
  /\ task[i].pc = "chunks"
  /\ IF \E n \in DOMAIN hits : hits[n] \in chunks /\ Unreadable(hits[n])
     THEN Lose(i)
     ELSE Put(i, [task[i] EXCEPT !.pc = "sources", !.list = Only(hits, chunks)])
  /\ Searching /\ UNCHANGED sources

Loaded(docs) == docs \intersect present

(* Mutant of LoadSources: the cache is filled once. *)
LoadSourcesOnce(i) ==
  LET docs == {task[i].hits[n].doc : n \in DOMAIN task[i].hits} IN
  /\ task[i].pc = "sources"
  /\ sources' = IF sources = {} THEN Loaded(docs) ELSE sources
  /\ IF docs \subseteq sources' THEN Put(i, [task[i] EXCEPT !.pc = "expand"]) ELSE Lose(i)
  /\ Searching

(* Documents, under a lock: those that are not loaded; a lookup of one that *)
(* is gone fails, be its chunk there or not.                                *)
LoadSources(i) ==
  LET docs == {task[i].hits[n].doc : n \in DOMAIN task[i].hits} IN
  /\ task[i].pc = "sources"
  /\ sources' = sources \union Loaded(docs)
  /\ IF docs \subseteq sources' THEN Put(i, [task[i] EXCEPT !.pc = "expand"]) ELSE Lose(i)
  /\ Searching

(* The text chunks of a page, in their order. *)
TextsOf(c) ==
  LET texts == {t \in chunks : t.type = "text" /\ Page(t) = Page(c)}
  IN Sorted(texts, {p \in texts \X texts : p[1].id < p[2].id})

(* An image, of a figure too, is replaced by the texts of its page if the   *)
(* list has the image of that page.                                         *)
Replaced(list, c) ==
  c \in Images /\ TextsOf(c) # <<>> /\ \E p \in ToSet(list) : IsPage(p) /\ Page(p) = Page(c)

Expanded(list, c) ==
  IF Replaced(list, c) THEN [n \in 1..Len(TextsOf(c)) |-> Entry(TextsOf(c)[n], "image")]
  ELSE <<Entry(c, IF c.type = "text" THEN "text" ELSE "unknown")>>

(* Mutant of Expand: the limit is applied before the pages are expanded. *)
ExpandAll(i) ==
  LET list == task[i].list
      all == Joined([n \in 1..Len(list) |-> Expanded(list, list[n])])
  IN /\ task[i].pc = "expand"
     /\ Put(i, [task[i] EXCEPT !.pc = "done", !.list = all])
     /\ Searching /\ UNCHANGED sources

(* The image of a page stands for the texts of the page. *)
Expand(i) ==
  LET list == task[i].list
      all == Joined([n \in 1..Len(list) |-> Expanded(list, list[n])])
  IN /\ task[i].pc = "expand"
     /\ Put(i, [task[i] EXCEPT !.pc = "done", !.list = Slice(all, 0, Limit)])
     /\ Searching /\ UNCHANGED sources
----------------------------------------------------------------------------
(* rank_fusion *)

RankConstant == 60
Scale ==  \* a multiple of all that is divided by
  LET scale[n \in 0..Limit] == IF n = 0 THEN 1 ELSE scale[n-1] * (RankConstant + n) IN scale[Limit]

Share(list, c) ==
  Total([n \in 1..Len(list) |-> IF list[n].chunk = c THEN Scale \div (RankConstant + n) ELSE 0], Len(list))

Score(lists, c) == Total([i \in Indexes |-> Share(lists[i], c)], NumIndexes)

ChunkAt(lists, p) == lists[p[1]][p[2]].chunk

(* Mutant of Ahead: the lowest score first. *)
AheadAscending(lists, p, q) ==
  LET a == Score(lists, ChunkAt(lists, p))
      b == Score(lists, ChunkAt(lists, q))
  IN a < b \/ (a = b /\ Earlier(p, q))

Ahead(lists, p, q) ==
  LET a == Score(lists, ChunkAt(lists, p))
      b == Score(lists, ChunkAt(lists, q))
  IN a > b \/ (a = b /\ Earlier(p, q))

(* Where the chunks come first. *)
Uniq(lists) ==
  LET places == Places(lists)
  IN Firsts(places, InTurn(places), [p \in places |-> ChunkAt(lists, p)])

Fused(lists) ==
  LET all == Uniq(lists)
      sorted == Sorted(all, {e \in all \X all : Ahead(lists, e[1], e[2])})
  IN [n \in DOMAIN sorted |-> lists[sorted[n][1]][sorted[n][2]]]

Lists == [i \in Indexes |-> task[i].list]

(* The searches of all indexes have ended. *)
Combine ==
  /\ pc = "search"
  /\ \A i \in Indexes : task[i].pc \in {"done", "failed"}
  /\ found' = IF kind = "documents" THEN Slice(Fused(Lists), 0, Limit) ELSE Fused(Lists)
  /\ pc' = IF kind = "documents" THEN "load" ELSE "attach"
  /\ UNCHANGED <<store, kind, asked, subset, scope, sources, task>>

Finish(p, result) ==
  /\ pc' = p /\ found' = result
  /\ task' = [i \in Indexes |-> NoTask] /\ sources' = {}
  /\ UNCHANGED <<store, kind, asked, subset, scope>>

PageOf(e) == Page(e.chunk)

(* The result n is looked at before m: those found by an image come first. *)
Sooner(list, n, m) ==
  IF list[n].how = list[m].how THEN n < m ELSE list[n].how = "image"

(* Where the pages of the results come first, in this order. *)
PagesFirst(list, ahead) ==
  LET wanted == {n \in DOMAIN list : list[n].how \in {"image", "text"}}
  IN Firsts(wanted, ahead, [n \in wanted |-> PageOf(list[n])])

(* Mutant of Required: pages come in the order of the results. *)
RequiredInOrder(list) ==
  LET ahead == Less(DOMAIN list)
      sorted == Sorted(PagesFirst(list, ahead), ahead)
  IN {PageOf(list[sorted[p]]) : p \in {p \in DOMAIN sorted : p = 1 \/ p <= NumImages}}

(* _get_image_by_page: pages that were found by their image come first; the *)
(* limit is looked at after a page was added, so one page passes even a     *)
(* limit of zero.                                                           *)
Required(list) ==
  LET ahead == {p \in (DOMAIN list) \X (DOMAIN list) : Sooner(list, p[1], p[2])}
      sorted == Sorted(PagesFirst(list, ahead), ahead)
  IN {PageOf(list[sorted[p]]) : p \in {p \in DOMAIN sorted : p = 1 \/ p <= NumImages}}

ImagesOf(pages) == {c \in chunks \intersect Images : Page(c) \in pages}

(* The image of a page, the last one if there are several. *)
PageImage(images, page) ==
  {c \in images : /\ IsPage(c) /\ Page(c) = page
                  /\ \A b \in images : IsPage(b) /\ Page(b) = page => b.id <= c.id}

(* All images of the pages are read; that of the page goes to the first     *)
(* result of the page.                                                      *)
Attach ==
  LET images == ImagesOf(Required(found))
      first(n) == \A m \in 1..(n-1) : PageOf(found[m]) # PageOf(found[n])
  IN /\ pc = "attach"
     /\ IF \E c \in images : Unreadable(c) THEN Finish("failed", <<>>)
        ELSE Finish("done", [n \in DOMAIN found |->
               IF first(n) THEN [found[n] EXCEPT !.image = PageImage(images, PageOf(found[n]))]
               ELSE found[n]])

(* The documents of a document search; one that is gone fails the request. *)
LoadDocuments ==
  /\ pc = "load"
  /\ IF \A n \in DOMAIN found : found[n].chunk.doc \in present
     THEN Finish("done", found) ELSE Finish("failed", <<>>)

IndexStep(i) == SearchPage(i) \/ LoadChunks(i) \/ LoadSources(i) \/ Expand(i)

Search == Select \/ (\E i \in Indexes : IndexStep(i)) \/ Combine \/ Attach \/ LoadDocuments

Next == Change \/ Search

Spec == Init /\ [][Next]_vars
----------------------------------------------------------------------------
TypeOK ==
  /\ present \subseteq Docs /\ chunks \subseteq Stored /\ files \subseteq Images
  /\ indexed \in [Indexes -> SUBSET Docs]
  /\ \A i \in Indexes : \A n \in DOMAIN order[i] : order[i][n] \in Refs
  /\ change.doc \in Docs \union {None} /\ changes \in 0..MaxChanges /\ unread \subseteq Refs
  /\ kind \in Kinds /\ scope \subseteq Named /\ sources \subseteq Docs
  /\ subset \subseteq Named
  /\ \A i \in Indexes :
       /\ task[i].pc \in {"search", "chunks", "sources", "expand", "done", "failed"}
       /\ Len(task[i].hits) <= Limit /\ Len(task[i].list) <= Limit
  /\ pc \in {"select", "search", "attach", "load", "done", "failed"}

Quiet == changes = 0

FirstRow(rows, r) == CHOOSE n \in DOMAIN rows : rows[n] = r /\ \A m \in 1..(n-1) : rows[m] # r

(* While nothing changes, the pages of an index give the most relevant      *)
(* results, each once and as many as were asked for or as there are,        *)
(* however many rows a result has and however the pages are cut.            *)
HitsAreTheFirst ==
  \A i \in Indexes : LET rows == Rows(i) hits == task[i].hits IN
    Quiet /\ pc = "search" /\ task[i].pc # "search" =>
      /\ Cardinality(ToSet(hits)) = Len(hits)
      /\ ToSet(hits) \subseteq ToSet(rows)
      /\ Len(hits) < Limit => ToSet(hits) = ToSet(rows)
      /\ \A r \in ToSet(rows), n \in DOMAIN hits :
           (\A m \in 1..n : hits[m] # r) => FirstRow(rows, hits[n]) < FirstRow(rows, r)

(* Nothing is found outside of what was asked for, by naming documents or   *)
(* by metadata filters, through the page of an image or the documents       *)
(* loaded for another index either.                                         *)
ScopeKept ==
  \A n \in DOMAIN found : found[n].chunk.doc \in scope

Once(list) == \A m, n \in DOMAIN list : list[m].chunk = list[n].chunk => m = n

UniqueLists == \A i \in Indexes : Once(Lists[i])

Before(list, c, d) ==
  \E m \in DOMAIN list : list[m].chunk = c /\ \A n \in DOMAIN list : list[n].chunk = d => m < n

(* The combined list has each result of the indexes once, and agrees with   *)
(* them where they agree: a result that is ahead of another in every list   *)
(* that has that one stays ahead of it.                                     *)
FusionAgrees ==
  pc \in {"attach", "load"} =>
    LET results == {e.chunk : e \in UNION {ToSet(Lists[i]) : i \in Indexes}} IN
    /\ Once(found)
    /\ kind = "chunks" => {e.chunk : e \in ToSet(found)} = results
    /\ UniqueLists => \A c, d \in results :
         (c # d /\ \A i \in Indexes : (\E e \in ToSet(Lists[i]) : e.chunk = d) => Before(Lists[i], c, d))
           => \/ Before(found, c, d)
              \/ d \notin {e.chunk : e \in ToSet(found)}

(* No more images are sent than the limit, none twice, and a page that was  *)
(* found by its image does not lose it to a page that was not.  TLC refutes *)
(* it for NumImages = 0: the limit is looked at after a page was added.     *)
ImagesWithinLimit ==
  pc = "done" =>
    LET with == {n \in DOMAIN found : found[n].image # {}}
        pages == {PageOf(found[n]) : n \in with}
        byImage == {PageOf(found[n]) : n \in {m \in DOMAIN found : found[m].how = "image"}}
    IN /\ Cardinality(with) <= NumImages
       /\ Cardinality({found[n].image : n \in with}) = Cardinality(with)
       /\ Quiet => byImage \subseteq pages \/ pages \subseteq byImage

(* Only a gap loses results, left by an earlier failure or made during the  *)
(* search, and it costs no more than the list of an index that it was found *)
(* in, or the whole of a search whose result or page it is: what could be   *)
(* read all the time is there until the pages are expanded.                 *)
LosesOnlyToGaps ==
  /\ pc = "failed" => \E r \in unread : r.doc \in subset
  /\ \A i \in Indexes : LET hits == ToSet(task[i].hits) IN
       /\ task[i].pc = "failed" => hits \intersect unread # {}
       /\ task[i].pc \in {"sources", "expand"} => hits \ unread \subseteq ToSet(task[i].list)
============================================================================
