-------------------------- MODULE DocumentIdsProofs --------------------------
(***************************************************************************)
(* Proofs about DocumentIds, for any number of requests, channels and urls *)
(* and any limit on the attempts.                                          *)
(***************************************************************************)
EXTENDS DocumentIds, FiniteSetTheorems, TLAPS

(***************************************************************************)
(* Types.  That `tries` stays within its bound needs to know that a        *)
(* creation with all attempts used has given up.                           *)
(***************************************************************************)
TriesInv == \A p \in Creators :
  IF pc[p] = "gaveup" THEN tries[p] = Attempts ELSE tries[p] < Attempts

TypeInv == TypeOK /\ TriesInv

LEMMA InitType == Init => TypeInv
<1> SUFFICES ASSUME Init PROVE TypeInv
  OBVIOUS
<1>1. table \subseteq RowType /\ request \in [Creators -> RequestType] /\ faults \in 0..MaxFaults
  BY IdsAssumption DEF Init
<1>2. file \in [Urls -> Writers \union {NoFile}] /\ id \in [Procs -> Nat]
  BY DEF Init
<1>3. pc \in [Procs -> {"check", "load"}] /\ \A p \in Creators : pc[p] = "check"
  BY DEF Init, Procs
<1>4. loaded \in [Finders -> LoadedType]
  BY DEF Init
<1>5. tries \in [Creators -> 0..Attempts] /\ \A p \in Creators : tries[p] = 0
  BY IdsAssumption DEF Init
<1>6. beaten \in [Creators -> SUBSET Creators]
  BY DEF Init
<1>7. TriesInv
  BY <1>3, <1>5, IdsAssumption DEF TriesInv
<1> QED
  BY <1>1, <1>2, <1>3, <1>4, <1>5, <1>6, <1>7 DEF TypeInv, TypeOK, Labels

\* A row with another etag is still a row.
LEMMA EtagType == ASSUME NEW r \in RowType, NEW p \in Writers
                  PROVE  /\ [r EXCEPT !.etag = p] \in RowType
                         /\ [r EXCEPT !.etag = p].channel = r.channel
                         /\ [r EXCEPT !.etag = p].id = r.id
                         /\ [r EXCEPT !.etag = p].url = r.url
                         /\ [r EXCEPT !.etag = p].by = r.by
  BY DEF RowType

LEMMA NextIdsType == ASSUME TypeOK, NEW p \in Creators PROVE NextIds(p) \subseteq Nat
<1>1. \A r \in Last(p) : r.id \in Nat
  BY DEF TypeOK, RowType, Last, Visible
<1> QED
  BY <1>1 DEF NextIds

\* An IntegrityError keeps the count of attempts below its bound.
LEMMA ConflictType == ASSUME TypeInv, NEW p \in Creators, pc[p] \in {"key", "url"}, Conflict(p)
                      PROVE  /\ pc' \in [Procs -> Labels]
                             /\ tries' \in [Creators -> 0..Attempts]
                             /\ TriesInv'
<1>1. tries[p] < Attempts /\ tries[p] \in 0..Attempts
  BY DEF TypeInv, TypeOK, TriesInv
<1>2. tries' \in [Creators -> 0..Attempts] /\ tries' = [tries EXCEPT ![p] = @ + 1]
  BY <1>1, IdsAssumption DEF Conflict, TypeInv, TypeOK
<1>3. pc' = [pc EXCEPT ![p] = IF tries[p] + 1 < Attempts THEN "next" ELSE "gaveup"]
  BY DEF Conflict, Goto
<1>4. pc' \in [Procs -> Labels]
  BY <1>3 DEF TypeInv, TypeOK, Labels, Ended
<1>5. ASSUME NEW q \in Creators
      PROVE  IF pc'[q] = "gaveup" THEN tries'[q] = Attempts ELSE tries'[q] < Attempts
  <2> pc \in [Procs -> Labels]
      /\ tries \in [Creators -> 0..Attempts] /\ q \in Procs /\ p \in Procs
    BY DEF TypeInv, TypeOK, Procs
  <2>1. CASE q = p
    BY <2>1, <1>1, <1>2, <1>3, IdsAssumption
  <2>2. CASE q # p
    BY <2>2, <1>2, <1>3 DEF TypeInv, TriesInv
  <2> QED
    BY <2>1, <2>2
<1> QED
  BY <1>2, <1>4, <1>5 DEF TriesInv

LEMMA StepType == TypeInv /\ [Next]_vars => TypeInv'
<1> SUFFICES ASSUME TypeInv, [Next]_vars PROVE TypeInv'
  OBVIOUS
<1> USE IdsAssumption
<1>a. /\ request \in [Creators -> RequestType] /\ table \subseteq RowType
      /\ file \in [Urls -> Writers \union {NoFile}] /\ pc \in [Procs -> Labels]
      /\ id \in [Procs -> Nat] /\ loaded \in [Finders -> LoadedType]
      /\ tries \in [Creators -> 0..Attempts] /\ faults \in 0..MaxFaults
      /\ beaten \in [Creators -> SUBSET Creators] /\ TriesInv
  BY DEF TypeInv, TypeOK
\* A step that only moves to a label other than "gaveup" keeps TriesInv.
<1>b. ASSUME NEW p \in Procs, NEW l \in Labels \ {"gaveup"}, Goto(p, l), UNCHANGED tries,
             p \in Creators => pc[p] # "gaveup"
      PROVE  pc' \in [Procs -> Labels] /\ tries' \in [Creators -> 0..Attempts] /\ TriesInv'
  <2>1. pc' \in [Procs -> Labels] /\ pc' = [pc EXCEPT ![p] = l]
    BY <1>a, <1>b DEF Goto
  <2>2. \A q \in Creators : pc'[q] = "gaveup" <=> pc[q] = "gaveup"
    BY <2>1, <1>a, <1>b DEF Procs
  <2> QED
    BY <2>1, <2>2, <1>a, <1>b DEF TriesInv
<1>1. ASSUME NEW p \in Creators, CheckFile(p) PROVE TypeInv'
  <2>1. PICK l \in {"refused", "put"} : Goto(p, l)
    BY <1>1 DEF CheckFile
  <2>2. pc' \in [Procs -> Labels] /\ tries' \in [Creators -> 0..Attempts] /\ TriesInv'
    BY <1>b, <2>1, <1>1 DEF CheckFile, Labels, Ended, Procs
  <2> QED
    BY <2>2, <1>a, <1>1 DEF CheckFile, TypeInv, TypeOK
<1>2. ASSUME NEW p \in Creators, PutFile(p) PROVE TypeInv'
  <2>1. pc' \in [Procs -> Labels] /\ tries' \in [Creators -> 0..Attempts] /\ TriesInv'
    BY <1>b, <1>2 DEF PutFile, Labels, Ended, Procs
  <2>2. file' \in [Urls -> Writers \union {NoFile}]
    BY <1>a, <1>2 DEF PutFile, Writers
  <2> QED
    BY <2>1, <2>2, <1>a, <1>2 DEF PutFile, TypeInv, TypeOK
<1>3. ASSUME NEW p \in Creators, FindByUrl(p) PROVE TypeInv'
  <2>1. PICK l \in {"next", "write"} : Goto(p, l)
    BY <1>3 DEF FindByUrl
  <2>2. pc' \in [Procs -> Labels] /\ tries' \in [Creators -> 0..Attempts] /\ TriesInv'
    BY <1>b, <2>1, <1>3 DEF FindByUrl, Labels, Ended, Procs
  <2>3. \A r \in Visible(p) : r.id \in Nat
    BY <1>a DEF Visible, RowType
  <2>4. id' \in [Procs -> Nat]
    BY <2>3, <1>a, <1>3 DEF FindByUrl
  <2> QED
    BY <2>2, <2>4, <1>a, <1>3 DEF FindByUrl, TypeInv, TypeOK
<1>4. ASSUME NEW p \in Creators, WriteRow(p) PROVE TypeInv'
  <2>1. PICK l \in {"failed", "updated"} : Goto(p, l)
    BY <1>4 DEF WriteRow
  <2>2. pc' \in [Procs -> Labels] /\ tries' \in [Creators -> 0..Attempts] /\ TriesInv'
    BY <1>b, <2>1, <1>4 DEF WriteRow, Labels, Ended, Procs
  <2>3. \A r \in KeyRows(p) : [r EXCEPT !.etag = p] \in RowType
    BY <1>a, EtagType DEF KeyRows, Visible, Writers
  <2>4. table' \subseteq RowType
    BY <2>3, <1>a, <1>4 DEF WriteRow
  <2> QED
    BY <2>2, <2>4, <1>a, <1>4 DEF WriteRow, TypeInv, TypeOK
<1>5. ASSUME NEW p \in Creators, NextId(p) PROVE TypeInv'
  <2>1. pc' \in [Procs -> Labels] /\ tries' \in [Creators -> 0..Attempts] /\ TriesInv'
    BY <1>b, <1>5 DEF NextId, Labels, Ended, Procs
  <2>2. id' \in [Procs -> Nat]
    BY <1>a, <1>5, NextIdsType DEF NextId, TypeInv
  <2> QED
    BY <2>1, <2>2, <1>a, <1>5 DEF NextId, TypeInv, TypeOK
<1>6. ASSUME NEW p \in Creators, InsertKey(p) PROVE TypeInv'
  <2>1. pc' \in [Procs -> Labels] /\ tries' \in [Creators -> 0..Attempts] /\ TriesInv'
    BY <1>b, <1>6 DEF InsertKey, Labels, Ended, Procs
  <2> QED
    BY <2>1, <1>a, <1>6 DEF InsertKey, TypeInv, TypeOK
<1>7. ASSUME NEW p \in Creators, KeyConflict(p) PROVE TypeInv'
  <2>1. pc' \in [Procs -> Labels] /\ tries' \in [Creators -> 0..Attempts] /\ TriesInv'
    BY <1>7, ConflictType DEF KeyConflict
  <2>2. \A r \in KeyRows(p) : r.by \in Creators
    BY <1>a DEF KeyRows, Visible, RowType
  <2>3. beaten' \in [Creators -> SUBSET Creators]
    BY <2>2, <1>a, <1>7 DEF KeyConflict
  <2> QED
    BY <2>1, <2>3, <1>a, <1>7 DEF KeyConflict, TypeInv, TypeOK
<1>8. ASSUME NEW p \in Creators, InsertUrl(p) PROVE TypeInv'
  <2>1. pc' \in [Procs -> Labels] /\ tries' \in [Creators -> 0..Attempts] /\ TriesInv'
    BY <1>b, <1>8 DEF InsertUrl, Labels, Ended, Procs
  <2> QED
    BY <2>1, <1>a, <1>8 DEF InsertUrl, TypeInv, TypeOK
<1>9. ASSUME NEW p \in Creators, UrlConflict(p) PROVE TypeInv'
  <2>1. pc' \in [Procs -> Labels] /\ tries' \in [Creators -> 0..Attempts] /\ TriesInv'
    BY <1>9, ConflictType DEF UrlConflict
  <2> QED
    BY <2>1, <1>a, <1>9 DEF UrlConflict, TypeInv, TypeOK
<1>10. ASSUME NEW p \in Creators, CommitRow(p) PROVE TypeInv'
  <2>1. pc' \in [Procs -> Labels] /\ tries' \in [Creators -> 0..Attempts] /\ TriesInv'
    BY <1>b, <1>10 DEF CommitRow, Labels, Ended, Procs
  <2>2. request[p] \in RequestType /\ id[p] \in Nat
    BY <1>a DEF Procs
  <2>3. NewRow(p) \in RowType
    BY <2>2 DEF NewRow, RowType, RequestType, Writers
  <2> QED
    BY <2>1, <2>3, <1>a, <1>10 DEF CommitRow, TypeInv, TypeOK
<1>11. ASSUME NEW p \in Procs, Fail(p) PROVE TypeInv'
  <2>1. pc' = [pc EXCEPT ![p] = "failed"] /\ UNCHANGED tries /\ pc[p] # "gaveup"
    BY <1>11 DEF Fail, Goto, Ended
  <2>2. pc' \in [Procs -> Labels] /\ tries' \in [Creators -> 0..Attempts] /\ TriesInv'
    BY <2>1, <1>b DEF Labels, Ended, Goto
  <2>3. faults' \in 0..MaxFaults
    BY <1>a, <1>11 DEF Fail
  <2> QED
    BY <2>2, <2>3, <1>a, <1>11 DEF Fail, TypeInv, TypeOK
<1>12. ASSUME NEW p \in Finders, LoadRow(p) PROVE TypeInv'
  <2>1. PICK l \in {"missing", "replace", "erase"} : Goto(p, l)
    BY <1>12 DEF LoadRow
  <2>2. pc' \in [Procs -> Labels] /\ tries' \in [Creators -> 0..Attempts] /\ TriesInv'
    BY <1>b, <2>1, <1>12 DEF LoadRow, Labels, Ended, Procs
  <2>3. \A r \in table, c \in Channels : [channel |-> c, url |-> r.url] \in LoadedType
    BY <1>a DEF RowType, LoadedType
  <2>4. id' \in [Procs -> Nat] /\ loaded' \in [Finders -> LoadedType]
    BY <2>3, <1>a, <1>12 DEF LoadRow
  <2> QED
    BY <2>2, <2>4, <1>a, <1>12 DEF LoadRow, TypeInv, TypeOK
<1>13. ASSUME NEW u \in Updaters, ReplaceFile(u) PROVE TypeInv'
  <2>1. pc' \in [Procs -> Labels] /\ tries' \in [Creators -> 0..Attempts] /\ TriesInv'
    BY <1>b, <1>13 DEF ReplaceFile, Labels, Ended, Procs, Finders
  <2>2. file' \in [Urls -> Writers \union {NoFile}]
    BY <1>a, <1>13 DEF ReplaceFile, Writers
  <2> QED
    BY <2>1, <2>2, <1>a, <1>13 DEF ReplaceFile, TypeInv, TypeOK
<1>14. ASSUME NEW u \in Updaters, SaveRow(u) PROVE TypeInv'
  <2>1. PICK l \in {"failed", "updated"} : Goto(u, l)
    BY <1>14 DEF SaveRow
  <2>2. pc' \in [Procs -> Labels] /\ tries' \in [Creators -> 0..Attempts] /\ TriesInv'
    BY <1>b, <2>1, <1>14 DEF SaveRow, Labels, Ended, Procs, Finders
  <2>3. \A r \in LoadedRows(u) : [r EXCEPT !.etag = u] \in RowType
    BY <1>a, EtagType DEF LoadedRows, Writers
  <2>4. table' \subseteq RowType
    BY <2>3, <1>a, <1>14 DEF SaveRow
  <2> QED
    BY <2>2, <2>4, <1>a, <1>14 DEF SaveRow, TypeInv, TypeOK
<1>15. ASSUME NEW d \in Deleters, EraseFile(d) PROVE TypeInv'
  <2>1. pc' \in [Procs -> Labels] /\ tries' \in [Creators -> 0..Attempts] /\ TriesInv'
    BY <1>b, <1>15 DEF EraseFile, Labels, Ended, Procs, Finders
  <2>2. file' \in [Urls -> Writers \union {NoFile}]
    BY <1>a, <1>15 DEF EraseFile
  <2> QED
    BY <2>1, <2>2, <1>a, <1>15 DEF EraseFile, TypeInv, TypeOK
<1>16. ASSUME NEW d \in Deleters, DeleteRow(d) PROVE TypeInv'
  <2>1. pc' \in [Procs -> Labels] /\ tries' \in [Creators -> 0..Attempts] /\ TriesInv'
    BY <1>b, <1>16 DEF DeleteRow, Labels, Ended, Procs, Finders
  <2> QED
    BY <2>1, <1>a, <1>16 DEF DeleteRow, TypeInv, TypeOK
<1>17. CASE UNCHANGED vars
  BY <1>17, <1>a DEF vars, TypeInv, TypeOK, TriesInv
<1> QED
  BY <1>1, <1>2, <1>3, <1>4, <1>5, <1>6, <1>7, <1>8, <1>9, <1>10, <1>11, <1>12, <1>13, <1>14,
     <1>15, <1>16, <1>17 DEF Next, Create, Update, Delete, Finders

\* Every reachable state is well typed, and _create_document stops after its
\* last attempt.
THEOREM IdsTypeCorrect == Spec => []TypeOK
<1>1. Spec => []TypeInv
  BY InitType, StepType, PTL DEF Spec
<1>2. TypeInv => TypeOK
  BY DEF TypeInv
<1> QED
  BY <1>1, <1>2, PTL

(***************************************************************************)
(* Ids and urls are unique.  The rows alone do not say why: an insert that *)
(* has passed an index excludes, until its transaction ends, committed     *)
(* rows and other inserts with the same entry.                             *)
(***************************************************************************)
RowInv == \A r \in table :
  /\ Created(r.by)
  /\ r.id = id[r.by]
  /\ r.url = request[r.by].url
  /\ r.channel = request[r.by].channel

EntryInv == \A p \in Creators :
  /\ HoldsKey(p) => KeyRows(p) = {} /\ ~KeyBusy(p)
  /\ HoldsUrl(p) => UrlRows(p) = {} /\ ~UrlBusy(p)

TableInv == RowInv /\ EntryInv /\ RowsUnique

\* The same row up to its etag.
Like(r, s) == /\ r.channel = s.channel /\ r.id = s.id
              /\ r.url = s.url /\ r.by = s.by

LEMMA InitTable == Init => TableInv
  BY DEF Init, TableInv, RowInv, EntryInv, RowsUnique, HoldsKey, HoldsUrl, Procs

\* A step that adds no row and lets nobody pass an index.
Quiet ==
  /\ request' = request
  /\ \A s, t \in table' : \E q, r \in table : Like(s, q) /\ Like(t, r) /\ (q = r => s = t)
  /\ \A p \in Creators :
       /\ Created(p) => Created(p)' /\ id'[p] = id[p]
       /\ HoldsKey(p)' => HoldsKey(p) /\ id'[p] = id[p]
       /\ HoldsUrl(p)' => HoldsUrl(p)

LEMMA QuietTable == ASSUME TypeOK, TableInv, Quiet PROVE TableInv'
<1>1. \A s \in table' : \E r \in table : Like(s, r)
  BY DEF Quiet
<1>2. \A r \in table : r.by \in Creators
  BY DEF TypeOK, RowType
<1>3. RowInv'
  BY <1>1, <1>2 DEF Quiet, TableInv, RowInv, Like, Created
<1>4. ASSUME NEW p \in Creators
      PROVE  /\ (HoldsKey(p) => KeyRows(p) = {} /\ ~KeyBusy(p))'
             /\ (HoldsUrl(p) => UrlRows(p) = {} /\ ~UrlBusy(p))'
  <2>1. ASSUME HoldsKey(p)' PROVE KeyRows(p)' = {}
    BY <1>1, <2>1 DEF Quiet, TableInv, EntryInv, KeyRows, Visible, Like
  <2>2. ASSUME HoldsKey(p)' PROVE ~KeyBusy(p)'
    BY <2>2 DEF Quiet, TableInv, EntryInv, KeyBusy, SameKey
  <2>3. ASSUME HoldsUrl(p)' PROVE UrlRows(p)' = {}
    BY <1>1, <2>3 DEF Quiet, TableInv, EntryInv, UrlRows, Like
  <2>4. ASSUME HoldsUrl(p)' PROVE ~UrlBusy(p)'
    BY <2>4 DEF Quiet, TableInv, EntryInv, UrlBusy, SameUrl
  <2> QED
    BY <2>1, <2>2, <2>3, <2>4
<1>5. RowsUnique'
  BY DEF Quiet, TableInv, RowsUnique, Like
<1> QED
  BY <1>3, <1>4, <1>5 DEF TableInv, EntryInv

\* Rewriting the etag of some rows, and removing rows.
LEMMA Rewritten ==
  ASSUME TypeOK, NEW K \in SUBSET table, NEW p \in Writers,
         table' = (table \ K) \union {[r EXCEPT !.etag = p] : r \in K}
  PROVE  \A s, t \in table' : \E q, r \in table : Like(s, q) /\ Like(t, r) /\ (q = r => s = t)
<1>1. \A r \in table : r \in RowType
  BY DEF TypeOK
<1>2. \A s \in table' : \E r \in table : /\ Like(s, r)
                                         /\ s = IF r \in K THEN [r EXCEPT !.etag = p] ELSE r
  <2> SUFFICES ASSUME NEW s \in table'
               PROVE  \E r \in table : /\ Like(s, r)
                                       /\ s = IF r \in K THEN [r EXCEPT !.etag = p] ELSE r
    OBVIOUS
  <2>1. CASE s \in table \ K
    BY <2>1 DEF Like
  <2>2. CASE s \in {[r EXCEPT !.etag = p] : r \in K}
    <3>1. PICK r \in K : s = [r EXCEPT !.etag = p]
      BY <2>2
    <3>2. Like(s, r)
      BY <3>1, <1>1, EtagType DEF Like
    <3> QED
      BY <3>1, <3>2
  <2> QED
    BY <2>1, <2>2
<1> QED
  BY <1>2

\* What every step leaves alone: the requests, and a creation that has ended.
LEMMA EndedStays ==
  ASSUME TypeOK, Next
  PROVE  /\ request' = request
         /\ \A p \in Creators : Created(p) => Created(p)' /\ id'[p] = id[p]
<1> USE DEF TypeOK, Goto, Created, Procs
<1>0. \A p \in Procs : pc[p] = "created" => pc[p] \in Ended
  BY DEF Ended
<1>1. ASSUME NEW p \in Creators, Create(p)
      PROVE  /\ request' = request
             /\ \A q \in Creators : Created(q) => Created(q)' /\ id'[q] = id[q]
  BY <1>1 DEF Create, CheckFile, PutFile, FindByUrl, WriteRow, NextId, InsertKey, KeyConflict,
       InsertUrl, UrlConflict, CommitRow, Conflict
<1>2. ASSUME NEW u \in Updaters, Update(u)
      PROVE  /\ request' = request
             /\ \A q \in Creators : Created(q) => Created(q)' /\ id'[q] = id[q]
  BY <1>2, IdsAssumption DEF Update, LoadRow, ReplaceFile, SaveRow, Finders
<1>3. ASSUME NEW d \in Deleters, Delete(d)
      PROVE  /\ request' = request
             /\ \A q \in Creators : Created(q) => Created(q)' /\ id'[q] = id[q]
  BY <1>3, IdsAssumption DEF Delete, LoadRow, EraseFile, DeleteRow, Finders
<1>4. ASSUME NEW p \in Procs, Fail(p)
      PROVE  /\ request' = request
             /\ \A q \in Creators : Created(q) => Created(q)' /\ id'[q] = id[q]
  BY <1>4, <1>0 DEF Fail
<1> QED
  BY <1>1, <1>2, <1>3, <1>4 DEF Next

\* A step of x to a label outside the insert, which changes no other request.
LEMMA QuietStep ==
  ASSUME TypeOK, Next, NEW x \in Procs, NEW l, l \notin {"url", "commit"},
         Goto(x, l), \A p \in Procs \ {x} : id'[p] = id[p],
         \A s, t \in table' : \E q, r \in table : Like(s, q) /\ Like(t, r) /\ (q = r => s = t)
  PROVE  Quiet
<1>1. \A p \in Creators : /\ HoldsKey(p)' => HoldsKey(p) /\ id'[p] = id[p]
                          /\ HoldsUrl(p)' => HoldsUrl(p)
  BY DEF TypeOK, Goto, HoldsKey, HoldsUrl, Procs
<1> QED
  BY <1>1, EndedStays DEF Quiet

LEMMA SameRows == UNCHANGED table =>
  \A s, t \in table' : \E q, r \in table : Like(s, q) /\ Like(t, r) /\ (q = r => s = t)
  BY DEF Like

LEMMA StepTable == TypeOK /\ TableInv /\ [Next]_vars => TableInv'
<1> SUFFICES ASSUME TypeOK, TableInv, [Next]_vars PROVE TableInv'
  OBVIOUS
<1>0. CASE UNCHANGED vars
  <2>1. Quiet
    BY <1>0, SameRows DEF vars, Quiet, Created, HoldsKey, HoldsUrl
  <2> QED
    BY <2>1, QuietTable
<1> SUFFICES ASSUME Next PROVE TableInv'
  BY <1>0
<1>a. request \in [Creators -> RequestType] /\ pc \in [Procs -> Labels] /\ id \in [Procs -> Nat]
  BY DEF TypeOK
<1>1. ASSUME NEW p \in Creators, InsertKey(p) PROVE TableInv'
  <2>1. /\ UNCHANGED <<request, table, id>> /\ pc' = [pc EXCEPT ![p] = "url"] /\ p \in Procs
        /\ pc[p] = "key"
    BY <1>1 DEF InsertKey, Goto, Procs
  <2>2. KeyRows(p) = {} /\ ~KeyBusy(p)
    BY <1>1 DEF InsertKey
  <2>3. RowInv' /\ RowsUnique'
    BY <2>1, <1>a DEF TableInv, RowInv, RowsUnique, Created, TypeOK, RowType, Procs
  <2>4. \A q \in Creators : HoldsKey(q)' <=> HoldsKey(q) \/ q = p
    BY <2>1, <1>a DEF HoldsKey, Procs
  <2>5. \A q \in Creators : HoldsUrl(q)' <=> HoldsUrl(q)
    BY <2>1, <1>a DEF HoldsUrl, Procs
  <2>6. \A q \in Creators : HoldsKey(q)' => KeyRows(q)' = {}
    BY <2>1, <2>2, <2>4 DEF TableInv, EntryInv, KeyRows, Visible
  <2>7. \A q \in Creators : HoldsKey(q)' => ~KeyBusy(q)'
    BY <2>1, <2>2, <2>4 DEF TableInv, EntryInv, KeyBusy, SameKey
  <2>8. \A q \in Creators : HoldsUrl(q)' => UrlRows(q)' = {} /\ ~UrlBusy(q)'
    BY <2>1, <2>5 DEF TableInv, EntryInv, UrlRows, UrlBusy, SameUrl
  <2> QED
    BY <2>3, <2>6, <2>7, <2>8 DEF TableInv, EntryInv
<1>2. ASSUME NEW p \in Creators, InsertUrl(p) PROVE TableInv'
  <2>1. /\ UNCHANGED <<request, table, id>> /\ pc' = [pc EXCEPT ![p] = "commit"] /\ p \in Procs
        /\ pc[p] = "url"
    BY <1>2 DEF InsertUrl, Goto, Procs
  <2>2. UrlRows(p) = {} /\ ~UrlBusy(p)
    BY <1>2 DEF InsertUrl
  <2>3. RowInv' /\ RowsUnique'
    BY <2>1, <1>a DEF TableInv, RowInv, RowsUnique, Created, TypeOK, RowType, Procs
  <2>4. \A q \in Creators : HoldsKey(q)' <=> HoldsKey(q)
    BY <2>1, <1>a DEF HoldsKey, Procs
  <2>5. \A q \in Creators : HoldsUrl(q)' <=> HoldsUrl(q) \/ q = p
    BY <2>1, <1>a DEF HoldsUrl, Procs
  <2>6. \A q \in Creators : HoldsKey(q)' => KeyRows(q)' = {} /\ ~KeyBusy(q)'
    BY <2>1, <2>4 DEF TableInv, EntryInv, KeyRows, Visible, KeyBusy, SameKey
  <2>7. \A q \in Creators : HoldsUrl(q)' => UrlRows(q)' = {}
    BY <2>1, <2>2, <2>5 DEF TableInv, EntryInv, UrlRows
  <2>8. \A q \in Creators : HoldsUrl(q)' => ~UrlBusy(q)'
    BY <2>1, <2>2, <2>5 DEF TableInv, EntryInv, UrlBusy, SameUrl
  <2> QED
    BY <2>3, <2>6, <2>7, <2>8 DEF TableInv, EntryInv
<1>3. ASSUME NEW p \in Creators, CommitRow(p) PROVE TableInv'
  <2>1. /\ UNCHANGED <<request, id>> /\ pc' = [pc EXCEPT ![p] = "created"] /\ p \in Procs
        /\ table' = table \union {NewRow(p)} /\ HoldsKey(p) /\ HoldsUrl(p)
    BY <1>3 DEF CommitRow, Goto, Procs, HoldsKey, HoldsUrl
  <2>2. /\ NewRow(p).channel = request[p].channel /\ NewRow(p).id = id[p]
        /\ NewRow(p).url = request[p].url /\ NewRow(p).by = p
    BY DEF NewRow
  <2>3. RowInv'
    BY <2>1, <2>2, <1>a DEF TableInv, RowInv, Created, TypeOK, RowType, Procs
  <2>4. RowsUnique'
    BY <2>1, <2>2 DEF TableInv, RowsUnique, EntryInv, KeyRows, UrlRows, Visible
  <2>5. \A q \in Creators : /\ HoldsKey(q)' => HoldsKey(q) /\ q # p
                            /\ HoldsUrl(q)' => HoldsUrl(q) /\ q # p
    BY <2>1, <1>a DEF HoldsKey, HoldsUrl, Procs
  <2>6. ASSUME NEW q \in Creators, HoldsKey(q)' PROVE KeyRows(q)' = {}
    <3>1. ~SameKey(p, q) /\ KeyRows(q) = {}
      BY <2>1, <2>5, <2>6 DEF TableInv, EntryInv, KeyBusy, SameKey
    <3> QED
      BY <3>1, <2>1, <2>2 DEF KeyRows, Visible, SameKey
  <2>7. ASSUME NEW q \in Creators, HoldsUrl(q)' PROVE UrlRows(q)' = {}
    <3>1. ~SameUrl(p, q) /\ UrlRows(q) = {}
      BY <2>1, <2>5, <2>7 DEF TableInv, EntryInv, UrlBusy, SameUrl
    <3> QED
      BY <3>1, <2>1, <2>2 DEF UrlRows, SameUrl
  <2>8. \A q \in Creators : /\ HoldsKey(q)' => ~KeyBusy(q)'
                            /\ HoldsUrl(q)' => ~UrlBusy(q)'
    BY <2>1, <2>5 DEF TableInv, EntryInv, KeyBusy, UrlBusy, SameKey, SameUrl
  <2> QED
    BY <2>3, <2>4, <2>6, <2>7, <2>8 DEF TableInv, EntryInv
<1>4. ASSUME NEW p \in Creators,
             CheckFile(p) \/ PutFile(p) \/ FindByUrl(p) \/ WriteRow(p) \/ NextId(p)
               \/ KeyConflict(p) \/ UrlConflict(p)
      PROVE  TableInv'
  <2>1. \E l \in {"refused", "put", "find", "next", "write", "failed", "updated", "key", "gaveup"} :
          Goto(p, l)
    BY <1>4 DEF CheckFile, PutFile, FindByUrl, WriteRow, NextId, KeyConflict, UrlConflict, Conflict
  <2>2. \A q \in Procs \ {p} : id'[q] = id[q]
    BY <1>4, <1>a DEF CheckFile, PutFile, FindByUrl, WriteRow, NextId, KeyConflict, UrlConflict
  <2>3. KeyRows(p) \in SUBSET table
    BY DEF KeyRows, Visible
  <2>4. \A s, t \in table' : \E q, r \in table : Like(s, q) /\ Like(t, r) /\ (q = r => s = t)
    <3>1. CASE WriteRow(p)
      BY <3>1, <2>3, Rewritten DEF WriteRow, Writers
    <3>2. CASE ~WriteRow(p)
      BY <3>2, <1>4, SameRows DEF CheckFile, PutFile, FindByUrl, NextId, KeyConflict, UrlConflict
    <3> QED
      BY <3>1, <3>2
  <2>5. Quiet
    BY <2>1, <2>2, <2>4, QuietStep DEF Procs
  <2> QED
    BY <2>5, QuietTable
<1>5. ASSUME NEW x \in Procs, Fail(x) PROVE TableInv'
  <2>1. Goto(x, "failed") /\ UNCHANGED <<id, table>>
    BY <1>5 DEF Fail
  <2>2. Quiet
    BY <2>1, SameRows, QuietStep
  <2> QED
    BY <2>2, QuietTable
<1>6. ASSUME NEW x \in Finders,
             LoadRow(x) \/ ReplaceFile(x) \/ (SaveRow(x) /\ x \in Updaters)
               \/ EraseFile(x) \/ DeleteRow(x)
      PROVE  TableInv'
  <2>1. \E l \in {"missing", "replace", "save", "failed", "updated", "erase", "delete", "deleted"} :
          Goto(x, l)
    BY <1>6 DEF LoadRow, ReplaceFile, SaveRow, EraseFile, DeleteRow
  <2>2. \A q \in Procs \ {x} : id'[q] = id[q]
    BY <1>6, <1>a DEF LoadRow, ReplaceFile, SaveRow, EraseFile, DeleteRow
  <2>3. LoadedRows(x) \in SUBSET table
    BY DEF LoadedRows
  <2>4. \A s, t \in table' : \E q, r \in table : Like(s, q) /\ Like(t, r) /\ (q = r => s = t)
    <3>1. CASE SaveRow(x) /\ x \in Updaters
      BY <3>1, <2>3, Rewritten DEF SaveRow, Writers
    <3>2. CASE DeleteRow(x)
      BY <3>2 DEF DeleteRow, Like
    <3>3. CASE LoadRow(x) \/ ReplaceFile(x) \/ EraseFile(x)
      BY <3>3, SameRows DEF LoadRow, ReplaceFile, EraseFile
    <3> QED
      BY <3>1, <3>2, <3>3, <1>6
  <2>5. Quiet
    BY <2>1, <2>2, <2>4, QuietStep DEF Procs
  <2> QED
    BY <2>5, QuietTable
<1>7. ASSUME NEW p \in Creators, Create(p) PROVE TableInv'
  BY <1>1, <1>2, <1>3, <1>4, <1>7 DEF Create
<1>8. ASSUME NEW u \in Updaters, Update(u) PROVE TableInv'
  BY <1>6, <1>8 DEF Update, Finders
<1>9. ASSUME NEW d \in Deleters, Delete(d) PROVE TableInv'
  BY <1>6, <1>9 DEF Delete, Finders
<1> QED
  BY <1>5, <1>7, <1>8, <1>9 DEF Next

\* However many creations race for the next id, and whatever is deleted
\* meanwhile, an id names one document of a channel and a url one document.
THEOREM RowsUniqueCorrect == Spec => []RowsUnique
<1>1. TypeInv /\ TableInv /\ [Next]_vars => (TypeInv /\ TableInv)'
  BY StepType, StepTable DEF TypeInv
<1>2. Spec => [](TypeInv /\ TableInv)
  BY <1>1, InitType, InitTable, PTL DEF Spec
<1>3. TypeInv /\ TableInv => RowsUnique
  BY DEF TableInv
<1> QED
  BY <1>2, <1>3, PTL

(***************************************************************************)
(* Giving up.  Every attempt that failed on an id was lost to a creation   *)
(* that had not beaten this one before, because the next attempt takes an  *)
(* id greater than those of all rows.                                      *)
(***************************************************************************)
Rival(p) == \E q \in Creators \ {p} : Created(q) /\ SameUrl(p, q)

Winners(p) == {q \in Creators \ {p} :
                 Created(q) /\ request[q].channel = request[p].channel}

BeatenInv == \A p \in Creators :
  /\ beaten[p] \subseteq Winners(p)
  /\ pc[p] = "key" => \A r \in KeyRows(p) : r.by \notin beaten[p]
  /\ tries[p] <= Cardinality(beaten[p]) \/ Rival(p)

LEMMA InitBeaten == Init => BeatenInv
<1> SUFFICES ASSUME Init, NEW p \in Creators
             PROVE  beaten[p] = {} /\ table = {} /\ tries[p] = 0
  BY FS_EmptySet DEF BeatenInv, KeyRows, Visible
<1> QED
  BY DEF Init

\* Nobody loses a row's key to an attempt that took a fresh id.
LEMMA FreshId == ASSUME TypeOK, NEW p \in Creators, NEW n \in NextIds(p)
                 PROVE  \A r \in Visible(p) : r.id < n
<1>1. \A r \in Visible(p) : r.id \in Nat
  BY DEF TypeOK, RowType, Visible
<1>2. ASSUME NEW s \in Visible(p) PROVE s.id < n
  <2>1. PICK r \in Last(p) : n = r.id + 1
    BY <1>2 DEF NextIds
  <2>2. s.id <= r.id /\ r \in Visible(p)
    BY <2>1, <1>2 DEF Last
  <2> QED
    BY <1>1, <1>2, <2>1, <2>2
<1> QED
  BY <1>2

\* A committed row was there before, up to its etag, or is being committed.
LEMMA RowOrigin ==
  ASSUME TypeOK, Next
  PROVE  \A s \in table' : \/ \E r \in table : Like(s, r)
                           \/ \E q \in Creators : pc[q] = "commit" /\ s.by = q
<1>1. ASSUME NEW p \in Creators, WriteRow(p) PROVE \A s \in table' : \E r \in table : Like(s, r)
  <2>1. KeyRows(p) \in SUBSET table
    BY DEF KeyRows, Visible
  <2> QED
    BY <2>1, <1>1, Rewritten DEF WriteRow, Writers
<1>2. ASSUME NEW u \in Updaters, SaveRow(u) PROVE \A s \in table' : \E r \in table : Like(s, r)
  <2>1. LoadedRows(u) \in SUBSET table
    BY DEF LoadedRows
  <2> QED
    BY <2>1, <1>2, Rewritten DEF SaveRow, Writers
<1>3. ASSUME NEW p \in Creators, CommitRow(p)
      PROVE  \A s \in table' : (\E r \in table : Like(s, r)) \/ (pc[p] = "commit" /\ s.by = p)
  BY <1>3 DEF CommitRow, NewRow, Like
<1>4. ASSUME NEW p \in Creators, Create(p), ~WriteRow(p), ~CommitRow(p) PROVE table' = table
  BY <1>4 DEF Create, CheckFile, PutFile, FindByUrl, NextId, InsertKey, KeyConflict, InsertUrl,
       UrlConflict
<1>5. ASSUME NEW u \in Updaters, Update(u), ~SaveRow(u) PROVE table' = table
  BY <1>5 DEF Update, LoadRow, ReplaceFile
<1>6. ASSUME NEW d \in Deleters, Delete(d) PROVE table' \subseteq table
  BY <1>6 DEF Delete, LoadRow, EraseFile, DeleteRow
<1>7. ASSUME NEW p \in Procs, Fail(p) PROVE table' = table
  BY <1>7 DEF Fail
<1>8. \A r \in table : Like(r, r)
  BY DEF Like
<1> QED
  BY <1>1, <1>2, <1>3, <1>4, <1>5, <1>6, <1>7, <1>8 DEF Next

\* The request of p does not lose, and none but its own steps touch its part.
Aside(p) ==
  /\ tries'[p] = tries[p] /\ beaten'[p] = beaten[p]
  /\ pc'[p] = "key" => pc[p] = "key" /\ id'[p] = id[p]

LEMMA AsideBeaten ==
  ASSUME TypeOK, TableInv, BeatenInv, Next, NEW p \in Creators, Aside(p)
  PROVE  /\ beaten'[p] \subseteq Winners(p)'
         /\ pc'[p] = "key" => \A r \in KeyRows(p)' : r.by \notin beaten'[p]
         /\ tries'[p] <= Cardinality(beaten'[p]) \/ Rival(p)'
<1>1. /\ request' = request
      /\ \A q \in Creators : Created(q) => Created(q)'
  BY EndedStays
<1>2. beaten'[p] \subseteq Winners(p)'
  BY <1>1 DEF Aside, BeatenInv, Winners
<1>3. ASSUME pc'[p] = "key", NEW s \in KeyRows(p)' PROVE s.by \notin beaten'[p]
  <2>1. pc[p] = "key" /\ id'[p] = id[p] /\ beaten'[p] = beaten[p]
    BY <1>3 DEF Aside
  <2>2. s \in table' /\ s.id = id[p] /\ s.channel = request[p].channel
    BY <1>3, <1>1, <2>1 DEF KeyRows, Visible
  <2>3. CASE \E r \in table : Like(s, r)
    BY <2>1, <2>2, <2>3 DEF BeatenInv, KeyRows, Visible, Like
  <2>4. CASE \E q \in Creators : pc[q] = "commit" /\ s.by = q
    BY <2>1, <2>4 DEF BeatenInv, Winners, Created
  <2> QED
    BY <2>2, <2>3, <2>4, RowOrigin
<1>4. tries'[p] <= Cardinality(beaten'[p]) \/ Rival(p)'
  BY <1>1 DEF Aside, BeatenInv, Rival, SameUrl
<1> QED
  BY <1>2, <1>3, <1>4

LEMMA StepBeaten == TypeInv /\ TableInv /\ BeatenInv /\ [Next]_vars => BeatenInv'
<1> SUFFICES ASSUME TypeInv, TableInv, BeatenInv, [Next]_vars PROVE BeatenInv'
  OBVIOUS
<1>0. CASE UNCHANGED vars
  BY <1>0 DEF vars, BeatenInv, Winners, Created, KeyRows, Visible, Rival, SameUrl
<1> SUFFICES ASSUME Next, NEW p \in Creators
             PROVE  /\ beaten'[p] \subseteq Winners(p)'
                    /\ pc'[p] = "key" => \A r \in KeyRows(p)' : r.by \notin beaten'[p]
                    /\ tries'[p] <= Cardinality(beaten'[p]) \/ Rival(p)'
  BY <1>0 DEF BeatenInv
<1> DEFINE Goal == /\ beaten'[p] \subseteq Winners(p)'
                   /\ pc'[p] = "key" => \A r \in KeyRows(p)' : r.by \notin beaten'[p]
                   /\ tries'[p] <= Cardinality(beaten'[p]) \/ Rival(p)'
<1>a. /\ TypeOK /\ pc \in [Procs -> Labels] /\ id \in [Procs -> Nat] /\ p \in Procs
      /\ tries \in [Creators -> 0..Attempts] /\ beaten \in [Creators -> SUBSET Creators]
  BY DEF TypeInv, TypeOK, Procs
<1>b. request' = request /\ \A q \in Creators : Created(q) => Created(q)'
  BY <1>a, EndedStays
<1>c. \A r \in table : /\ r.by \in Creators /\ Created(r.by)
                       /\ r.url = request[r.by].url /\ r.channel = request[r.by].channel
  BY <1>a DEF TypeOK, RowType, TableInv, RowInv
<1>1. CASE NextId(p)
  <2>1. PICK n \in NextIds(p) : id' = [id EXCEPT ![p] = n]
    BY <1>1 DEF NextId
  <2>2. /\ UNCHANGED <<table, tries, beaten>> /\ id'[p] = n
    BY <1>1, <2>1, <1>a DEF NextId
  <2>3. \A r \in Visible(p) : r.id < n /\ r.id \in Nat
    BY <1>a, FreshId DEF TypeOK, RowType, Visible
  <2>4. KeyRows(p)' = {}
    BY <2>2, <2>3, <1>b DEF KeyRows, Visible
  <2>5. beaten'[p] \subseteq Winners(p)' /\ (tries'[p] <= Cardinality(beaten'[p]) \/ Rival(p)')
    BY <2>2, <1>b DEF BeatenInv, Winners, Rival, SameUrl
  <2> QED
    BY <2>4, <2>5
<1>2. CASE KeyConflict(p)
  <2> DEFINE Takers == {r.by : r \in KeyRows(p)}
  <2>1. /\ beaten'[p] = beaten[p] \union Takers /\ tries'[p] = tries[p] + 1
        /\ pc[p] = "key" /\ pc'[p] # "key" /\ KeyRows(p) # {}
    BY <1>2, <1>a DEF KeyConflict, Conflict, Goto
  <2>2. Takers \subseteq Winners(p)
    BY <2>1, <1>c DEF KeyRows, Visible, Winners, Created
  <2>3. beaten'[p] \subseteq Winners(p)'
    BY <2>1, <2>2, <1>b DEF BeatenInv, Winners
  <2>4. PICK w \in Takers : w \notin beaten[p]
    BY <2>1 DEF BeatenInv
  <2>5. IsFiniteSet(beaten[p]) /\ IsFiniteSet(beaten'[p])
    <3>1. beaten[p] \subseteq Creators /\ beaten'[p] \subseteq Creators
      BY <1>a, <2>3 DEF Winners
    <3> QED
      BY <3>1, FS_Subset, IdsAssumption
  <2>6. Cardinality(beaten[p]) + 1 <= Cardinality(beaten'[p])
    <3>1. Cardinality(beaten[p] \union {w}) = Cardinality(beaten[p]) + 1
      BY <2>4, <2>5, FS_AddElement
    <3>2. beaten[p] \union {w} \subseteq beaten'[p]
      BY <2>1, <2>4
    <3> QED
      BY <3>1, <3>2, <2>5, FS_Subset
  <2>7. tries'[p] <= Cardinality(beaten'[p]) \/ Rival(p)'
    <3>1. CASE tries[p] <= Cardinality(beaten[p])
      <4>1. /\ Cardinality(beaten[p]) \in Nat /\ Cardinality(beaten'[p]) \in Nat
            /\ tries[p] \in Nat
        BY <2>5, <1>a, FS_CardinalityType, IdsAssumption
      <4> QED
        BY <3>1, <4>1, <2>1, <2>6
    <3>2. CASE Rival(p)
      BY <3>2, <1>b DEF Rival, SameUrl
    <3> QED
      BY <3>1, <3>2 DEF BeatenInv
  <2> QED
    BY <2>1, <2>3, <2>7
<1>3. CASE UrlConflict(p)
  <2>1. beaten' = beaten /\ pc[p] = "url" /\ pc'[p] # "key"
    BY <1>3, <1>a DEF UrlConflict, Conflict, Goto
  <2>2. PICK r \in UrlRows(p) : TRUE
    BY <1>3 DEF UrlConflict
  <2>3. Rival(p)
    BY <2>1, <2>2, <1>c DEF UrlRows, Rival, SameUrl, Created
  <2>4. Rival(p)'
    BY <2>3, <1>b DEF Rival, SameUrl
  <2>5. beaten'[p] \subseteq Winners(p)'
    BY <2>1, <1>b DEF BeatenInv, Winners
  <2> QED
    BY <2>1, <2>4, <2>5
<1>4. CASE ~NextId(p) /\ ~KeyConflict(p) /\ ~UrlConflict(p)
  <2>1. ASSUME Create(p) PROVE Aside(p)
    BY <2>1, <1>4, <1>a DEF Create, CheckFile, PutFile, FindByUrl, WriteRow, InsertKey, InsertUrl,
         CommitRow, Goto, Aside
  <2>2. ASSUME NEW q \in Creators, q # p, Create(q) PROVE Aside(p)
    BY <2>2, <1>a DEF Create, CheckFile, PutFile, FindByUrl, WriteRow, NextId, InsertKey,
         KeyConflict, InsertUrl, UrlConflict, CommitRow, Conflict, Goto, Aside
  <2>3. ASSUME NEW u \in Updaters, Update(u) PROVE Aside(p)
    BY <2>3, <1>a, IdsAssumption DEF Update, LoadRow, ReplaceFile, SaveRow, Finders, Goto, Aside
  <2>4. ASSUME NEW d \in Deleters, Delete(d) PROVE Aside(p)
    BY <2>4, <1>a, IdsAssumption DEF Delete, LoadRow, EraseFile, DeleteRow, Finders, Goto, Aside
  <2>5. ASSUME NEW q \in Procs, Fail(q) PROVE Aside(p)
    BY <2>5, <1>a DEF Fail, Goto, Aside
  <2>6. Aside(p)
    BY <2>1, <2>2, <2>3, <2>4, <2>5 DEF Next
  <2> QED
    BY <2>6, <1>a, AsideBeaten
<1> QED
  BY <1>1, <1>2, <1>3, <1>4

\* A creation gives up only because another one took its url, or because at
\* least `Attempts` other creations of its channel succeeded: the retry of
\* _create_document is enough for any smaller number of them.
THEOREM GivesUpForCauseCorrect == Spec => []GivesUpForCause
<1>1. TypeInv /\ TableInv /\ BeatenInv /\ [Next]_vars => (TypeInv /\ TableInv /\ BeatenInv)'
  BY StepType, StepTable, StepBeaten DEF TypeInv
<1>2. Spec => [](TypeInv /\ TableInv /\ BeatenInv)
  BY <1>1, InitType, InitTable, InitBeaten, PTL DEF Spec
<1>3. TypeInv /\ TableInv /\ BeatenInv => GivesUpForCause
  <2> SUFFICES ASSUME TypeInv, BeatenInv, NEW p \in Creators, pc[p] = "gaveup", ~Rival(p)
               PROVE  Cardinality(Winners(p)) >= Attempts
    BY DEF GivesUpForCause, Rival, Winners
  <2>1. Attempts <= Cardinality(beaten[p]) /\ beaten[p] \subseteq Winners(p)
    BY DEF TypeInv, TriesInv, BeatenInv
  <2>2. IsFiniteSet(Winners(p)) /\ IsFiniteSet(beaten[p])
    BY <2>1, FS_Subset, IdsAssumption DEF Winners
  <2>3. Cardinality(beaten[p]) <= Cardinality(Winners(p))
    BY <2>1, <2>2, FS_Subset
  <2> QED
    BY <2>1, <2>2, <2>3, FS_CardinalityType, IdsAssumption
<1> QED
  BY <1>2, <1>3, PTL

(***************************************************************************)
(* A row, once committed, stays until its id is deleted.                   *)
(***************************************************************************)
KeptInv == \A p \in Creators : Created(p) => Erased(p) \/ \E r \in table : r.by = p

LEMMA KeptRewritten ==
  ASSUME TypeOK, NEW K \in SUBSET table, NEW p \in Writers,
         table' = (table \ K) \union {[r EXCEPT !.etag = p] : r \in K}
  PROVE  \A r \in table : \E s \in table' : s.by = r.by
<1> SUFFICES ASSUME NEW r \in table PROVE \E s \in table' : s.by = r.by
  OBVIOUS
<1>1. CASE r \in K
  <2>1. [r EXCEPT !.etag = p].by = r.by /\ [r EXCEPT !.etag = p] \in table'
    BY <1>1, EtagType DEF TypeOK
  <2> QED
    BY <2>1
<1>2. CASE r \notin K
  BY <1>2
<1> QED
  BY <1>1, <1>2

LEMMA DeletedStays ==
  ASSUME TypeOK, Next, NEW d \in Deleters, pc[d] = "deleted"
  PROVE  pc'[d] = pc[d] /\ id'[d] = id[d] /\ loaded'[d] = loaded[d]
<1> USE DEF TypeOK, Goto, Procs, Finders
<1>1. ASSUME NEW p \in Creators, Create(p)
      PROVE  pc'[d] = pc[d] /\ id'[d] = id[d] /\ loaded'[d] = loaded[d]
  BY <1>1, IdsAssumption DEF Create, CheckFile, PutFile, FindByUrl, WriteRow, NextId, InsertKey,
       KeyConflict, InsertUrl, UrlConflict, CommitRow, Conflict
<1>2. ASSUME NEW u \in Updaters, Update(u)
      PROVE  pc'[d] = pc[d] /\ id'[d] = id[d] /\ loaded'[d] = loaded[d]
  BY <1>2, IdsAssumption DEF Update, LoadRow, ReplaceFile, SaveRow
<1>3. ASSUME NEW e \in Deleters, Delete(e)
      PROVE  pc'[d] = pc[d] /\ id'[d] = id[d] /\ loaded'[d] = loaded[d]
  BY <1>3 DEF Delete, LoadRow, EraseFile, DeleteRow
<1>4. ASSUME NEW x \in Procs, Fail(x)
      PROVE  pc'[d] = pc[d] /\ id'[d] = id[d] /\ loaded'[d] = loaded[d]
  BY <1>4 DEF Fail, Ended
<1> QED
  BY <1>1, <1>2, <1>3, <1>4 DEF Next

LEMMA StepKept == TypeInv /\ TableInv /\ KeptInv /\ [Next]_vars => KeptInv'
<1> SUFFICES ASSUME TypeInv, TableInv, KeptInv, [Next]_vars
             PROVE  \A q \in Creators : Created(q)' => Erased(q)' \/ \E r \in table' : r.by = q
  BY DEF KeptInv
<1>t. TypeOK
  BY DEF TypeInv
<1>0. CASE UNCHANGED vars
  BY <1>0 DEF vars, KeptInv, Created, Erased
<1>a. pc \in [Procs -> Labels]
  BY <1>t DEF TypeOK
\* What was erased stays erased.
<1>e. ASSUME Next, NEW q \in Creators, Created(q), Erased(q) PROVE Erased(q)'
  <2>1. request' = request /\ id'[q] = id[q]
    BY <1>e, <1>t, EndedStays
  <2>2. PICK d \in Deleters : /\ pc[d] = "deleted" /\ id[d] = id[q]
                              /\ loaded[d].channel = request[q].channel
    BY <1>e DEF Erased
  <2>3. pc'[d] = pc[d] /\ id'[d] = id[d] /\ loaded'[d] = loaded[d]
    BY <1>e, <1>t, <2>2, DeletedStays
  <2> QED
    BY <2>1, <2>2, <2>3 DEF Erased
<1>1. ASSUME NEW p \in Creators, CommitRow(p)
      PROVE  \A q \in Creators : Created(q)' => Erased(q)' \/ \E r \in table' : r.by = q
  <2>1. NewRow(p) \in table' /\ NewRow(p).by = p /\ table \subseteq table'
    BY <1>1 DEF CommitRow, NewRow
  <2>2. \A q \in Creators : Created(q)' => Created(q) \/ q = p
    BY <1>1, <1>a DEF CommitRow, Goto, Created, Procs
  <2> QED
    BY <1>1, <2>1, <2>2, <1>e DEF KeptInv, Next, Create
\* Any other step creates nothing and keeps the author of every row.
<1>b. ASSUME Next,
             \A r \in table : \E s \in table' : s.by = r.by,
             \A q \in Creators : Created(q)' => Created(q)
      PROVE  \A q \in Creators : Created(q)' => Erased(q)' \/ \E r \in table' : r.by = q
  BY <1>b, <1>e DEF KeptInv
<1>2. ASSUME NEW p \in Creators, Create(p), ~CommitRow(p)
      PROVE  \A q \in Creators : Created(q)' => Erased(q)' \/ \E r \in table' : r.by = q
  <2>1. \A q \in Creators : Created(q)' => Created(q)
    BY <1>2, <1>a DEF Create, CheckFile, PutFile, FindByUrl, WriteRow, NextId, InsertKey,
         KeyConflict, InsertUrl, UrlConflict, Conflict, Goto, Created, Procs
  <2>2. \A r \in table : \E s \in table' : s.by = r.by
    <3>1. CASE WriteRow(p)
      <4>1. KeyRows(p) \in SUBSET table
        BY DEF KeyRows, Visible
      <4> QED
        BY <3>1, <4>1, <1>t, KeptRewritten DEF WriteRow, Writers
    <3>2. CASE ~WriteRow(p)
      BY <3>2, <1>2 DEF Create, CheckFile, PutFile, FindByUrl, NextId, InsertKey, KeyConflict,
           InsertUrl, UrlConflict
    <3> QED
      BY <3>1, <3>2
  <2> QED
    BY <1>2, <2>1, <2>2, <1>b DEF Next
<1>3. ASSUME NEW u \in Updaters, Update(u)
      PROVE  \A q \in Creators : Created(q)' => Erased(q)' \/ \E r \in table' : r.by = q
  <2>1. \A q \in Creators : Created(q)' => Created(q)
    BY <1>3, <1>a, IdsAssumption DEF Update, LoadRow, ReplaceFile, SaveRow, Goto, Created, Procs,
         Finders
  <2>2. \A r \in table : \E s \in table' : s.by = r.by
    <3>1. CASE SaveRow(u)
      <4>1. LoadedRows(u) \in SUBSET table
        BY DEF LoadedRows
      <4> QED
        BY <3>1, <4>1, <1>t, KeptRewritten DEF SaveRow, Writers
    <3>2. CASE ~SaveRow(u)
      BY <3>2, <1>3 DEF Update, LoadRow, ReplaceFile
    <3> QED
      BY <3>1, <3>2
  <2> QED
    BY <1>3, <2>1, <2>2, <1>b DEF Next
<1>4. ASSUME NEW x \in Procs, Fail(x)
      PROVE  \A q \in Creators : Created(q)' => Erased(q)' \/ \E r \in table' : r.by = q
  BY <1>4, <1>a, <1>b DEF Fail, Goto, Created, Procs, Next
<1>5. ASSUME NEW d \in Deleters, Delete(d)
      PROVE  \A q \in Creators : Created(q)' => Erased(q)' \/ \E r \in table' : r.by = q
  <2>1. \A q \in Creators : Created(q)' => Created(q)
    BY <1>5, <1>a, IdsAssumption DEF Delete, LoadRow, EraseFile, DeleteRow, Goto, Created, Procs,
         Finders
  <2>2. CASE ~DeleteRow(d)
    <3>1. table' = table
      BY <2>2, <1>5 DEF Delete, LoadRow, EraseFile
    <3> QED
      BY <1>5, <2>1, <3>1, <1>b DEF Next
  <2>3. CASE DeleteRow(d)
    <3> SUFFICES ASSUME NEW q \in Creators, Created(q), ~Erased(q)'
                 PROVE  \E r \in table' : r.by = q
      BY <2>1
    <3>1. ~Erased(q)
      BY <1>5, <1>e DEF Next
    <3>2. PICK r \in table : r.by = q
      BY <3>1 DEF KeptInv
    <3>3. r.id = id[q] /\ r.channel = request[q].channel
      BY <3>2 DEF TableInv, RowInv
    <3>4. pc'[d] = "deleted" /\ id' = id /\ loaded' = loaded /\ request' = request
      BY <2>3, <1>a DEF DeleteRow, Goto, Procs, Finders
    <3>5. r \notin LoadedRows(d)
      BY <3>3, <3>4 DEF LoadedRows, Erased
    <3> QED
      BY <2>3, <3>2, <3>5 DEF DeleteRow
  <2> QED
    BY <2>2, <2>3
<1> QED
  BY <1>0, <1>1, <1>2, <1>3, <1>4, <1>5 DEF Next

\* A created document keeps its id, its channel and its url until it is deleted.
THEOREM CreatedStaysCorrect == Spec => []CreatedStays
<1>1. Init => KeptInv
  BY DEF Init, KeptInv, Created, Procs
<1>2. TypeInv /\ TableInv /\ KeptInv /\ [Next]_vars => (TypeInv /\ TableInv /\ KeptInv)'
  BY StepType, StepTable, StepKept DEF TypeInv
<1>3. Spec => [](TypeInv /\ TableInv /\ KeptInv)
  BY <1>1, <1>2, InitType, InitTable, PTL DEF Spec
<1>4. TypeInv /\ TableInv /\ KeptInv => CreatedStays
  BY DEF KeptInv, TableInv, RowInv, CreatedStays
<1> QED
  BY <1>3, <1>4, PTL
=============================================================================
